-------------------------------- MODULE MCRfc --------------------------------
(***************************************************************************)
(* TLC instance of the two concurrent parts of sap-automate-rfc: the write *)
(* protocol and the metadata cache.  They share no state, so a behaviour   *)
(* has one focus: that part takes steps, the other stays in one initial    *)
(* state.  Attempts, keys and requests are interchangeable.                *)
(***************************************************************************)
EXTENDS WriteBapi, MetadataCache, TLC

VARIABLE focus
mcvars == <<focus, wvars, vars>>

MCInit ==
    /\ focus \in {"write", "cache"}
    /\ WriteInit /\ Init
    /\ focus = "write" => ~ttlZero
    /\ focus = "cache" => readOnly

MCNext ==
    \/ focus = "write" /\ WriteNext /\ UNCHANGED <<focus, vars>>
    \/ focus = "cache" /\ Next /\ UNCHANGED <<focus, wvars>>

MCSpec == MCInit /\ [][MCNext]_mcvars

RfcSymmetry == Permutations(Writers) \cup Permutations(Functions) \cup Permutations(Readers)
=============================================================================
