------------------------------- MODULE Memory -------------------------------
(***************************************************************************)
(* The working and the episodic tier (sap-automate-memory).  An append to  *)
(* a session's ring is one step under its lock.  Recording an episode is   *)
(* two: the entry list and the tag index have locks of their own, and      *)
(* other recorders and readers get between them.  An episode names a tag   *)
(* once: record indexes a tag it is given twice, and by_tag then returns   *)
(* the episode twice.                                                      *)
(***************************************************************************)
EXTENDS Naturals, Sequences, FiniteSets, SequencesExt

CONSTANTS
    Recorders,    \* concurrent callers of record
    Episode,      \* Episode[r]: the tenant ("any" for none) and tags r records
    Tags,
    Tenants,      \* the readers' tenants, "none" for a reader without one
    Cap,          \* WorkingMemory::cap
    Limit,        \* the entries assemble takes from each tier, 8 in the code
    MaxTurns      \* bound: turns of a session

\* with_capacity makes the capacity at least one.
ASSUME MemoryAssumption == IsFiniteSet(Recorders) /\ Cap \in Nat \ {0} /\ Limit \in Nat

VARIABLES
    ring,         \* the working entries of a session
    turns,        \* history: turns appended since the session was cleared
    entries,      \* EpisodicMemory::entries: who recorded each
    byTag,        \* EpisodicMemory::by_tag
    rpc,          \* rpc[r]: "idle", "pushed", "recorded"
    ridx          \* ridx[r]: the index of r's entry

workingVars == <<ring, turns>>
episodicVars == <<entries, byTag, rpc, ridx>>
mvars == <<workingVars, episodicVars>>

MemoryInit ==
    /\ ring = <<>>
    /\ turns = 0
    /\ entries = <<>>
    /\ byTag = [t \in Tags |-> <<>>]
    /\ rpc = [r \in Recorders |-> "idle"]
    /\ ridx = [r \in Recorders |-> 0]

\* WorkingMemory::append
AppendTurn ==
    /\ turns < MaxTurns
    /\ turns' = turns + 1
    /\ ring' = Append(IF Len(ring) = Cap THEN Tail(ring) ELSE ring, turns')
    /\ UNCHANGED episodicVars

\* WorkingMemory::clear
ClearSession == ring' = <<>> /\ turns' = 0 /\ UNCHANGED episodicVars

\* WorkingMemory::recent, newest first.
Recent(limit) == [k \in 1..Min({limit, Len(ring)}) |-> ring[Len(ring) + 1 - k]]

\* record, the entry.
PushEntry(r) ==
    /\ rpc[r] = "idle"
    /\ rpc' = [rpc EXCEPT ![r] = "pushed"]
    /\ entries' = Append(entries, r)
    /\ ridx' = [ridx EXCEPT ![r] = Len(entries')]
    /\ UNCHANGED <<byTag, workingVars>>

\* Mutant: the index is taken when the tags are written.
IndexTagsLate(r) ==
    /\ rpc[r] = "pushed"
    /\ rpc' = [rpc EXCEPT ![r] = "recorded"]
    /\ byTag' = [t \in Tags |-> IF t \in Episode[r].tags THEN Append(byTag[t], Len(entries))
                                ELSE byTag[t]]
    /\ UNCHANGED <<entries, ridx, workingVars>>

\* record, the index.
IndexTags(r) ==
    /\ rpc[r] = "pushed"
    /\ rpc' = [rpc EXCEPT ![r] = "recorded"]
    /\ byTag' = [t \in Tags |-> IF t \in Episode[r].tags THEN Append(byTag[t], ridx[r])
                                ELSE byTag[t]]
    /\ UNCHANGED <<entries, ridx, workingVars>>

\* The k-th of a set of numbers.
Nth(S, k) == CHOOSE x \in S : Cardinality({y \in S : y <= x}) = k

\* by_tag's filter: a reader without a tenant sees everything.
MaySee(reader, owner) == reader = "none" \/ owner \in {reader, "any"}

\* The places of the tag's index whose entries the tenant may see.
Visible(tag, tenant) ==
    {k \in DOMAIN byTag[tag] :
        /\ byTag[tag][k] \in DOMAIN entries
        /\ MaySee(tenant, Episode[entries[byTag[tag][k]]].tenant)}

\* EpisodicMemory::by_tag: the last indexed ones the tenant may see.
ByTag(tag, tenant, limit) ==
    LET seen == Visible(tag, tenant)
        n == Min({limit, Cardinality(seen)})
    IN [k \in 1..n |-> byTag[tag][Nth(seen, Cardinality(seen) - n + k)]]

\* assemble
Assemble(tag, tenant) == <<Recent(Limit), ByTag(tag, tenant, Limit)>>

MemoryNext ==
    \/ AppendTurn \/ ClearSession
    \/ \E r \in Recorders : PushEntry(r) \/ IndexTags(r)

MemorySpec == MemoryInit /\ [][MemoryNext]_mvars

-----------------------------------------------------------------------------

\* A context holds the latest turns of the session, newest first, and every
\* finished episode of the tag that the tenant may see, once, and nobody
\* else's, however recorders interleave between the two locks
\* (memory/lib.rs:92-168).
ContextIsRight ==
    \A tag \in Tags, tenant \in Tenants :
      LET context == Assemble(tag, tenant)
          kept == Min({turns, Cap, Limit})
          mine == {r \in Recorders : /\ rpc[r] = "recorded"
                                     /\ tag \in Episode[r].tags
                                     /\ MaySee(tenant, Episode[r].tenant)}
      IN /\ context[1] = [k \in 1..kept |-> turns + 1 - k]
         /\ {entries[i] : i \in ToSet(context[2])} \subseteq mine
         /\ Len(context[2]) = Min({Cardinality(mine), Limit})
         /\ IsInjective(context[2])
=============================================================================
