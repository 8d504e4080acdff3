--------------------------- MODULE MCToolServer ---------------------------
(***************************************************************************)
(* The tool server and the backends behind its handlers.  A behaviour has  *)
(* one focus: that part takes steps and the others stay in one initial     *)
(* state, so the run examines each part exhaustively by itself.            *)
(***************************************************************************)
EXTENDS ToolServer, RfcCatalogue, SoapXml, AdtXml, SapHttp, TLC

VARIABLE focus
mcvars == <<focus, tvars, cvars, xvars, avars, hvars>>

Parts == {"server", "catalogue", "soap", "adt_xml", "http"}

MCInit ==
    /\ focus \in Parts
    /\ ToolServerInit
    /\ CatalogueInit /\ (focus # "catalogue" => identity = <<>>)
    /\ SapHttpInit /\ (focus # "http" => auth = "static" /\ backend = "odata")
    /\ IF focus = "soap" THEN XmlInit
       ELSE XmlInit /\ sent = [kind |-> "deep"]
    /\ IF focus = "adt_xml" THEN AdtXmlInit
       ELSE AdtXmlInit /\ body = [form |-> "references", columns |-> 0, parts |-> <<>>]

MCNext ==
    \/ focus = "server" /\ ToolServerNext /\ UNCHANGED <<focus, cvars, xvars, avars, hvars>>
    \/ focus = "catalogue" /\ CatalogueNext /\ UNCHANGED <<focus, tvars, xvars, avars, hvars>>
    \/ focus = "soap" /\ XmlNext /\ UNCHANGED <<focus, tvars, cvars, avars, hvars>>
    \/ focus = "adt_xml" /\ AdtXmlNext /\ UNCHANGED <<focus, tvars, cvars, xvars, hvars>>
    \/ focus = "http" /\ SapHttpNext /\ UNCHANGED <<focus, tvars, cvars, xvars, avars>>

MCSpec == MCInit /\ [][MCNext]_mcvars

\* Requests of the HTTP clients are alike.
RequestSymmetry == Permutations(Requests)

-----------------------------------------------------------------------------
Plainest ==
    [vars |-> "none", named |-> FALSE, files |-> <<"absent", "absent", "absent">>,
     odata |-> "absent", agents |-> FALSE, transport |-> "stdio", bindable |-> TRUE,
     writes |-> FALSE, soap |-> FALSE, skills |-> {}, token |-> "none", origins |-> {}]
Fullest ==
    [Plainest EXCEPT !.vars = "all", !.named = TRUE, !.files = <<"absent", "http", "error">>,
                     !.odata = "complete", !.agents = TRUE,
                     !.skills = {"sap.skill.abap_code_review"}]

Live == [Fullest EXCEPT !.soap = TRUE]
Http(e, key, from) == [e EXCEPT !.transport = "http", !.token = key, !.origins = from]
Working == {[e EXCEPT !.writes = w] : w \in BOOLEAN,
              e \in {Plainest, Http(Plainest, "none", {}), Live, Http(Live, "secret", {}),
                     Http(Live, "secret", {"ui"})}}
Odd == {[Plainest EXCEPT !.vars = "some"], [Plainest EXCEPT !.named = TRUE],
        [Fullest EXCEPT !.files[1] = "error"], [Fullest EXCEPT !.files[1] = "mock"],
        [Plainest EXCEPT !.transport = "other"],
        [Plainest EXCEPT !.transport = "http", !.bindable = FALSE],
        [Plainest EXCEPT !.odata = "incomplete"]}
MCEnvironments == Working \cup Odd
MCClients == {[token |-> "none", origin |-> "none"], [token |-> "wrong", origin |-> "ui"],
              [token |-> "secret", origin |-> "none"], [token |-> "secret", origin |-> "ui"]}

MCQueries == [post |-> ("BAPI_ACC_DOCUMENT_POST" :> 2 @@ "BAPI_PO_CREATE1" :> 0),
              bapi |-> ("BAPI_PO_CREATE1" :> 1 @@ "BAPI_ACC_DOCUMENT_POST" :> 1
                        @@ "BAPI_TRANSACTION_COMMIT" :> 3),
              none |-> ("BAPI_PO_CREATE1" :> 0)]
Cond(column, rel, value) == [column |-> column, rel |-> rel, value |-> value]
MCSingle == {Cond("MTART", "=", <<"R", "O", "H">>), Cond("mtart", "=", <<"f", "e", "r", "T">>),
             Cond("MATKL", "=", <<>>), Cond("ZZZ", "=", <<>>), Cond("AUART", "=", <<"O", "R">>),
             Cond("MANDT", "=", <<"1", "0", "0">>), Cond("mandt", "LIKE", <<"%">>),
             Cond("MTART", ">=", <<"R">>), Cond("MTART", ">=", <<>>), Cond("MTART", ">", <<"R">>)}
            \cup {Cond("MTART", "LIKE", p) :
                     p \in {<<"%", "R", "%">>, <<"%", "R">>, <<"r", "%">>, <<"%">>, <<"R", "_", "H">>,
                            <<"R", "O", "H">>, <<>>}}
            \cup {Cond("AUART", "LIKE", <<"o", "%">>), Cond("LAND1", "LIKE", <<"%", "U", "%">>)}
MCWheres == {<<>>} \cup {<<c>> : c \in MCSingle}
            \cup {<<Cond("MTART", "LIKE", <<"%", "A", "%">>), Cond("matkl", "=", <<>>)>>,
                  <<Cond("AUART", "=", <<"o", "r">>), Cond("MANDT", "=", <<"1", "0", "0">>)>>,
                  <<Cond("AUART", "LIKE", <<"%", "R", "%">>), Cond("AUART", "LIKE", <<"O", "%">>)>>,
                  <<Cond("MTART", "=", <<"R", "O", "H">>), Cond("MTART", ">=", <<"A">>)>>}
MCFields == {[tag |-> t, shape |-> "text", value |-> "CLAS"] : t \in {"OBJECT_TYPE", "OBJECT_NAME"}}
            \cup {[tag |-> t, shape |-> "text", value |-> "d"] : t \in {"DESCRIPTION", "OBJECT_URI"}}
            \cup {[tag |-> "OBJECT_NAME", shape |-> "hollow", value |-> ""],
                  [tag |-> "DESCRIPTION", shape |-> "bare", value |-> ""]}
MCCells == {[tag |-> "cell", shape |-> s, value |-> "v"] : s \in {"attribute", "opened", "text"}}
           \cup {[tag |-> "cell", shape |-> s, value |-> ""] : s \in {"bare", "hollow"}}
MCReferences == {[name |-> "Z1", type |-> "WDYN"], [name |-> "Z2", type |-> "DEVC/K", description |-> "d"],
                 [type |-> "CLAS", description |-> "d"], [name |-> ""]}
MCIdentities == {<<"1", "0", "0">>, <<"2", "0", "0">>}
MCColumnLists == {<<<<"F", "1">>>>, <<<<"F", "1">>, <<"F", "2">>>>}
MCValues == {<<>>, <<"a", " ", "b">>, <<"|">>, <<" ", "c", " ">>}
=============================================================================
