---------------------------- MODULE ToolSurface ----------------------------
(***************************************************************************)
(* What the SAP-Automate server offers once it is configured, and what its *)
(* tool handlers do (apps/sap-automate-server: main.rs, tools.rs,          *)
(* resources.rs, prompts.rs).                                              *)
(*                                                                         *)
(* c is the configuration main built: readOnly, soap (a live RFC backend), *)
(* adt ("mock" or "http"), hub (an OData client), agents, skills and       *)
(* elicit (the transport can carry questions to the user).  An argument is *)
(* reduced to the case of the handler it leads to; a handler is the set of *)
(* effects it may have: what it replies ("ok", or "error" for isError),    *)
(* what it changes in SAP, and what it writes to the audit log.            *)
(***************************************************************************)
EXTENDS Workflow, RfcFunctions

FullEffect(reply, change, audit) == [reply |-> reply, change |-> change, audit |-> audit]
Effect(reply) == FullEffect(reply, {}, {})
OkOr(errors) == {Effect("ok")} \cup (IF errors THEN {Effect("error")} ELSE {})
Refuse == {Effect("error")}

-----------------------------------------------------------------------------
(* main: configuration                                                     *)

\* LayeredCredentialProvider: complete variables, else the demo identity; a
\* provider that fails ends the search.
Credentials(env) ==
    CASE env.vars = "all" -> "env" [] env.vars = "none" -> "static" [] env.vars = "some" -> "error"

\* AdtDestination::load: of the search paths (override, project, home) the
\* first whose file exists decides; a file is "mock" or "http" by its auth, or
\* "error" when it cannot be read or parsed.
SearchPaths == 1..3
LoadDestination(files) ==
    LET there == {i \in SearchPaths : files[i] # "absent"} IN
    IF there = {} THEN "error" ELSE files[CHOOSE i \in there : \A j \in there : i <= j]

\* build_adt_client
BuildAdtClient(env) == IF env.named THEN LoadDestination(env.files) ELSE "mock"

\* BusinessHubClient::from_env: absent and misconfigured both disable it.
Hub(env) == env.odata = "complete"

\* load_agents_md: the explicit path, or two defaults; unreadable is absent.
AgentsMd(env) == env.agents

StartupFails(env) ==
    \/ Credentials(env) = "error" \/ BuildAdtClient(env) = "error"
    \/ env.transport = "other" \/ (env.transport = "http" /\ ~env.bindable)

Configured(env) ==
    [readOnly |-> ~env.writes, soap |-> env.soap, adt |-> BuildAdtClient(env), hub |-> Hub(env),
     agents |-> AgentsMd(env), skills |-> env.skills, elicit |-> env.transport = "stdio",
     transport |-> env.transport, token |-> env.token, origins |-> env.origins]

-----------------------------------------------------------------------------
(* The registry                                                            *)

RagTools == {"abap.search", "bpmn.find_process", "eam.search_apps", "sap.help.search",
             "sap.kb.navigate"}
SapTools == {"sap.system.info", "sap.system.health", "sap.system.cache_stats",
             "sap.system.cache_invalidate", "sap.rfc.search", "sap.rfc.metadata",
             "sap.rfc.bulk_metadata", "sap.rfc.call", "sap.table.read", "sap.table.structure",
             "sap.docs.search", "sap.bapi.parse_return", "sap.bp.search", "sap.bp.get"}
AdtLookups == {"abap.adt.get_program", "abap.adt.get_class", "abap.adt.get_interface",
               "abap.adt.get_include", "abap.adt.get_function_module",
               "abap.adt.get_package_contents", "abap.adt.get_cds_view"}
AdtTools == AdtLookups \cup {"abap.adt.search", "abap.adt.where_used",
                             "abap.adt.get_table_contents", "abap.adt.activate"}
GraphTools == {"kb.multi_hop", "kb.global_query", "kb.summarise", "kb.graph_neighborhood"}
Registered == RagTools \cup SapTools \cup AdtTools \cup GraphTools \cup Workflows

\* ToolDescriptor::with_writes
WriteExposed == {"abap.adt.activate"} \cup Workflows

IsAllowedBy(t, readOnly) == readOnly => t \notin WriteExposed

\* ServerBuilder::build
ToolsBuilt(c) == {t \in Registered : IsAllowedBy(t, c.readOnly)}

Resources(c) ==
    {"sap-system://info", "adt-destination://info", "sap-cache://stats"}
    \cup {"sap-table://MARA", "sap-table://T001", "sap-table://VBAK"}
    \cup {"sap-rfc://RFC_SYSTEM_INFO", "sap-rfc://BAPI_MATERIAL_GET_DETAIL",
          "sap-rfc://BAPI_ACC_DOCUMENT_POST", "sap-rfc://BAPI_SALESORDER_CREATEFROMDAT2",
          "sap-rfc://RFC_READ_TABLE", "sap-rfc://DDIF_FIELDINFO_GET"}
    \cup (IF c.agents THEN {"agents://guardrails"} ELSE {})

\* A skill takes the place of a built-in prompt of the same name.
Prompts(c) ==
    {"sap.review-rfc-call", "sap.transport-impact-analysis", "abap.review-where-used"} \cup c.skills

\* Resources whose handler asks a backend that may fail.
ReadResource(c, uri) ==
    OkOr(c.soap /\ uri \in {"sap-system://info", "sap-table://MARA", "sap-table://T001",
                            "sap-table://VBAK"})

-----------------------------------------------------------------------------
(* The read-only handlers                                                  *)

RagSearch(a) == IF a = "bad" THEN Refuse ELSE OkOr(TRUE)

\* sap.kb.navigate: the document, then the path in it.
KbNavigate(a) == IF a \in {"bad", "no_document", "no_path"} THEN Refuse ELSE OkOr(TRUE)

DocsSearch(a) == IF a \in {"bad", "unknown_domain"} THEN Refuse ELSE OkOr(TRUE)

\* sap.bp.search, sap.bp.get: without a client, "feature disabled".
BpSearch(c, a) == IF a = "bad" \/ ~c.hub THEN Refuse ELSE OkOr(TRUE)
BpGet(c, a) == IF a = "bad" \/ ~c.hub THEN Refuse ELSE OkOr(TRUE)

CacheStats == OkOr(FALSE)
CacheInvalidate == OkOr(FALSE)
SystemHealth == OkOr(FALSE)
BapiParseReturn(a) == IF a = "bad" THEN Refuse ELSE OkOr(FALSE)
SystemInfoTool(c) == OkOr(c.soap)

\* Metadata comes from the curated catalogue with either backend.
RfcSearchTool(a) == IF a = "bad" THEN Refuse ELSE OkOr(FALSE)
RfcMetadataTool(a) == IF a \in {"bad", "unknown"} THEN Refuse ELSE OkOr(FALSE)
RfcBulkMetadataTool(a) == IF a \in {"bad", "no_names", "101_names"} THEN Refuse ELSE OkOr(FALSE)

\* Row limits are checked by either backend, fields and clauses by the mock.
TableRead(c, a) ==
    IF a \in {"bad", "0_rows", "1001_rows"} \/ (a \in {"unknown", "odd_clause"} /\ ~c.soap)
    THEN Refuse ELSE OkOr(c.soap)
TableStructureTool(c, a) == IF a = "bad" \/ (a = "unknown" /\ ~c.soap) THEN Refuse ELSE OkOr(c.soap)

\* abap.adt.get_*: the mock knows a few objects, a live system may say anything.
AdtGet(c, a) == IF a = "bad" \/ (a = "unknown" /\ c.adt = "mock") THEN Refuse ELSE OkOr(c.adt = "http")
AdtSearch(c, a) == IF a = "bad" THEN Refuse ELSE OkOr(c.adt = "http")
AdtWhereUsed(c, a) == IF a = "bad" THEN Refuse ELSE OkOr(c.adt = "http")
AdtTableContents(c, a) ==
    IF a \in {"bad", "0_rows", "1001_rows"} \/ (a \in {"unknown", "blocked"} /\ c.adt = "mock")
    THEN Refuse ELSE OkOr(c.adt = "http")

KbMultiHop(a) == IF a = "bad" THEN Refuse ELSE OkOr(FALSE)
KbGlobalQuery(a) == IF a = "bad" THEN Refuse ELSE OkOr(FALSE)
KbSummarise(a) == IF a = "bad" THEN Refuse ELSE OkOr(FALSE)
KbGraphNeighborhood(a) == IF a \in {"bad", "no_seeds"} THEN Refuse ELSE OkOr(FALSE)

-----------------------------------------------------------------------------
(* The handlers that may change SAP                                        *)

\* abap.adt.activate: hidden in read-only mode, and refused once more.  An
\* error may hide an activation whose answer came too late.
AdtActivate(c, a) ==
    IF a = "bad" \/ c.readOnly THEN Refuse
    ELSE {FullEffect("ok", {"activate"}, {})}
         \cup (IF c.adt = "http"
               THEN {FullEffect("error", {"activate"}, {}), Effect("error"), Effect("ok")} ELSE {})

Modifies(f) == f \notin ReadOnlyFunctions

\* sap.rfc.call without commit: whatever the gate lets through is executed.
RfcCallPlain(c, f, params) ==
    LET verdict == IF c.soap THEN SoapPrecheck(f, params, c.readOnly)
                             ELSE MockCall(f, params, c.readOnly)
        change == IF Modifies(f) THEN {"rfc_call"} ELSE {}
    IN  IF verdict # "none" THEN Refuse
        ELSE {FullEffect("ok", change, {})}
             \cup (IF c.soap THEN {FullEffect("error", change, {}), Effect("error")} ELSE {})

\* sap.rfc.call with commit: execute_write_bapi, audited however it ends.  The
\* mock returns no BAPIRET2 table, so it is always rolled back there, which
\* does not undo a function that commits by itself.
RfcCallCommit(c, f, params) ==
    LET verdict == IF c.soap THEN SoapPrecheck(f, params, FALSE) ELSE MockCall(f, params, FALSE)
        changes == IF ~Modifies(f) THEN {{}}
                   ELSE IF ~c.soap THEN {IF f \in SelfCommitting THEN {"rfc_commit"} ELSE {}}
                   ELSE {{}, {"rfc_commit"}}
    IN  IF c.readOnly \/ f \in TransactionFunctions \/ verdict # "none" THEN {FullEffect("error", {}, {"rfc_commit"})}
        ELSE {FullEffect(r, ch, {"rfc_commit"}) :
                r \in IF c.soap THEN {"ok", "error"} ELSE {"ok"}, ch \in changes}

\* Mutant: a disabled elicitation handle answers for the user.
WorkflowToolAssumes(c, m) == {FullEffect("ok", {}, {"ok"})}

\* A workflow asks the user and posts nothing; every ending is audited.  With
\* elicitation disabled the first question counts as declined.
WorkflowTool(c, m) ==
    LET endings == {e \in (1..Rounds(m)) \X Answers : e[1] = Rounds(m) \/ ~Accepts(e[2])}
    IN  {FullEffect(IF WorkflowResult(m, e[1], e[2]) \in {"confirmed", "declined"} THEN "ok" ELSE "error",
              {}, {WorkflowAudit(m, e[1], e[2])}) :
            e \in IF c.elicit THEN endings ELSE {<<1, "decline">>}}
=============================================================================
