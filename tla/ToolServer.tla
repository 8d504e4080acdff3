----------------------------- MODULE ToolServer -----------------------------
(***************************************************************************)
(* The SAP-Automate server as a process: main starts it in an environment, *)
(* serves MCP over stdio or over HTTP, and stops it (main.rs, server.rs,   *)
(* http.rs).  A request is dispatched in one step: what happens inside one *)
(* that asks the user or writes to SAP is the subject of McpSession and    *)
(* WriteBapi.                                                              *)
(***************************************************************************)
EXTENDS ToolSurface, Naturals

CONSTANTS Environments,     \* the settings main may find
          Clients,          \* [token, origin]: the headers an HTTP client sends
          MaxStreams        \* bound on the open event streams

VARIABLES proc,             \* "down", "serving", "stopping", "exited", "failed"
          conf,             \* what main built from the environment
          tools,            \* ServerContext.tools
          logLevel,         \* ServerContext.log_level
          streams,          \* open responses of GET /mcp/events
          last              \* the last answer: to whom, and with which effect
                            \* on SAP and on the audit log

tvars == <<proc, conf, tools, logLevel, streams, last>>

Said(who, e) == [to |-> who, effect |-> e]
Stdin == [token |-> "pipe", origin |-> "pipe"]      \* the parent process

ToolServerInit ==
    /\ proc = "down" /\ conf = [transport |-> "none"] /\ tools = {}
    /\ logLevel = "info" /\ streams = 0
    /\ last = Said(Stdin, Effect("none"))

(***************************************************************************)
(* main                                                                    *)
(***************************************************************************)
Launch(env) ==
    /\ proc = "down"
    /\ IF StartupFails(env)
       THEN /\ proc' = "failed"
            /\ UNCHANGED <<conf, tools>>
       ELSE /\ proc' = "serving"
            /\ conf' = Configured(env)
            /\ tools' = ToolsBuilt(conf')
    /\ UNCHANGED <<logLevel, streams, last>>

\* tokio::signal::ctrl_c, then HttpServerHandle::shutdown
SigInt ==
    /\ proc = "serving" /\ conf.transport = "http"
    /\ proc' = "stopping"
    /\ UNCHANGED <<conf, tools, logLevel, streams, last>>

\* The listener's task ends when its last response has been sent.
Drained ==
    /\ proc = "stopping" /\ streams = 0
    /\ proc' = "exited"
    /\ UNCHANGED <<conf, tools, logLevel, streams, last>>

\* run_stdio returns at the end of its input.
StdinEof ==
    /\ proc = "serving" /\ conf.transport = "stdio"
    /\ proc' = "exited"
    /\ UNCHANGED <<conf, tools, logLevel, streams, last>>

(***************************************************************************)
(* handle_method: the ways a request may end                               *)
(***************************************************************************)
Fault(code) == Effect(code)      \* a JSON-RPC error

\* A call that reached its handler.  An argument object is one of a few cases
\* of the handler, a call of sap.rfc.call the function and its parameters.
RunTool(c, t, a) ==
    CASE t \in RagTools \ {"sap.kb.navigate"} -> RagSearch(a)
      [] t = "sap.kb.navigate" -> KbNavigate(a)
      [] t = "sap.docs.search" -> DocsSearch(a)
      [] t = "sap.bp.search" -> BpSearch(c, a)
      [] t = "sap.bp.get" -> BpGet(c, a)
      [] t = "sap.system.cache_stats" -> CacheStats
      [] t = "sap.system.cache_invalidate" -> CacheInvalidate
      [] t = "sap.system.health" -> SystemHealth
      [] t = "sap.bapi.parse_return" -> BapiParseReturn(a)
      [] t = "sap.system.info" -> SystemInfoTool(c)
      [] t = "sap.rfc.search" -> RfcSearchTool(a)
      [] t = "sap.rfc.metadata" -> RfcMetadataTool(a)
      [] t = "sap.rfc.bulk_metadata" -> RfcBulkMetadataTool(a)
      [] t = "sap.table.read" -> TableRead(c, a)
      [] t = "sap.table.structure" -> TableStructureTool(c, a)
      [] t \in AdtLookups -> AdtGet(c, a)
      [] t = "abap.adt.search" -> AdtSearch(c, a)
      [] t = "abap.adt.where_used" -> AdtWhereUsed(c, a)
      [] t = "abap.adt.get_table_contents" -> AdtTableContents(c, a)
      [] t = "kb.multi_hop" -> KbMultiHop(a)
      [] t = "kb.global_query" -> KbGlobalQuery(a)
      [] t = "kb.summarise" -> KbSummarise(a)
      [] t = "kb.graph_neighborhood" -> KbGraphNeighborhood(a)
      [] t = "abap.adt.activate" -> AdtActivate(c, a)
      [] t \in Workflows -> IF a = "bad" THEN Refuse ELSE WorkflowTool(c, t)
      [] OTHER -> Refuse                      \* sap.rfc.call that names no function

\* The arguments worth telling apart.
Cases(t) ==
    {"good", "bad"} \cup
    CASE t = "sap.kb.navigate" -> {"no_document", "no_path"}
      [] t = "sap.docs.search" -> {"unknown_domain"}
      [] t = "sap.rfc.metadata" -> {"unknown"}
      [] t = "sap.rfc.bulk_metadata" -> {"no_names", "101_names"}
      [] t = "sap.table.read" -> {"0_rows", "1001_rows", "unknown", "odd_clause"}
      [] t \in AdtLookups \cup {"sap.table.structure"} -> {"unknown"}
      [] t = "abap.adt.get_table_contents" -> {"0_rows", "1001_rows", "unknown", "blocked"}
      [] t = "kb.graph_neighborhood" -> {"no_seeds"}
      [] OTHER -> {}

\* tools/call
CallTool(c, known, t, a) == IF t \notin known THEN {Fault("UnknownTool")} ELSE RunTool(c, t, a)

CallRfc(c, f, params, commit) ==
    IF commit THEN RfcCallCommit(c, f, params) ELSE RfcCallPlain(c, f, params)

\* resources/read: an unknown URI is the caller's error, a failing handler the
\* server's.
ResourcesRead(c, uri) ==
    IF uri \notin Resources(c) THEN {Fault("InvalidParams")}
    ELSE {IF e.reply = "ok" THEN e ELSE Fault("InternalError") : e \in ReadResource(c, uri)}

\* prompts/get: the handlers render text and put a placeholder for whatever
\* argument is missing.
PromptsGet(c, name) == IF name \in Prompts(c) THEN {Effect("ok")} ELSE {Fault("InvalidParams")}

\* completion/complete never fails once its parameters parse.
Complete == {Effect("ok")}

\* The methods without state of their own.
Plain == {"initialize", "ping", "resources/list", "prompts/list"}
HandlePlain(method) == IF method \in Plain THEN {Effect("ok")} ELSE {Fault("MethodNotFound")}

(***************************************************************************)
(* Transports                                                              *)
(***************************************************************************)
\* check_origin and check_auth; neither is asked anything over stdio.
CheckOrigin(c, who) == c.origins # {} => who.origin \in c.origins

\* Mutant: any bearer token will do.
CheckAuthAny(c, who) == c.token # "none" => who.token # "none"
CheckAuth(c, who) == c.token # "none" => who.token = c.token

\* What the HTTP transport answers by itself, or "pass".  A body that is no
\* JSON is refused by the extractor, before the checks.
PostGate(c, who, sent) ==
    CASE sent = "no_json" -> "400"
      [] sent # "no_json" /\ ~CheckOrigin(c, who) -> "403"
      [] sent # "no_json" /\ CheckOrigin(c, who) /\ ~CheckAuth(c, who) -> "401"
      [] OTHER -> IF sent = "no_message" THEN "400" ELSE "pass"

\* A request that is dispatched: by POST /mcp once the gate lets it pass, or
\* read from standard input.
Admitted(who) ==
    /\ proc = "serving"
    /\ \/ conf.transport = "stdio" /\ who = Stdin
       \/ conf.transport = "http" /\ who \in Clients /\ PostGate(conf, who, "message") = "pass"

\* The request is answered by one of the effects its method may have.
Answer(who, effects) == \E e \in effects : last' = Said(who, e)

\* A request the HTTP transport refuses, and a message without an answer (a
\* notification or a response): 202.
PostRefused(who, sent) ==
    /\ proc = "serving" /\ conf.transport = "http"
    /\ PostGate(conf, who, sent) # "pass"
    /\ last' = Said(who, Effect(PostGate(conf, who, sent)))
    /\ UNCHANGED <<proc, conf, tools, logLevel, streams>>

PostAccepted(who) ==
    /\ Admitted(who) /\ conf.transport = "http"
    /\ last' = Said(who, Effect("202"))
    /\ UNCHANGED <<proc, conf, tools, logLevel, streams>>

ToolsCall(who, t, a) ==
    /\ Admitted(who)
    /\ Answer(who, CallTool(conf, tools, t, a))
    /\ UNCHANGED <<proc, conf, tools, logLevel, streams>>

RfcCall(who, f, params, commit) ==
    /\ Admitted(who)
    /\ Answer(who, CallRfc(conf, f, params, commit))
    /\ UNCHANGED <<proc, conf, tools, logLevel, streams>>

ToolsList(who) ==
    /\ Admitted(who)
    /\ Answer(who, {Effect("ok")})
    /\ UNCHANGED <<proc, conf, tools, logLevel, streams>>

Read(who, uri) ==
    /\ Admitted(who)
    /\ Answer(who, ResourcesRead(conf, uri))
    /\ UNCHANGED <<proc, conf, tools, logLevel, streams>>

GetPrompt(who, name) ==
    /\ Admitted(who)
    /\ Answer(who, PromptsGet(conf, name))
    /\ UNCHANGED <<proc, conf, tools, logLevel, streams>>

SetLevel(who, level) ==
    /\ Admitted(who)
    /\ IF level = "no_level"
       THEN /\ Answer(who, {Fault("InvalidParams")})
            /\ UNCHANGED logLevel
       ELSE /\ Answer(who, {Effect("ok")})
            /\ logLevel' = level
    /\ UNCHANGED <<proc, conf, tools, streams>>

OtherMethod(who, method) ==
    /\ Admitted(who)
    /\ Answer(who, IF method = "completion/complete" THEN Complete ELSE HandlePlain(method))
    /\ UNCHANGED <<proc, conf, tools, logLevel, streams>>

\* events_handler.  The sender stays in EventBus.subscribers, so the stream
\* never ends by itself; only the client can close it.
OpenEvents(who) ==
    /\ proc = "serving" /\ conf.transport = "http" /\ streams < MaxStreams
    /\ IF PostGate(conf, who, "message") = "pass"
       THEN streams' = streams + 1 /\ last' = Said(who, Effect("200"))
       ELSE /\ last' = Said(who, Effect(PostGate(conf, who, "message")))
            /\ UNCHANGED streams
    /\ UNCHANGED <<proc, conf, tools, logLevel>>

CloseEvents ==
    /\ proc \in {"serving", "stopping"} /\ streams > 0
    /\ streams' = streams - 1
    /\ UNCHANGED <<proc, conf, tools, logLevel, last>>

\* GET /health and GET /metrics are open to everyone.
Probe(who) ==
    /\ proc = "serving" /\ conf.transport = "http"
    /\ last' = Said(who, Effect("200"))
    /\ UNCHANGED <<proc, conf, tools, logLevel, streams>>

\* Parameters a caller may send: what is required, nothing, no object at all,
\* and a name that is no ABAP identifier.
Parameters(f) == {RequiredImports(f), {}, {"text"}, {"<x>"}}

Uris == {"sap-system://info", "sap-table://MARA", "sap-cache://stats", "agents://guardrails", "sap-table://NONE"}
Names == {"sap.review-rfc-call", "sap.skill.abap_code_review", "none"}

Request(who) ==
    \/ \E t \in Registered \cup {"no.such.tool"} : \E a \in Cases(t) : ToolsCall(who, t, a)
    \/ \E f \in Functions : \E params \in Parameters(f), commit \in BOOLEAN : RfcCall(who, f, params, commit)
    \/ ToolsList(who)
    \/ \E uri \in Uris : Read(who, uri)
    \/ \E name \in Names : GetPrompt(who, name)
    \/ \E level \in {"debug", "info", "no_level"} : SetLevel(who, level)
    \/ \E method \in Plain \cup {"completion/complete", "unsupported"} : OtherMethod(who, method)

ToolServerNext ==
    \/ \E env \in Environments : Launch(env)
    \/ \E who \in Clients \cup {Stdin} : Request(who)
    \/ \E who \in Clients : PostAccepted(who) \/ OpenEvents(who) \/ Probe(who)
    \/ \E who \in Clients, sent \in {"no_json", "no_message", "message"} : PostRefused(who, sent)
    \/ CloseEvents \/ SigInt \/ Drained \/ StdinEof

ToolServerSpec == ToolServerInit /\ [][ToolServerNext]_tvars

-----------------------------------------------------------------------------
(* Properties                                                              *)

\* A server started without --enable-writes never changes SAP, whichever tool
\* is called with whatever arguments: the exposure gate hides the write tools,
\* and the gates in the clients stop what sap.rfc.call lets through.
ReadOnlyNeverChanges == proc \notin {"down", "failed"} /\ conf.readOnly => last.effect.change = {}

\* Over HTTP only a caller that presents the token, from an allowed origin, has
\* any effect on the server, on its audit log or on SAP.
OnlyAuthorisedEffects ==
    [][conf.transport = "http" /\ last' # last
         => \/ /\ conf.origins # {} => last'.to.origin \in conf.origins
               /\ conf.token # "none" => last'.to.token = conf.token
            \/ /\ last'.effect.change = {} /\ last'.effect.audit = {}
               /\ UNCHANGED <<logLevel, streams>>]_tvars

\* Over HTTP no question can be put to the user, so no workflow is ever
\* recorded as confirmed (ElicitationHandle::disabled answers Decline).
HttpConfirmsNothing == conf.transport = "http" => "ok" \notin last.effect.audit

\* "Every invocation of a tool flagged with_writes() lands here." (audit.rs:3):
\* what such a tool changed in SAP has its entry in the audit log.  sap.rfc.call
\* is not flagged, so its plain call ("rfc_call") is none of these.
EveryWriteAudited == last.effect.change \ {"rfc_call"} \subseteq last.effect.audit
=============================================================================
