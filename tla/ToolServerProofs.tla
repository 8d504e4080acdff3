-------------------------- MODULE ToolServerProofs --------------------------
(***************************************************************************)
(* Proofs about ToolServer, for any environments main may find, any        *)
(* clients and any number of event streams: a read-only server never       *)
(* changes SAP, nothing is confirmed over HTTP, and only an authorised     *)
(* caller has an effect.  About RfcCatalogue, for any queries, conditions  *)
(* and limits: a search of the functions answers with the ones that match  *)
(* best, and a table read answers as a SELECT that ignores case would.     *)
(***************************************************************************)
EXTENDS ToolServer, RfcCatalogue, FiniteSetTheorems, FunctionTheorems, NaturalsInduction,
        WellFoundedInduction, SequenceTheorems, TLAPS

\* An answer that neither changes SAP nor is audited.
Harmless(e) == e.change = {} /\ e.audit = {} /\ e.reply \in {"ok", "error"}

\* Main has built the server, and from one environment.
Built == proc \in {"serving", "stopping", "exited"}
BuiltFromEnvironment ==
    IF Built
    THEN /\ \E env \in Environments : conf = Configured(env)
         /\ tools = ToolsBuilt(conf)
    ELSE /\ proc \in {"down", "failed"}
         /\ conf = [transport |-> "none"]
         /\ last = Said(Stdin, Effect("none"))

SurfaceInv ==
    /\ BuiltFromEnvironment
    /\ Built => ReadOnlyNeverChanges /\ HttpConfirmsNothing

-----------------------------------------------------------------------------
(* What the handlers may do                                                *)

LEMMA EffectIsHarmless ==
    /\ \A r, ch, au : /\ FullEffect(r, ch, au).reply = r /\ FullEffect(r, ch, au).change = ch
                       /\ FullEffect(r, ch, au).audit = au
    /\ \A r : Effect(r).reply = r /\ Effect(r).change = {} /\ Effect(r).audit = {}
    /\ Harmless(Effect("ok")) /\ Harmless(Effect("error"))
  BY DEF Harmless, Effect, FullEffect

LEMMA OkOrIsHarmless ==
    /\ \A b : \A e \in OkOr(b) : Harmless(e)
    /\ \A e \in Refuse : Harmless(e)
  BY EffectIsHarmless DEF OkOr, Refuse

\* The handlers without a write flag.
LEMMA ReadersAreHarmless ==
    ASSUME NEW c, NEW t \in Registered \ WriteExposed, NEW a, NEW e \in RunTool(c, t, a)
    PROVE  Harmless(e)
<1>1. /\ \A r \in RagSearch(a) : Harmless(r)
      /\ \A r \in KbNavigate(a) : Harmless(r)
      /\ \A r \in DocsSearch(a) : Harmless(r)
      /\ \A r \in BpSearch(c, a) : Harmless(r)
      /\ \A r \in BpGet(c, a) : Harmless(r)
      /\ \A r \in CacheStats : Harmless(r)
      /\ \A r \in CacheInvalidate : Harmless(r)
      /\ \A r \in SystemHealth : Harmless(r)
      /\ \A r \in BapiParseReturn(a) : Harmless(r)
      /\ \A r \in SystemInfoTool(c) : Harmless(r)
  BY OkOrIsHarmless
     DEF RagSearch, KbNavigate, DocsSearch, BpSearch, BpGet, CacheStats, CacheInvalidate,
         SystemHealth, BapiParseReturn, SystemInfoTool
<1>2. /\ \A r \in RfcSearchTool(a) : Harmless(r)
      /\ \A r \in RfcMetadataTool(a) : Harmless(r)
      /\ \A r \in RfcBulkMetadataTool(a) : Harmless(r)
      /\ \A r \in TableRead(c, a) : Harmless(r)
      /\ \A r \in TableStructureTool(c, a) : Harmless(r)
      /\ \A r \in AdtGet(c, a) : Harmless(r)
      /\ \A r \in AdtSearch(c, a) : Harmless(r)
      /\ \A r \in AdtWhereUsed(c, a) : Harmless(r)
      /\ \A r \in AdtTableContents(c, a) : Harmless(r)
      /\ \A r \in KbMultiHop(a) : Harmless(r)
      /\ \A r \in KbGlobalQuery(a) : Harmless(r)
      /\ \A r \in KbSummarise(a) : Harmless(r)
      /\ \A r \in KbGraphNeighborhood(a) : Harmless(r)
  BY OkOrIsHarmless
     DEF RfcSearchTool, RfcMetadataTool, RfcBulkMetadataTool, TableRead, TableStructureTool,
         AdtGet, AdtSearch, AdtWhereUsed, AdtTableContents, KbMultiHop, KbGlobalQuery,
         KbSummarise, KbGraphNeighborhood
<1>3. CASE t \in RagTools \cup SapTools
  BY <1>1, <1>2, <1>3, OkOrIsHarmless DEF RunTool, RagTools, SapTools, AdtLookups, Workflows
<1>4. CASE t \in (AdtTools \ WriteExposed) \cup GraphTools
  BY <1>1, <1>2, <1>4 DEF RunTool, RagTools, AdtTools, AdtLookups, GraphTools, WriteExposed
<1> QED BY <1>3, <1>4 DEF Registered, WriteExposed

\* Activation writes no audit entry; it changes SAP only in a writable server.
LEMMA ActivationEffects ==
    ASSUME NEW c, NEW a, NEW e \in RunTool(c, "abap.adt.activate", a)
    PROVE  e.audit = {} /\ e.reply \in {"ok", "error"} /\ (c.readOnly => e.change = {})
<1>1. e \in AdtActivate(c, a)
  BY DEF RunTool, RagTools, AdtLookups, Workflows
<1> QED BY <1>1, EffectIsHarmless, OkOrIsHarmless DEF AdtActivate, Harmless

\* A workflow posts nothing, and without a way to ask the user it is declined.
LEMMA WorkflowEffects ==
    ASSUME NEW c, NEW t \in Workflows, NEW a, NEW e \in RunTool(c, t, a)
    PROVE  e.change = {} /\ e.reply \in {"ok", "error"} /\ (~c.elicit => "ok" \notin e.audit)
<1>1. e \in IF a = "bad" THEN Refuse ELSE WorkflowTool(c, t)
  BY DEF RunTool, RagTools, AdtLookups, Workflows
<1>2. CASE a = "bad"
  BY <1>1, <1>2, OkOrIsHarmless DEF Harmless
<1>3. CASE a # "bad"
  <2>2. WorkflowAudit(t, 1, "decline") = "declined"
    BY DEF WorkflowAudit, Mismatched, Accepts
  <2>3. PICK d : /\ e = FullEffect(IF WorkflowResult(t, d[1], d[2]) \in {"confirmed", "declined"}
                              THEN "ok" ELSE "error", {}, {WorkflowAudit(t, d[1], d[2])})
                 /\ ~c.elicit => d = <<1, "decline">>
    BY <1>1, <1>3 DEF WorkflowTool
  <2> QED BY <2>2, <2>3, EffectIsHarmless
<1> QED BY <1>2, <1>3

\* sap.rfc.call is stopped in the clients when the server is read-only, and is
\* never recorded as a confirmed workflow.
LEMMA RfcCallEffects ==
    ASSUME NEW c, NEW f \in Functions, NEW params, NEW commit, NEW e \in CallRfc(c, f, params, commit)
    PROVE  e.reply \in {"ok", "error"} /\ "ok" \notin e.audit /\ (c.readOnly => e.change = {})
<1>1. CASE commit
  <2>1. \/ e = FullEffect("error", {}, {"rfc_commit"})
        \/ ~c.readOnly /\ \E r \in {"ok", "error"} : \E ch : e = FullEffect(r, ch, {"rfc_commit"})
    <3> DEFINE verdict == IF c.soap THEN SoapPrecheck(f, params, FALSE)
                                    ELSE MockCall(f, params, FALSE)
               replies == IF c.soap THEN {"ok", "error"} ELSE {"ok"}
               changes == IF ~Modifies(f) THEN {{}}
                          ELSE IF ~c.soap THEN {IF f \in SelfCommitting THEN {"rfc_commit"} ELSE {}}
                          ELSE {{}, {"rfc_commit"}}
    <3>0. e \in RfcCallCommit(c, f, params)
      BY <1>1 DEF CallRfc
    <3>1. RfcCallCommit(c, f, params)
            = IF c.readOnly \/ f \in TransactionFunctions \/ verdict # "none"
              THEN {FullEffect("error", {}, {"rfc_commit"})}
              ELSE {FullEffect(r, ch, {"rfc_commit"}) : r \in replies, ch \in changes}
      BY DEF RfcCallCommit
    <3>2. replies \subseteq {"ok", "error"}
      OBVIOUS
    <3> HIDE DEF verdict, replies, changes
    <3> QED BY <3>0, <3>1, <3>2
  <2> QED BY <2>1, EffectIsHarmless
<1>2. CASE ~commit
  <2> DEFINE verdict == IF c.soap THEN SoapPrecheck(f, params, c.readOnly)
                                  ELSE MockCall(f, params, c.readOnly)
             change == IF Modifies(f) THEN {"rfc_call"} ELSE {}
  <2>1. c.readOnly /\ verdict = "none" => ~Modifies(f)
    BY DEF SoapPrecheck, MockCall, Modifies, Catalogued
  <2>2. \/ Harmless(e)
        \/ verdict = "none" /\ e \in {FullEffect("ok", change, {}), FullEffect("error", change, {})}
    BY <1>2, EffectIsHarmless, OkOrIsHarmless DEF CallRfc, RfcCallPlain
  <2> QED BY <2>1, <2>2, EffectIsHarmless DEF Harmless
<1> QED BY <1>1, <1>2

\* tools/call: an unknown name, or the handler of a tool in the table.
LEMMA CallToolEffects ==
    ASSUME NEW c, NEW t, NEW a, NEW e \in CallTool(c, ToolsBuilt(c), t, a)
    PROVE  /\ c.readOnly => e.change = {}
           /\ ~c.elicit => "ok" \notin e.audit
<1>1. CASE t \notin ToolsBuilt(c)
  <2>1. e = Effect("UnknownTool")
    BY <1>1 DEF CallTool, Fault
  <2> QED BY <1>1, <2>1, EffectIsHarmless
<1>2. CASE t \in ToolsBuilt(c)
  <2>1. e \in RunTool(c, t, a) /\ t \in Registered
    BY <1>2 DEF CallTool, ToolsBuilt
  <2>2. CASE t \notin WriteExposed
    BY <2>1, <2>2, ReadersAreHarmless DEF Harmless
  <2>3. CASE t = "abap.adt.activate"
    BY <2>1, <2>3, ActivationEffects
  <2>4. CASE t \in Workflows
    BY <2>1, <2>4, WorkflowEffects
  <2> QED BY <2>2, <2>3, <2>4 DEF WriteExposed
<1> QED BY <1>1, <1>2

-----------------------------------------------------------------------------
(* The invariant                                                           *)

\* What a request that is dispatched may be answered, and leave behind.
Dispatched(who) ==
    /\ Admitted(who)
    /\ UNCHANGED <<proc, conf, tools>>
    /\ \E e :
         /\ last' = Said(who, e)
         /\ conf.readOnly => e.change = {}
         /\ ~conf.elicit => "ok" \notin e.audit

\* An answer without an effect is always within these bounds.
LEMMA HarmlessAnswer ==
    ASSUME NEW who, NEW effects,
           \A e \in effects : e.change = {} /\ e.audit = {},
           Answer(who, effects), Admitted(who), UNCHANGED <<proc, conf, tools>>
    PROVE  Dispatched(who)
  BY DEF Answer, Dispatched

LEMMA RequestDispatched ==
    ASSUME SurfaceInv, NEW who, Request(who)
    PROVE  Dispatched(who)
<1>1. ASSUME NEW t, NEW a, ToolsCall(who, t, a)
      PROVE  Dispatched(who)
  <2>1. tools = ToolsBuilt(conf)
    BY <1>1 DEF SurfaceInv, BuiltFromEnvironment, Built, ToolsCall, Admitted
  <2>2. PICK e \in CallTool(conf, tools, t, a) : last' = Said(who, e)
    BY <1>1 DEF ToolsCall, Answer
  <2>3. /\ conf.readOnly => e.change = {}
        /\ ~conf.elicit => "ok" \notin e.audit
    BY <2>1, CallToolEffects
  <2> QED BY <1>1, <2>2, <2>3 DEF ToolsCall, Dispatched
<1>2. ASSUME NEW f \in Functions, NEW params, NEW commit, RfcCall(who, f, params, commit)
      PROVE  Dispatched(who)
  <2>1. PICK e \in CallRfc(conf, f, params, commit) : last' = Said(who, e)
    BY <1>2 DEF RfcCall, Answer
  <2>2. /\ conf.readOnly => e.change = {}
        /\ "ok" \notin e.audit
    BY RfcCallEffects
  <2> QED BY <1>2, <2>1, <2>2 DEF RfcCall, Dispatched
<1>3. CASE ToolsList(who)
  BY <1>3, HarmlessAnswer, EffectIsHarmless DEF ToolsList
<1>4. ASSUME NEW uri, Read(who, uri)
      PROVE  Dispatched(who)
  <2>1. \A e \in ResourcesRead(conf, uri) : e.change = {} /\ e.audit = {}
    BY EffectIsHarmless, OkOrIsHarmless DEF ResourcesRead, ReadResource, Fault, Harmless
  <2> QED BY <1>4, <2>1, HarmlessAnswer DEF Read
<1>5. ASSUME NEW name, GetPrompt(who, name)
      PROVE  Dispatched(who)
  <2>1. \A e \in PromptsGet(conf, name) : e.change = {} /\ e.audit = {}
    BY EffectIsHarmless DEF PromptsGet, Fault
  <2> QED BY <1>5, <2>1, HarmlessAnswer DEF GetPrompt
<1>6. ASSUME NEW level, SetLevel(who, level)
      PROVE  Dispatched(who)
  <2>1. \A e \in {Fault("InvalidParams")} \cup {Effect("ok")} : e.change = {} /\ e.audit = {}
    BY EffectIsHarmless DEF Fault
  <2> QED BY <1>6, <2>1, HarmlessAnswer DEF SetLevel
<1>7. ASSUME NEW method, OtherMethod(who, method)
      PROVE  Dispatched(who)
  <2> DEFINE effects == IF method = "completion/complete" THEN Complete ELSE HandlePlain(method)
  <2>1. \A e \in effects : e.change = {} /\ e.audit = {}
    BY EffectIsHarmless DEF Complete, HandlePlain, Fault
  <2>2. Answer(who, effects)
    BY <1>7 DEF OtherMethod
  <2> HIDE DEF effects
  <2> QED BY <1>7, <2>1, <2>2, HarmlessAnswer DEF OtherMethod
<1> QED BY <1>1, <1>2, <1>3, <1>4, <1>5, <1>6, <1>7 DEF Request

LEMMA SurfaceInit == ToolServerInit => SurfaceInv
  BY DEF ToolServerInit, SurfaceInv, BuiltFromEnvironment, Built

\* Over HTTP the server was built without a way to ask the user.
LEMMA HttpHasNoElicitation ==
    ASSUME BuiltFromEnvironment, Built, conf.transport = "http"
    PROVE  ~conf.elicit
<1>1. PICK env \in Environments : conf = Configured(env)
  BY DEF BuiltFromEnvironment
<1>2. conf.transport = env.transport
  BY <1>1 DEF Configured
<1>3. conf.elicit = (env.transport = "stdio")
  BY <1>1 DEF Configured
<1>4. env.transport # "stdio"
  BY <1>2
<1> QED BY <1>3, <1>4

LEMMA SurfaceStep == SurfaceInv /\ [ToolServerNext]_tvars => SurfaceInv'
<1> SUFFICES ASSUME SurfaceInv, [ToolServerNext]_tvars PROVE SurfaceInv'
  OBVIOUS
<1>1. ASSUME NEW env \in Environments, Launch(env)
      PROVE  SurfaceInv'
  <2>1. CASE StartupFails(env)
    BY <1>1, <2>1 DEF SurfaceInv, BuiltFromEnvironment, Built, Launch
  <2>2. CASE ~StartupFails(env)
    <3>1. /\ proc' = "serving" /\ conf' = Configured(env) /\ tools' = ToolsBuilt(conf')
          /\ last' = last /\ proc = "down"
      BY <1>1, <2>2 DEF Launch
    <3>2. last.effect = Effect("none")
      BY <3>1 DEF SurfaceInv, BuiltFromEnvironment, Built, Said
    <3>3. BuiltFromEnvironment'
      BY <3>1 DEF BuiltFromEnvironment, Built
    <3> QED BY <3>1, <3>2, <3>3, EffectIsHarmless
            DEF SurfaceInv, ReadOnlyNeverChanges, HttpConfirmsNothing
  <2> QED BY <2>1, <2>2
<1>2. ASSUME NEW who, Request(who)
      PROVE  SurfaceInv'
  <2>1. Dispatched(who)
    BY <1>2, RequestDispatched
  <2>2. Built /\ Built' /\ BuiltFromEnvironment'
    BY <2>1 DEF Dispatched, Admitted, Built, SurfaceInv, BuiltFromEnvironment
  <2>4. PICK e : /\ last' = Said(who, e)
                 /\ conf.readOnly => e.change = {}
                 /\ ~conf.elicit => "ok" \notin e.audit
    BY <2>1 DEF Dispatched
  <2>5. last'.effect = e
    BY <2>4 DEF Said
  <2>6. conf' = conf /\ tools' = tools /\ proc' = proc
    BY <2>1 DEF Dispatched
  <2>7. ReadOnlyNeverChanges'
    BY <2>4, <2>5, <2>6 DEF ReadOnlyNeverChanges
  <2>8. HttpConfirmsNothing'
    BY <2>2, <2>4, <2>5, <2>6, HttpHasNoElicitation DEF HttpConfirmsNothing, SurfaceInv
  <2> QED BY <2>2, <2>7, <2>8 DEF SurfaceInv
<1>3. ASSUME NEW who, NEW r, last' = Said(who, Effect(r)),
             proc = "serving", UNCHANGED <<proc, conf, tools>>
      PROVE  SurfaceInv'
  <2>1. last'.effect = Effect(r)
    BY <1>3 DEF Said
  <2> QED BY <1>3, <2>1, EffectIsHarmless
          DEF SurfaceInv, BuiltFromEnvironment, Built, ReadOnlyNeverChanges, HttpConfirmsNothing
<1>5. ASSUME NEW who, PostAccepted(who) \/ OpenEvents(who) \/ Probe(who)
      PROVE  SurfaceInv'
  BY <1>3, <1>5 DEF PostAccepted, OpenEvents, Probe, Admitted
<1>6. ASSUME NEW who, NEW sent, PostRefused(who, sent)
      PROVE  SurfaceInv'
  BY <1>3, <1>6 DEF PostRefused
<1>7. CASE CloseEvents \/ SigInt \/ Drained \/ StdinEof
  <2>1. /\ UNCHANGED <<conf, tools, last>> /\ Built /\ Built'
    BY <1>7 DEF CloseEvents, SigInt, Drained, StdinEof, Built
  <2> QED BY <2>1 DEF SurfaceInv, BuiltFromEnvironment, Built,
                      ReadOnlyNeverChanges, HttpConfirmsNothing
<1>8. CASE UNCHANGED tvars
  BY <1>8 DEF tvars, SurfaceInv, BuiltFromEnvironment, Built, ReadOnlyNeverChanges, HttpConfirmsNothing
<1> QED BY <1>1, <1>2, <1>5, <1>6, <1>7, <1>8 DEF ToolServerNext

LEMMA SurfaceHolds == ToolServerSpec => []SurfaceInv
  BY SurfaceInit, SurfaceStep, PTL DEF ToolServerSpec

-----------------------------------------------------------------------------
(* The theorems                                                            *)

\* Started without --enable-writes, in whatever environment, the server never
\* changes SAP: write tools are hidden from tools/call (ServerBuilder::build)
\* and sap.rfc.call is stopped by the gate of either client.
THEOREM ReadOnlyServer == ToolServerSpec => []ReadOnlyNeverChanges
<1>1. SurfaceInv => ReadOnlyNeverChanges
  BY DEF SurfaceInv, BuiltFromEnvironment, Built, ReadOnlyNeverChanges
<1> QED BY <1>1, SurfaceHolds, PTL

\* Over HTTP no workflow is recorded as confirmed, whichever tool is called:
\* the handle main passes to the handlers there is disabled and declines.
THEOREM HttpServerConfirmsNothing == ToolServerSpec => []HttpConfirmsNothing
<1>1. SurfaceInv => HttpConfirmsNothing
  BY DEF SurfaceInv, BuiltFromEnvironment, Built, HttpConfirmsNothing
<1> QED BY <1>1, SurfaceHolds, PTL

\* Over HTTP only a caller from an allowed origin that presents the token has
\* an effect on SAP, on the audit log or on the server (check_origin and
\* check_auth in front of every handler but the probes).
THEOREM EffectsAuthorised == ToolServerSpec => OnlyAuthorisedEffects
<1> DEFINE Authorised(w) == /\ conf.origins # {} => w.origin \in conf.origins
                            /\ conf.token # "none" => w.token = conf.token
           Ineffective == /\ last'.effect.change = {} /\ last'.effect.audit = {}
                          /\ UNCHANGED <<logLevel, streams>>
<1>1. \A w, e : Said(w, e).to = w /\ Said(w, e).effect = e
  BY DEF Said
<1>2. ASSUME NEW who, conf.transport = "http", Admitted(who)
      PROVE  Authorised(who)
  BY <1>2 DEF Admitted, PostGate, CheckOrigin, CheckAuth
<1>3. ASSUME conf.transport = "http", last' # last, ToolServerNext
      PROVE  Authorised(last'.to) \/ Ineffective
  <2>1. ASSUME NEW who, Request(who)
        PROVE  Authorised(last'.to)
    <3>1. Admitted(who) /\ last'.to = who
      BY <1>1, <2>1 DEF Request, Answer, ToolsCall, RfcCall, ToolsList, Read, GetPrompt, SetLevel,
                        OtherMethod
    <3> QED BY <1>2, <1>3, <3>1
  <2>2. ASSUME NEW who, PostAccepted(who)
        PROVE  Authorised(last'.to)
    BY <1>1, <1>2, <1>3, <2>2 DEF PostAccepted
  <2>3. ASSUME NEW who \in Clients, OpenEvents(who)
        PROVE  Authorised(last'.to) \/ Ineffective
    <3>1. CASE PostGate(conf, who, "message") = "pass"
      <4>1. Admitted(who)
        BY <2>3, <3>1 DEF OpenEvents, Admitted
      <4> QED BY <1>1, <1>2, <1>3, <2>3, <3>1, <4>1 DEF OpenEvents
    <3>2. CASE PostGate(conf, who, "message") # "pass"
      BY <1>1, <2>3, <3>2, EffectIsHarmless DEF OpenEvents
    <3> QED BY <3>1, <3>2
  <2>4. ASSUME NEW who, NEW sent, PostRefused(who, sent) \/ Probe(who)
        PROVE  Ineffective
    BY <1>1, <2>4, EffectIsHarmless DEF PostRefused, Probe
  <2>5. \A env : Launch(env) => last' = last
    BY DEF Launch
  <2>6. CloseEvents \/ SigInt \/ Drained \/ StdinEof => last' = last
    BY DEF CloseEvents, SigInt, Drained, StdinEof
  <2> HIDE DEF Authorised, Ineffective
  <2> QED BY <1>3, <2>1, <2>2, <2>3, <2>4, <2>5, <2>6 DEF ToolServerNext
<1>4. [ToolServerNext]_tvars
        => [conf.transport = "http" /\ last' # last
              => \/ /\ conf.origins # {} => last'.to.origin \in conf.origins
                    /\ conf.token # "none" => last'.to.token = conf.token
                 \/ /\ last'.effect.change = {} /\ last'.effect.audit = {}
                    /\ UNCHANGED <<logLevel, streams>>]_tvars
  BY <1>3
<1> QED BY <1>4, PTL DEF ToolServerSpec, OnlyAuthorisedEffects

-----------------------------------------------------------------------------
(* The catalogue                                                           *)

Scoring(q) == {f \in DOMAIN Queries[q] : Queries[q][f] > 0}

\* An order of the scoring functions holds each of them.
LEMMA OrderIsComplete ==
    ASSUME NEW q \in DOMAIN Queries, NEW s \in [1..Cardinality(Scoring(q)) -> Scoring(q)],
           \A i, j \in 1..Len(s) : s[i] = s[j] => i = j
    PROVE  /\ Cardinality(Scoring(q)) \in Nat
           /\ Len(s) = Cardinality(Scoring(q))
           /\ \A f \in Scoring(q) : \E i \in 1..Len(s) : s[i] = f
<1> DEFINE S == Scoring(q)
           c == Cardinality(S)
<1>1. IsFiniteSet(S)
  <2>1. S \in SUBSET DOMAIN Queries[q] /\ IsFiniteSet(DOMAIN Queries[q])
    BY CatalogueAssumption DEF Scoring
  <2> HIDE DEF S
  <2> QED BY ONLY <2>1, FS_Subset
<1> HIDE DEF S
<1>2. c \in Nat
  BY ONLY <1>1, FS_CardinalityType
<1>3. Len(s) = c /\ s \in [1..c -> S]
  BY <1>2 DEF S
<1>4. IsFiniteSet(1..c) /\ Cardinality(1..c) = c
  BY <1>2, FS_Interval
<1> HIDE DEF c
<1>5. s \in Injection(1..c, S)
  BY <1>3, Fun_IsInj
<1>6. s \in Surjection(1..c, S)
  BY ONLY <1>1, <1>4, <1>5, FS_Injection DEF c
<1>7. \A f \in S : \E i \in 1..c : s[i] = f
  BY <1>6 DEF Surjection
<1> QED BY <1>2, <1>3, <1>7 DEF S, c

LEMMA SearchAnswers ==
    ASSUME NEW q \in DOMAIN Queries, NEW n \in Limits, NEW a \in SearchRfc(q, n)
    PROVE  LET hits == {a.rows[i] : i \in 1..Len(a.rows)}
           IN  /\ Len(a.rows) <= MaxOf(n, 1)
               /\ Scoring(q) # {} => hits # {}
               /\ \A f \in hits, g \in Scoring(q) \ hits : Queries[q][f] >= Queries[q][g]
<1> DEFINE S == Scoring(q)
           l == MaxOf(n, 1)
           hits == {a.rows[i] : i \in 1..Len(a.rows)}
<1>1. PICK s \in [1..Cardinality(S) -> S] :
        /\ \A i, j \in 1..Len(s) : /\ s[i] = s[j] => i = j
                                   /\ i < j => Queries[q][s[i]] >= Queries[q][s[j]]
        /\ a = Answered(FirstRows(s, l))
  BY DEF SearchRfc, Scoring
<1>2. /\ Cardinality(S) \in Nat /\ Len(s) = Cardinality(S) /\ s \in [1..Len(s) -> S]
      /\ \A f \in S : \E i \in 1..Len(s) : s[i] = f
  <2>1. \A i, j \in 1..Len(s) : s[i] = s[j] => i = j
    BY <1>1
  <2>2. /\ Cardinality(Scoring(q)) \in Nat /\ Len(s) = Cardinality(Scoring(q))
        /\ \A f \in Scoring(q) : \E i \in 1..Len(s) : s[i] = f
    BY <1>1, <2>1, OrderIsComplete, ZenonT(40)
  <2> QED BY <1>1, <2>2
<1>3. l \in Nat /\ l >= 1 /\ l = MaxOf(n, 1)
  BY CatalogueAssumption DEF MaxOf
<1> HIDE DEF S, l
<1>4. a.rows = FirstRows(s, l)
  BY <1>1 DEF Answered
<1>5. PICK m \in Nat : /\ m <= l /\ m <= Len(s) /\ (m = Len(s) \/ m = l)
                       /\ Len(a.rows) = m /\ \A i \in 1..m : a.rows[i] = s[i]
  <2>1. CASE Len(s) <= l
    BY <1>2, <1>3, <1>4, <2>1 DEF FirstRows
  <2>2. CASE ~(Len(s) <= l)
    <3>1. a.rows = SubSeq(s, 1, l)
      BY <1>4, <2>2 DEF FirstRows
    <3>2. Len(SubSeq(s, 1, l)) = l /\ \A i \in 1..l : SubSeq(s, 1, l)[i] = s[i]
      BY <1>2, <1>3, <2>2
    <3> QED BY <1>2, <1>3, <2>2, <3>1, <3>2
  <2> QED BY <2>1, <2>2
<1>6. Len(a.rows) <= MaxOf(n, 1)
  BY <1>3, <1>5
<1>7. ASSUME S # {} PROVE hits # {}
  <2>1. Len(s) >= 1
    BY <1>2, <1>7
  <2>2. 1 \in 1..Len(a.rows)
    BY <1>2, <1>3, <1>5, <2>1
  <2> QED BY <2>2
<1>8. ASSUME NEW f \in hits, NEW g \in S \ hits
      PROVE  Queries[q][f] >= Queries[q][g]
  <2>1. PICK i \in 1..m : f = s[i]
    BY <1>5
  <2>2. PICK j \in 1..Len(s) : g = s[j]
    BY <1>2
  <2>3. j \notin 1..m
    BY <1>5, <2>2
  <2>4. i < j /\ i \in 1..Len(s)
    BY <1>2, <1>5, <2>1, <2>2, <2>3
  <2> QED BY <1>1, <2>1, <2>2, <2>4
<1> QED BY <1>6, <1>7, <1>8 DEF S

\* search_rfc leaves out no function that scores higher than one it returns,
\* for any catalogue, query and limit (client.rs:301-324).
THEOREM SearchesAreTop == CatalogueSpec => []SearchIsTop
<1>1. CatalogueInit => SearchIsTop
  BY DEF CatalogueInit, SearchIsTop
<1>2. SearchIsTop /\ [CatalogueNext]_cvars => SearchIsTop'
  <2> SUFFICES ASSUME SearchIsTop, [CatalogueNext]_cvars PROVE SearchIsTop'
    OBVIOUS
  <2>1. CASE UNCHANGED cvars
    BY <2>1 DEF cvars, SearchIsTop
  <2>2. CASE ServeRead
    <3>1. ask'.op = "read"
      BY <2>2 DEF ServeRead, Serve, ReadRequests
    <3> QED BY <3>1 DEF SearchIsTop
  <2>3. CASE ServeMetadata
    <3>1. \/ \E f : ask' = [op |-> "metadata", name |-> f]
          \/ \E fs : ask' = [op |-> "bulk", names |-> fs]
          \/ \E t : ask' = [op |-> "structure", name |-> t]
          \/ ask' = [op |-> "info"]
      BY <2>3 DEF ServeMetadata, Serve
    <3>2. ask'.op \in {"metadata", "bulk", "structure", "info"}
      BY <3>1
    <3> QED BY <3>2 DEF SearchIsTop
  <2>4. CASE ServeCall
    <3>1. ask'.op = "call"
      BY <2>4 DEF ServeCall, Serve
    <3> QED BY <3>1 DEF SearchIsTop
  <2>5. CASE ServeSearch
    <3>1. PICK q \in DOMAIN Queries, n \in Limits : \E a \in SearchRfc(q, n) :
             Serve([op |-> "search", query |-> q, max |-> n], a)
      BY <2>5 DEF ServeSearch
    <3>2. PICK a \in SearchRfc(q, n) : Serve([op |-> "search", query |-> q, max |-> n], a)
      BY <3>1
    <3>3. ask'.query = q /\ ask'.max = n /\ ans' = a
      BY <3>2 DEF Serve
    <3> DEFINE hits == {a.rows[i] : i \in 1..Len(a.rows)}
    <3>4. /\ Len(a.rows) <= MaxOf(n, 1)
          /\ Scoring(q) # {} => hits # {}
          /\ \A f \in hits, g \in Scoring(q) \ hits : Queries[q][f] >= Queries[q][g]
      BY SearchAnswers
    <3>5. {ans'.rows[i] : i \in 1..Len(ans'.rows)} = hits
      BY <3>3
    <3>6. {f \in DOMAIN Queries[ask'.query] : Queries[ask'.query][f] > 0} = Scoring(q)
      BY <3>3 DEF Scoring
    <3> HIDE DEF hits
    <3> QED BY <3>3, <3>4, <3>5, <3>6 DEF SearchIsTop
  <2> QED BY <2>1, <2>2, <2>3, <2>4, <2>5 DEF CatalogueNext
<1> QED BY <1>1, <1>2, PTL DEF CatalogueSpec

-----------------------------------------------------------------------------
(* Reading a table                                                         *)

\* The order of the naturals is well founded, so a set of them has a least
\* element; this is what replaces induction below.
LEMMA LeastNatural ==
    ASSUME NEW T, T \subseteq Nat, T # {}
    PROVE  \E x \in T : \A y \in T : x <= y
<1> DEFINE R == OpToRel(<, Nat)
<1>1. IsWellFoundedOn(R, Nat)
  BY NatLessThanWellFounded
<1>2. \A y, x \in Nat : y < x => <<y, x>> \in R
  BY DEF OpToRel
<1> HIDE DEF R
<1>3. PICK x \in T : \A y \in T : ~ (<<y, x>> \in R)
  BY <1>1, WFMin
<1>4. \A y \in T : x \in Nat /\ y \in Nat /\ ~(y < x)
  BY <1>2, <1>3
<1>5. \A y \in T : x <= y
  BY <1>4
<1> QED BY <1>3, <1>5

-----------------------------------------------------------------------------
(* LIKE                                                                    *)

\* The beginning of a sequence.
LEMMA Beginning ==
    ASSUME NEW X, NEW s \in Seq(X), NEW k \in Nat, k <= Len(s)
    PROVE  /\ SubSeq(s, 1, k) \in Seq(X) /\ Len(SubSeq(s, 1, k)) = k
           /\ \A j \in 1..k : SubSeq(s, 1, k)[j] = s[j]
  OBVIOUS

\* A cut of a text of m characters by a pattern of n characters.
Cuts(n, m) == [0..n -> 0..m]

\* From a to b every character of the pattern takes one character.
RunsAlong(cut, n, a, b) ==
    \A j \in 1..n : a < j /\ j <= b => cut[j] = cut[j - 1] + 1

\* Where every character of a piece of the pattern takes one character, the
\* cut runs along with it.
LEMMA CutRuns ==
    ASSUME NEW n \in Nat, NEW m \in Nat, NEW cut \in Cuts(n, m), NEW a \in 0..n, NEW b \in 0..n,
           RunsAlong(cut, n, a, b)
    PROVE  \A j \in 0..n : a <= j /\ j <= b => cut[j] = cut[a] + (j - a)
<1> DEFINE bad == {j \in 0..n : a <= j /\ j <= b /\ cut[j] # cut[a] + (j - a)}
<1> SUFFICES ASSUME bad # {} PROVE FALSE
  OBVIOUS
<1>1. PICK j \in bad : \A k \in bad : j <= k
  <2>1. bad \subseteq Nat
    OBVIOUS
  <2> HIDE DEF bad
  <2> QED BY <2>1, LeastNatural
<1>2. /\ j \in 0..n /\ a <= j /\ j <= b /\ cut[j] # cut[a] + (j - a)
      /\ cut[a] \in 0..m
  BY DEF Cuts
<1>3. j # a /\ j - 1 \in 0..n /\ a <= j - 1 /\ j - 1 <= b
  BY <1>2
<1>4. j - 1 \notin bad
  BY <1>1, <1>3
<1>5. cut[j - 1] = cut[a] + ((j - 1) - a)
  BY <1>3, <1>4
<1>6. cut[j] = cut[j - 1] + 1
  BY <1>2, <1>3 DEF RunsAlong
<1> QED BY <1>2, <1>3, <1>5, <1>6

LEMMA LikeNoWildcard ==
    ASSUME NEW X, NEW h \in Seq(X), NEW p \in Seq(X), ~HasWildcard(p)
    PROVE  LikeMatch(h, p) <=> h = p
<1> DEFINE n == Len(p)  m == Len(h)
<1>0. n \in Nat /\ m \in Nat
  OBVIOUS
<1>1. \A j \in 1..n : p[j] # Percent /\ p[j] # Underscore
  BY DEF HasWildcard
<1>2. ASSUME h = p PROVE LikeMatch(h, p)
  <2> DEFINE cut == [j \in 0..n |-> j]
  <2>1. cut \in [0..n -> 0..m] /\ cut[0] = 0 /\ cut[n] = m
    BY <1>0, <1>2
  <2>2. \A j \in 1..n : j \in 0..n /\ j - 1 \in 0..n
    BY <1>0
  <2>3. \A j \in 1..n : cut[j] = cut[j - 1] + 1 /\ p[j] \in {Underscore, h[cut[j]]}
    BY <1>2, <2>2
  <2> HIDE DEF cut
  <2> QED BY <1>1, <2>1, <2>3 DEF LikeMatch
<1>3. ASSUME LikeMatch(h, p) PROVE h = p
  <2>1. PICK cut \in [0..n -> 0..m] :
           /\ cut[0] = 0 /\ cut[n] = m
           /\ \A j \in 1..n : IF p[j] = Percent THEN cut[j - 1] <= cut[j]
                              ELSE cut[j] = cut[j - 1] + 1 /\ p[j] \in {Underscore, h[cut[j]]}
    BY <1>3 DEF LikeMatch
  <2>2. \A j \in 1..n : cut[j] = cut[j - 1] + 1 /\ p[j] = h[cut[j]]
    BY <1>1, <2>1
  <2>3. \A j \in 0..n : 0 <= j /\ j <= n => cut[j] = cut[0] + (j - 0)
    <3>1. /\ cut \in Cuts(n, m) /\ 0 \in 0..n /\ n \in 0..n
          /\ RunsAlong(cut, n, 0, n)
      BY <1>0, <2>1, <2>2 DEF Cuts, RunsAlong
    <3> HIDE DEF n, m
    <3> QED BY ONLY <1>0, <3>1, CutRuns, ZenonT(40)
  <2>4. \A j \in 0..n : cut[j] = j
    BY <1>0, <2>1, <2>3
  <2>5. m = n /\ \A j \in 1..n : p[j] = h[j]
    BY <1>0, <2>1, <2>2, <2>4
  <2> QED BY <2>5
<1> QED BY <1>2, <1>3

\* prefix%
LEMMA LikePrefix ==
    ASSUME NEW X, NEW h \in Seq(X), NEW p \in Seq(X), p # <<>>, p[Len(p)] = Percent,
           \A j \in 1..(Len(p) - 1) : p[j] # Percent /\ p[j] # Underscore
    PROVE  LikeMatch(h, p) <=> StartsWith(h, WithoutLast(p))
<1> DEFINE n == Len(p)  m == Len(h)
<1>0. n \in Nat /\ m \in Nat /\ n > 0
  OBVIOUS
<1>1. /\ WithoutLast(p) \in Seq(X) /\ Len(WithoutLast(p)) = n - 1
      /\ \A j \in 1..(n - 1) : WithoutLast(p)[j] = p[j]
  <2>1. WithoutLast(p) = SubSeq(p, 1, n - 1)
    BY DEF WithoutLast
  <2>2. n - 1 \in Nat /\ n - 1 <= Len(p)
    BY <1>0
  <2> HIDE DEF n
  <2> QED BY <2>1, <2>2, Beginning
<1> DEFINE w == WithoutLast(p)
<1>2. StartsWith(h, w) <=> n - 1 <= m /\ \A j \in 1..(n - 1) : h[j] = p[j]
  <2> HIDE DEF w
  <2>0. w \in Seq(X) /\ Len(w) = n - 1 /\ \A j \in 1..(n - 1) : w[j] = p[j]
    BY <1>1 DEF w
  <2>1. ASSUME n - 1 <= m PROVE SubSeq(h, 1, n - 1) = w <=> \A j \in 1..(n - 1) : h[j] = p[j]
    <3>1. /\ SubSeq(h, 1, n - 1) \in Seq(X) /\ Len(SubSeq(h, 1, n - 1)) = n - 1
          /\ \A j \in 1..(n - 1) : SubSeq(h, 1, n - 1)[j] = h[j]
      <4>1. n - 1 \in Nat /\ n - 1 <= Len(h)
        BY <1>0, <2>1
      <4> HIDE DEF n
      <4> QED BY <4>1, Beginning
    <3> QED BY <2>0, <3>1
  <2> QED BY <2>0, <2>1 DEF StartsWith
<1>3. ASSUME n - 1 <= m, \A j \in 1..(n - 1) : h[j] = p[j] PROVE LikeMatch(h, p)
  <2> DEFINE cut == [j \in 0..n |-> IF j = n THEN m ELSE j]
  <2>1. cut \in [0..n -> 0..m] /\ cut[0] = 0 /\ cut[n] = m
    BY <1>0, <1>3
  <2>2. \A j \in 1..n : j \in 0..n /\ j - 1 \in 0..n /\ j - 1 # n
    BY <1>0
  <2>3. \A j \in 1..(n - 1) : cut[j] = cut[j - 1] + 1 /\ p[j] \in {Underscore, h[cut[j]]}
    BY <1>0, <1>3, <2>2
  <2>4. cut[n - 1] <= cut[n]
    BY <1>0, <1>3
  <2>5. \A j \in 1..n : IF p[j] = Percent THEN cut[j - 1] <= cut[j]
                              ELSE cut[j] = cut[j - 1] + 1 /\ p[j] \in {Underscore, h[cut[j]]}
    <3> HIDE DEF cut
    <3> TAKE j \in 1..n
    <3>1. CASE j = n
      BY <2>4, <3>1
    <3>2. CASE j # n
      <4>1. j \in 1..(n - 1)
        BY <3>2, <1>0
      <4> QED BY <2>3, <4>1
    <3> QED BY <3>1, <3>2
  <2> HIDE DEF cut
  <2> QED BY <2>1, <2>5 DEF LikeMatch
<1>4. ASSUME LikeMatch(h, p) PROVE n - 1 <= m /\ \A j \in 1..(n - 1) : h[j] = p[j]
  <2>1. PICK cut \in [0..n -> 0..m] :
           /\ cut[0] = 0 /\ cut[n] = m
           /\ \A j \in 1..n : IF p[j] = Percent THEN cut[j - 1] <= cut[j]
                              ELSE cut[j] = cut[j - 1] + 1 /\ p[j] \in {Underscore, h[cut[j]]}
    BY <1>4 DEF LikeMatch
  <2>2. \A j \in 1..(n - 1) : cut[j] = cut[j - 1] + 1 /\ p[j] = h[cut[j]]
    BY <1>0, <2>1
  <2>3. \A j \in 0..n : 0 <= j /\ j <= n - 1 => cut[j] = cut[0] + (j - 0)
    <3>1. RunsAlong(cut, n, 0, n - 1)
      BY <1>0, <2>2 DEF RunsAlong
    <3>2. 0 \in 0..n /\ n - 1 \in 0..n /\ cut \in Cuts(n, m)
      BY <1>0, <2>1 DEF Cuts
    <3> HIDE DEF n, m
    <3> QED BY ONLY <1>0, <3>1, <3>2, CutRuns, ZenonT(40)
  <2>4. \A j \in 0..(n - 1) : cut[j] = j
    BY <1>0, <2>1, <2>3
  <2>5. n - 1 <= m
    BY <1>0, <2>1, <2>4
  <2> QED BY <1>0, <2>2, <2>4, <2>5
<1> QED BY <1>2, <1>3, <1>4

\* %part%, and % alone
LEMMA LikePart ==
    ASSUME NEW X, NEW h \in Seq(X), NEW p \in Seq(X), Len(p) > 1, p[1] = Percent, p[Len(p)] = Percent,
           \A j \in 2..(Len(p) - 1) : p[j] # Percent /\ p[j] # Underscore
    PROVE  LikeMatch(h, p) <=> Contains(h, WithoutLast(Tail(p)))
<1> DEFINE n == Len(p)  m == Len(h)  w == WithoutLast(Tail(p))
           Fits(i) == i + (n - 2) <= m /\ \A j \in 1..(n - 2) : h[i + j] = p[j + 1]
<1>0. n \in Nat /\ m \in Nat /\ n > 1
  OBVIOUS
<1>1. w \in Seq(X) /\ Len(w) = n - 2 /\ \A j \in 1..(n - 2) : w[j] = p[j + 1]
  <2>1. Tail(p) \in Seq(X) /\ Len(Tail(p)) = n - 1 /\ \A j \in 1..(n - 1) : Tail(p)[j] = p[j + 1]
    BY <1>0
  <2>2. Tail(p)[n - 1] = Percent /\ Tail(p) # <<>>
    <3>1. n - 1 \in 1..(n - 1) /\ (n - 1) + 1 = n
      BY <1>0
    <3>2. Tail(p)[n - 1] = p[n]
      BY <2>1, <3>1
    <3>3. Len(Tail(p)) # 0
      BY <1>0, <2>1
    <3>4. Tail(p) # <<>>
      <4>1. Len(<<>>) = 0
        OBVIOUS
      <4> QED BY ONLY <3>3, <4>1
    <3> QED BY <3>2, <3>4
  <2>3. w = SubSeq(Tail(p), 1, n - 2)
    BY <1>0, <2>1, <2>2 DEF WithoutLast
  <2>4. n - 2 \in Nat /\ n - 2 <= Len(Tail(p)) /\ \A j \in 1..(n - 2) : j \in 1..(n - 1)
    BY <1>0, <2>1
  <2>5. /\ w \in Seq(X) /\ Len(w) = n - 2
        /\ \A j \in 1..(n - 2) : w[j] = Tail(p)[j]
    <3> HIDE DEF w, n
    <3> QED BY <2>1, <2>3, <2>4, Beginning
  <2> HIDE DEF w, n
  <2> QED BY <2>1, <2>4, <2>5
<1>2. \A i \in 0..m : StartsWith(SubSeq(h, i + 1, m), w) <=> Fits(i)
  <2> TAKE i \in 0..m
  <2> DEFINE s == SubSeq(h, i + 1, m)
  <2>1. s \in Seq(X) /\ Len(s) = m - i /\ \A j \in 1..(m - i) : s[j] = h[i + j]
    BY <1>0
  <2> HIDE DEF s, w, n, m
  <2>2. StartsWith(s, w) <=> n - 2 <= m - i /\ SubSeq(s, 1, n - 2) = w
    BY <1>1, <2>1 DEF StartsWith
  <2>3. ASSUME n - 2 <= m - i
        PROVE  SubSeq(s, 1, n - 2) = w <=> \A j \in 1..(n - 2) : h[i + j] = p[j + 1]
    <3>1. /\ SubSeq(s, 1, n - 2) \in Seq(X) /\ Len(SubSeq(s, 1, n - 2)) = n - 2
          /\ \A j \in 1..(n - 2) : SubSeq(s, 1, n - 2)[j] = s[j]
      BY <1>0, <2>1, <2>3
    <3>2. \A j \in 1..(n - 2) : s[j] = h[i + j]
      BY <1>0, <2>1, <2>3
    <3> DEFINE z == SubSeq(s, 1, n - 2)
    <3>3. z \in Seq(X) /\ Len(z) = n - 2 /\ \A j \in 1..(n - 2) : z[j] = h[i + j]
      BY <3>1, <3>2
    <3>4. n - 2 \in Nat
      BY <1>0
    <3> HIDE DEF z
    <3>5. z = w <=> \A j \in 1..(n - 2) : z[j] = w[j]
      BY <1>1, <3>3, <3>4
    <3>6. z = w <=> \A j \in 1..(n - 2) : h[i + j] = p[j + 1]
      BY <1>1, <3>3, <3>5
    <3> QED BY <3>6 DEF z
  <2> QED BY <1>0, <2>2, <2>3 DEF s
<1>3. Contains(h, w) <=> \E i \in 0..m : Fits(i)
  BY <1>2 DEF Contains
<1>4. ASSUME NEW i \in 0..m, Fits(i) PROVE LikeMatch(h, p)
  <2> DEFINE cut == [j \in 0..n |-> IF j = 0 THEN 0 ELSE IF j = n THEN m ELSE i + (j - 1)]
  <2>1. cut \in [0..n -> 0..m] /\ cut[0] = 0 /\ cut[n] = m
    BY <1>0, <1>4
  <2>2. cut[0] <= cut[1] /\ cut[n - 1] <= cut[n]
    BY <1>0, <1>4, <2>1
  <2>3. ASSUME NEW j \in 2..(n - 1) PROVE cut[j] = cut[j - 1] + 1 /\ p[j] = h[cut[j]]
    <3>1. j \in 0..n /\ j - 1 \in 0..n /\ j # 0 /\ j - 1 # 0 /\ j # n /\ j - 1 # n
      BY <1>0
    <3>2. j - 1 \in 1..(n - 2) /\ (j - 1) + 1 = j
      BY <1>0
    <3>3. h[i + (j - 1)] = p[j]
      BY <1>4, <3>2
    <3>4. cut[j] = i + (j - 1) /\ cut[j - 1] = i + ((j - 1) - 1)
      BY <3>1
    <3> QED BY <3>3, <3>4, <1>0
  <2>5. \A j \in 1..n : IF p[j] = Percent THEN cut[j - 1] <= cut[j]
                              ELSE cut[j] = cut[j - 1] + 1 /\ p[j] \in {Underscore, h[cut[j]]}
    <3> HIDE DEF cut
    <3> TAKE j \in 1..n
    <3>1. CASE j = n
      BY <2>2, <3>1
    <3>2. CASE j = 1
      BY <2>2, <3>2
    <3>3. CASE j # n /\ j # 1
      <4>1. j \in 2..(n - 1)
        BY <3>3, <1>0
      <4> QED BY <2>3, <4>1
    <3> QED BY <3>1, <3>2, <3>3
  <2> HIDE DEF cut
  <2> QED BY <2>1, <2>5 DEF LikeMatch
<1>5. ASSUME LikeMatch(h, p) PROVE \E i \in 0..m : Fits(i)
  <2>1. PICK cut \in [0..n -> 0..m] :
           /\ cut[0] = 0 /\ cut[n] = m
           /\ \A j \in 1..n : IF p[j] = Percent THEN cut[j - 1] <= cut[j]
                              ELSE cut[j] = cut[j - 1] + 1 /\ p[j] \in {Underscore, h[cut[j]]}
    BY <1>5 DEF LikeMatch
  <2>2. \A j \in 2..(n - 1) : cut[j] = cut[j - 1] + 1 /\ p[j] = h[cut[j]]
    <3> TAKE j \in 2..(n - 1)
    <3>1. j \in 1..n /\ p[j] # Percent /\ p[j] # Underscore
      BY <1>0
    <3> QED BY <2>1, <3>1
  <2>3. \A j \in 0..n : 1 <= j /\ j <= n - 1 => cut[j] = cut[1] + (j - 1)
    <3>1. RunsAlong(cut, n, 1, n - 1)
      <4>1. \A j \in 1..n : 1 < j /\ j <= n - 1 => j \in 2..(n - 1)
        BY <1>0
      <4> QED BY ONLY <2>2, <4>1 DEF RunsAlong
    <3>2. 1 \in 0..n /\ n - 1 \in 0..n /\ cut \in Cuts(n, m)
      BY <1>0, <2>1 DEF Cuts
    <3> HIDE DEF n, m
    <3> QED BY ONLY <1>0, <3>1, <3>2, CutRuns, ZenonT(40)
  <2>4. cut[1] \in 0..m /\ cut[n - 1] \in 0..m /\ cut[n - 1] = cut[1] + (n - 2)
    <3>1. 1 \in 0..n /\ n - 1 \in 0..n /\ 1 <= n - 1 /\ (n - 1) - 1 = n - 2
      BY <1>0
    <3>2. cut[n - 1] = cut[1] + ((n - 1) - 1)
      BY <2>3, <3>1
    <3> QED BY <2>1, <3>1, <3>2
  <2>5. ASSUME NEW j \in 1..(n - 2) PROVE h[cut[1] + j] = p[j + 1]
    <3>1. j + 1 \in 2..(n - 1) /\ j + 1 \in 0..n
      BY <1>0
    <3>2. cut[j + 1] = cut[1] + j
      BY <2>3, <2>4, <3>1
    <3> QED BY <2>2, <3>1, <3>2
  <2>6. Fits(cut[1])
    BY <1>0, <2>4, <2>5
  <2> QED BY <2>4, <2>6
<1> QED BY <1>3, <1>4, <1>5

\* The forms of sql_like are exact for the patterns of Exact.
LEMMA LikeIsExact ==
    ASSUME NEW X, NEW h \in Seq(X), NEW p \in Seq(X), Exact(p)
    PROVE  LikeForms(h, p) <=> LikeMatch(h, p)
<1> DEFINE n == Len(p)
<1>0. n \in Nat
  OBVIOUS
<1>1. CASE ~HasWildcard(p)
  BY <1>1, LikeNoWildcard DEF LikeForms
<1>2. CASE HasWildcard(p)
  <2>1. n > 0 /\ p # <<>>
    BY <1>2, <1>0 DEF HasWildcard
  <2>2. \A i \in 1..n : p[i] # Underscore /\ (p[i] = Percent => i = 1 \/ i = n)
    BY DEF Exact
  <2>3. p[1] = Percent => p[n] = Percent
    BY <2>1 DEF Exact
  <2>4. p[n] = Percent
    BY <1>2, <2>2, <2>3 DEF HasWildcard
  <2>5. CASE p[1] = Percent /\ n = 1
    <3>1. Tail(p) = <<>>
      <4>1. Tail(p) \in Seq(X) /\ Len(Tail(p)) = 0
        BY <2>1, <2>5
      <4> QED BY <4>1, EmptySeq
    <3>2. WithoutLast(Tail(p)) = <<>>
      BY <3>1 DEF WithoutLast
    <3>3. Contains(h, <<>>)
      <4>1. 0 \in 0..Len(h) /\ SubSeq(h, 0 + 1, Len(h)) = h /\ SubSeq(h, 1, 0) = <<>>
        OBVIOUS
      <4> QED BY <4>1 DEF Contains, StartsWith
    <3>4. LikeMatch(h, p)
      <4> DEFINE cut == [j \in 0..1 |-> IF j = 0 THEN 0 ELSE Len(h)]
      <4>1. cut \in [0..1 -> 0..Len(h)] /\ cut[0] = 0 /\ cut[1] = Len(h)
        OBVIOUS
      <4> HIDE DEF cut
      <4>2. \A j \in 1..1 : j = 1 /\ j - 1 = 0
        OBVIOUS
      <4> QED BY <2>5, <4>1, <4>2 DEF LikeMatch
    <3> QED BY <1>2, <2>5, <3>2, <3>3, <3>4 DEF LikeForms
  <2>6. CASE p[1] = Percent /\ n # 1
    <3>1. Len(p) > 1 /\ p[Len(p)] = Percent /\ \A j \in 2..(Len(p) - 1) : p[j] # Percent /\ p[j] # Underscore
      <4>0. n \in Nat /\ n > 0 /\ n # 1
        BY <1>0, <2>1, <2>6
      <4>1. n > 1 /\ \A j \in 2..(n - 1) : j \in 1..n /\ j # 1 /\ j # n
        <5> HIDE DEF n
        <5> QED BY <4>0
      <4> QED BY <2>2, <2>4, <4>1
    <3>2. LikeMatch(h, p) <=> Contains(h, WithoutLast(Tail(p)))
      BY <2>6, <3>1, LikePart
    <3> QED BY <1>2, <2>6, <3>2 DEF LikeForms
  <2>7. CASE p[1] # Percent
    <3>1. \A j \in 1..(Len(p) - 1) : p[j] # Percent /\ p[j] # Underscore
      BY <1>0, <2>2, <2>7
    <3>2. LikeMatch(h, p) <=> StartsWith(h, WithoutLast(p))
      BY <2>1, <2>4, <3>1, LikePrefix
    <3> QED BY <1>2, <2>4, <2>7, <3>2 DEF LikeForms
  <2> QED BY <2>5, <2>6, <2>7
<1> QED BY <1>1, <1>2

-----------------------------------------------------------------------------
(* The loop over the rows                                                  *)

\* The members of a set of row numbers up to i.
UpToRow(S, i) == {j \in S : j <= i}

\* The ones among the first max.
FirstOf(S, max) == {i \in S : Cardinality(UpToRow(S, i)) <= max}

\* f records what is taken after each of the first m rows.
RowRounds(f, m, S, max) ==
    /\ f \in [0..m -> Seq(Nat)]
    /\ f[0] = <<>>
    /\ \A i \in 1..m : f[i] = IF i \in S /\ Len(f[i - 1]) < max
                              THEN Append(f[i - 1], i) ELSE f[i - 1]

LEMMA RoundsExist ==
    ASSUME NEW n \in Nat, NEW S, NEW max
    PROVE  \E f : RowRounds(f, n, S, max)
<1> DEFINE without == {m \in Nat : ~\E f : RowRounds(f, m, S, max)}
<1>1. without = {}
  <2> SUFFICES ASSUME without # {} PROVE FALSE
    OBVIOUS
  <2>1. PICK m \in without : \A k \in without : m <= k
    <3>1. without \subseteq Nat
      OBVIOUS
    <3> HIDE DEF without
    <3> QED BY <3>1, LeastNatural
  <2>2. m \in Nat /\ ~\E f : RowRounds(f, m, S, max)
    OBVIOUS
  <2>3. CASE m = 0
    <3> DEFINE f == [i \in 0..0 |-> <<>>]
    <3>1. f \in [0..0 -> Seq(Nat)] /\ f[0] = <<>> /\ 1..0 = {}
      OBVIOUS
    <3>2. RowRounds(f, 0, S, max)
      <4> HIDE DEF f
      <4> QED BY <3>1 DEF RowRounds
    <3> QED BY <2>2, <2>3, <3>2
  <2>4. CASE m # 0
    <3>1. m - 1 \in Nat /\ m - 1 \notin without
      BY <2>1, <2>2, <2>4
    <3>2. PICK f : RowRounds(f, m - 1, S, max)
      BY <3>1
    <3> DEFINE next == IF m \in S /\ Len(f[m - 1]) < max THEN Append(f[m - 1], m) ELSE f[m - 1]
               g == [i \in 0..m |-> IF i = m THEN next ELSE f[i]]
    <3>3. f \in [0..(m - 1) -> Seq(Nat)] /\ f[m - 1] \in Seq(Nat)
      BY <3>1, <3>2 DEF RowRounds
    <3>4. next \in Seq(Nat)
      BY <2>2, <3>3
    <3>5. g[m] = next /\ \A i \in 0..(m - 1) : g[i] = f[i]
      BY <2>2
    <3>6. g \in [0..m -> Seq(Nat)]
      <4> HIDE DEF next
      <4> QED BY <2>2, <3>3, <3>4
    <3>7. g[0] = <<>>
      BY <2>2, <2>4, <3>2, <3>5 DEF RowRounds
    <3>8. \A i \in 1..m : g[i] = IF i \in S /\ Len(g[i - 1]) < max
                                 THEN Append(g[i - 1], i) ELSE g[i - 1]
      <4> HIDE DEF g
      <4> TAKE i \in 1..m
      <4>1. i - 1 \in 0..(m - 1) /\ g[i - 1] = f[i - 1]
        BY <2>2, <3>5
      <4>2. CASE i = m
        BY <3>5, <4>1, <4>2
      <4>3. CASE i # m
        <5>1. i \in 1..(m - 1) /\ i \in 0..(m - 1)
          BY <2>2, <4>3
        <5>2. f[i] = IF i \in S /\ Len(f[i - 1]) < max THEN Append(f[i - 1], i) ELSE f[i - 1]
          BY <3>2, <5>1 DEF RowRounds
        <5> QED BY <3>5, <4>1, <5>1, <5>2
      <4> QED BY <4>2, <4>3
    <3>9. RowRounds(g, m, S, max)
      <4> HIDE DEF g
      <4> QED BY <3>6, <3>7, <3>8 DEF RowRounds
    <3> QED BY <2>2, <3>9
  <2> QED BY <2>3, <2>4
<1> QED BY <1>1

\* Taken is where such rounds end.
LEMMA TakenRounds ==
    ASSUME NEW n \in Nat, NEW S, NEW max
    PROVE  \E f : RowRounds(f, n, S, max) /\ Taken(n, S, max) = f[n]
<1> DEFINE E(f) == [i \in 0..n |->
                      IF i = 0 THEN <<>>
                      ELSE IF i \in S /\ Len(f[i - 1]) < max THEN Append(f[i - 1], i)
                      ELSE f[i - 1]]
           T == CHOOSE g : g = E(g)
<1>1. PICK f : RowRounds(f, n, S, max)
  BY RoundsExist
<1>2. f = E(f)
  <2>1. f = [i \in 0..n |-> f[i]]
    BY <1>1 DEF RowRounds
  <2>2. \A i \in 0..n : f[i] = IF i = 0 THEN <<>>
                      ELSE IF i \in S /\ Len(f[i - 1]) < max THEN Append(f[i - 1], i)
                      ELSE f[i - 1]
    <3> TAKE i \in 0..n
    <3>1. i # 0 => i \in 1..n
      OBVIOUS
    <3> QED BY <1>1, <3>1 DEF RowRounds
  <2> QED BY <2>1, <2>2
<1>3. T = E(T)
  <2> HIDE DEF E
  <2> QED BY <1>2
<1>4. Taken(n, S, max) = T[n]
  BY DEF Taken
<1> HIDE DEF T
<1> DEFINE bad == {i \in 0..n : T[i] # f[i]}
<1>5. bad = {}
  <2> SUFFICES ASSUME bad # {} PROVE FALSE
    OBVIOUS
  <2>1. PICK i \in bad : \A k \in bad : i <= k
    <3>1. bad \subseteq Nat
      OBVIOUS
    <3> HIDE DEF bad
    <3> QED BY <3>1, LeastNatural
  <2>2. i \in 0..n /\ T[i] # f[i]
    OBVIOUS
  <2>3. T[i] = E(T)[i] /\ f[i] = E(f)[i]
    <3> HIDE DEF E
    <3> QED BY <1>2, <1>3
  <2>4. i # 0
    BY <2>2, <2>3
  <2>5. i - 1 \in 0..n /\ i - 1 \notin bad
    BY <2>1, <2>2, <2>4
  <2>6. T[i - 1] = f[i - 1]
    BY <2>5
  <2> QED BY <2>2, <2>3, <2>4, <2>6
<1>6. T[n] = f[n]
  BY <1>5
<1> QED BY <1>1, <1>4, <1>6

\* The rows up to one more.
LEMMA OneRowMore ==
    ASSUME NEW n \in Nat, NEW S \in SUBSET (1..n), NEW i \in 1..n
    PROVE  /\ \A k : IsFiniteSet(UpToRow(S, k)) /\ Cardinality(UpToRow(S, k)) \in Nat
           /\ i \notin S => UpToRow(S, i) = UpToRow(S, i - 1)
           /\ i \in S => /\ UpToRow(S, i) = UpToRow(S, i - 1) \cup {i}
                         /\ i \notin UpToRow(S, i - 1)
           /\ UpToRow(S, 0) = {} /\ UpToRow(S, n) = S
<1>0. IsFiniteSet(1..n) /\ S \in SUBSET (1..n) /\ \A x \in S : x \in 1..n
  BY FS_Interval
<1>1. IsFiniteSet(S) /\ Cardinality(S) \in Nat
  BY ONLY <1>0, FS_Subset, FS_CardinalityType
<1>2. \A k : IsFiniteSet(UpToRow(S, k)) /\ Cardinality(UpToRow(S, k)) \in Nat
  <2> TAKE k
  <2>1. UpToRow(S, k) \in SUBSET S
    BY DEF UpToRow
  <2> QED BY ONLY <1>1, <2>1, FS_Subset, FS_CardinalityType
<1>3. \A k, x : x \in UpToRow(S, k) <=> x \in S /\ x <= k
  BY DEF UpToRow
<1>4. i \notin S => UpToRow(S, i) = UpToRow(S, i - 1)
  <2> SUFFICES ASSUME i \notin S PROVE UpToRow(S, i) = UpToRow(S, i - 1)
    OBVIOUS
  <2>1. \A x \in S : x <= i <=> x <= i - 1
    BY <1>0
  <2> QED BY <1>3, <2>1
<1>5. ASSUME i \in S
      PROVE  UpToRow(S, i) = UpToRow(S, i - 1) \cup {i} /\ i \notin UpToRow(S, i - 1)
  <2>1. \A x \in S : x <= i <=> x <= i - 1 \/ x = i
    BY <1>0
  <2>2. ~(i <= i - 1)
    OBVIOUS
  <2>3. UpToRow(S, i) = UpToRow(S, i - 1) \cup {i}
    BY <1>3, <1>5, <2>1
  <2> QED BY <1>3, <2>2, <2>3
<1>7. UpToRow(S, 0) = {} /\ UpToRow(S, n) = S
  <2>1. \A x \in S : ~(x <= 0) /\ x <= n
    BY <1>0
  <2> QED BY <1>3, <2>1
<1> QED BY <1>2, <1>4, <1>5, <1>7

\* After i rows the first max of the matching ones are taken, in their order.
RoundsHold(f, S, max, i) ==
    LET c == Cardinality(UpToRow(S, i)) IN
    /\ Len(f[i]) = IF c <= max THEN c ELSE max
    /\ Len(f[i]) = Cardinality(FirstOf(S, max) \cap UpToRow(S, i))
    /\ \A k \in FirstOf(S, max) \cap UpToRow(S, i) : f[i][Cardinality(UpToRow(S, k))] = k

LEMMA RoundsInv ==
    ASSUME NEW n \in Nat, NEW S, S \subseteq 1..n, NEW max \in Nat, NEW f, RowRounds(f, n, S, max)
    PROVE  \A i \in 0..n : RoundsHold(f, S, max, i)
<1> DEFINE F == FirstOf(S, max)
           C(i) == Cardinality(UpToRow(S, i))
           bad == {i \in 0..n : ~RoundsHold(f, S, max, i)}
<1> SUFFICES ASSUME bad # {} PROVE FALSE
  OBVIOUS
<1>0. n \in Nat /\ S \in SUBSET (1..n) /\ \A x \in S : x \in Nat
  OBVIOUS
<1>1. PICK i \in bad : \A k \in bad : i <= k
  <2>1. bad \subseteq Nat
    OBVIOUS
  <2> HIDE DEF bad
  <2> QED BY <2>1, LeastNatural
<1>2. i \in 0..n /\ ~RoundsHold(f, S, max, i)
  OBVIOUS
<1>9. \A k \in 0..n : k < i => RoundsHold(f, S, max, k)
  <2>1. \A k \in 0..n : k < i => k \notin bad
    BY <1>1, <1>2
  <2> QED BY <2>1
<1> HIDE DEF bad
<1>3. ASSUME i = 0 PROVE FALSE
  <2>1. UpToRow(S, 0) = {}
    <3>1. \A x \in S : ~(x <= 0)
      OBVIOUS
    <3> QED BY <3>1 DEF UpToRow
  <2>2. Cardinality({}) = 0 /\ F \cap {} = {} /\ f[0] = <<>> /\ Len(<<>>) = 0
    BY FS_EmptySet DEF RowRounds
  <2>3. /\ Cardinality(UpToRow(S, 0)) = 0 /\ 0 <= max /\ Len(f[0]) = 0
        /\ F \cap UpToRow(S, 0) = {}
    <3> HIDE DEF F
    <3>1. Cardinality(UpToRow(S, 0)) = 0
      BY <2>1, <2>2
    <3>2. F \cap UpToRow(S, 0) = {}
      BY <2>1
    <3>3. Len(f[0]) = 0
      BY <2>2
    <3> QED BY <3>1, <3>2, <3>3
  <2>4. RoundsHold(f, S, max, 0)
    <3> HIDE DEF F
    <3> QED BY <2>2, <2>3 DEF RoundsHold, F
  <2> QED BY <1>2, <1>3, <2>4
<1>4. i \in 1..n /\ i - 1 \in 0..n
  BY <1>2, <1>3
<1>5. RoundsHold(f, S, max, i - 1)
  BY <1>4, <1>9
<1>6. /\ f[i - 1] \in Seq(Nat)
      /\ f[i] = IF i \in S /\ Len(f[i - 1]) < max THEN Append(f[i - 1], i) ELSE f[i - 1]
  BY <1>4 DEF RowRounds
<1>7. CASE i \notin S
  <2>1. UpToRow(S, i) = UpToRow(S, i - 1) /\ f[i] = f[i - 1]
    <3>1. UpToRow(S, i) = UpToRow(S, i - 1)
      BY ONLY <1>0, <1>4, <1>7, OneRowMore
    <3> QED BY <1>6, <1>7, <3>1
  <2> QED BY <1>2, <1>5, <2>1 DEF RoundsHold
<1>8. CASE i \in S
  <2>1. /\ UpToRow(S, i) = UpToRow(S, i - 1) \cup {i} /\ i \notin UpToRow(S, i - 1)
        /\ C(i) = C(i - 1) + 1
        /\ C(i) \in Nat /\ C(i - 1) \in Nat
        /\ \A k : IsFiniteSet(UpToRow(S, k))
    <3>1. \A k : IsFiniteSet(UpToRow(S, k)) /\ Cardinality(UpToRow(S, k)) \in Nat
      BY ONLY <1>0, <1>4, OneRowMore
    <3>2. UpToRow(S, i) = UpToRow(S, i - 1) \cup {i} /\ i \notin UpToRow(S, i - 1)
      BY ONLY <1>0, <1>4, <1>8, OneRowMore
    <3>3. C(i) = C(i - 1) + 1
      BY ONLY <3>1, <3>2, FS_AddElement
    <3> QED BY <3>1, <3>2, <3>3
  <2>2. i \in F <=> C(i) <= max
    BY <1>8 DEF FirstOf
  <2>3. /\ Len(f[i - 1]) = IF C(i - 1) <= max THEN C(i - 1) ELSE max
        /\ Len(f[i - 1]) = Cardinality(F \cap UpToRow(S, i - 1))
        /\ \A k \in F \cap UpToRow(S, i - 1) : f[i - 1][C(k)] = k
    BY <1>5 DEF RoundsHold
  <2>4. IsFiniteSet(F \cap UpToRow(S, i - 1)) /\ i \notin F \cap UpToRow(S, i - 1)
    <3>1. F \cap UpToRow(S, i - 1) \in SUBSET UpToRow(S, i - 1)
      OBVIOUS
    <3>2. IsFiniteSet(F \cap UpToRow(S, i - 1))
      BY ONLY <2>1, <3>1, FS_Subset
    <3> QED BY <2>1, <3>2
  <2>5. CASE C(i) <= max
    <3>1. Len(f[i - 1]) < max /\ Len(f[i - 1]) = C(i - 1)
      BY <2>1, <2>3, <2>5
    <3>2. f[i] = Append(f[i - 1], i)
      BY <1>6, <1>8, <3>1
    <3>3. F \cap UpToRow(S, i) = (F \cap UpToRow(S, i - 1)) \cup {i}
      BY <2>1, <2>2, <2>5
    <3>4. Cardinality(F \cap UpToRow(S, i)) = Cardinality(F \cap UpToRow(S, i - 1)) + 1
      BY ONLY <2>4, <3>3, FS_AddElement
    <3>5. Len(f[i]) = C(i)
      BY <1>6, <2>1, <3>1, <3>2
    <3>6. ASSUME NEW k \in F \cap UpToRow(S, i) PROVE f[i][C(k)] = k
      <4>1. CASE k = i
        <5>1. C(i) = Len(f[i - 1]) + 1
          BY <2>1, <3>1
        <5>2. Append(f[i - 1], i)[Len(f[i - 1]) + 1] = i
          BY <1>4, <1>6
        <5> QED BY <3>2, <4>1, <5>1, <5>2
      <4>2. CASE k # i
        <5>1. k \in F \cap UpToRow(S, i - 1)
          BY <3>3, <4>2
        <5>2. f[i - 1][C(k)] = k
          BY <2>3, <5>1
        <5>3. C(k) \in 1..Len(f[i - 1])
          <6>1. UpToRow(S, k) \in SUBSET UpToRow(S, i - 1) /\ k \in UpToRow(S, k)
            <7>1. k \in S /\ k <= i - 1 /\ k \in Nat /\ i - 1 \in Nat
              <8>1. k \in S /\ k <= i - 1
                BY <5>1 DEF UpToRow
              <8> QED BY <1>0, <1>4, <8>1
            <7>2. \A x \in S : x <= k => x <= i - 1
              BY <1>0, <7>1
            <7>3. k <= k
              BY <7>1
            <7> QED BY <7>1, <7>2, <7>3 DEF UpToRow
          <6>2. C(k) <= C(i - 1) /\ C(k) \in Nat
            BY ONLY <2>1, <6>1, FS_Subset, FS_CardinalityType
          <6>3. C(k) # 0
            BY <2>1, <6>1, FS_EmptySet
          <6> QED BY <2>1, <3>1, <6>2, <6>3
        <5> QED BY <1>6, <3>2, <5>2, <5>3
      <4> QED BY <4>1, <4>2
    <3>7. RoundsHold(f, S, max, i)
      BY <2>3, <2>5, <3>1, <3>4, <3>5, <3>6, <2>1 DEF RoundsHold
    <3> QED BY <1>2, <3>7
  <2>6. CASE ~(C(i) <= max)
    <3>1. f[i] = f[i - 1] /\ Len(f[i - 1]) = max
      BY <1>6, <2>1, <2>3, <2>6
    <3>2. F \cap UpToRow(S, i) = F \cap UpToRow(S, i - 1)
      BY <2>1, <2>2, <2>6
    <3>3. RoundsHold(f, S, max, i)
      BY <2>3, <2>6, <3>1, <3>2 DEF RoundsHold
    <3> QED BY <1>2, <3>3
  <2> QED BY <2>5, <2>6
<1> QED BY <1>4, <1>7, <1>8

\* What the loop takes.
LEMMA TakenIsFirst ==
    ASSUME NEW n \in Nat, NEW S, S \subseteq 1..n, NEW max \in Nat
    PROVE  LET got == Taken(n, S, max)
               F == FirstOf(S, max)
           IN  /\ got \in Seq(Nat) /\ Len(got) = Cardinality(F)
               /\ \A k \in F : /\ Cardinality({j \in F : j <= k}) \in 1..Len(got)
                               /\ got[Cardinality({j \in F : j <= k})] = k
<1> DEFINE F == FirstOf(S, max)
           C(i) == Cardinality(UpToRow(S, i))
<1>1. PICK f : RowRounds(f, n, S, max) /\ Taken(n, S, max) = f[n]
  BY TakenRounds
<1>2. RoundsHold(f, S, max, n)
  <2>1. n \in Nat /\ S \subseteq 1..n /\ max \in Nat /\ n \in 0..n
    OBVIOUS
  <2> QED BY ONLY <1>1, <2>1, RoundsInv
<1>3. f[n] \in Seq(Nat)
  BY <1>1 DEF RowRounds
<1>4. UpToRow(S, n) = S /\ F \cap S = F
  <2>1. \A x \in S : x <= n
    OBVIOUS
  <2> QED BY <2>1 DEF UpToRow, FirstOf
<1>5. IsFiniteSet(S) /\ \A k : IsFiniteSet(UpToRow(S, k)) /\ C(k) \in Nat
  <2>0. IsFiniteSet(1..n) /\ S \in SUBSET (1..n)
    BY FS_Interval
  <2>1. IsFiniteSet(S)
    BY ONLY <2>0, FS_Subset
  <2>2. ASSUME NEW k PROVE IsFiniteSet(UpToRow(S, k)) /\ C(k) \in Nat
    <3>1. UpToRow(S, k) \in SUBSET S
      BY DEF UpToRow
    <3> QED BY ONLY <2>1, <3>1, FS_Subset, FS_CardinalityType
  <2> QED BY <2>1, <2>2
<1>6. Len(f[n]) = Cardinality(F) /\ \A k \in F : f[n][C(k)] = k
  BY <1>2, <1>4 DEF RoundsHold
<1>7. ASSUME NEW k \in F PROVE {j \in F : j <= k} = UpToRow(S, k) /\ C(k) \in 1..Len(f[n])
  <2>1. k \in S /\ C(k) <= max /\ k \in Nat
    BY DEF FirstOf
  <2>2. ASSUME NEW j \in S, j <= k PROVE j \in F
    <3>1. UpToRow(S, j) \in SUBSET UpToRow(S, k)
      <4>1. j \in Nat /\ \A x \in S : x \in Nat
        BY <2>2
      <4>2. \A x \in S : x <= j => x <= k
        BY <2>1, <2>2, <4>1
      <4> QED BY <4>2 DEF UpToRow
    <3>2. C(j) <= C(k)
      BY ONLY <1>5, <3>1, FS_Subset
    <3>3. C(j) \in Nat /\ C(k) \in Nat
      BY <1>5
    <3>4. C(j) <= max
      BY <2>1, <3>2, <3>3
    <3> QED BY <2>2, <3>4 DEF FirstOf
  <2>3. {j \in F : j <= k} = UpToRow(S, k)
    BY <2>2 DEF UpToRow, FirstOf
  <2>4. C(k) # 0
    <3>1. k \in UpToRow(S, k)
      BY <2>1 DEF UpToRow
    <3> QED BY <1>5, <3>1, FS_EmptySet
  <2>5. C(k) <= C(n)
    <3>1. UpToRow(S, k) \in SUBSET UpToRow(S, n)
      BY <1>4 DEF UpToRow
    <3> QED BY ONLY <1>5, <3>1, FS_Subset
  <2>6. Len(f[n]) = IF C(n) <= max THEN C(n) ELSE max
    BY <1>2 DEF RoundsHold
  <2>7. C(k) \in Nat /\ C(n) \in Nat
    BY <1>5
  <2> QED BY <2>1, <2>3, <2>4, <2>5, <2>6, <2>7
<1>8. \A k \in F : /\ Cardinality({j \in F : j <= k}) \in 1..Len(f[n])
                   /\ f[n][Cardinality({j \in F : j <= k})] = k
  BY <1>6, <1>7
<1> QED BY <1>1, <1>3, <1>6, <1>8

-----------------------------------------------------------------------------
(* read_table                                                              *)

\* The characters of the seeded rows, and of the patterns.
Chars == STRING \cup {"0", "1", "3", "A", "D", "E", "F", "G", "H", "L", "O", "P", "R", "S", "T", "U", "W"}

\* What the seeded tables have in common.
WellFormed(t) ==
    /\ DOMAIN t.rows = 1..Len(t.rows) /\ Len(t.rows) \in Nat
    /\ \A i \in 1..Len(t.rows) : \A f \in DOMAIN t.rows[i] : t.rows[i][f] \in Seq(Chars)

LEMMA ColWellFormed ==
    ASSUME NEW client, NEW field, NEW values \in Seq(Seq(Chars)), NEW fields
    PROVE  WellFormed([client |-> client, fields |-> fields, rows |-> Col(client, field, values)])
<1> DEFINE rows == Col(client, field, values)
<1>0. Default \in Seq(Chars)
  BY DEF Default, Chars
<1>1. Len(values) \in Nat /\ \A i \in 1..Len(values) : values[i] \in Seq(Chars)
  OBVIOUS
<1>2. rows = [i \in 1..Len(values) |->
                [f \in {client, field} |-> IF f = client THEN Default ELSE values[i]]]
  BY DEF Col
<1>3. Len(rows) = Len(values) /\ DOMAIN rows = 1..Len(values)
  BY <1>1, <1>2
<1>4. \A i \in 1..Len(values) :
         /\ DOMAIN rows[i] = {client, field}
         /\ \A f \in {client, field} : rows[i][f] = IF f = client THEN Default ELSE values[i]
  BY <1>2
<1> HIDE DEF rows
<1>5. \A i \in 1..Len(values) : \A f \in DOMAIN rows[i] : rows[i][f] \in Seq(Chars)
  BY <1>0, <1>1, <1>4
<1>7. WellFormed([client |-> client, fields |-> fields, rows |-> rows])
  BY <1>1, <1>3, <1>5 DEF WellFormed
<1> QED BY <1>7 DEF rows

LEMMA TablesWellFormed == \A name \in DOMAIN Tables : WellFormed(Tables[name])
<1>1. WellFormed(Mara)
  <2>1. <<<<"R", "O", "H">>, <<"F", "E", "R", "T">>, <<"H", "A", "W", "A">>>> \in Seq(Seq(Chars))
    <3>1. /\ <<"R", "O", "H">> \in Seq(Chars) /\ <<"F", "E", "R", "T">> \in Seq(Chars)
          /\ <<"H", "A", "W", "A">> \in Seq(Chars)
      BY DEF Chars
    <3> QED BY <3>1
  <2> QED BY <2>1, ColWellFormed DEF Mara
<1>2. WellFormed(T001)
  <2>1. <<<<"U", "S", "A">>, <<"D", "E", "U">>, <<"S", "G", "P">>>> \in Seq(Seq(Chars))
    <3>1. /\ <<"U", "S", "A">> \in Seq(Chars) /\ <<"D", "E", "U">> \in Seq(Chars)
          /\ <<"S", "G", "P">> \in Seq(Chars)
      BY DEF Chars
    <3> QED BY <3>1
  <2> QED BY <2>1, ColWellFormed DEF T001
<1>9. WellFormed(T001B)
  <2>1. <<<<"0", "0", "3">>, <<"0", "0", "3">>>> \in Seq(Seq(Chars))
    <3>1. <<"0", "0", "3">> \in Seq(Chars)
      BY DEF Chars
    <3> QED BY <3>1
  <2> QED BY <2>1, ColWellFormed DEF T001B
<1>10. WellFormed(Bseg)
  <2>1. <<<<"S">>, <<"H">>>> \in Seq(Seq(Chars))
    <3>1. <<"S">> \in Seq(Chars) /\ <<"H">> \in Seq(Chars)
      BY DEF Chars
    <3> QED BY <3>1
  <2> QED BY <2>1, ColWellFormed DEF Bseg
<1>3. WellFormed(FaglFlexA)
  BY DEF FaglFlexA, WellFormed
<1>4. WellFormed(Acdoca)
  <2>1. <<<<"0", "L">>>> \in Seq(Seq(Chars))
    <3>1. <<"0", "L">> \in Seq(Chars)
      BY DEF Chars
    <3> QED BY <3>1
  <2> QED BY <2>1, ColWellFormed DEF Acdoca
<1>5. WellFormed(Vbak)
  <2>1. <<<<"O", "R">>, <<"O", "R">>, <<"R", "E">>>> \in Seq(Seq(Chars))
    <3>1. <<"O", "R">> \in Seq(Chars) /\ <<"R", "E">> \in Seq(Chars)
      BY DEF Chars
    <3> QED BY <3>1
  <2> QED BY <2>1, ColWellFormed DEF Vbak
<1>6. WellFormed(E070)
  <2>1. <<"D">> \in Seq(Chars)
    BY DEF Chars
  <2> DEFINE rows == <<[f \in {"TRSTATUS"} |-> <<"D">>]>>
  <2>2. DOMAIN rows = 1..1 /\ Len(rows) = 1 /\ rows[1] = [f \in {"TRSTATUS"} |-> <<"D">>]
    OBVIOUS
  <2>3. DOMAIN rows[1] = {"TRSTATUS"} /\ rows[1]["TRSTATUS"] \in Seq(Chars)
    <3> DEFINE row == [f \in {"TRSTATUS"} |-> <<"D">>]
    <3>1. DOMAIN row = {"TRSTATUS"} /\ row["TRSTATUS"] = <<"D">>
      OBVIOUS
    <3> HIDE DEF row
    <3> QED BY <2>1, <2>2, <3>1 DEF row
  <2>4. E070.rows = rows
    BY DEF E070
  <2> HIDE DEF rows
  <2>5. \A i \in 1..1 : \A f \in DOMAIN rows[i] : rows[i][f] \in Seq(Chars)
    <3>1. \A i \in 1..1 : i = 1
      OBVIOUS
    <3> QED BY <2>3, <3>1
  <2>6. /\ DOMAIN E070.rows = 1..Len(E070.rows) /\ Len(E070.rows) = 1
        /\ \A i \in 1..1 : \A f \in DOMAIN E070.rows[i] : E070.rows[i][f] \in Seq(Chars)
    BY <2>2, <2>4, <2>5
  <2> QED BY <2>4, <2>6 DEF WellFormed
<1>7. DOMAIN Tables = {"MARA", "T001", "T001B", "BSEG", "FAGLFLEXA", "ACDOCA", "VBAK", "E070"}
  BY DEF Tables
<1>8. /\ Tables["MARA"] = Mara /\ Tables["T001"] = T001
      /\ Tables["T001B"] = T001B /\ Tables["BSEG"] = Bseg /\ Tables["FAGLFLEXA"] = FaglFlexA
      /\ Tables["ACDOCA"] = Acdoca /\ Tables["VBAK"] = Vbak /\ Tables["E070"] = E070
  BY DEF Tables
<1> QED BY <1>1, <1>2, <1>3, <1>4, <1>5, <1>6, <1>7, <1>8, <1>9, <1>10

\* The rows the loop takes for a request that is served.
LEMMA ReadAnswers ==
    ASSUME NEW r \in ReadRequests, ReadTable(r).err = "none"
    PROVE  LET t == Tables[r.table]
               conds == Scoped(r.table, ParseConditions(r.conds))
               wanted == Projection(r.table, r.fields)
               found == Taken(Len(t.rows), {i \in 1..Len(t.rows) :
                            \A k \in 1..Len(conds) : MatchRow(t.rows[i], conds[k])}, r.max)
           IN  /\ r.table \in DOMAIN Tables /\ Parsable(r.conds) /\ r.max \in Nat
               /\ ReadTable(r).rows = [k \in 1..Len(found) |-> Project(t.rows[found[k]], wanted)]
<1> DEFINE t == Tables[r.table]
           conds == Scoped(r.table, ParseConditions(r.conds))
           wanted == Projection(r.table, r.fields)
           found == Taken(Len(t.rows), {i \in 1..Len(t.rows) :
                            \A k \in 1..Len(conds) : MatchRow(t.rows[i], conds[k])}, r.max)
           rows == [k \in 1..Len(found) |-> Project(t.rows[found[k]], wanted)]
<1>1. r.max \in Nat
  BY CatalogueAssumption DEF ReadRequests
<1>2. \A c : c # "none" => Failed(c).err # "none"
  BY DEF Failed
<1>3. r.max # 0 /\ ~(r.max > MAX_ROWS_HARD_CAP)
  <2>1. CASE r.max = 0
    BY <1>2, <2>1 DEF ReadTable
  <2>2. CASE r.max # 0 /\ r.max > MAX_ROWS_HARD_CAP
    BY <1>2, <2>2 DEF ReadTable
  <2> QED BY <2>1, <2>2
<1>4. r.max \in 1..MAX_ROWS_HARD_CAP
  BY <1>1, <1>3 DEF MAX_ROWS_HARD_CAP
<1>5. r.table \in DOMAIN Tables
  BY <1>2, <1>3, <1>4 DEF ReadTable
<1>6. ReadTable(r) = IF ~(wanted \subseteq t.fields) \/ ~Parsable(r.conds)
                     THEN Failed("InvalidParameter") ELSE Answered(rows)
  BY <1>3, <1>4, <1>5 DEF ReadTable
<1> HIDE DEF rows
<1>7. ReadTable(r) = Answered(rows) /\ Parsable(r.conds)
  BY <1>2, <1>6
<1>8. ReadTable(r).rows = rows
  BY <1>7 DEF Answered
<1> QED BY <1>1, <1>5, <1>7, <1>8 DEF rows

\* A folded text is a text over the folded characters.
LEMMA FoldIsText ==
    ASSUME NEW text \in Seq(Chars)
    PROVE  Fold(text) \in Seq({Lower(c) : c \in Chars})
<1> DEFINE X == {Lower(c) : c \in Chars}
<1>1. Len(text) \in Nat /\ \A i \in 1..Len(text) : text[i] \in Chars
  OBVIOUS
<1>2. \A i \in 1..Len(text) : Lower(text[i]) \in X
  BY <1>1
<1> HIDE DEF X
<1>3. [i \in 1..Len(text) |-> Lower(text[i])] \in Seq(X)
  BY <1>1, <1>2
<1> QED BY <1>3 DEF Fold, X

\* A condition of a supported form is what the reference says.
LEMMA ConditionIsSelect ==
    ASSUME NEW name \in DOMAIN Tables, NEW i \in 1..Len(Tables[name].rows),
           NEW c \in Clauses, Supported(Tables[name], c)
    PROVE  MatchRow(Tables[name].rows[i], ParseCondition(c))
              <=> LET v == Fold(FieldText(Tables[name].rows[i], c.column)) IN
                  IF c.rel = "=" THEN v = Fold(c.value) ELSE LikeMatch(v, Fold(c.value))
<1> DEFINE text == FieldText(Tables[name].rows[i], c.column)
           v == Fold(text)
           w == Fold(c.value)
<1>1. text \in Seq(Chars)
  BY TablesWellFormed DEF WellFormed, FieldText
<1>2. c.value \in Seq(Chars)
  BY DEF Chars, Clauses
<1>3. /\ ParseCondition(c).field = c.column /\ ParseCondition(c).op = c.rel
      /\ ParseCondition(c).value = c.value
      /\ c.rel \in {"=", "LIKE"} /\ Exact(w)
  BY DEF ParseCondition, Supported
<1>4. v \in Seq({Lower(x) : x \in Chars}) /\ w \in Seq({Lower(x) : x \in Chars})
  <2> HIDE DEF text
  <2> QED BY <1>1, <1>2, FoldIsText
<1> HIDE DEF v, w
<1>5. LikeForms(v, w) <=> LikeMatch(v, w)
  BY <1>3, <1>4, LikeIsExact
<1> QED BY <1>3, <1>5 DEF MatchRow, SqlLike, v, w

\* What ReadIsSelect calls selected.
SelectedRow(r, i) ==
    LET t == Tables[r.table] IN
    /\ \A k \in 1..Len(r.conds) :
          LET c == r.conds[k]
              v == Fold(FieldText(t.rows[i], c.column))
          IN  IF c.rel = "=" THEN v = Fold(c.value) ELSE LikeMatch(v, Fold(c.value))
    /\ \/ t.client = "none"
       \/ \E k \in 1..Len(r.conds) : ColumnOf(r.conds[k].column) = t.client
       \/ Fold(FieldText(t.rows[i], t.client)) = Fold(SessionClient)

LEMMA ScopedIsSelect ==
    ASSUME NEW r \in ReadRequests, r.table \in DOMAIN Tables,
           \A k \in 1..Len(r.conds) : Supported(Tables[r.table], r.conds[k]),
           NEW i \in 1..Len(Tables[r.table].rows)
    PROVE  (\A k \in 1..Len(Scoped(r.table, ParseConditions(r.conds))) :
               MatchRow(Tables[r.table].rows[i], Scoped(r.table, ParseConditions(r.conds))[k]))
           <=> SelectedRow(r, i)
<1> DEFINE t == Tables[r.table]
           row == t.rows[i]
           asked == r.conds
           conds == ParseConditions(asked)
           own == [field |-> t.client, op |-> "=", value |-> SessionClient]
           Named == \E k \in 1..Len(asked) : ColumnOf(asked[k].column) = t.client
           Held == \A k \in 1..Len(asked) :
                      LET v == Fold(FieldText(row, asked[k].column)) IN
                      IF asked[k].rel = "=" THEN v = Fold(asked[k].value)
                      ELSE LikeMatch(v, Fold(asked[k].value))
<1>1. asked \in Seq(Clauses) /\ Len(asked) \in Nat
  BY WhereAssumption DEF ReadRequests
<1>2. \A k \in 1..Len(asked) : asked[k] \in Clauses /\ Supported(t, asked[k])
  <2>1. \A k \in 1..Len(asked) : asked[k] \in Clauses
    <3> HIDE DEF asked
    <3> QED BY <1>1
  <2> QED BY <2>1
<1>3. /\ Len(conds) = Len(asked)
      /\ \A k \in 1..Len(asked) : /\ conds[k] = ParseCondition(asked[k])
                                  /\ conds[k].field = asked[k].column
  <2>1. \A k \in 1..Len(asked) : ParseCondition(asked[k]).field = asked[k].column
    BY <1>2 DEF Supported, ParseCondition
  <2> HIDE DEF asked
  <2> QED BY <1>1, <2>1 DEF ParseConditions
<1>4. conds \in Seq({conds[k] : k \in 1..Len(asked)})
  <2> HIDE DEF asked
  <2> QED BY <1>1 DEF ParseConditions
<1>5. Held <=> \A k \in 1..Len(asked) : MatchRow(row, ParseCondition(asked[k]))
  BY <1>2, ConditionIsSelect
<1>6. SelectedRow(r, i) <=> Held /\ (t.client = "none" \/ Named \/ Fold(FieldText(row, t.client)) = Fold(SessionClient))
  BY DEF SelectedRow
<1> HIDE DEF Held, asked, conds
<1>7. Held <=> \A k \in 1..Len(conds) : MatchRow(row, conds[k])
  BY <1>3, <1>5
<1>8. Scoped(r.table, conds) = IF t.client # "none" /\ ~Named THEN Append(conds, own) ELSE conds
  BY <1>3 DEF Scoped, SessionClient
<1>9. CASE t.client = "none" \/ Named
  <2> HIDE DEF Named, own, row, t
  <2> QED BY <1>6, <1>7, <1>8, <1>9 DEF row, t, conds, asked
<1>10. CASE t.client # "none" /\ ~Named
  <2>1. MatchRow(row, own) <=> Fold(FieldText(row, t.client)) = Fold(SessionClient)
    BY DEF MatchRow
  <2> DEFINE more == Append(conds, own)
  <2>2. Len(conds) \in Nat
    BY <1>1, <1>3
  <2>3. /\ Len(more) = Len(conds) + 1 /\ more[Len(conds) + 1] = own
        /\ \A k \in 1..Len(conds) : more[k] = conds[k]
    <3> HIDE DEF own
    <3> QED BY <1>4
  <2> HIDE DEF more, own, row
  <2>4. (\A k \in 1..Len(more) : MatchRow(row, more[k]))
           <=> (\A k \in 1..Len(conds) : MatchRow(row, conds[k])) /\ MatchRow(row, own)
    <3>1. \A k \in 1..Len(more) : k \in 1..Len(conds) \/ k = Len(conds) + 1
      BY <2>2, <2>3
    <3>2. Len(conds) + 1 \in 1..Len(more) /\ \A k \in 1..Len(conds) : k \in 1..Len(more)
      BY <2>2, <2>3
    <3> QED BY <2>3, <3>1, <3>2
  <2>5. Scoped(r.table, conds) = more
    BY <1>8, <1>10 DEF more
  <2>6. (\A k \in 1..Len(more) : MatchRow(row, more[k])) <=> SelectedRow(r, i)
    <3> HIDE DEF Named
    <3> QED BY <1>6, <1>7, <1>10, <2>1, <2>4
  <2> QED BY <2>5, <2>6 DEF row, conds, asked
<1> QED BY <1>9, <1>10

LEMMA ReadSelects ==
    ASSUME NEW r \in ReadRequests, ReadTable(r).err = "none",
           \A k \in 1..Len(r.conds) : Supported(Tables[r.table], r.conds[k])
    PROVE  LET t == Tables[r.table]
               chosen == {i \in 1..Len(t.rows) : SelectedRow(r, i)
                             /\ Cardinality({k \in 1..i : SelectedRow(r, k)}) <= r.max}
               rows == ReadTable(r).rows
           IN  /\ Len(rows) = Cardinality(chosen)
               /\ \A i \in chosen :
                     rows[Cardinality({k \in chosen : k <= i})]
                        = Project(t.rows[i], Projection(r.table, r.fields))
<1> DEFINE t == Tables[r.table]
           conds == Scoped(r.table, ParseConditions(r.conds))
           wanted == Projection(r.table, r.fields)
           n == Len(t.rows)
           S == {i \in 1..n : \A k \in 1..Len(conds) : MatchRow(t.rows[i], conds[k])}
           found == Taken(n, S, r.max)
           rows == ReadTable(r).rows
           chosen == {i \in 1..n : SelectedRow(r, i)
                         /\ Cardinality({k \in 1..i : SelectedRow(r, k)}) <= r.max}
<1>1. /\ r.table \in DOMAIN Tables /\ Parsable(r.conds) /\ r.max \in Nat
      /\ rows = [k \in 1..Len(found) |-> Project(t.rows[found[k]], wanted)]
  BY ReadAnswers
<1>2. n \in Nat
  BY <1>1, TablesWellFormed DEF WellFormed
<1>3. \A i \in 1..n : i \in S <=> SelectedRow(r, i)
  BY <1>1, ScopedIsSelect
<1>4. S \subseteq 1..n
  OBVIOUS
<1> HIDE DEF S, conds, n, t
<1>5. ASSUME NEW i \in 1..n PROVE UpToRow(S, i) = {k \in 1..i : SelectedRow(r, k)}
  <2>1. \A k \in 1..n : k \in 1..i <=> k <= i
    BY <1>2
  <2>2. \A k \in 1..i : k \in 1..n
    BY <1>2
  <2>3. \A k : k \in UpToRow(S, i) <=> k \in 1..i /\ SelectedRow(r, k)
    BY <1>3, <1>4, <2>1, <2>2 DEF UpToRow
  <2> QED BY <2>3
<1>6. chosen = FirstOf(S, r.max)
  <2>1. \A i : i \in FirstOf(S, r.max) <=> i \in 1..n /\ i \in S /\ Cardinality(UpToRow(S, i)) <= r.max
    BY <1>4 DEF FirstOf
  <2>2. \A i \in 1..n : i \in FirstOf(S, r.max) <=> i \in chosen
    BY <1>3, <1>5, <2>1
  <2>3. \A i \in chosen : i \in 1..n
    OBVIOUS
  <2> HIDE DEF chosen
  <2> QED BY <2>1, <2>2, <2>3
<1>7. /\ found \in Seq(Nat) /\ Len(found) = Cardinality(FirstOf(S, r.max))
      /\ \A i \in FirstOf(S, r.max) :
            /\ Cardinality({k \in FirstOf(S, r.max) : k <= i}) \in 1..Len(found)
            /\ found[Cardinality({k \in FirstOf(S, r.max) : k <= i})] = i
  BY <1>1, <1>2, <1>4, TakenIsFirst
<1> HIDE DEF found, chosen
<1>8. Len(rows) = Len(found) /\ \A k \in 1..Len(found) : rows[k] = Project(t.rows[found[k]], wanted)
  <2> HIDE DEF rows, wanted
  <2>1. Len(found) \in Nat
    BY <1>7
  <2> QED BY <1>1, <2>1
<1>9. ASSUME NEW i \in chosen
      PROVE  rows[Cardinality({k \in chosen : k <= i})] = Project(t.rows[i], wanted)
  <2>1. /\ Cardinality({k \in chosen : k <= i}) \in 1..Len(found)
        /\ found[Cardinality({k \in chosen : k <= i})] = i
    BY <1>6, <1>7
  <2> HIDE DEF rows, wanted
  <2> QED BY <1>8, <2>1
<1>10. Len(rows) = Cardinality(chosen)
  BY <1>6, <1>7, <1>8
<1> QED BY <1>9, <1>10 DEF chosen, n, t

\* Every answer is the one read_table gives to the request it belongs to.
ReadsAnswered == ask.op = "read" => ask \in ReadRequests /\ ans = ReadTable(ask)

LEMMA ReadsAnsweredHolds == CatalogueSpec => []ReadsAnswered
<1>1. CatalogueInit => ReadsAnswered
  BY DEF CatalogueInit, ReadsAnswered
<1>2. ReadsAnswered /\ [CatalogueNext]_cvars => ReadsAnswered'
  <2> SUFFICES ASSUME ReadsAnswered, [CatalogueNext]_cvars PROVE ReadsAnswered'
    OBVIOUS
  <2>0. identity' = identity
    BY DEF CatalogueNext, ServeRead, ServeSearch, ServeMetadata, ServeCall, Serve, cvars
  <2>1. CASE UNCHANGED cvars
    <3>1. ReadTable(ask)' = ReadTable(ask)
      BY <2>1 DEF cvars, ReadTable, Scoped
    <3> QED BY <2>1, <3>1 DEF cvars, ReadsAnswered
  <2>2. CASE ServeRead
    <3>1. PICK r \in ReadRequests : ask' = r /\ ans' = ReadTable(r)
      BY <2>2 DEF ServeRead, Serve
    <3>2. ReadTable(ask)' = ReadTable(r)
      BY <2>0, <3>1 DEF ReadTable, Scoped
    <3> QED BY <3>1, <3>2 DEF ReadsAnswered
  <2>3. CASE ServeMetadata
    <3>1. \/ \E f : ask' = [op |-> "metadata", name |-> f]
          \/ \E fs : ask' = [op |-> "bulk", names |-> fs]
          \/ \E t : ask' = [op |-> "structure", name |-> t]
          \/ ask' = [op |-> "info"]
      BY <2>3 DEF ServeMetadata, Serve
    <3>2. ask'.op \in {"metadata", "bulk", "structure", "info"}
      BY <3>1
    <3> QED BY <3>2 DEF ReadsAnswered
  <2>4. CASE ServeCall
    <3>1. ask'.op = "call"
      BY <2>4 DEF ServeCall, Serve
    <3> QED BY <3>1 DEF ReadsAnswered
  <2>5. CASE ServeSearch
    <3>1. ask'.op = "search"
      BY <2>5 DEF ServeSearch, Serve
    <3> QED BY <3>1 DEF ReadsAnswered
  <2> QED BY <2>1, <2>2, <2>3, <2>4, <2>5 DEF CatalogueNext
<1> QED BY <1>1, <1>2, PTL DEF CatalogueSpec

\* sap.table.read answers as a SELECT that ignores case would, whatever the
\* client of the session and the limit, for any number of conditions of the
\* supported forms (client.rs:385-447, 471-538).
THEOREM ReadsAreSelects == CatalogueSpec => []ReadIsSelect
<1>1. ReadsAnswered => ReadIsSelect
  <2> SUFFICES ASSUME ReadsAnswered, ask.op = "read", ans.err = "none",
                      \A k \in 1..Len(ask.conds) : Supported(Tables[ask.table], ask.conds[k])
               PROVE  ReadIsSelect
    BY DEF ReadIsSelect
  <2>1. ask \in ReadRequests /\ ans = ReadTable(ask)
    BY DEF ReadsAnswered
  <2> DEFINE t == Tables[ask.table]
             chosen == {i \in 1..Len(t.rows) : SelectedRow(ask, i)
                             /\ Cardinality({k \in 1..i : SelectedRow(ask, k)}) <= ask.max}
  <2>2. /\ Len(ans.rows) = Cardinality(chosen)
        /\ \A i \in chosen :
              ans.rows[Cardinality({k \in chosen : k <= i})]
                 = Project(t.rows[i], Projection(ask.table, ask.fields))
    BY <2>1, ReadSelects
  <2> QED BY <2>2 DEF ReadIsSelect, SelectedRow
<1> QED BY <1>1, ReadsAnsweredHolds, PTL

=============================================================================
