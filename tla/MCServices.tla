----------------------------- MODULE MCServices -----------------------------
(***************************************************************************)
(* The services around the tool server.  They share no state, so a         *)
(* behaviour has one focus: that part takes steps and the others stay in   *)
(* one initial state, and the run examines each part exhaustively.         *)
(***************************************************************************)
EXTENDS CircuitBreaker, DocTree, Chunker, CrawlPolicy, Ingest, Scheduler, Gateway, Memory,
        Retrieval

VARIABLE focus
mcvars == <<focus, bvars, dvars, kvars, pvars, ivars, svars, gvars, mvars, qvars>>

Parts == {"breaker", "doc_tree", "chunker", "policy", "ingest", "scheduler", "gateway",
          "memory", "retrieval"}

MCInit ==
    /\ focus \in Parts
    /\ BreakerInit /\ IngestInit /\ MemoryInit
    /\ focus # "doc_tree" => docBody = <<>> /\ DocInit
    /\ focus # "chunker" => text = <<"letter">> /\ ChunkerInit
    /\ focus # "policy" => robots = <<>> /\ PolicyInit
    /\ focus # "scheduler" => cadence = [kind |-> "every_n_seconds", secs |-> 2] /\ SchedulerInit
    /\ focus # "gateway" => intent = [skill |-> FALSE, tool |-> "kb.multi_hop"] /\ GatewayInit
    /\ focus # "retrieval" => /\ query = [embedding |-> FALSE, matching |-> {},
                                         rerank |-> FALSE, topK |-> 0]
                             /\ RetrievalInit
    /\ focus = "doc_tree" => DocInit
    /\ focus = "chunker" => ChunkerInit
    /\ focus = "policy" => PolicyInit
    /\ focus = "scheduler" => SchedulerInit
    /\ focus = "gateway" => GatewayInit
    /\ focus = "retrieval" => RetrievalInit

MCNext ==
    \/ /\ focus = "breaker" /\ BreakerNext
       /\ UNCHANGED <<focus, dvars, kvars, pvars, ivars, svars, gvars, mvars, qvars>>
    \/ /\ focus = "doc_tree" /\ DocNext
       /\ UNCHANGED <<focus, bvars, kvars, pvars, ivars, svars, gvars, mvars, qvars>>
    \/ /\ focus = "chunker" /\ ChunkerNext
       /\ UNCHANGED <<focus, bvars, dvars, pvars, ivars, svars, gvars, mvars, qvars>>
    \/ /\ focus = "policy" /\ PolicyNext
       /\ UNCHANGED <<focus, bvars, dvars, kvars, ivars, svars, gvars, mvars, qvars>>
    \/ /\ focus = "ingest" /\ IngestNext
       /\ UNCHANGED <<focus, bvars, dvars, kvars, pvars, svars, gvars, mvars, qvars>>
    \/ /\ focus = "scheduler" /\ SchedulerNext
       /\ UNCHANGED <<focus, bvars, dvars, kvars, pvars, ivars, gvars, mvars, qvars>>
    \/ /\ focus = "gateway" /\ GatewayNext
       /\ UNCHANGED <<focus, bvars, dvars, kvars, pvars, ivars, svars, mvars, qvars>>
    \/ /\ focus = "memory" /\ MemoryNext
       /\ UNCHANGED <<focus, bvars, dvars, kvars, pvars, ivars, svars, gvars, qvars>>
    \/ /\ focus = "retrieval" /\ RetrievalNext
       /\ UNCHANGED <<focus, bvars, dvars, kvars, pvars, ivars, svars, gvars, mvars>>

\* The fairness of CircuitBreaker, where the breaker is what moves.
MCFairness ==
    /\ WF_bvars(focus = "breaker" /\ Elapse)
    /\ \A c \in Callers : WF_bvars(focus = "breaker" /\ CallerStep(c))

MCSpec == MCInit /\ [][MCNext]_mcvars /\ MCFairness

-----------------------------------------------------------------------------
Heading(mark, n) == [mark |-> mark, n |-> n, gap |-> TRUE, title |-> TRUE]
MCDocLines == {Heading("hash", n) : n \in {1, 2, 4}}
              \cup {Heading("number", 1), Heading("number", 2), Heading("section", 0),
                    [Heading("hash", 2) EXCEPT !.gap = FALSE]}

MCBodies ==
    LET Char == {<<"letter">>, <<"first", "second">>, <<"blank">>, <<"stop">>}
        texts == {FlattenSeq(chars) : chars \in UNION {[1..n -> Char] : n \in 1..7}}
    IN {t \in texts : t[1] # "blank" /\ Last(t) # "blank"}

Names(agent) == [key |-> "user-agent", value |-> agent]
MCRobotsLines == {Names(<<"*">>), Names(<<"s">>), Names(<<"s", "a">>),
                  [key |-> "allow", value |-> <<"d", "e">>],
                  [key |-> "disallow", value |-> <<"d">>],
                  [key |-> "disallow", value |-> <<"d", "e">>],
                  [key |-> "disallow", value |-> <<>>],
                  [key |-> "crawl-delay", value |-> 1], [key |-> "unknown", value |-> <<>>]}
MCAgent == <<"s", "a">>
MCSitePaths == {<<"d">>, <<"d", "e">>}

Page(stem, texts) == [stem |-> stem, page |-> TRUE, texts |-> texts]
MCSites == {{Page("fi", <<"a", "b", "c">>), Page("mm", <<"a">>),
             [Page("readme", <<"a">>) EXCEPT !.page = FALSE]},
            {Page("fi", <<"a", "d">>), Page("fi", <<"b">>), Page("mm", <<>>)}}

MCCadences ==
    {[kind |-> "hourly", minute |-> m] : m \in 0..2}
    \cup {[kind |-> "daily", hour |-> h, minute |-> m] : h \in 0..3, m \in {0, 2}}
    \cup {[kind |-> "weekly", weekday |-> w, hour |-> h, minute |-> 0] : w \in {1, 7}, h \in {1, 3}}
    \cup {[kind |-> "every_n_minutes", mins |-> 2], [kind |-> "every_n_seconds", secs |-> 2],
          [kind |-> "quarterly", day |-> 1, hour |-> 1, minute |-> 0]}

Job(enabled, channel) == [enabled |-> enabled, channel |-> channel]
MCJobLists == UNION {[1..n -> {Job(TRUE, "cli"), Job(TRUE, "teams"), Job(FALSE, "cli"),
                               Job(TRUE, "none")}] : n \in 0..3}
MCIntents == [skill : BOOLEAN, tool : {"sap.docs.search", "kb.multi_hop"}]

MCEpisode == ("r1" :> [tenant |-> "a", tags |-> {"fi"}]
              @@ "r2" :> [tenant |-> "b", tags |-> {"fi", "mm"}]
              @@ "r3" :> [tenant |-> "any", tags |-> {"fi"}]
              @@ "r4" :> [tenant |-> "a", tags |-> {"fi"}])
=============================================================================
