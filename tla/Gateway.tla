------------------------------ MODULE Gateway ------------------------------
(***************************************************************************)
(* sap-automate-gw: connect to the MCP server, fire the scheduled jobs     *)
(* once, route one message of a user, send the reply (main.rs of the       *)
(* gateway, Scheduler::fire_once and fire_all_now, ChannelRegistry::send). *)
(* The answers of the server are the session model's business: here a call *)
(* succeeds or fails.                                                      *)
(***************************************************************************)
EXTENDS Naturals, Sequences, FiniteSets

CONSTANTS
    JobLists,     \* what parse_config may return: sequences of [enabled, channel]
    Intents       \* what match_skill and the keywords find in a message

\* "skill" and "none" say what the reply came from; no tool has these names.
ASSUME GatewayAssumption ==
    /\ JobLists \subseteq Seq([enabled : BOOLEAN, channel : STRING])
    /\ Intents \subseteq [skill : BOOLEAN, tool : STRING \ {"skill", "none"}]

VARIABLES
    gpc,          \* where main is
    jobs,         \* Scheduler::jobs
    nextJob,      \* jobs fire_all_now is past
    stats,        \* SchedulerStats: fires and errors
    cliLog,       \* CliChannel::sent
    working,      \* the working memory of the conversation
    intent,       \* what the message asks for
    reply,        \* the OutgoingMessage of route
    jobFates      \* history: how each job's tool call ended

gvars == <<gpc, jobs, nextJob, stats, cliLog, working, intent, reply, jobFates>>

GatewayInit ==
    /\ gpc = "spawn"
    /\ jobs = <<>> /\ nextJob = 0
    /\ stats = [fires |-> 0, errors |-> 0]
    /\ cliLog = <<>> /\ working = <<>>
    /\ intent \in Intents
    /\ reply = "none"
    /\ jobFates = <<>>

\* Spawn the server and initialize; a failure of either ends main.
Connect ==
    /\ gpc = "spawn"
    /\ gpc' \in {"configure", "failed"}
    /\ UNCHANGED <<jobs, nextJob, stats, cliLog, working, intent, reply, jobFates>>

\* No configuration, one that cannot be read or parsed, or a list of jobs.
LoadJobs ==
    /\ gpc = "configure"
    /\ \/ gpc' = "message" /\ UNCHANGED jobs
       \/ gpc' = "jobs" /\ jobs' \in JobLists
    /\ UNCHANGED <<nextJob, stats, cliLog, working, intent, reply, jobFates>>

\* ChannelRegistry::send: only the CLI adapter is registered.
Sent(log, channel, message) == IF channel = "cli" THEN Append(log, message) ELSE log

\* Mutant: a job whose tool call fails ends fire_all_now.
FireJobOrStop ==
    /\ gpc = "jobs" /\ nextJob < Len(jobs) /\ jobs[nextJob + 1].enabled
    /\ \E ok \in BOOLEAN :
         /\ jobFates' = Append(jobFates, ok)
         /\ stats' = [fires |-> stats.fires + 1, errors |-> stats.errors + IF ok THEN 0 ELSE 1]
         /\ cliLog' = IF ok THEN Sent(cliLog, jobs[nextJob + 1].channel, "job") ELSE cliLog
         /\ nextJob' = IF ok THEN nextJob + 1 ELSE Len(jobs)
    /\ UNCHANGED <<gpc, jobs, working, intent, reply>>

\* fire_once of an enabled job: the result is posted when the call worked,
\* and a channel nobody registered is no error.
FireJob ==
    /\ gpc = "jobs" /\ nextJob < Len(jobs) /\ jobs[nextJob + 1].enabled
    /\ \E ok \in BOOLEAN :
         /\ jobFates' = Append(jobFates, ok)
         /\ stats' = [fires |-> stats.fires + 1, errors |-> stats.errors + IF ok THEN 0 ELSE 1]
         /\ cliLog' = IF ok THEN Sent(cliLog, jobs[nextJob + 1].channel, "job") ELSE cliLog
    /\ nextJob' = nextJob + 1
    /\ UNCHANGED <<gpc, jobs, working, intent, reply>>

\* fire_once of a disabled job.
SkipJob ==
    /\ gpc = "jobs" /\ nextJob < Len(jobs) /\ ~jobs[nextJob + 1].enabled
    /\ nextJob' = nextJob + 1
    /\ UNCHANGED <<gpc, jobs, stats, cliLog, working, intent, reply, jobFates>>

\* The user's message: its turn is recorded before anything is called.
ReceiveMessage ==
    /\ gpc = "message" \/ (gpc = "jobs" /\ nextJob = Len(jobs))
    /\ \/ gpc' = "done" /\ UNCHANGED working
       \/ /\ gpc' = IF intent.skill THEN "skill" ELSE "tool"
          /\ working' = Append(working, "user_turn")
    /\ UNCHANGED <<jobs, nextJob, stats, cliLog, intent, reply, jobFates>>

\* prompts/get of the matching skill; an error falls back to the tools.
RouteSkill ==
    /\ gpc = "skill"
    /\ \/ gpc' = "tool" /\ UNCHANGED <<working, reply>>
       \/ /\ gpc' = "send" /\ reply' = "skill"
          /\ working' = Append(working, "agent_turn")
    /\ UNCHANGED <<jobs, nextJob, stats, cliLog, intent, jobFates>>

\* tools/call of the tool the keywords choose; an error ends main.
RouteTool ==
    /\ gpc = "tool"
    /\ \/ gpc' = "failed" /\ UNCHANGED <<working, reply>>
       \/ /\ gpc' = "send" /\ reply' = intent.tool
          /\ working' = Append(working, "agent_turn")
    /\ UNCHANGED <<jobs, nextJob, stats, cliLog, intent, jobFates>>

SendReply ==
    /\ gpc = "send"
    /\ cliLog' = Sent(cliLog, "cli", reply)
    /\ gpc' = "done"
    /\ UNCHANGED <<jobs, nextJob, stats, working, intent, reply, jobFates>>

GatewayStops == gpc \in {"done", "failed"} /\ UNCHANGED gvars

GatewayNext ==
    \/ Connect \/ LoadJobs \/ FireJob \/ SkipJob \/ ReceiveMessage
    \/ RouteSkill \/ RouteTool \/ SendReply \/ GatewayStops

GatewaySpec == GatewayInit /\ [][GatewayNext]_gvars

-----------------------------------------------------------------------------

\* When main is done, every enabled job was fired once and counted with its
\* fate, a failing job, post or skill kept neither the later jobs nor the
\* reply, what main prints (the last message of the CLI log) is the reply
\* and not a job's post, and both turns are in the memory
\* (gw/main.rs:92-222, scheduler/lib.rs:153-189).
JobsThenReply ==
    gpc = "done" =>
      /\ stats.fires = Cardinality({k \in DOMAIN jobs : jobs[k].enabled})
      /\ stats.errors = Cardinality({k \in DOMAIN jobFates : ~jobFates[k]})
      /\ reply # "none" => /\ cliLog[Len(cliLog)] = reply
                           /\ working = <<"user_turn", "agent_turn">>
                           /\ reply = "skill" => intent.skill
=============================================================================
