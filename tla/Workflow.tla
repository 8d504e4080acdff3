------------------------------ MODULE Workflow ------------------------------
(***************************************************************************)
(* What the MCP server answers to a request, as operators.  A method is    *)
(* either answered at once (initialize, ping, an unsupported method) or is *)
(* a call of one of the three write workflows of tools.rs, which puts one  *)
(* or two elicitation forms to the user before it decides.  The forms and  *)
(* texts are abstracted to the answers that the handlers tell apart.       *)
(***************************************************************************)
EXTENDS Naturals

\* The guided write tools (flagged with_writes() in tools.rs).
Workflows == {"create_purchase_order", "maintain_customer_master",
              "release_transport"}

\* A method of handle_method that is answered without suspending, and one
\* that ends in its MethodNotFound arm.
AllMethods == Workflows \cup {"initialize", "ping", "unsupported"}

\* How many forms the handler of m puts to the user, one after the other.
Rounds(m) == CASE m = "maintain_customer_master" -> 2
               [] m \in {"create_purchase_order", "release_transport"} -> 1
               [] OTHER -> 0

(***************************************************************************)
(* Answers to a form, as they travel in the client's response: "accept" is *)
(* a complete form, "mismatch" a release form whose confirmation phrase    *)
(* differs from the transport, "bare" an acceptance without the requested  *)
(* fields (content: None, or a seeded delegate's partial object), "error"  *)
(* a JSON-RPC error or a result that is no ElicitationResult.              *)
(***************************************************************************)
Answers == {"accept", "mismatch", "bare", "decline", "cancel", "error"}

\* ElicitationHandle::parse_response: every unusable response is a Cancel.
ParseResponse(a) == IF a = "error" THEN "cancel" ELSE a

\* ElicitationAction::Accept, whatever the content.
Accepts(a) == a \in {"accept", "mismatch", "bare"}

\* The results a caller can receive.
Results == {"ok", "error", "confirmed", "declined", "cancelled", "mismatch"}

\* handle_method for a method that asks nothing.
PlainResult(m) == IF m = "unsupported" THEN "error" ELSE "ok"

\* workflow_maintain_customer_master: the first form selects the scope.
ScopeSelection(m, r) == m = "maintain_customer_master" /\ r = 1

\* tr != phrase.  Two absent fields are two empty strings, so "bare" passes.
Mismatched(m, a) == m = "release_transport" /\ a = "mismatch"

\* The result of workflow m when its r-th form, answered a, is its last.
WorkflowResult(m, r, a) ==
    CASE Mismatched(m, a)                        -> "mismatch"
      [] Accepts(a) /\ ~Mismatched(m, a)         -> "confirmed"
      [] a = "decline" /\ ~ScopeSelection(m, r)  -> "declined"
      [] OTHER                                   -> "cancelled"

\* Mutant: the audit entry is written before the phrases are compared.
WorkflowAuditEarly(m, r, a) ==
    CASE Accepts(a)                                               -> "ok"
      [] ~Accepts(a) /\ (a = "decline" \/ ScopeSelection(m, r)) -> "declined"
      [] OTHER                                                    -> "denied"

\* The AuditOutcome that record_write_audit is given in the same arm.
WorkflowAudit(m, r, a) ==
    CASE Mismatched(m, a)                        -> "denied"
      [] Accepts(a) /\ ~Mismatched(m, a)         -> "ok"
      [] ~Accepts(a) /\ (a = "decline" \/ ScopeSelection(m, r)) -> "declined"
      [] OTHER                                   -> "denied"

AuditOutcomes == {"ok", "declined", "denied"}
=============================================================================
