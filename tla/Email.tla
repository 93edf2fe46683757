------------------------------- MODULE Email -------------------------------
(***************************************************************************)
(* src/lib/email/service.ts: an email is logged under an idempotency key,  *)
(* handed to the provider, and marked SENT or FAILED with the answer.      *)
(*                                                                         *)
(* Callers run side by side: requests that send under the same key again   *)
(* (a repeated cron run or broadcast) and administrators who press resend. *)
(* Between the look at the log row and the answer of the provider a caller *)
(* awaits three times, and the process may end at each.                    *)
(***************************************************************************)
EXTENDS Naturals

CONSTANTS Callers,   \* concurrent calls of sendEmail or resendEmailById
          Keys,      \* idempotency keys
          NoKey,     \* the key of a caller that does nothing
          MaxLost,   \* bound: answers or callers that get lost
          MaxCalls   \* bound: calls that are made

ASSUME EmailAssumption ==
  /\ NoKey \notin Keys
  /\ MaxLost \in Nat
  /\ MaxCalls \in Nat

VARIABLES status,     \* EmailLog.status per key, "none" without a row
          html,       \* whether the row has a rendered message
          pc,         \* where each caller is
          key,        \* the key it works on
          found,      \* whether it found a row when it looked
          calls,      \* history: calls made
          accepted,   \* history: messages the provider accepted, per key
          overlapped, \* history: keys that two calls worked on at a time
          lost        \* history: acceptances or callers that went unrecorded

logVars == <<status, html>>
callVars == <<pc, key, found>>
vars == <<status, html, pc, key, found, calls, accepted, overlapped, lost>>
history == <<calls, accepted, overlapped, lost>>

TypeOK ==
  /\ status \in [Keys -> {"none", "QUEUED", "SENT", "FAILED"}]
  /\ html \in [Keys -> BOOLEAN]
  /\ pc \in [Callers -> {"idle", "rendering", "queueing", "requeueing",
                         "dispatching", "accepted", "rejected"}]
  /\ key \in [Callers -> Keys \cup {NoKey}]
  /\ found \in [Callers -> BOOLEAN]
  /\ calls \in 0 .. MaxCalls
  /\ accepted \in [Keys -> Nat]
  /\ overlapped \subseteq Keys
  /\ lost \in 0 .. MaxLost

Init ==
  /\ status = [k \in Keys |-> "none"]
  /\ html = [k \in Keys |-> FALSE]
  /\ pc = [c \in Callers |-> "idle"]
  /\ key = [c \in Callers |-> NoKey]
  /\ found = [c \in Callers |-> FALSE]
  /\ calls = 0
  /\ accepted = [k \in Keys |-> 0]
  /\ overlapped = {}
  /\ lost = 0

-----------------------------------------------------------------------------

Goto(c, next) == pc' = [pc EXCEPT ![c] = next]

Return(c) ==
  /\ Goto(c, "idle")
  /\ key' = [key EXCEPT ![c] = NoKey]
  /\ found' = [found EXCEPT ![c] = FALSE]

Call(c, k, next) ==
  /\ pc[c] = "idle"
  /\ calls < MaxCalls
  /\ calls' = calls + 1
  /\ Goto(c, next)
  /\ key' = [key EXCEPT ![c] = k]
  /\ found' = [found EXCEPT ![c] = status[k] # "none"]
  /\ overlapped' = overlapped \cup ({k} \cap {key[d] : d \in Callers})
  /\ UNCHANGED <<logVars, accepted, lost>>

\* Fault: a row that exists is sent again whatever its status.
sendEmail_NoGuard(c, k) == Call(c, k, "rendering")

\* The look at the log: SENT is answered at once, with no step here.
sendEmail(c, k) == status[k] # "SENT" /\ Call(c, k, "rendering")

\* The template does not render: the row is marked FAILED, or made so.  A row
\* that someone else has made since is a unique violation, thrown to the caller.
RenderFails(c) ==
  /\ pc[c] = "rendering"
  /\ IF found[c] \/ status[key[c]] = "none"
     THEN status' = [status EXCEPT ![key[c]] = "FAILED"]
     ELSE UNCHANGED status
  /\ Return(c)
  /\ UNCHANGED <<html, history>>

\* The rendered message is stored.
Rendered(c) ==
  /\ pc[c] = "rendering"
  /\ Goto(c, "queueing")
  /\ UNCHANGED <<logVars, key, found, history>>

\* Fault: the row is marked as if the provider could only accept.
Queue_AsSent(c) ==
  /\ pc[c] = "queueing"
  /\ found[c] \/ status[key[c]] = "none"
  /\ status' = [status EXCEPT ![key[c]] = "SENT"]
  /\ html' = [html EXCEPT ![key[c]] = TRUE]
  /\ Goto(c, "dispatching")
  /\ UNCHANGED <<key, found, history>>

\* An update by key if a row was found, whatever became of it; else an insert.
Queue(c) ==
  /\ pc[c] = "queueing"
  /\ found[c] \/ status[key[c]] = "none"
  /\ status' = [status EXCEPT ![key[c]] = "QUEUED"]
  /\ html' = [html EXCEPT ![key[c]] = TRUE]
  /\ Goto(c, "dispatching")
  /\ UNCHANGED <<key, found, history>>

\* The insert meets a row that another caller inserted: the error is thrown.
QueueConflict(c) ==
  /\ pc[c] = "queueing"
  /\ ~ found[c]
  /\ status[key[c]] # "none"
  /\ Return(c)
  /\ UNCHANGED <<logVars, history>>

\* POST /admin/email/:logId/resend, with the message that the row stores.
resendEmailById(c, k) ==
  /\ status[k] \in {"QUEUED", "FAILED"}
  /\ html[k]
  /\ Call(c, k, "requeueing")

Requeue(c) ==
  /\ pc[c] = "requeueing"
  /\ status' = [status EXCEPT ![key[c]] = "QUEUED"]
  /\ Goto(c, "dispatching")
  /\ UNCHANGED <<html, key, found, history>>

-----------------------------------------------------------------------------
(* dispatchEmail *)

ProviderAccepts(c) ==
  /\ pc[c] = "dispatching"
  /\ accepted' = [accepted EXCEPT ![key[c]] = @ + 1]
  /\ Goto(c, "accepted")
  /\ UNCHANGED <<logVars, key, found, calls, overlapped, lost>>

ProviderRejects(c) ==
  /\ pc[c] = "dispatching"
  /\ Goto(c, "rejected")
  /\ UNCHANGED <<logVars, key, found, history>>

\* The provider accepts, but its answer is lost and the call throws; or the
\* update to SENT throws: either way the catch writes FAILED.
AcceptanceLost(c) ==
  /\ lost < MaxLost
  /\ \/ /\ pc[c] = "dispatching"
        /\ accepted' = [accepted EXCEPT ![key[c]] = @ + 1]
     \/ pc[c] = "accepted" /\ UNCHANGED accepted
  /\ lost' = lost + 1
  /\ Goto(c, "rejected")
  /\ UNCHANGED <<logVars, key, found, calls, overlapped>>

RecordSent(c) ==
  /\ pc[c] = "accepted"
  /\ status' = [status EXCEPT ![key[c]] = "SENT"]
  /\ Return(c)
  /\ UNCHANGED <<html, history>>

\* Fault: the status of a rejected message is left as it is.
RecordFailed_Forgotten(c) ==
  /\ pc[c] = "rejected"
  /\ Return(c)
  /\ UNCHANGED <<logVars, history>>

RecordFailed(c) ==
  /\ pc[c] = "rejected"
  /\ status' = [status EXCEPT ![key[c]] = "FAILED"]
  /\ Return(c)
  /\ UNCHANGED <<html, history>>

\* A query throws outside the try, or the process ends.
Crash(c) ==
  /\ pc[c] # "idle"
  /\ lost < MaxLost
  /\ lost' = lost + 1
  /\ Return(c)
  /\ UNCHANGED <<logVars, calls, accepted, overlapped>>

-----------------------------------------------------------------------------

Step(c) ==
  \/ RenderFails(c) \/ Rendered(c)
  \/ Queue(c) \/ QueueConflict(c) \/ Requeue(c)
  \/ ProviderAccepts(c) \/ ProviderRejects(c)
  \/ RecordSent(c) \/ RecordFailed(c)

Next ==
  \/ \E c \in Callers, k \in Keys : sendEmail(c, k) \/ resendEmailById(c, k)
  \/ \E c \in Callers : Step(c) \/ AcceptanceLost(c) \/ Crash(c)

Spec == Init /\ [][Next]_vars

\* The runtime continues each call as long as the process lives.
FairSpec == Spec /\ \A c \in Callers : WF_vars(Step(c))

-----------------------------------------------------------------------------
(* Properties *)

\* A row says SENT only of a message that the provider accepted, whichever of
\* the calls under its key wrote it (dispatchEmail).
SentWasAccepted == \A k \in Keys : status[k] = "SENT" => accepted[k] > 0

\* Calls under one key that follow each other send one message, whatever was
\* resent or retried ("skip if already successfully sent with this key"); a
\* second one takes an acceptance that nobody recorded, by a lost answer or a
\* crash between the answer and the record, or two calls at a time.
OneMessageUnlessLost ==
  \A k \in Keys : k \notin overlapped => accepted[k] <= 1 + lost

\* What the provider accepts is never the empty message of a row whose template
\* failed to render (resendEmailById, "Rendered HTML not available").
BlankNeverSent == \A k \in Keys : accepted[k] > 0 => html[k]

\* What the log says of a message, and of what type, whatever call wrote it.
EmailInv == TypeOK /\ SentWasAccepted /\ BlankNeverSent

\* Unless a call is lost on the way, a queued message is decided: nothing else
\* ever looks for QUEUED rows.
QueuedIsDecided ==
  \A k \in Keys : status[k] = "QUEUED" ~> status[k] # "QUEUED" \/ lost > 0
=============================================================================
