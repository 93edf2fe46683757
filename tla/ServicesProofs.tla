--------------------------- MODULE ServicesProofs ---------------------------
(***************************************************************************)
(* The two services that talk to the world outside: Email, which sends,    *)
(* and ClerkWebhook, which is told.  Both keep a row by which a repetition *)
(* is known, and theorems say for any number of callers, deliveries, lost  *)
(* answers and crashes what these rows are worth.                          *)
(***************************************************************************)
EXTENDS Email, ClerkWebhook, FiniteSetTheorems, TLAPS

-----------------------------------------------------------------------------
(* Email *)

\* A caller that works has a key; one that is about to hand a message over has
\* a row with that message, and one that was answered has an acceptance.
CallsBacked ==
  \A c \in Callers :
    /\ pc[c] = "idle" <=> key[c] = NoKey
    /\ pc[c] \in {"dispatching", "requeueing", "accepted"} => html[key[c]]
    /\ pc[c] = "accepted" => accepted[key[c]] > 0

\* On a key where no two calls met, there is one call at a time ...
OneCallAtATime ==
  \A c, d \in Callers :
    key[c] = key[d] /\ key[c] \in Keys \ overlapped => c = d

\* ... and none once the message is sent.
SentIsTheEnd ==
  \A c \in Callers :
    key[c] \in Keys \ overlapped => status[key[c]] # "SENT"

\* The acceptance of a message is, or is about to be, on record.
OnRecord(k) ==
  \/ status[k] = "SENT"
  \/ \E c \in Callers : key[c] = k /\ pc[c] = "accepted"

\* All others were lost.
OthersLost ==
  \A k \in Keys \ overlapped :
    /\ accepted[k] <= lost + 1
    /\ ~ OnRecord(k) => accepted[k] <= lost

EmailBacked == EmailInv /\ CallsBacked
EmailCounted == OneCallAtATime /\ SentIsTheEnd /\ OthersLost

\* No calls and no rows.
LEMMA EmailStart == Init => EmailBacked /\ EmailCounted
<1> SUFFICES ASSUME Init PROVE EmailBacked /\ EmailCounted
  OBVIOUS
<1>1. TypeOK
  BY EmailAssumption DEF Init, TypeOK
<1>2. SentWasAccepted /\ BlankNeverSent /\ CallsBacked
  BY DEF Init, SentWasAccepted, BlankNeverSent, CallsBacked
<1>3. OneCallAtATime /\ SentIsTheEnd /\ OthersLost
  BY EmailAssumption DEF Init, OneCallAtATime, SentIsTheEnd, OthersLost
<1>4. QED
  BY <1>1, <1>2, <1>3 DEF EmailBacked, EmailInv, EmailCounted

\* A call takes up a key that is not finished, and that has a message if the
\* message is to be sent as it is.
LEMMA CallStep ==
  ASSUME EmailBacked, NEW c \in Callers, NEW k \in Keys, NEW next,
         next \in {"rendering", "requeueing"}, next = "requeueing" => html[k],
         Call(c, k, next)
  PROVE  EmailBacked'
<1>1. TypeOK'
  <2>1. found' \in [Callers -> BOOLEAN]
    BY Zenon DEF Call, EmailBacked, EmailInv, TypeOK
  <2>2. calls' \in 0 .. MaxCalls
    BY EmailAssumption DEF Call, EmailBacked, EmailInv, TypeOK
  <2>3. /\ pc' \in [Callers -> {"idle", "rendering", "queueing", "requeueing",
                                "dispatching", "accepted", "rejected"}]
        /\ key' \in [Callers -> Keys \cup {NoKey}]
        /\ overlapped' \subseteq Keys
    BY DEF Call, Goto, EmailBacked, EmailInv, TypeOK
  <2>4. QED
    BY <2>1, <2>2, <2>3 DEF Call, logVars, EmailBacked, EmailInv, TypeOK
<1>2. /\ pc[c] = "idle" /\ pc' = [pc EXCEPT ![c] = next]
      /\ key' = [key EXCEPT ![c] = k]
      /\ UNCHANGED <<status, html, accepted>>
  BY DEF Call, Goto, logVars
<1>3. CallsBacked'
  BY <1>2, EmailAssumption DEF EmailBacked, EmailInv, TypeOK, CallsBacked
<1>4. SentWasAccepted' /\ BlankNeverSent'
  BY <1>2 DEF EmailBacked, EmailInv, SentWasAccepted, BlankNeverSent
<1>5. QED
  BY <1>1, <1>3, <1>4 DEF EmailBacked, EmailInv

\* Whatever a call does next, what the log says of a message stays true.
LEMMA EmailKept ==
  ASSUME EmailBacked, [Next]_vars
  PROVE  EmailBacked'
<1>1. CASE UNCHANGED vars
  BY <1>1 DEF vars, EmailBacked, EmailInv, TypeOK, SentWasAccepted,
              BlankNeverSent, CallsBacked
<1>2. CASE \E c \in Callers, k \in Keys : sendEmail(c, k) \/ resendEmailById(c, k)
  <2>1. PICK c \in Callers, k \in Keys : sendEmail(c, k) \/ resendEmailById(c, k)
    BY <1>2
  <2>2. CASE sendEmail(c, k)
    BY <2>2, CallStep DEF sendEmail
  <2>3. CASE resendEmailById(c, k)
    BY <2>3, CallStep DEF resendEmailById
  <2>4. QED
    BY <2>1, <2>2, <2>3
<1>3. ASSUME NEW c \in Callers, Step(c) \/ AcceptanceLost(c) \/ Crash(c)
      PROVE  EmailBacked'
  <2>1. /\ pc[c] # "idle" /\ key[c] \in Keys
        /\ pc' = [pc EXCEPT ![c] = pc'[c]]
        /\ key' = [key EXCEPT ![c] = key'[c]]
        /\ pc'[c] \in {"idle", "queueing", "dispatching", "accepted", "rejected"}
        /\ IF pc'[c] = "idle" THEN key'[c] = NoKey ELSE key'[c] = key[c]
    BY <1>3 DEF Step, RenderFails, Rendered, Queue, QueueConflict, Requeue,
                ProviderAccepts, ProviderRejects, RecordSent, RecordFailed,
                AcceptanceLost, Crash, Return, Goto, EmailBacked, EmailInv,
                TypeOK, CallsBacked
  <2>2. /\ html' = html \/ html' = [html EXCEPT ![key[c]] = TRUE]
        /\ pc'[c] \in {"dispatching", "accepted"} => html'[key[c]]
    BY <1>3, <2>1
       DEF Step, RenderFails, Rendered, Queue, QueueConflict, Requeue,
           ProviderAccepts, ProviderRejects, RecordSent, RecordFailed,
           AcceptanceLost, Crash, Return, Goto, logVars, history, EmailBacked,
           EmailInv, TypeOK, CallsBacked
  <2>3. /\ \/ accepted' = accepted
           \/ /\ accepted' = [accepted EXCEPT ![key[c]] = @ + 1]
              /\ html[key[c]]
        /\ pc'[c] = "accepted" => accepted'[key[c]] > 0
    BY <1>3, <2>1
       DEF Step, RenderFails, Rendered, Queue, QueueConflict, Requeue,
           ProviderAccepts, ProviderRejects, RecordSent, RecordFailed,
           AcceptanceLost, Crash, Return, Goto, logVars, history, EmailBacked,
           EmailInv, TypeOK, CallsBacked
  <2>4. \/ status' = status
        \/ status' = [status EXCEPT ![key[c]] = status'[key[c]]]
           /\ status'[key[c]] \in {"QUEUED", "FAILED"}
        \/ status' = [status EXCEPT ![key[c]] = "SENT"] /\ accepted[key[c]] > 0
    BY <1>3, <2>1
       DEF Step, RenderFails, Rendered, Queue, QueueConflict, Requeue,
           ProviderAccepts, ProviderRejects, RecordSent, RecordFailed,
           AcceptanceLost, Crash, Return, Goto, logVars, history, EmailBacked,
           EmailInv, TypeOK, CallsBacked
  <2>5a. found' = found \/ found' = [found EXCEPT ![c] = FALSE]
    BY <1>3
       DEF Step, RenderFails, Rendered, Queue, QueueConflict, Requeue,
           ProviderAccepts, ProviderRejects, RecordSent, RecordFailed,
           AcceptanceLost, Crash, Return
  <2>5b. found' \in [Callers -> BOOLEAN]
    BY <2>5a, Zenon DEF EmailBacked, EmailInv, TypeOK
  <2>5. UNCHANGED <<calls, overlapped>> /\ lost' \in 0 .. MaxLost
    BY <1>3, EmailAssumption
       DEF Step, RenderFails, Rendered, Queue, QueueConflict, Requeue,
           ProviderAccepts, ProviderRejects, RecordSent, RecordFailed,
           AcceptanceLost, Crash, Return, Goto, logVars, history, EmailBacked,
           EmailInv, TypeOK
  <2>6. TypeOK'
    <3>1. /\ status' \in [Keys -> {"none", "QUEUED", "SENT", "FAILED"}]
          /\ accepted' \in [Keys -> Nat]
      BY <2>1, <2>3, <2>4 DEF EmailBacked, EmailInv, TypeOK
    <3>2. html' \in [Keys -> BOOLEAN]
      BY <2>1, <2>2, Zenon DEF EmailBacked, EmailInv, TypeOK
    <3>3. /\ pc' \in [Callers -> {"idle", "rendering", "queueing", "requeueing",
                                  "dispatching", "accepted", "rejected"}]
          /\ key' \in [Callers -> Keys \cup {NoKey}]
      BY <2>1 DEF EmailBacked, EmailInv, TypeOK
    <3>4. QED
      BY <3>1, <3>2, <3>3, <2>5, <2>5b DEF EmailBacked, EmailInv, TypeOK
  <2>7. \A k \in Keys : /\ html[k] => html'[k]
                        /\ accepted'[k] >= accepted[k]
    BY <2>1, <2>2, <2>3 DEF EmailBacked, EmailInv, TypeOK
  <2>8. CallsBacked'
    BY <2>1, <2>2, <2>3, <2>7, EmailAssumption
       DEF EmailBacked, EmailInv, TypeOK, CallsBacked
  <2>9. SentWasAccepted'
    <3>1. \A k \in Keys : status'[k] = "SENT" =>
            status[k] = "SENT" \/ accepted[k] > 0
      BY <2>1, <2>4 DEF EmailBacked, EmailInv, TypeOK
    <3>2. \A k \in Keys : accepted[k] \in Nat /\ accepted'[k] \in Nat
      BY <2>6 DEF EmailBacked, EmailInv, TypeOK
    <3>3. QED
      BY <2>7, <3>1, <3>2 DEF EmailBacked, EmailInv, SentWasAccepted
  <2>10. BlankNeverSent'
    BY <2>1, <2>2, <2>3, <2>7 DEF EmailBacked, EmailInv, TypeOK, BlankNeverSent
  <2>11. QED
    BY <2>6, <2>8, <2>9, <2>10 DEF EmailBacked, EmailInv
<1>4. QED
  BY <1>1, <1>2, <1>3 DEF Next

\* dispatchEmail and its callers, for any number of keys and callers: a row
\* says SENT only of an accepted message, and no empty message is accepted.
THEOREM EmailCorrect == Spec => []EmailInv
<1>1. Init => EmailBacked
  BY EmailStart
<1>2. EmailBacked /\ [Next]_vars => EmailBacked'
  BY EmailKept
<1>3. EmailBacked => EmailInv
  BY DEF EmailBacked
<1>4. QED
  BY <1>1, <1>2, <1>3, PTL DEF Spec

\* A new call meets another on its key, or finds it unsent and alone.
LEMMA CallCounted ==
  ASSUME EmailBacked, EmailCounted, NEW c \in Callers, NEW k \in Keys,
         NEW next \in {"rendering", "requeueing"},
         status[k] # "SENT", Call(c, k, next)
  PROVE  EmailCounted'
<1>1. /\ pc[c] = "idle" /\ key[c] = NoKey
      /\ pc'[c] = next /\ key'[c] = k
      /\ \A d \in Callers \ {c} : pc'[d] = pc[d] /\ key'[d] = key[d]
      /\ overlapped' = overlapped \cup ({k} \cap {key[d] : d \in Callers})
      /\ UNCHANGED <<status, accepted, lost>>
  BY DEF Call, Goto, logVars, EmailBacked, EmailInv, TypeOK, CallsBacked
<1>2. OneCallAtATime'
  BY <1>1 DEF EmailCounted, OneCallAtATime
<1>3. SentIsTheEnd'
  BY <1>1 DEF EmailCounted, SentIsTheEnd
<1>4. \A j \in Keys : OnRecord(j) => OnRecord(j)'
  BY <1>1 DEF OnRecord
<1>5. OthersLost'
  BY <1>1, <1>4 DEF EmailCounted, OthersLost
<1>6. QED
  BY <1>2, <1>3, <1>5 DEF EmailCounted

\* A call on its own accounts for the message it hands over, or loses it.
LEMMA StepCounted ==
  ASSUME EmailBacked, EmailCounted, NEW c \in Callers,
         Step(c) \/ AcceptanceLost(c) \/ Crash(c)
  PROVE  EmailCounted'
<1>0. PICK k \in Keys : k = key[c]
  BY DEF Step, RenderFails, Rendered, Queue, QueueConflict, Requeue,
         ProviderAccepts, ProviderRejects, RecordSent, RecordFailed,
         AcceptanceLost, Crash, EmailBacked, EmailInv, TypeOK, CallsBacked
<1>1. /\ pc[c] # "idle" /\ k = key[c]
      /\ \A d \in Callers \ {c} : pc'[d] = pc[d] /\ key'[d] = key[d]
      /\ key'[c] \in {k, NoKey}
      /\ UNCHANGED overlapped
  BY <1>0
     DEF Step, RenderFails, Rendered, Queue, QueueConflict, Requeue,
         ProviderAccepts, ProviderRejects, RecordSent, RecordFailed,
         AcceptanceLost, Crash, Return, Goto, history, EmailBacked, EmailInv,
         TypeOK, CallsBacked
<1>2. /\ \A j \in Keys \ {k} : status'[j] = status[j] /\ accepted'[j] = accepted[j]
      /\ key'[c] = k => status'[k] # "SENT" \/ status' = status
  BY <1>1, EmailAssumption
     DEF Step, RenderFails, Rendered, Queue, QueueConflict, Requeue,
         ProviderAccepts, ProviderRejects, RecordSent, RecordFailed,
         AcceptanceLost, Crash, Return, Goto, logVars, history, EmailBacked,
         EmailInv, TypeOK
<1>3. /\ lost \in Nat /\ lost' \in Nat /\ lost <= lost'
      /\ accepted[k] \in Nat /\ accepted'[k] \in Nat
  BY <1>1, EmailAssumption
     DEF Step, RenderFails, Rendered, Queue, QueueConflict, Requeue,
         ProviderAccepts, ProviderRejects, RecordSent, RecordFailed,
         AcceptanceLost, Crash, history, EmailBacked, EmailInv, TypeOK
<1>4. ASSUME k \notin overlapped
      PROVE  /\ status[k] # "SENT"
             /\ \A d \in Callers : key[d] = k => d = c
             /\ accepted[k] <= lost + 1
             /\ pc[c] # "accepted" => accepted[k] <= lost
  <2>1. status[k] # "SENT" /\ \A d \in Callers : key[d] = k => d = c
    BY <1>1, <1>4 DEF EmailCounted, OneCallAtATime, SentIsTheEnd
  <2>2. pc[c] # "accepted" => ~ OnRecord(k)
    BY <2>1 DEF OnRecord
  <2>3. QED
    BY <1>1, <1>4, <2>1, <2>2 DEF EmailCounted, OthersLost
<1>5. ASSUME k \notin overlapped
      PROVE  /\ accepted'[k] <= lost' + 1
             /\ OnRecord(k)' \/ accepted'[k] <= lost'
  <2>1. CASE ProviderAccepts(c)
    <3>1. pc'[c] = "accepted" /\ key'[c] = k
      BY <1>1, <2>1 DEF ProviderAccepts, Goto, EmailBacked, EmailInv, TypeOK
    <3>2. accepted'[k] = accepted[k] + 1 /\ lost' = lost /\ pc[c] = "dispatching"
      BY <1>1, <2>1 DEF ProviderAccepts, EmailBacked, EmailInv, TypeOK
    <3>3. OnRecord(k)'
      BY <3>1 DEF OnRecord
    <3>4. QED
      BY <1>3, <1>4, <1>5, <3>2, <3>3
  <2>2. CASE RecordSent(c)
    <3>1. status'[k] = "SENT" /\ accepted'[k] = accepted[k] /\ lost' = lost
      BY <1>1, <2>2 DEF RecordSent, history, EmailBacked, EmailInv, TypeOK
    <3>2. OnRecord(k)'
      BY <3>1 DEF OnRecord
    <3>3. QED
      BY <1>3, <1>4, <1>5, <3>1, <3>2
  <2>3. CASE AcceptanceLost(c)
    <3>1. /\ lost' = lost + 1
          /\ \/ pc[c] = "accepted" /\ accepted'[k] = accepted[k]
             \/ pc[c] = "dispatching" /\ accepted'[k] = accepted[k] + 1
      BY <1>1, <2>3 DEF AcceptanceLost, EmailBacked, EmailInv, TypeOK
    <3>2. QED
      BY <1>3, <1>4, <1>5, <3>1
  <2>4. CASE Crash(c)
    <3>1. lost' = lost + 1 /\ accepted'[k] = accepted[k]
      BY <2>4 DEF Crash
    <3>2. QED
      BY <1>3, <1>4, <1>5, <3>1
  <2>5. CASE Step(c) /\ ~ ProviderAccepts(c) /\ ~ RecordSent(c)
    <3>1. pc[c] # "accepted" /\ accepted'[k] = accepted[k]
      BY <2>5 DEF Step, RenderFails, Rendered, Queue, QueueConflict, Requeue,
                  ProviderRejects, RecordFailed, history
    <3>2. QED
      BY <1>3, <1>4, <1>5, <3>1
  <2>6. QED
    BY <2>1, <2>2, <2>3, <2>4, <2>5
<1>6. \A j \in Keys \ {k} : OnRecord(j) => OnRecord(j)'
  BY <1>1, <1>2 DEF OnRecord
<1>7. OthersLost'
  <2>1. ASSUME NEW j \in Keys, j \notin overlapped', j # k
        PROVE  /\ accepted'[j] <= lost' + 1
               /\ ~ OnRecord(j)' => accepted'[j] <= lost'
    <3>1. j \in Keys \ overlapped /\ accepted'[j] = accepted[j]
      BY <1>1, <1>2, <2>1
    <3>2. accepted[j] \in Nat
      BY DEF EmailBacked, EmailInv, TypeOK
    <3>3. accepted[j] <= lost + 1 /\ (~ OnRecord(j) => accepted[j] <= lost)
      BY <3>1 DEF EmailCounted, OthersLost
    <3>4. OnRecord(j) => OnRecord(j)'
      BY <1>6, <2>1
    <3>5. QED
      BY <1>3, <3>1, <3>2, <3>3, <3>4
  <2>2. \A j \in Keys : j \notin overlapped' =>
           /\ accepted'[j] <= lost' + 1
           /\ ~ OnRecord(j)' => accepted'[j] <= lost'
    BY <1>1, <1>5, <2>1
  <2>3. QED
    BY <2>2 DEF OthersLost
<1>8. SentIsTheEnd'
  BY <1>1, <1>2, <1>4, EmailAssumption DEF EmailCounted, SentIsTheEnd
<1>9. OneCallAtATime'
  BY <1>1, EmailAssumption DEF EmailCounted, OneCallAtATime
<1>10. QED
  BY <1>7, <1>8, <1>9 DEF EmailCounted

\* For any number of keys, callers, lost answers and crashes: calls that follow
\* each other send one message, but for acceptances that nobody recorded.
THEOREM EmailSendsOnce == Spec => []OneMessageUnlessLost
<1>1. Init => EmailBacked /\ EmailCounted
  BY EmailStart
<1>2. EmailBacked /\ EmailCounted /\ [Next]_vars => EmailBacked' /\ EmailCounted'
  <2> SUFFICES ASSUME EmailBacked, EmailCounted, [Next]_vars PROVE EmailCounted'
    BY EmailKept
  <2>2. CASE UNCHANGED vars
    BY <2>2 DEF vars, EmailCounted, OneCallAtATime, SentIsTheEnd, OthersLost,
                OnRecord
  <2>3. ASSUME NEW c \in Callers, NEW k \in Keys,
               sendEmail(c, k) \/ resendEmailById(c, k)
        PROVE  EmailCounted'
    <3>1. /\ status[k] # "SENT"
          /\ Call(c, k, "rendering") \/ Call(c, k, "requeueing")
      BY <2>3 DEF sendEmail, resendEmailById
    <3>2. QED
      BY <3>1, CallCounted
  <2>4. ASSUME NEW c \in Callers, Step(c) \/ AcceptanceLost(c) \/ Crash(c)
        PROVE  EmailCounted'
    BY <2>4, StepCounted
  <2>5. QED
    BY <2>2, <2>3, <2>4 DEF Next
<1>3. EmailBacked /\ EmailCounted => OneMessageUnlessLost
  <2> SUFFICES ASSUME EmailBacked, EmailCounted, NEW k \in Keys \ overlapped
                 PROVE  accepted[k] <= 1 + lost
    BY DEF OneMessageUnlessLost
  <2>2. accepted[k] <= lost + 1 /\ lost \in Nat
    BY EmailAssumption
       DEF EmailCounted, OthersLost, EmailBacked, EmailInv, TypeOK
  <2>3. QED
    BY <2>2
<1>4. QED
  BY <1>1, <1>2, <1>3, PTL DEF Spec

-----------------------------------------------------------------------------
(* ClerkWebhook *)

\* A handler that works does so on an event that is logged, alone, and answers
\* only what was handled.
HandlersBusy ==
  \A h \in Handlers :
    /\ stage[h] = "idle" <=> working[h] = 0
    /\ working[h] # 0 => working[h] \in logged
    /\ stage[h] = "answer" => working[h] \in handled

\* An id that is logged stands for an event that was handled, or is being
\* handled, unless a request died.
LoggedForGood ==
  \/ \A n \in logged : n \in handled \/ \E h \in Handlers : working[h] = n
  \/ crashes > 0

WebhookKnown == WebhookInv /\ HandlersBusy /\ LoggedForGood

\* Nothing has happened, and there may be a row that an administrator made.
LEMMA WebhookStart == WebhookInit => WebhookKnown
<1> SUFFICES ASSUME WebhookInit PROVE WebhookKnown
  OBVIOUS
<1>1. WebhookTypeOK
  <2>1. Len(events) \in Nat
    BY WebhookAssumption DEF WebhookInit
  <2>2. /\ user \in [exists : BOOLEAN, clerkId : Identities \cup {NoIdentity},
                     version : Nat, deactivated : BOOLEAN]
    <3>1. NoUser \in [exists : BOOLEAN, clerkId : Identities \cup {NoIdentity},
                     version : Nat, deactivated : BOOLEAN]
      BY DEF NoUser
    <3>2. Invited \in [exists : BOOLEAN, clerkId : Identities \cup {NoIdentity},
                      version : Nat, deactivated : BOOLEAN]
      BY DEF NoUser, Invited
    <3>3. QED
      BY <3>1, <3>2 DEF WebhookInit
  <2>3. failures \in 0 .. MaxFailures /\ crashes \in 0 .. MaxCrashes
    BY WebhookAssumption DEF WebhookInit
  <2>4. reordered \in BOOLEAN
    BY DEF WebhookInit
  <2>5. QED
    BY <2>1, <2>2, <2>3, <2>4 DEF WebhookInit, WebhookTypeOK
<1>2. OneHandlerPerEvent /\ NoEventLost /\ HandlersBusy /\ LoggedForGood
  BY DEF WebhookInit, OneHandlerPerEvent, NoEventLost, HandlersBusy, LoggedForGood
<1>3. QED
  BY <1>1, <1>2 DEF WebhookKnown, WebhookInv

\* A working handler has an event of the user before it.
LEMMA WorksOnEvent ==
  ASSUME WebhookKnown, NEW h \in Handlers, stage[h] # "idle"
  PROVE  /\ working[h] \in 1 .. emitted
         /\ working[h] \in DOMAIN events
         /\ Event_(h) \in Event
<1>1. working[h] \in 1 .. emitted
  BY WebhookAssumption
     DEF WebhookKnown, WebhookInv, WebhookTypeOK, HandlersBusy
<1>2. events \in Seq(Event) /\ emitted \in 0 .. Len(events)
  BY WebhookAssumption DEF WebhookKnown, WebhookInv, WebhookTypeOK
<1>3. QED
  BY <1>1, <1>2 DEF Event_

\* The row stays a row, whatever is made of it.
LEMMA RowTyped ==
  ASSUME WebhookKnown, [WebhookNext]_webhookVars
  PROVE  user' \in [exists : BOOLEAN, clerkId : Identities \cup {NoIdentity},
                    version : Nat, deactivated : BOOLEAN]
<1> DEFINE Rows == [exists : BOOLEAN, clerkId : Identities \cup {NoIdentity},
                    version : Nat, deactivated : BOOLEAN]
<1>1. user \in Rows
  BY DEF WebhookKnown, WebhookInv, WebhookTypeOK
<1>2. ASSUME NEW h \in Handlers,
             LinkUser(h) \/ InsertUser(h) \/ UpdateUser(h) \/ DeactivateUser(h)
      PROVE  user' \in Rows
  <2>1. stage[h] # "idle"
    BY <1>2 DEF LinkUser, InsertUser, UpdateUser, DeactivateUser
  <2>2. Event_(h) \in Event
    BY <2>1, WorksOnEvent
  <2>3. CASE LinkUser(h)
    BY <1>1, <2>2, <2>3 DEF LinkUser, Event
  <2>4. CASE InsertUser(h)
    BY <2>2, <2>4 DEF InsertUser, Created, Event
  <2>5. CASE UpdateUser(h)
    BY <1>1, <2>2, <2>5 DEF UpdateUser, Event
  <2>6. CASE DeactivateUser(h)
    BY <1>1, <2>2, <2>6 DEF DeactivateUser
  <2>7. QED
    BY <1>2, <2>3, <2>4, <2>5, <2>6
<1>3. CASE CreateAccount
  BY <1>3 DEF CreateAccount, Invited, NoUser
<1>4. CASE UNCHANGED user
  BY <1>1, <1>4
<1>5. UNCHANGED user \/ CreateAccount
      \/ \E h \in Handlers : LinkUser(h) \/ InsertUser(h) \/ UpdateUser(h)
                            \/ DeactivateUser(h)
  BY DEF WebhookNext, webhookVars, Emit, Deliver, Handle, Accept, AlreadyProcessed,
         LookUpUser, InsertConflict, EmailConflict, Answer, Fail, HandlerCrashes
<1>6. QED
  BY <1>2, <1>3, <1>4, <1>5

\* Taking on a delivery: the event was not logged, so that nobody works on it.
LEMMA AcceptKept ==
  ASSUME WebhookKnown, NEW h \in Handlers, NEW n \in 1 .. emitted, Accept(h, n)
  PROVE  WebhookKnown'
<1>1. /\ stage[h] = "idle" /\ n \notin logged /\ n # 0
      /\ logged' = logged \cup {n}
      /\ working' = [working EXCEPT ![h] = n]
      /\ stage' = [stage EXCEPT ![h] = "handle"]
      /\ UNCHANGED <<events, emitted, acked, user, handled, failures, crashes>>
  BY DEF Accept, Next_, bounds
<1>2. concurrent \subseteq concurrent' /\ concurrent' \subseteq concurrent \cup {n}
  BY DEF Accept, Noted
<1>3. reordered' \in BOOLEAN
  BY DEF Accept, Noted
<1>4. WebhookTypeOK'
  BY <1>1, <1>2, <1>3 DEF WebhookKnown, WebhookInv, WebhookTypeOK
<1>5. /\ working'[h] = n /\ stage'[h] = "handle"
      /\ \A g \in Handlers \ {h} : working'[g] = working[g] /\ stage'[g] = stage[g]
  BY <1>1 DEF WebhookKnown, WebhookInv, WebhookTypeOK
<1>6. HandlersBusy'
  BY <1>1, <1>5 DEF WebhookKnown, HandlersBusy
<1>7. OneHandlerPerEvent'
  BY <1>1, <1>5 DEF WebhookKnown, HandlersBusy, WebhookInv, OneHandlerPerEvent
<1>8. NoEventLost'
  BY <1>1, <1>2 DEF WebhookKnown, WebhookInv, NoEventLost
<1>9. LoggedForGood'
  <2>1. working[h] = 0
    BY <1>1 DEF WebhookKnown, HandlersBusy
  <2>2. 0 \notin logged
    BY DEF WebhookKnown, WebhookInv, WebhookTypeOK
  <2>3. QED
    BY <1>1, <1>5, <2>1, <2>2 DEF WebhookKnown, LoggedForGood
<1>10. QED
  BY <1>4, <1>6, <1>7, <1>8, <1>9 DEF WebhookKnown, WebhookInv

\* The second answer is right, unless the event is being handled.
LEMMA AlreadyProcessedKept ==
  ASSUME WebhookKnown, NEW h \in Handlers, NEW n \in 1 .. emitted,
         AlreadyProcessed(h, n)
  PROVE  WebhookKnown'
<1>1. /\ n \in logged /\ acked' = acked \cup {n}
      /\ UNCHANGED <<events, emitted, logged, working, stage, user, handled,
                     failures, crashes>>
  BY DEF AlreadyProcessed, bounds
<1>2. concurrent' = concurrent \cup ({n} \cap {working[g] : g \in Handlers})
  BY DEF AlreadyProcessed, Noted
<1>3. reordered' \in BOOLEAN
  BY DEF AlreadyProcessed, Noted
<1>4. WebhookTypeOK'
  BY <1>1, <1>2, <1>3 DEF WebhookKnown, WebhookInv, WebhookTypeOK
<1>5. HandlersBusy' /\ OneHandlerPerEvent' /\ LoggedForGood'
  BY <1>1 DEF WebhookKnown, WebhookInv, HandlersBusy, OneHandlerPerEvent, LoggedForGood
<1>6. NoEventLost'
  BY <1>1, <1>2 DEF WebhookKnown, WebhookInv, LoggedForGood, NoEventLost
<1>7. QED
  BY <1>4, <1>5, <1>6 DEF WebhookKnown, WebhookInv

\* A handler goes on with its event, or commits what it made of it.
LEMMA HandlingKept ==
  ASSUME WebhookKnown, NEW h \in Handlers,
         LookUpUser(h) \/ LinkUser(h) \/ InsertUser(h) \/ UpdateUser(h)
           \/ DeactivateUser(h)
  PROVE  WebhookKnown'
<1>1. /\ stage[h] # "idle"
      /\ stage' = [stage EXCEPT ![h] = stage'[h]]
      /\ \/ stage'[h] \in {"link", "insert"} /\ handled' = handled
         \/ stage'[h] = "answer" /\ handled' = handled \cup {working[h]}
      /\ UNCHANGED <<events, emitted, acked, logged, working, concurrent,
                     reordered, failures, crashes>>
  BY DEF LookUpUser, LinkUser, InsertUser, UpdateUser, DeactivateUser, Commit,
         Next_, deliveries, bounds, WebhookKnown, WebhookInv, WebhookTypeOK
<1>2. working[h] \in 1 .. emitted
  BY <1>1, WorksOnEvent
<1>3. WebhookTypeOK'
  <2>1. user' \in [exists : BOOLEAN, clerkId : Identities \cup {NoIdentity},
                   version : Nat, deactivated : BOOLEAN]
    <3>1. Handle(h)
      BY DEF Handle
    <3>2. WebhookNext
      BY <3>1, Zenon DEF WebhookNext
    <3>3. QED
      BY <3>2, RowTyped
  <2>2. reordered' \in BOOLEAN
    BY <1>1 DEF WebhookKnown, WebhookInv, WebhookTypeOK
  <2>3. QED
    BY <1>1, <1>2, <2>1, <2>2 DEF WebhookKnown, WebhookInv, WebhookTypeOK
<1>4. \A g \in Handlers \ {h} : stage'[g] = stage[g]
  BY <1>1 DEF WebhookKnown, WebhookInv, WebhookTypeOK
<1>5. HandlersBusy'
  BY <1>1, <1>4 DEF WebhookKnown, HandlersBusy
<1>6. OneHandlerPerEvent' /\ NoEventLost' /\ LoggedForGood'
  BY <1>1 DEF WebhookKnown, WebhookInv, OneHandlerPerEvent, NoEventLost, LoggedForGood
<1>7. QED
  BY <1>3, <1>5, <1>6 DEF WebhookKnown, WebhookInv

\* A handler ends: with an answer, without its id, or dead.
LEMMA EndKept ==
  ASSUME WebhookKnown, NEW h \in Handlers,
         Answer(h) \/ InsertConflict(h) \/ EmailConflict(h) \/ Fail(h)
           \/ HandlerCrashes(h)
  PROVE  WebhookKnown'
<1>1. /\ stage[h] # "idle"
      /\ stage' = [stage EXCEPT ![h] = "idle"]
      /\ working' = [working EXCEPT ![h] = 0]
      /\ UNCHANGED <<events, emitted, user, handled, concurrent, reordered>>
  BY DEF Answer, InsertConflict, EmailConflict, Fail, HandlerCrashes, End, Next_,
         deliveries
<1>2. \/ /\ stage[h] = "answer" /\ acked' = acked \cup {working[h]}
         /\ UNCHANGED <<logged, crashes>>
      \/ /\ logged' = logged \ {working[h]}
         /\ UNCHANGED <<acked, crashes>>
      \/ crashes' = crashes + 1 /\ UNCHANGED <<acked, logged>>
  BY DEF Answer, InsertConflict, EmailConflict, Fail, HandlerCrashes, Undo, bounds
<1>3. working[h] \in 1 .. emitted
  BY <1>1, WorksOnEvent
<1>4. failures' \in 0 .. MaxFailures /\ crashes' \in 0 .. MaxCrashes
  BY WebhookAssumption
     DEF Answer, InsertConflict, EmailConflict, Fail, HandlerCrashes, bounds,
         WebhookKnown, WebhookInv, WebhookTypeOK
<1>5. WebhookTypeOK'
  <2>1. reordered' \in BOOLEAN
    BY <1>1 DEF WebhookKnown, WebhookInv, WebhookTypeOK
  <2>2. acked' \cup logged' \subseteq 1 .. emitted
    BY <1>2, <1>3 DEF WebhookKnown, WebhookInv, WebhookTypeOK
  <2>3. /\ stage' \in [Handlers -> {"idle", "handle", "link", "insert", "answer"}]
        /\ working' \in [Handlers -> 0 .. emitted]
    BY <1>1 DEF WebhookKnown, WebhookInv, WebhookTypeOK
  <2>4. QED
    BY <1>1, <1>4, <2>1, <2>2, <2>3 DEF WebhookKnown, WebhookInv, WebhookTypeOK
<1>6. /\ working'[h] = 0 /\ stage'[h] = "idle"
      /\ \A g \in Handlers \ {h} : /\ working'[g] = working[g] /\ stage'[g] = stage[g]
                                   /\ working[g] = working[h] => working[g] = 0
  BY <1>1 DEF WebhookKnown, WebhookInv, WebhookTypeOK, OneHandlerPerEvent
<1>7. HandlersBusy'
  BY <1>1, <1>2, <1>3, <1>6 DEF WebhookKnown, HandlersBusy
<1>8. OneHandlerPerEvent'
  <2>1. \A f, g \in Handlers :
          f # g /\ working[f] = working[g] => working[f] = 0
    BY DEF WebhookKnown, WebhookInv, OneHandlerPerEvent
  <2>2. \A f, g \in Handlers :
          f # g /\ working'[f] = working'[g] => working'[f] = 0
    BY <1>6, <2>1
  <2>3. QED
    BY <2>2 DEF OneHandlerPerEvent
<1>9. crashes \in Nat /\ crashes' \in Nat
  BY <1>4, WebhookAssumption DEF WebhookKnown, WebhookInv, WebhookTypeOK
<1>10. NoEventLost'
  BY <1>1, <1>2, <1>9 DEF WebhookKnown, WebhookInv, NoEventLost, HandlersBusy
<1>11. LoggedForGood'
  <2>1. CASE crashes' = crashes + 1
    BY <1>9, <2>1 DEF LoggedForGood
  <2>2. CASE stage[h] = "answer" /\ UNCHANGED <<logged, crashes>>
    BY <1>1, <1>6, <2>2 DEF WebhookKnown, LoggedForGood, HandlersBusy
  <2>3. CASE logged' = logged \ {working[h]} /\ UNCHANGED crashes
    BY <1>1, <1>6, <2>3 DEF WebhookKnown, LoggedForGood
  <2>4. QED
    BY <1>2, <2>1, <2>2, <2>3
<1>12. QED
  BY <1>5, <1>7, <1>8, <1>10, <1>11 DEF WebhookKnown, WebhookInv

\* Whatever step is taken, what the rows say stays true.
LEMMA WebhookKept ==
  ASSUME WebhookKnown, [WebhookNext]_webhookVars
  PROVE  WebhookKnown'
<1>1. CASE UNCHANGED webhookVars
  BY <1>1 DEF webhookVars, WebhookKnown, WebhookInv, WebhookTypeOK, HandlersBusy,
              OneHandlerPerEvent, NoEventLost, LoggedForGood
<1>2. CASE Emit \/ CreateAccount
  <2>1. UNCHANGED <<events, acked, logged, working, stage, handled, concurrent,
                    reordered, failures, crashes>>
    BY <1>2 DEF Emit, CreateAccount, deliveries, bounds
  <2>2. emitted' \in 0 .. Len(events) /\ emitted <= emitted'
    BY <1>2, WebhookAssumption
       DEF Emit, CreateAccount, WebhookKnown, WebhookInv, WebhookTypeOK
  <2>3. user' \in [exists : BOOLEAN, clerkId : Identities \cup {NoIdentity},
                   version : Nat, deactivated : BOOLEAN]
    BY RowTyped
  <2>4. reordered' \in BOOLEAN
    BY <2>1 DEF WebhookKnown, WebhookInv, WebhookTypeOK
  <2>5. emitted \in Nat /\ emitted' \in Nat
    BY <2>2 DEF WebhookKnown, WebhookInv, WebhookTypeOK
  <2>6. WebhookTypeOK'
    BY <2>1, <2>2, <2>3, <2>4, <2>5 DEF WebhookKnown, WebhookInv, WebhookTypeOK
  <2>7. HandlersBusy' /\ OneHandlerPerEvent' /\ NoEventLost' /\ LoggedForGood'
    BY <2>1 DEF WebhookKnown, WebhookInv, HandlersBusy, OneHandlerPerEvent,
                NoEventLost, LoggedForGood
  <2>8. QED
    BY <2>6, <2>7 DEF WebhookKnown, WebhookInv
<1>3. ASSUME NEW h \in Handlers, NEW n \in 1 .. emitted, Deliver(h, n)
      PROVE  WebhookKnown'
  BY <1>3, AcceptKept, AlreadyProcessedKept DEF Deliver
<1>4. ASSUME NEW h \in Handlers, Handle(h) \/ Fail(h) \/ HandlerCrashes(h)
      PROVE  WebhookKnown'
  BY <1>4, HandlingKept, EndKept DEF Handle
<1>5. QED
  BY <1>1, <1>2, <1>3, <1>4 DEF WebhookNext

\* For any number of requests at a time, failures and crashes: one request at a
\* time handles an event, and no answered event is lost unless a delivery was
\* answered beside the one at work, or a request died.
THEOREM WebhookCorrect == WebhookSpec => []WebhookInv
<1>1. WebhookInit => WebhookKnown
  BY WebhookStart
<1>2. WebhookKnown /\ [WebhookNext]_webhookVars => WebhookKnown'
  BY WebhookKept
<1>3. WebhookKnown => WebhookInv
  BY DEF WebhookKnown
<1>4. QED
  BY <1>1, <1>2, <1>3, PTL DEF WebhookSpec

\* Deliveries that came in order and one at a time: what was answered is a
\* prefix of the events, and the one at work comes next.
OneByOne ==
  /\ \A n \in acked \cup handled : 1 .. n - 1 \subseteq acked
  /\ \A h \in Handlers : working[h] # 0 =>
       working[h] \notin acked /\ 1 .. working[h] - 1 \subseteq acked

\* The row is as the first n events left it.
Row(n) ==
  /\ n = 0 => user.deactivated = FALSE
  /\ n # 0 =>
       /\ user.exists
       /\ user.clerkId = events[n].id
       /\ user.deactivated = (events[n].type = "deleted")
       /\ events[n].type = "updated" => user.version = events[n].version

\* If what was handled is a prefix, with nothing answered beyond it, the row is
\* as this prefix left it.
RowAtPrefix ==
  \A n \in 0 .. Len(events) : handled = 1 .. n /\ acked \subseteq handled => Row(n)

\* A handler that links or inserts has a sign-up, and the row that it found.
SignUpLooked ==
  \A h \in Handlers :
    /\ stage[h] \in {"link", "insert"} => Event_(h).type = "created"
    /\ stage[h] = "link" => user.exists

InOrder == SignsUpOnce /\ ~ reordered /\ concurrent = {}

RowKnown == WebhookKnown /\ SignUpLooked /\ (InOrder => OneByOne /\ RowAtPrefix)

\* A user who signs up once does so with the first event, and has one id.
LEMMA OneSignUp ==
  ASSUME WebhookKnown, SignsUpOnce
  PROVE  /\ Len(events) \in Nat \ {0}
         /\ events[1].type = "created"
         /\ \A n \in 2 .. Len(events) :
              /\ events[n].type # "created"
              /\ events[n].id = events[n - 1].id
              /\ events[n - 1].type # "deleted"
<1> DEFINE SignUps == {n \in DOMAIN events : events[n].type = "created"}
<1>1. /\ events \in Histories
      /\ DOMAIN events = 1 .. Len(events) /\ Len(events) \in Nat
  BY WebhookAssumption DEF WebhookKnown, WebhookInv, WebhookTypeOK
<1>2. \A n \in 1 .. Len(events) :
        /\ n = 1 => events[n].type = "created"
        /\ n # 1 /\ events[n].type # "created" =>
             /\ events[n].id = events[n - 1].id
             /\ events[n - 1].type # "deleted"
  BY <1>1, HistoriesAssumption, Zenon
<1>3. IsFiniteSet(SignUps)
  <2>1. IsFiniteSet(1 .. Len(events))
    BY <1>1, FS_Interval
  <2>2. SignUps \subseteq 1 .. Len(events)
    BY <1>1
  <2>3. QED
    BY <2>1, <2>2, FS_Subset
<1>4. PICK m : SignUps = {m}
  BY <1>3, FS_Singleton DEF SignsUpOnce
<1>5. m \in 1 .. Len(events)
  BY <1>1, <1>4
<1>6. 1 \in SignUps
  BY <1>1, <1>2, <1>5
<1>7. \A n \in 2 .. Len(events) : events[n].type # "created"
  <2>1. SUFFICES ASSUME NEW n \in 2 .. Len(events), events[n].type = "created"
                 PROVE  FALSE
    OBVIOUS
  <2>2. n \in SignUps
    BY <1>1, <2>1
  <2>3. QED
    BY <1>4, <1>6, <2>2
<1>8. QED
  <2>1. 1 \in 1 .. Len(events) /\ Len(events) \in Nat \ {0}
    BY <1>1, <1>5
  <2>2. \A n \in 2 .. Len(events) : n \in 1 .. Len(events) /\ n # 1
    BY <1>1
  <2>3. QED
    BY <1>2, <1>6, <1>7, <2>1, <2>2

\* Before the first event nothing is answered, and nobody is deactivated.
LEMMA RowStart == WebhookInit => RowKnown
<1> SUFFICES ASSUME WebhookInit PROVE RowKnown
  OBVIOUS
<1>1. WebhookKnown /\ SignUpLooked /\ OneByOne
  BY WebhookStart DEF WebhookInit, SignUpLooked, OneByOne
<1>2. RowAtPrefix
  <2>1. SUFFICES ASSUME NEW n \in 0 .. Len(events), handled = 1 .. n PROVE Row(n)
    BY DEF RowAtPrefix
  <2>2. Len(events) \in Nat
    BY WebhookAssumption DEF WebhookInit
  <2>3. n = 0
    BY <2>1, <2>2 DEF WebhookInit
  <2>4. user.deactivated = FALSE
    BY DEF WebhookInit, NoUser, Invited
  <2>5. QED
    BY <2>3, <2>4 DEF Row
<1>3. QED
  BY <1>1, <1>2 DEF RowKnown

\* A commit handles the next event, or the last one once more.
LEMMA CommitFollows ==
  ASSUME RowKnown, NEW h \in Handlers,
         LinkUser(h) \/ InsertUser(h) \/ UpdateUser(h) \/ DeactivateUser(h)
  PROVE  SignUpLooked' /\ (InOrder' => OneByOne' /\ RowAtPrefix')
<1>1. PICK m : m = working[h]
  OBVIOUS
<1>2. /\ stage[h] # "idle"
      /\ stage' = [stage EXCEPT ![h] = "answer"]
      /\ handled' = handled \cup {m}
      /\ UNCHANGED <<events, emitted, acked, logged, working, concurrent,
                     reordered, failures, crashes>>
  BY <1>1 DEF LinkUser, InsertUser, UpdateUser, DeactivateUser, Commit, Next_,
              deliveries, bounds
<1>3. /\ m \in 1 .. emitted /\ m \in DOMAIN events /\ events[m] \in Event
      /\ Len(events) \in Nat /\ DOMAIN events = 1 .. Len(events)
      /\ emitted \in 0 .. Len(events) /\ m # 0
      /\ handled \subseteq 1 .. emitted /\ acked \subseteq 1 .. emitted
      /\ events[m] = Event_(h)
  BY <1>1, <1>2, WorksOnEvent, WebhookAssumption
     DEF RowKnown, WebhookKnown, WebhookInv, WebhookTypeOK, Event_
<1>4. user.exists => user'.exists
  BY DEF LinkUser, InsertUser, UpdateUser, DeactivateUser, Created, RowKnown,
         WebhookKnown, WebhookInv, WebhookTypeOK
<1>5. SignUpLooked'
  <2>1. \A g \in Handlers : stage'[g] \in {"link", "insert"} => stage'[g] = stage[g]
    BY <1>2 DEF RowKnown, WebhookKnown, WebhookInv, WebhookTypeOK
  <2>2. QED
    BY <1>2, <1>4, <2>1 DEF RowKnown, SignUpLooked, Event_
<1>6. ASSUME InOrder'
      PROVE  InOrder /\ OneByOne /\ RowAtPrefix
  BY <1>2, <1>6 DEF InOrder, SignsUpOnce, RowKnown
<1>7. ASSUME InOrder' PROVE OneByOne'
  BY <1>1, <1>2, <1>3, <1>6, <1>7 DEF OneByOne
<1>8. ASSUME InOrder', NEW n \in 0 .. Len(events), handled' = 1 .. n,
             acked \subseteq handled'
      PROVE  Row(n)'
  <2>1. m \notin acked /\ 1 .. m - 1 \subseteq acked
    BY <1>1, <1>3, <1>6, <1>8 DEF OneByOne
  <2>2. acked \subseteq handled /\ 1 .. m - 1 \subseteq handled
    BY <1>2, <1>8, <2>1
  <2>3. n = m
    <3>1. m + 1 \notin handled
      <4>1. SUFFICES ASSUME m + 1 \in handled PROVE FALSE
        OBVIOUS
      <4>2. 1 .. (m + 1) - 1 \subseteq acked
        BY <1>6, <1>8, <4>1 DEF OneByOne
      <4>3. QED
        BY <1>3, <2>1, <4>2
    <3>2. m \in 1 .. n /\ n \in Nat
      BY <1>2, <1>3, <1>8
    <3>3. m + 1 \notin 1 .. n
      BY <1>2, <1>3, <1>8, <3>1
    <3>4. QED
      BY <1>3, <3>2, <3>3
  <2>4. handled = 1 .. m \/ handled = 1 .. m - 1
    <3>1. handled \cup {m} = 1 .. m
      BY <1>2, <1>8, <2>3
    <3>2. CASE m \in handled
      BY <3>1, <3>2
    <3>3. CASE m \notin handled
      <4>1. handled \subseteq 1 .. m - 1
        BY <1>3, <3>1, <3>3
      <4>2. QED
        BY <2>2, <4>1
    <3>4. QED
      BY <3>2, <3>3
  <2>5. Row(m) \/ Row(m - 1)
    BY <1>3, <1>6, <1>8, <2>2, <2>4 DEF RowAtPrefix
  <2>6. /\ events[1].type = "created"
        /\ m # 1 => /\ events[m].type # "created"
                    /\ events[m].id = events[m - 1].id
                    /\ events[m - 1].type # "deleted"
    BY <1>3, <1>6, <1>8, OneSignUp DEF RowKnown, InOrder
  <2>7. /\ user \in [exists : BOOLEAN, clerkId : Identities \cup {NoIdentity},
                     version : Nat, deactivated : BOOLEAN]
        /\ m # 1 => user.exists /\ user.clerkId = events[m].id
        /\ events[m].type # "deleted" => user.deactivated = FALSE
    BY <1>3, <2>5, <2>6 DEF Row, RowKnown, WebhookKnown, WebhookInv, WebhookTypeOK
  <2>8. /\ user'.exists
        /\ user'.clerkId = events[m].id
        /\ user'.deactivated = (events[m].type = "deleted")
        /\ events[m].type = "updated" => user'.version = events[m].version
    <3>1. CASE LinkUser(h)
      <4>1. events[m].type = "created" /\ user.exists
        BY <1>3, <3>1 DEF LinkUser, RowKnown, SignUpLooked
      <4>2. user' = [user EXCEPT !.clerkId = events[m].id]
        BY <1>3, <3>1 DEF LinkUser
      <4>3. QED
        BY <2>7, <4>1, <4>2
    <3>2. CASE InsertUser(h)
      <4>1. events[m].type = "created"
        BY <1>3, <3>2 DEF InsertUser, RowKnown, SignUpLooked
      <4>2. user' = Created(events[m])
        BY <1>3, <3>2 DEF InsertUser
      <4>3. QED
        BY <4>1, <4>2 DEF Created
    <3>3. CASE UpdateUser(h)
      <4>1. events[m].type = "updated" /\ m # 1
        BY <1>3, <2>6, <3>3 DEF UpdateUser
      <4>2. user' = [user EXCEPT !.version = events[m].version]
        BY <1>3, <2>7, <3>3, <4>1 DEF UpdateUser
      <4>3. QED
        BY <2>7, <4>1, <4>2
    <3>4. CASE DeactivateUser(h)
      <4>1. events[m].type = "deleted" /\ m # 1
        BY <1>3, <2>6, <3>4 DEF DeactivateUser
      <4>2. user' = [user EXCEPT !.deactivated = TRUE]
        BY <1>3, <2>7, <3>4, <4>1 DEF DeactivateUser
      <4>3. QED
        BY <2>7, <4>1, <4>2
    <3>5. QED
      BY <3>1, <3>2, <3>3, <3>4
  <2>9. QED
    BY <1>2, <1>3, <2>3, <2>8 DEF Row
<1>9. ASSUME InOrder' PROVE RowAtPrefix'
  BY <1>2, <1>8, <1>9 DEF RowAtPrefix
<1>10. QED
  BY <1>5, <1>7, <1>9

\* A delivery, however answered, comes after all earlier ones if in order.
LEMMA DeliveryFollows ==
  ASSUME RowKnown, NEW h \in Handlers, NEW n \in 1 .. emitted, Deliver(h, n)
  PROVE  SignUpLooked' /\ (InOrder' => OneByOne' /\ RowAtPrefix')
<1>1. Accept(h, n) \/ AlreadyProcessed(h, n)
  BY DEF Deliver
<1>2. /\ Deliverable(n) /\ Noted(n) /\ n # 0
      /\ UNCHANGED <<events, emitted, user, handled>>
      /\ \/ /\ acked' = acked /\ working' = [working EXCEPT ![h] = n]
            /\ stage' = [stage EXCEPT ![h] = "handle"]
         \/ /\ acked' = acked \cup {n} /\ UNCHANGED <<working, stage>>
  BY <1>1 DEF Accept, AlreadyProcessed, Next_
<1>3. SignUpLooked'
  <2>1. \A g \in Handlers : stage'[g] \in {"link", "insert"} =>
          stage'[g] = stage[g] /\ working'[g] = working[g]
    BY <1>2 DEF RowKnown, WebhookKnown, WebhookInv, WebhookTypeOK
  <2>2. QED
    BY <1>2, <2>1 DEF RowKnown, SignUpLooked, Event_
<1>4. ASSUME InOrder'
      PROVE  /\ InOrder /\ OneByOne /\ RowAtPrefix
             /\ 1 .. n - 1 \subseteq acked /\ n \notin acked
             /\ \A g \in Handlers : working[g] # n
  BY <1>2, <1>4 DEF InOrder, SignsUpOnce, RowKnown, Noted, Deliverable
<1>5. ASSUME InOrder' PROVE OneByOne'
  <2>1. /\ \A k \in acked \cup handled : 1 .. k - 1 \subseteq acked
        /\ \A g \in Handlers : working[g] # 0 =>
             working[g] \notin acked /\ 1 .. working[g] - 1 \subseteq acked
    BY <1>4, <1>5 DEF OneByOne
  <2>2. \A g \in Handlers : working'[g] # 0 =>
          /\ working'[g] \notin acked'
          /\ 1 .. working'[g] - 1 \subseteq acked'
    BY <1>2, <1>4, <1>5, <2>1 DEF RowKnown, WebhookKnown, WebhookInv, WebhookTypeOK
  <2>3. \A k \in acked' \cup handled' : 1 .. k - 1 \subseteq acked'
    BY <1>2, <1>4, <1>5, <2>1
  <2>4. QED
    BY <2>2, <2>3 DEF OneByOne
<1>6. ASSUME InOrder' PROVE RowAtPrefix'
  <2>1. acked \subseteq acked'
    BY <1>2
  <2>2. \A k : Row(k) => Row(k)'
    BY <1>2 DEF Row
  <2>3. QED
    BY <1>2, <1>4, <1>6, <2>1, <2>2 DEF RowAtPrefix
<1>7. QED
  BY <1>3, <1>5, <1>6

\* The other steps change nothing that was answered or handled, but for the
\* answer to what was handled.
LEMMA RowKept ==
  ASSUME RowKnown, [WebhookNext]_webhookVars
  PROVE  RowKnown'
<1>1. WebhookKnown'
  BY WebhookKept DEF RowKnown
<1>2. CASE \E h \in Handlers : \E n \in 1 .. emitted : Deliver(h, n)
  BY <1>1, <1>2, DeliveryFollows DEF RowKnown
<1>3. CASE \E h \in Handlers : LinkUser(h) \/ InsertUser(h) \/ UpdateUser(h)
                               \/ DeactivateUser(h)
  BY <1>1, <1>3, CommitFollows DEF RowKnown
<1>4. CASE CreateAccount
  <2>1. /\ user.exists = FALSE /\ user'.exists /\ user'.deactivated = FALSE
        /\ UNCHANGED <<events, acked, working, stage, handled, concurrent,
                       reordered>>
    BY <1>4 DEF CreateAccount, Invited, NoUser, deliveries, RowKnown,
                WebhookKnown, WebhookInv, WebhookTypeOK
  <2>2. SignUpLooked'
    BY <2>1 DEF RowKnown, SignUpLooked, Event_
  <2>3. ASSUME InOrder' PROVE OneByOne' /\ RowAtPrefix'
    <3>1. OneByOne /\ RowAtPrefix
      BY <2>1, <2>3 DEF InOrder, SignsUpOnce, RowKnown
    <3>2. \A n : Row(n) => Row(n)'
      BY <2>1 DEF Row
    <3>3. QED
      BY <2>1, <3>1, <3>2 DEF OneByOne, RowAtPrefix
  <2>4. QED
    BY <1>1, <2>2, <2>3 DEF RowKnown
<1>5. CASE Emit \/ UNCHANGED webhookVars
           \/ \E h \in Handlers : LookUpUser(h)
  <2>1. UNCHANGED <<events, acked, working, user, handled, concurrent, reordered>>
    BY <1>5 DEF Emit, webhookVars, LookUpUser, deliveries
  <2>2. \A g \in Handlers : stage'[g] \in {"link", "insert"} =>
          \/ stage'[g] = stage[g]
          \/ Event_(g).type = "created" /\ (stage'[g] = "link" => user.exists)
    BY <1>5 DEF Emit, webhookVars, LookUpUser, Next_, RowKnown, WebhookKnown,
                WebhookInv, WebhookTypeOK
  <2>3. SignUpLooked'
    BY <2>1, <2>2 DEF RowKnown, SignUpLooked, Event_
  <2>4. ASSUME InOrder' PROVE OneByOne' /\ RowAtPrefix'
    BY <2>1, <2>4 DEF InOrder, SignsUpOnce, RowKnown, OneByOne, RowAtPrefix, Row
  <2>5. QED
    BY <1>1, <2>3, <2>4 DEF RowKnown
<1>6. ASSUME NEW h \in Handlers,
             Answer(h) \/ InsertConflict(h) \/ EmailConflict(h) \/ Fail(h)
               \/ HandlerCrashes(h)
      PROVE  RowKnown'
  <2>1. PICK m : m = working[h]
    OBVIOUS
  <2>2. /\ stage[h] # "idle" /\ m # 0
        /\ stage' = [stage EXCEPT ![h] = "idle"]
        /\ working' = [working EXCEPT ![h] = 0]
        /\ acked' = acked \/ acked' = acked \cup {m}
        /\ UNCHANGED <<events, user, handled, concurrent, reordered>>
    BY <1>6, <2>1, WorksOnEvent
       DEF Answer, InsertConflict, EmailConflict, Fail, HandlerCrashes, End, Next_,
           deliveries, RowKnown, WebhookKnown, HandlersBusy
  <2>3. \A g \in Handlers \ {h} : /\ working'[g] = working[g]
                                  /\ stage'[g] = stage[g]
                                  /\ working[g] # m \/ working[g] = 0
    BY <2>1, <2>2
       DEF RowKnown, WebhookKnown, WebhookInv, WebhookTypeOK, OneHandlerPerEvent
  <2>4. working'[h] = 0 /\ stage'[h] = "idle"
    BY <2>2 DEF RowKnown, WebhookKnown, WebhookInv, WebhookTypeOK
  <2>5. SignUpLooked'
    BY <2>2, <2>3, <2>4 DEF RowKnown, SignUpLooked, Event_
  <2>6. ASSUME InOrder' PROVE OneByOne' /\ RowAtPrefix'
    <3>1. OneByOne /\ RowAtPrefix
      BY <2>2, <2>6 DEF InOrder, SignsUpOnce, RowKnown
    <3>2. 1 .. m - 1 \subseteq acked
      BY <2>1, <2>2, <3>1 DEF OneByOne
    <3>3. OneByOne'
      <4>1. \A n \in acked' \cup handled' : 1 .. n - 1 \subseteq acked'
        BY <2>2, <3>1, <3>2 DEF OneByOne
      <4>2. \A g \in Handlers : working'[g] # 0 =>
              working'[g] \notin acked' /\ 1 .. working'[g] - 1 \subseteq acked'
        BY <2>2, <2>3, <2>4, <3>1 DEF OneByOne
      <4>3. QED
        BY <4>1, <4>2 DEF OneByOne
    <3>4. \A n : Row(n) => Row(n)'
      BY <2>2 DEF Row
    <3>5. acked \subseteq acked'
      BY <2>2
    <3>6. RowAtPrefix'
      BY <2>2, <3>1, <3>4, <3>5 DEF RowAtPrefix
    <3>7. QED
      BY <3>3, <3>6
  <2>7. QED
    BY <1>1, <2>5, <2>6 DEF RowKnown
<1>7. QED
  BY <1>2, <1>3, <1>4, <1>5, <1>6 DEF WebhookNext, Handle

\* For any user who signs up once, and any failures, repeated deliveries and
\* crashes on the way: events handled in order leave the row as the last says.
THEOREM WebhookRowFollows == WebhookSpec => []RowFollowsEvents
<1>1. WebhookInit => RowKnown
  BY RowStart
<1>2. RowKnown /\ [WebhookNext]_webhookVars => RowKnown'
  BY RowKept
<1>3. RowKnown => RowFollowsEvents
  <2> SUFFICES ASSUME RowKnown, 1 .. Len(events) \subseteq acked \cap handled,
                      SignsUpOnce, ~ reordered, concurrent = {}
               PROVE  Row(Len(events)) /\ Len(events) # 0
    BY DEF RowFollowsEvents, Row, LastEvent
  <2>1. RowAtPrefix /\ Len(events) \in Nat \ {0}
    BY OneSignUp DEF RowKnown, InOrder
  <2>2. handled \subseteq 1 .. Len(events) /\ acked \subseteq 1 .. Len(events)
    BY <2>1 DEF RowKnown, WebhookKnown, WebhookInv, WebhookTypeOK
  <2>3. handled = 1 .. Len(events) /\ acked \subseteq handled
    BY <2>2
  <2>4. QED
    BY <2>1, <2>3 DEF RowAtPrefix
<1>4. QED
  BY <1>1, <1>2, <1>3, PTL DEF WebhookSpec

=============================================================================
