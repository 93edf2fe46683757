---------------------------- MODULE ClerkWebhook ----------------------------
(***************************************************************************)
(* src/webhooks/clerk.ts: the identity provider reports what happens to a  *)
(* user, and one row of the User table follows.                            *)
(*                                                                         *)
(* The provider (external) delivers an event again until it is answered    *)
(* with 200, at times while an earlier delivery is still being handled.    *)
(* The handler inserts the id of the delivery first, then handles the      *)
(* event, and deletes the id again if that fails.                          *)
(***************************************************************************)
EXTENDS Naturals, Sequences, FiniteSets

CONSTANTS Handlers,     \* requests that may be in progress at a time
          Histories,    \* the sequences of events that a user may cause
          Identities,   \* the ids the provider gives
          NoIdentity,   \* clerkId = null
          MaxFailures,  \* bound: handlings that fail
          MaxCrashes    \* bound: requests that end without an answer

Event == [type : {"created", "updated", "deleted"},
          id : Identities, version : Nat,
          taken : BOOLEAN]   \* the new email of an update is that of another row

ASSUME WebhookAssumption ==
  /\ NoIdentity \notin Identities
  /\ Histories \subseteq Seq(Event)
  /\ MaxFailures \in Nat /\ MaxCrashes \in Nat

\* What the provider reports of a user: a user signs up first, has one id from
\* then on, and nothing happens to a deleted user but a sign-up with a new id.
ASSUME HistoriesAssumption ==
  \A history \in Histories : \A n \in DOMAIN history :
    /\ n = 1 => history[n].type = "created"
    /\ history[n].taken => history[n].type = "updated"
    /\ n # 1 /\ history[n].type # "created" =>
         /\ history[n].id = history[n - 1].id
         /\ history[n - 1].type # "deleted"

VARIABLES events,    \* the events of the user, in the order they happened
          emitted,   \* how many of them have happened
          acked,     \* events the provider has a 200 for
          logged,    \* events with a WebhookEvent row
          working,   \* the event each handler works on, 0 for none
          stage,     \* what it does next
          user,      \* the User row with the email of the events
          handled,   \* history: events whose handling was committed
          concurrent,\* history: events delivered while being handled
          reordered, \* history: whether one was handled before an earlier one
          failures, crashes

webhookVars == <<events, emitted, acked, logged, working, stage, user, handled,
          concurrent, reordered, failures, crashes>>
deliveries == <<concurrent, reordered>>
bounds == <<failures, crashes>>

NoUser == [exists |-> FALSE, clerkId |-> NoIdentity, version |-> 0,
           deactivated |-> FALSE]
Created(e) == [exists |-> TRUE, clerkId |-> e.id, version |-> e.version,
               deactivated |-> FALSE]

\* A row that an administrator made (routes/admin/accounts.ts) has no clerkId.
Invited == [NoUser EXCEPT !.exists = TRUE]

WebhookTypeOK ==
  /\ events \in Histories
  /\ emitted \in 0 .. Len(events)
  /\ acked \cup logged \cup handled \cup concurrent \subseteq 1 .. emitted
  /\ reordered \in BOOLEAN
  /\ working \in [Handlers -> 0 .. emitted]
  /\ stage \in [Handlers -> {"idle", "handle", "link", "insert", "answer"}]
  /\ user \in [exists : BOOLEAN, clerkId : Identities \cup {NoIdentity},
               version : Nat, deactivated : BOOLEAN]
  /\ failures \in 0 .. MaxFailures
  /\ crashes \in 0 .. MaxCrashes

WebhookInit ==
  /\ events \in Histories
  /\ emitted = 0
  /\ acked = {} /\ logged = {} /\ handled = {} /\ concurrent = {}
  /\ reordered = FALSE
  /\ working = [h \in Handlers |-> 0]
  /\ stage = [h \in Handlers |-> "idle"]
  /\ user \in {NoUser, Invited}
  /\ failures = 0 /\ crashes = 0

-----------------------------------------------------------------------------
(* The provider *)

Emit ==
  /\ emitted < Len(events)
  /\ emitted' = emitted + 1
  /\ UNCHANGED <<events, acked, logged, working, stage, user, handled,
                 deliveries, bounds>>

\* Every event without a 200 is delivered, and delivered again.
Deliverable(n) ==
  /\ n \in 1 .. emitted
  /\ n \notin acked

\* How this delivery of an event relates to the others.
Noted(n) ==
  /\ concurrent' = concurrent \cup ({n} \cap {working[h] : h \in Handlers})
  /\ reordered' = (reordered \/ ~ (1 .. n - 1 \subseteq acked))

-----------------------------------------------------------------------------
(* The handler *)

Next_(h, next) == stage' = [stage EXCEPT ![h] = next]

End(h) ==
  /\ Next_(h, "idle")
  /\ working' = [working EXCEPT ![h] = 0]

\* Fault: no look at the ids of earlier deliveries.
Accept_NoGuard(h, n) ==
  /\ stage[h] = "idle"
  /\ Deliverable(n)
  /\ Noted(n)
  /\ logged' = logged \cup {n}
  /\ working' = [working EXCEPT ![h] = n]
  /\ Next_(h, "handle")
  /\ UNCHANGED <<events, emitted, acked, user, handled, bounds>>

\* The insert of the id succeeds ...
Accept(h, n) ==
  /\ stage[h] = "idle"
  /\ Deliverable(n)
  /\ Noted(n)
  /\ n \notin logged
  /\ logged' = logged \cup {n}
  /\ working' = [working EXCEPT ![h] = n]
  /\ Next_(h, "handle")
  /\ UNCHANGED <<events, emitted, acked, user, handled, bounds>>

\* ... or meets the row of another delivery: "Already processed", 200.
AlreadyProcessed(h, n) ==
  /\ stage[h] = "idle"
  /\ Deliverable(n)
  /\ Noted(n)
  /\ n \in logged
  /\ acked' = acked \cup {n}
  /\ UNCHANGED <<events, emitted, logged, working, stage, user, handled,
                 bounds>>

Event_(h) == events[working[h]]

\* user.created looks for a row with the email first.
LookUpUser(h) ==
  /\ stage[h] = "handle"
  /\ Event_(h).type = "created"
  /\ Next_(h, IF user.exists THEN "link" ELSE "insert")
  /\ UNCHANGED <<events, emitted, acked, logged, working, user, handled,
                 deliveries, bounds>>

Commit(h) ==
  /\ handled' = handled \cup {working[h]}
  /\ Next_(h, "answer")
  /\ UNCHANGED <<events, emitted, acked, logged, working, deliveries, bounds>>

\* Fault: a row that was there stays as it is.
LinkUser_Skipped(h) ==
  /\ stage[h] = "link"
  /\ UNCHANGED user
  /\ Commit(h)

\* A row that was there gets the id; its name stays what it was.
LinkUser(h) ==
  /\ stage[h] = "link"
  /\ user' = [user EXCEPT !.clerkId = Event_(h).id]
  /\ Commit(h)

\* The insert of user and wallet; email is unique.
InsertUser(h) ==
  /\ stage[h] = "insert"
  /\ ~ user.exists
  /\ user' = Created(Event_(h))
  /\ Commit(h)

\* user.updated and user.deleted change the row that has the id, if there is
\* one, and succeed also when there is none.  An email that another row has
\* (unique) fails the update.
UpdateUser(h) ==
  /\ stage[h] = "handle"
  /\ Event_(h).type = "updated"
  /\ ~ (Event_(h).taken /\ user.clerkId = Event_(h).id)
  /\ user' = IF user.clerkId = Event_(h).id
             THEN [user EXCEPT !.version = Event_(h).version] ELSE user
  /\ Commit(h)

DeactivateUser(h) ==
  /\ stage[h] = "handle"
  /\ Event_(h).type = "deleted"
  /\ user' = IF user.clerkId = Event_(h).id
             THEN [user EXCEPT !.deactivated = TRUE] ELSE user
  /\ Commit(h)

Answer(h) ==
  /\ stage[h] = "answer"
  /\ acked' = acked \cup {working[h]}
  /\ End(h)
  /\ UNCHANGED <<events, emitted, logged, user, handled, deliveries, bounds>>

\* Fault: the id stays although the event was not handled.
Undo_Forgotten(h) == UNCHANGED logged

\* The catch deletes the id, so that the next delivery is handled.
Undo(h) == logged' = logged \ {working[h]}

\* The insert meets a row made in the meantime.
InsertConflict(h) ==
  /\ stage[h] = "insert"
  /\ user.exists
  /\ Undo(h)
  /\ End(h)
  /\ UNCHANGED <<events, emitted, acked, user, handled, deliveries, bounds>>

\* The update meets the row that has the email, at every delivery.
EmailConflict(h) ==
  /\ stage[h] = "handle"
  /\ Event_(h).taken /\ user.clerkId = Event_(h).id
  /\ Undo(h)
  /\ End(h)
  /\ UNCHANGED <<events, emitted, acked, user, handled, deliveries, bounds>>

\* Any query fails, before its commit or, with the answer lost, after it.
Fail(h) ==
  /\ stage[h] # "idle"
  /\ failures < MaxFailures
  /\ failures' = failures + 1
  /\ Undo(h)
  /\ End(h)
  /\ UNCHANGED <<events, emitted, acked, user, handled, deliveries, crashes>>

\* The process ends, or deleting the id fails too: no 200, and the id stays.
HandlerCrashes(h) ==
  /\ stage[h] # "idle"
  /\ crashes < MaxCrashes
  /\ crashes' = crashes + 1
  /\ End(h)
  /\ UNCHANGED <<events, emitted, acked, logged, user, handled, deliveries,
                 failures>>

\* An administrator creates the account (routes/admin/accounts.ts).
CreateAccount ==
  /\ ~ user.exists
  /\ user' = Invited
  /\ UNCHANGED <<events, emitted, acked, logged, working, stage, handled,
                 deliveries, bounds>>

-----------------------------------------------------------------------------

Deliver(h, n) == Accept(h, n) \/ AlreadyProcessed(h, n)

Handle(h) ==
  \/ LookUpUser(h) \/ LinkUser(h) \/ InsertUser(h) \/ InsertConflict(h)
  \/ UpdateUser(h) \/ EmailConflict(h) \/ DeactivateUser(h) \/ Answer(h)

WebhookNext ==
  \/ Emit
  \/ CreateAccount
  \/ \E h \in Handlers, n \in 1 .. emitted : Deliver(h, n)
  \/ \E h \in Handlers : Handle(h) \/ Fail(h) \/ HandlerCrashes(h)

WebhookSpec == WebhookInit /\ [][WebhookNext]_webhookVars

Numbers == UNION {DOMAIN history : history \in Histories}

\* The provider keeps delivering each event, whatever becomes of the others (a
\* server has more handlers than are in the model: that they are all at work now
\* and then keeps no event out), and the runtime continues each handler.
FairWebhookSpec ==
  /\ WebhookSpec
  /\ \A n \in Numbers : SF_webhookVars(\E h \in Handlers : Deliver(h, n))
  /\ \A h \in Handlers : WF_webhookVars(Handle(h))

-----------------------------------------------------------------------------
(* Properties *)

\* An event that was answered with 200 was handled ("Roll back the idempotency
\* row so a Clerk retry will re-attempt"), or else a delivery of it was answered
\* while another was at work, or a request ended without rolling back: the
\* provider will not send it again.
NoEventLost == acked \subseteq handled \cup concurrent \/ crashes > 0

\* The claim of the code, for deliveries at a time as well: a second delivery
\* is answered 200 because the event is handled ("Race-safe: if a concurrent
\* request inserts first, we get P2002 and 200").
AnsweredIsHandled ==
  \A n \in acked : n \in handled \/ \E h \in Handlers : working[h] = n

\* Two deliveries of one event are never handled side by side ("Race-safe").
OneHandlerPerEvent ==
  \A g, h \in Handlers : g # h /\ working[g] = working[h] => working[g] = 0

\* What the idempotency rows guarantee: one request at a time handles an event,
\* and none that was answered is lost, but for the exceptions of NoEventLost.
WebhookInv == WebhookTypeOK /\ OneHandlerPerEvent /\ NoEventLost

\* What has happened is handled in the end, however often handling fails and
\* though an update to an email that another row has fails for ever, with the two
\* exceptions of NoEventLost.
EventsHandled ==
  \A n \in Numbers :
    emitted >= n /\ ~ events[n].taken
      ~> n \in handled \/ n \in concurrent \/ crashes > 0

LastEvent == events[Len(events)]
SignsUpOnce ==
  Cardinality({n \in DOMAIN events : events[n].type = "created"}) = 1

\* When every event was handled, in the order it happened, the row follows the
\* last one, whatever failed and was delivered again on the way: a deleted user
\* is deactivated, and the row has the last id.
RowFollowsEvents ==
  /\ 1 .. Len(events) \subseteq acked \cap handled
  /\ SignsUpOnce /\ ~ reordered /\ concurrent = {}
  => /\ user.exists
     /\ user.clerkId = LastEvent.id
     /\ user.deactivated = (LastEvent.type = "deleted")
     /\ LastEvent.type = "updated" => user.version = LastEvent.version
=============================================================================
