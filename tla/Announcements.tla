--------------------------- MODULE Announcements ----------------------------
(***************************************************************************)
(* Community updates (routes/admin/community.ts) and emergency broadcasts  *)
(* (routes/admin/broadcast.ts), beside the accounts and groups that they   *)
(* are for.                                                                *)
(*                                                                         *)
(* Either is inserted first.  Who is told is then a query of its own, and  *)
(* who sees it in the feed is another, asked whenever the feed is opened;  *)
(* nothing but this order keeps the two together.                          *)
(***************************************************************************)
EXTENDS VisitorGroups

CONSTANTS Updates,    \* the updates and broadcasts that may be published
          Targets,    \* what an update may be targeted at; a list of users may
                      \* name one more than once
          Broadcast,  \* the target of an emergency broadcast
          NoTarget,   \* of an update that is not published
          Chunk       \* recipients of a broadcast that are mailed at a time

ASSUME AnnouncementsAssumption ==
  /\ Targets \subseteq [type : {"COMMUNITY_WIDE"}]
               \cup [type : {"ROLE"}, role : Roles]
               \cup [type : {"VISITOR_GROUP"}, group : Groups]
               \cup [type : {"SPECIFIC_USERS"}, users : [Users -> Nat]]
  /\ Broadcast.type = "COMMUNITY_WIDE" /\ Broadcast \notin Targets
  /\ NoTarget \notin Targets \cup {Broadcast}
  /\ Chunk \in Nat \ {0} /\ IsFiniteSet(Users)

VARIABLES target,        \* of each update published
          publishing,    \* where the handler that publishes it is
          toTell,        \* the recipients it has to tell, and how often each
          told,          \* how often each user was notified or mailed
          count,         \* of a broadcast: recipients, mails sent and failed
          audited        \* the broadcasts whose counts are in the audit log

updateVars == <<target, publishing, toTell, told, count, audited>>
announcementVars == <<groupVars, updateVars>>

Nobody == [u \in Users |-> 0]

AnnouncementsTypeOK ==
  /\ target \in [Updates -> Targets \cup {Broadcast, NoTarget}]
  /\ publishing \in [Updates -> {"idle", "created", "telling", "mailing", "ended"}]
  /\ toTell \in [Updates -> [Users -> Nat]]
  /\ told \in [Updates -> [Users -> Nat]]
  /\ count \in [Updates -> [total : Nat, sent : Nat, failed : Nat]]
  /\ audited \subseteq Updates
  /\ \A k \in Updates : target[k] = NoTarget =>
       publishing[k] = "idle" /\ told[k] = Nobody

UpdatesInit ==
  /\ target = [k \in Updates |-> NoTarget]
  /\ publishing = [k \in Updates |-> "idle"]
  /\ toTell = [k \in Updates |-> Nobody]
  /\ told = [k \in Updates |-> Nobody]
  /\ count = [k \in Updates |-> [total |-> 0, sent |-> 0, failed |-> 0]]
  /\ audited = {}

-----------------------------------------------------------------------------
(* The feed *)

Admins == {"MASTER_ADMIN", "ADMIN"}

\* getUpdatesWithAcknowledgements: what an update's target lets a user see.
Shows(t, u) ==
  \/ role[u] \in Admins
  \/ t.type = "COMMUNITY_WIDE"
  \/ t.type = "ROLE" /\ t.role = role[u]
  \/ t.type = "VISITOR_GROUP" /\ t.group \in ActiveGroups(u)
  \/ t.type = "SPECIFIC_USERS" /\ t.users[u] > 0

Feed(u) == {k \in Updates : target[k] # NoTarget /\ Shows(target[k], u)}

-----------------------------------------------------------------------------
(* POST /admin/community/updates *)

\* A group must exist (foreign key); it may be archived.
createUpdate(k, t) ==
  /\ target[k] = NoTarget
  /\ t.type = "VISITOR_GROUP" => groups[t.group] # "none"
  /\ target' = [target EXCEPT ![k] = t]
  /\ publishing' = [publishing EXCEPT ![k] = "created"]
  /\ UNCHANGED <<groupVars, toTell, told, count, audited>>

\* Fault: an update for a group is announced to all visitors.
Recipients_AllVisitors(t) ==
  [u \in Users |->
     CASE t.type = "COMMUNITY_WIDE" -> IF role[u] \in {"RESIDENT", "VISITOR"} THEN 1 ELSE 0
       [] t.type = "ROLE"           -> IF role[u] = t.role THEN 1 ELSE 0
       [] t.type = "VISITOR_GROUP"  -> IF role[u] = "VISITOR" THEN 1 ELSE 0
       [] t.type = "SPECIFIC_USERS" -> t.users[u]]

\* Who an update is announced to, and how often: a member of a group for each row,
\* and a user of a list each time that it names the user.
Recipients(t) ==
  [u \in Users |->
     CASE t.type = "COMMUNITY_WIDE" -> IF role[u] \in {"RESIDENT", "VISITOR"} THEN 1 ELSE 0
       [] t.type = "ROLE"           -> IF role[u] = t.role THEN 1 ELSE 0
       [] t.type = "VISITOR_GROUP"  -> memberships[t.group, u]
       [] t.type = "SPECIFIC_USERS" -> t.users[u]]

readRecipients(k) ==
  /\ publishing[k] = "created"
  /\ target[k] # Broadcast
  /\ toTell' = [toTell EXCEPT ![k] = Recipients(target[k])]
  /\ publishing' = [publishing EXCEPT ![k] = "telling"]
  /\ UNCHANGED <<groupVars, target, told, count, audited>>

\* notifyAllOfRole inserts all rows or none; the members of a group and specific
\* users have an insert each, of which any may fail, as it does for an unknown id.
Deliveries(k) ==
  IF target[k].type \in {"COMMUNITY_WIDE", "ROLE"} THEN {toTell[k], Nobody}
  ELSE {d \in [Users -> UNION {0 .. toTell[k][u] : u \in Users}] :
          \A u \in Users : d[u] <= toTell[k][u] /\ (role[u] = "none" => d[u] = 0)}

EndPublish(k) ==
  /\ publishing' = [publishing EXCEPT ![k] = "ended"]
  /\ toTell' = [toTell EXCEPT ![k] = Nobody]
  /\ UNCHANGED <<groupVars, target>>

tell(k) ==
  /\ publishing[k] = "telling"
  /\ \E d \in Deliveries(k) : told' = [told EXCEPT ![k] = d]
  /\ EndPublish(k)
  /\ UNCHANGED <<count, audited>>

\* The read fails, or the process ends.
failPublish(k) ==
  /\ publishing[k] \in {"created", "mailing"}
  /\ EndPublish(k)
  /\ UNCHANGED <<told, count, audited>>

-----------------------------------------------------------------------------
(* POST /admin/broadcast/send *)

createBroadcast(k) ==
  /\ target[k] = NoTarget
  /\ target' = [target EXCEPT ![k] = Broadcast]
  /\ publishing' = [publishing EXCEPT ![k] = "created"]
  /\ UNCHANGED <<groupVars, toTell, told, count, audited>>

readActive(k) ==
  /\ publishing[k] = "created"
  /\ target[k] = Broadcast
  /\ toTell' = [toTell EXCEPT ![k] = [u \in Users |-> IF u \in active THEN 1 ELSE 0]]
  /\ count' = [count EXCEPT ![k].total = Cardinality(active)]
  /\ publishing' = [publishing EXCEPT ![k] = "mailing"]
  /\ UNCHANGED <<groupVars, target, told, audited>>

Remaining(k) == {u \in Users : toTell[k][u] > 0}

\* Some recipients of the size of a chunk, in the order of no query.
Chunks(k) ==
  {users \in SUBSET Remaining(k) :
     \/ Cardinality(users) = Chunk
     \/ Cardinality(users) < Chunk /\ users = Remaining(k)}

\* What the sends of a chunk come to: mails that were sent, that failed, and the
\* rest, whose send threw.
MailChunk(k, chunk, sent, failed) ==
  /\ publishing[k] = "mailing"
  /\ chunk # {}
  /\ sent \cap failed = {}
  /\ told' = [told EXCEPT ![k] = [u \in Users |-> IF u \in sent THEN @[u] + 1 ELSE @[u]]]
  /\ count' = [count EXCEPT ![k].sent = @ + Cardinality(sent),
                            ![k].failed = @ + Cardinality(failed)]
  /\ UNCHANGED audited

NextChunk(k, chunk) ==
  /\ toTell' = [toTell EXCEPT ![k] = [u \in Users |-> IF u \in chunk THEN 0 ELSE @[u]]]
  /\ UNCHANGED <<groupVars, target, publishing>>

\* Fault: the sends that throw are waited for, and not counted.
mail_Settled(k) ==
  \E chunk \in Chunks(k) : \E sent, failed \in SUBSET chunk :
    MailChunk(k, chunk, sent, failed) /\ NextChunk(k, chunk)

\* One send that throws rejects Promise.all, and with it the handler: the chunks
\* that are left are not mailed.
mail(k) ==
  \E chunk \in Chunks(k) : \E sent, failed \in SUBSET chunk :
    /\ MailChunk(k, chunk, sent, failed)
    /\ IF sent \cup failed = chunk THEN NextChunk(k, chunk) ELSE EndPublish(k)

writeAudit(k) ==
  /\ publishing[k] = "mailing"
  /\ Remaining(k) = {}
  /\ audited' = audited \cup {k}
  /\ EndPublish(k)
  /\ UNCHANGED <<told, count>>

-----------------------------------------------------------------------------

Publishing ==
  \E k \in Updates :
    \/ \E t \in Targets : createUpdate(k, t)
    \/ readRecipients(k)
    \/ tell(k)
    \/ failPublish(k)
    \/ createBroadcast(k)
    \/ readActive(k)
    \/ mail(k)
    \/ writeAudit(k)

AnnouncementsInit == GroupsInit /\ UpdatesInit

AnnouncementsNext ==
  \/ Administration /\ UNCHANGED updateVars
  \/ Publishing

AnnouncementsSpec ==
  AnnouncementsInit /\ [][AnnouncementsNext]_announcementVars

-----------------------------------------------------------------------------
(* Properties *)

\* Whoever an update is announced to, or a broadcast mailed to, can see it: when
\* the recipients are read the row is in the feed of each.  Only the members of
\* an archived group are told of what the feed does not show them.
SeesWhatToldOf ==
  [][\A k \in Updates, u \in Users :
       publishing[k] = "created" /\ toTell'[k][u] > 0 /\ role[u] # "none" =>
         \/ k \in Feed(u)
         \/ /\ target[k].type = "VISITOR_GROUP"
            /\ groups[target[k].group] = "archived"]_announcementVars

\* How often an update may reach a user: each time its list names the user; as
\* often as requests had put the user into its group together; any other once.
Times(t, u) ==
  CASE t.type = "SPECIFIC_USERS" -> t.users[u]
    [] t.type = "VISITOR_GROUP"  -> together[t.group, u]
    [] OTHER                     -> 1

\* Nobody is notified of an update more often than the update allows: the wide
\* ones and the broadcasts, whose mails are sent in chunks, reach a user once, a
\* group's reach a member once that was put there once, and only a list that
\* names a user twice reaches the user twice (community.ts).
NotifiedAsNamed ==
  \A k \in Updates, u \in Users :
    target[k] # NoTarget => told[k][u] <= Times(target[k], u)

\* A broadcast whose counts are in the audit log reached every recipient it
\* counts: each was mailed or counted as failed, and those counted as sent were
\* mailed (broadcast.ts: "the audit row records both").
AuditCountsEveryone ==
  \A k \in audited :
    /\ count[k].sent + count[k].failed = count[k].total
    /\ Cardinality({u \in Users : told[k][u] > 0}) = count[k].sent

\* Who was told, mailed and counted, of every update and broadcast.
AnnouncementsInv ==
  /\ GroupsTypeOK
  /\ AnnouncementsTypeOK
  /\ NotifiedAsNamed
  /\ AuditCountsEveryone
=============================================================================
