----------------------------- MODULE NodeStatus -----------------------------
(***************************************************************************)
(* The status of one probe, its "node_offline" alerts and their delivery:  *)
(* the frame readers of internal/server/hub/handlers.go                    *)
(* (markOnlineAudited), the loops detectOffline and deliverAlerts of       *)
(* internal/server/scheduler/scheduler.go, and the tables nodes, alerts    *)
(* and audit_logs of internal/server/store.  Each SQL statement or         *)
(* transaction is one step; the steps of different goroutines interleave.  *)
(*                                                                         *)
(* Times are kept as ages that stop growing once they can no longer be     *)
(* told apart.  A tick is 45 seconds.  A frame is handled within a tick    *)
(* (two or three local SQL statements), the other loops may take any time: *)
(* detectOffline walks all nodes, deliverAlerts calls remote services.     *)
(*                                                                         *)
(* Rows of `alerts` are never deleted, but one that is closed and          *)
(* delivered is not looked at again: its slot may be used for a new row.   *)
(***************************************************************************)
EXTENDS Integers, FiniteSets

CONSTANTS Readers,     \* read pumps that may carry frames of this probe
          Channels,    \* configured notifiers
          Window,      \* heartbeatWindow (90 s)
          Grace,       \* bootGrace (5 min)
          Dedupe,      \* dedupe window of CreateAlert (3600 s)
          Slots,       \* rows of `alerts` that matter at one time (a bound)
          NoSlot,      \* value of `took` when there is no row
          MaxRestarts  \* bound on server restarts

ASSUME TimesAssumption == Window \in Nat /\ Grace \in Nat /\ Dedupe \in Nat
ASSUME RestartsAssumption == MaxRestarts \in Nat
ASSUME NoSlotAssumption == NoSlot \notin Slots

VARIABLES
  accepting, \* the channels whose switches are on for this kind of alert
  status,    \* nodes.status
  silence,   \* age of nodes.last_seen, at most Window + 1
  uptime,    \* age of startedAt, at most Grace
  seen,      \* nodes.last_seen: "never", "before" this process or "since"
  frame,     \* per reader, the next statement of markOnlineAudited
  detect,    \* the next statement of detectOffline
  alerts,    \* the rows of this node, by slot
  queue,     \* deliverAlerts: the rows of its snapshot still to deliver
  took,      \* deliverAlerts: the row just delivered everywhere, or NoSlot
  sent,      \* history: what each channel took
  unaudited, \* history: edges of the status that have no audit row yet
  restarts   \* server restarts so far

node == <<status, silence, seen>>
delivery == <<queue, took, sent>>
vars == <<accepting, node, uptime, frame, detect, alerts, delivery, unaudited, restarts>>

Edges == {"online", "offline"}

Row(age) == [age |-> age, open |-> TRUE, delivered |-> FALSE]
AtMost(n, bound) == IF n > bound THEN bound ELSE n
Older(row) == [age |-> AtMost(row.age + 1, Dedupe + 1),
               open |-> row.open, delivered |-> row.delivered]

Init ==
  /\ accepting \in SUBSET Channels
  /\ status = "offline"
  /\ silence = 0
  /\ uptime = 0
  /\ seen = "never"
  /\ frame = [r \in Readers |-> "idle"]
  /\ detect = "idle"
  /\ alerts = [i \in {} |-> Row(0)]
  /\ queue = {}
  /\ took = NoSlot
  /\ sent = {}
  /\ unaudited = [e \in Edges |-> 0]
  /\ restarts = 0

Tick ==
  /\ \A r \in Readers : frame[r] = "idle"
  /\ silence' = AtMost(silence + 1, Window + 1)
  /\ uptime' = AtMost(uptime + 1, Grace)
  /\ alerts' = [i \in DOMAIN alerts |-> Older(alerts[i])]
  /\ UNCHANGED <<status, seen, frame, detect, delivery, unaudited, restarts>>

\* The history counts an edge wherever the status changes.
SetStatus(s) ==
  /\ status' = s
  /\ unaudited' = IF status = s THEN unaudited ELSE [unaudited EXCEPT ![s] = @ + 1]
Audit(edge) == unaudited' = [unaudited EXCEPT ![edge] = @ - 1]

(***************************************************************************)
(* hello and ping: markOnlineAudited.                                      *)
(***************************************************************************)
\* Mutant: the edge is told from the age of last_seen instead of the status.
WasOnlineByAge == silence <= Window
WasOnline == status = "online"

MarkNodeOnline(r) ==
  /\ frame[r] = "idle"
  /\ SetStatus("online")
  /\ silence' = 0
  /\ seen' = "since"
  /\ frame' = [frame EXCEPT ![r] = IF WasOnline THEN "idle" ELSE "audit"]
  /\ UNCHANGED <<uptime, detect, alerts, delivery, restarts>>

AuditNodeOnline(r) ==
  /\ frame[r] = "audit"
  /\ Audit("online")
  /\ frame' = [frame EXCEPT ![r] = "recover"]
  /\ UNCHANGED <<node, uptime, detect, alerts, delivery, restarts>>

\* Every open row of the kind is closed and put back in the delivery queue.
Recovered(row) ==
  IF row.open THEN [age |-> row.age, open |-> FALSE, delivered |-> FALSE] ELSE row

RecoverAlert(r) ==
  /\ frame[r] = "recover"
  /\ alerts' = [i \in DOMAIN alerts |-> Recovered(alerts[i])]
  /\ frame' = [frame EXCEPT ![r] = "idle"]
  /\ UNCHANGED <<node, uptime, detect, delivery, unaudited, restarts>>

(***************************************************************************)
(* The scheduler: detectOffline.                                           *)
(***************************************************************************)
\* A row last written before this process started is given bootGrace.
\* Mutant: the grace has no end.
EndlessGrace == seen # "since"
InBootGrace == uptime < Grace /\ seen # "since"

\* The verdict is taken on the row ListNodes returned.
ListNodes ==
  /\ detect = "idle"
  /\ status = "online" /\ ~InBootGrace /\ silence > Window
  /\ detect' = "mark"
  /\ UNCHANGED <<node, uptime, frame, alerts, delivery, unaudited, restarts>>

MarkNodeOffline ==
  /\ detect = "mark"
  /\ SetStatus("offline")
  /\ detect' = "audit"
  /\ UNCHANGED <<silence, seen, uptime, frame, alerts, delivery, restarts>>

AuditNodeOffline ==
  /\ detect = "audit"
  /\ Audit("offline")
  /\ detect' = "alert"
  /\ UNCHANGED <<node, uptime, frame, alerts, delivery, restarts>>

\* Mutant: a recovered row swallows the next outage as well.
DuplicateOfAny(row) == row.age < Dedupe
Duplicate(row) == row.open /\ row.age < Dedupe

Queued(i) == took = i \/ \E a \in queue : a.id = i
Unused(i) ==
  i \in DOMAIN alerts => ~alerts[i].open /\ alerts[i].delivered /\ ~Queued(i)

InsertAlert(i) ==
  /\ alerts' = [j \in DOMAIN alerts \cup {i} |-> IF j = i THEN Row(0) ELSE alerts[j]]
  /\ sent' = {n \in sent : n.id # i}

CreateAlert ==
  /\ detect = "alert"
  /\ \/ /\ \E i \in DOMAIN alerts : Duplicate(alerts[i])
        /\ UNCHANGED <<alerts, sent>>
     \/ /\ \A i \in DOMAIN alerts : ~Duplicate(alerts[i])
        /\ \E i \in Slots : Unused(i) /\ InsertAlert(i)
  /\ detect' = "idle"
  /\ UNCHANGED <<node, uptime, frame, queue, took, unaudited, restarts>>

(***************************************************************************)
(* The scheduler: deliverAlerts.                                           *)
(***************************************************************************)
EventOf(row) == IF row.open THEN "alert" ELSE "recovery"

\* The pass works on the rows as they were when it listed them.
UndeliveredAlerts ==
  /\ queue = {} /\ took = NoSlot
  /\ queue' = {[id |-> i, event |-> EventOf(alerts[i])] :
                 i \in {j \in DOMAIN alerts : ~alerts[j].delivered}}
  /\ queue' # {}
  /\ UNCHANGED <<node, uptime, frame, detect, alerts, took, sent, unaudited, restarts>>

\* deliverOne leaves a row in the table's queue iff an accepting channel failed.
\* Mutant: a row no channel accepted stays as well.
DoneIfSent(ok) == ok # {} /\ ok = accepting
\* Mutant: one channel is enough.
DoneIfAnySent(ok) == ok # {} \/ accepting = {}
Done(ok) == ok = accepting

DeliverOne(a, ok) ==
  /\ took = NoSlot
  /\ sent' = sent \cup {[id |-> a.id, event |-> a.event, ch |-> ch] : ch \in ok}
  /\ took' = IF Done(ok) THEN a.id ELSE NoSlot
  /\ queue' = queue \ {a}
  /\ UNCHANGED <<node, uptime, frame, detect, alerts, unaudited, restarts>>

Delivered(row) == [age |-> row.age, open |-> row.open, delivered |-> TRUE]

MarkAlertDelivered ==
  /\ took # NoSlot
  /\ alerts' = [alerts EXCEPT ![took] = Delivered(@)]
  /\ took' = NoSlot
  /\ UNCHANGED <<node, uptime, frame, detect, queue, sent, unaudited, restarts>>

\* The panel stops anywhere: only the tables are left.
Restart ==
  /\ restarts < MaxRestarts
  /\ restarts' = restarts + 1
  /\ uptime' = 0
  /\ seen' = IF seen = "never" THEN "never" ELSE "before"
  /\ frame' = [r \in Readers |-> "idle"]
  /\ detect' = "idle"
  /\ queue' = {} /\ took' = NoSlot
  /\ unaudited' = [e \in Edges |-> 0]
  /\ UNCHANGED <<status, silence, alerts, sent>>

Deliver(a) == \E ok \in SUBSET accepting : DeliverOne(a, ok)

MarkOnlineAudited(r) == MarkNodeOnline(r) \/ AuditNodeOnline(r) \/ RecoverAlert(r)
DetectOffline == ListNodes \/ MarkNodeOffline \/ AuditNodeOffline \/ CreateAlert
DeliverAlerts ==
  \/ UndeliveredAlerts
  \/ \E a \in queue : Deliver(a)
  \/ MarkAlertDelivered

\* The switches are left alone: the panel may be told to change them at any
\* time, but what each setting promises is about the time it lasts.
Next ==
  /\ UNCHANGED accepting
  /\ \/ Tick
     \/ \E r \in Readers : MarkOnlineAudited(r)
     \/ DetectOffline
     \/ DeliverAlerts
     \/ Restart

Spec == Init /\ [][Next]_vars

\* A frame that is being handled is finished, the tickers of the scheduler and
\* the clock go on, and a channel that is tried forever works again and again.
AllTake(a) == DeliverOne(a, accepting)
FairSpec ==
  /\ Spec
  /\ WF_vars(Tick /\ UNCHANGED accepting)
  /\ WF_vars(DetectOffline /\ UNCHANGED accepting)
  /\ WF_vars(DeliverAlerts /\ UNCHANGED accepting)
  /\ \A r \in Readers :
       WF_vars((AuditNodeOnline(r) \/ RecoverAlert(r)) /\ UNCHANGED accepting)
  /\ \A i \in Slots :
       SF_vars((\E a \in queue : a.id = i /\ AllTake(a)) /\ UNCHANGED accepting)

(***************************************************************************)
(* Properties.                                                             *)
(***************************************************************************)
TypeOK ==
  /\ accepting \subseteq Channels
  /\ status \in {"online", "offline"}
  /\ silence \in 0..(Window + 1)
  /\ uptime \in 0..Grace
  /\ seen \in {"never", "before", "since"}
  /\ frame \in [Readers -> {"idle", "audit", "recover"}]
  /\ detect \in {"idle", "mark", "audit", "alert"}
  /\ DOMAIN alerts \subseteq Slots
  /\ alerts = [i \in DOMAIN alerts |-> alerts[i]]
  /\ \A i \in DOMAIN alerts :
       alerts[i] \in [age : 0..(Dedupe + 1), open : BOOLEAN, delivered : BOOLEAN]
  /\ queue \subseteq [id : DOMAIN alerts, event : {"alert", "recovery"}]
  /\ took \in {NoSlot} \cup DOMAIN alerts
  /\ sent \subseteq [id : DOMAIN alerts, event : {"alert", "recovery"}, ch : Channels]
  /\ unaudited \in [Edges -> Int]
  /\ restarts \in 0..MaxRestarts

\* Every edge of the status has exactly one audit row, written or still to be
\* written by the goroutine that made the edge, however many read pumps carry
\* frames of the probe (design 4.4: only transitions are recorded).
EveryEdgeAudited ==
  /\ unaudited["online"] = Cardinality({r \in Readers : frame[r] = "audit"})
  /\ unaudited["offline"] = IF detect = "audit" THEN 1 ELSE 0

\* A probe that went offline has an open alert once its sweep is over: the
\* dedupe never swallows a new outage (CreateAlert skips only open rows).
OutageHasOpenAlert ==
  status = "offline" /\ detect = "idle" /\ seen # "never" =>
    \E i \in DOMAIN alerts : alerts[i].open

\* An alert that is open and counts as delivered was taken by every channel
\* that accepts alerts: one healthy channel does not hide a failed one.
DeliveredMeansTaken ==
  \A i \in DOMAIN alerts : alerts[i].open /\ alerts[i].delivered =>
    \A ch \in accepting : [id |-> i, event |-> "alert", ch |-> ch] \in sent

\* A probe that stays silent goes offline: bootGrace only delays the verdict.
SilentGoesOffline == (status = "online" /\ silence > Window) ~> (status = "offline" \/ silence = 0)

Undelivered(i) == i \in DOMAIN alerts /\ ~alerts[i].delivered

\* Every alert leaves the delivery queue, also one that no channel accepts.
QueueDrains == \A i \in Slots : Undelivered(i) ~> ~Undelivered(i)

Quiet == detect = "idle" /\ (\A r \in Readers : frame[r] = "idle") /\ queue = {} /\ took = NoSlot

\* What detectOffline's comment says ("Recovery notice when it comes back"): no
\* alert stays open once the probe is online and no step is pending.
OnlineHasNoOpenAlert ==
  Quiet /\ status = "online" => \A i \in DOMAIN alerts : ~alerts[i].open
=============================================================================
