------------------------- MODULE NodeStatus_proofs -------------------------
(***************************************************************************)
(* Safety of the status and alert pipeline for any windows, any number of  *)
(* read pumps, channels and alert rows.                                    *)
(***************************************************************************)
EXTENDS NodeStatus, FiniteSetTheorems, TLAPS

\* What deliverAlerts remembers of a row is still true of it: a row listed as
\* recovered stays closed, and the row about to be marked was taken by all.
DeliveryInv ==
  /\ \A a \in queue : a.event = "recovery" => ~alerts[a.id].open
  /\ took # NoSlot => (alerts[took].open =>
       \A ch \in accepting : [id |-> took, event |-> "alert", ch |-> ch] \in sent)
  /\ DeliveredMeansTaken

\* A frame that found the probe offline is over before a tick, hence before
\* the next verdict: no up-edge is pending while the probe is offline.
FramesInv ==
  /\ status = "offline" \/ detect = "mark" \/ silence > 0 =>
       \A r \in Readers : frame[r] = "idle"
  /\ detect = "mark" => status = "online"

\* At most one goroutine has an edge to audit.
AuditInv ==
  /\ EveryEdgeAudited
  /\ \A r1, r2 \in Readers : frame[r1] = "audit" /\ frame[r2] = "audit" => r1 = r2

\* Between MarkNodeOffline and CreateAlert the outage has no alert yet.
OutageInv ==
  status = "offline" /\ seen # "never" =>
    detect \in {"audit", "alert"} \/ \E i \in DOMAIN alerts : alerts[i].open

Alerts == [age : 0..(Dedupe + 1), open : BOOLEAN, delivered : BOOLEAN]

LEMMA AtMostRange ==
  ASSUME NEW n \in Nat, NEW bound \in Nat PROVE AtMost(n, bound) \in 0..bound
BY DEF AtMost

\* The helpers on rows keep their type.
LEMMA RowTypes ==
  /\ Row(0) \in Alerts
  /\ \A row \in Alerts : Older(row) \in Alerts /\ Recovered(row) \in Alerts /\ Delivered(row) \in Alerts
<1>1. Row(0) \in Alerts
  BY TimesAssumption DEF Row, Alerts
<1>2. ASSUME NEW row \in Alerts PROVE Older(row) \in Alerts
  <2>1. row.age + 1 \in Nat /\ Dedupe + 1 \in Nat
    BY TimesAssumption DEF Alerts
  <2>2. AtMost(row.age + 1, Dedupe + 1) \in 0..(Dedupe + 1)
    BY <2>1, AtMostRange
  <2> QED
    BY <2>2 DEF Older, Alerts
<1>3. ASSUME NEW row \in Alerts PROVE Recovered(row) \in Alerts
  BY DEF Recovered, Alerts
<1>4. ASSUME NEW row \in Alerts PROVE Delivered(row) \in Alerts
  BY DEF Delivered, Alerts
<1> QED
  BY <1>1, <1>2, <1>3, <1>4

LEMMA TypeInit == Init => TypeOK
<1> SUFFICES ASSUME Init PROVE TypeOK
  OBVIOUS
<1>1. DOMAIN alerts = {}
  BY DEF Init
<1>2. restarts \in 0..MaxRestarts
  BY RestartsAssumption DEF Init
<1>3. alerts = [i \in DOMAIN alerts |-> alerts[i]]
  BY DEF Init
<1> QED
  BY <1>1, <1>2, <1>3, TimesAssumption DEF Init, TypeOK, Edges

LEMMA TypeStep == TypeOK /\ [Next]_vars => TypeOK'
<1> SUFFICES ASSUME TypeOK, [Next]_vars PROVE TypeOK'
  OBVIOUS
<1>a. accepting' = accepting
  BY DEF Next, vars
<1> USE <1>a, TimesAssumption, NoSlotAssumption DEF TypeOK, node, delivery, Alerts
<1>1. CASE Tick
  <2>1. silence' \in 0..(Window + 1) /\ uptime' \in 0..Grace
    BY <1>1 DEF Tick, AtMost
  <2>2. \A i \in DOMAIN alerts : Older(alerts[i]) \in Alerts
    BY RowTypes
  <2>3. DOMAIN alerts' = DOMAIN alerts
    BY <1>1 DEF Tick
  <2>4. \A i \in DOMAIN alerts' : alerts'[i] \in Alerts
    BY <1>1, <2>2 DEF Tick
  <2>5. alerts' = [i \in DOMAIN alerts' |-> alerts'[i]]
    BY <1>1 DEF Tick
  <2> QED
    BY <1>1, <2>1, <2>3, <2>4, <2>5 DEF Tick
<1>2. ASSUME NEW r \in Readers, MarkNodeOnline(r) PROVE TypeOK'
  BY <1>2 DEF MarkNodeOnline, SetStatus, Edges
<1>3. ASSUME NEW r \in Readers, AuditNodeOnline(r) PROVE TypeOK'
  BY <1>3 DEF AuditNodeOnline, Audit, Edges
<1>4. ASSUME NEW r \in Readers, RecoverAlert(r) PROVE TypeOK'
  <2>1. \A i \in DOMAIN alerts : Recovered(alerts[i]) \in Alerts
    BY RowTypes
  <2> QED
    BY <1>4, <2>1 DEF RecoverAlert
<1>5. CASE ListNodes
  BY <1>5 DEF ListNodes
<1>6. CASE MarkNodeOffline
  BY <1>6 DEF MarkNodeOffline, SetStatus, Edges
<1>7. CASE AuditNodeOffline
  BY <1>7 DEF AuditNodeOffline, Audit, Edges
<1>8. CASE CreateAlert
  <2>1. CASE UNCHANGED <<alerts, sent>>
    BY <1>8, <2>1 DEF CreateAlert
  <2>2. ASSUME NEW i \in Slots, Unused(i), InsertAlert(i) PROVE TypeOK'
    <3>1. DOMAIN alerts' = DOMAIN alerts \cup {i}
      BY <2>2 DEF InsertAlert
    <3>2. \A j \in DOMAIN alerts' : alerts'[j] \in Alerts
      BY <2>2, RowTypes DEF InsertAlert
    <3>3. sent' \subseteq sent
      BY <2>2 DEF InsertAlert
    <3>4. alerts' = [j \in DOMAIN alerts' |-> alerts'[j]]
      BY <2>2 DEF InsertAlert
    <3> QED
      BY <1>8, <3>1, <3>2, <3>3, <3>4 DEF CreateAlert
  <2> QED
    BY <1>8, <2>1, <2>2 DEF CreateAlert
<1>9. CASE UndeliveredAlerts
  <2>1. queue' \subseteq [id : DOMAIN alerts, event : {"alert", "recovery"}]
    BY <1>9 DEF UndeliveredAlerts, EventOf
  <2> QED
    BY <1>9, <2>1 DEF UndeliveredAlerts
<1>10. ASSUME NEW a \in queue, NEW ok \in SUBSET accepting, DeliverOne(a, ok)
       PROVE TypeOK'
  <2>1. a.id \in DOMAIN alerts /\ a.event \in {"alert", "recovery"} /\ ok \subseteq Channels
    OBVIOUS
  <2>2. sent' \subseteq [id : DOMAIN alerts, event : {"alert", "recovery"}, ch : Channels]
    BY <1>10, <2>1 DEF DeliverOne
  <2>3. took' \in {NoSlot} \cup DOMAIN alerts /\ queue' \subseteq queue
    BY <1>10, <2>1 DEF DeliverOne
  <2> QED
    BY <1>10, <2>2, <2>3 DEF DeliverOne
<1>11. CASE MarkAlertDelivered
  <2>1. \A i \in DOMAIN alerts : Delivered(alerts[i]) \in Alerts
    BY RowTypes
  <2> QED
    BY <1>11, <2>1 DEF MarkAlertDelivered
<1>12. CASE Restart
  BY <1>12, RestartsAssumption DEF Restart, Edges
<1>13. CASE UNCHANGED vars
  BY <1>13 DEF vars
<1> HIDE DEF TypeOK
<1> QED
  BY <1>1, <1>2, <1>3, <1>4, <1>5, <1>6, <1>7, <1>8, <1>9, <1>10, <1>11, <1>12, <1>13
     DEF Next, MarkOnlineAudited, DetectOffline, DeliverAlerts, Deliver

\* Every variable of the status and alert pipeline keeps its type.
THEOREM TypeCorrect == Spec => []TypeOK
BY TypeInit, TypeStep, PTL DEF Spec

LEMMA DeliveryInit == Init => DeliveryInv
BY DEF Init, DeliveryInv, DeliveredMeansTaken

LEMMA DeliveryStep == TypeOK /\ DeliveryInv /\ [Next]_vars => DeliveryInv'
<1> SUFFICES ASSUME TypeOK, DeliveryInv, [Next]_vars PROVE DeliveryInv'
  OBVIOUS
<1>a. accepting' = accepting
  BY DEF Next, vars
<1> USE <1>a, NoSlotAssumption DEF DeliveryInv, DeliveredMeansTaken, delivery
<1> DEFINE Taken(i) == \A ch \in accepting : [id |-> i, event |-> "alert", ch |-> ch] \in sent
<1>0. /\ \A a \in queue : a.id \in DOMAIN alerts /\ a.event \in {"alert", "recovery"}
      /\ took # NoSlot => took \in DOMAIN alerts
      /\ \A i \in DOMAIN alerts : alerts[i] \in Alerts
  BY DEF TypeOK, Alerts
<1>1. CASE Tick
  BY <1>0, <1>1 DEF Tick, Older
<1>4. ASSUME NEW r \in Readers, RecoverAlert(r) PROVE DeliveryInv'
  BY <1>0, <1>4 DEF RecoverAlert, Recovered
<1>8. CASE CreateAlert
  <2>1. CASE UNCHANGED <<alerts, sent>>
    BY <1>8, <2>1 DEF CreateAlert
  <2>2. ASSUME NEW i \in Slots, Unused(i), InsertAlert(i) PROVE DeliveryInv'
    <3>1. queue' = queue /\ took' = took
      BY <1>8 DEF CreateAlert
    <3>2. took # i /\ \A a \in queue : a.id # i
      <4>1. CASE i \in DOMAIN alerts
        BY <2>2, <4>1 DEF Unused, Queued
      <4>2. CASE i \notin DOMAIN alerts
        BY <1>0, <4>2
      <4> QED
        BY <4>1, <4>2
    <3>3. /\ alerts'[i].delivered = FALSE
          /\ \A j \in DOMAIN alerts : j # i => alerts'[j] = alerts[j]
          /\ DOMAIN alerts' = DOMAIN alerts \cup {i}
      BY <2>2 DEF InsertAlert, Row
    <3>4. \A n \in sent : n.id # i => n \in sent'
      BY <2>2 DEF InsertAlert
    <3>5. \A j \in DOMAIN alerts : j # i /\ Taken(j) => Taken(j)'
      BY <3>4
    <3> QED
      BY <1>0, <3>1, <3>2, <3>3, <3>5
  <2> QED
    BY <1>8, <2>1, <2>2 DEF CreateAlert
<1>9. CASE UndeliveredAlerts
  <2>1. \A a \in queue' : a.event = "recovery" => ~alerts[a.id].open
    BY <1>9 DEF UndeliveredAlerts, EventOf
  <2> QED
    BY <1>9, <2>1 DEF UndeliveredAlerts
<1>10. ASSUME NEW a \in queue, NEW ok \in SUBSET accepting, DeliverOne(a, ok)
       PROVE DeliveryInv'
  <2>1. sent \subseteq sent' /\ alerts' = alerts /\ queue' \subseteq queue
    BY <1>10 DEF DeliverOne
  <2>2. took' # NoSlot => took' = a.id /\ ok = accepting
    BY <1>10 DEF DeliverOne, Done
  <2>3. took' # NoSlot /\ alerts[a.id].open => a.event = "alert"
    BY <1>0
  <2>4. took' # NoSlot /\ alerts[a.id].open => Taken(a.id)'
    BY <1>10, <2>2, <2>3 DEF DeliverOne
  <2> QED
    BY <2>1, <2>2, <2>4
<1>11. CASE MarkAlertDelivered
  <2>1. /\ queue' = queue /\ took' = NoSlot /\ sent' = sent
        /\ DOMAIN alerts' = DOMAIN alerts
        /\ \A i \in DOMAIN alerts : alerts'[i].open = alerts[i].open
        /\ \A i \in DOMAIN alerts : i # took => alerts'[i] = alerts[i]
    BY <1>0, <1>11 DEF MarkAlertDelivered, Delivered
  <2> QED
    BY <1>0, <1>11, <2>1 DEF MarkAlertDelivered
<1>12. CASE Restart
  BY <1>12 DEF Restart
<1>13. CASE UNCHANGED <<alerts, delivery>>
  BY <1>13
<1>14. ASSUME NEW r \in Readers, MarkNodeOnline(r) \/ AuditNodeOnline(r)
       PROVE UNCHANGED <<alerts, delivery>>
  BY <1>14 DEF MarkNodeOnline, AuditNodeOnline
<1>15. CASE ListNodes \/ MarkNodeOffline \/ AuditNodeOffline \/ UNCHANGED vars
  BY <1>13, <1>15 DEF ListNodes, MarkNodeOffline, AuditNodeOffline, vars
<1> HIDE DEF DeliveryInv
<1> QED
  BY <1>1, <1>4, <1>8, <1>9, <1>10, <1>11, <1>12, <1>13, <1>14, <1>15
     DEF Next, MarkOnlineAudited, DetectOffline, DeliverAlerts, Deliver

\* An open alert that counts as delivered was taken by every channel that
\* accepts alerts, for any number of channels, alerts and restarts.
THEOREM NoFailedChannelIsHidden == Spec => []DeliveredMeansTaken
<1>1. DeliveryInv => DeliveredMeansTaken
  BY DEF DeliveryInv
<1> QED
  BY <1>1, TypeInit, TypeStep, DeliveryInit, DeliveryStep, PTL DEF Spec

LEMMA FramesInit == Init => FramesInv
BY DEF Init, FramesInv

LEMMA FramesStep == TypeOK /\ FramesInv /\ [Next]_vars => FramesInv'
<1> SUFFICES ASSUME TypeOK, FramesInv, [Next]_vars PROVE FramesInv'
  OBVIOUS
<1> USE DEF FramesInv, node
<1>0. silence \in Nat /\ Window \in Nat /\ frame \in [Readers -> {"idle", "audit", "recover"}]
  BY TimesAssumption DEF TypeOK
<1>1. CASE Tick
  BY <1>1 DEF Tick
<1>2. ASSUME NEW r \in Readers, MarkNodeOnline(r) PROVE FramesInv'
  <2>1. status' = "online" /\ silence' = 0 /\ detect' = detect
    BY <1>2 DEF MarkNodeOnline, SetStatus
  <2>2. detect = "mark" => frame' = frame
    BY <1>0, <1>2 DEF MarkNodeOnline, WasOnline
  <2> QED
    BY <2>1, <2>2
<1>3. ASSUME NEW r \in Readers, AuditNodeOnline(r) \/ RecoverAlert(r) PROVE FramesInv'
  BY <1>3 DEF AuditNodeOnline, RecoverAlert
<1>5. CASE ListNodes
  BY <1>0, <1>5 DEF ListNodes
<1>6. CASE MarkNodeOffline
  BY <1>6 DEF MarkNodeOffline, SetStatus
<1>7. CASE AuditNodeOffline \/ CreateAlert
  BY <1>7 DEF AuditNodeOffline, CreateAlert
<1>12. CASE Restart
  BY <1>12 DEF Restart
<1>13. CASE UNCHANGED <<status, silence, frame, detect>>
  BY <1>13
<1>14. CASE UndeliveredAlerts \/ MarkAlertDelivered \/ UNCHANGED vars
  BY <1>13, <1>14 DEF UndeliveredAlerts, MarkAlertDelivered, vars
<1>15. ASSUME NEW a \in queue, NEW ok \in SUBSET accepting, DeliverOne(a, ok)
       PROVE FramesInv'
  BY <1>13, <1>15 DEF DeliverOne
<1> HIDE DEF FramesInv
<1> QED
  BY <1>1, <1>2, <1>3, <1>5, <1>6, <1>7, <1>12, <1>14, <1>15
     DEF Next, MarkOnlineAudited, DetectOffline, DeliverAlerts, Deliver

LEMMA AuditInit == Init => AuditInv
<1> SUFFICES ASSUME Init PROVE AuditInv
  OBVIOUS
<1>1. {r \in Readers : frame[r] = "audit"} = {}
  BY DEF Init
<1> QED
  BY <1>1, FS_EmptySet DEF Init, AuditInv, EveryEdgeAudited, Edges

LEMMA AuditStep == TypeOK /\ FramesInv /\ AuditInv /\ [Next]_vars => AuditInv'
<1> SUFFICES ASSUME TypeOK, FramesInv, AuditInv, [Next]_vars PROVE AuditInv'
  OBVIOUS
<1> USE DEF AuditInv, EveryEdgeAudited, node
<1> DEFINE Auditing == {r \in Readers : frame[r] = "audit"}
<1>0. /\ frame \in [Readers -> {"idle", "audit", "recover"}]
      /\ status \in Edges
      /\ unaudited \in [Edges -> Int]
  BY DEF TypeOK, Edges
<1>1. CASE Tick
  BY <1>1 DEF Tick
<1>2. ASSUME NEW r \in Readers, MarkNodeOnline(r) PROVE AuditInv'
  <2>1. CASE status = "online"
    <3>1. frame' = frame /\ unaudited' = unaudited /\ detect' = detect
      BY <1>0, <1>2, <2>1 DEF MarkNodeOnline, SetStatus, WasOnline
    <3> QED
      BY <3>1
  <2>2. CASE status = "offline"
    <3>1. Auditing = {}
      BY <2>2 DEF FramesInv
    <3>2. /\ frame' = [frame EXCEPT ![r] = "audit"] /\ detect' = detect
          /\ unaudited' = [unaudited EXCEPT !["online"] = @ + 1]
      BY <1>0, <1>2, <2>2 DEF MarkNodeOnline, SetStatus, WasOnline
    <3>3. Auditing' = {r}
      BY <1>0, <3>1, <3>2
    <3>4. unaudited["online"] = 0
      BY <3>1, FS_EmptySet
    <3>5. unaudited'["online"] = 1 /\ unaudited'["offline"] = unaudited["offline"]
      BY <1>0, <3>2, <3>4 DEF Edges
    <3>6. Cardinality(Auditing') = 1
      BY <3>3, FS_Singleton
    <3>7. \A r1, r2 \in Readers : frame'[r1] = "audit" /\ frame'[r2] = "audit" => r1 = r2
      BY <3>3
    <3> QED
      BY <3>2, <3>5, <3>6, <3>7
  <2> QED
    BY <1>0, <2>1, <2>2 DEF Edges
<1>3. ASSUME NEW r \in Readers, AuditNodeOnline(r) PROVE AuditInv'
  <2>1. /\ frame[r] = "audit" /\ detect' = detect
        /\ frame' = [frame EXCEPT ![r] = "recover"]
        /\ unaudited' = [unaudited EXCEPT !["online"] = @ - 1]
    BY <1>3 DEF AuditNodeOnline, Audit
  <2>2. Auditing = {r}
    BY <2>1
  <2>3. Auditing' = {}
    BY <1>0, <2>1, <2>2
  <2>4. Cardinality(Auditing) = 1 /\ Cardinality(Auditing') = 0
    BY <2>2, <2>3, FS_Singleton, FS_EmptySet
  <2>5. unaudited'["online"] = 0 /\ unaudited'["offline"] = unaudited["offline"]
    BY <1>0, <2>1, <2>4 DEF Edges
  <2> QED
    BY <2>1, <2>3, <2>4, <2>5
<1>4. ASSUME NEW r \in Readers, RecoverAlert(r) PROVE AuditInv'
  <2>1. Auditing' = Auditing /\ unaudited' = unaudited /\ detect' = detect
    BY <1>0, <1>4 DEF RecoverAlert
  <2>2. \A q \in Readers : frame'[q] = "audit" => frame[q] = "audit"
    BY <1>0, <1>4 DEF RecoverAlert
  <2> QED
    BY <2>1, <2>2
<1>5. CASE ListNodes
  BY <1>5 DEF ListNodes
<1>6. CASE MarkNodeOffline
  <2>1. /\ detect = "mark" /\ detect' = "audit" /\ frame' = frame
        /\ unaudited' = [unaudited EXCEPT !["offline"] = @ + 1]
    BY <1>6 DEF MarkNodeOffline, SetStatus, FramesInv
  <2>2. unaudited'["offline"] = 1 /\ unaudited'["online"] = unaudited["online"]
    BY <1>0, <2>1 DEF Edges
  <2> QED
    BY <2>1, <2>2
<1>7. CASE AuditNodeOffline
  <2>1. /\ detect = "audit" /\ detect' = "alert" /\ frame' = frame
        /\ unaudited' = [unaudited EXCEPT !["offline"] = @ - 1]
    BY <1>7 DEF AuditNodeOffline, Audit
  <2>2. unaudited'["offline"] = 0 /\ unaudited'["online"] = unaudited["online"]
    BY <1>0, <2>1 DEF Edges
  <2> QED
    BY <2>1, <2>2
<1>8. CASE CreateAlert
  BY <1>8 DEF CreateAlert
<1>12. CASE Restart
  <2>1. Auditing' = {} /\ unaudited' = [e \in Edges |-> 0] /\ detect' = "idle"
    BY <1>12 DEF Restart
  <2>2. \A r \in Readers : frame'[r] # "audit"
    BY <1>12 DEF Restart
  <2> QED
    BY <2>1, <2>2, FS_EmptySet DEF Edges
<1>13. CASE UNCHANGED <<frame, detect, unaudited>>
  BY <1>13
<1>14. CASE UndeliveredAlerts \/ MarkAlertDelivered \/ UNCHANGED vars
  BY <1>13, <1>14 DEF UndeliveredAlerts, MarkAlertDelivered, vars
<1>15. ASSUME NEW a \in queue, NEW ok \in SUBSET accepting, DeliverOne(a, ok)
       PROVE AuditInv'
  BY <1>13, <1>15 DEF DeliverOne
<1> HIDE DEF AuditInv
<1> QED
  BY <1>1, <1>2, <1>3, <1>4, <1>5, <1>6, <1>7, <1>8, <1>12, <1>14, <1>15
     DEF Next, MarkOnlineAudited, DetectOffline, DeliverAlerts, Deliver

\* Every edge of the status is audited exactly once, for any number of read
\* pumps and any interleaving of them with the offline sweep.
THEOREM EdgesAreAudited == Spec => []EveryEdgeAudited
<1>1. AuditInv => EveryEdgeAudited
  BY DEF AuditInv
<1> QED
  BY <1>1, TypeInit, TypeStep, FramesInit, FramesStep, AuditInit, AuditStep, PTL DEF Spec

LEMMA OutageStep ==
  TypeOK /\ FramesInv /\ OutageInv /\ [Next]_vars /\ MaxRestarts = 0 => OutageInv'
<1> SUFFICES ASSUME TypeOK, FramesInv, OutageInv, [Next]_vars, MaxRestarts = 0
             PROVE OutageInv'
  OBVIOUS
<1> USE DEF OutageInv, node
<1> DEFINE OpenAlert == \E i \in DOMAIN alerts : alerts[i].open
<1>1. CASE Tick
  BY <1>1 DEF Tick, Older
<1>2. ASSUME NEW r \in Readers, MarkNodeOnline(r) PROVE OutageInv'
  BY <1>2 DEF MarkNodeOnline, SetStatus
<1>3. ASSUME NEW r \in Readers, AuditNodeOnline(r) PROVE OutageInv'
  BY <1>3 DEF AuditNodeOnline
<1>4. ASSUME NEW r \in Readers, RecoverAlert(r) PROVE OutageInv'
  BY <1>4 DEF RecoverAlert, FramesInv
<1>5. CASE ListNodes \/ MarkNodeOffline \/ AuditNodeOffline
  BY <1>5 DEF ListNodes, MarkNodeOffline, AuditNodeOffline
<1>8. CASE CreateAlert
  <2>1. ASSUME NEW i \in DOMAIN alerts, Duplicate(alerts[i]), UNCHANGED alerts PROVE OpenAlert'
    BY <2>1 DEF Duplicate
  <2>2. ASSUME NEW i \in Slots, InsertAlert(i) PROVE OpenAlert'
    BY <2>2 DEF InsertAlert, Row
  <2>3. OpenAlert'
    BY <1>8, <2>1, <2>2 DEF CreateAlert
  <2> QED
    BY <2>3
<1>11. CASE MarkAlertDelivered
  <2>1. /\ DOMAIN alerts' = DOMAIN alerts
        /\ \A i \in DOMAIN alerts : alerts'[i].open = alerts[i].open
    BY <1>11 DEF MarkAlertDelivered, Delivered, TypeOK
  <2> QED
    BY <1>11, <2>1 DEF MarkAlertDelivered
<1>12. CASE Restart
  BY <1>12 DEF Restart, TypeOK
<1>13. CASE UNCHANGED <<status, seen, detect, alerts>>
  BY <1>13
<1>14. CASE UndeliveredAlerts \/ UNCHANGED vars
  BY <1>13, <1>14 DEF UndeliveredAlerts, vars
<1>15. ASSUME NEW a \in queue, NEW ok \in SUBSET accepting, DeliverOne(a, ok)
       PROVE OutageInv'
  BY <1>13, <1>15 DEF DeliverOne
<1> HIDE DEF OutageInv
<1> QED
  BY <1>1, <1>2, <1>3, <1>4, <1>5, <1>8, <1>11, <1>12, <1>14, <1>15
     DEF Next, MarkOnlineAudited, DetectOffline, DeliverAlerts, Deliver

\* As long as the panel does not crash, a finished sweep that found the probe
\* offline leaves an open alert: neither the dedupe nor a late recovery of an
\* earlier outage takes it away.
THEOREM OutagesAreAlerted ==
  ASSUME MaxRestarts = 0 PROVE Spec => []OutageHasOpenAlert
<1>1. Init => OutageInv
  BY DEF Init, OutageInv
<1>2. TypeOK /\ FramesInv /\ OutageInv /\ [Next]_vars => OutageInv'
  BY OutageStep
<1>3. OutageInv => OutageHasOpenAlert
  BY DEF OutageInv, OutageHasOpenAlert
<1> QED
  BY <1>1, <1>2, <1>3, TypeInit, TypeStep, FramesInit, FramesStep, PTL DEF Spec
=============================================================================
