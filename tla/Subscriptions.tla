---------------------------- MODULE Subscriptions ----------------------------
(***************************************************************************)
(* What clients are given: the entries of one subscription about one node,*)
(* kept in step with its listeners and with the forwards of other nodes by *)
(* the reconciler of internal/server/httpapi/sub_entries.go and edited by  *)
(* the operator through sub_handlers.go.                                   *)
(*                                                                         *)
(* The reconciler runs out of band (a forwards report, the picker, an      *)
(* import, a start) and reads tables one after the other; reports, edits   *)
(* and operators go on between its reads and its writes.  Of Inbounds it   *)
(* sees the reported ports, the ports in flight and the managed pair: here *)
(* they change in any way.                                                 *)
(***************************************************************************)
EXTENDS SubEntries

CONSTANTS Start,      \* ports with an anytls listener at first
          MaxChanges, \* bound on what happens beside the reconciler
          MaxSaves,   \* bound on what operators save
          MaxRuns     \* bound on runs of the reconciler

ASSUME StartAssumption == Start \subseteq Ports

VARIABLES
  anytls,      \* ports of the reported file that can terminate a leg
  others,      \* its other ports
  pair,        \* port of node_singbox with its certificate, 0 without
  inFlight,    \* ports whose lifecycle row is pending or deleting
  rules,       \* node_forwards: the port each leg lands on, 0 without a rule
  supported,   \* node_forward_status of the relay
  autoInclude, \* the setting relay_auto_include
  entries,     \* subscription_entries
  task,        \* the reconciler under way
  spent,       \* changes, saves and runs so far
  optedOut,    \* history: legs off whose rule and listener stayed since
  guarded      \* history: rows whose port has been in flight since the prune began

listeners == <<anytls, others, pair, inFlight>>
forwards == <<rules, supported, autoInclude>>
subVars == <<listeners, forwards, entries, task, spent, optedOut, guarded>>

(***************************************************************************)
(* What a node offers: LiveProxyNodes, liveAnytlsPorts, nodeIngressPorts.  *)
(***************************************************************************)
Live == anytls \cup others
OrPair(ports) == IF ports # {} THEN ports ELSE {pair} \ {0}
IngressPorts == OrPair(Live)
LiveAnytlsPorts == OrPair(anytls)
Relayable == anytls # {} \/ pair # 0
RelayCandidates == {l \in Legs : rules[l] \in LiveAnytlsPorts}
\* Both halves of the leg are there.
Derivable == IF anytls # {} THEN RelayCandidates ELSE {}

(***************************************************************************)
(* The picker and the renderer, two readers that must agree.               *)
(***************************************************************************)
\* Mutant: the port of the managed pair is offered beside a reported file.
OffersPair(k) ==
  IF k \in Legs THEN k \in RelayCandidates /\ Relayable
  ELSE IngressPorts # {} /\ k \in {Whole, pair} \cup IngressPorts
\* subscriptionEntryViews: what the operator is told can be dialled.
Available(k) ==
  IF k \in Legs THEN k \in RelayCandidates /\ Relayable
  ELSE IngressPorts # {} /\ k \in {Whole} \cup IngressPorts
\* relayedInbound: a leg ends on the listener its rule names, or on the first
\* that can take it.
LandsOn(l) ==
  LET landing == IF Live # {} THEN anytls ELSE {pair} \ {0}
  IN  IF rules[l] \in landing THEN {rules[l]}
      ELSE {p \in landing : \A q \in landing : p <= q}
\* subscriptionNodes: the listeners a client gets for one row.
Outbounds(k) ==
  IF k \in Legs THEN LandsOn(k)
  ELSE OrPair(Live) \cap (IF k = Whole THEN Ports ELSE {k})

NoTask == [pc |-> "idle", keys |-> {}, ports |-> {}, landable |-> FALSE,
           derived |-> {}, inFlight |-> {}, on |-> FALSE, add |-> {}]

SubInit ==
  /\ anytls = Start /\ others = {} /\ inFlight = {}
  /\ pair \in Start \cup {0}
  /\ entries \in {<<>>, All({Whole}, TRUE), All(Start, TRUE)}
  /\ rules = [l \in Legs |-> 0] /\ supported = FALSE
  /\ autoInclude \in BOOLEAN
  /\ task = NoTask
  /\ spent = [changes |-> 0, saves |-> 0, runs |-> 0]
  /\ optedOut = {} /\ guarded = {}

Count(what, max) == spent[what] < max /\ spent' = [spent EXCEPT ![what] = @ + 1]

(***************************************************************************)
(* Beside the reconciler: Inbounds goes on, and relays report.             *)
(***************************************************************************)
Change == Count("changes", MaxChanges) /\ UNCHANGED <<autoInclude, task>>
\* The histories follow what they are about.
Follows ==
  /\ optedOut' = optedOut \cap Derivable'
  /\ guarded' = guarded \cap inFlight' \cap DOMAIN entries'

\* Reports, edits and their undo move the rows...
RowsChange ==
  /\ Change
  /\ inFlight' \in SUBSET Ports
  /\ UNCHANGED <<anytls, others, pair, rules, supported, entries>>
  /\ Follows
\* ...a report replaces the snapshot, after the rows...
SnapshotStored ==
  /\ Change
  /\ anytls' \in SUBSET Ports /\ others' \in SUBSET (Ports \ anytls')
  /\ UNCHANGED <<pair, inFlight, rules, supported, entries>>
  /\ Follows
\* ...an install changes the managed pair...
PairChanges ==
  /\ Change
  /\ pair' \in Ports \cup {0}
  /\ UNCHANGED <<anytls, others, inFlight, rules, supported, entries>>
  /\ Follows
\* ...and an edit, or its undo, takes the rows of a moved listener along.
FollowsMove ==
  /\ Change
  /\ \E from, to \in Ports :
       entries' = MoveSubscriptionDirectEntryPorts(entries, from, to)
  /\ UNCHANGED <<listeners, rules, supported>>
  /\ Follows

\* The snapshot of the relay is replaced as a whole; a probe that cannot read
\* its rules reports none.
RecordForwardState ==
  /\ Change
  /\ supported' \in BOOLEAN
  /\ rules' \in [Legs -> IF supported' THEN Ports \cup {0} ELSE {0}]
  /\ UNCHANGED <<listeners, entries>>
  /\ Follows

(***************************************************************************)
(* The operator.                                                           *)
(***************************************************************************)
\* What the save itself says of the legs goes into the history, unless a prune
\* that has read the entries before is still to delete.
Pruning == task.pc \in {"derive", "inflight", "delete"}
Saved(table, list) ==
  /\ Count("saves", MaxSaves)
  /\ entries' = table
  /\ optedOut' = (optedOut \ DOMAIN list)
                   \cup {l \in DOMAIN list \cap DOMAIN table \cap Derivable : ~Pruning /\ ~list[l]}
  /\ guarded' = guarded \ DOMAIN list
  /\ UNCHANGED <<listeners, forwards, task>>

\* The picker: SetSubscriptionEntries, one row at a time.
SaveEntries ==
  \E k \in Keys, on \in BOOLEAN :
    Saved(SetSubscriptionEntries(entries, All({k}, on)), All({k} \cap Legs, on))
SaveNodes ==
  \E bound \in BOOLEAN :
    Saved(SetSubscriptionDirectNodes(entries, bound), All(Directs, bound))
Import ==
  \E k \in Keys, on \in BOOLEAN :
    Saved(RestoreSubscriptionEntries(entries, All({k}, on)), All({k}, on))
\* A run of the reconciler dies with the process.
Restarts ==
  /\ task # NoTask
  /\ task' = NoTask /\ guarded' = {}
  /\ UNCHANGED <<listeners, forwards, entries, spent, optedOut>>

(***************************************************************************)
(* The reconciler: prune, split, enrol.                                    *)
(***************************************************************************)
Step(pc, next) == task.pc = pc /\ task' = next
Reads == UNCHANGED <<listeners, forwards, entries, spent, optedOut>>
Writes == UNCHANGED <<listeners, forwards, spent, optedOut>>

\* pruneStaleEntries reads the entries, then per node the file...
PruneReadsFile ==
  /\ task.pc = "idle" /\ Count("runs", MaxRuns)
  /\ task' = [NoTask EXCEPT
       !.pc = IF DOMAIN entries \ {Whole} # {} /\ Live # {} THEN "derive" ELSE "split",
       !.keys = DOMAIN entries, !.ports = IngressPorts, !.landable = (anytls # {})]
  /\ guarded' = inFlight \cap DOMAIN entries
  /\ UNCHANGED <<listeners, forwards, entries, optedOut>>
\* ...the forwards that land on it...
PruneReadsForwards ==
  /\ Step("derive", [task EXCEPT !.pc = "inflight", !.derived = RelayCandidates])
  /\ Reads /\ UNCHANGED guarded
\* ...and the lifecycle rows.
PruneReadsRows ==
  /\ Step("inflight", [task EXCEPT !.pc = "delete", !.inFlight = inFlight])
  /\ Reads /\ UNCHANGED guarded

\* Mutant: a change in flight does not hold the row.
GoneAtOnce == task.keys \ (task.ports \cup Legs \cup {Whole})
GoneDirects == (task.keys \cap Ports) \ (task.ports \cup task.inFlight)
\* Mutant: tombstones of legs go too, whatever their rule.
GoneOrOff == {l \in task.keys \cap Legs : ~task.landable \/ supported}
GoneLegs ==
  {l \in task.keys \cap Legs : ~task.landable \/ (l \notin task.derived /\ supported)}
PruneDeletes ==
  /\ Step("delete", [task EXCEPT !.pc = "split"])
  /\ entries' = DeleteSubscriptionEntries(entries, GoneDirects \cup GoneLegs)
  /\ Writes /\ UNCHANGED guarded

\* splitNodeLevelDirectEntries: read, then the transaction.
SplitReads ==
  /\ Step("split", IF Whole \in DOMAIN entries /\ IngressPorts # {}
                   THEN [NoTask EXCEPT !.pc = "write", !.ports = IngressPorts, !.on = entries[Whole]]
                   ELSE [NoTask EXCEPT !.pc = "enrol"])
  /\ Reads /\ guarded' = {}
SplitWrites ==
  /\ Step("write", [NoTask EXCEPT !.pc = "enrol"])
  /\ entries' = SplitSubscriptionDirectEntry(entries, task.on, task.ports)
  /\ Writes /\ UNCHANGED guarded

\* Legs are enrolled only for a node the operator bound directly.
EnrolReads ==
  /\ Step("enrol",
       IF autoInclude /\ Relayable /\ (\E k \in DOMAIN entries \cap Directs : entries[k])
       THEN [NoTask EXCEPT !.pc = "insert", !.add = RelayCandidates]
       ELSE NoTask)
  /\ Reads /\ UNCHANGED guarded
EnrolInserts ==
  /\ Step("insert", NoTask)
  /\ entries' = InsertSubscriptionEntryIfAbsent(entries, task.add)
  /\ Writes /\ UNCHANGED guarded

SubNext ==
  \/ RowsChange \/ SnapshotStored \/ PairChanges \/ FollowsMove \/ RecordForwardState
  \/ SaveEntries \/ SaveNodes \/ Import \/ Restarts
  \/ PruneReadsFile \/ PruneReadsForwards \/ PruneReadsRows \/ PruneDeletes
  \/ SplitReads \/ SplitWrites \/ EnrolReads \/ EnrolInserts

SubSpec == SubInit /\ [][SubNext]_subVars

(***************************************************************************)
(* Properties.                                                             *)
(***************************************************************************)
\* A leg the operator switched off stays off as long as its rule and the
\* listener it lands on are there: no run of the reconciler prunes the
\* tombstone and enrols the leg anew (sub_entries.go:586-590, :891).  A prune
\* that was under way when it was switched off is the exception: what it read
\* may be older than the rule.
OptOutHolds == \A l \in optedOut : l \in DOMAIN entries /\ ~entries[l]

\* The prune does not take a direct row whose port has had a change of the
\* panel in flight since the prune began (sub_entries.go:606-614).
GuardedEntryStays == [][PruneDeletes => guarded \subseteq DOMAIN entries']_subVars

\* What the picker calls available renders something for the client, so that
\* the two do not drift apart (config_editor.go:96-103).  Legs of a node that
\* reports listeners but none for anytls are left out: there they do.
PickerAgrees ==
  \A k \in Keys :
    (Available(k) /\ (k \in Legs => anytls # {} \/ Live = {})) => Outbounds(k) # {}
=============================================================================
