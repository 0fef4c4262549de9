----------------------------- MODULE SubEntries -----------------------------
(***************************************************************************)
(* The rows of one subscription about one landing node: the transactions   *)
(* of internal/server/store/entries.go as functions on the table.          *)
(*                                                                         *)
(* A row is named by the port a client dials on the node itself, by 0 (the *)
(* legacy row that stands for every listener of the node), or by a leg: the*)
(* rule of another node that forwards to this one.  A row that is off is a *)
(* tombstone: the operator opted out of it.  The name an operator may give *)
(* a row stays with the row and is left out.                               *)
(***************************************************************************)
EXTENDS Integers

CONSTANTS Ports,  \* ports of listeners
          Legs    \* (relay node, protocol, source port, interface)

ASSUME PortsAssumption == Ports \subseteq Nat \ {0}
ASSUME LegsAssumption == Legs \cap (Ports \cup {0}) = {}

Whole == 0
Directs == {Whole} \cup Ports
Keys == Directs \cup Legs

All(K, on) == [k \in K |-> on]
Written(table, list) ==
  [k \in DOMAIN table \cup DOMAIN list |->
     IF k \in DOMAIN list THEN list[k] ELSE table[k]]
DeleteSubscriptionEntries(table, gone) == [k \in DOMAIN table \ gone |-> table[k]]

\* A listed row that is off is written only over a row that exists.
SetSubscriptionEntries(table, list) ==
  [k \in DOMAIN table \cup {x \in DOMAIN list : list[x]} |->
     IF k \in DOMAIN list THEN list[k] ELSE table[k]]

\* The import of a backup writes every row as it is, the tombstones too.
RestoreSubscriptionEntries(table, list) == Written(table, list)

\* The binding by node ids: the legacy row replaces the direct half.
SetSubscriptionDirectNodes(table, bound) ==
  Written(DeleteSubscriptionEntries(table, Directs),
          All(IF bound THEN {Whole} ELSE {}, TRUE))

\* The legacy row becomes one row per port; a row that exists wins.
SplitSubscriptionDirectEntry(table, on, ports) ==
  IF Whole \notin DOMAIN table \/ ports = {} THEN table
  ELSE Written(All(ports, on), DeleteSubscriptionEntries(table, {Whole}))

\* A row follows its listener to another port, unless one is there already.
MoveSubscriptionDirectEntryPorts(table, from, to) ==
  IF from = to \/ from \notin DOMAIN table THEN table
  ELSE Written(All({to}, table[from]), DeleteSubscriptionEntries(table, {from}))

\* Auto-enrolment writes a row only where none exists in either state.
InsertSubscriptionEntryIfAbsent(table, keys) == Written(All(keys, TRUE), table)
=============================================================================
