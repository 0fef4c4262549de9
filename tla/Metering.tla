------------------------------ MODULE Metering ------------------------------
(***************************************************************************)
(* What the panel makes of a node's traffic counters, and the alert it     *)
(* derives from a quota (internal/server/hub/handlers.go, internal/server/ *)
(* store/traffic.go, internal/server/quota/quota.go, internal/server/      *)
(* scheduler/scheduler.go, internal/agent/client.go).                      *)
(*                                                                         *)
(* The kernel's counters only grow, and start over at a reboot.  Reports   *)
(* travel over connections one of which may still be read when its         *)
(* successor is; a report reads the baseline and writes it in two steps.   *)
(* One direction stands for both: they have rows of their own.  A day is a *)
(* number.                                                                 *)
(***************************************************************************)
EXTENDS Integers, Sequences, FiniteSets, FiniteSetsExt

CONSTANTS Ifaces, Default, \* interfaces, the one of the default route
          MaxBytes,        \* bound on what an interface carries
          MaxConns,        \* bound on connections
          MaxReports,      \* bound on the reports a connection has under way
          MaxDays,         \* bound on the clock
          CycleDays,       \* length of the traffic cycle
          Quota,           \* quota_bytes
          MaxEdits         \* bound on the operator's edits and on failed writes

ASSUME MeterAssumption == Default \in Ifaces /\ MaxConns \in Nat \ {0} /\ CycleDays \in Nat \ {0}

Automatic == ""
\* In a row and in a report `total` is history: what was carried by then.
NoRow == [raw |-> -1, ts |-> 0, start |-> 0, used |-> 0, total |-> 0]
NoFrame == [iface |-> Automatic, raw |-> 0, ts |-> 0, total |-> 0]
Days == 0..MaxDays

VARIABLES
  raw,      \* per interface: the kernel's counter
  carried,  \* history, per interface: bytes carried since the node was enrolled
  probe,    \* the interface the probe measures, as it was told
  conn,     \* the number of its connection
  frames,   \* per connection: reports under way
  reader,   \* per connection: the report being applied and the baseline it read
  net,      \* node_network: the interface and the cycle, as the operator set them
  counter,  \* traffic_counters
  daily,    \* traffic_daily
  booked,   \* history, per interface: what was added to it
  clock,
  spoilt,   \* history: reports of two connections overlapped, or a baseline was not written
  crossed,  \* the day of the newest alert of the quota
  edits

wireVars == <<raw, carried, probe, conn, frames>>
bookVars == <<reader, counter, daily, booked, spoilt>>
meterVars == <<wireVars, bookVars, net, clock, crossed, edits>>

IdleReader == [busy |-> FALSE, frame |-> NoFrame, prev |-> NoRow]
MeterInit ==
  /\ raw = [i \in Ifaces |-> 1] /\ carried = [i \in Ifaces |-> 0]
  /\ probe = Automatic /\ conn = 1
  /\ frames = [c \in 1..MaxConns |-> <<>>]
  /\ reader = [c \in 1..MaxConns |-> IdleReader]
  /\ net = [iface |-> Automatic, cycle |-> FALSE]
  /\ counter = [i \in Ifaces |-> NoRow] /\ daily = [d \in Days |-> 0]
  /\ booked = [i \in Ifaces |-> 0]
  /\ clock = 0 /\ spoilt = FALSE /\ crossed = -1
  /\ edits = 0

Edit == edits < MaxEdits /\ edits' = edits + 1

(***************************************************************************)
(* The host and the probe.                                                 *)
(***************************************************************************)
Carry(i) ==
  /\ carried[i] < MaxBytes /\ carried' = [carried EXCEPT ![i] = @ + 1]
  /\ raw' = [raw EXCEPT ![i] = @ + 1]
  /\ UNCHANGED <<probe, conn, frames, bookVars, net, clock, crossed, edits>>
DayPasses ==
  /\ clock < MaxDays /\ clock' = clock + 1
  /\ UNCHANGED <<wireVars, bookVars, net, crossed, edits>>
Measured(told) == IF told = Automatic THEN Default ELSE told
Report(told) ==
  /\ Len(frames[conn]) < MaxReports
  /\ LET i == Measured(told)
         f == [iface |-> i, raw |-> raw[i], ts |-> clock, total |-> carried[i]]
     IN  frames' = [frames EXCEPT ![conn] = Append(@, f)]
reportOnce ==
  /\ Report(probe)
  /\ UNCHANGED <<raw, carried, probe, conn, bookVars, net, clock, crossed, edits>>
\* The declaration names the interface; a new one is reported at once.
setTrafficIface ==
  /\ probe # net.iface
  /\ probe' = net.iface /\ Report(net.iface)
  /\ UNCHANGED <<raw, carried, conn, bookVars, net, clock, crossed, edits>>
\* The link drops, with what the old connection has not delivered or without;
\* a reboot also starts the counters over.
LinkDrops(reboot, lost) ==
  /\ conn < MaxConns /\ conn' = conn + 1
  /\ raw' = IF reboot THEN [i \in Ifaces |-> 0] ELSE raw
  /\ frames' = IF lost THEN [frames EXCEPT ![conn] = <<>>] ELSE frames
  /\ UNCHANGED <<carried, probe, bookVars, net, clock, crossed, edits>>

(***************************************************************************)
(* The hub: one report of a connection at a time, a goroutine each.        *)
(***************************************************************************)
PeriodStart(day) == IF net.cycle THEN 1 + (day \div CycleDays) * CycleDays ELSE 0

Tracks(i) == net.iface = Automatic \/ net.iface = i
Overlaps(c) == \E b \in 1..MaxConns : b # c /\ (reader[b].busy \/ frames[b] # <<>>)
\* A baseline that cannot be read is taken for one that is not there.
onTraffic(c, known) ==
  /\ ~reader[c].busy /\ frames[c] # <<>>
  /\ LET f == Head(frames[c])
         prev == IF known THEN counter[f.iface] ELSE NoRow
     IN  /\ Tracks(f.iface) \/ known
         /\ reader' = IF Tracks(f.iface)
                      THEN [reader EXCEPT ![c] = [busy |-> TRUE, frame |-> f, prev |-> prev]]
                      ELSE reader
  /\ frames' = [frames EXCEPT ![c] = Tail(@)]
  /\ spoilt' = (spoilt \/ Overlaps(c))
  /\ IF known THEN UNCHANGED edits ELSE Edit
  /\ UNCHANGED <<raw, carried, probe, conn, counter, daily, booked, net, clock, crossed>>

\* Mutant of Delta: the first report of a counter counts what it shows.
DeltaFromNothing(f, prev) ==
  IF prev.raw < 0 THEN f.raw ELSE IF f.raw < prev.raw \/ f.ts < prev.ts THEN 0 ELSE f.raw - prev.raw
\* The first report of a counter is its baseline; one below the baseline, or
\* before it, starts over.
Delta(f, prev) ==
  IF prev.raw < 0 \/ f.raw < prev.raw \/ f.ts < prev.ts THEN 0 ELSE f.raw - prev.raw
NewRow(f, prev) ==
  LET delta == Delta(f, prev)
      start == PeriodStart(f.ts)
  IN  [raw |-> f.raw, ts |-> f.ts, start |-> start,
       used |-> IF prev.raw >= 0 /\ start = prev.start THEN prev.used + delta ELSE delta,
       total |-> f.total]
\* A baseline that cannot be written does not stop the daily total.
accumulate(c, written) ==
  /\ reader[c].busy /\ reader' = [reader EXCEPT ![c] = IdleReader]
  /\ LET f == reader[c].frame
         prev == reader[c].prev
     IN  /\ counter' = IF written THEN [counter EXCEPT ![f.iface] = NewRow(f, prev)] ELSE counter
         /\ daily' = [daily EXCEPT ![f.ts] = @ + Delta(f, prev)]
         /\ booked' = [booked EXCEPT ![f.iface] = @ + Delta(f, prev)]
  /\ IF written THEN UNCHANGED <<spoilt, edits>> ELSE spoilt' = TRUE /\ Edit
  /\ UNCHANGED <<wireVars, net, clock, crossed>>

(***************************************************************************)
(* The operator.                                                           *)
(***************************************************************************)
UpdateNetwork(iface, cycle) ==
  /\ net # [iface |-> iface, cycle |-> cycle] /\ Edit
  /\ net' = [iface |-> iface, cycle |-> cycle]
  /\ UNCHANGED <<wireVars, bookVars, clock, crossed>>

(***************************************************************************)
(* The scheduler.                                                          *)
(***************************************************************************)
SumSince(day) == MapThenSumSet(LAMBDA d : daily[d], {d \in Days : d >= day})
\* An alert of one kind is not repeated within the hour.
checkTraffic ==
  /\ SumSince(IF net.cycle THEN PeriodStart(clock) - 1 ELSE 0) >= Quota
  /\ clock # crossed /\ crossed' = clock
  /\ UNCHANGED <<wireVars, bookVars, net, clock, edits>>

MeterNext ==
  \/ \E i \in Ifaces : Carry(i)
  \/ DayPasses \/ reportOnce \/ setTrafficIface
  \/ \E reboot, lost \in BOOLEAN : LinkDrops(reboot, lost)
  \/ \E c \in 1..MaxConns, done \in BOOLEAN : onTraffic(c, done) \/ accumulate(c, done)
  \/ \E i \in Ifaces \cup {Automatic}, cycle \in BOOLEAN : UpdateNetwork(i, cycle)
  \/ checkTraffic
MeterSpec == MeterInit /\ [][MeterNext]_meterVars

(***************************************************************************)
(* Properties.                                                             *)
(***************************************************************************)
\* Of no interface the daily totals hold more than it carried: no byte is in
\* them twice, across reboots, lost reports, baselines that could not be read,
\* reconnections and changes of the interface; unless reports of two
\* connections overlapped or a baseline was not written
\* (hub/handlers.go:144-216).
NothingCountedTwice == spoilt \/ \A i \in Ifaces : booked[i] <= carried[i]
=============================================================================
