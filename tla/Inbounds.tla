------------------------------ MODULE Inbounds ------------------------------
(***************************************************************************)
(* The listeners of one node: the config file on the probe, the report the *)
(* panel keeps of it, the lifecycle rows of node_singbox_inbounds and the  *)
(* two handlers that build a new document, the editor of                   *)
(* internal/server/httpapi/config_editor.go and the install of             *)
(* singbox_handlers.go.                                                    *)
(*                                                                         *)
(* A file is the sequence of its listeners, <<>> when there is none.  Of a *)
(* listener the port and the kind are kept.  Each statement or transaction *)
(* is one step; handlers, frames of the probe and restarts interleave.     *)
(***************************************************************************)
EXTENDS Integers, Sequences, FiniteSets, SequencesExt

CONSTANTS InboundPorts, \* ports of listeners
          Editors,    \* requests that may run at once
          Known,      \* {FALSE} for an agent that does not try its ports
          Plain,      \* kinds that need no certificate (vless, shadowsocks...)
          Starts,     \* files the probe may have at first, <<>> among them
          MaxFile,    \* bound on the listeners of a file
          MaxOps,     \* bound on the operations of one request
          MaxEvents   \* bound on requests, edits on the probe and restarts

Anytls == "anytls"
Kinds == {Anytls} \cup Plain
Inbound == [port : InboundPorts, kind : Kinds]
PortsOf(f) == {f[i].port : i \in DOMAIN f}
ASSUME StartsAssumption == InboundPorts \subseteq Nat \ {0} /\ Starts \subseteq Seq(Inbound)
CheckPortsUnique(f) == Cardinality(PortsOf(f)) = Len(f)

VARIABLES
  file,    \* config.json on the probe
  wire,    \* documents on their way to the probe, oldest first
  frame,   \* a local report on its way or half handled: <<>> or <<it>>
  report,  \* the snapshot the panel keeps
  rows,    \* node_singbox_inbounds, by port
  doc,     \* the setting singbox_config: the document the panel declares
  author,  \* history: who wrote doc last
  edited,  \* the setting singbox_edited
  managed, \* port and certificate of node_singbox
  edit,    \* the requests under way
  events   \* requests, edits on the probe and restarts so far

probe == <<file, wire>>
panel == <<report, rows, doc, author, edited, managed>>
inboundVars == <<file, wire, frame, panel, edit, events>>

NoRow == [status |-> "none", reported |-> FALSE]
Idle == [pc |-> "idle"]

\* A node that runs nothing yet, or one that reported what it serves: a
\* listener the panel installed, or what a script left there.
Running == [status |-> "running", reported |-> TRUE]
InboundInit ==
  /\ file \in Starts /\ wire = <<>> /\ frame = <<>>
  /\ report = [file |-> file, known |-> file # <<>>, effective |-> PortsOf(file)]
  /\ rows = [p \in InboundPorts |-> IF p \in PortsOf(file) THEN Running ELSE NoRow]
  /\ \/ doc = <<>> /\ author = "nobody" /\ managed = [port |-> 0, cert |-> FALSE]
     \/ /\ file # <<>> /\ file[1].kind = Anytls
        /\ doc = file /\ author = "install"
        /\ managed = [port |-> file[1].port, cert |-> TRUE]
  /\ edited = (Len(doc) > 1)
  /\ edit = [e \in Editors |-> Idle]
  /\ events = 0

(***************************************************************************)
(* The probe and the reports.                                              *)
(***************************************************************************)
Event == events < MaxEvents /\ events' = events + 1

\* A script or a hand on the probe appends a listener or takes one out.
ScriptEdits ==
  /\ Event
  /\ \/ \E i \in Inbound : Len(file) < MaxFile /\ file' = Append(file, i)
     \/ \E n \in DOMAIN file : file' = RemoveAt(file, n)
  /\ CheckPortsUnique(file')
  /\ UNCHANGED <<wire, frame, panel, edit>>

\* A newer document replaces the ones not applied; a gate may refuse it.
Applies ==
  /\ \E n \in DOMAIN wire :
       /\ file' \in {file, wire[n]}
       /\ wire' = SubSeq(wire, n + 1, Len(wire))
  /\ UNCHANGED <<frame, panel, edit, events>>

\* detectLocal: the ports that accept a connection, none when it is stopped.
Scans ==
  /\ frame = <<>>
  /\ \E known \in Known, running \in BOOLEAN :
       LET seen == [file |-> file, known |-> known /\ file # <<>>,
                    effective |-> IF running /\ known THEN PortsOf(file) ELSE {}]
       IN  seen # report /\ frame' = <<seen>>
  /\ UNCHANGED <<probe, panel, edit, events>>

Stale(row) == IF row.reported THEN NoRow ELSE row
Listed(row, known, running) ==
  [status |-> IF row.status = "deleting" \/ (~known /\ row # NoRow) THEN row.status
              ELSE IF running THEN "running" ELSE "pending",
   reported |-> TRUE]
ReconcileNodeSingboxInbounds(r) ==
  rows' = [p \in InboundPorts |->
             IF p \in PortsOf(r.file) THEN Listed(rows[p], r.known, p \in r.effective)
             ELSE Stale(rows[p])]

\* recordSingboxLocal: the rows first, the snapshot in a second statement.
ReconcileRows ==
  /\ Len(frame) = 1
  /\ ReconcileNodeSingboxInbounds(frame[1])
  /\ frame' = Append(frame, frame[1])
  /\ UNCHANGED <<probe, report, doc, author, edited, managed, edit, events>>
StoreSnapshot ==
  /\ Len(frame) = 2
  /\ report' = frame[1]
  /\ frame' = <<>>
  /\ UNCHANGED <<probe, rows, doc, author, edited, managed, edit, events>>

\* The state frame carries the certificate of the managed listener.
CertArrives ==
  /\ managed.port # 0 /\ ~managed.cert
  /\ managed' = [managed EXCEPT !.cert = TRUE]
  /\ UNCHANGED <<probe, frame, report, rows, doc, author, edited, edit, events>>

(***************************************************************************)
(* The rows a handler writes.                                              *)
(***************************************************************************)
Pending == [status |-> "pending", reported |-> FALSE]
Restored(status) == [status |-> status, reported |-> TRUE]
\* A row the probe never listed has nothing to retire there.
Retired(row) == IF row = NoRow \/ row.reported THEN Restored("deleting") ELSE NoRow
ReportedInboundStatus(r, p) == IF r.known /\ p \in r.effective THEN "running" ELSE "pending"

\* The entries that follow a move are Subscriptions' (FollowsMove).
Do(i) ==
  rows' = IF i.op = "follow" THEN rows
          ELSE [rows EXCEPT ![i.port] =
                  IF i.op = "add" THEN Pending ELSE IF i.op = "retire" THEN Retired(@) ELSE i.row]
Undo(i) ==
  rows' = IF i.op = "follow" THEN rows
          ELSE [rows EXCEPT ![i.port] =
                  IF i.op = "revive" THEN Retired(@)
                  ELSE IF i.op = "add" \/ i.row = NoRow THEN NoRow ELSE Restored(i.row.status)]

(***************************************************************************)
(* The editor: handlePutNodeSingboxConfig.                                 *)
(***************************************************************************)
\* A request: at most one delete, one update and one add, MaxOps in all (the
\* page sends one).
Requests(f) ==
  {r \in [delete : {<<>>} \cup {<<n>> : n \in DOMAIN f},
          update : {<<>>} \cup {<<[number |-> n, to |-> i]>> : n \in DOMAIN f, i \in Inbound},
          add    : {<<>>} \cup {<<i>> : i \in Inbound}] :
     Len(r.delete) + Len(r.update) + Len(r.add) \in 1..MaxOps}

\* Numbers of an update count in what the deletes left.
Reduced(f, d) == IF d = <<>> THEN f ELSE RemoveAt(f, d[1])
Updated(f, u) == IF u = <<>> THEN f ELSE [f EXCEPT ![u[1].number] = u[1].to]
Merged(f, r) == Updated(Reduced(f, r.delete), r.update) \o r.add
Valid(f, r) ==
  /\ r.update # <<>> => r.update[1].number \in DOMAIN Reduced(f, r.delete)
  /\ Merged(f, r) # <<>> /\ Len(Merged(f, r)) <= MaxFile
  /\ CheckPortsUnique(Merged(f, r))

IntentsOf(base, r) ==
  LET f == base.file
      Add(p) == <<[op |-> "add", port |-> p, row |-> NoRow]>>
      Retire(p) == <<[op |-> "retire", port |-> p, row |-> rows[p]]>>
      Follow(p) == <<[op |-> "follow", port |-> p, row |-> NoRow]>>
      Revive(p) == <<[op |-> "revive", port |-> p,
                      row |-> Restored(ReportedInboundStatus(base, p))]>>
      Was == Reduced(f, r.delete)[r.update[1].number].port
      Is == r.update[1].to.port
  IN  (IF r.add = <<>> THEN <<>> ELSE Add(r.add[1].port))
      \o (IF r.delete = <<>> THEN <<>> ELSE Retire(f[r.delete[1]].port))
      \o (IF r.update = <<>> THEN <<>>
          ELSE IF Is # Was THEN Add(Is) \o Retire(Was) \o Follow(Was)
          ELSE IF rows[Was].status = "deleting" THEN Revive(Was) ELSE <<>>)

Working(pc, todo, done, target, by, port) ==
  [pc |-> pc, todo |-> todo, done |-> done, target |-> target, by |-> by, port |-> port]

\* The request was drawn from the snapshot that is read here (the hash agrees).
ReadReport(e) ==
  /\ edit[e] = Idle /\ report.file # <<>>
  /\ Event
  /\ \E r \in Requests(report.file) :
       /\ Valid(report.file, r)
       /\ edit' = [edit EXCEPT ![e] = [pc |-> "rows", base |-> report, req |-> r]]
  /\ UNCHANGED <<probe, frame, panel>>
ReadRows(e) ==
  /\ edit[e].pc = "rows"
  /\ edit' = [edit EXCEPT ![e] =
       Working("apply", IntentsOf(@.base, @.req), <<>>, Merged(@.base.file, @.req), "edit", 0)]
  /\ UNCHANGED <<probe, frame, panel, events>>

\* applySingboxDesired: the operator's file is kept and the listener appended.
Template(p) == <<[port |-> p, kind |-> Anytls]>>
Install(e, p) ==
  LET f == report.file
      inserted == f # <<>> /\ p \notin PortsOf(f)
      target == IF f = <<>> THEN Template(p) ELSE IF inserted THEN f \o Template(p) ELSE f
  IN  /\ edit[e] = Idle
      /\ \A i \in DOMAIN f : f[i].port = p => f[i].kind = Anytls
      /\ Len(target) <= MaxFile
      /\ Event
      /\ edit' = [edit EXCEPT ![e] =
           Working("apply",
             IF inserted THEN <<[op |-> "add", port |-> p, row |-> NoRow]>> ELSE <<>>,
             <<>>, target, "install", p)]
      /\ UNCHANGED <<probe, frame, panel>>

ApplyIntent(e) ==
  /\ edit[e].pc = "apply" /\ edit[e].todo # <<>>
  /\ Do(Head(edit[e].todo))
  /\ edit' = [edit EXCEPT ![e].todo = Tail(@), ![e].done = Append(@, Head(edit[e].todo))]
  /\ UNCHANGED <<probe, frame, report, doc, author, edited, managed, events>>
UndoIntent(e) ==
  /\ edit[e].pc = "undo"
  /\ IF edit[e].done = <<>> THEN edit' = [edit EXCEPT ![e] = Idle] /\ UNCHANGED rows
     ELSE /\ Undo(Last(edit[e].done))
          /\ edit' = [edit EXCEPT ![e].done = Front(@)]
  /\ UNCHANGED <<probe, frame, report, doc, author, edited, managed, events>>

\* The row of an install carries its port; a document that is not the template is the operator's.
Declares(e, by) ==
  /\ doc' = edit[e].target
  /\ author' = by
  /\ edited' = (edited \/ (edit[e].by = "install" /\ edit[e].target # Template(edit[e].port)))
PushDocument(e) ==
  /\ edit[e].pc = "apply" /\ edit[e].todo = <<>>
  /\ Declares(e, edit[e].by)
  /\ managed' = IF edit[e].by = "install" THEN [managed EXCEPT !.port = edit[e].port] ELSE managed
  /\ wire' = Append(wire, edit[e].target)
  /\ edit' = [edit EXCEPT ![e] = IF @.by = "install" THEN Idle ELSE [@ EXCEPT !.pc = "prune"]]
  /\ UNCHANGED <<file, frame, report, rows, events>>
\* An intent, the setting or the row cannot be written: the marks are taken
\* back, and the setting may stay behind.
EditFails(e) ==
  /\ edit[e].pc = "apply"
  /\ edit' = [edit EXCEPT ![e].pc = "undo"]
  /\ \/ UNCHANGED <<doc, author, edited>>
     \/ edit[e].todo = <<>> /\ Declares(e, "failed")
  /\ UNCHANGED <<probe, frame, report, rows, managed, events>>

\* Mutant: every unreported row goes, the declared ones too.
PruneNothing(declared) == UNCHANGED rows
PruneNodeSingboxInboundOptimism(declared) ==
  rows' = [p \in InboundPorts |-> IF rows[p] = Pending /\ p \notin declared THEN NoRow ELSE rows[p]]
FinishEdit(e) ==
  /\ edit[e].pc = "prune"
  /\ PruneNodeSingboxInboundOptimism(PortsOf(edit[e].target))
  /\ edited' = TRUE
  /\ edit' = [edit EXCEPT ![e] = Idle]
  /\ UNCHANGED <<probe, frame, report, doc, author, managed, events>>

(***************************************************************************)
(* The panel restarts: requests and frames are lost, SyncSingboxConfigs    *)
(* renders the template anew for a node nobody edited, and the probe that  *)
(* comes back is told the document.                                        *)
(***************************************************************************)
AnytlsPorts(f) == {f[i].port : i \in {n \in DOMAIN f : f[n].kind = Anytls}}
InboundPortFor ==
  IF Cardinality(AnytlsPorts(report.file)) = 1 THEN CHOOSE p \in AnytlsPorts(report.file) : TRUE
  ELSE managed.port
\* Mutant: a document an operator edited is rendered anew as well.
SyncedAll == IF doc = <<>> \/ managed.port = 0 THEN doc ELSE Template(InboundPortFor)
Synced == IF doc = <<>> \/ managed.port = 0 \/ edited THEN doc ELSE Template(InboundPortFor)
PanelRestarts ==
  /\ Event
  /\ edit' = [e \in Editors |-> Idle]
  /\ frame' = <<>>
  /\ doc' = Synced
  /\ author' = IF \A e \in Editors : edit[e] = Idle THEN author ELSE "crashed"
  /\ wire' = IF Synced = <<>> THEN <<>> ELSE <<Synced>>
  /\ UNCHANGED <<file, report, rows, edited, managed>>

Edits(e) ==
  \/ ReadReport(e) \/ ReadRows(e) \/ FinishEdit(e)
  \/ \E p \in InboundPorts : Install(e, p)
  \/ ApplyIntent(e) \/ UndoIntent(e) \/ PushDocument(e) \/ EditFails(e)

InboundNext ==
  \/ ScriptEdits \/ Applies \/ Scans \/ ReconcileRows \/ StoreSnapshot \/ CertArrives
  \/ PanelRestarts
  \/ \E e \in Editors : Edits(e)
InboundSpec == InboundInit /\ [][InboundNext]_inboundVars

(***************************************************************************)
(* Properties.                                                             *)
(***************************************************************************)
\* A listener the panel shows as being added is one its document declares,
\* once no request is under way: whatever two edits at once marked, moved,
\* pruned or took back (config_editor.go, PruneNodeSingboxInboundOptimism).
OptimismIsDeclared ==
  (author = "edit" /\ \A e \in Editors : edit[e] = Idle)
    => \A p \in InboundPorts : rows[p] = Pending => p \in PortsOf(doc)

\* A start of the panel rewrites only what the panel rendered itself: the
\* document of an edit, or of an install over a file that was there, stays as
\* it is (config_editor.go:44-48, singbox_handlers.go, SyncSingboxConfigs).
RestartKeepsOperatorContent ==
  [][(PanelRestarts /\ author \in {"edit", "install"} /\ \A e \in Editors : edit[e] = Idle)
       => doc' = doc \/ \E p \in InboundPorts : doc = Template(p)]_inboundVars
=============================================================================
