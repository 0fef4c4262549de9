-------------------------- MODULE Publishing_proofs --------------------------
(***************************************************************************)
(* Safety of what the panel publishes: the inbounds it declares to a probe,*)
(* the entries it offers to subscribers, the bodies it serves them, and the*)
(* port forwards an operator edits.  The four share no step here; each has *)
(* an inductive invariant, the two facts that make it one, and the theorems*)
(* that follow.                                                            *)
(***************************************************************************)
EXTENDS Inbounds, Subscriptions, Links, Forwards, SequenceTheorems, FiniteSetTheorems, TLAPS

(***************************************************************************)
(* Inbounds.                                                               *)
(***************************************************************************)
\* Files, rows of the panel and what a probe reports.
InFiles == Seq(Inbound)
InRows == [status : {"none", "pending", "running", "deleting"}, reported : BOOLEAN]
Reports == [file : InFiles, known : BOOLEAN, effective : SUBSET InboundPorts]
\* What a request does to a row; a row is revived as one the probe listed.
Intents == {i \in [op : {"add", "retire", "follow", "revive"}, port : InboundPorts, row : InRows] :
              i.op = "revive" => i.row.reported}
\* A request that writes, one that has only read, and any.
Workings == [pc : {"apply", "undo", "prune"}, todo : Seq(Intents), done : Seq(Intents), target : InFiles,
             by : {"edit", "install"}, port : InboundPorts \cup {0}]
Read(w) == w.base \in Reports /\ w.req \in Requests(w.base.file) /\ Valid(w.base.file, w.req)
Work(w) == w \in Workings /\ (w.by = "install" => w.port \in InboundPorts)
EditTyped(w) ==
  /\ w = Idle \/ w.pc \in {"rows", "apply", "undo", "prune"}
  /\ w.pc = "rows" => Read(w)
  /\ w.pc \in {"apply", "undo", "prune"} => Work(w)

\* A file changes only into files.
LEMMA FileRemoved ==
  ASSUME NEW f \in InFiles, NEW n \in DOMAIN f
  PROVE  RemoveAt(f, n) \in InFiles
<1>1. n \in 1..Len(f) /\ Len(f) \in Nat /\ \A i \in 1..Len(f) : f[i] \in Inbound
  BY LenProperties, ElementOfSeq DEF InFiles
<1>2. SubSeq(f, 1, n - 1) \in InFiles
  BY <1>1, SubSeqProperties DEF InFiles
<1>3. SubSeq(f, n + 1, Len(f)) \in InFiles
  BY <1>1, SubSeqProperties DEF InFiles
<1> QED
  BY <1>2, <1>3, ConcatProperties DEF RemoveAt, InFiles

\* What a request deletes leaves a file.
LEMMA ReducedFile ==
  ASSUME NEW f \in InFiles, NEW r \in Requests(f)
  PROVE  Reduced(f, r.delete) \in InFiles
<1>1. r.delete = <<>> \/ \E n \in DOMAIN f : r.delete = <<n>>
  BY DEF Requests
<1>2. CASE r.delete = <<>>
  BY <1>2 DEF Reduced
<1>3. ASSUME NEW n \in DOMAIN f, r.delete = <<n>> PROVE Reduced(f, r.delete) \in InFiles
  <2>1. r.delete[1] = n /\ r.delete # <<>>
    BY <1>3
  <2> QED
    BY <2>1, FileRemoved DEF Reduced
<1> QED
  BY <1>1, <1>2, <1>3

\* What a valid request writes is a file, and the ports it names are ports.
LEMMA MergedFile ==
  ASSUME NEW f \in InFiles, NEW r \in Requests(f), Valid(f, r)
  PROVE  /\ Merged(f, r) \in InFiles
         /\ r.delete # <<>> => f[r.delete[1]].port \in InboundPorts
         /\ r.add # <<>> => r.add[1].port \in InboundPorts
         /\ r.update # <<>> => /\ Reduced(f, r.delete)[r.update[1].number].port \in InboundPorts
                              /\ r.update[1].to.port \in InboundPorts
<1>1. /\ r.delete = <<>> \/ \E n \in DOMAIN f : r.delete = <<n>>
      /\ r.update = <<>> \/ \E n \in DOMAIN f, i \in Inbound : r.update = <<[number |-> n, to |-> i]>>
      /\ r.add = <<>> \/ \E i \in Inbound : r.add = <<i>>
  BY DEF Requests
<1> DEFINE g == Reduced(f, r.delete)
<1>2. g \in InFiles /\ Len(g) \in Nat /\ DOMAIN g = 1..Len(g) /\ \A n \in DOMAIN g : g[n] \in Inbound
  BY ReducedFile, LenProperties, ElementOfSeq DEF InFiles
<1>3. \A n \in DOMAIN f : f[n] \in Inbound
  BY LenProperties, ElementOfSeq DEF InFiles
<1>4. \A i \in Inbound : i.port \in InboundPorts
  BY DEF Inbound
<1>5. r.update # <<>> => r.update[1].number \in DOMAIN g /\ r.update[1].to \in Inbound
  <2>1. r.update # <<>> => r.update[1].number \in DOMAIN g
    BY DEF Valid
  <2>2. r.update # <<>> => r.update[1].to \in Inbound
    <3>1. SUFFICES ASSUME r.update # <<>> PROVE r.update[1].to \in Inbound
      OBVIOUS
    <3>2. PICK n \in DOMAIN f, i \in Inbound : r.update = <<[number |-> n, to |-> i]>>
      BY <1>1, <3>1
    <3> DEFINE u == [number |-> n, to |-> i]
    <3>3. u.to = i
      OBVIOUS
    <3>4. r.update = <<u>>
      BY <3>2
    <3> HIDE DEF u
    <3>5. r.update[1] = u
      BY <3>4
    <3> QED
      BY <3>3, <3>5
  <2> QED
    BY <2>1, <2>2
<1> HIDE DEF g
<1>6. Updated(g, r.update) \in InFiles
  BY <1>2, <1>5, ExceptSeq DEF Updated, InFiles
<1>7. r.add \in InFiles
  <2>1. \A i \in Inbound : <<i>> \in Seq(Inbound)
    OBVIOUS
  <2>2. <<>> \in Seq(Inbound)
    BY EmptySeq
  <2> QED
    BY <1>1, <2>1, <2>2 DEF InFiles
<1>8. Merged(f, r) \in InFiles
  BY <1>6, <1>7, ConcatProperties DEF Merged, InFiles, g
<1>9. r.delete # <<>> => f[r.delete[1]].port \in InboundPorts
  BY <1>1, <1>3, <1>4
<1>10. r.add # <<>> => r.add[1].port \in InboundPorts
  BY <1>1, <1>4
<1>11. r.update # <<>> => g[r.update[1].number].port \in InboundPorts /\ r.update[1].to.port \in InboundPorts
  BY <1>2, <1>4, <1>5
<1> QED
  BY <1>8, <1>9, <1>10, <1>11 DEF g

\* What it does to the rows are intents.
LEMMA IntentsTyped ==
  ASSUME rows \in [InboundPorts -> InRows], NEW base \in Reports, NEW r \in Requests(base.file), Valid(base.file, r)
  PROVE  IntentsOf(base, r) \in Seq(Intents)
<1> DEFINE S == Seq(Intents)
           One(op, p, row) == <<[op |-> op, port |-> p, row |-> row]>>
<1>1. base.file \in InFiles
  BY DEF Reports
<1>2. ASSUME NEW op \in {"add", "retire", "follow", "revive"}, NEW p \in InboundPorts, NEW row \in InRows,
             op = "revive" => row.reported
      PROVE  One(op, p, row) \in S
  <2>1. [op |-> op, port |-> p, row |-> row] \in Intents
    BY <1>2 DEF Intents
  <2> QED
    BY <2>1
<1>3. NoRow \in InRows /\ \A p \in InboundPorts : rows[p] \in InRows
  BY DEF NoRow, InRows
<1>4. \A p : Restored(ReportedInboundStatus(base, p)) \in InRows /\ Restored(ReportedInboundStatus(base, p)).reported
  BY DEF Restored, ReportedInboundStatus, InRows
<1>5. \A p \in InboundPorts : /\ One("add", p, NoRow) \in S /\ One("retire", p, rows[p]) \in S
                              /\ One("follow", p, NoRow) \in S
                              /\ One("revive", p, Restored(ReportedInboundStatus(base, p))) \in S
  BY <1>2, <1>3, <1>4
<1>6. <<>> \in S /\ \A s, t \in S : s \o t \in S
  BY EmptySeq, ConcatProperties
<1> DEFINE Added == IF r.add = <<>> THEN <<>> ELSE One("add", r.add[1].port, NoRow)
           Deleted == IF r.delete = <<>> THEN <<>>
                      ELSE One("retire", base.file[r.delete[1]].port, rows[base.file[r.delete[1]].port])
           Was == Reduced(base.file, r.delete)[r.update[1].number].port
           Is == r.update[1].to.port
           Moved == IF r.update = <<>> THEN <<>>
                    ELSE IF Is # Was
                    THEN One("add", Is, NoRow) \o One("retire", Was, rows[Was]) \o One("follow", Was, NoRow)
                    ELSE IF rows[Was].status = "deleting"
                    THEN One("revive", Was, Restored(ReportedInboundStatus(base, Was))) ELSE <<>>
<1>7. IntentsOf(base, r) = Added \o Deleted \o Moved
  BY DEF IntentsOf
<1> HIDE DEF S, One
<1>8. Added \in S
  BY <1>1, <1>5, <1>6, MergedFile
<1>9. Deleted \in S
  BY <1>1, <1>5, <1>6, MergedFile
<1>10. Moved \in S
  <2>1. r.update # <<>> => Is \in InboundPorts /\ Was \in InboundPorts
    BY <1>1, MergedFile
  <2> HIDE DEF Is, Was
  <2> QED
    BY <1>5, <1>6, <2>1
<1> HIDE DEF Added, Deleted, Moved
<1> QED
  BY <1>6, <1>7, <1>8, <1>9, <1>10 DEF S

\* Types of the state: no other conjunct of the invariant is needed for them.
InboundTypes ==
  /\ file \in InFiles /\ wire \in Seq(InFiles) /\ frame \in Seq(Reports) /\ report \in Reports
  /\ rows \in [InboundPorts -> InRows] /\ doc \in InFiles
  /\ managed \in [port : InboundPorts \cup {0}, cert : BOOLEAN]
  /\ edit = [e \in Editors |-> edit[e]] /\ \A e \in Editors : EditTyped(edit[e])

\* No request is one.
LEMMA IdleTyped == EditTyped(Idle) /\ Idle.pc = "idle"
BY DEF EditTyped, Idle

\* The generated document is a file.
LEMMA TemplateFile == \A p \in InboundPorts : Template(p) \in InFiles
<1>1. \A p \in InboundPorts : [port |-> p, kind |-> Anytls] \in Inbound
  BY DEF Inbound, Kinds
<1> QED
  BY <1>1 DEF Template, InFiles

\* The ports of a file are ports.
LEMMA PortsKnown == \A f \in InFiles : PortsOf(f) \subseteq InboundPorts /\ AnytlsPorts(f) \subseteq InboundPorts
<1>1. ASSUME NEW f \in InFiles PROVE \A i \in DOMAIN f : f[i] \in Inbound
  BY LenProperties, ElementOfSeq DEF InFiles
<1> QED
  BY <1>1 DEF PortsOf, AnytlsPorts, Inbound

\* A restart stores the document it finds, or one generated in place of one
\* that no operator has edited.
LEMMA SyncedFile ==
  ASSUME InboundTypes
  PROVE  /\ Synced \in InFiles
         /\ Synced = doc \/ (~edited /\ \E p \in InboundPorts : Synced = Template(p))
<1>1. CASE doc = <<>> \/ managed.port = 0 \/ edited
  BY <1>1 DEF Synced, InboundTypes
<1>2. CASE ~(doc = <<>> \/ managed.port = 0 \/ edited)
  <2>1. InboundPortFor \in InboundPorts
    <3>1. AnytlsPorts(report.file) \subseteq InboundPorts
      BY PortsKnown DEF InboundTypes, Reports
    <3>2. Cardinality(AnytlsPorts(report.file)) = 1 => AnytlsPorts(report.file) # {}
      BY FS_EmptySet
    <3>3. managed.port \in InboundPorts
      BY <1>2 DEF InboundTypes
    <3> QED
      BY <3>1, <3>2, <3>3 DEF InboundPortFor
  <2> QED
    BY <1>2, <2>1, TemplateFile DEF Synced
<1> QED
  BY <1>1, <1>2

\* The probe has reported its file, the panel may have a document.
LEMMA TypesInit == InboundInit => InboundTypes
<1> SUFFICES ASSUME InboundInit PROVE InboundTypes
  OBVIOUS
<1>1. file \in InFiles
  BY StartsAssumption DEF InboundInit, InFiles
<1>2. PortsOf(file) \subseteq InboundPorts
  BY <1>1, PortsKnown
<1>3. report \in Reports
  BY <1>1, <1>2 DEF InboundInit, Reports
<1>4. rows \in [InboundPorts -> InRows]
  BY DEF InboundInit, InRows, Running, NoRow
<1>5. doc \in InFiles
  <2>1. doc = <<>> \/ doc = file
    BY DEF InboundInit
  <2>2. <<>> \in InFiles
    BY EmptySeq DEF InFiles
  <2> QED
    BY <1>1, <2>1, <2>2
<1>6. managed \in [port : InboundPorts \cup {0}, cert : BOOLEAN]
  <2>1. file # <<>> => file[1].port \in InboundPorts
    <3>1. file # <<>> => file[1] \in Inbound
      BY <1>1, LenProperties, ElementOfSeq, EmptySeq DEF InFiles
    <3> QED
      BY <3>1 DEF Inbound
  <2>2. managed = [port |-> 0, cert |-> FALSE] \/ (file # <<>> /\ managed = [port |-> file[1].port, cert |-> TRUE])
    BY DEF InboundInit
  <2>3. \A x \in InboundPorts \cup {0}, c \in BOOLEAN :
          [port |-> x, cert |-> c] \in [port : InboundPorts \cup {0}, cert : BOOLEAN]
    OBVIOUS
  <2>4. CASE managed = [port |-> 0, cert |-> FALSE]
    BY <2>3, <2>4
  <2>5. CASE file # <<>> /\ managed = [port |-> file[1].port, cert |-> TRUE]
    BY <2>1, <2>3, <2>5
  <2> QED
    BY <2>2, <2>4, <2>5
<1>7. wire \in Seq(InFiles) /\ frame \in Seq(Reports)
  BY EmptySeq DEF InboundInit
<1>8. edit = [e \in Editors |-> edit[e]] /\ \A e \in Editors : EditTyped(edit[e])
  BY IdleTyped DEF InboundInit
<1> QED
  BY <1>1, <1>3, <1>4, <1>5, <1>6, <1>7, <1>8 DEF InboundTypes

\* The probe, the reports and the certificate.
Outside == ScriptEdits \/ Applies \/ Scans \/ ReconcileRows \/ StoreSnapshot \/ CertArrives
\* They keep the document, and no row becomes optimistic.
LEMMA OutsideTypes ==
  ASSUME InboundTypes, Outside
  PROVE  /\ InboundTypes' /\ UNCHANGED <<doc, author, edited, edit>>
         /\ \A p \in InboundPorts : rows'[p] = Pending => rows[p] = Pending
<1>f. frame \in Seq(Reports) /\ (Len(frame) \in {1, 2} => frame[1] \in Reports)
  BY LenProperties, ElementOfSeq DEF InboundTypes
<1>1. CASE ScriptEdits
  <2>0. UNCHANGED <<wire, frame, panel, edit>>
    BY <1>1 DEF ScriptEdits
  <2>1. file' \in InFiles
    <3>1. \/ \E i \in Inbound : file' = Append(file, i)
          \/ \E n \in DOMAIN file : file' = RemoveAt(file, n)
      BY <1>1 DEF ScriptEdits
    <3>2. \A i \in Inbound : Append(file, i) \in InFiles
      BY AppendProperties DEF InboundTypes, InFiles
    <3>3. \A n \in DOMAIN file : RemoveAt(file, n) \in InFiles
      BY FileRemoved DEF InboundTypes
    <3> QED
      BY <3>1, <3>2, <3>3
  <2> QED
    BY <2>0, <2>1 DEF InboundTypes, panel
<1>2. CASE Applies
  <2>1. PICK n \in DOMAIN wire : file' \in {file, wire[n]} /\ wire' = SubSeq(wire, n + 1, Len(wire))
    BY <1>2 DEF Applies
  <2>2. n \in 1..Len(wire) /\ Len(wire) \in Nat /\ \A i \in 1..Len(wire) : wire[i] \in InFiles
    BY LenProperties, ElementOfSeq DEF InboundTypes
  <2>3. wire' \in Seq(InFiles)
    <3>1. n + 1 \in Int /\ Len(wire) \in Int /\ \A i \in (n + 1)..Len(wire) : wire[i] \in InFiles
      BY <2>2
    <3>2. SubSeq(wire, n + 1, Len(wire)) \in Seq(InFiles)
      BY <3>1, SubSeqProperties
    <3> QED
      BY <2>1, <3>2
  <2>4. file' \in InFiles
    BY <2>1, <2>2 DEF InboundTypes
  <2>5. UNCHANGED <<frame, panel, edit>>
    BY <1>2 DEF Applies
  <2> QED
    BY <2>3, <2>4, <2>5 DEF InboundTypes, panel
<1>3. CASE Scans
  <2>1. \E made \in Reports : frame' = <<made>>
    <3>1. \A known \in Known, running \in BOOLEAN :
            [file |-> file, known |-> known /\ file # <<>>,
             effective |-> IF running /\ known THEN PortsOf(file) ELSE {}] \in Reports
      BY PortsKnown DEF InboundTypes, Reports
    <3> QED
      BY <1>3, <3>1 DEF Scans
  <2>2. frame' \in Seq(Reports)
    BY <2>1
  <2>3. UNCHANGED <<probe, panel, edit>>
    BY <1>3 DEF Scans
  <2> QED
    BY <2>2, <2>3 DEF InboundTypes, probe, panel
<1>4. CASE ReconcileRows
  <2>1. frame[1] \in Reports /\ frame' \in Seq(Reports)
    BY <1>4, <1>f, AppendProperties DEF ReconcileRows
  <2>2. rows' = [p \in InboundPorts |->
             IF p \in PortsOf(frame[1].file) THEN Listed(rows[p], frame[1].known, p \in frame[1].effective)
             ELSE Stale(rows[p])]
    BY <1>4 DEF ReconcileRows, ReconcileNodeSingboxInbounds
  <2>3. ASSUME NEW r \in InRows, NEW known, NEW running
        PROVE  /\ Listed(r, known, running) \in InRows /\ Listed(r, known, running) # Pending
               /\ Stale(r) \in InRows /\ (Stale(r) = Pending => r = Pending)
    BY DEF Listed, Stale, InRows, Pending, NoRow
  <2>4. rows' \in [InboundPorts -> InRows] /\ \A p \in InboundPorts : rows'[p] = Pending => rows[p] = Pending
    BY <2>2, <2>3 DEF InboundTypes
  <2>5. UNCHANGED <<probe, report, doc, author, edited, managed, edit>>
    BY <1>4 DEF ReconcileRows
  <2> QED
    BY <2>1, <2>4, <2>5 DEF InboundTypes, probe
<1>5. CASE StoreSnapshot
  <2>1. report' \in Reports /\ frame' \in Seq(Reports)
    BY <1>5, <1>f, EmptySeq DEF StoreSnapshot
  <2>2. UNCHANGED <<probe, rows, doc, author, edited, managed, edit>>
    BY <1>5 DEF StoreSnapshot
  <2> QED
    BY <2>1, <2>2 DEF InboundTypes, probe
<1>6. CASE CertArrives
  <2>1. managed' \in [port : InboundPorts \cup {0}, cert : BOOLEAN]
    BY <1>6 DEF CertArrives, InboundTypes
  <2>2. UNCHANGED <<probe, frame, report, rows, doc, author, edited, edit>>
    BY <1>6 DEF CertArrives
  <2> QED
    BY <2>1, <2>2 DEF InboundTypes, probe
<1> QED
  BY <1>1, <1>2, <1>3, <1>4, <1>5, <1>6 DEF Outside

\* Somebody is still to take back or to prune the mark on a port.
HasAdd(done, p) == \E n \in 1..Len(done) : done[n].op = "add" /\ done[n].port = p
Covered(w, p, d) ==
  \/ w.pc \in {"apply", "undo"} /\ HasAdd(w.done, p)
  \/ w.pc = "prune" /\ w.target = d
\* OptimismIsDeclared with the requests that are not over yet.
OptimismInv ==
  author = "edit" =>
    \A p \in InboundPorts : rows[p] = Pending /\ p \notin PortsOf(doc) => \E e \in Editors : Covered(edit[e], p, doc)
\* An operator's document is marked as edited, or a request is about to mark it;
\* an installed one that is not marked is the generated one.
ContentInv ==
  /\ author = "edit" => edited \/ \E e \in Editors : edit[e].pc = "prune"
  /\ author = "install" => edited \/ \E p \in InboundPorts : doc = Template(p)
\* The inductive invariant.
InboundInv == InboundTypes /\ OptimismInv /\ ContentInv

\* Nobody has written a document yet, except the installer.
LEMMA InboundInvInit == InboundInit => InboundInv
<1> SUFFICES ASSUME InboundInit PROVE InboundInv
  OBVIOUS
<1>1. InboundTypes
  BY TypesInit
<1>2. author # "edit"
  BY DEF InboundInit
<1>3. author = "install" => edited \/ \E p \in InboundPorts : doc = Template(p)
  <2>1. SUFFICES ASSUME author = "install", ~edited PROVE \E p \in InboundPorts : doc = Template(p)
    OBVIOUS
  <2>2. doc \in Seq(Inbound) /\ doc # <<>> /\ doc[1].kind = Anytls /\ ~(Len(doc) > 1)
    BY <1>1, <2>1 DEF InboundInit, InboundTypes, InFiles
  <2>3. Len(doc) = 1 /\ doc[1] \in Inbound
    <3>1. Len(doc) \in Nat \ {0}
      BY <2>2, EmptySeq
    <3> DEFINE n == Len(doc)
    <3>a. ~(n > 1)
      BY <2>2
    <3> HIDE DEF n
    <3>b. n \in Nat \ {0} => n = 1
      BY <3>a
    <3>2. Len(doc) = 1
      BY <3>1, <3>b DEF n
    <3> QED
      BY <2>2, <3>2, ElementOfSeq
  <2>4. doc = <<doc[1]>>
    BY <2>2, <2>3
  <2>5. doc[1].port \in InboundPorts /\ doc[1] = [port |-> doc[1].port, kind |-> Anytls]
    BY <2>2, <2>3 DEF Inbound
  <2> QED
    BY <2>4, <2>5 DEF Template
<1> QED
  BY <1>1, <1>2, <1>3 DEF InboundInv, OptimismInv, ContentInv

\* The document stays, no row becomes optimistic.
LEMMA QuietStep ==
  ASSUME InboundInv, InboundTypes', UNCHANGED <<doc, author>>, edited => edited',
         \A p \in InboundPorts : rows'[p] = Pending =>
           /\ rows[p] = Pending
           /\ \A e \in Editors : Covered(edit[e], p, doc) => Covered(edit'[e], p, doc) \/ p \in PortsOf(doc),
         \A e \in Editors : edit[e].pc = "prune" => edit'[e].pc = "prune" \/ edited'
  PROVE  InboundInv'
BY DEF InboundInv, OptimismInv, ContentInv

\* A request moves, the others stay.
LEMMA EditKept ==
  ASSUME InboundTypes, NEW e \in Editors, NEW w, EditTyped(w), edit' = [edit EXCEPT ![e] = w]
  PROVE  /\ edit' = [x \in Editors |-> edit'[x]] /\ \A x \in Editors : EditTyped(edit'[x])
         /\ edit'[e] = w /\ \A x \in Editors : x # e => edit'[x] = edit[x]
BY DEF InboundTypes

\* A request starts to write.
LEMMA NewWork ==
  ASSUME NEW todo \in Seq(Intents), NEW target \in InFiles, NEW by \in {"edit", "install"},
         NEW p \in InboundPorts \cup {0}, by = "install" => p \in InboundPorts
  PROVE  EditTyped(Working("apply", todo, <<>>, target, by, p))
<1>1. <<>> \in Seq(Intents)
  BY EmptySeq
<1> QED
  BY <1>1 DEF Working, EditTyped, Work, Workings

\* A request is read, and its intents.
LEMMA ReadingStep ==
  ASSUME InboundInv, NEW e \in Editors, ReadReport(e) \/ ReadRows(e)
  PROVE  InboundInv'
<1>0. UNCHANGED <<probe, frame, panel>>
  BY DEF ReadReport, ReadRows
<1>1. \E w : EditTyped(w) /\ edit' = [edit EXCEPT ![e] = w]
  <2>1. CASE ReadReport(e)
    <3>1. PICK r \in Requests(report.file) :
            Valid(report.file, r) /\ edit' = [edit EXCEPT ![e] = [pc |-> "rows", base |-> report, req |-> r]]
      BY <2>1 DEF ReadReport
    <3>2. EditTyped([pc |-> "rows", base |-> report, req |-> r])
      BY <3>1 DEF InboundInv, InboundTypes, EditTyped, Read
    <3> QED
      BY <3>1, <3>2
  <2>2. CASE ReadRows(e)
    <3>1. Read(edit[e])
      BY <2>2 DEF ReadRows, InboundInv, InboundTypes, EditTyped
    <3> DEFINE base == edit[e].base
               r == edit[e].req
    <3>2. base \in Reports /\ r \in Requests(base.file) /\ Valid(base.file, r) /\ base.file \in InFiles
      BY <3>1 DEF Read, Reports
    <3>3. edit' = [edit EXCEPT ![e] = Working("apply", IntentsOf(base, r), <<>>, Merged(base.file, r), "edit", 0)]
      BY <2>2 DEF ReadRows
    <3> HIDE DEF base, r
    <3>4. IntentsOf(base, r) \in Seq(Intents) /\ Merged(base.file, r) \in InFiles
      BY <3>2, IntentsTyped, MergedFile DEF InboundInv, InboundTypes
    <3> QED
      BY <3>3, <3>4, NewWork
  <2> QED
    BY <2>1, <2>2
<1>2. edit[e].pc \notin {"apply", "undo", "prune"}
  BY IdleTyped DEF ReadReport, ReadRows
<1>3. /\ edit' = [x \in Editors |-> edit'[x]] /\ \A x \in Editors : EditTyped(edit'[x])
      /\ \A x \in Editors : x # e => edit'[x] = edit[x]
  BY <1>1, EditKept DEF InboundInv
<1>4. InboundTypes'
  BY <1>0, <1>3 DEF InboundInv, InboundTypes, probe, panel
<1> QED
  BY <1>0, <1>2, <1>3, <1>4, QuietStep DEF panel, Covered

\* An installation decides what to write.
LEMMA InstallStep ==
  ASSUME InboundInv, NEW e \in Editors, NEW p \in InboundPorts, Install(e, p)
  PROVE  InboundInv'
<1> DEFINE f == report.file
           inserted == f # <<>> /\ p \notin PortsOf(f)
           target == IF f = <<>> THEN Template(p) ELSE IF inserted THEN f \o Template(p) ELSE f
           todo == IF inserted THEN <<[op |-> "add", port |-> p, row |-> NoRow]>> ELSE <<>>
<1>0. /\ UNCHANGED <<probe, frame, panel>> /\ edit[e] = Idle
      /\ edit' = [edit EXCEPT ![e] = Working("apply", todo, <<>>, target, "install", p)]
  BY DEF Install
<1>1. target \in InFiles
  BY TemplateFile, ConcatProperties DEF InboundInv, InboundTypes, Reports, InFiles
<1>2. todo \in Seq(Intents)
  <2>1. [op |-> "add", port |-> p, row |-> NoRow] \in Intents
    BY DEF Intents, NoRow, InRows
  <2> QED
    BY <2>1, EmptySeq
<1> HIDE DEF target, todo
<1>3. EditTyped(Working("apply", todo, <<>>, target, "install", p))
  BY <1>1, <1>2, NewWork
<1>4. /\ edit' = [x \in Editors |-> edit'[x]] /\ \A x \in Editors : EditTyped(edit'[x])
      /\ \A x \in Editors : x # e => edit'[x] = edit[x]
  BY <1>0, <1>3, EditKept DEF InboundInv
<1>5. InboundTypes'
  BY <1>0, <1>4 DEF InboundInv, InboundTypes, probe, panel
<1> QED
  BY <1>0, <1>4, <1>5, IdleTyped, QuietStep DEF panel, Covered

\* A mark is made...
LEMMA ApplyStep ==
  ASSUME InboundInv, NEW e \in Editors, ApplyIntent(e)
  PROVE  InboundInv'
<1> DEFINE i == Head(edit[e].todo)
           w == [[edit[e] EXCEPT !.todo = Tail(edit[e].todo)] EXCEPT !.done = Append(edit[e].done, i)]
<1>0. /\ edit[e].pc = "apply" /\ edit[e].todo # <<>> /\ Do(i)
      /\ edit' = [edit EXCEPT ![e] = w]
      /\ UNCHANGED <<probe, frame, report, doc, author, edited, managed>>
  BY DEF ApplyIntent
<1>1. edit[e] \in Workings /\ Work(edit[e])
  BY <1>0 DEF InboundInv, InboundTypes, EditTyped, Work
<1>2. edit[e].todo \in Seq(Intents) /\ edit[e].done \in Seq(Intents)
  BY <1>1 DEF Workings
<1>3. i \in Intents /\ Tail(edit[e].todo) \in Seq(Intents)
  BY <1>0, <1>2, HeadTailProperties
<1>4. /\ Append(edit[e].done, i) \in Seq(Intents)
      /\ \A p : HasAdd(edit[e].done, p) => HasAdd(Append(edit[e].done, i), p)
      /\ i.op = "add" => HasAdd(Append(edit[e].done, i), i.port)
  <2> DEFINE d == edit[e].done
  <2>1. /\ Append(d, i) \in Seq(Intents) /\ Len(Append(d, i)) = Len(d) + 1 /\ Len(d) \in Nat
        /\ \A n \in 1..Len(d) : Append(d, i)[n] = d[n]
        /\ Append(d, i)[Len(d) + 1] = i
    BY <1>2, <1>3, AppendProperties, LenProperties
  <2> HIDE DEF d, i
  <2> QED
    BY <2>1 DEF HasAdd, d
<1> HIDE DEF i
<1>5. w \in Workings /\ w.pc = "apply" /\ w.by = edit[e].by /\ w.port = edit[e].port
      /\ w.done = Append(edit[e].done, i)
  BY <1>0, <1>1, <1>3, <1>4 DEF Workings
<1>6. EditTyped(w)
  BY <1>1, <1>5 DEF EditTyped, Work
<1> HIDE DEF w
<1>7. /\ edit' = [x \in Editors |-> edit'[x]] /\ \A x \in Editors : EditTyped(edit'[x])
      /\ edit'[e] = w /\ \A x \in Editors : x # e => edit'[x] = edit[x]
  BY <1>0, <1>6, EditKept DEF InboundInv
<1>8. rows' \in [InboundPorts -> InRows] /\ \A p \in InboundPorts :
        rows'[p] = Pending => rows[p] = Pending \/ (i.op = "add" /\ i.port = p)
  <2>1. \A r \in InRows : Retired(r) \in InRows /\ Retired(r) # Pending
    BY DEF Retired, Restored, InRows, Pending, NoRow
  <2>2. Pending \in InRows /\ i.row \in InRows
    BY <1>3 DEF Pending, InRows, Intents
  <2>3. i.op \in {"add", "retire", "follow", "revive"} /\ (i.op = "revive" => i.row # Pending)
    BY <1>3 DEF Intents, Pending
  <2>4. rows \in [InboundPorts -> InRows]
    BY DEF InboundInv, InboundTypes
  <2> QED
    BY <1>0, <2>1, <2>2, <2>3, <2>4 DEF Do
<1>9. InboundTypes'
  BY <1>0, <1>7, <1>8 DEF InboundInv, InboundTypes, probe
<1>10. OptimismInv'
  <2>1. SUFFICES ASSUME author = "edit", NEW p \in InboundPorts, rows'[p] = Pending, p \notin PortsOf(doc)
                 PROVE  \E x \in Editors : Covered(edit'[x], p, doc)
    BY <1>0 DEF OptimismInv
  <2>2. CASE i.op = "add" /\ i.port = p
    BY <1>4, <1>5, <1>7, <2>2 DEF Covered
  <2>3. CASE rows[p] = Pending
    <3>1. PICK x \in Editors : Covered(edit[x], p, doc)
      BY <2>1, <2>3 DEF InboundInv, OptimismInv
    <3>2. Covered(edit[e], p, doc) => Covered(w, p, doc)
      BY <1>0, <1>4, <1>5 DEF Covered
    <3> QED
      BY <1>7, <3>1, <3>2
  <2> QED
    BY <1>8, <2>1, <2>2, <2>3
<1>11. ContentInv'
  BY <1>0, <1>5, <1>7 DEF InboundInv, ContentInv
<1> QED
  BY <1>9, <1>10, <1>11 DEF InboundInv

\* ...and taken back.
LEMMA UndoStep ==
  ASSUME InboundInv, NEW e \in Editors, UndoIntent(e)
  PROVE  InboundInv'
<1>0. edit[e].pc = "undo" /\ UNCHANGED <<probe, frame, report, doc, author, edited, managed>>
  BY DEF UndoIntent
<1>1. edit[e] \in Workings /\ Work(edit[e])
  BY <1>0 DEF InboundInv, InboundTypes, EditTyped, Work
<1>2. edit[e].done \in Seq(Intents) /\ Len(edit[e].done) \in Nat
  BY <1>1, LenProperties DEF Workings
<1>3. CASE edit[e].done = <<>>
  <2>1. edit' = [edit EXCEPT ![e] = Idle] /\ UNCHANGED rows
    BY <1>3 DEF UndoIntent
  <2>2. /\ edit' = [x \in Editors |-> edit'[x]] /\ \A x \in Editors : EditTyped(edit'[x])
        /\ edit'[e] = Idle /\ \A x \in Editors : x # e => edit'[x] = edit[x]
    BY <2>1, IdleTyped, EditKept DEF InboundInv
  <2>3. InboundTypes'
    BY <1>0, <2>1, <2>2 DEF InboundInv, InboundTypes, probe
  <2>4. \A p : ~Covered(edit[e], p, doc)
    <3>1. Len(edit[e].done) = 0
      BY <1>3
    <3> QED
      BY <1>0, <3>1 DEF Covered, HasAdd
  <2> QED
    BY <1>0, <2>1, <2>2, <2>3, <2>4, QuietStep
<1>4. CASE edit[e].done # <<>>
  <2> DEFINE i == Last(edit[e].done)
             w == [edit[e] EXCEPT !.done = Front(edit[e].done)]
  <2>1. edit' = [edit EXCEPT ![e] = w] /\ Undo(i)
    BY <1>4 DEF UndoIntent
  <2>2. /\ i \in Intents /\ Front(edit[e].done) \in Seq(Intents)
        /\ \A p : HasAdd(edit[e].done, p) => HasAdd(Front(edit[e].done), p) \/ (i.op = "add" /\ i.port = p)
    <3> DEFINE d == edit[e].done
               n == Len(d)
    <3>1. d \in Seq(Intents) /\ n \in Nat \ {0} /\ \A k \in 1..n : d[k] \in Intents
      BY <1>2, <1>4, EmptySeq, ElementOfSeq
    <3>2. n - 1 \in Int /\ \A k \in 1..(n - 1) : d[k] \in Intents
      BY <3>1
    <3>3. /\ SubSeq(d, 1, n - 1) \in Seq(Intents) /\ Len(SubSeq(d, 1, n - 1)) = n - 1
          /\ \A k \in 1..(n - 1) : SubSeq(d, 1, n - 1)[k] = d[k]
      <4>1. /\ SubSeq(d, 1, n - 1) \in Seq(Intents)
            /\ Len(SubSeq(d, 1, n - 1)) = IF 1 <= n - 1 THEN n - 1 - 1 + 1 ELSE 0
            /\ \A k \in 1..(n - 1 - 1 + 1) : SubSeq(d, 1, n - 1)[k] = d[1 + k - 1]
        BY <3>2, SubSeqProperties
      <4> QED
        BY <3>1, <4>1
    <3> HIDE DEF d, n
    <3>4. \A p : HasAdd(d, p) => HasAdd(SubSeq(d, 1, n - 1), p) \/ (d[n].op = "add" /\ d[n].port = p)
      BY <3>1, <3>3 DEF HasAdd, n
    <3> QED
      BY <3>1, <3>3, <3>4 DEF Last, Front, d, n
  <2> HIDE DEF i
  <2>3. w \in Workings /\ w.pc = "undo" /\ w.by = edit[e].by /\ w.port = edit[e].port
        /\ w.done = Front(edit[e].done)
    BY <1>0, <1>1, <2>2 DEF Workings
  <2>4. EditTyped(w)
    BY <1>1, <2>3 DEF EditTyped, Work
  <2> HIDE DEF w
  <2>5. /\ edit' = [x \in Editors |-> edit'[x]] /\ \A x \in Editors : EditTyped(edit'[x])
        /\ edit'[e] = w /\ \A x \in Editors : x # e => edit'[x] = edit[x]
    BY <2>1, <2>4, EditKept DEF InboundInv
  <2>6. rows' \in [InboundPorts -> InRows] /\ \A p \in InboundPorts :
          rows'[p] = Pending => rows[p] = Pending /\ ~(i.op = "add" /\ i.port = p)
    <3>1. \A r \in InRows : Retired(r) \in InRows /\ Retired(r) # Pending
                            /\ Restored(r.status) \in InRows /\ Restored(r.status) # Pending
      BY DEF Retired, Restored, InRows, Pending, NoRow
    <3>2. NoRow \in InRows /\ NoRow # Pending /\ i.row \in InRows
      BY <2>2 DEF Pending, NoRow, InRows, Intents
    <3>3. rows \in [InboundPorts -> InRows]
      BY DEF InboundInv, InboundTypes
    <3> QED
      BY <2>1, <3>1, <3>2, <3>3 DEF Undo
  <2>7. InboundTypes'
    BY <1>0, <2>5, <2>6 DEF InboundInv, InboundTypes, probe
  <2>8. \A p : Covered(edit[e], p, doc) => Covered(w, p, doc) \/ (i.op = "add" /\ i.port = p)
    BY <1>0, <2>2, <2>3 DEF Covered
  <2> QED
    BY <1>0, <2>3, <2>5, <2>6, <2>7, <2>8, QuietStep
<1> QED
  BY <1>3, <1>4

\* The document is declared: the one who declared it is to prune.
\* The document is stored: what it does not list, this request prunes.
LEMMA PushStep ==
  ASSUME InboundInv, NEW e \in Editors, PushDocument(e)
  PROVE  InboundInv'
<1> DEFINE w == IF edit[e].by = "install" THEN Idle ELSE [edit[e] EXCEPT !.pc = "prune"]
<1>0. /\ edit[e].pc = "apply" /\ doc' = edit[e].target /\ author' = edit[e].by
      /\ edited' = (edited \/ (edit[e].by = "install" /\ edit[e].target # Template(edit[e].port)))
      /\ managed' = IF edit[e].by = "install" THEN [managed EXCEPT !.port = edit[e].port] ELSE managed
      /\ wire' = Append(wire, edit[e].target)
      /\ edit' = [edit EXCEPT ![e] = w]
      /\ UNCHANGED <<file, frame, report, rows>>
  BY DEF PushDocument, Declares
<1>1. edit[e] \in Workings /\ Work(edit[e]) /\ edit[e].target \in InFiles /\ edit[e].by \in {"edit", "install"}
  BY <1>0 DEF InboundInv, InboundTypes, EditTyped, Work, Workings
<1>2. EditTyped(w) /\ (edit[e].by = "edit" => w.pc = "prune" /\ w.target = edit[e].target)
  <2>1. CASE edit[e].by = "install"
    BY <2>1, IdleTyped
  <2>2. CASE edit[e].by = "edit"
    <3>1. w \in Workings /\ w.pc = "prune" /\ w.by = "edit" /\ w.target = edit[e].target
      BY <1>1, <2>2 DEF Workings
    <3> QED
      BY <3>1 DEF EditTyped, Work
  <2> QED
    BY <1>1, <2>1, <2>2
<1> HIDE DEF w
<1>3. /\ edit' = [x \in Editors |-> edit'[x]] /\ \A x \in Editors : EditTyped(edit'[x])
      /\ edit'[e] = w /\ \A x \in Editors : x # e => edit'[x] = edit[x]
  BY <1>0, <1>2, EditKept DEF InboundInv
<1>4. InboundTypes'
  <2>1. wire' \in Seq(InFiles)
    BY <1>0, <1>1, AppendProperties DEF InboundInv, InboundTypes
  <2>2. managed' \in [port : InboundPorts \cup {0}, cert : BOOLEAN]
    BY <1>0, <1>1 DEF InboundInv, InboundTypes, Workings
  <2> QED
    BY <1>0, <1>1, <1>3, <2>1, <2>2 DEF InboundInv, InboundTypes
<1>5. CASE edit[e].by = "edit"
  BY <1>0, <1>2, <1>3, <1>4, <1>5 DEF InboundInv, OptimismInv, ContentInv, Covered
<1>6. CASE edit[e].by = "install"
  <2>1. edited' \/ doc' = Template(edit[e].port)
    BY <1>0, <1>6
  <2>2. edit[e].port \in InboundPorts
    BY <1>1, <1>6 DEF Work
  <2>3. ContentInv'
    BY <1>0, <1>6, <2>1, <2>2 DEF ContentInv, Template
  <2> QED
    BY <1>0, <1>4, <1>6, <2>3 DEF InboundInv, OptimismInv
<1> QED
  BY <1>1, <1>5, <1>6

\* The probe is not there, or the row cannot be written.
LEMMA FailStep ==
  ASSUME InboundInv, NEW e \in Editors, EditFails(e)
  PROVE  InboundInv'
<1> DEFINE w == [edit[e] EXCEPT !.pc = "undo"]
<1>0. /\ edit[e].pc = "apply" /\ edit' = [edit EXCEPT ![e] = w]
      /\ UNCHANGED <<probe, frame, report, rows, managed>>
      /\ \/ UNCHANGED <<doc, author, edited>>
         \/ doc' = edit[e].target /\ author' = "failed"
  BY DEF EditFails, Declares
<1>1. edit[e] \in Workings /\ Work(edit[e]) /\ edit[e].target \in InFiles
  BY <1>0 DEF InboundInv, InboundTypes, EditTyped, Work, Workings
<1>2. EditTyped(w) /\ w.pc = "undo" /\ w.done = edit[e].done
  <2>1. w \in Workings /\ w.pc = "undo" /\ w.by = edit[e].by /\ w.port = edit[e].port /\ w.done = edit[e].done
    BY <1>1 DEF Workings
  <2> QED
    BY <1>1, <2>1 DEF EditTyped, Work
<1> HIDE DEF w
<1>3. /\ edit' = [x \in Editors |-> edit'[x]] /\ \A x \in Editors : EditTyped(edit'[x])
      /\ edit'[e] = w /\ \A x \in Editors : x # e => edit'[x] = edit[x]
  BY <1>0, <1>2, EditKept DEF InboundInv
<1>4. InboundTypes'
  BY <1>0, <1>1, <1>3 DEF InboundInv, InboundTypes, probe
<1>5. CASE UNCHANGED <<doc, author, edited>>
  BY <1>0, <1>2, <1>3, <1>4, <1>5, QuietStep DEF Covered
<1>6. CASE author' = "failed"
  BY <1>4, <1>6 DEF InboundInv, OptimismInv, ContentInv
<1> QED
  BY <1>0, <1>5, <1>6

\* What the stored document does not list loses its mark.
LEMMA FinishStep ==
  ASSUME InboundInv, NEW e \in Editors, FinishEdit(e)
  PROVE  InboundInv'
<1>0. /\ edit[e].pc = "prune" /\ edit' = [edit EXCEPT ![e] = Idle] /\ edited' = TRUE
      /\ rows' = [p \in InboundPorts |->
                   IF rows[p] = Pending /\ p \notin PortsOf(edit[e].target) THEN NoRow ELSE rows[p]]
      /\ UNCHANGED <<probe, frame, report, doc, author, managed>>
  BY DEF FinishEdit, PruneNodeSingboxInboundOptimism
<1>1. /\ edit' = [x \in Editors |-> edit'[x]] /\ \A x \in Editors : EditTyped(edit'[x])
      /\ edit'[e] = Idle /\ \A x \in Editors : x # e => edit'[x] = edit[x]
  BY <1>0, IdleTyped, EditKept DEF InboundInv
<1>2. NoRow \in InRows /\ NoRow # Pending
  BY DEF NoRow, InRows, Pending
<1>3. InboundTypes'
  BY <1>0, <1>1, <1>2 DEF InboundInv, InboundTypes, probe
<1>4. \A p \in InboundPorts : rows'[p] = Pending => rows[p] = Pending /\ p \in PortsOf(edit[e].target)
  BY <1>0, <1>2
<1>5. \A p : Covered(edit[e], p, doc) => edit[e].target = doc
  BY <1>0 DEF Covered
<1> QED
  BY <1>0, <1>1, <1>3, <1>4, <1>5, QuietStep

\* The requests are gone; whoever was writing is not trusted any more.
LEMMA RestartStep ==
  ASSUME InboundInv, PanelRestarts
  PROVE  InboundInv'
<1>0. /\ edit' = [e \in Editors |-> Idle] /\ frame' = <<>> /\ doc' = Synced
      /\ author' = IF \A e \in Editors : edit[e] = Idle THEN author ELSE "crashed"
      /\ wire' = IF Synced = <<>> THEN <<>> ELSE <<Synced>>
      /\ UNCHANGED <<file, report, rows, edited, managed>>
  BY DEF PanelRestarts
<1>1. Synced \in InFiles /\ (Synced = doc \/ (~edited /\ \E p \in InboundPorts : Synced = Template(p)))
  BY SyncedFile DEF InboundInv
<1>2. InboundTypes'
  <2>1. wire' \in Seq(InFiles) /\ frame' \in Seq(Reports)
    BY <1>0, <1>1, EmptySeq
  <2> QED
    BY <1>0, <1>1, <2>1, IdleTyped DEF InboundInv, InboundTypes
<1>3. CASE ~\A e \in Editors : edit[e] = Idle
  BY <1>0, <1>2, <1>3 DEF InboundInv, OptimismInv, ContentInv
<1>4. CASE \A e \in Editors : edit[e] = Idle
  <2>1. author = "edit" => edited
    BY <1>4, IdleTyped DEF InboundInv, ContentInv
  <2>2. author = "edit" => doc' = doc
    BY <1>0, <1>1, <2>1
  <2>3. OptimismInv'
    BY <1>0, <1>4, <2>2, IdleTyped DEF InboundInv, OptimismInv, Covered
  <2>4. ContentInv'
    BY <1>0, <1>1, <1>4, <2>1 DEF InboundInv, ContentInv, Template
  <2> QED
    BY <1>2, <2>3, <2>4 DEF InboundInv
<1> QED
  BY <1>3, <1>4

\* Every step keeps it.
LEMMA InboundInvStep == InboundInv /\ [InboundNext]_inboundVars => InboundInv'
<1> SUFFICES ASSUME InboundInv, [InboundNext]_inboundVars PROVE InboundInv'
  OBVIOUS
<1>1. CASE Outside
  BY <1>1, OutsideTypes, QuietStep DEF InboundInv
<1>2. CASE PanelRestarts
  BY <1>2, RestartStep
<1>3. ASSUME NEW e \in Editors, Edits(e) PROVE InboundInv'
  BY <1>3, ReadingStep, InstallStep, ApplyStep, UndoStep, PushStep, FailStep, FinishStep DEF Edits
<1>4. CASE UNCHANGED inboundVars
  <2>1. InboundTypes'
    BY <1>4 DEF InboundInv, InboundTypes, inboundVars, probe, panel
  <2> QED
    BY <1>4, <2>1, QuietStep DEF inboundVars, probe, panel
<1> QED
  BY <1>1, <1>2, <1>3, <1>4 DEF InboundNext, Outside

\* For any set of ports, editors and files: when no request is under way, a row
\* shown as pending is declared in the document the panel stored last
\* (config_editor.go, PruneNodeSingboxInboundOptimism).
THEOREM OptimismDeclared == InboundSpec => []OptimismIsDeclared
<1>1. InboundInv => OptimismIsDeclared
  BY IdleTyped DEF InboundInv, OptimismInv, OptimismIsDeclared, Covered
<1> QED
  BY <1>1, InboundInvInit, InboundInvStep, PTL DEF InboundSpec

\* For any set of ports, editors and files: what an operator's edit or install
\* wrote outlives a restart of the panel, unless it is the document the panel
\* generates anyway (config_editor.go:44-48, SyncSingboxConfigs).
THEOREM RestartsKeepContent == InboundSpec => RestartKeepsOperatorContent
<1> DEFINE Restart == PanelRestarts /\ author \in {"edit", "install"} /\ \A e \in Editors : edit[e] = Idle
           Keeps == doc' = doc \/ \E p \in InboundPorts : doc = Template(p)
<1>1. ASSUME InboundInv, Restart PROVE Keeps
  <2>1. edited \/ \E p \in InboundPorts : doc = Template(p)
    BY <1>1, IdleTyped DEF InboundInv, ContentInv
  <2>2. edited => doc' = doc
    BY <1>1 DEF PanelRestarts, Synced
  <2> QED
    BY <2>1, <2>2
<1>2. InboundInv /\ [InboundNext]_inboundVars => [Restart => Keeps]_inboundVars
  BY <1>1
<1>3. InboundSpec => []InboundInv
  BY InboundInvInit, InboundInvStep, PTL DEF InboundSpec
<1> QED
  BY <1>2, <1>3, PTL DEF InboundSpec, RestartKeepsOperatorContent

(***************************************************************************)
(* Subscriptions.                                                          *)
(***************************************************************************)
\* A table of entries, the reconciler's task, and an entry that is off.
Table(t) == DOMAIN t \subseteq Keys /\ t \in [DOMAIN t -> BOOLEAN]
Tasks == [pc : {"idle", "derive", "inflight", "delete", "split", "write", "enrol", "insert"},
          keys : SUBSET Keys, ports : SUBSET Ports, landable : BOOLEAN, derived : SUBSET Legs,
          inFlight : SUBSET Ports, on : BOOLEAN, add : SUBSET Legs]
Off(t, l) == l \in DOMAIN t /\ ~t[l]

\* Types of the state.
SubTypes ==
  /\ anytls \subseteq Ports /\ others \subseteq Ports /\ pair \in Ports \cup {0} /\ inFlight \subseteq Ports
  /\ Table(entries)
  /\ task \in Tasks
\* An opted out leg is still there and off, and a prune under way has either read
\* a state it is derivable from, or is not going to delete anything.
SubInv ==
  /\ SubTypes
  /\ optedOut \subseteq Derivable /\ \A l \in optedOut : Off(entries, l)
  /\ guarded \subseteq inFlight \cap DOMAIN entries
  /\ Pruning /\ optedOut # {} => task.landable
  /\ task.pc \in {"inflight", "delete"} => optedOut \subseteq task.derived
  /\ task.pc = "delete" => guarded \subseteq task.inFlight

\* The transactions give tables.
LEMMA TablesWritten ==
  ASSUME NEW t, Table(t)
  PROVE  /\ \A gone : Table(DeleteSubscriptionEntries(t, gone))
         /\ \A K \in SUBSET Keys, on \in BOOLEAN :
              /\ Table(All(K, on))
              /\ Table(Written(All(K, on), t)) /\ Table(Written(t, All(K, on)))
              /\ Table(SetSubscriptionEntries(t, All(K, on)))
<1>1. \A gone : Table(DeleteSubscriptionEntries(t, gone))
  BY DEF Table, DeleteSubscriptionEntries
<1>2. ASSUME NEW K \in SUBSET Keys, NEW on \in BOOLEAN
      PROVE  /\ Table(All(K, on))
             /\ Table(Written(All(K, on), t)) /\ Table(Written(t, All(K, on)))
             /\ Table(SetSubscriptionEntries(t, All(K, on)))
  BY DEF Table, All, Written, SetSubscriptionEntries
<1> QED
  BY <1>1, <1>2

\* Those about the direct half leave the legs alone.
LEMMA LegsKept ==
  ASSUME NEW t, Table(t), NEW l \in Legs, Off(t, l)
  PROVE  /\ \A from, to \in Ports : Off(MoveSubscriptionDirectEntryPorts(t, from, to), l)
         /\ \A on \in BOOLEAN, P \in SUBSET Ports : Off(SplitSubscriptionDirectEntry(t, on, P), l)
         /\ \A bound : Off(SetSubscriptionDirectNodes(t, bound), l)
         /\ \A K, on : l \notin K => /\ Off(SetSubscriptionEntries(t, All(K, on)), l)
                                     /\ Off(RestoreSubscriptionEntries(t, All(K, on)), l)
         /\ \A K : Off(InsertSubscriptionEntryIfAbsent(t, K), l)
         /\ \A gone : l \notin gone => Off(DeleteSubscriptionEntries(t, gone), l)
<1> USE LegsAssumption DEF Off, All, Written, DeleteSubscriptionEntries, Directs, Whole
<1>1. \A from, to \in Ports : Off(MoveSubscriptionDirectEntryPorts(t, from, to), l)
  BY DEF MoveSubscriptionDirectEntryPorts
<1>2. \A on \in BOOLEAN, P \in SUBSET Ports : Off(SplitSubscriptionDirectEntry(t, on, P), l)
  BY DEF SplitSubscriptionDirectEntry
<1>3. \A bound : Off(SetSubscriptionDirectNodes(t, bound), l)
  BY DEF SetSubscriptionDirectNodes
<1>4. \A K, on : l \notin K => /\ Off(SetSubscriptionEntries(t, All(K, on)), l)
                               /\ Off(RestoreSubscriptionEntries(t, All(K, on)), l)
  BY DEF SetSubscriptionEntries, RestoreSubscriptionEntries
<1>5. \A K : Off(InsertSubscriptionEntryIfAbsent(t, K), l)
  BY DEF InsertSubscriptionEntryIfAbsent
<1> QED
  BY <1>1, <1>2, <1>3, <1>4, <1>5

\* Nobody has opted out, the reconciler rests.
LEMMA SubInvInit == SubInit => SubInv
<1> SUFFICES ASSUME SubInit PROVE SubInv
  OBVIOUS
<1>1. NoTask \in Tasks /\ NoTask.pc = "idle"
  BY DEF NoTask, Tasks
<1>2. Table(entries)
  <2>1. DOMAIN <<>> = {} /\ Table(<<>>)
    BY DEF Table
  <2>2. Table(All({Whole}, TRUE)) /\ Table(All(Start, TRUE))
    BY StartAssumption DEF Table, All, Keys, Directs
  <2> QED
    BY <2>1, <2>2 DEF SubInit
<1>3. pair \in Ports \cup {0}
  BY StartAssumption DEF SubInit
<1> QED
  BY <1>1, <1>2, <1>3, StartAssumption DEF SubInit, SubInv, SubTypes, Pruning

\* What goes on beside the reconciler.
LEMMA ChangeStep ==
  ASSUME SubInv, UNCHANGED task, Follows, Table(entries'), SubTypes',
         \A l \in Legs : Off(entries, l) => Off(entries', l)
  PROVE  SubInv'
BY DEF SubInv, SubTypes, Follows, Pruning, Derivable, RelayCandidates

\* What operators save.
LEMMA SaveStep ==
  ASSUME SubInv, Table(entries'), NEW K \in SUBSET Keys, NEW on \in BOOLEAN,
         UNCHANGED <<listeners, forwards, task>>,
         optedOut' = (optedOut \ K) \cup {l \in K \cap DOMAIN entries' \cap Derivable : ~Pruning /\ ~on},
         guarded' = guarded \ K,
         DOMAIN entries \ K \subseteq DOMAIN entries',
         \A l \in Legs \ K : Off(entries, l) => Off(entries', l),
         \A l \in Legs \cap K \cap DOMAIN entries' : entries'[l] = on
  PROVE  SubInv'
<1>2. SubTypes' /\ Derivable' = Derivable /\ Pruning' = Pruning /\ Derivable \subseteq Legs
  BY DEF SubInv, SubTypes, listeners, forwards, Derivable, RelayCandidates, LiveAnytlsPorts, OrPair, Pruning
<1>3. optedOut' \subseteq Derivable' /\ \A l \in optedOut' : Off(entries', l)
  BY <1>2 DEF SubInv, Off
<1>4. guarded' \subseteq inFlight' \cap DOMAIN entries'
  BY DEF SubInv, listeners
<1>5. Pruning => optedOut' \subseteq optedOut
  OBVIOUS
<1> QED
  BY <1>2, <1>3, <1>4, <1>5 DEF SubInv, Pruning

\* The reconciler's steps are the ones that use the last conjuncts.
LEMMA SubInvStep == SubInv /\ [SubNext]_subVars => SubInv'
<1> SUFFICES ASSUME SubInv, [SubNext]_subVars PROVE SubInv'
  OBVIOUS
<1>t. SubTypes /\ Table(entries) /\ task \in Tasks
  BY DEF SubInv, SubTypes
<1>1. CASE RowsChange \/ SnapshotStored \/ PairChanges \/ RecordForwardState
  <2>1. UNCHANGED <<task, entries>> /\ Follows /\ SubTypes'
    BY <1>t, <1>1 DEF RowsChange, SnapshotStored, PairChanges, RecordForwardState, Change, SubTypes, Table, listeners
  <2> QED
    BY <1>t, <2>1, ChangeStep DEF SubTypes
<1>2. CASE FollowsMove
  <2>1. PICK from, to \in Ports : entries' = MoveSubscriptionDirectEntryPorts(entries, from, to)
    BY <1>2 DEF FollowsMove
  <2>2. Table(entries')
    <3>1. {to} \in SUBSET Keys /\ (entries[from] \in BOOLEAN \/ from \notin DOMAIN entries)
      BY <1>t DEF Table, Keys, Directs
    <3> QED
      BY <1>t, <2>1, <3>1, TablesWritten DEF MoveSubscriptionDirectEntryPorts, Keys, Directs
  <2>3. \A l \in Legs : Off(entries, l) => Off(entries', l)
    BY <1>t, <2>1, LegsKept
  <2>4. UNCHANGED <<task, listeners, rules, supported>> /\ Follows
    BY <1>2 DEF FollowsMove, Change
  <2>5. SubTypes'
    BY <1>t, <2>2, <2>4 DEF SubTypes, listeners
  <2> QED
    BY <2>2, <2>3, <2>4, <2>5, ChangeStep
<1>3. CASE SaveEntries
  <2>1. PICK k \in Keys, on \in BOOLEAN :
          Saved(SetSubscriptionEntries(entries, All({k}, on)), All({k} \cap Legs, on))
    BY <1>3 DEF SaveEntries
  <2> DEFINE t == SetSubscriptionEntries(entries, All({k}, on))
             K == {k} \cap Legs
  <2>2. Table(t)
    BY <1>t, TablesWritten
  <2>3. DOMAIN entries \subseteq DOMAIN t /\ (k \in DOMAIN t => t[k] = on)
    BY DEF SetSubscriptionEntries, All
  <2>4. \A l \in Legs \ {k} : Off(entries, l) => Off(t, l)
    BY <1>t, LegsKept
  <2>s. /\ entries' = t /\ UNCHANGED <<listeners, forwards, task>> /\ guarded' = guarded \ K
        /\ optedOut' = (optedOut \ K) \cup {l \in K \cap DOMAIN t \cap Derivable : ~Pruning /\ ~on}
    <3>1. DOMAIN All(K, on) = K /\ \A l \in K : All(K, on)[l] = on
      BY DEF All
    <3> QED
      BY <2>1, <3>1 DEF Saved
  <2>5. /\ K \in SUBSET Keys /\ \A l \in Legs : l \notin K => l # k
        /\ \A l \in K : l = k
    BY DEF Keys
  <2> HIDE DEF t, K
  <2>6. \A l \in Legs \ K : Off(entries, l) => Off(entries', l)
    BY <2>s, <2>4, <2>5
  <2>7. \A l \in Legs \cap K \cap DOMAIN entries' : entries'[l] = on
    BY <2>s, <2>3, <2>5
  <2> QED
    BY <2>s, <2>2, <2>3, <2>5, <2>6, <2>7, SaveStep
<1>4. CASE SaveNodes
  <2>1. PICK bound \in BOOLEAN : Saved(SetSubscriptionDirectNodes(entries, bound), All(Directs, bound))
    BY <1>4 DEF SaveNodes
  <2> DEFINE t == SetSubscriptionDirectNodes(entries, bound)
             K == Directs
             on == bound
  <2>2. Table(t)
    <3>1. (IF bound THEN {Whole} ELSE {}) \in SUBSET Keys
      BY DEF Keys, Directs
    <3> QED
      BY <1>t, <3>1, TablesWritten DEF SetSubscriptionDirectNodes
  <2>3. DOMAIN entries \ Directs \subseteq DOMAIN t
    BY DEF SetSubscriptionDirectNodes, Written, All, DeleteSubscriptionEntries
  <2>4. \A l \in Legs : Off(entries, l) => Off(t, l)
    BY <1>t, LegsKept
  <2>5. Directs \in SUBSET Keys /\ Legs \cap Directs = {}
    BY LegsAssumption DEF Keys, Directs, Whole
  <2>s. /\ entries' = t /\ UNCHANGED <<listeners, forwards, task>> /\ guarded' = guarded \ K
        /\ optedOut' = (optedOut \ K) \cup {l \in K \cap DOMAIN t \cap Derivable : ~Pruning /\ ~on}
    <3>1. DOMAIN All(K, on) = K /\ \A l \in K : All(K, on)[l] = on
      BY DEF All
    <3> QED
      BY <2>1, <3>1 DEF Saved
  <2> HIDE DEF t
  <2> QED
    BY <2>s, <2>2, <2>3, <2>4, <2>5, SaveStep
<1>5. CASE Import
  <2>1. PICK k \in Keys, on \in BOOLEAN : Saved(RestoreSubscriptionEntries(entries, All({k}, on)), All({k}, on))
    BY <1>5 DEF Import
  <2> DEFINE t == RestoreSubscriptionEntries(entries, All({k}, on))
             K == {k}
  <2>2. Table(t)
    BY <1>t, TablesWritten DEF RestoreSubscriptionEntries
  <2>3. DOMAIN entries \subseteq DOMAIN t /\ t[k] = on
    BY DEF RestoreSubscriptionEntries, Written, All
  <2>4. \A l \in Legs \ {k} : Off(entries, l) => Off(t, l)
    BY <1>t, LegsKept
  <2>s. /\ entries' = t /\ UNCHANGED <<listeners, forwards, task>> /\ guarded' = guarded \ K
        /\ optedOut' = (optedOut \ K) \cup {l \in K \cap DOMAIN t \cap Derivable : ~Pruning /\ ~on}
    <3>1. DOMAIN All(K, on) = K /\ \A l \in K : All(K, on)[l] = on
      BY DEF All
    <3> QED
      BY <2>1, <3>1 DEF Saved
  <2> HIDE DEF t
  <2> QED
    BY <2>s, <2>2, <2>3, <2>4, SaveStep
<1>6. CASE Restarts
  BY <1>6 DEF Restarts, SubInv, SubTypes, NoTask, Tasks, Pruning, listeners, forwards, Table, Derivable,
              RelayCandidates, LiveAnytlsPorts, OrPair
<1>7. ASSUME UNCHANGED <<listeners, forwards, optedOut>>, task' \in Tasks, Table(entries'),
             \A l \in optedOut : Off(entries', l), guarded' \subseteq inFlight \cap DOMAIN entries',
             Pruning' => task'.landable \/ optedOut = {},
             task'.pc \in {"inflight", "delete"} => optedOut \subseteq task'.derived,
             task'.pc = "delete" => guarded' \subseteq task'.inFlight
      PROVE  SubInv'
  BY <1>t, <1>7 DEF SubInv, SubTypes, listeners, forwards, Derivable, RelayCandidates, LiveAnytlsPorts, OrPair
<1>8. ASSUME UNCHANGED <<listeners, forwards, optedOut>>, task' \in Tasks, Table(entries'),
             \A l \in optedOut : Off(entries', l), guarded' \subseteq guarded, DOMAIN entries \subseteq DOMAIN entries',
             task'.pc \in {"idle", "split", "write", "enrol", "insert"}
      PROVE  SubInv'
  BY <1>7, <1>8 DEF SubInv, Pruning
<1>9. CASE PruneReadsFile
  <2>1. optedOut # {} => anytls # {}
    BY DEF SubInv, Derivable
  <2>2. IngressPorts \subseteq Ports
    BY <1>t DEF SubTypes, IngressPorts, OrPair, Live
  <2>3. /\ task' \in Tasks /\ task'.landable = (anytls # {}) /\ task'.pc \in {"derive", "split"}
        /\ guarded' = inFlight \cap DOMAIN entries /\ UNCHANGED <<listeners, forwards, optedOut, entries>>
    BY <1>t, <1>9, <2>2 DEF PruneReadsFile, NoTask, Tasks, Table
  <2> QED
    BY <1>t, <1>7, <2>1, <2>3 DEF SubInv
<1>10. CASE PruneReadsForwards
  BY <1>t, <1>7, <1>10 DEF PruneReadsForwards, Step, Reads, SubInv, Pruning, Tasks, Derivable, RelayCandidates
<1>11. CASE PruneReadsRows
  BY <1>t, <1>7, <1>11 DEF PruneReadsRows, Step, Reads, SubInv, SubTypes, Pruning, Tasks
<1>12. CASE PruneDeletes
  <2>1. /\ task.pc = "delete" /\ task' = [task EXCEPT !.pc = "split"]
        /\ entries' = DeleteSubscriptionEntries(entries, GoneDirects \cup GoneLegs)
        /\ UNCHANGED <<listeners, forwards, optedOut, guarded>>
    BY <1>12 DEF PruneDeletes, Step, Writes
  <2>2. \A l \in optedOut : l \in Legs /\ l \notin GoneDirects /\ l \notin GoneLegs
    BY <2>1, LegsAssumption DEF SubInv, Pruning, GoneDirects, GoneLegs, Derivable, RelayCandidates
  <2>3. guarded \cap (GoneDirects \cup GoneLegs) = {}
    BY <1>t, <2>1, LegsAssumption DEF SubInv, SubTypes, GoneDirects, GoneLegs
  <2>4. \A l \in optedOut : Off(entries', l)
    BY <1>t, <2>1, <2>2, LegsKept DEF SubInv
  <2>5. guarded' \subseteq inFlight \cap DOMAIN entries'
    BY <2>1, <2>3 DEF SubInv, DeleteSubscriptionEntries
  <2>6. Table(entries')
    BY <1>t, <2>1, TablesWritten
  <2>7. task' \in Tasks /\ task'.pc = "split"
    BY <1>t, <2>1 DEF Tasks
  <2> QED
    BY <1>7, <2>1, <2>4, <2>5, <2>6, <2>7 DEF Pruning
<1>13. CASE SplitReads
  <2>1. IngressPorts \subseteq Ports
    BY <1>t DEF SubTypes, IngressPorts, OrPair, Live
  <2>2. Whole \in DOMAIN entries => entries[Whole] \in BOOLEAN
    BY <1>t DEF Table
  <2>3. task' \in Tasks /\ task'.pc \in {"write", "enrol"}
    BY <1>13, <2>1, <2>2 DEF SplitReads, Step, NoTask, Tasks
  <2>4. UNCHANGED <<listeners, forwards, optedOut, entries>> /\ guarded' = {}
    BY <1>13 DEF SplitReads, Reads
  <2> QED
    BY <1>t, <1>8, <2>3, <2>4 DEF SubInv
<1>14. CASE SplitWrites
  <2>1. /\ task.pc = "write" /\ task' = [NoTask EXCEPT !.pc = "enrol"]
        /\ entries' = SplitSubscriptionDirectEntry(entries, task.on, task.ports)
        /\ UNCHANGED <<listeners, forwards, optedOut, guarded>>
    BY <1>14 DEF SplitWrites, Step, Writes
  <2>2. task.on \in BOOLEAN /\ task.ports \in SUBSET Ports
    BY <1>t DEF Tasks
  <2>3. \A l \in optedOut : Off(entries', l)
    BY <1>t, <2>1, <2>2, LegsKept DEF SubInv, Derivable, RelayCandidates
  <2>4. Table(entries')
    <3>1. task.ports \in SUBSET Keys
      BY <2>2 DEF Keys, Directs
    <3> QED
      BY <1>t, <2>1, <2>2, <3>1, TablesWritten DEF SplitSubscriptionDirectEntry
  <2>5. guarded \subseteq DOMAIN entries'
    BY <1>t, <2>1, PortsAssumption DEF SubInv, SubTypes, SplitSubscriptionDirectEntry, Written, All,
       DeleteSubscriptionEntries, Whole
  <2>6. task' \in Tasks /\ task'.pc = "enrol"
    BY <2>1 DEF NoTask, Tasks
  <2> QED
    BY <1>7, <2>1, <2>3, <2>4, <2>5, <2>6 DEF SubInv, Pruning
<1>15. CASE EnrolReads
  <2>1. RelayCandidates \subseteq Legs
    BY DEF RelayCandidates
  <2>2. task' \in Tasks /\ task'.pc \in {"insert", "idle"}
    BY <1>15, <2>1 DEF EnrolReads, Step, NoTask, Tasks
  <2>3. UNCHANGED <<listeners, forwards, optedOut, entries, guarded>>
    BY <1>15 DEF EnrolReads, Reads
  <2> QED
    BY <1>t, <1>8, <2>2, <2>3 DEF SubInv
<1>16. CASE EnrolInserts
  <2>1. /\ task' = NoTask /\ entries' = InsertSubscriptionEntryIfAbsent(entries, task.add)
        /\ UNCHANGED <<listeners, forwards, optedOut, guarded>>
    BY <1>16 DEF EnrolInserts, Step, Writes
  <2>2. task.add \in SUBSET Legs
    BY <1>t DEF Tasks
  <2>3. \A l \in optedOut : Off(entries', l)
    BY <1>t, <2>1, LegsKept DEF SubInv, Derivable, RelayCandidates
  <2>4. Table(entries') /\ DOMAIN entries \subseteq DOMAIN entries'
    BY <1>t, <2>1, <2>2 DEF InsertSubscriptionEntryIfAbsent, Table, Written, All, Keys
  <2>5. task' \in Tasks /\ task'.pc = "idle"
    BY <2>1 DEF NoTask, Tasks
  <2> QED
    BY <1>8, <2>1, <2>3, <2>4, <2>5
<1>17. CASE UNCHANGED subVars
  BY <1>t, <1>17 DEF subVars, SubInv, SubTypes, listeners, forwards, Derivable, RelayCandidates, LiveAnytlsPorts,
     OrPair, Pruning
<1> QED
  BY <1>1, <1>2, <1>3, <1>4, <1>5, <1>6, <1>9, <1>10, <1>11, <1>12, <1>13, <1>14, <1>15, <1>16, <1>17 DEF SubNext

\* For any set of ports and legs: an entry an operator switched off while no
\* prune was reading stays, and stays off, as long as it can be derived
\* (sub_entries.go:586-590, 891).
THEOREM OptOutsHold == SubSpec => []OptOutHolds
<1>1. SubInv => OptOutHolds
  BY DEF SubInv, Off, OptOutHolds
<1> QED
  BY <1>1, SubInvInit, SubInvStep, PTL DEF SubSpec

\* For any set of ports and legs: a prune does not delete the entry of a listener
\* that was in flight when it started (sub_entries.go:606-614).
THEOREM GuardedEntriesStay == SubSpec => GuardedEntryStays
<1>1. ASSUME SubInv, PruneDeletes PROVE guarded \subseteq DOMAIN entries'
  <2>1. task.pc = "delete" /\ entries' = DeleteSubscriptionEntries(entries, GoneDirects \cup GoneLegs)
    BY <1>1 DEF PruneDeletes, Step
  <2> QED
    BY <1>1, <2>1, LegsAssumption DEF SubInv, SubTypes, GoneDirects, GoneLegs, DeleteSubscriptionEntries
<1>2. SubInv /\ [SubNext]_subVars => [PruneDeletes => guarded \subseteq DOMAIN entries']_subVars
  BY <1>1
<1>3. SubSpec => []SubInv
  BY SubInvInit, SubInvStep, PTL DEF SubSpec
<1> QED
  BY <1>2, <1>3, PTL DEF SubSpec, GuardedEntryStays

\* For any set of ports and legs: what the page offers is what the renderer can
\* land on, with the exception PickerAgrees names (config_editor.go:96-103).
THEOREM PickersAgree == SubSpec => []PickerAgrees
<1>1. ASSUME SubTypes, NEW k \in Keys, Available(k), k \in Legs => anytls # {} \/ Live = {}
      PROVE  Outbounds(k) # {}
  <2>1. CASE k \in Legs
    <3>1. rules[k] \in LiveAnytlsPorts
      BY <1>1, <2>1 DEF Available, RelayCandidates
    <3>2. LandsOn(k) = {rules[k]}
      BY <1>1, <2>1, <3>1 DEF LandsOn, LiveAnytlsPorts, OrPair, Live
    <3> QED
      BY <2>1, <3>2 DEF Outbounds
  <2>2. CASE k \notin Legs
    <3>1. IngressPorts # {} /\ IngressPorts \subseteq Ports /\ k \in {Whole} \cup IngressPorts
      BY <1>1, <2>2 DEF Available, SubTypes, IngressPorts, OrPair, Live
    <3>2. OrPair(Live) = IngressPorts
      BY DEF IngressPorts
    <3> QED
      BY <2>2, <3>1, <3>2 DEF Outbounds
  <2> QED
    BY <2>1, <2>2
<1>2. SubInv => PickerAgrees
  BY <1>1 DEF SubInv, PickerAgrees
<1> QED
  BY <1>2, SubInvInit, SubInvStep, PTL DEF SubSpec

(***************************************************************************)
(* Links.                                                                  *)
(***************************************************************************)
\* What a row may name, and the documents a template may be.
Names == TemplateIds \cup {""}
Docs == {NoTemplate} \cup [format : Formats, rules : {"written", "placeholder", "inlined"}]
\* A row names a template that was there once, or none.
Bindable(row) == "template" \in DOMAIN row /\ row.template \in Names
\* A save that is under way names a template that was there when it was read.
SaveTyped == \A f \in DOMAIN save : f \in {"name", "template"} => save[f] \in Names
\* A template is never emptied; a placeholder is left only by a start that could
\* not inline it.
LinkInv ==
  /\ link.there => Bindable(link)
  /\ templates \in [TemplateIds -> Docs]
  /\ SaveTyped
  /\ fetch.pc \in {"format", "render"} => Bindable(fetch.row)
  /\ linkSpent \in [writes : Nat, fetches : Nat, starts : Nat]
  /\ body.template # NoTemplate => body.template.format = body.format
  /\ body.template.rules # "emptied"
  /\ \A t \in TemplateIds : templates[t].rules = "placeholder" => (failed \/ ~Serving) /\ snippets

\* No body has been served.
LEMMA LinkInvInit == LinkInit => LinkInv
<1> SUFFICES ASSUME LinkInit PROVE LinkInv
  OBVIOUS
<1>1. DOMAIN <<>> = {}
  OBVIOUS
<1>2. templates \in [TemplateIds -> Docs]
  BY DEF LinkInit, Docs
<1> QED
  BY <1>1, <1>2 DEF LinkInit, LinkInv, SaveTyped, NoLink, NoFetch, NoTemplate, Serving

\* Serving, saving a link, editing templates and the migration of a start.
LEMMA LinkInvStep == LinkInv /\ [LinkNext]_linkVars => LinkInv'
<1> SUFFICES ASSUME LinkInv, [LinkNext]_linkVars PROVE LinkInv'
  OBVIOUS
<1> USE DEF LinkInv
<1>s. \A max : \A what \in {"writes", "fetches", "starts"} :
        Spend(what, max) => /\ linkSpent' \in [writes : Nat, fetches : Nat, starts : Nat]
                            /\ what # "starts" => linkSpent'.starts = linkSpent.starts
                            /\ what = "starts" => linkSpent'.starts > 0
  BY DEF Spend
<1>1. CASE CreateSubscription
  <2>1. Bindable(link')
    BY <1>1 DEF CreateSubscription, Minted, Bindable, Names
  <2> QED
    BY <1>1, <2>1 DEF CreateSubscription, Minted, SaveTyped, Serving
<1>2. CASE RotateSubscriptionToken
  <2>1. Bindable(link')
    BY <1>2 DEF RotateSubscriptionToken, Minted, Bindable
  <2> QED
    BY <1>2, <2>1 DEF RotateSubscriptionToken, Minted, SaveTyped, Serving
<1>3. CASE DeleteSubscription
  BY <1>s, <1>3 DEF DeleteSubscription, SaveTyped, NoLink, Serving
<1>4. CASE UpdateSubscription
  <2>1. \/ save' = [name |-> link.template]
        \/ \E F \in SUBSET {"format", "filter", "on", "template"}, v \in Values : save' = [f \in F |-> v[f]]
    <3>1. ToSet(Fields) = {"format", "filter", "on", "template"}
      BY DEF ToSet, Fields
    <3>3. CASE save' \in LinkUpdates
      BY <3>1, <3>3 DEF LinkUpdates
    <3> QED
      BY <1>4, <3>3 DEF UpdateSubscription
  <2>2. link.template \in Names
    BY <1>4 DEF UpdateSubscription, Bindable
  <2>3. \A v \in Values : v["template"] \in Names
    BY DEF Values, Names
  <2>4. SaveTyped'
    BY <2>1, <2>2, <2>3 DEF SaveTyped
  <2> QED
    BY <1>s, <1>4, <2>4 DEF UpdateSubscription, Serving
<1>5. CASE SetSubscription
  <2>1. PICK f \in DOMAIN save :
       /\ link' = IF link.there /\ ~Refused(f)
                  THEN [link EXCEPT ![IF f = "name" THEN "template" ELSE f] = save[f]] ELSE link
       /\ save' = [g \in DOMAIN save \ {f} |-> save[g]]
    BY <1>5 DEF SetSubscription
  <2>2. UNCHANGED <<tokens, templates, snippets, fetch, body, failed, linkSpent>>
    BY <1>5 DEF SetSubscription
  <2>3. SaveTyped'
    BY <2>1 DEF SaveTyped
  <2>4. link'.there => Bindable(link')
    <3>1. CASE f \in {"name", "template"}
      BY <2>1, <3>1 DEF Bindable, SaveTyped
    <3>2. CASE f \notin {"name", "template"}
      BY <2>1, <3>2 DEF Bindable
    <3> QED
      BY <3>1, <3>2
  <2> QED
    BY <2>2, <2>3, <2>4 DEF Serving
<1>6. CASE SaveTemplate
  <2>1. PICK t \in TemplateIds, f \in Formats : templates' = [templates EXCEPT ![t] = Builtin(f)]
    BY <1>6 DEF SaveTemplate
  <2>2. Builtin(f) \in Docs /\ Builtin(f).rules = "written"
    BY DEF Builtin, Docs
  <2> HIDE DEF Docs
  <2> QED
    BY <1>s, <1>6, <2>1, <2>2 DEF SaveTemplate, SaveTyped, Serving
<1>7. CASE DeleteTemplate
  <2>1. PICK t \in TemplateIds : templates' = [templates EXCEPT ![t] = NoTemplate]
    BY <1>7 DEF DeleteTemplate
  <2>2. NoTemplate \in Docs /\ NoTemplate.rules = "none"
    BY DEF NoTemplate, Docs
  <2> QED
    BY <1>s, <1>7, <2>1, <2>2 DEF DeleteTemplate, SaveTyped, Serving
<1>8. CASE PanelStarts
  <2>1. PICK kept \in SUBSET {t \in TemplateIds : templates[t].rules = "placeholder"}, dies \in BOOLEAN :
       /\ templates' = [t \in TemplateIds |->
                          IF t \in kept THEN templates[t] ELSE Inlined(templates[t])]
       /\ snippets' = IF dies THEN snippets ELSE DropsSnippets(kept)
       /\ failed' = (kept # {})
    BY <1>8 DEF PanelStarts
  <2>2. \A t \in TemplateIds : templates[t].rules = "placeholder" => snippets
    OBVIOUS
  <2>3. \A t \in TemplateIds : Inlined(templates[t]) \in Docs /\ Inlined(templates[t]).rules # "placeholder"
    <3> SUFFICES ASSUME NEW t \in TemplateIds
                 PROVE  Inlined(templates[t]) \in Docs /\ Inlined(templates[t]).rules # "placeholder"
      OBVIOUS
    <3>1. templates[t] \in Docs
      OBVIOUS
    <3>2. CASE templates[t].rules # "placeholder"
      BY <3>1, <3>2 DEF Inlined
    <3>3. CASE templates[t].rules = "placeholder"
      <4>1. snippets /\ templates[t] \in [format : Formats, rules : {"written", "placeholder", "inlined"}]
        BY <3>1, <3>3, <2>2 DEF Docs, NoTemplate
      <4>2. Inlined(templates[t]) = [templates[t] EXCEPT !.rules = "inlined"]
        BY <3>3, <4>1 DEF Inlined
      <4> QED
        BY <4>1, <4>2 DEF Docs
    <3> QED
      BY <3>2, <3>3
  <2>4. templates' \in [TemplateIds -> Docs]
    BY <2>1, <2>3
  <2>5. \A t \in TemplateIds : templates'[t].rules = "placeholder" => failed' /\ snippets'
    BY <2>1, <2>2, <2>3 DEF DropsSnippets
  <2>6. linkSpent' \in [writes : Nat, fetches : Nat, starts : Nat]
    BY <1>8, <1>s DEF PanelStarts
  <2>7. /\ save' = <<>> /\ fetch' = NoFetch /\ UNCHANGED <<link, body>> /\ DOMAIN <<>> = {}
    BY <1>8 DEF PanelStarts
  <2> QED
    BY <2>4, <2>5, <2>6, <2>7 DEF SaveTyped, NoFetch
<1>9. CASE LookUp
  <2>1. fetch'.pc \in {"format", "render"} => Bindable(fetch'.row)
    BY <1>9 DEF LookUp
  <2> QED
    BY <1>s, <1>9, <2>1 DEF LookUp, SaveTyped, Serving
<1>10. CASE ResolveFormat
  <2>1. Bindable(fetch'.row)
    BY <1>10 DEF ResolveFormat
  <2> QED
    BY <1>10, <2>1 DEF ResolveFormat, SaveTyped, Serving
<1>11. CASE RenderSubscription
  <2>1. Bindable(fetch.row) /\ body' = [format |-> fetch.format, template |-> Chosen(fetch.row, fetch.format)]
    BY <1>11 DEF RenderSubscription
  <2>2. Bound(fetch.row) \in Docs
    BY <2>1 DEF Bound, Bindable, Names, Docs
  <2>3. Bound(fetch.row).rules # "emptied"
    BY <2>2 DEF Docs, NoTemplate
  <2>4. /\ Chosen(fetch.row, fetch.format).format = fetch.format
        /\ Chosen(fetch.row, fetch.format).rules # "emptied"
    BY <2>3 DEF Chosen, Builtin
  <2>5. body'.template # NoTemplate => body'.template.format = body'.format
    BY <2>1, <2>4
  <2> QED
    BY <1>11, <2>1, <2>4, <2>5 DEF RenderSubscription, SaveTyped, NoFetch, Serving
<1>12. CASE UNCHANGED linkVars
  BY <1>12 DEF linkVars, SaveTyped, Serving
<1> QED
  BY <1>1, <1>2, <1>3, <1>4, <1>5, <1>6, <1>7, <1>8, <1>9, <1>10, <1>11, <1>12 DEF LinkNext

\* For any set of templates: a body is rendered from a template of its own format
\* that is not empty of rules (sub_handlers.go:1000-1010).
THEOREM BodiesAreWhole == LinkSpec => []BodyIsWhole
<1>1. \A d \in Docs : d.rules # "emptied"
  BY DEF Docs, NoTemplate
<1>2. LinkInv => BodyIsWhole
  BY <1>1 DEF LinkInv, BodyIsWhole
<1> QED
  BY <1>2, LinkInvInit, LinkInvStep, PTL DEF LinkSpec

(***************************************************************************)
(* Port forwards.                                                       *)
(***************************************************************************)
\* A chain: no two rules have a handle in common, and none is above the newest.
Numbered(chain, n) ==
  /\ IsFiniteSet(chain)
  /\ \A r \in chain : r.handle \in 1..n
  /\ \A r, s \in chain : r.handle = s.handle => r = s
Ways == {"edit", "reload"}

\* A command in its transaction knows what it read: nothing came between, or a rule
\* that came since has a handle nobody had.
PlanMade(fwds, masq) ==
  /\ Plan(fwds, masq, command.req) # <<>>
  /\ command.plan = Plan(fwds, masq, command.req)[1]
Planned ==
  command.pc = "nft" =>
    /\ command.touched \in SUBSET Ways
    /\ \E masq : PlanMade(command.read, masq)
    /\ command.touched = {} => command.read = pre /\ PlanMade(pre, post)
    /\ "reload" \notin command.touched =>
         /\ \A t \in command.read : t.handle \in 1..top
         /\ \A t \in command.read, r \in pre : r.handle = t.handle => r = t
CommandShaped ==
  \/ command = NoCommand
  \/ /\ DOMAIN command = {"pc", "req", "touched", "plan", "read"}
     /\ command.pc \in {"nft", "persist"}
Chained ==
  /\ top \in Nat /\ Numbered(pre, top) /\ Numbered(post, top)
  /\ \E n \in Nat : Numbered(conf.pre, n) /\ Numbered(conf.post, n)
ForwardInv == CommandShaped /\ Chained /\ Planned

\* The places of a chain are its first numbers, one for each rule.
LEMMA PlacesDiffer ==
  ASSUME NEW chain, NEW m \in Nat, Numbered(chain, m)
  PROVE  /\ Cardinality(chain) \in Nat
         /\ \A r \in chain : Place(chain, r) \in 1..Cardinality(chain)
         /\ \A r, s \in chain : Place(chain, r) = Place(chain, s) => r = s
<1> DEFINE below(r) == {s \in chain : s.handle <= r.handle}
<1>0. \A r : Place(chain, r) = Cardinality(below(r))
  BY DEF Place
<1>1. IsFiniteSet(chain) /\ Cardinality(chain) \in Nat
  BY FS_CardinalityType DEF Numbered
<1>2. \A r \in chain : r.handle \in Nat
  BY DEF Numbered
<1>3. ASSUME NEW r \in chain PROVE Place(chain, r) \in 1..Cardinality(chain) /\ IsFiniteSet(below(r))
  <2>1. below(r) \subseteq chain /\ r \in below(r)
    BY <1>2
  <2> HIDE DEF below
  <2>2. IsFiniteSet(below(r)) /\ Cardinality(below(r)) <= Cardinality(chain)
        /\ Cardinality(below(r)) \in Nat
    BY <1>1, <2>1, FS_Subset, FS_CardinalityType
  <2>3. Cardinality(below(r)) # 0
    BY <2>1, <2>2, FS_EmptySet
  <2> QED
    BY <1>0, <1>1, <2>2, <2>3
<1>4. ASSUME NEW r \in chain, NEW s \in chain, Place(chain, r) = Place(chain, s) PROVE r = s
  <2>1. r.handle \in Nat /\ s.handle \in Nat
    BY <1>2
  <2>2. ASSUME NEW a \in chain, NEW b \in chain, a.handle < b.handle
        PROVE  Place(chain, a) # Place(chain, b)
    <3>1. below(a) \subseteq below(b) /\ b \in below(b) /\ b \notin below(a)
      BY <1>2, <2>2
    <3>2. IsFiniteSet(below(b))
      BY <1>3
    <3> HIDE DEF below
    <3> QED
      BY <1>0, <3>1, <3>2, FS_Subset
  <2>3. r.handle = s.handle
    BY <1>4, <2>1, <2>2
  <2> QED
    BY <2>3 DEF Numbered
<1> QED
  BY <1>1, <1>3, <1>4

\* A chain without some rules; a chain and one rule more.
LEMMA LessChain ==
  ASSUME NEW chain, NEW n \in Nat, Numbered(chain, n), NEW hs
  PROVE  Numbered(Minus(chain, hs), n)
<1>1. Minus(chain, hs) \subseteq chain
  BY DEF Minus
<1>2. IsFiniteSet(Minus(chain, hs))
  BY <1>1, FS_Subset DEF Numbered
<1> QED
  BY <1>1, <1>2 DEF Numbered

\* Its new rule has a handle above the newest.
LEMMA MoreChain ==
  ASSUME NEW chain, NEW n \in Nat, Numbered(chain, n), NEW rule, NEW m \in Nat,
         rule.handle \in (n + 1)..m
  PROVE  Numbered(chain \cup {rule}, m)
<1>1. IsFiniteSet(chain \cup {rule})
  BY FS_AddElement DEF Numbered
<1>2. \A r \in chain : r.handle \in 1..n
  BY DEF Numbered
<1>3. \A r, s \in chain : r.handle = s.handle => r = s
  BY DEF Numbered
<1>4. \A r \in chain \cup {rule} : r.handle \in 1..m
  BY <1>2
<1>5. \A r, s \in chain \cup {rule} : r.handle = s.handle => r = s
  BY <1>2, <1>3
<1> QED
  BY <1>1, <1>4, <1>5 DEF Numbered

\* Handles that are given out later name no rule of a chain.
LEMMA LaterChain ==
  ASSUME NEW chain, NEW n \in Nat, Numbered(chain, n), NEW m \in Nat, n <= m
  PROVE  Numbered(chain, m)
BY DEF Numbered

\* What a request may take away: rules that were read and are the forward it names.
LEMMA TargetsAlike ==
  ASSUME NEW fwds, NEW want
  PROVE  ResolveTargets(fwds, want) \subseteq {r \in fwds : SameForward(r, want)}
BY DEF ResolveTargets

\* The plan of a request.
LEMMA PlanFacts ==
  ASSUME NEW fwds, NEW masq, NEW req, Plan(fwds, masq, req) # <<>>
  PROVE  LET plan == Plan(fwds, masq, req)[1]
             targets == IF req.action = "add" THEN {} ELSE ResolveTargets(fwds, req.old)
         IN  /\ plan.pre = {t.handle : t \in targets}
             /\ plan.post = MasqHandlesToDrop(targets, Without(fwds, targets), masq)
             /\ plan.add = IF req.action = "delete" THEN {} ELSE {req.new}
BY DEF Plan

\* The same, of a plan whose targets have a name.
LEMMA PlanTakes ==
  ASSUME NEW fwds, NEW masq, NEW req, Plan(fwds, masq, req) # <<>>, NEW targets,
         targets = IF req.action = "add" THEN {} ELSE ResolveTargets(fwds, req.old)
  PROVE  /\ Plan(fwds, masq, req)[1].pre = {t.handle : t \in targets}
         /\ Plan(fwds, masq, req)[1].post = MasqHandlesToDrop(targets, Without(fwds, targets), masq)
BY DEF Plan

\* A plan adds at most the forward its request names.
LEMMA PlanAdds ==
  ASSUME NEW fwds, NEW masq, NEW req, Plan(fwds, masq, req) # <<>>
  PROVE  Plan(fwds, masq, req)[1].add \in {{}, {req.new}}
BY DEF Plan

\* A probe without a command plans nothing.
LEMMA IdlePlansNothing ==
  /\ command = NoCommand => CommandShaped /\ Planned
  /\ command' = NoCommand => CommandShaped' /\ Planned'
<1>1. NoCommand.pc # "nft"
  BY DEF NoCommand
<1> QED
  BY <1>1 DEF CommandShaped, Planned

\* An empty table: nothing is numbered and nothing planned.
LEMMA ForwardInvInit == ForwardInit => ForwardInv
<1> SUFFICES ASSUME ForwardInit PROVE ForwardInv
  OBVIOUS
<1>1. \A n \in Nat : Numbered({}, n)
  BY FS_EmptySet DEF Numbered
<1>2. Chained
  BY <1>1 DEF ForwardInit, Chained
<1> QED
  BY <1>2, IdlePlansNothing DEF ForwardInit, ForwardInv

\* Something beside the panel happens: a command under way has seen too little.
LEMMA BesideStep ==
  ASSUME ForwardInv, NEW how \in Ways, Touches(how), UNCHANGED conf,
         top' \in Nat, Numbered(pre', top'), Numbered(post', top'),
         how # "reload" => /\ top <= top'
                           /\ \A r \in pre' \ pre : r.handle > top
  PROVE  ForwardInv'
<1>0. Chained'
  BY DEF ForwardInv, Chained
<1>1. CASE command = NoCommand
  <2>1. command' = NoCommand
    BY <1>1 DEF Touches
  <2> QED
    BY <1>0, <2>1, IdlePlansNothing DEF ForwardInv
<1>2. CASE command # NoCommand
  <2>1. /\ DOMAIN command = {"pc", "req", "touched", "plan", "read"}
        /\ command' = [command EXCEPT !.touched = @ \cup {how}]
        /\ command.pc \in {"nft", "persist"}
    BY <1>2 DEF ForwardInv, CommandShaped, Touches
  <2>2. /\ DOMAIN command' = {"pc", "req", "touched", "plan", "read"}
        /\ command'.pc = command.pc /\ command'.req = command.req /\ command'.plan = command.plan
        /\ command'.read = command.read /\ command'.touched = command.touched \cup {how}
    BY <2>1
  <2>3. ASSUME command.pc = "nft" PROVE Planned'
    <3>1. command.touched \in SUBSET Ways /\ command'.touched # {} /\ \E masq : PlanMade(command.read, masq)
      BY <2>2, <2>3 DEF ForwardInv, Planned
    <3>2. PICK masq : PlanMade(command.read, masq)
      BY <3>1
    <3>3. PlanMade(command.read, masq)'
      BY <2>2, <3>2 DEF PlanMade
    <3>4. \E m : PlanMade(command.read, m)'
      BY <3>3
    <3>5. ASSUME "reload" \notin command'.touched
          PROVE  /\ \A t \in command'.read : t.handle \in 1..top'
                 /\ \A t \in command'.read, r \in pre' : r.handle = t.handle => r = t
      <4>1. "reload" \notin command.touched /\ how # "reload"
        BY <2>2, <3>5
      <4>2. /\ \A t \in command.read : t.handle \in 1..top
            /\ \A t \in command.read, r \in pre : r.handle = t.handle => r = t
        BY <2>3, <4>1 DEF ForwardInv, Planned
      <4>3. top \in Nat /\ top <= top' /\ \A r \in pre' \ pre : r.handle > top
        BY <4>1 DEF ForwardInv, Chained
      <4>4. \A t \in command.read : t.handle \in 1..top'
        BY <4>2, <4>3
      <4>5. ASSUME NEW t \in command.read, NEW r \in pre', r.handle = t.handle PROVE r = t
        <5>1. r \in pre
          BY <4>2, <4>3, <4>5
        <5> QED
          BY <4>2, <4>5, <5>1
      <4> QED
        BY <2>2, <4>4, <4>5
    <3>6. command'.touched \in SUBSET Ways
      BY <2>2, <3>1 DEF Ways
    <3> QED
      BY <3>1, <3>4, <3>5, <3>6 DEF Planned
  <2>4. command.pc # "nft" => Planned'
    BY <2>2 DEF Planned
  <2>5. CommandShaped'
    BY <2>1, <2>2 DEF CommandShaped
  <2> QED
    BY <1>0, <2>1, <2>3, <2>4, <2>5 DEF ForwardInv
<1> QED
  BY <1>1, <1>2

\* Every step keeps it: an append numbers one higher, a reload numbers anew and leaves
\* its mark on the command that is under way.
LEMMA ForwardInvStep == ForwardInv /\ [ForwardNext]_forwardVars => ForwardInv'
<1> SUFFICES ASSUME ForwardInv, [ForwardNext]_forwardVars PROVE ForwardInv'
  OBVIOUS
<1>i. top \in Nat /\ Numbered(pre, top) /\ Numbered(post, top)
  BY DEF ForwardInv, Chained
<1>1. CASE HandAdds
  <2>1. PICK f \in Forward, extra \in BOOLEAN, masquerade \in BOOLEAN :
          /\ pre' = pre \cup {Rule(f, extra, top + 1)}
          /\ post' = IF masquerade THEN post \cup {Masquerade(f.dst, top + 2)} ELSE post
    BY <1>1 DEF HandAdds
  <2>2. /\ Touches("edit") /\ UNCHANGED conf /\ top' = top + 2
    BY <1>1 DEF HandAdds, Beside
  <2>3. /\ Rule(f, extra, top + 1).handle = top + 1
        /\ Masquerade(f.dst, top + 2).handle = top + 2
    BY DEF Rule, Masquerade
  <2>4. Numbered(pre', top')
    BY <1>i, <2>1, <2>2, <2>3, MoreChain
  <2>5. Numbered(post', top')
    <3>1. CASE masquerade
      <4>1. post' = post \cup {Masquerade(f.dst, top + 2)}
        BY <2>1, <3>1
      <4>2. Masquerade(f.dst, top + 2).handle \in (top + 1)..(top + 2) /\ top + 2 \in Nat
        BY <1>i, <2>3
      <4> QED
        BY <1>i, <2>2, <4>1, <4>2, MoreChain
    <3>2. CASE ~masquerade
      BY <1>i, <2>1, <2>2, <3>2, LaterChain
    <3> QED
      BY <3>1, <3>2
  <2>6. top <= top' /\ \A r \in pre' \ pre : r.handle > top
    BY <1>i, <2>1, <2>2, <2>3
  <2> QED
    BY <1>i, <2>2, <2>4, <2>5, <2>6, BesideStep DEF Ways
<1>2. CASE HandDeletes
  <2>1. PICK h : pre' = Minus(pre, {h}) /\ post' = Minus(post, {h})
    BY <1>2 DEF HandDeletes
  <2>2. Touches("edit") /\ UNCHANGED <<conf, top>>
    BY <1>2 DEF HandDeletes, Beside
  <2>3. Numbered(pre', top') /\ Numbered(post', top')
    BY <1>i, <2>1, <2>2, LessChain
  <2>4. top <= top' /\ \A r \in pre' \ pre : r.handle > top
    BY <1>i, <2>1, <2>2 DEF Minus
  <2> QED
    BY <1>i, <2>2, <2>3, <2>4, BesideStep DEF Ways
<1>3. CASE Reload
  <2>1. PICK table \in {[pre |-> pre, post |-> post], conf} :
          /\ pre' = {Rule(r, r.extra, Place(table.pre, r)) : r \in table.pre}
          /\ post' = {Masquerade(r.dst, Cardinality(table.pre) + Place(table.post, r)) :
                        r \in table.post}
          /\ top' = Cardinality(table.pre) + Cardinality(table.post)
    BY <1>3 DEF Reload
  <2>2. Touches("reload") /\ UNCHANGED conf
    BY <1>3 DEF Reload, Beside
  <2>3. PICK n \in Nat : Numbered(table.pre, n) /\ Numbered(table.post, n)
    BY <1>i, <2>1 DEF ForwardInv, Chained
  <2>4. /\ Cardinality(table.pre) \in Nat /\ Cardinality(table.post) \in Nat
        /\ \A r \in table.pre : Place(table.pre, r) \in 1..Cardinality(table.pre)
        /\ \A r \in table.post : Place(table.post, r) \in 1..Cardinality(table.post)
        /\ \A r, s \in table.pre : Place(table.pre, r) = Place(table.pre, s) => r = s
        /\ \A r, s \in table.post : Place(table.post, r) = Place(table.post, s) => r = s
    BY <2>3, PlacesDiffer
  <2>5. Numbered(pre', top')
    <3> DEFINE f == [r \in table.pre |-> Rule(r, r.extra, Place(table.pre, r))]
    <3>1. \A r \in table.pre : f[r].handle = Place(table.pre, r) /\ f[r] \in pre'
      BY <2>1 DEF Rule
    <3>2. f \in Surjection(table.pre, pre')
      BY <2>1 DEF Surjection
    <3>3. \A q \in pre' : \E r \in table.pre : q = f[r]
      BY <2>1
    <3> HIDE DEF f
    <3>4. IsFiniteSet(pre')
      BY <2>3, <3>2, FS_Surjection DEF Numbered
    <3>5. \A q \in pre' : q.handle \in 1..top'
      <4>1. Cardinality(table.pre) <= top' /\ top' \in Nat
        BY <2>1, <2>4
      <4>2. \A r \in table.pre : f[r].handle \in 1..top'
        BY <2>4, <3>1, <4>1
      <4> QED
        BY <3>3, <4>2
    <3>6. \A p, q \in pre' : p.handle = q.handle => p = q
      BY <2>4, <3>1, <3>3
    <3> QED
      BY <3>4, <3>5, <3>6 DEF Numbered
  <2>6. Numbered(post', top')
    <3> DEFINE n0 == Cardinality(table.pre)
               f == [r \in table.post |-> Masquerade(r.dst, n0 + Place(table.post, r))]
    <3>1. \A r \in table.post : f[r].handle = n0 + Place(table.post, r) /\ f[r] \in post'
      BY <2>1 DEF Masquerade
    <3>2. f \in Surjection(table.post, post')
      BY <2>1 DEF Surjection
    <3>3. \A q \in post' : \E r \in table.post : q = f[r]
      BY <2>1
    <3>7. n0 \in Nat /\ top' = n0 + Cardinality(table.post)
      BY <2>1, <2>4
    <3> HIDE DEF f, n0
    <3>4. IsFiniteSet(post')
      BY <2>3, <3>2, FS_Surjection DEF Numbered
    <3>5. \A q \in post' : q.handle \in 1..top'
      <4>1. \A r \in table.post : f[r].handle \in 1..top'
        BY <2>4, <3>1, <3>7
      <4> QED
        BY <3>3, <4>1
    <3>6. ASSUME NEW p \in post', NEW q \in post', p.handle = q.handle PROVE p = q
      <4>1. PICK r \in table.post, s \in table.post : p = f[r] /\ q = f[s]
        BY <3>3
      <4>2. Place(table.post, r) = Place(table.post, s)
        BY <2>4, <3>1, <3>6, <3>7, <4>1
      <4> QED
        BY <2>4, <4>1, <4>2
    <3> QED
      BY <3>4, <3>5, <3>6 DEF Numbered
  <2>7. top' \in Nat
    BY <2>1, <2>4
  <2> QED
    BY <2>2, <2>5, <2>6, <2>7, BesideStep DEF Ways
<1>4. CASE ReadForwards
  <2>1. UNCHANGED <<pre, post, top, conf>>
    BY <1>4 DEF ReadForwards, ruleset
  <2>c. Chained'
    BY <2>1 DEF ForwardInv, Chained
  <2>2. CASE command' = NoCommand
    BY <2>c, <2>2, IdlePlansNothing DEF ForwardInv
  <2>3. CASE /\ Plan(pre, post, Head(asked)) # <<>>
             /\ command' = [pc |-> "nft", req |-> Head(asked), touched |-> {},
                            plan |-> Plan(pre, post, Head(asked))[1],
                            read |-> pre]
    <3>1. /\ command'.req = Head(asked) /\ command'.plan = Plan(pre, post, Head(asked))[1]
          /\ command'.read = pre /\ command'.touched = {} /\ command'.pc = "nft"
          /\ DOMAIN command' = {"pc", "req", "touched", "plan", "read"}
      BY <2>3
    <3>2. PlanMade(pre, post)' /\ PlanMade(command.read, post)'
      BY <2>1, <2>3, <3>1 DEF PlanMade
    <3>3. /\ \A t \in command'.read : t.handle \in 1..top'
          /\ \A t \in command'.read, r \in pre' : r.handle = t.handle => r = t
      BY <1>i, <2>1, <3>1 DEF Numbered
    <3>4. Planned'
      <4>1. \E masq : PlanMade(command.read, masq)'
        BY <3>2
      <4> QED
        BY <2>1, <3>1, <3>2, <3>3, <4>1 DEF Planned
    <3>5. CommandShaped'
      BY <3>1 DEF CommandShaped
    <3> QED
      BY <2>c, <3>4, <3>5 DEF ForwardInv
  <2> QED
    BY <1>4, <2>2, <2>3 DEF ReadForwards
<1>5. CASE Transact
  <2>0. /\ command # NoCommand /\ DOMAIN command = {"pc", "req", "touched", "plan", "read"}
        /\ command.pc = "nft" /\ UNCHANGED conf
    BY <1>5 DEF Transact, NoCommand, ForwardInv, CommandShaped
  <2>1. CASE UNCHANGED ruleset /\ command' = NoCommand
    <3>1. Chained'
      BY <2>0, <2>1 DEF ForwardInv, Chained, ruleset
    <3> QED
      BY <2>1, <3>1, IdlePlansNothing DEF ForwardInv
  <2>2. CASE /\ pre' = Minus(pre, command.plan.pre)
                        \cup {Rule(f, FALSE, top + 1) : f \in command.plan.add}
             /\ post' = Minus(post, command.plan.post)
                         \cup {Masquerade(f.dst, top + 2) : f \in command.plan.add}
             /\ top' = top + 2 * Cardinality(command.plan.add)
             /\ command' = [command EXCEPT !.pc = "persist"]
    <3>0. CommandShaped' /\ Planned'
      BY <2>0, <2>2 DEF CommandShaped, Planned
    <3>1. PICK masq : PlanMade(command.read, masq)
      BY <2>0 DEF ForwardInv, Planned
    <3>2. command.plan.add = {} \/ command.plan.add = {command.req.new}
      <4>1. Plan(command.read, masq, command.req)[1].add \in {{}, {command.req.new}}
        BY <3>1, PlanAdds DEF PlanMade
      <4> QED
        BY <3>1, <4>1 DEF PlanMade
    <3>3. Numbered(Minus(pre, command.plan.pre), top) /\ Numbered(Minus(post, command.plan.post), top)
      BY <1>i, LessChain
    <3>4. CASE command.plan.add = {}
      <4>1. /\ pre' = Minus(pre, command.plan.pre) /\ post' = Minus(post, command.plan.post)
            /\ top' = top
        BY <1>i, <2>2, <3>4, FS_EmptySet
      <4>2. Chained'
        <5>1. \E n \in Nat : Numbered(conf'.pre, n) /\ Numbered(conf'.post, n)
          BY <2>0 DEF ForwardInv, Chained
        <5> QED
          BY <1>i, <3>3, <4>1, <5>1 DEF Chained
      <4> QED
        BY <3>0, <4>2 DEF ForwardInv
    <3>5. CASE command.plan.add = {command.req.new}
      <4> DEFINE new == command.req.new
      <4>1. /\ pre' = Minus(pre, command.plan.pre) \cup {Rule(new, FALSE, top + 1)}
            /\ post' = Minus(post, command.plan.post) \cup {Masquerade(new.dst, top + 2)}
            /\ top' = top + 2
        <5>1. Cardinality({new}) = 1
          BY FS_Singleton
        <5>2. command.plan.add = {new}
          BY <3>5
        <5> HIDE DEF new
        <5> QED
          BY <1>i, <2>2, <5>1, <5>2
      <4>2. Rule(new, FALSE, top + 1).handle = top + 1 /\ Masquerade(new.dst, top + 2).handle = top + 2
        BY DEF Rule, Masquerade
      <4> HIDE DEF new
      <4>3. Numbered(pre', top') /\ Numbered(post', top') /\ top' \in Nat
        <5>1. /\ Rule(new, FALSE, top + 1).handle \in (top + 1)..(top + 2) /\ top + 2 \in Nat
              /\ Masquerade(new.dst, top + 2).handle \in (top + 1)..(top + 2)
          <6>1. top + 1 \in (top + 1)..(top + 2) /\ top + 2 \in (top + 1)..(top + 2) /\ top + 2 \in Nat
            BY <1>i
          <6> QED
            BY <4>2, <6>1
        <5> DEFINE p == Minus(pre, command.plan.pre)
                   q == Minus(post, command.plan.post)
        <5>2. Numbered(p, top) /\ Numbered(q, top) /\ pre' = p \cup {Rule(new, FALSE, top + 1)}
              /\ post' = q \cup {Masquerade(new.dst, top + 2)}
          BY <3>3, <4>1
        <5> HIDE DEF p, q
        <5>3. Numbered(p \cup {Rule(new, FALSE, top + 1)}, top + 2)
          BY <1>i, <5>1, <5>2, MoreChain
        <5>4. Numbered(q \cup {Masquerade(new.dst, top + 2)}, top + 2)
          BY <1>i, <5>1, <5>2, MoreChain
        <5> QED
          BY <4>1, <5>1, <5>2, <5>3, <5>4
      <4>4. Chained'
        BY <2>0, <4>3 DEF ForwardInv, Chained
      <4> QED
        BY <3>0, <4>4 DEF ForwardInv
    <3> QED
      BY <3>2, <3>4, <3>5
  <2> QED
    BY <1>5, <2>1, <2>2 DEF Transact
<1>6. CASE Persist
  <2>1. UNCHANGED <<pre, post, top>> /\ command' = NoCommand
        /\ conf' \in {conf, [pre |-> pre, post |-> post]}
    BY <1>6 DEF Persist, ruleset
  <2>2. \E n \in Nat : Numbered(conf'.pre, n) /\ Numbered(conf'.post, n)
    BY <1>i, <2>1 DEF ForwardInv, Chained
  <2>3. Chained'
    BY <1>i, <2>1, <2>2 DEF Chained
  <2> QED
    BY <2>1, <2>3, IdlePlansNothing DEF ForwardInv
<1>7. CASE UNCHANGED <<pre, post, top, conf, command>>
  <2>1. CommandShaped' /\ Chained'
    BY <1>7 DEF ForwardInv, CommandShaped, Chained
  <2>2. \A r, m : PlanMade(r, m)' = PlanMade(r, m)
    BY <1>7 DEF PlanMade
  <2>3. Planned'
    BY <1>7, <2>2 DEF ForwardInv, Planned, PlanMade
  <2> QED
    BY <2>1, <2>3 DEF ForwardInv
<1> QED
  BY <1>1, <1>2, <1>3, <1>4, <1>5, <1>6, <1>7
     DEF ForwardNext, RefreshForwards, RecordForwards, ForwardsMutate, AskExpires, ruleset, forwardVars

\* What a plan takes from a chain of forwards: the forwards its request names.
LEMMA PlanRemoves ==
  ASSUME NEW fwds, NEW masq, NEW req, Plan(fwds, masq, req) # <<>>,
         NEW h \in Plan(fwds, masq, req)[1].pre
  PROVE  req.action # "add" /\ \E t \in fwds : t.handle = h /\ SameForward(t, req.old)
<1> DEFINE targets == IF req.action = "add" THEN {} ELSE ResolveTargets(fwds, req.old)
<1>1. h \in {t.handle : t \in targets}
  BY PlanFacts
<1>2. PICK t \in targets : t.handle = h
  BY <1>1
<1>3. req.action # "add" /\ t \in ResolveTargets(fwds, req.old)
  BY <1>2
<1> HIDE DEF targets
<1> QED
  BY <1>2, <1>3, TargetsAlike

\* No step of a command takes away another forward than the one its request names: the
\* handle it holds still means the rule that was read, since only a reload gives it anew.
LEMMA NamedOnly ==
  ASSUME ForwardInv, Transact, "reload" \notin command.touched, NEW r \in pre \ pre'
  PROVE  command.req.action # "add" /\ SameForward(r, command.req.old)
<1>1. /\ command.pc = "nft" /\ r \in pre /\ r \notin pre'
      /\ pre # pre' => Minus(pre, command.plan.pre) \subseteq pre'
  BY DEF Transact, ruleset
<1>2. r.handle \in command.plan.pre
  BY <1>1 DEF Minus
<1>3. /\ \E masq : PlanMade(command.read, masq)
      /\ \A t \in command.read, s \in pre : s.handle = t.handle => s = t
  BY <1>1 DEF ForwardInv, Planned
<1>4. PICK masq : PlanMade(command.read, masq)
  BY <1>3
<1>5. command.req.action # "add"
      /\ \E t \in command.read : t.handle = r.handle /\ SameForward(t, command.req.old)
  BY <1>2, <1>4, PlanRemoves DEF PlanMade
<1> QED
  BY <1>1, <1>3, <1>5

\* The masquerade rules of a destination are finite in number, and no more than those
\* of a larger chain.
LEMMA ReturnsCount ==
  ASSUME NEW chain, NEW n, Numbered(chain, n), NEW d
  PROVE  /\ IsFiniteSet(To(chain, d)) /\ Cardinality(To(chain, d)) \in Nat
         /\ \A less \in SUBSET chain :
              Cardinality(To(less, d)) \in Nat /\ Cardinality(To(less, d)) <= Cardinality(To(chain, d))
<1>1. To(chain, d) \subseteq chain /\ \A less \in SUBSET chain : To(less, d) \subseteq To(chain, d)
  BY DEF To
<1>2. IsFiniteSet(To(chain, d))
  BY <1>1, FS_Subset DEF Numbered
<1> QED
  BY <1>1, <1>2, FS_Subset, FS_CardinalityType

\* Of two rules that are the same forward a plan of one request could take both; where
\* every rule is a forward of its own it takes one, and leaves what it does not name.
LEMMA OneTarget ==
  ASSUME NEW fwds, Distinct(fwds), NEW want, NEW t \in ResolveTargets(fwds, want)
  PROVE  /\ ResolveTargets(fwds, want) = {t} /\ t \in fwds
         /\ Without(fwds, {t}) = Minus(fwds, {t.handle})
<1>1. ResolveTargets(fwds, want) \subseteq {r \in fwds : SameForward(r, want)}
  BY TargetsAlike
<1>2. \A s \in ResolveTargets(fwds, want) : s = t
  BY <1>1 DEF Distinct, SameForward
<1>3. t \in fwds
  BY <1>1
<1>4. Without(fwds, {t}) = Minus(fwds, {t.handle})
  <2>1. \A r \in fwds : r.handle # t.handle => ~SameForward(r, t)
    BY <1>3 DEF Distinct
  <2> QED
    BY <2>1 DEF Without, Minus
<1> QED
  BY <1>2, <1>3, <1>4

\* A transaction keeps the way back of every forward that stays.
LEMMA ReturnsKept ==
  ASSUME ForwardInv, Transact, command.touched = {}, Distinct(command.read)
  PROVE  KeepsReturns(post, [pre |-> pre', post |-> post'])
<1> SUFFICES ASSUME NEW d \in Dsts, Cardinality(To(post', d)) < Cardinality(To(post, d))
             PROVE  Cardinality(To(post', d)) >= Cardinality(To(pre', d))
  BY DEF KeepsReturns
<1>1. /\ top \in Nat /\ Numbered(pre, top) /\ Numbered(post, top) /\ command.pc = "nft"
      /\ PlanMade(pre, post) /\ Distinct(pre)
  BY DEF ForwardInv, Chained, Planned, Transact
<1>a. ForwardInv'
  BY ForwardInvStep DEF ForwardNext
<1>b. top' \in Nat /\ Numbered(pre', top') /\ Numbered(post', top')
  BY <1>a DEF ForwardInv, Chained
<1>2. ~(post \subseteq post')
  <2> SUFFICES ASSUME post \subseteq post' PROVE FALSE
    OBVIOUS
  <2>1. Cardinality(To(post, d)) <= Cardinality(To(post', d)) /\ Cardinality(To(post, d)) \in Nat
    BY <1>b, ReturnsCount
  <2>2. Cardinality(To(post', d)) \in Nat
    BY <1>b, ReturnsCount
  <2> QED
    BY <2>1, <2>2
<1>3. /\ pre' = Minus(pre, command.plan.pre) \cup {Rule(f, FALSE, top + 1) : f \in command.plan.add}
      /\ post' = Minus(post, command.plan.post)
                  \cup {Masquerade(f.dst, top + 2) : f \in command.plan.add}
  BY <1>2 DEF Transact, ruleset
<1> DEFINE req == command.req
           targets == IF req.action = "add" THEN {} ELSE ResolveTargets(pre, req.old)
<1>4. /\ command.plan.pre = {t.handle : t \in targets}
      /\ command.plan.post = MasqHandlesToDrop(targets, Without(pre, targets), post)
  <2>1. targets = IF req.action = "add" THEN {} ELSE ResolveTargets(pre, req.old)
    OBVIOUS
  <2>2. Plan(pre, post, req) # <<>> /\ command.plan = Plan(pre, post, req)[1]
    BY <1>1 DEF PlanMade
  <2> HIDE DEF targets, req
  <2> QED
    BY <2>1, <2>2, PlanTakes
<1>5. command.plan.add \in {{}, {req.new}}
  BY <1>1, PlanAdds DEF PlanMade
<1>6. command.plan.post # {}
  BY <1>2, <1>3 DEF Minus
<1>7. PICK t \in targets : Cardinality(To(post, t.dst)) > Cardinality(To(Without(pre, targets), t.dst))
  BY <1>4, <1>6 DEF MasqHandlesToDrop
<1>8. targets = {t} /\ Without(pre, targets) = Minus(pre, {t.handle}) /\ t \in pre
  <2>1. targets = ResolveTargets(pre, req.old) /\ t \in ResolveTargets(pre, req.old)
    BY <1>7
  <2> HIDE DEF targets
  <2>2. /\ ResolveTargets(pre, req.old) = {t} /\ t \in pre
        /\ Without(pre, {t}) = Minus(pre, {t.handle})
    <3> DEFINE want == req.old
    <3> HIDE DEF want, req
    <3> QED
      BY <1>1, <2>1, OneTarget DEF want
  <2> QED
    BY <2>1, <2>2
<1> HIDE DEF req, targets
<1> DEFINE h == OneHandle(To(post, t.dst))
<1>9. command.plan.pre = {t.handle} /\ command.plan.post = {h}
  BY <1>4, <1>7, <1>8 DEF MasqHandlesToDrop
<1> DEFINE R == Minus(pre, {t.handle})
           M == Minus(post, {h})
<1>10. Cardinality(To(post, t.dst)) > Cardinality(To(R, t.dst)) /\ Cardinality(To(R, t.dst)) \in Nat
       /\ IsFiniteSet(To(post, t.dst)) /\ Cardinality(To(post, t.dst)) \in Nat
  <2>1. R \in SUBSET pre
    BY DEF Minus
  <2> HIDE DEF R
  <2>2. Cardinality(To(R, t.dst)) \in Nat
    BY <1>1, <2>1, ReturnsCount
  <2>3. IsFiniteSet(To(post, t.dst)) /\ Cardinality(To(post, t.dst)) \in Nat
    BY <1>1, ReturnsCount
  <2> QED
    BY <1>7, <1>8, <2>2, <2>3 DEF R
<1>11. PICK m \in To(post, t.dst) : m.handle = h
  <2>1. To(post, t.dst) # {}
    BY <1>10, FS_EmptySet
  <2> QED
    BY <2>1 DEF OneHandle
<1>12. m \in post /\ m.dst = t.dst /\ M = post \ {m}
  BY <1>1, <1>11 DEF To, Minus, Numbered
<1> HIDE DEF h, R, M
<1>13. d = t.dst
  <2> SUFFICES ASSUME d # t.dst PROVE FALSE
    OBVIOUS
  <2>1. To(post, d) \subseteq To(post', d)
    BY <1>3, <1>9, <1>12 DEF To, M
  <2>2. IsFiniteSet(To(post', d)) /\ Cardinality(To(post', d)) \in Nat
    BY <1>b, ReturnsCount
  <2> QED
    BY <2>1, <2>2, <1>1, ReturnsCount, FS_Subset
<1>14. To(M, d) = To(post, d) \ {m} /\ Cardinality(To(M, d)) = Cardinality(To(post, d)) - 1
       /\ IsFiniteSet(To(M, d))
  <2>1. To(M, d) = To(post, d) \ {m} /\ m \in To(post, d)
    BY <1>11, <1>12, <1>13 DEF To
  <2> QED
    BY <2>1, <1>10, <1>13, FS_RemoveElement
<1>15. CASE command.plan.add = {}
  <2>1. pre' = R /\ post' = M
    BY <1>3, <1>9, <1>15 DEF R, M
  <2> QED
    BY <2>1, <1>10, <1>13, <1>14
<1>16. ASSUME NEW new, command.plan.add = {new} PROVE Cardinality(To(post', d)) >= Cardinality(To(pre', d))
  <2>1. pre' = R \cup {Rule(new, FALSE, top + 1)} /\ post' = M \cup {Masquerade(new.dst, top + 2)}
    BY <1>3, <1>9, <1>16 DEF R, M
  <2>2. Rule(new, FALSE, top + 1).dst = new.dst /\ Masquerade(new.dst, top + 2).dst = new.dst
        /\ Masquerade(new.dst, top + 2).handle = top + 2
    BY DEF Rule, Masquerade
  <2>3. new.dst # d
    <3> SUFFICES ASSUME new.dst = d PROVE FALSE
      OBVIOUS
    <3> DEFINE x == Masquerade(new.dst, top + 2)
    <3>1. x \notin post
      BY <1>1, <2>2 DEF Numbered
    <3>2. x \notin To(M, d)
      BY <3>1, <1>12 DEF To
    <3>3. To(post', d) = To(M, d) \cup {x}
      <4>1. x.dst = d /\ post' = M \cup {x}
        BY <2>1, <2>2
      <4> HIDE DEF x
      <4>2. \A r : r \in post' <=> r \in M \/ r = x
        BY <4>1
      <4> QED
        BY <4>1, <4>2 DEF To
    <3> HIDE DEF x
    <3>4. Cardinality(To(post', d)) = Cardinality(To(M, d)) + 1
      <4> DEFINE S == To(M, d)
      <4>1. IsFiniteSet(S) /\ x \notin S /\ To(post', d) = S \cup {x}
        BY <1>14, <3>2, <3>3
      <4> HIDE DEF S
      <4>2. Cardinality(S \cup {x}) = Cardinality(S) + 1
        BY <4>1, FS_AddElement
      <4> QED
        BY <4>1, <4>2 DEF S
    <3> QED
      BY <1>10, <1>13, <1>14, <3>4
  <2>4. To(post', d) = To(M, d) /\ To(pre', d) = To(R, d)
    BY <2>1, <2>2, <2>3 DEF To
  <2> QED
    BY <2>4, <1>10, <1>13, <1>14
<1> QED
  BY <1>5, <1>15, <1>16

\* An operator's command takes away no forward but the one it names, however old the
\* list it was made from (forwards.go:403-407).
THEOREM NothingElseIsRemoved == ForwardSpec => OnlyNamedIsRemoved
<1>1. ForwardInv /\ [ForwardNext]_forwardVars =>
        [(Transact /\ "reload" \notin command.touched)
           => \A r \in pre \ pre' :
                command.req.action # "add" /\ SameForward(r, command.req.old)]_forwardVars
  BY NamedOnly
<1> QED
  BY <1>1, ForwardInvInit, ForwardInvStep, PTL DEF ForwardSpec, OnlyNamedIsRemoved

\* Removing or editing a forward leaves every forward that stays its masquerade rule, as
\* long as no two rules are the same forward (forwards.go:316-319, :334-337).
THEOREM ReturnPathsStay == ForwardSpec => ReturnPathKept
<1>1. ForwardInv /\ [ForwardNext]_forwardVars =>
        [(Transact /\ command.touched = {} /\ Distinct(command.read))
           => KeepsReturns(post, [pre |-> pre', post |-> post'])]_forwardVars
  BY ReturnsKept
<1> QED
  BY <1>1, ForwardInvInit, ForwardInvStep, PTL DEF ForwardSpec, ReturnPathKept

=============================================================================
