--------------------------- MODULE Singbox_proofs ---------------------------
(***************************************************************************)
(* The sing-box manager of the probe, alone (ProbeSpec) and driven by the  *)
(* panel (Spec): a rollback gives back every file its round has replaced,  *)
(* whatever the versions, the configs and the faults are, and whatever the *)
(* panel sends the probe does what SingboxProbe allows, so every theorem   *)
(* about the probe alone holds of the two together.                        *)
(***************************************************************************)
EXTENDS Singbox, SequenceTheorems, TLAPS

(***************************************************************************)
(* The probe alone.                                                        *)
(***************************************************************************)
\* No round is under way, or one that replaces nothing.
Quiet == {"idle", "remove", "removed"}

\* A round that has replaced the binary was one for another binary, and the one
\* it found is in .prev.
BinaryKept ==
  "bin" \in replaced /\ found.bin # None => job.install /\ binPrev = found.bin

\* The same for the config, which a round may also write without a change.
ConfigKept ==
  "cfg" \in replaced /\ found.cfg # None =>
    IF job.rewrite THEN cfgPrev = found.cfg ELSE cfg = found.cfg

\* What has not been replaced is what the round found, and `rewrite` says
\* whether the declared config is another one.
Untouched ==
  step \notin Quiet =>
    /\ "bin" \notin replaced => bin = found.bin
    /\ "cfg" \notin replaced =>
         cfg = found.cfg /\ (job.rewrite <=> job.want.config \notin {None, cfg})

\* What a round has replaced when it is where it is.
Progress ==
  /\ step \in Quiet \cup {"download"} => replaced = {}
  /\ step = "download" => job.install
  /\ step = "place" => "bin" \in replaced
  /\ step \in {"place", "write"} => "cfg" \notin replaced

IInv == BinaryKept /\ ConfigKept /\ Untouched /\ Progress

LEMMA Initially == ProbeInit => IInv
  BY DEF ProbeInit, IInv, BinaryKept, ConfigKept, Untouched, Progress, Quiet

\* The steps of other goroutines and of the host touch no file.
LEMMA Others ==
  ASSUME IInv,
         \/ \E remove \in BOOLEAN, d \in Declarations : SetDesired(remove, d)
         \/ ServiceCommand \/ Dies \/ AgentRestarts \/ ReportOnly
         \/ UNCHANGED probe
  PROVE  IInv'
<1> USE DEF IInv, BinaryKept, ConfigKept, Untouched, Progress, Quiet, disk, round
<1>1. ASSUME NEW remove, NEW d, SetDesired(remove, d) PROVE IInv'
  BY <1>1 DEF SetDesired
<1>2. CASE ServiceCommand \/ Dies
  BY <1>2 DEF ServiceCommand, Dies
<1>3. CASE AgentRestarts
  BY <1>3 DEF AgentRestarts
<1>4. CASE ReportOnly
  BY <1>4 DEF ReportOnly
<1>5. CASE UNCHANGED probe
  BY <1>5 DEF probe
<1> QED BY <1>1, <1>2, <1>3, <1>4, <1>5

\* A round that begins writes down what it finds.
LEMMA Beginning ==
  ASSUME IInv, Converge
  PROVE  IInv'
<1> USE DEF IInv, BinaryKept, ConfigKept, Untouched, Progress, Quiet, disk, round, Woken
<1>1. CASE ConvergeNothing \/ ConvergeRefused \/ ConvergeInPlace
  BY <1>1 DEF ConvergeNothing, ConvergeRefused, ConvergeInPlace, InPlace
<1>2. CASE ConvergeRemoval
  BY <1>2 DEF ConvergeRemoval, Goes
<1>3. CASE ConvergeChanges
  BY <1>3 DEF ConvergeChanges, NeedInstall, NeedConfig, Job, Files
<1>4. CASE ConvergeStart
  BY <1>4 DEF ConvergeStart, InPlace, NeedInstall, NeedConfig, Job, Files
<1> QED BY <1>1, <1>2, <1>3, <1>4 DEF Converge

LEMMA Going ==
  ASSUME IInv, Round
  PROVE  IInv'
<1> USE DEF IInv, BinaryKept, ConfigKept, Untouched, Progress, Quiet, disk, Goes
<1>1. CASE Fetch
  BY <1>1 DEF Fetch
<1>2. CASE Place
  BY <1>2 DEF Place
<1>3. CASE Write
  <2>1. CASE job.want.config = None
    BY <1>3, <2>1 DEF Write
  <2>2. CASE job.want.config # None
    <3>1. cfg = found.cfg /\ (job.rewrite <=> job.want.config \notin {None, cfg})
      BY <1>3 DEF Write
    <3>2. /\ cfg' = job.want.config /\ step' = "check"
          /\ cfgPrev' = IF cfg \notin {None, job.want.config} THEN cfg ELSE cfgPrev
          /\ replaced' = replaced \cup {"cfg"}
          /\ job' = job /\ found' = found /\ bin' = bin /\ binPrev' = binPrev
      BY <1>3, <2>2 DEF Write, BacksUp
    <3>3. ConfigKept'
      BY <2>2, <3>1, <3>2
    <3>4. BinaryKept' /\ Untouched' /\ Progress'
      BY <1>3, <3>2 DEF Write
    <3> QED BY <3>3, <3>4
  <2> QED BY <2>1, <2>2
<1>4. CASE Check \/ Start \/ VerifyDead \/ RoundFails
  BY <1>4 DEF Check, Start, VerifyDead, RoundFails
<1>5. CASE StartFails \/ Verify \/ Rollback \/ RemoveFails \/ Removed
  BY <1>5 DEF StartFails, Verify, Rollback, RemoveFails, Removed, Ends
<1>6. CASE Remove
  BY <1>6 DEF Remove
<1> QED BY <1>1, <1>2, <1>3, <1>4, <1>5, <1>6 DEF Round

LEMMA Inductive == IInv /\ [ProbeNext]_probe => IInv'
<1> SUFFICES ASSUME IInv, [ProbeNext]_probe PROVE IInv'
  OBVIOUS
<1>1. CASE Converge
  BY <1>1, Beginning
<1>2. CASE Round
  BY <1>2, Going
<1>3. CASE ~Converge /\ ~Round
  BY <1>3, Others DEF ProbeNext
<1> QED BY <1>1, <1>2, <1>3

\* The round that is rolled back has what it found in .prev.
LEMMA Restoring ==
  ASSUME IInv, Rollback
  PROVE  GivesBack("bin") /\ GivesBack("cfg")
<1>1. GivesBack("bin")
  BY DEF IInv, BinaryKept, Rollback, GivesBack, Files
<1>2. GivesBack("cfg")
  BY DEF IInv, ConfigKept, Rollback, GivesBack, Files
<1> QED BY <1>1, <1>2

\* Only Rollback leaves the step "rollback" with a report.
LEMMA OnlyRollback ==
  ASSUME [ProbeNext]_probe, step = "rollback", step' = "idle", snapshot'.known
  PROVE  Rollback
<1> USE DEF round, disk, memory, Woken, Goes
<1>1. ~UNCHANGED probe
  BY DEF probe
<1>2. ASSUME NEW remove, NEW d, SetDesired(remove, d) PROVE FALSE
  BY <1>2 DEF SetDesired
<1>3. ~(ServiceCommand \/ Dies \/ ReportOnly)
  BY DEF ServiceCommand, Dies, ReportOnly
<1>4. ~AgentRestarts
  BY DEF AgentRestarts, NoState
<1>5. ~Converge
  BY DEF Converge, ConvergeNothing, ConvergeRemoval, ConvergeRefused, ConvergeChanges,
         ConvergeInPlace, ConvergeStart, InPlace
<1>6. ~(Fetch \/ Place \/ Write \/ Check \/ Start \/ StartFails \/ Verify \/ VerifyDead)
  BY DEF Fetch, Place, Write, Check, Start, StartFails, Verify, VerifyDead
<1>7. ~(RoundFails \/ Remove \/ RemoveFails \/ Removed)
  BY DEF RoundFails, Remove, RemoveFails, Removed
<1> QED BY <1>1, <1>2, <1>3, <1>4, <1>5, <1>6, <1>7 DEF ProbeNext, Round

\* What the rollback of design 9.2 promises: the files a round has replaced come
\* back as it found them, also after an agent restart cut an earlier round short.
THEOREM RoundsRollBack == ProbeSpec => RollbackRestores
<1>1. IInv /\ [ProbeNext]_probe =>
        [step = "rollback" /\ step' = "idle" /\ snapshot'.known
           => GivesBack("bin") /\ GivesBack("cfg")]_probe
  BY OnlyRollback, Restoring
<1> QED BY <1>1, Initially, Inductive, PTL DEF ProbeSpec, RollbackRestores

(***************************************************************************)
(* The probe and the panel.                                                *)
(***************************************************************************)
Versioned == Versions \cup {None}
DesiredFrames == [remove : BOOLEAN, want : Declarations]

\* Everything a frame is made of is a declaration: the row, the document, and
\* the copies that the handlers and the hub hold across their two statements.
Declared ==
  /\ row.version \in Versioned /\ document \in Configs \cup {None}
  /\ click # <<>> => click[2].version \in Versioned /\ click[3] \in Declarations
  /\ record # <<>> => record[1].version \in Versioned
  /\ down \in Seq(DesiredFrames)

LEMMA DeclarationsAre ==
  /\ \A v \in Versioned, c \in Configs \cup {None} : Declaration(v, c) \in Declarations
  /\ \A v \in Versions, c \in Configs : Declaration(v, c) \in Declarations
  /\ \A c \in Configs : Declaration(None, c) \in Declarations
  /\ Unmanaged \in Declarations
  /\ \A d \in Declarations : d.version \in Versioned /\ d.config \in Configs \cup {None}
<1>1. \A v \in Versioned, c \in Configs \cup {None} : Declaration(v, c) \in Declarations
  BY DEF Versioned, Declarations
<1>2. None \in Versioned /\ Versions \subseteq Versioned
  BY DEF Versioned
<1>3. Unmanaged \in Declarations
  BY <1>1, <1>2 DEF Unmanaged
<1>4. \A d \in Declarations : d.version \in Versioned /\ d.config \in Configs \cup {None}
  BY DEF Declarations, Declaration, Versioned
<1> QED BY <1>1, <1>2, <1>3, <1>4

\* What the two pushes put into a frame.
LEMMA FramesDeclare ==
  ASSUME Declared
  PROVE  /\ Desired \in DesiredFrames
         /\ Frame(FALSE, Declaration(row.version, document)) \in DesiredFrames
<1>1. row.version \in Versioned /\ document \in Configs \cup {None}
  BY DEF Declared
<1>2. Declaration(row.version, document) \in Declarations /\ Unmanaged \in Declarations
  BY <1>1, DeclarationsAre
<1>3. \A b \in BOOLEAN, d \in Declarations : Frame(b, d) \in DesiredFrames
  BY DEF Frame, DesiredFrames
<1>4. Desired \in {Frame(TRUE, Unmanaged), Frame(FALSE, Unmanaged),
                   Frame(FALSE, Declaration(row.version, document))}
  BY DEF Desired
<1> QED BY <1>2, <1>3, <1>4

LEMMA Start0 == Init => Declared
  BY DEF Init, NoRow, Row, Declared, Versioned

LEMMA Stays ==
  ASSUME Declared, [Next]_vars
  PROVE  Declared'
<1>a. /\ Desired \in DesiredFrames
      /\ Frame(FALSE, Declaration(row.version, document)) \in DesiredFrames
  BY FramesDeclare
<1> USE DEF Declared, panel, wire, Cut
<1>0. ASSUME UNCHANGED panel, down' \in Seq(DesiredFrames) PROVE Declared'
  BY <1>0
<1>1. CASE Connect
  <2>0. down' = <<Desired>> /\ \A f \in DesiredFrames : <<f>> \in Seq(DesiredFrames)
    BY <1>1 DEF Connect
  <2>1. down' \in Seq(DesiredFrames)
    BY <1>a, <2>0
  <2> QED BY <1>0, <1>1, <2>1 DEF Connect
<1>2. CASE Disconnect \/ Restarts
  <2>0. down' = <<>> /\ <<>> \in Seq(DesiredFrames)
    BY <1>2 DEF Disconnect, Restarts
  <2>1. down' \in Seq(DesiredFrames)
    BY <2>0
  <2> QED BY <1>0, <1>2, <2>1 DEF Disconnect, Restarts
<1>3. CASE SendState \/ Loop \/ Host \/ UNCHANGED vars
  BY <1>3 DEF SendState, Loop, Host, vars
<1>4. CASE ReadDesired
  BY <1>4 DEF ReadDesired
<1>5. CASE RecordRead
  BY <1>5 DEF RecordRead
<1>6. CASE RecordWrite
  <2>1. row'.version = record[1].version
    BY <1>6 DEF RecordWrite, Recorded, Row
  <2> QED BY <1>6, <2>1 DEF RecordWrite
<1>7. ASSUME NEW what, NEW d \in Declarations, Clicks(what, d) PROVE Declared'
  BY <1>7 DEF Clicks
<1>8. CASE ClickInstall \/ ClickEdit \/ ClickUninstall
  BY <1>7, <1>8, DeclarationsAre DEF ClickInstall, ClickEdit, ClickUninstall
<1>9. CASE ClickWrite
  <2>1. click[2].version \in Versioned /\ click[3] \in Declarations /\ click # <<>>
    BY <1>9 DEF ClickWrite
  <2>2. /\ click[3].version \in Versioned /\ click[3].config \in Configs \cup {None}
        /\ Unmanaged \in Declarations /\ None \in Versioned
    BY <2>1, DeclarationsAre DEF Versioned
  <2>3. row'.version \in {click[3].version, click[2].version, None}
    BY <1>9 DEF ClickWrite, Written, Row
  <2>4. document' \in Configs \cup {None}
    BY <1>9, <2>2 DEF ClickWrite
  <2>5. click'[2].version = None /\ click'[3] = Unmanaged
    BY <1>9 DEF ClickWrite, NoRow, Row
  <2>6. record' = record /\ down' = down
    BY <1>9 DEF ClickWrite
  <2> QED BY <2>1, <2>2, <2>3, <2>4, <2>5, <2>6
<1>10. CASE ClickPush
  <2>0. /\ down \in Seq(DesiredFrames)
        /\ \A f \in DesiredFrames : Append(down, f) \in Seq(DesiredFrames)
    OBVIOUS
  <2>1. PICK f \in DesiredFrames : Send(f)
    BY <1>a, <1>10 DEF ClickPush
  <2>2. down' \in Seq(DesiredFrames)
    BY <2>0, <2>1 DEF Send
  <2>3. click' = <<>> /\ UNCHANGED <<row, document, record>>
    BY <1>10 DEF ClickPush
  <2> QED BY <2>2, <2>3
<1> QED BY <1>1, <1>2, <1>3, <1>4, <1>5, <1>6, <1>8, <1>9, <1>10 DEF Next

\* A step of the whole is a step of the probe, or leaves the probe alone.
LEMMA StepOfProbe ==
  ASSUME Declared, [Next]_vars
  PROVE  [ProbeNext]_probe
<1>1. CASE ReadDesired
  <2>1. Head(down) \in DesiredFrames
    BY <1>1 DEF Declared, ReadDesired
  <2> QED BY <1>1, <2>1 DEF ReadDesired, DesiredFrames, ProbeNext
<1>2. CASE Loop \/ Host \/ Restarts
  BY <1>2 DEF Loop, Host, Restarts, ProbeNext
<1>3. CASE \/ Connect \/ Disconnect \/ SendState \/ RecordRead \/ RecordWrite
           \/ ClickInstall \/ ClickEdit \/ ClickUninstall \/ ClickWrite \/ ClickPush
           \/ UNCHANGED vars
  BY <1>3 DEF Connect, Disconnect, SendState, RecordRead, RecordWrite, Clicks,
       ClickInstall, ClickEdit, ClickUninstall, ClickWrite, ClickPush, vars
<1> QED BY <1>1, <1>2, <1>3 DEF Next

\* The manager, driven by the panel and its operator, behaves as SingboxProbe
\* says: no order of handlers, state frames and reconnects makes it do more.
THEOREM ImplementsProbe == Spec => ProbeSpec
<1>1. Init => ProbeInit
  BY DEF Init
<1>2. Declared /\ [Next]_vars => Declared'
  BY Stays
<1>3. Declared /\ [Next]_vars => [ProbeNext]_probe
  BY StepOfProbe
<1> QED BY <1>1, <1>2, <1>3, Start0, PTL DEF Spec, ProbeSpec

\* So a rollback restores what its round replaced also with a panel attached.
THEOREM ManagedRoundsRollBack == Spec => RollbackRestores
  BY ImplementsProbe, RoundsRollBack
=============================================================================
