------------------------------ MODULE Singbox ------------------------------
(***************************************************************************)
(* Managing the sing-box of one probe: the row node_singbox of the panel,  *)
(* the handlers of the operator that write it, the frames in both          *)
(* directions, and the manager of the probe (SingboxProbe).                *)
(*                                                                         *)
(* A handler reads the row, writes back every column, and then pushes; the *)
(* hub does the same with each state frame.  Neither uses a transaction,   *)
(* so the two interleave.  Of the columns the module keeps what decides    *)
(* something: the declaration, and whether the probe reported a version    *)
(* and a certificate.  The document is the setting singbox_config:<node>.  *)
(***************************************************************************)
EXTENDS SingboxProbe, Sequences

CONSTANTS Frames,      \* frames in flight one way (a bound)
          MaxDecisions \* bound on decisions of the operator

ASSUME BoundsAssumption == Frames \in Nat \ {0} /\ MaxDecisions \in Nat

VARIABLES
  row,      \* node_singbox
  document, \* the config the panel stores and pushes
  click,    \* the handler under way: <<>>, or what it read and what follows
  record,   \* the state frame under way: <<>>, or the row read and the frame
  link,     \* TRUE while a connection is registered
  down,     \* desired frames to the probe
  up,       \* state frames to the panel
  decisions

panel == <<row, document, click, record, decisions>>
wire == <<link, down, up>>
vars == <<probe, panel, wire>>

Row(version, uninstall, hash, installed, cert) ==
  [version |-> version, uninstall |-> uninstall, hash |-> hash,
   installed |-> installed, cert |-> cert]
NoRow == Row(None, FALSE, FALSE, FALSE, FALSE)

Init ==
  /\ ProbeInit
  /\ row = NoRow
  /\ document = None
  /\ click = <<>> /\ record = <<>>
  /\ link = FALSE /\ down = <<>> /\ up = <<>>
  /\ decisions = 0

(***************************************************************************)
(* Frames.                                                                 *)
(***************************************************************************)
Frame(remove, d) == [remove |-> remove, want |-> d]

\* Mutant: a removal is pushed once and not declared again.
DesiredOnce ==
  IF row.version # None \/ row.hash THEN Frame(FALSE, Declaration(row.version, document))
  ELSE Frame(FALSE, Unmanaged)

\* Mutant: an install is pushed once and not declared again.
DesiredRemovals == IF row.uninstall THEN Frame(TRUE, Unmanaged) ELSE Frame(FALSE, Unmanaged)

\* buildDesiredState: of hello_ack and of the push of the hub.
Desired ==
  IF row.uninstall THEN Frame(TRUE, Unmanaged)
  ELSE IF row.version # None \/ row.hash THEN Frame(FALSE, Declaration(row.version, document))
  ELSE Frame(FALSE, Unmanaged)

Send(f) == down' = IF link /\ Len(down) < Frames THEN Append(down, f) ELSE down

Snapshot == IF snapshot.known THEN <<snapshot>> ELSE <<>>

Connect ==
  /\ ~link /\ link' = TRUE
  /\ down' = <<Desired>> /\ up' = Snapshot
  /\ UNCHANGED <<probe, panel>>
Cut == link' = FALSE /\ down' = <<>> /\ up' = <<>>
Disconnect ==
  /\ link /\ Cut
  /\ UNCHANGED <<probe, panel>>

\* On a change and on every tick of the session.
SendState ==
  /\ link /\ snapshot.known /\ Len(up) < Frames
  /\ up' = Append(up, snapshot)
  /\ UNCHANGED <<probe, panel, link, down>>

ReadDesired ==
  /\ down # <<>>
  /\ down' = Tail(down)
  /\ SetDesired(Head(down).remove, Head(down).want)
  /\ UNCHANGED <<panel, link, up>>

(***************************************************************************)
(* recordSingboxState, in its two statements.                              *)
(***************************************************************************)
RecordRead ==
  /\ record = <<>> /\ up # <<>>
  /\ record' = <<row, Head(up)>>
  /\ up' = Tail(up)
  /\ UNCHANGED <<probe, row, document, click, decisions, link, down>>

Absent(r, s) == ~s.running /\ ~s.failed /\ ~s.installed /\ r.uninstall
Recorded(r, s) ==
  IF Absent(r, s) THEN Row(r.version, FALSE, FALSE, FALSE, FALSE)
  ELSE Row(r.version, r.uninstall, r.hash, s.installed, r.cert \/ s.cert)

RecordWrite ==
  /\ record # <<>>
  /\ row' = Recorded(record[1], record[2])
  /\ record' = <<>>
  /\ UNCHANGED <<probe, document, click, decisions, wire>>

(***************************************************************************)
(* The handlers of the operator: read, write, push.                        *)
(***************************************************************************)
Clicks(what, d) ==
  /\ click = <<>> /\ decisions < MaxDecisions
  /\ decisions' = decisions + 1
  /\ click' = <<what, row, d>>
  /\ UNCHANGED <<probe, row, document, record, wire>>

ClickInstall == \E v \in Versions, c \in Configs : Clicks("install", Declaration(v, c))
ClickEdit == \E c \in Configs : Clicks("edit", Declaration(None, c))
\* Refused when there is nothing to remove.
ClickUninstall ==
  /\ row.installed \/ row.cert \/ row.uninstall
  /\ Clicks("uninstall", Unmanaged)

\* applySingboxDesired, pushConfigDocument and handleSingboxUninstall.
Written(what, r, d) ==
  IF what = "install" THEN Row(d.version, FALSE, TRUE, r.installed, r.cert)
  ELSE IF what = "edit" THEN Row(r.version, r.uninstall, TRUE, r.installed, r.cert)
  ELSE Row(None, TRUE, FALSE, r.installed, r.cert)

ClickWrite ==
  /\ click # <<>> /\ click[1] # "push" /\ click[1] # "push all"
  /\ row' = Written(click[1], click[2], click[3])
  /\ document' = IF click[1] = "uninstall" THEN document ELSE click[3].config
  /\ click' = <<IF click[1] = "uninstall" THEN "push all" ELSE "push", NoRow, Unmanaged>>
  /\ UNCHANGED <<probe, record, decisions, wire>>

\* The push of httpapi never carries a removal; the one of the hub does.
ClickPush ==
  /\ click # <<>> /\ click[1] \in {"push", "push all"}
  /\ Send(IF click[1] = "push all" THEN Desired
          ELSE Frame(FALSE, Declaration(row.version, document)))
  /\ click' = <<>>
  /\ UNCHANGED <<probe, row, document, record, decisions, link, up>>

(***************************************************************************)
(* The next-state relation.                                                *)
(***************************************************************************)
Loop == (Converge \/ ReportOnly \/ Round) /\ UNCHANGED <<panel, wire>>
Host == (ServiceCommand \/ Dies) /\ UNCHANGED <<panel, wire>>
Restarts == AgentRestarts /\ Cut /\ UNCHANGED panel

Next ==
  \/ Connect \/ Disconnect \/ SendState \/ ReadDesired
  \/ RecordRead \/ RecordWrite
  \/ ClickInstall \/ ClickEdit \/ ClickUninstall \/ ClickWrite \/ ClickPush
  \/ Loop \/ Host \/ Restarts

Spec == Init /\ [][Next]_vars

\* The loop and both ends go on, handlers finish, and sessions that are opened
\* again and again live long enough for their first frames.
FairSpec ==
  /\ Spec
  /\ WF_vars(Converge /\ UNCHANGED <<panel, wire>>)
  /\ WF_vars(Round /\ UNCHANGED <<panel, wire>>)
  /\ WF_vars(Connect) /\ SF_vars(SendState)
  /\ SF_vars(ReadDesired)
  /\ SF_vars(RecordRead) /\ WF_vars(RecordWrite)
  /\ WF_vars(ClickWrite) /\ WF_vars(ClickPush)

(***************************************************************************)
(* Properties.                                                             *)
(***************************************************************************)
Rows == [version : Versions \cup {None}, uninstall : BOOLEAN, hash : BOOLEAN,
         installed : BOOLEAN, cert : BOOLEAN]

Handlers == {"install", "edit", "uninstall", "push", "push all"}

TypeOK ==
  /\ ProbeTypeOK
  /\ row \in Rows /\ document \in Configs \cup {None}
  /\ click \in {<<>>} \cup (Handlers \X Rows \X Declarations)
  /\ record \in {<<>>} \cup (Rows \X States)
  /\ link \in BOOLEAN
  /\ down \in Seq([remove : BOOLEAN, want : Declarations]) /\ Len(down) <= Frames
  /\ up \in Seq(States) /\ Len(up) <= Frames
  /\ decisions \in 0..MaxDecisions

\* A removal (design 9.2, "offline probes converge on reconnect") is confirmed
\* in the end, or the operator has decided otherwise.
RemovalCompletes == []<>~link => (row.uninstall ~> ~row.uninstall)

\* A probe that keeps reconnecting ends up with the declared version and config
\* in place and running, when that version accepts that config.
Realized ==
  /\ bin = row.version /\ cfg = document /\ served # None
Realizable == ~row.uninstall /\ <<row.version, document>> \in Loads
FollowsPanel == []<>~link /\ <>[]Realizable => <>[]Realized

\* What singbox_handlers.go says of the two halves of the row ("preserve what
\* the agent reported", "the install declaration that follows is
\* authoritative"): a state frame takes back no decision of the operator.
DecisionsStand ==
  [][record # <<>> /\ record' = <<>>
       => /\ row'.version = row.version
          /\ \/ row'.uninstall = row.uninstall
             \/ Absent(row, record[2])]_vars
=============================================================================
