----------------------------- MODULE Terminals -----------------------------
(***************************************************************************)
(* The web terminal of one node: a browser's socket                        *)
(* (internal/server/httpapi/terminal.go), the relay of the hub             *)
(* (hub/terminal_ask.go, hub/handlers.go) and the shells of the probe      *)
(* (internal/agent/terminal.go).                                           *)
(*                                                                         *)
(* Frames to the probe pass a queue that may be full and a connection that *)
(* may be gone; the probe reads them one at a time, while its shells end   *)
(* and its connection is torn down in goroutines of their own.  Bytes are  *)
(* not modelled, a frame is its type and the terminal it is stamped with.  *)
(***************************************************************************)
EXTENDS Integers, Sequences, FiniteSets

CONSTANTS Terms,        \* terminals, one per socket
          MaxTerminals, \* maxTerminalSocketsPerNode
          MaxFrames,    \* bound on frames a browser sends
          MaxSessions   \* bound on connections of the probe

NoTerm == "none"
ASSUME NoTermAssumption == NoTerm \notin Terms

VARIABLES
  socket,   \* per terminal: where its handler is, whether it has sent the close
  sent,     \* frames of browsers so far
  link,     \* the probe's connection: its number and whether it is up
  down,     \* frames on their way to the probe
  up,       \* terminals whose shell is reported to have ended, on their way back
  manager,  \* the probe's terminals of this connection: the active one, stopped, the open under way
  shell,    \* per terminal: the process
  query     \* per terminal: the question about its screen

termVars == <<socket, sent, link, down, up, manager, shell, query>>

NoOpening == [active |-> NoTerm, stopped |-> FALSE, opening |-> NoTerm]
TerminalInit ==
  /\ socket = [t \in Terms |-> [pc |-> "none", closed |-> FALSE]]
  /\ sent = 0
  /\ link = [number |-> 1, up |-> TRUE]
  /\ down = <<>> /\ up = {}
  /\ manager = NoOpening
  /\ shell = [t \in Terms |-> "none"]
  /\ query = [t \in Terms |-> "none"]

(***************************************************************************)
(* The handler of a socket.                                                *)
(***************************************************************************)
Registered(t) == socket[t].pc \in {"open", "leaving"}
SocketAt(t, pc) == socket' = [socket EXCEPT ![t].pc = pc]

\* The count is looked at before the upgrade, the socket is counted after it.
AskTerminal(t) ==
  /\ socket[t].pc = "none" /\ link.up
  /\ Cardinality({u \in Terms : Registered(u)}) < MaxTerminals
  /\ SocketAt(t, "upgrading")
  /\ UNCHANGED <<sent, link, down, up, manager, shell, query>>
OpenSocket(t) ==
  /\ socket[t].pc = "upgrading" /\ SocketAt(t, "open")
  /\ UNCHANGED <<sent, link, down, up, manager, shell, query>>

\* A frame that finds the queue full or nobody there ends the socket's loop.
Enqueues(type, t, ok) ==
  /\ ok => link.up
  /\ down' = IF ok THEN Append(down, [type |-> type, term |-> t]) ELSE down
BrowserSends(t, type) ==
  /\ socket[t].pc = "open" /\ sent < MaxFrames
  /\ sent' = sent + 1
  /\ \E ok \in BOOLEAN :
       /\ Enqueues(type, t, ok)
       /\ socket' = [socket EXCEPT ![t] =
            [pc |-> IF ok /\ type # "close" THEN "open" ELSE "leaving", closed |-> type = "close"]]
  /\ UNCHANGED <<link, up, manager, shell, query>>
BrowserGone(t) ==
  /\ socket[t].pc = "open" /\ SocketAt(t, "leaving")
  /\ UNCHANGED <<sent, link, down, up, manager, shell, query>>
\* No explicit close: the probe is told.  Then the sink and the push are removed.
LeaveTerminal(t) ==
  /\ socket[t].pc = "leaving" /\ SocketAt(t, "gone")
  /\ IF socket[t].closed THEN UNCHANGED down ELSE \E ok \in BOOLEAN : Enqueues("close", t, ok)
  /\ UNCHANGED <<sent, link, up, manager, shell, query>>

(***************************************************************************)
(* The assistant's question about the screen: only a browser has it, and   *)
(* keys are typed only while one holds the terminal.                       *)
(***************************************************************************)
AskTerminalBuffer(t) ==
  /\ query[t] = "none"
  /\ query' = [query EXCEPT ![t] = IF Registered(t) THEN "asked" ELSE "nobody"]
  /\ UNCHANGED <<socket, sent, link, down, up, manager, shell>>
\* Answered, or the time is up; a late answer finds no one waiting.
EndQuery(t) ==
  /\ query[t] = "asked"
  /\ \/ query' = [query EXCEPT ![t] = "late"]
     \/ /\ socket[t].pc = "open"
        /\ query' = [query EXCEPT ![t] = "answered"]
  /\ UNCHANGED <<socket, sent, link, down, up, manager, shell>>
SendTerminalKeys(t) ==
  /\ query[t] = "answered" /\ Registered(t)
  /\ \E ok \in BOOLEAN : Enqueues("input", t, ok)
  /\ query' = [query EXCEPT ![t] = "typed"]
  /\ UNCHANGED <<socket, sent, link, up, manager, shell>>

(***************************************************************************)
(* The probe.  A process that is told to stop ends in its own time.        *)
(***************************************************************************)
Live(t) == shell[t] = "live"
Stopped(t) == IF t = NoTerm \/ ~(t \in Terms /\ Live(t)) THEN shell
              ELSE [shell EXCEPT ![t] = "killed"]
Frame == Head(down)
ReadsFrame == link.up /\ down # <<>> /\ manager.opening = NoTerm /\ down' = Tail(down)

\* The one that is there is replaced first.  A bad size or mode: the browser is
\* told.
TermOpen ==
  /\ ReadsFrame /\ Frame.type = "open"
  /\ shell' = Stopped(manager.active)
  /\ \/ /\ ~manager.stopped
        /\ manager' = [manager EXCEPT !.active = NoTerm, !.opening = Frame.term]
        /\ UNCHANGED up
     \/ /\ manager' = [manager EXCEPT !.active = NoTerm]
        /\ up' = up \cup {Frame.term}
  /\ UNCHANGED <<socket, sent, link, query>>
\* The shell starts, or the browser is told that it did not.
StartTerminal ==
  /\ manager.opening # NoTerm /\ shell[manager.opening] # "starting"
  /\ LET t == manager.opening
     IN  \/ /\ shell' = [shell EXCEPT ![t] = "starting"]
            /\ UNCHANGED <<up, manager>>
         \/ /\ manager' = [manager EXCEPT !.opening = NoTerm]
            /\ up' = IF link.up THEN up \cup {t} ELSE up
            /\ UNCHANGED shell
  /\ UNCHANGED <<socket, sent, link, down, query>>
\* Mutant of GoesAhead: the check made before the start is trusted.
GoesAheadAnyway == TRUE
\* The connection may have been torn down since the check before the start.
GoesAhead == ~manager.stopped
KeepTerminal ==
  /\ manager.opening # NoTerm /\ shell[manager.opening] = "starting"
  /\ LET t == manager.opening
     IN  /\ shell' = [shell EXCEPT ![t] = IF GoesAhead THEN "live" ELSE "killed"]
         /\ manager' = [manager EXCEPT !.opening = NoTerm, !.active = IF GoesAhead THEN t ELSE @]
  /\ UNCHANGED <<socket, sent, link, down, up, query>>
\* Anything but an open is for the active terminal or for nobody.  A write may
\* fail.
TermInput ==
  /\ ReadsFrame /\ Frame.type = "input"
  /\ \/ UNCHANGED <<manager, shell>>
     \/ /\ manager.active = Frame.term
        /\ manager' = [manager EXCEPT !.active = NoTerm] /\ shell' = Stopped(Frame.term)
  /\ UNCHANGED <<socket, sent, link, up, query>>
TermClose ==
  /\ ReadsFrame /\ Frame.type = "close"
  /\ IF manager.active = Frame.term
     THEN manager' = [manager EXCEPT !.active = NoTerm] /\ shell' = Stopped(Frame.term)
     ELSE UNCHANGED <<manager, shell>>
  /\ UNCHANGED <<socket, sent, link, up, query>>
\* run: the process has ended, by itself or because it was told to.
ShellEnds(t) ==
  /\ shell[t] \in {"live", "killed"}
  /\ shell' = [shell EXCEPT ![t] = "none"]
  /\ manager' = IF manager.active = t THEN [manager EXCEPT !.active = NoTerm] ELSE manager
  /\ \/ up' = up
     \/ (link.up /\ up' = up \cup {t})
  /\ UNCHANGED <<socket, sent, link, down, query>>
\* The report reaches the browser that holds the terminal, if its sink has room.
RelayTerminal(t) ==
  /\ t \in up /\ up' = up \ {t}
  /\ UNCHANGED <<socket, sent, link, down, manager, shell, query>>

\* The connection ends: its terminals are closed, at any point of an open.
ShutDown ==
  /\ link.up /\ link' = [link EXCEPT !.up = FALSE]
  /\ down' = <<>> /\ up' = {}
  /\ manager' = [manager EXCEPT !.stopped = TRUE, !.active = NoTerm]
  /\ shell' = Stopped(manager.active)
  /\ UNCHANGED <<socket, sent, query>>
Reconnect ==
  /\ ~link.up /\ link.number < MaxSessions /\ manager.opening = NoTerm
  /\ link' = [number |-> link.number + 1, up |-> TRUE]
  /\ manager' = NoOpening
  /\ UNCHANGED <<socket, sent, down, up, shell, query>>

TerminalNext ==
  \/ \E t \in Terms :
       \/ AskTerminal(t) \/ OpenSocket(t) \/ BrowserGone(t) \/ LeaveTerminal(t)
       \/ \E type \in {"open", "input", "close"} : BrowserSends(t, type)
       \/ AskTerminalBuffer(t) \/ EndQuery(t) \/ SendTerminalKeys(t)
       \/ ShellEnds(t) \/ RelayTerminal(t)
  \/ TermOpen \/ StartTerminal \/ KeepTerminal \/ TermInput \/ TermClose
  \/ ShutDown \/ Reconnect
TerminalSpec == TerminalInit /\ [][TerminalNext]_termVars

(***************************************************************************)
(* Properties.                                                             *)
(***************************************************************************)
\* A shell that nobody has told to end is the one frames go to: none is left
\* running behind a newer one, and none outlives the connection it was opened
\* over, wherever an open was when the connection ended (terminal.go:80-124,
\* 188-197).
ShellHasOwner == \A t \in Terms : Live(t) => manager.active = t /\ link.up
=============================================================================
