----------------------------- MODULE Enrolment -----------------------------
(***************************************************************************)
(* How a host becomes a node and stays one: the registration tokens of the *)
(* panel, POST /api/agent/register, the credentials the probe writes down  *)
(* and the handshake of /ws/agent (internal/server/httpapi/                *)
(* agent_handlers.go, agent_update_handlers.go; internal/server/store/     *)
(* nodes.go; internal/agent/client.go).                                    *)
(*                                                                         *)
(* A registration takes its token, looks its machine up and writes, as     *)
(* three steps between which others run; its answer may be lost.  A secret *)
(* is a number; the panel keeps one per node.                              *)
(***************************************************************************)
EXTENDS Integers, FiniteSets

CONSTANTS Hosts, Nodes, Tokens,
          MaxSecrets,  \* bound on secrets handed out
          MaxMishaps   \* bound on wipes, deletions and expiries

NoNode == "none"
NoSecret == 0
NoHost == "nobody"

VARIABLES
  token,    \* per token: "none", "fresh", "used" or "expired", and the node it is bound to
  node,     \* per node: whether it exists, the machine id it is known by, its secret
  host,     \* per host: its machine id, and the credentials of its config file
  registration,  \* per host: its registration
  serving,  \* per node: the host of its connection
  secrets,  \* how many secrets there have been
  mishaps

enrolVars == <<token, node, host, registration, serving, secrets, mishaps>>

Idle == [pc |-> "idle", token |-> "none", bound |-> NoNode, machine |-> <<>>, claim |-> NoNode,
         secret |-> NoSecret, target |-> NoNode, adopts |-> FALSE, knew |-> FALSE]

\* A machine id is the host and how often its state directory was wiped.
EnrolInit ==
  /\ token = [t \in Tokens |-> [state |-> "none", bound |-> NoNode]]
  /\ node = [n \in Nodes |-> [state |-> "none", machine |-> <<>>, secret |-> NoSecret]]
  /\ host = [h \in Hosts |-> [machine |-> <<h, 0>>, node |-> NoNode, secret |-> NoSecret]]
  /\ registration = [h \in Hosts |-> Idle]
  /\ serving = [n \in Nodes |-> NoHost]
  /\ secrets = 0 /\ mishaps = 0

Exists(n) == n # NoNode /\ node[n].state = "exists"
Secret(n) == IF n \in Nodes /\ node[n].state = "exists" THEN node[n].secret ELSE NoSecret
ByMachine(id) == {n \in Nodes : Exists(n) /\ node[n].machine = id}

\* The two commands of the panel: add a node, or reinstall the probe of one.
CreateRegToken(t, bound) ==
  /\ token[t].state = "none"
  /\ bound # NoNode => Exists(bound)
  /\ token' = [token EXCEPT ![t] = [state |-> "fresh", bound |-> bound]]
  /\ UNCHANGED <<node, host, registration, serving, secrets, mishaps>>

Mishap == mishaps < MaxMishaps /\ mishaps' = mishaps + 1
ExpireToken(t) ==
  /\ token[t].state = "fresh" /\ token' = [token EXCEPT ![t].state = "expired"] /\ Mishap
  /\ UNCHANGED <<node, host, registration, serving, secrets>>
\* config.json is lost, or the whole state directory with the machine id.
LoseConfig(h, whole) ==
  /\ host' = [host EXCEPT ![h] = [machine |-> IF whole THEN <<h, @.machine[2] + 1>> ELSE @.machine,
                                  node |-> NoNode, secret |-> NoSecret]]
  /\ Mishap
  /\ UNCHANGED <<token, node, registration, serving, secrets>>
DeleteNode(n) ==
  /\ Exists(n) /\ node' = [node EXCEPT ![n].state = "deleted"]
  /\ serving' = [serving EXCEPT ![n] = NoHost] /\ Mishap
  /\ UNCHANGED <<token, host, registration, secrets>>

(***************************************************************************)
(* A registration.  Its token is gone whatever comes of it.                *)
(***************************************************************************)
ConsumeRegToken(h, t) ==
  /\ registration[h].pc = "idle" /\ token[t].state = "fresh"
  /\ token' = [token EXCEPT ![t].state = "used"]
  /\ registration' = [registration EXCEPT ![h] =
       [Idle EXCEPT !.pc = "consumed", !.token = t, !.bound = token[t].bound, !.machine = host[h].machine,
                    !.claim = host[h].node, !.secret = host[h].secret]]
  /\ UNCHANGED <<node, host, serving, secrets, mishaps>>

Knows(r, n) == r.claim = n /\ r.secret # NoSecret /\ r.secret = Secret(n)
\* Mutant of Allowed: a bound token is good for whatever machine it runs on.
AllowedAnywhere(r, n) == r.bound # NoNode \/ Knows(r, n)
\* A machine that is known keeps its node, for a token bound to that node, or,
\* with a token bound to none, for the secret the node has.
Allowed(r, n) == r.bound = n \/ (r.bound = NoNode /\ Knows(r, n))
\* The nodes a registration may write, NoNode for one to be created; none if refused.
Targets(r) ==
  LET known == ByMachine(r.machine)
  IN  IF known # {} THEN {n \in known : Allowed(r, n)}
      ELSE IF r.bound # NoNode THEN {n \in {r.bound} : Exists(n)}
      ELSE {NoNode}

Decide(h) ==
  LET r == registration[h]
  IN  /\ r.pc = "consumed"
      /\ \/ Targets(r) = {} /\ registration' = [registration EXCEPT ![h] = Idle]
         \/ \E n \in Targets(r) :
              registration' = [registration EXCEPT ![h] =
                [r EXCEPT !.pc = "writing", !.target = n, !.adopts = ByMachine(r.machine) = {},
                          !.knew = Knows(r, n)]]
      /\ UNCHANGED <<token, node, host, serving, secrets, mishaps>>

\* The machine id is unique: a write that would give it to two nodes fails.
Clashes(r) == r.adopts /\ \E n \in ByMachine(r.machine) : n # r.target
\* An update of a row that is gone changes nothing and is not told from one
\* that did; an insertion takes an id nobody has had.
IdsFor(r) == IF r.target = NoNode THEN {n \in Nodes : node[n].state = "none"} ELSE {r.target}
Row(r, n) == [state |-> "exists", secret |-> secrets + 1,
              machine |-> IF r.adopts THEN r.machine ELSE node[n].machine]
WriteNode(h) ==
  LET r == registration[h]
  IN  /\ r.pc = "writing" /\ ~Clashes(r) /\ secrets < MaxSecrets
      /\ secrets' = secrets + 1
      /\ \E n \in IdsFor(r) :
           /\ node' = IF node[n].state = "deleted" THEN node ELSE [node EXCEPT ![n] = Row(r, n)]
           /\ registration' = [registration EXCEPT ![h] =
                [r EXCEPT !.pc = "answered", !.target = n, !.secret = secrets + 1]]
      /\ UNCHANGED <<token, host, serving, mishaps>>
WriteClashes(h) ==
  /\ registration[h].pc = "writing" /\ Clashes(registration[h])
  /\ registration' = [registration EXCEPT ![h] = Idle]
  /\ UNCHANGED <<token, node, host, serving, secrets, mishaps>>
\* The probe saves what it was told, if it was told.
Answered(h, lost) ==
  /\ registration[h].pc = "answered" /\ registration' = [registration EXCEPT ![h] = Idle]
  /\ host' = IF lost THEN host
             ELSE [host EXCEPT ![h].node = registration[h].target, ![h].secret = registration[h].secret]
  /\ UNCHANGED <<token, node, serving, secrets, mishaps>>

(***************************************************************************)
(* The handshake: the connection that was there is replaced.               *)
(***************************************************************************)
Authentic(h) == host[h].node # NoNode /\ host[h].secret # NoSecret /\ host[h].secret = Secret(host[h].node)
ConnectAgent(h) ==
  /\ Authentic(h) /\ serving[host[h].node] # h
  /\ serving' = [serving EXCEPT ![host[h].node] = h]
  /\ UNCHANGED <<token, node, host, registration, secrets, mishaps>>

EnrolNext ==
  \/ \E t \in Tokens :
       \/ ExpireToken(t)
       \/ \E bound \in Nodes \cup {NoNode} : CreateRegToken(t, bound)
       \/ \E h \in Hosts : ConsumeRegToken(h, t)
  \/ \E h \in Hosts :
       \/ Decide(h) \/ WriteNode(h) \/ WriteClashes(h) \/ ConnectAgent(h)
       \/ \E b \in BOOLEAN : LoseConfig(h, b) \/ Answered(h, b)
  \/ \E n \in Nodes : DeleteNode(n)
EnrolSpec == EnrolInit /\ [][EnrolNext]_enrolVars

(***************************************************************************)
(* Properties.                                                             *)
(***************************************************************************)
\* The credentials of a node are replaced only by a registration that holds a
\* token minted for that very node, or had shown, with a token for none, the
\* secret the node had; a host that runs another's token, or has lost its
\* config, replaces nothing (agent_handlers.go:133-140, 163-185).
SecretsStay ==
  [][\A n \in Nodes : Exists(n) /\ Secret(n)' # Secret(n) /\ Exists(n)'
        => \E h \in Hosts : /\ registration[h].pc = "writing" /\ registration'[h].pc = "answered"
                            /\ registration[h].target = n
                            /\ registration[h].bound = n \/ (registration[h].bound = NoNode /\ registration[h].knew)
  ]_enrolVars
=============================================================================
