------------------------------ MODULE Forwards ------------------------------
(***************************************************************************)
(* Port forwards of one probe: the nftables rules of its table `ip nat`,   *)
(* edited by the panel one command at a time (internal/agent/forwards.go)  *)
(* and by scripts and hands beside it, and the snapshot operators edit     *)
(* from (internal/server/httpapi/forwards_handlers.go).                    *)
(*                                                                         *)
(* A forward is a rule of the prerouting chain; nfpf.sh and the panel write*)
(* one masquerade rule for it in the postrouting chain.  nft appends and   *)
(* deletes by handle, so a chain is the set of its rules, in the order of  *)
(* their handles; a reload numbers them anew.  The protocol stays with the *)
(* source port, the comment is left out.                                   *)
(***************************************************************************)
EXTENDS Integers, Sequences, FiniteSets

CONSTANTS Sources,   \* source ports
          Ifaces,    \* interfaces a rule may name; AnyIface when it names none
          AnyIface,
          Dsts,      \* address and port of a destination
          MaxRules,  \* bound on the rules of a chain
          MaxAsks,   \* bound on the commands of the panel
          MaxHands   \* bound on edits and reloads beside the panel

VARIABLES
  pre,      \* prerouting: the forwards
  post,     \* postrouting: the masquerade rules
  top,      \* the last handle given out
  conf,     \* /etc/nftables.conf: the rules it would load
  shown,    \* the snapshot of the panel
  seen,     \* reads of the ruleset on their way to the panel
  asked,    \* commands queued for the probe, oldest first
  command,  \* the command the probe works on
  asks, hands

ruleset == <<pre, post, top>>
forwardVars == <<ruleset, conf, shown, seen, asked, command, asks, hands>>

Forward == [src : Sources, iface : Ifaces \cup {AnyIface}, dst : Dsts]
\* A rule with terms the panel does not model is `extra`.
Rule(f, extra, handle) == [src |-> f.src, iface |-> f.iface, dst |-> f.dst,
                           extra |-> extra, handle |-> handle]
Masquerade(dst, handle) == [dst |-> dst, handle |-> handle]
SameForward(a, b) == a.src = b.src /\ a.iface = b.iface /\ a.dst = b.dst
To(chain, dst) == {r \in chain : r.dst = dst}
Handles(chain) == {r.handle : r \in chain}
Minus(chain, handles) == {r \in chain : r.handle \notin handles}
\* Its place in the chain is the handle of a rule that is loaded with it.
Place(chain, rule) == Cardinality({r \in chain : r.handle <= rule.handle})

NoCommand == [pc |-> "idle"]
ForwardInit ==
  /\ pre = {} /\ post = {} /\ top = 0
  /\ conf = [pre |-> {}, post |-> {}]
  /\ shown = {} /\ seen = {} /\ asked = <<>> /\ command = NoCommand
  /\ asks = 0 /\ hands = 0

(***************************************************************************)
(* Beside the panel: nfpf.sh, a hand, a reload or a restart of the host.   *)
(***************************************************************************)
\* A command under way no longer sees what it read.
Beside ==
  /\ hands < MaxHands /\ hands' = hands + 1
  /\ UNCHANGED <<conf, shown, seen, asked, asks>>
Touches(how) ==
  command' = IF command = NoCommand THEN command
             ELSE [command EXCEPT !.touched = @ \cup {how}]

HandAdds ==
  /\ Beside /\ Touches("edit")
  /\ Cardinality(pre) < MaxRules
  /\ \E f \in Forward, extra \in BOOLEAN, masquerade \in BOOLEAN :
       /\ pre' = pre \cup {Rule(f, extra, top + 1)}
       /\ post' = IF masquerade THEN post \cup {Masquerade(f.dst, top + 2)} ELSE post
       /\ Cardinality(post') <= MaxRules
  /\ top' = top + 2
HandDeletes ==
  /\ Beside /\ Touches("edit")
  /\ \E h \in Handles(pre) \cup Handles(post) :
       pre' = Minus(pre, {h}) /\ post' = Minus(post, {h})
  /\ UNCHANGED top
\* The rules of the moment, or of the file, are loaded into an empty table.
Reload ==
  /\ Beside /\ Touches("reload")
  /\ \E table \in {[pre |-> pre, post |-> post], conf} :
       /\ pre' = {Rule(r, r.extra, Place(table.pre, r)) : r \in table.pre}
       /\ post' = {Masquerade(r.dst, Cardinality(table.pre) + Place(table.post, r)) :
                     r \in table.post}
       /\ top' = Cardinality(table.pre) + Cardinality(table.post)

(***************************************************************************)
(* What the panel knows and asks.                                          *)
(***************************************************************************)
\* The loop of the probe reads each minute, a command when it is done, and
\* the two may overtake each other; a ruleset that cannot be read is empty.
RefreshForwards ==
  /\ seen = {}
  /\ \E read \in {pre, {}} : read # shown /\ seen' = {read}
  /\ UNCHANGED <<ruleset, conf, shown, asked, command, asks, hands>>
RecordForwards ==
  /\ \E read \in seen : shown' = read /\ seen' = seen \ {read}
  /\ UNCHANGED <<ruleset, conf, asked, command, asks, hands>>

\* An edit or a removal names a rule of the list; the page edits plain ones.
ForwardRequests(list) ==
  {[action |-> "add", new |-> f] : f \in Forward}
  \cup {[action |-> "delete", old |-> r] : r \in list}
  \cup {[action |-> "update", old |-> r, new |-> f] : r \in {p \in list : ~p.extra}, f \in Forward}
ForwardsMutate ==
  /\ asks < MaxAsks /\ asks' = asks + 1
  /\ \E req \in ForwardRequests(shown) : asked' = Append(asked, req)
  /\ UNCHANGED <<ruleset, conf, shown, seen, command, hands>>
\* A queued command expires.
AskExpires ==
  /\ asked # <<>> /\ asked' = Tail(asked)
  /\ UNCHANGED <<ruleset, conf, shown, seen, command, asks, hands>>

(***************************************************************************)
(* One command on the probe: read, plan, one nft transaction, the file.    *)
(***************************************************************************)
\* Mutant: a handle is enough, whatever rule it names now.
ResolveByHandle(rules, want) ==
  LET exact == {r \in rules : r.handle = want.handle}
      alike == {r \in rules : SameForward(r, want)}
  IN  IF exact # {} THEN exact ELSE IF Cardinality(alike) = 1 THEN alike ELSE {}
\* The handle when it still names this forward, else the one rule alike.
ResolveTargets(rules, want) ==
  LET alike == {r \in rules : SameForward(r, want)}
      exact == {r \in alike : r.handle = want.handle}
  IN  IF exact # {} THEN exact ELSE IF Cardinality(alike) = 1 THEN alike ELSE {}

\* Two rules of a port collide unless they name different interfaces.
ConflictWith(rules, new, self) ==
  \E r \in rules :
    /\ r.handle # self /\ r.src = new.src
    /\ (r.iface = new.iface \/ AnyIface \in {r.iface, new.iface})

Without(rules, targets) ==
  {r \in rules : \A t \in targets : r.handle # t.handle /\ ~SameForward(r, t)}
\* The masquerade rules of a destination are alike: which one goes is the same.
OneHandle(chain) == (CHOOSE r \in chain : TRUE).handle
\* Mutant: every forward takes a masquerade rule along.
MasqHandlesOfAll(targets, remaining, masq) ==
  {OneHandle(To(masq, t.dst)) : t \in {u \in targets : To(masq, u.dst) # {}}}
\* Only what the forwards that stay do not need.
MasqHandlesToDrop(targets, remaining, masq) ==
  {OneHandle(To(masq, t.dst)) :
     t \in {u \in targets : Cardinality(To(masq, u.dst)) > Cardinality(To(remaining, u.dst))}}

\* The transaction of a request, over what was read: <<>> when it is refused.
Plan(rules, masq, req) ==
  LET targets == IF req.action = "add" THEN {} ELSE ResolveTargets(rules, req.old)
      self == IF req.action = "update" THEN req.old.handle ELSE 0
      refused == \/ req.action # "add" /\ targets = {}
                 \/ req.action # "delete" /\ ConflictWith(rules, req.new, self)
  IN  IF refused THEN <<>>
      ELSE <<[pre  |-> {t.handle : t \in targets},
              post |-> MasqHandlesToDrop(targets, Without(rules, targets), masq),
              add  |-> IF req.action = "delete" THEN {} ELSE {req.new}]>>

ReadForwards ==
  /\ command = NoCommand /\ asked # <<>>
  /\ asked' = Tail(asked)
  /\ \/ command' = NoCommand    \* no root, no nft, a chain of another type
     \/ /\ Plan(pre, post, Head(asked)) # <<>>
        /\ command' = [pc |-> "nft", req |-> Head(asked), touched |-> {},
                       plan |-> Plan(pre, post, Head(asked))[1],
                       read |-> pre]
  /\ UNCHANGED <<ruleset, conf, shown, seen, asks, hands>>
\* nft applies all of the plan, or nothing when a handle is gone.
Transact ==
  /\ command.pc = "nft"
  /\ LET plan == command.plan
     IN  IF plan.pre \subseteq Handles(pre) /\ plan.post \subseteq Handles(post)
         THEN /\ pre' = Minus(pre, plan.pre) \cup {Rule(f, FALSE, top + 1) : f \in plan.add}
              /\ post' = Minus(post, plan.post) \cup {Masquerade(f.dst, top + 2) : f \in plan.add}
              /\ Cardinality(pre') <= MaxRules /\ Cardinality(post') <= MaxRules
              /\ top' = top + 2 * Cardinality(plan.add)
              /\ command' = [command EXCEPT !.pc = "persist"]
         ELSE UNCHANGED ruleset /\ command' = NoCommand
  /\ UNCHANGED <<conf, shown, seen, asked, asks, hands>>
\* The file is a dump of what nft holds now; failing to write it is a warning.
Persist ==
  /\ command.pc = "persist"
  /\ conf' \in {conf, [pre |-> pre, post |-> post]}
  /\ seen' = seen \cup {pre}
  /\ command' = NoCommand
  /\ UNCHANGED <<ruleset, shown, asked, asks, hands>>

ForwardNext ==
  \/ HandAdds \/ HandDeletes \/ Reload
  \/ RefreshForwards \/ RecordForwards \/ ForwardsMutate \/ AskExpires
  \/ ReadForwards \/ Transact \/ Persist
ForwardSpec == ForwardInit /\ [][ForwardNext]_forwardVars

(***************************************************************************)
(* Properties.                                                             *)
(***************************************************************************)
\* A command takes away no forward but the one the operator named, however
\* old the list was: a reload since gives the handle to another rule
\* (forwards.go:403-407).  Only a reload between its own read and its
\* transaction escapes it.
OnlyNamedIsRemoved ==
  [][(Transact /\ "reload" \notin command.touched)
       => \A r \in pre \ pre' :
            command.req.action # "add" /\ SameForward(r, command.req.old)]_forwardVars

\* A removal takes no masquerade rule that a forward which stays needs
\* (forwards.go:316-319, :334-337): on a chain a hand already trimmed too, as
\* long as no two rules are the same forward.
Distinct(rules) ==
  \A r, s \in rules : SameForward(r, s) => r = s
KeepsReturns(before, after) ==
  \A d \in Dsts :
    Cardinality(To(after.post, d)) < Cardinality(To(before, d))
      => Cardinality(To(after.post, d)) >= Cardinality(To(after.pre, d))
ReturnPathKept ==
  [][(Transact /\ command.touched = {} /\ Distinct(command.read))
       => KeepsReturns(post, [pre |-> pre', post |-> post'])]_forwardVars
\* The same without that condition.  The code does not keep it: of two identical
\* forwards with one masquerade, removing one drops the rule of the other.
AnyReturnPathKept ==
  [][(Transact /\ command.touched = {}) => KeepsReturns(post, [pre |-> pre', post |-> post'])]_forwardVars
=============================================================================
