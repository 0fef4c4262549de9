---------------------------- MODULE MCPublishing ----------------------------
(***************************************************************************)
(* Four components of the panel that publish listeners to clients and do   *)
(* not share a step here: a behaviour exercises one `part`, the others stay*)
(* in one of their initial states.                                         *)
(***************************************************************************)
EXTENDS Inbounds, Subscriptions, Forwards, Links, TLC

At(p, k) == [port |-> p, kind |-> k]
Files == {<<>>, <<At(1, Anytls)>>, <<At(1, Anytls), At(2, "vless")>>}
Symmetry == Permutations(Editors)

VARIABLE part

InboundsRest == file = <<>> /\ doc = <<>>
SubscriptionsRest == pair = 0 /\ entries = <<>> /\ ~autoInclude
LinksRest == \A t \in TemplateIds : templates[t] = NoTemplate

Init ==
  /\ part \in {"inbounds", "subscriptions", "forwards", "links"}
  /\ InboundInit /\ (part # "inbounds" => InboundsRest)
  /\ SubInit /\ (part # "subscriptions" => SubscriptionsRest)
  /\ ForwardInit
  /\ LinkInit /\ (part # "links" => LinksRest)

Next ==
  \/ part = "inbounds" /\ InboundNext /\ UNCHANGED <<part, subVars, forwardVars, linkVars>>
  \/ part = "subscriptions" /\ SubNext /\ UNCHANGED <<part, inboundVars, forwardVars, linkVars>>
  \/ part = "forwards" /\ ForwardNext /\ UNCHANGED <<part, inboundVars, subVars, linkVars>>
  \/ part = "links" /\ LinkNext /\ UNCHANGED <<part, inboundVars, subVars, forwardVars>>

Spec == Init /\ [][Next]_<<part, inboundVars, subVars, forwardVars, linkVars>>
=============================================================================
