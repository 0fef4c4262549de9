------------------------------- MODULE Links -------------------------------
(***************************************************************************)
(* One subscription link and the templates: the handlers of                *)
(* internal/server/httpapi/sub_handlers.go that create, change, rotate and *)
(* delete it, the statements of a fetch of /sub/<token>, and the upgrade of*)
(* old templates at a start.                                               *)
(*                                                                         *)
(* A handler reads a row, then writes or reads again, one statement at a   *)
(* time; others go on in between.  Which entries the body lists is         *)
(* Subscriptions' matter.                                                  *)
(***************************************************************************)
EXTENDS Integers, Sequences, FiniteSets, SequencesExt

CONSTANTS Formats,     \* singbox, clash
          Unpinned,    \* the subscription pins none, the client asks for none
          TemplateIds,
          MaxTokens,   \* bound on creations and rotations
          MaxFields,   \* bound on the fields of one update
          MaxWrites,   \* bound on the other requests of operators
          MaxFetches,  \* bound on fetches
          MaxStarts    \* bound on starts of the panel

VARIABLES
  link,       \* the row of subscriptions
  tokens,     \* tokens minted so far; the last is the current one
  templates,  \* the rows of templates
  snippets,   \* the two settings the removed placeholder was filled from
  save,       \* handleUpdateSubscription under way: the fields to come
  fetch,      \* handleSubscription under way
  body,       \* what the last served client got
  failed,     \* history: an upgrade could not rewrite a template
  linkSpent   \* writes, fetches and starts so far

linkVars == <<link, tokens, templates, snippets, save, fetch, body, failed, linkSpent>>

\* The rules of a template are written in, still the placeholder of old
\* versions, or a placeholder that was replaced by nothing ("emptied").
NoTemplate == [format |-> Unpinned, rules |-> "none"]
NoLink == [there |-> FALSE]
NoFetch == [pc |-> "idle"]
Builtin(format) == [format |-> format, rules |-> "written"]

LinkInit ==
  /\ link = NoLink /\ tokens = 0
  /\ templates \in [TemplateIds -> {NoTemplate} \cup [format : Formats, rules : {"placeholder"}]]
  /\ snippets = TRUE
  /\ save = <<>> /\ fetch = NoFetch
  /\ body = [format |-> Unpinned, template |-> NoTemplate]
  /\ failed = FALSE
  /\ linkSpent = [writes |-> 0, fetches |-> 0, starts |-> 0]

\* No request is served before the first start.
Serving == linkSpent.starts > 0
Spend(what, max) == linkSpent[what] < max /\ linkSpent' = [linkSpent EXCEPT ![what] = @ + 1]

(***************************************************************************)
(* The operator.                                                           *)
(***************************************************************************)
\* The hash answers fetches, the ciphertext shows the link again.
Minted(row) ==
  /\ Serving /\ tokens < MaxTokens /\ tokens' = tokens + 1
  /\ link' = row
  /\ UNCHANGED <<templates, snippets, save, fetch, body, failed, linkSpent>>
CreateSubscription ==
  /\ ~link.there
  /\ Minted([there |-> TRUE, token |-> tokens + 1, on |-> TRUE, filter |-> FALSE,
             format |-> Unpinned, template |-> ""])
RotateSubscriptionToken == link.there /\ Minted([link EXCEPT !.token = tokens + 1])
DeleteSubscription ==
  /\ link.there /\ Spend("writes", MaxWrites)
  /\ link' = NoLink
  /\ UNCHANGED <<tokens, templates, snippets, save, fetch, body, failed>>

\* An update is the fields the request names, each with its value, written one
\* statement after the other.  A template that is not there is refused after the
\* ones already done.  A name alone is written with the template that was read
\* with the row.
Fields == <<"format", "filter", "on", "template">>
Values == [format : Formats \cup {Unpinned}, filter : BOOLEAN, on : BOOLEAN, template : TemplateIds \cup {""}]
LinkUpdates ==
  {[f \in F |-> v[f]] : F \in {G \in SUBSET ToSet(Fields) : Cardinality(G) \in 1..MaxFields},
                       v \in Values}
UpdateSubscription ==
  /\ link.there /\ DOMAIN save = {} /\ Spend("writes", MaxWrites)
  /\ save' \in LinkUpdates \cup {[name |-> link.template]}
  /\ UNCHANGED <<link, tokens, templates, snippets, fetch, body, failed>>
Refused(f) == f = "template" /\ save[f] # "" /\ templates[save[f]] = NoTemplate
IsNext(f) ==
  \A i, j \in DOMAIN Fields : Fields[i] \in DOMAIN save /\ Fields[j] = f => j <= i
SetSubscription ==
  /\ \E f \in DOMAIN save :
       /\ IsNext(f)
       /\ link' = IF link.there /\ ~Refused(f)
                  THEN [link EXCEPT ![IF f = "name" THEN "template" ELSE f] = save[f]] ELSE link
       /\ save' = [g \in DOMAIN save \ {f} |-> save[g]]
  /\ UNCHANGED <<tokens, templates, snippets, fetch, body, failed, linkSpent>>

\* A template must carry {{nodes}} and may not carry the old placeholder.
SaveTemplate ==
  /\ Serving /\ Spend("writes", MaxWrites)
  /\ \E t \in TemplateIds, f \in Formats : templates' = [templates EXCEPT ![t] = Builtin(f)]
  /\ UNCHANGED <<link, tokens, snippets, save, fetch, body, failed>>
\* Bindings to it stay and render the built-in one.
DeleteTemplate ==
  /\ Serving /\ Spend("writes", MaxWrites)
  /\ \E t \in TemplateIds : templates' = [templates EXCEPT ![t] = NoTemplate]
  /\ UNCHANGED <<link, tokens, snippets, save, fetch, body, failed>>

(***************************************************************************)
(* A start: MigrateLegacyRules rewrites what it can and drops the settings *)
(* when nothing failed; the process may die before that.                   *)
(***************************************************************************)
Inlined(t) ==
  IF t.rules # "placeholder" THEN t
  ELSE [t EXCEPT !.rules = IF snippets THEN "inlined" ELSE "emptied"]
DropsSnippets(kept) == snippets /\ kept # {}
PanelStarts ==
  /\ Spend("starts", MaxStarts)
  /\ save' = <<>> /\ fetch' = NoFetch
  /\ \E kept \in SUBSET {t \in TemplateIds : templates[t].rules = "placeholder"}, dies \in BOOLEAN :
       /\ templates' = [t \in TemplateIds |->
                          IF t \in kept THEN templates[t] ELSE Inlined(templates[t])]
       /\ snippets' = IF dies THEN snippets ELSE DropsSnippets(kept)
       /\ failed' = (kept # {})
  /\ UNCHANGED <<link, tokens, body>>

(***************************************************************************)
(* A fetch.                                                                *)
(***************************************************************************)
\* Unknown, disabled and filtered links answer alike.
LookUp ==
  /\ fetch = NoFetch /\ Serving /\ Spend("fetches", MaxFetches)
  /\ \E token \in 1..tokens, passes \in BOOLEAN, wants \in Formats \cup {Unpinned}, client \in Formats :
       IF link.there /\ link.token = token /\ link.on /\ (link.filter => passes)
       THEN fetch' = [pc |-> "format", row |-> link, wants |-> wants, client |-> client]
       ELSE UNCHANGED fetch
  /\ UNCHANGED <<link, tokens, templates, snippets, save, body, failed>>
\* What is asked for, what is pinned, what the template is in, the client.
Bound(row) == IF row.template = "" THEN NoTemplate ELSE templates[row.template]
ResolveFormat ==
  /\ fetch.pc = "format"
  /\ LET row == fetch.row
         order == <<fetch.wants, row.format, Bound(row).format, fetch.client>>
     IN  fetch' = [pc |-> "render", row |-> row,
                   format |-> Head(SelectSeq(order, LAMBDA f : f # Unpinned))]
  /\ UNCHANGED <<link, tokens, templates, snippets, save, body, failed, linkSpent>>
\* Mutant: the bound template, as it is now.
ChosenWhatever(row, format) == IF Bound(row) = NoTemplate THEN Builtin(format) ELSE Bound(row)
\* The template is read again: it counts when it is in the format chosen.
Chosen(row, format) == IF Bound(row).format = format THEN Bound(row) ELSE Builtin(format)
RenderSubscription ==
  /\ fetch.pc = "render"
  /\ body' = [format |-> fetch.format, template |-> Chosen(fetch.row, fetch.format)]
  /\ fetch' = NoFetch
  /\ UNCHANGED <<link, tokens, templates, snippets, save, failed, linkSpent>>

LinkNext ==
  \/ CreateSubscription \/ RotateSubscriptionToken \/ DeleteSubscription
  \/ UpdateSubscription \/ SetSubscription \/ SaveTemplate \/ DeleteTemplate
  \/ PanelStarts \/ LookUp \/ ResolveFormat \/ RenderSubscription
LinkSpec == LinkInit /\ [][LinkNext]_linkVars

(***************************************************************************)
(* Properties.                                                             *)
(***************************************************************************)
\* A client gets a body of the format it is told, whatever happened to the
\* template between the two reads of a fetch; its rules were never replaced by
\* nothing, and the old placeholder reaches it only when the upgrade could not
\* rewrite the template (sub_handlers.go:1000-1010, :75-81).
BodyIsWhole ==
  /\ body.template # NoTemplate => body.template.format = body.format
  /\ body.template.rules # "emptied"
  /\ \A t \in TemplateIds : templates[t].rules = "placeholder" => (failed \/ ~Serving)
  /\ \A t \in TemplateIds : templates[t].rules # "emptied"
=============================================================================
