----------------------------- MODULE DataFiles -----------------------------
(***************************************************************************)
(* Two files of data the panel keeps up to date in the background and      *)
(* replaces on request: the country database (internal/server/geoipupdate, *)
(* internal/server/geoip/install.go, internal/server/httpapi/              *)
(* geoip_handlers.go) and the model catalogue (internal/server/modelsdev). *)
(*                                                                         *)
(* Either has one refresh at a time, checks what it downloaded before it   *)
(* moves it into place, and tells afterwards.  An upload of the database   *)
(* does not take part in that, and the panel may stop anywhere.            *)
(***************************************************************************)
EXTENDS Integers, Sequences

CONSTANTS Mirrors,   \* the sources that are tried, in order
          MaxDocs,   \* bound on catalogues fetched
          MaxTurns   \* bound on what time and operators bring: ageing, uploads, restarts, switches

Missing == "missing"
Unknown == ""
Upload == "upload"
ASSUME MirrorsAssumption ==
  /\ Mirrors \in Seq(STRING) /\ Mirrors # <<>>
  /\ \A i \in DOMAIN Mirrors : Mirrors[i] # Unknown

VARIABLES
  db,      \* the database file: where it came from, whether it is past the threshold
  status,  \* of the updater: state and source, in memory and in the settings
  update,  \* the refresh under way: where it is, the mirror it tries
  upload,  \* the upload under way
  auto,    \* the panel's switch
  unsure,  \* history: an upload met a refresh, or the panel stopped before it told
  cache,   \* the catalogue's file: the document, whether it is past the interval
  index,   \* the document in memory
  refresh, \* its refresh under way: where it is and the document it has
  docs, turns

dbVars == <<db, status, update, upload, auto, unsure>>
catalogueVars == <<cache, index, refresh, docs>>
dataVars == <<dbVars, catalogueVars, turns>>

Turn == turns < MaxTurns /\ turns' = turns + 1
NoUpdate == [pc |-> "idle", mirror |-> 0]
NoRefresh == [pc |-> "idle", doc |-> 0]
NoDoc == 0
Corrupt == -1

(***************************************************************************)
(* The country database.                                                   *)
(***************************************************************************)
stale == db.origin = Missing \/ db.old
\* A status without a source keeps the one it had.
Told(state, source) == [state |-> state, source |-> IF source = Unknown THEN status.source ELSE source]
\* A second one joins the first.
Ensure(force) ==
  /\ update.pc = "idle" /\ (force \/ auto) /\ (force \/ stale)
  /\ update' = [pc |-> "asked", mirror |-> 1]
  /\ IF force THEN Turn ELSE UNCHANGED turns
  /\ UNCHANGED <<db, status, upload, auto, unsure, catalogueVars>>
CheckFresh ==
  /\ update.pc = "idle" /\ auto /\ ~stale /\ status' = Told("ok", Unknown)
  /\ UNCHANGED <<db, update, upload, auto, unsure, catalogueVars, turns>>
\* A mirror that answers with something else than a database, or not at all.
MirrorFails ==
  /\ update.pc = "asked"
  /\ IF update.mirror < Len(Mirrors)
     THEN update' = [update EXCEPT !.mirror = @ + 1] /\ UNCHANGED status
     ELSE update' = NoUpdate /\ status' = Told("failed", Unknown)
  /\ UNCHANGED <<db, upload, auto, unsure, catalogueVars, turns>>
CommitMMDB ==
  /\ update.pc = "asked" /\ update' = [update EXCEPT !.pc = "moved"]
  /\ db' = [origin |-> Mirrors[update.mirror], old |-> FALSE]
  /\ unsure' = (unsure \/ upload # "idle")
  /\ UNCHANGED <<status, upload, auto, catalogueVars, turns>>
TellUpdated ==
  /\ update.pc = "moved" /\ update' = NoUpdate
  /\ status' = Told("ok", Mirrors[update.mirror])
  /\ UNCHANGED <<db, upload, auto, unsure, catalogueVars, turns>>

\* Mutant of NoteInstalled: an upload leaves the status to the next check.
NoteNothing == Told("ok", Unknown)
NoteInstalled == Told("ok", Upload)
WriteMMDB ==
  /\ upload = "idle" /\ Turn /\ upload' = "moved"
  /\ db' = [origin |-> Upload, old |-> FALSE]
  /\ unsure' = (unsure \/ update.pc = "moved")
  /\ UNCHANGED <<status, update, auto, catalogueVars>>
TellUploaded ==
  /\ upload = "moved" /\ upload' = "idle" /\ status' = NoteInstalled
  /\ UNCHANGED <<db, update, auto, unsure, catalogueVars, turns>>

(***************************************************************************)
(* The catalogue.                                                          *)
(***************************************************************************)
Expired == cache.doc = NoDoc \/ cache.old
\* A fresh file that is not in memory is read instead.
EnsureIndex(force) ==
  /\ refresh.pc = "idle"
  /\ IF force THEN Turn ELSE UNCHANGED turns
  /\ IF ~force /\ ~Expired /\ cache.doc # Corrupt
     THEN index' = (IF index = NoDoc THEN cache.doc ELSE index) /\ UNCHANGED refresh
     ELSE refresh' = [pc |-> "asked", doc |-> NoDoc] /\ UNCHANGED index
  /\ UNCHANGED <<dbVars, cache, docs>>
FetchCatalogueFails ==
  /\ refresh.pc \in {"asked", "parsed"} /\ refresh' = NoRefresh
  /\ UNCHANGED <<dbVars, cache, index, docs, turns>>
\* Mutant of IndexWhenParsed: the document in memory is replaced first.
IndexAtOnce(doc) == doc
IndexWhenParsed(doc) == index
ParseCatalogue ==
  /\ refresh.pc = "asked" /\ docs < MaxDocs /\ docs' = docs + 1
  /\ refresh' = [pc |-> "parsed", doc |-> docs + 1]
  /\ index' = IndexWhenParsed(docs + 1)
  /\ UNCHANGED <<dbVars, cache, turns>>
InstallCatalogue ==
  /\ refresh.pc = "parsed" /\ refresh' = [refresh EXCEPT !.pc = "moved"]
  /\ cache' = [doc |-> refresh.doc, old |-> FALSE]
  /\ UNCHANGED <<dbVars, index, docs, turns>>
SwapIndex ==
  /\ refresh.pc = "moved" /\ index' = refresh.doc /\ refresh' = NoRefresh
  /\ UNCHANGED <<dbVars, cache, docs, turns>>

(***************************************************************************)
(* Time, the operator and the panel.                                       *)
(***************************************************************************)
FilesAge ==
  /\ Turn
  /\ db' = [db EXCEPT !.old = TRUE] /\ cache' = [cache EXCEPT !.old = TRUE]
  /\ UNCHANGED <<status, update, upload, auto, unsure, index, refresh, docs>>
SwitchAuto ==
  /\ Turn /\ auto' = ~auto
  /\ UNCHANGED <<db, status, update, upload, unsure, catalogueVars>>
UpdatersRestart ==
  /\ Turn
  /\ unsure' = (unsure \/ update.pc = "moved" \/ upload = "moved")
  /\ upload' = "idle"
  /\ IF auto /\ stale THEN update' = [pc |-> "asked", mirror |-> 1] /\ status' = Told("pending", Unknown)
     ELSE /\ update' = NoUpdate
          /\ status' = Told(IF ~auto /\ db.origin = Missing THEN "disabled" ELSE "ok", Unknown)
  /\ index' = (IF cache.doc = Corrupt THEN NoDoc ELSE cache.doc) /\ refresh' = NoRefresh
  /\ UNCHANGED <<db, auto, cache, docs>>

DataInit ==
  /\ db \in [origin : {Missing, Unknown}, old : BOOLEAN]
  /\ auto \in BOOLEAN /\ status = [state |-> "disabled", source |-> Unknown]
  /\ update = NoUpdate /\ upload = "idle" /\ unsure = FALSE
  /\ cache \in [doc : {NoDoc, Corrupt}, old : BOOLEAN]
  /\ index = NoDoc /\ refresh = NoRefresh /\ docs = 0 /\ turns = 0

DataNext ==
  \/ \E force \in BOOLEAN : Ensure(force) \/ EnsureIndex(force)
  \/ CheckFresh \/ MirrorFails \/ CommitMMDB \/ TellUpdated \/ WriteMMDB \/ TellUploaded
  \/ FetchCatalogueFails \/ ParseCatalogue \/ InstallCatalogue \/ SwapIndex
  \/ FilesAge \/ SwitchAuto \/ UpdatersRestart
DataSpec == DataInit /\ [][DataNext]_dataVars

(***************************************************************************)
(* Properties.                                                             *)
(***************************************************************************)
\* The panel names the origin of the database it has: a status that says all is
\* well and names a source names the one the file came from, after failures,
\* uploads, restarts and refreshes that were joined; except when an upload met a
\* refresh or the panel stopped between the file and the word about it
\* (geoip_handlers.go:55-61, geoipupdate.go:390-396, 431-448).
OriginIsTold ==
  ~unsure /\ update.pc # "moved" /\ upload = "idle" /\ status.state = "ok" /\ status.source # Unknown
    => status.source = db.origin

\* What is in memory is what is on disk: no failed refresh leaves the panel with
\* a catalogue it would not have after a restart, nor without one it had
\* (modelsdev.go:300-334, source.go:18-91).
IndexIsCache == refresh.pc # "moved" => index = (IF cache.doc = Corrupt THEN NoDoc ELSE cache.doc)
=============================================================================
