------------------------------- MODULE Adoption -------------------------------
(***************************************************************************)
(* The host's one-shot adoption (packages/host/src/id-migration.ts, the    *)
(* first part of onload and loadSettings in main.ts): on a load without a  *)
(* data.json of its own the host copies the journal's months, the install  *)
(* id and its settings out of the folder the provider kept, then runs.     *)
(* A copy may fail, and the process may die at any step, in the middle of  *)
(* writing a file too.                                                     *)
(***************************************************************************)
EXTENDS Naturals, Sequences, SequencesExt

CONSTANTS
  OldMonths,    \* the journal's months in the provider's folder
  NewMonth,     \* the month the host writes in, which may be one of them
  MaxLoads      \* bound: how often the plugin is loaded

ASSUME AdoptionAssumption ==
  MaxLoads \in Nat /\ IsFiniteSet(OldMonths) /\ "install-id.json" \notin OldMonths

Install == "install-id.json"
Files   == OldMonths \cup {NewMonth, Install}

VARIABLES
  source,      \* the provider's folder: "live", or "none"
  step,        \* "off", "copy", "settings", "record", "load", "running"
  todo,        \* the files of the plan not yet copied
  copied,      \* copied[f]: of f, the host has "none", "part" or "all"
  own,         \* own[f]: the host has written f itself
  data,        \* the host's data.json: "none", "adopted" or "defaults"
  adopted,     \* adoptedSettings, in memory
  record,      \* ADOPTED-FROM-GOVERNOR.md is there
  failed,      \* history: a copy or the settings failed in some load
  torn,        \* history: the process died while it wrote a file
  loads

avars == <<source, step, todo, copied, own, data, adopted, record, failed, torn, loads>>

AdoptionInit ==
  /\ source \in {"live", "none"}
  /\ step = "off" /\ todo = <<>>
  /\ copied = [f \in Files |-> "none"] /\ own = [f \in Files |-> FALSE]
  /\ data = "none" /\ adopted = FALSE /\ record = FALSE
  /\ failed = FALSE /\ torn = FALSE /\ loads = 0

-----------------------------------------------------------------------------
Exists(f) == copied[f] # "none" \/ own[f]

\* Mutant of Plan: a journal folder that is there already is skipped whole.
PlanByFolder ==
  (IF \E m \in OldMonths : Exists(m) THEN <<>> ELSE SetToSeq(OldMonths))
    \o (IF Exists(Install) THEN <<>> ELSE <<Install>>)

\* planHostAdoption: the journal is descended into even if it is there, the install
\* id is left alone if it is.
Plan == SetToSeq(OldMonths) \o (IF Exists(Install) THEN <<>> ELSE <<Install>>)

\* Mutant of LoadStarts: the record of an adoption is the latch.
LoadStartsByRecord ==
  /\ step = "off" /\ loads < MaxLoads
  /\ loads' = loads + 1
  /\ IF record \/ source = "none"
     THEN step' = "load" /\ UNCHANGED todo
     ELSE step' = "copy" /\ todo' = Plan
  /\ UNCHANGED <<source, copied, own, data, adopted, record, failed, torn>>

\* onload: the plan, unless the host has a data.json, which is the latch.
LoadStarts ==
  /\ step = "off" /\ loads < MaxLoads
  /\ loads' = loads + 1
  /\ IF data # "none" \/ source = "none"
     THEN step' = "load" /\ UNCHANGED todo
     ELSE step' = "copy" /\ todo' = Plan
  /\ UNCHANGED <<source, copied, own, data, adopted, record, failed, torn>>

\* copyEntry: a file that is there is passed over.
Copies ==
  /\ step = "copy" /\ todo # <<>>
  /\ copied' = IF Exists(Head(todo)) THEN copied
               ELSE [copied EXCEPT ![Head(todo)] = "all"]
  /\ todo' = Tail(todo)
  /\ UNCHANGED <<source, step, own, data, adopted, record, failed, torn, loads>>

\* A copy or the reading of data.json fails: nothing is adopted in this load.
AdoptionFails ==
  /\ step = "copy"
  /\ failed' = TRUE /\ step' = "load" /\ todo' = <<>>
  /\ UNCHANGED <<source, copied, own, data, adopted, record, torn, loads>>

\* data.json is read, and the record is written after every copy.
Recorded ==
  /\ step = "copy" /\ todo = <<>>
  /\ record' = TRUE /\ step' = "settings"
  /\ UNCHANGED <<source, todo, copied, own, data, adopted, failed, torn, loads>>

\* onload: the settings that were read may not parse.
Parses ==
  /\ step = "settings"
  /\ adopted' \in BOOLEAN
  /\ failed' = (failed \/ ~adopted')
  /\ step' = "load"
  /\ UNCHANGED <<source, todo, copied, own, data, record, torn, loads>>

\* Mutant of SettingsLoad: only settings that were edited are saved.
SettingsLoadUnsaved ==
  /\ step = "load"
  /\ adopted' = FALSE
  /\ step' = "running"
  /\ UNCHANGED <<source, todo, copied, own, data, record, failed, torn, loads>>

\* loadSettings: without a data.json the adopted settings or the defaults are
\* taken and saved at once, which closes the latch either way.
SettingsLoad ==
  /\ step = "load"
  /\ data' = IF data # "none" THEN data ELSE IF adopted THEN "adopted" ELSE "defaults"
  /\ adopted' = FALSE
  /\ step' = "running"
  /\ UNCHANGED <<source, todo, copied, own, record, failed, torn, loads>>

\* The host runs: it journals, and mints an install id if there is none to read.
HostWrites(f) ==
  /\ step = "running" /\ f \in {NewMonth, Install}
  /\ f = Install => copied[f] # "all"
  /\ own' = [own EXCEPT ![f] = TRUE]
  /\ copied' = IF f = Install THEN [copied EXCEPT ![f] = "none"] ELSE copied
  /\ UNCHANGED <<source, step, todo, data, adopted, record, failed, torn, loads>>

\* The process dies, or the plugin is unloaded.
Dies ==
  /\ step # "off"
  /\ step' = "off" /\ todo' = <<>> /\ adopted' = FALSE
  /\ UNCHANGED <<source, copied, own, data, record, failed, torn, loads>>

\* It dies while it writes a copy, and leaves a part of it.
DiesWriting ==
  /\ step = "copy" /\ todo # <<>> /\ ~Exists(Head(todo))
  /\ copied' = [copied EXCEPT ![Head(todo)] = "part"]
  /\ torn' = TRUE
  /\ step' = "off" /\ todo' = <<>> /\ adopted' = FALSE
  /\ UNCHANGED <<source, own, data, record, failed, loads>>

AdoptionNext ==
  \/ LoadStarts \/ Copies \/ AdoptionFails \/ Recorded \/ Parses \/ SettingsLoad
  \/ \E f \in Files : HostWrites(f)
  \/ Dies \/ DiesWriting

AdoptionSpec == AdoptionInit /\ [][AdoptionNext]_avars

-----------------------------------------------------------------------------
\* Every variable has its type; a file of which a part was left never gets the rest.
AdoptionTypeOK ==
  /\ source \in {"live", "none"}
  /\ step \in {"off", "copy", "settings", "load", "running"}
  /\ ToSet(todo) \subseteq Files
  /\ copied \in [Files -> {"none", "part", "all"}] /\ own \in [Files -> BOOLEAN]
  /\ data \in {"none", "adopted", "defaults"}
  /\ {adopted, record, failed, torn} \subseteq BOOLEAN
  /\ loads \in 0..MaxLoads
  /\ (\E f \in Files : copied[f] = "part") => torn
  /\ (\E f \in Files : own[f]) \/ step = "running" => data # "none"

\* Wherever loads were cut short, a host that was provisioned and in which nothing
\* failed holds everything it was to adopt: an interrupted adoption is finished by
\* the next load, and adopted settings are not lost between two loads (onload).
CleanAdoption ==
  data # "none" /\ source = "live" /\ ~failed /\ ~torn =>
    /\ data = "adopted" /\ record
    /\ \A f \in OldMonths \cup {Install} : copied[f] = "all"
    /\ ~own[Install]

\* The record says that every file landed, and none is missing when it is there
\* (runHostAdoption): a retry finishes a half-copied folder, it does not skip it.
RecordedComplete ==
  record => \A f \in OldMonths \cup {Install} : Exists(f)

\* What the plugin's files are, at every load.
AdoptionSafe == AdoptionTypeOK /\ CleanAdoption /\ RecordedComplete

=============================================================================
