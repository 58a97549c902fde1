------------------------------ MODULE Cutover ------------------------------
(***************************************************************************)
(* The authority cutover of the governor (kernel/migration and             *)
(* wiring/migration-wiring.ts).  A marker file in the vault says whether   *)
(* the admission chain has replaced the legacy baselines, and which        *)
(* machine's chain it authorizes.  The marker travels with the vault by    *)
(* sync; each machine guards its legacy writers with a cached copy of it.  *)
(* A human's gestures (cut over, roll back, bind) read the marker, decide  *)
(* and write it, over files that may be torn or for a moment unreadable.   *)
(***************************************************************************)
EXTENDS Naturals, FiniteSets

CONSTANTS
  Machines,     \* each has one store identity of its own, minted in a gesture
  Gestures,
  Baselines,    \* legacy baseline writes
  NoStore,
  Scenes        \* marker: each machine's first; does: each gesture's machine and kind;
                \* writer: each baseline's machine; coming: the mishaps that may come

GestureKinds == {"cut", "rollback", "bind"}

ASSUME CutoverAssumption ==
  /\ NoStore \notin Machines
  /\ \A s \in Scenes : /\ s.marker \in [Machines -> [at : {"absent", "good", "torn"}, cut : BOOLEAN,
                                                 store : Machines \cup {NoStore}, by : {{}}]]
                       /\ s.does \in [Gestures -> [m : Machines, kind : GestureKinds]]
                       /\ s.writer \in [Baselines -> Machines]
                       /\ s.coming \subseteq {"crash", "tear", "unreadable", "refresh", "sync"}

VARIABLES
  marker,     \* marker[m]: m's copy of cutover.json
  cached,     \* cached[m]: the state as m read it last
  corrupt,    \* corrupt[m]: m's last read could not make sense of the file
  storeId,    \* storeId[m]: the machine-local identity of its chain
  does, gesture,   \* gesture[g]: the gesture in progress
  glance,    \* glance[m]: a status or binding read in flight
  importing,      \* importing[m]: the import that has the evidence store
  evidence,   \* evidence[m][b]: how many records of baseline b
  writer, landing, \* landing[b]: "ready", "passed" (the guard), "landed" or "gone"
  mishaps,
  behind,     \* history: m's marker changed while another read or write of it was in flight, or by sync
  undone, excused   \* history: see Destroys and ReadMarker

cvars == <<marker, cached, corrupt, storeId, does, gesture, glance, importing, evidence, writer, landing,
           mishaps, behind, undone, excused>>

NoMarker   == [at |-> "absent", cut |-> FALSE, store |-> NoStore, by |-> {}]
TornMarker     == [NoMarker EXCEPT !.at = "torn"]
\* What a read answers that finds neither a marker nor its absence: fewer writers.
Fallback == [NoMarker EXCEPT !.at = "good", !.cut = TRUE]

NoGesture == [at |-> "ready", had |-> {}, todo |-> {}, clear |-> FALSE, seen |-> NoMarker,
              next |-> NoMarker]
NoGlance == [on |-> FALSE, seen |-> NoMarker, crossed |-> FALSE]

\* A read that finds the file torn, or whose probe throws, is of no use.
Useless(m, fails) == marker[m].at = "torn" \/ fails

\* Mutant of AsRead: what cannot be read is as if it were not there.
AsIfAbsent(text, useless) == IF useless THEN NoMarker ELSE text

AsRead(text, useless) == IF useless THEN Fallback ELSE text

CutoverInit ==
  /\ \E s \in Scenes : /\ marker = s.marker /\ does = s.does /\ writer = s.writer /\ mishaps = s.coming
                       /\ storeId = [m \in Machines |->
                            IF \E n \in Machines : s.marker[n].store = m THEN m ELSE NoStore]
  /\ cached = [m \in Machines |-> AsRead(marker[m], marker[m].at = "torn")]
  /\ corrupt = [m \in Machines |-> marker[m].at = "torn"]
  /\ gesture = [g \in Gestures |-> NoGesture] /\ glance = [m \in Machines |-> NoGlance]
  /\ importing = [m \in Machines |-> {}] /\ evidence = [m \in Machines |-> [b \in Baselines |-> 0]]
  /\ landing = [b \in Baselines |-> "ready"] /\ behind = [m \in Machines |-> FALSE]
  /\ undone = {} /\ excused = {}

IsCutOver(m) == cached[m].cut \/ corrupt[m]
Landed(m)    == {b \in Baselines : writer[b] = m /\ landing[b] = "landed"}
Mishap(f)     == f \in mishaps /\ mishaps' = mishaps \ {f}

-----------------------------------------------------------------------------
\* The legacy writer asks the guard, and its file is written later.
PassGuard(b) ==
  /\ landing[b] = "ready"
  /\ landing' = [landing EXCEPT ![b] = IF IsCutOver(writer[b]) THEN "gone" ELSE "passed"]
  /\ UNCHANGED <<marker, cached, corrupt, storeId, does, gesture, glance, importing, evidence, writer,
                 mishaps, behind, undone, excused>>

LandBaseline(b) ==
  /\ landing[b] = "passed" /\ landing' = [landing EXCEPT ![b] = "landed"]
  /\ UNCHANGED <<marker, cached, corrupt, storeId, does, gesture, glance, importing, evidence, writer,
                 mishaps, behind, undone, excused>>

-----------------------------------------------------------------------------
RestOfGesture == UNCHANGED <<does, glance, writer, landing>>
InStep(g, where) == gesture[g].at = where
MoveTo(g, where) == gesture' = [gesture EXCEPT ![g].at = where]

\* history: what the human saw is there is to be in the evidence.
BeginGesture(g) ==
  /\ InStep(g, "ready")
  /\ gesture' = [gesture EXCEPT ![g] = [NoGesture EXCEPT !.had = Landed(does[g].m),
                                !.at = IF does[g].kind = "cut" THEN "plan" ELSE "check"]]
  /\ UNCHANGED <<marker, cached, corrupt, storeId, importing, evidence, mishaps, behind, undone, excused>>
  /\ RestOfGesture

\* runImport: the surfaces as they are now; the imports wait for one another.
PlanImport(g) ==
  /\ InStep(g, "plan") /\ LET m == does[g].m IN
       gesture' = [gesture EXCEPT ![g] = [@ EXCEPT !.at = "import", !.todo = Landed(m)]]
  /\ UNCHANGED <<marker, cached, corrupt, storeId, importing, evidence, mishaps, behind, undone, excused>>
  /\ RestOfGesture

\* Mutant of MayImport: the imports do not wait for one another.
ImportsOverlap(g) == g \notin importing[does[g].m]

MayImport(g) == importing[does[g].m] = {}

StartImport(g) ==
  /\ InStep(g, "import") /\ MayImport(g)
  /\ LET m == does[g].m IN
       /\ importing' = [importing EXCEPT ![m] = @ \cup {g}]
       /\ gesture' = [gesture EXCEPT ![g] = [@ EXCEPT !.at = "append",
                   !.todo = {b \in gesture[g].todo : evidence[m][b] = 0}]]
  /\ UNCHANGED <<marker, cached, corrupt, storeId, evidence, mishaps, behind, undone, excused>>
  /\ RestOfGesture

AppendEvidence(g) ==
  /\ InStep(g, "append")
  /\ LET m == does[g].m IN
       \/ \E b \in gesture[g].todo : /\ evidence' = [evidence EXCEPT ![m][b] = @ + 1]
                                /\ gesture' = [gesture EXCEPT ![g].todo = @ \ {b}] /\ UNCHANGED importing
       \/ gesture[g].todo = {} /\ importing' = [importing EXCEPT ![m] = @ \ {g}] /\ MoveTo(g, "mint")
          /\ UNCHANGED evidence
  /\ UNCHANGED <<marker, cached, corrupt, storeId, mishaps, behind, undone, excused>> /\ RestOfGesture

\* mintStoreIdGestured: before the decision, whatever that will be.
MintStoreId(g) ==
  /\ InStep(g, "mint") /\ MoveTo(g, "decide") /\ storeId' = [storeId EXCEPT ![does[g].m] = does[g].m]
  /\ UNCHANGED <<marker, cached, corrupt, importing, evidence, mishaps, behind, undone, excused>>
  /\ RestOfGesture

\* Mutant of MayOverwrite: the marker's state is not looked at first.
AlwaysOverwrite(m, fails) == TRUE

MayOverwrite(m, fails) == ~Useless(m, fails)

\* Rollback and bind look first, and refuse a corrupt marker.
LookFirst(g) ==
  /\ InStep(g, "check")
  /\ \E fails \in BOOLEAN : LET m == does[g].m IN
       /\ IF fails THEN Mishap("unreadable") ELSE UNCHANGED mishaps
       /\ corrupt' = [corrupt EXCEPT ![m] = Useless(m, fails)]
       /\ IF MayOverwrite(m, fails)
          THEN gesture' = [gesture EXCEPT ![g] = [@ EXCEPT !.clear = ~Useless(m, fails),
                        !.at = IF does[g].kind = "bind" THEN "mint" ELSE "decide"]]
          ELSE MoveTo(g, "refused")
  /\ UNCHANGED <<marker, cached, storeId, importing, evidence, behind, undone, excused>> /\ RestOfGesture

\* Mutant of GestureAllowed: a bind takes over whatever marker there is.
GestureRebinds(kind, cur) == IF kind = "cut" THEN ~cur.cut ELSE cur.cut

GestureAllowed(kind, cur) ==
  CASE kind = "cut"      -> ~cur.cut
    [] kind = "rollback" -> cur.cut
    [] kind = "bind"     -> cur.cut /\ cur.store = NoStore

NextMarker(g, cur) ==
  CASE does[g].kind = "cut"      -> [at |-> "good", cut |-> TRUE, store |-> storeId[does[g].m], by |-> {g}]
    [] does[g].kind = "rollback" -> [cur EXCEPT !.at = "good", !.cut = FALSE]
    [] does[g].kind = "bind"     -> [cur EXCEPT !.store = storeId[does[g].m]]

\* performCutover, rollbackCutover, bindMarker: a read of their own decides.
\* history: a rollback's or bind's, useless although the first was not.
DecideGesture(g) ==
  /\ InStep(g, "decide")
  /\ \E fails \in BOOLEAN : LET m == does[g].m
                                cur == AsRead(marker[m], Useless(m, fails)) IN
       /\ IF fails THEN Mishap("unreadable") ELSE UNCHANGED mishaps
       /\ corrupt' = [corrupt EXCEPT ![m] = Useless(m, fails)]
       /\ IF GestureAllowed(does[g].kind, cur)
          THEN gesture' = [gesture EXCEPT ![g] = [@ EXCEPT !.at = "write", !.seen = marker[m],
                                          !.next = NextMarker(g, cur)]]
          ELSE MoveTo(g, "refused")
       /\ excused' = excused \cup IF Useless(m, fails) /\ gesture[g].clear THEN {g} ELSE {}
  /\ UNCHANGED <<marker, cached, storeId, importing, evidence, behind, undone>> /\ RestOfGesture

\* The marker changes under whatever reads or writes of it are in flight on m.
Crossing(m, g) ==
  /\ glance' = [glance EXCEPT ![m].crossed = glance[m].on]
  /\ behind' = [behind EXCEPT ![m] = @ \/ \E h \in Gestures \ {g} : does[h].m = m /\ InStep(h, "cache")]

\* What is undone: a torn file's contents, the record of the cutover, or the binding.
Destroys(g, old, new) ==
  \/ old.at = "torn"
  \/ does[g].kind # "cut" /\ old.by # new.by
  \/ old.cut /\ old.store \notin {NoStore, new.store}

\* history: a change between the deciding read and the write excuses what is undone.
WriteMarker(g) ==
  /\ InStep(g, "write") /\ MoveTo(g, "cache")
  /\ LET m == does[g].m
         new == gesture[g].next
     IN /\ marker' = [marker EXCEPT ![m] = new] /\ corrupt' = [corrupt EXCEPT ![m] = FALSE]
        /\ Crossing(m, g)
        /\ undone' = undone \cup IF Destroys(g, marker[m], new) THEN {g} ELSE {}
        /\ excused' = excused \cup IF marker[m] # gesture[g].seen THEN {g} ELSE {}
  /\ UNCHANGED <<cached, storeId, does, importing, evidence, writer, landing, mishaps>>

\* The write fails half-way: the gesture ends with an error.
TearMarker(g) ==
  /\ InStep(g, "write") /\ Mishap("tear") /\ MoveTo(g, "refused")
  /\ marker' = [marker EXCEPT ![does[g].m] = TornMarker]
  /\ glance' = [glance EXCEPT ![does[g].m].crossed = glance[does[g].m].on]
  /\ behind' = [behind EXCEPT ![does[g].m] = TRUE]
  /\ UNCHANGED <<cached, corrupt, storeId, does, importing, evidence, writer, landing, undone, excused>>

\* Mutant of Adopted: the cached state is what it was.
NotAdopted(g) == cached

Adopted(g) == [cached EXCEPT ![does[g].m] = gesture[g].next]

CacheMarker(g) ==
  /\ InStep(g, "cache") /\ MoveTo(g, "done") /\ cached' = Adopted(g)
  /\ UNCHANGED <<marker, corrupt, storeId, importing, evidence, mishaps, behind, undone, excused>>
  /\ RestOfGesture

-----------------------------------------------------------------------------
RestOfGlance == UNCHANGED <<marker, storeId, does, gesture, importing, evidence, writer, landing,
                            undone, excused>>

\* status and binding: the settings tab, and the gate of every admission.
Glance(m) ==
  /\ ~glance[m].on /\ Mishap("refresh")
  /\ glance' = [glance EXCEPT ![m] = [on |-> TRUE, seen |-> marker[m], crossed |-> FALSE]]
  /\ UNCHANGED <<cached, corrupt, behind>> /\ RestOfGlance

GlanceEnds(m) ==
  /\ glance[m].on /\ glance' = [glance EXCEPT ![m] = NoGlance]
  /\ LET bad == glance[m].seen.at = "torn" IN
       /\ corrupt' = [corrupt EXCEPT ![m] = bad]
       /\ cached' = [cached EXCEPT ![m] = AsRead(glance[m].seen, bad)]
  /\ behind' = [behind EXCEPT ![m] =
       glance[m].crossed \/ \E g \in Gestures : does[g].m = m /\ InStep(g, "cache")]
  /\ UNCHANGED mishaps /\ RestOfGlance

\* The plugin dies and is loaded again: loadState comes before the guard is set.
GovernorRestarts(m) ==
  /\ Mishap("crash")
  /\ \E half \in BOOLEAN :
       /\ half => \E g \in Gestures : does[g].m = m /\ InStep(g, "write")
       /\ marker' = IF half THEN [marker EXCEPT ![m] = TornMarker] ELSE marker
  /\ cached' = [cached EXCEPT ![m] = AsRead(marker'[m], marker'[m].at = "torn")]
  /\ corrupt' = [corrupt EXCEPT ![m] = marker'[m].at = "torn"]
  /\ gesture' = [g \in Gestures |-> IF does[g].m = m /\ ~InStep(g, "ready")
                                    THEN [gesture[g] EXCEPT !.at = "done"] ELSE gesture[g]]
  /\ landing' = [b \in Baselines |-> IF writer[b] = m /\ landing[b] = "passed" THEN "gone" ELSE landing[b]]
  /\ glance' = [glance EXCEPT ![m] = NoGlance] /\ importing' = [importing EXCEPT ![m] = {}]
  /\ behind' = [behind EXCEPT ![m] = FALSE]
  /\ UNCHANGED <<storeId, does, evidence, writer, undone, excused>>

\* The vault's copy travels; nothing tells the plugin.
SyncMarker(from, to) ==
  /\ Mishap("sync") /\ marker[from] # marker[to] /\ marker' = [marker EXCEPT ![to] = marker[from]]
  /\ glance' = [glance EXCEPT ![to].crossed = glance[to].on]
  /\ behind' = [behind EXCEPT ![to] = TRUE]
  /\ UNCHANGED <<cached, corrupt, storeId, does, gesture, importing, evidence, writer, landing,
                 undone, excused>>

CutoverNext ==
  \/ \E b \in Baselines : PassGuard(b) \/ LandBaseline(b)
  \/ \E g \in Gestures :
       \/ BeginGesture(g) \/ PlanImport(g) \/ StartImport(g) \/ AppendEvidence(g) \/ MintStoreId(g)
       \/ LookFirst(g) \/ DecideGesture(g) \/ WriteMarker(g) \/ TearMarker(g) \/ CacheMarker(g)
  \/ \E m \in Machines : Glance(m) \/ GlanceEnds(m) \/ GovernorRestarts(m)
  \/ \E m, n \in Machines : SyncMarker(m, n)

CutoverSpec == CutoverInit /\ [][CutoverNext]_cvars

-----------------------------------------------------------------------------
CutoverTypeOK ==
  /\ \A m \in Machines : /\ marker[m].at \in {"absent", "good", "torn"} /\ marker[m].by \subseteq Gestures
                         /\ marker[m].store \in Machines \cup {NoStore}
                         /\ storeId[m] \in {NoStore, m}
  /\ \A b \in Baselines : landing[b] \in {"ready", "passed", "landed", "gone"}

\* One standing writer: where the marker says that the chain is the authority, or
\* cannot be read, the legacy writers of that machine are refused; save for the
\* moment until the gesture that wrote it goes on; and, until the next look, save
\* where a read or write of the marker overlapped another, a write of it failed
\* half-way, or sync brought it.
GuardFollows ==
  \A m \in Machines :
    \/ behind[m] \/ glance[m].crossed
    \/ \E g \in Gestures : does[g].m = m /\ InStep(g, "cache")
    \/ marker[m].cut \/ marker[m].at = "torn" => IsCutOver(m)

\* Where a gesture moved the authority, the baselines that had landed when the human
\* confirmed are in the evidence; and no baseline is there twice.
EvidenceCurrent ==
  /\ \A m, n \in Machines : \A g \in marker[n].by :
       does[g].m = m => \A b \in gesture[g].had : evidence[m][b] > 0
  /\ \A m \in Machines : \A b \in Baselines : evidence[m][b] <= 1

\* Corruption is repaired by a human who looks at the file: no gesture replaces a torn
\* marker, the record of another's cutover, or a binding to another machine's chain,
\* unless the file changed after the read that decided, or that read failed where the
\* one before it did not.
RecordKept == undone \subseteq excused

CutoverSafe == CutoverTypeOK /\ GuardFollows /\ EvidenceCurrent /\ RecordKept
=============================================================================
