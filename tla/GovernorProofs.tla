--------------------------- MODULE GovernorProofs ---------------------------
(***************************************************************************)
(* Theorems about the governor.  The cutover: the guard follows the        *)
(* marker, the evidence is complete, no record is undone unread.  The      *)
(* mandates: none comes back that has ended, and while their cache is one  *)
(* array, one grant of a negotiation, no stamp after a revocation, and a   *)
(* budget that is held.  The baselines: no acceptance is lost or left      *)
(* where its note is not, unless calls for one path overlapped.  The       *)
(* review queue: nobody's text is accepted unanswered for, and what waits  *)
(* for review is listed.                                                   *)
(***************************************************************************)
EXTENDS Cutover, Mandates, BaselineStore, ReviewQueue, FiniteSetTheorems, WellFoundedInduction, TLAPS

-----------------------------------------------------------------------------
(***************************************************************************)
(* The cutover.  What the marker, the gestures and the evidence are;       *)
(* RecordInv, what a gesture in flight knows of the file; GuardInv, what a *)
(* look in flight and the guard's cache say of it; EvidenceInv, what the   *)
(* import has put on the chain so far.                                     *)
(***************************************************************************)
MarkerRec == [at : {"absent", "good", "torn"}, cut : BOOLEAN, store : Machines \cup {NoStore},
              by : SUBSET Gestures]
GestureStages == {"ready", "plan", "import", "append", "mint", "check", "decide", "write", "cache",
                  "done", "refused"}
GestureRec == [at : GestureStages, had : SUBSET Baselines, todo : SUBSET Baselines, clear : BOOLEAN,
               seen : MarkerRec, next : MarkerRec]
GlanceRec == [on : BOOLEAN, seen : MarkerRec, crossed : BOOLEAN]

\* What the marker, the caches, the gestures and the evidence are.
MarkerShape ==
  /\ marker \in [Machines -> MarkerRec] /\ cached \in [Machines -> MarkerRec]
  /\ corrupt \in [Machines -> BOOLEAN] /\ behind \in [Machines -> BOOLEAN]
  /\ storeId \in [Machines -> Machines \cup {NoStore}] /\ \A m \in Machines : storeId[m] \in {NoStore, m}
GestureShape ==
  /\ does \in [Gestures -> [m : Machines, kind : GestureKinds]]
  /\ gesture \in [Gestures -> GestureRec] /\ glance \in [Machines -> GlanceRec]
EvidenceShape ==
  /\ importing \in [Machines -> SUBSET Gestures]
  /\ evidence \in [Machines -> [Baselines -> Nat]]
  /\ writer \in [Baselines -> Machines]
  /\ landing \in [Baselines -> {"ready", "passed", "landed", "gone"}]
CutoverShape == MarkerShape /\ GestureShape /\ EvidenceShape

LEMMA NoMarkerIsOne == NoMarker \in MarkerRec /\ TornMarker \in MarkerRec /\ Fallback \in MarkerRec
BY DEF NoMarker, TornMarker, Fallback, MarkerRec

LEMMA NoGestureIsOne == NoGesture \in GestureRec /\ NoGlance \in GlanceRec
BY NoMarkerIsOne DEF NoGesture, NoGlance, GestureRec, GlanceRec, GestureStages

LEMMA ReadIsOne == ASSUME NEW x \in MarkerRec, NEW b \in BOOLEAN PROVE AsRead(x, b) \in MarkerRec
BY NoMarkerIsOne DEF AsRead

LEMMA NextIsOne ==
  ASSUME MarkerShape, GestureShape, NEW g \in Gestures, NEW x \in MarkerRec
  PROVE  NextMarker(g, x) \in MarkerRec
<1>1. does[g].m \in Machines /\ does[g].kind \in GestureKinds
  BY DEF GestureShape
<1>2. storeId[does[g].m] \in Machines \cup {NoStore}
  BY <1>1 DEF MarkerShape
<1>3. CASE does[g].kind = "cut"
  <2>1. NextMarker(g, x) = [at |-> "good", cut |-> TRUE, store |-> storeId[does[g].m], by |-> {g}]
    BY <1>3 DEF NextMarker
  <2>2. QED BY <2>1, <1>2 DEF MarkerRec
<1>4. CASE does[g].kind = "rollback"
  <2>1. NextMarker(g, x) = [x EXCEPT !.at = "good", !.cut = FALSE]
    BY <1>4 DEF NextMarker
  <2>2. QED BY <2>1 DEF MarkerRec
<1>5. CASE does[g].kind = "bind"
  <2>1. NextMarker(g, x) = [x EXCEPT !.store = storeId[does[g].m]]
    BY <1>5 DEF NextMarker
  <2>2. QED BY <2>1, <1>2 DEF MarkerRec
<1>6. QED BY <1>1, <1>3, <1>4, <1>5 DEF GestureKinds

LEMMA ShapeInit == CutoverInit => CutoverShape
<1> SUFFICES ASSUME CutoverInit PROVE CutoverShape
  OBVIOUS
<1>1. PICK s \in Scenes : /\ marker = s.marker /\ does = s.does /\ writer = s.writer
                          /\ storeId = [m \in Machines |->
                               IF \E n \in Machines : s.marker[n].store = m THEN m ELSE NoStore]
  BY DEF CutoverInit
<1>2. marker \in [Machines -> MarkerRec]
  <2>1. s.marker \in [Machines -> [at : {"absent", "good", "torn"}, cut : BOOLEAN,
                                   store : Machines \cup {NoStore}, by : {{}}]]
    BY CutoverAssumption
  <2>2. QED BY <1>1, <2>1 DEF MarkerRec
<1>3. /\ does \in [Gestures -> [m : Machines, kind : GestureKinds]] /\ writer \in [Baselines -> Machines]
  BY <1>1, CutoverAssumption
<1>4. storeId \in [Machines -> Machines \cup {NoStore}] /\ \A m \in Machines : storeId[m] \in {NoStore, m}
  BY <1>1
<1>5. cached \in [Machines -> MarkerRec]
  <2>1. \A m \in Machines : AsRead(marker[m], marker[m].at = "torn") \in MarkerRec
    BY <1>2, NoMarkerIsOne DEF AsRead
  <2>2. QED BY <2>1 DEF CutoverInit
<1>6. corrupt \in [Machines -> BOOLEAN]
  BY DEF CutoverInit
<1>7. gesture \in [Gestures -> GestureRec] /\ glance \in [Machines -> GlanceRec]
  BY NoGestureIsOne DEF CutoverInit
<1>8. QED BY <1>2, <1>3, <1>4, <1>5, <1>6, <1>7
          DEF CutoverInit, CutoverShape, MarkerShape, GestureShape, EvidenceShape

\* The parts of a step's result, by the action.
LEMMA GestureRests ==
  ASSUME CutoverShape, NEW g \in Gestures, NEW v \in GestureRec, gesture' = [gesture EXCEPT ![g] = v]
  PROVE  /\ gesture' \in [Gestures -> GestureRec] /\ gesture'[g] = v
         /\ \A h \in Gestures : h # g => gesture'[h] = gesture[h]
BY DEF CutoverShape, GestureShape

LEMMA OfMachine ==
  ASSUME CutoverShape, NEW g \in Gestures
  PROVE  /\ does[g].m \in Machines /\ does[g].kind \in GestureKinds /\ gesture[g] \in GestureRec
         /\ glance[does[g].m] \in GlanceRec /\ marker[does[g].m] \in MarkerRec
         /\ cached[does[g].m] \in MarkerRec
BY DEF CutoverShape, GestureShape, MarkerShape

\* What each step of a gesture makes of it; the others stay.
OthersStay(g) == \A h \in Gestures : h # g => gesture'[h] = gesture[h]
TurnsTo(g, s) == /\ OthersStay(g) /\ gesture'[g].at = s /\ gesture'[g].had = gesture[g].had

LEMMA MoveIs ==
  ASSUME CutoverShape, NEW g \in Gestures, NEW s \in GestureStages, MoveTo(g, s)
  PROVE  /\ gesture' \in [Gestures -> GestureRec] /\ TurnsTo(g, s)
         /\ gesture'[g].clear = gesture[g].clear /\ gesture'[g].next = gesture[g].next
<1> DEFINE v == [gesture[g] EXCEPT !.at = s]
<1>1. v \in GestureRec /\ v.at = s /\ v.had = gesture[g].had /\ v.clear = gesture[g].clear
      /\ v.next = gesture[g].next
  BY OfMachine DEF GestureRec
<1>2. gesture' = [gesture EXCEPT ![g] = v]
  BY DEF MoveTo
<1> HIDE DEF v
<1>3. gesture'[g] = v /\ gesture' \in [Gestures -> GestureRec]
      /\ \A h \in Gestures : h # g => gesture'[h] = gesture[h]
  BY <1>1, <1>2, GestureRests
<1>4. QED BY <1>1, <1>3 DEF TurnsTo, OthersStay

\* Every stage is one.
LEMMA StagesAre == {"mint", "cache", "done", "refused", "decide", "write"} \subseteq GestureStages
BY DEF GestureStages

LEMMA ShapeStep == CutoverShape /\ [CutoverNext]_cvars => CutoverShape'
<1> SUFFICES ASSUME CutoverShape, [CutoverNext]_cvars PROVE CutoverShape'
  OBVIOUS
<1> USE DEF CutoverShape
<1>1. ASSUME NEW b \in Baselines, PassGuard(b) \/ LandBaseline(b) PROVE CutoverShape'
  <2>1. EvidenceShape'
    BY <1>1 DEF PassGuard, LandBaseline, EvidenceShape
  <2>2. MarkerShape' /\ GestureShape'
    BY <1>1 DEF PassGuard, LandBaseline, MarkerShape, GestureShape
  <2>3. QED BY <2>1, <2>2
<1>2. ASSUME NEW g \in Gestures, BeginGesture(g) PROVE CutoverShape'
  <2> DEFINE v == [NoGesture EXCEPT !.had = Landed(does[g].m),
                                    !.at = IF does[g].kind = "cut" THEN "plan" ELSE "check"]
  <2>1. v \in GestureRec
    BY NoGestureIsOne DEF Landed, GestureRec, GestureStages
  <2>2. gesture' = [gesture EXCEPT ![g] = v]
    BY <1>2 DEF BeginGesture
  <2>3. gesture' \in [Gestures -> GestureRec]
    <3> HIDE DEF v
    <3>1. QED BY <2>1, <2>2, GestureRests
  <2>4. QED BY <1>2, <2>3 DEF BeginGesture, RestOfGesture, MarkerShape, GestureShape, EvidenceShape
<1>3. ASSUME NEW g \in Gestures, PlanImport(g) PROVE CutoverShape'
  <2> DEFINE v == [gesture[g] EXCEPT !.at = "import", !.todo = Landed(does[g].m)]
  <2>1. v \in GestureRec
    BY OfMachine DEF Landed, GestureRec, GestureStages
  <2>2. gesture' = [gesture EXCEPT ![g] = v]
    BY <1>3 DEF PlanImport
  <2>3. gesture' \in [Gestures -> GestureRec]
    <3> HIDE DEF v
    <3>1. QED BY <2>1, <2>2, GestureRests
  <2>4. QED BY <1>3, <2>3 DEF PlanImport, RestOfGesture, MarkerShape, GestureShape, EvidenceShape
<1>4. ASSUME NEW g \in Gestures, StartImport(g) PROVE CutoverShape'
  <2> DEFINE v == [gesture[g] EXCEPT !.at = "append",
                     !.todo = {b \in @ : evidence[does[g].m][b] = 0}]
  <2>1. v \in GestureRec
    BY OfMachine DEF GestureRec, GestureStages
  <2>2. gesture' = [gesture EXCEPT ![g] = v]
    BY <1>4 DEF StartImport
  <2>3. gesture' \in [Gestures -> GestureRec]
    <3> HIDE DEF v
    <3>1. QED BY <2>1, <2>2, GestureRests
  <2>4. importing' \in [Machines -> SUBSET Gestures]
    BY <1>4, OfMachine DEF StartImport, EvidenceShape
  <2>5. QED BY <1>4, <2>3, <2>4 DEF StartImport, RestOfGesture, MarkerShape, GestureShape, EvidenceShape
<1>5. ASSUME NEW g \in Gestures, AppendEvidence(g) PROVE CutoverShape'
  <2>1. ASSUME NEW b \in gesture[g].todo, evidence' = [evidence EXCEPT ![does[g].m][b] = @ + 1],
               gesture' = [gesture EXCEPT ![g].todo = @ \ {b}], UNCHANGED importing
        PROVE  CutoverShape'
    <3> DEFINE v == [gesture[g] EXCEPT !.todo = gesture[g].todo \ {b}]
    <3>1. v \in GestureRec /\ b \in Baselines
      BY OfMachine DEF GestureRec
    <3>2. gesture' = [gesture EXCEPT ![g] = v]
      BY <2>1
    <3>3. gesture' \in [Gestures -> GestureRec]
      <4> HIDE DEF v
      <4>1. QED BY <3>1, <3>2, GestureRests
    <3>4. evidence' \in [Machines -> [Baselines -> Nat]]
      BY <2>1, <3>1, OfMachine DEF EvidenceShape
    <3>5. QED BY <1>5, <2>1, <3>3, <3>4
              DEF AppendEvidence, RestOfGesture, MarkerShape, GestureShape, EvidenceShape
  <2>2. ASSUME importing' = [importing EXCEPT ![does[g].m] = @ \ {g}], MoveTo(g, "mint"),
               UNCHANGED evidence
        PROVE  CutoverShape'
    <3>1. gesture' \in [Gestures -> GestureRec]
      BY <2>2, MoveIs, StagesAre
    <3>2. importing' \in [Machines -> SUBSET Gestures]
      BY <2>2, OfMachine DEF EvidenceShape
    <3>3. QED BY <1>5, <2>2, <3>1, <3>2
              DEF AppendEvidence, RestOfGesture, MarkerShape, GestureShape, EvidenceShape
  <2>3. QED BY <1>5, <2>1, <2>2 DEF AppendEvidence
<1>6. ASSUME NEW g \in Gestures, MintStoreId(g) PROVE CutoverShape'
  <2>1. gesture' \in [Gestures -> GestureRec]
    BY <1>6, MoveIs, StagesAre DEF MintStoreId
  <2>2. MarkerShape'
    BY <1>6, OfMachine DEF MintStoreId, MarkerShape
  <2>3. QED BY <1>6, <2>1, <2>2 DEF MintStoreId, RestOfGesture, GestureShape, EvidenceShape
<1>7. ASSUME NEW g \in Gestures, LookFirst(g) PROVE CutoverShape'
  <2>1. PICK fails \in BOOLEAN :
          /\ corrupt' = [corrupt EXCEPT ![does[g].m] = Useless(does[g].m, fails)]
          /\ IF MayOverwrite(does[g].m, fails)
             THEN gesture' = [gesture EXCEPT ![g] = [gesture[g] EXCEPT !.clear = ~Useless(does[g].m, fails),
                           !.at = IF does[g].kind = "bind" THEN "mint" ELSE "decide"]]
             ELSE MoveTo(g, "refused")
    BY <1>7 DEF LookFirst
  <2>2. PICK u : u = Useless(does[g].m, fails) /\ u \in BOOLEAN
    BY DEF Useless
  <2>3. PICK w : w = ~u /\ w \in BOOLEAN
    BY <2>2
  <2>4. gesture' \in [Gestures -> GestureRec]
    <3>1. CASE MayOverwrite(does[g].m, fails)
      <4> DEFINE v == [gesture[g] EXCEPT !.clear = w, !.at = IF does[g].kind = "bind" THEN "mint" ELSE "decide"]
      <4>1. v \in GestureRec
        BY OfMachine, <2>3 DEF GestureRec, GestureStages
      <4>2. gesture' = [gesture EXCEPT ![g] = v]
        BY <2>1, <2>2, <2>3, <3>1, Zenon
      <4> HIDE DEF v
      <4>3. QED BY <4>1, <4>2, GestureRests
    <3>2. CASE ~MayOverwrite(does[g].m, fails)
      BY <2>1, <3>2, MoveIs, StagesAre
    <3>3. QED BY <3>1, <3>2
  <2>5. corrupt' \in [Machines -> BOOLEAN]
    <3>1. corrupt' = [corrupt EXCEPT ![does[g].m] = u]
      BY <2>1, <2>2, Zenon
    <3>2. QED BY <2>2, <3>1, OfMachine DEF MarkerShape
  <2>6. QED BY <1>7, <2>4, <2>5 DEF LookFirst, RestOfGesture, MarkerShape, GestureShape, EvidenceShape
<1>8. ASSUME NEW g \in Gestures, DecideGesture(g) PROVE CutoverShape'
  <2> DEFINE C(f) == AsRead(marker[does[g].m], Useless(does[g].m, f))
  <2>1. PICK fails \in BOOLEAN :
          /\ corrupt' = [corrupt EXCEPT ![does[g].m] = Useless(does[g].m, fails)]
          /\ IF GestureAllowed(does[g].kind, C(fails))
             THEN gesture' = [gesture EXCEPT ![g] = [gesture[g] EXCEPT !.at = "write",
                                !.seen = marker[does[g].m], !.next = NextMarker(g, C(fails))]]
             ELSE MoveTo(g, "refused")
    BY <1>8 DEF DecideGesture
  <2>2. PICK u : u = Useless(does[g].m, fails) /\ u \in BOOLEAN
    BY DEF Useless
  <2>3. C(fails) \in MarkerRec
    <3>1. C(fails) = AsRead(marker[does[g].m], u)
      BY <2>2, Zenon
    <3>2. QED BY <3>1, <2>2, ReadIsOne, OfMachine
  <2>4. NextMarker(g, C(fails)) \in MarkerRec
    <3> HIDE DEF C
    <3>1. QED BY <2>3, NextIsOne
  <2>5. gesture' \in [Gestures -> GestureRec]
    <3> DEFINE v == [gesture[g] EXCEPT !.at = "write", !.seen = marker[does[g].m],
                                       !.next = NextMarker(g, C(fails))]
    <3>1. v \in GestureRec
      <4> HIDE DEF C
      <4>1. QED BY OfMachine, <2>4 DEF GestureRec, GestureStages
    <3>2. CASE GestureAllowed(does[g].kind, C(fails))
      <4>1. gesture' = [gesture EXCEPT ![g] = v]
        BY <2>1, <3>2
      <4> HIDE DEF v, C
      <4>2. QED BY <3>1, <4>1, GestureRests
    <3>3. CASE ~GestureAllowed(does[g].kind, C(fails))
      BY <2>1, <3>3, MoveIs, StagesAre
    <3>4. QED BY <3>2, <3>3
  <2>6. corrupt' \in [Machines -> BOOLEAN]
    <3>1. corrupt' = [corrupt EXCEPT ![does[g].m] = u]
      BY <2>1, <2>2, Zenon
    <3>2. QED BY <2>2, <3>1, OfMachine DEF MarkerShape
  <2>7. QED BY <1>8, <2>5, <2>6 DEF DecideGesture, RestOfGesture, MarkerShape, GestureShape, EvidenceShape
<1>9. ASSUME NEW g \in Gestures, WriteMarker(g) \/ TearMarker(g) PROVE CutoverShape'
  <2>1. gesture' \in [Gestures -> GestureRec]
    BY <1>9, MoveIs, StagesAre DEF WriteMarker, TearMarker
  <2>2. PICK m : m = does[g].m /\ m \in Machines
    BY OfMachine
  <2>3. glance' \in [Machines -> GlanceRec]
    <3>1. glance' = [glance EXCEPT ![m].crossed = glance[m].on]
      BY <1>9, <2>2 DEF WriteMarker, TearMarker, Crossing
    <3>2. QED BY <3>1, <2>2 DEF GestureShape, GlanceRec
  <2>4. marker' \in [Machines -> MarkerRec]
    <3>1. gesture[g].next \in MarkerRec
      BY OfMachine DEF GestureRec
    <3>2. \E x \in MarkerRec : marker' = [marker EXCEPT ![m] = x]
      BY <1>9, <2>2, <3>1, NoMarkerIsOne DEF WriteMarker, TearMarker
    <3>3. QED BY <3>2, <2>2 DEF MarkerShape
  <2>5. corrupt' \in [Machines -> BOOLEAN]
    BY <1>9, <2>2 DEF WriteMarker, TearMarker, MarkerShape
  <2>6. behind' \in [Machines -> BOOLEAN]
    <3>1. PICK v : /\ v \in BOOLEAN
                   /\ v = (behind[m] \/ \E h \in Gestures \ {g} : does[h].m = m /\ InStep(h, "cache"))
      OBVIOUS
    <3>2. behind' = [behind EXCEPT ![m] = v] \/ behind' = [behind EXCEPT ![m] = TRUE]
      BY <1>9, <2>2, <3>1, Zenon DEF WriteMarker, TearMarker, Crossing
    <3>3. QED BY <3>1, <3>2, <2>2 DEF MarkerShape
  <2>7. QED BY <1>9, <2>1, <2>3, <2>4, <2>5, <2>6
            DEF WriteMarker, TearMarker, MarkerShape, GestureShape, EvidenceShape
<1>10. ASSUME NEW g \in Gestures, CacheMarker(g) PROVE CutoverShape'
  <2>1. gesture' \in [Gestures -> GestureRec]
    BY <1>10, MoveIs, StagesAre DEF CacheMarker
  <2>2. cached' \in [Machines -> MarkerRec]
    <3>1. gesture[g].next \in MarkerRec
      BY OfMachine DEF GestureRec
    <3>2. QED BY <1>10, <3>1, OfMachine DEF CacheMarker, Adopted, MarkerShape
  <2>3. QED BY <1>10, <2>1, <2>2 DEF CacheMarker, RestOfGesture, MarkerShape, GestureShape, EvidenceShape
<1>11. ASSUME NEW m \in Machines, Glance(m) PROVE CutoverShape'
  <2>1. glance' \in [Machines -> GlanceRec]
    BY <1>11 DEF Glance, MarkerShape, GestureShape, GlanceRec
  <2>2. QED BY <1>11, <2>1 DEF Glance, RestOfGlance, MarkerShape, GestureShape, EvidenceShape
<1>12. ASSUME NEW m \in Machines, GlanceEnds(m) PROVE CutoverShape'
  <2>1. glance' \in [Machines -> GlanceRec]
    BY <1>12, NoGestureIsOne DEF GlanceEnds, GestureShape
  <2>2. PICK u : u \in BOOLEAN /\ u = (glance[m].seen.at = "torn")
    OBVIOUS
  <2>3. PICK v : /\ v \in BOOLEAN
                 /\ v = (glance[m].crossed \/ \E g \in Gestures : does[g].m = m /\ InStep(g, "cache"))
    OBVIOUS
  <2>4. /\ corrupt' = [corrupt EXCEPT ![m] = u] /\ behind' = [behind EXCEPT ![m] = v]
        /\ cached' = [cached EXCEPT ![m] = AsRead(glance[m].seen, u)]
    BY <1>12, <2>2, <2>3, Zenon DEF GlanceEnds
  <2>5. AsRead(glance[m].seen, u) \in MarkerRec
    BY <2>2, ReadIsOne DEF GestureShape, GlanceRec
  <2>6. corrupt' \in [Machines -> BOOLEAN] /\ behind' \in [Machines -> BOOLEAN]
        /\ cached' \in [Machines -> MarkerRec]
    BY <2>2, <2>3, <2>4, <2>5 DEF MarkerShape
  <2>7. QED BY <1>12, <2>1, <2>6 DEF GlanceEnds, RestOfGlance, MarkerShape, GestureShape, EvidenceShape
<1>13. ASSUME NEW m \in Machines, GovernorRestarts(m) PROVE CutoverShape'
  <2>1. \E x \in MarkerRec : marker' = [marker EXCEPT ![m] = x]
    <3>1. marker[m] \in MarkerRec /\ marker = [marker EXCEPT ![m] = marker[m]]
      BY DEF MarkerShape
    <3>2. marker' = [marker EXCEPT ![m] = TornMarker] \/ marker' = marker
      BY <1>13 DEF GovernorRestarts
    <3>3. QED BY <3>1, <3>2, NoMarkerIsOne
  <2>2. marker' \in [Machines -> MarkerRec]
    BY <2>1 DEF MarkerShape
  <2>3. PICK u : u \in BOOLEAN /\ u = (marker'[m].at = "torn")
    OBVIOUS
  <2>4. cached' = [cached EXCEPT ![m] = AsRead(marker'[m], u)] /\ corrupt' = [corrupt EXCEPT ![m] = u]
    BY <1>13, <2>3, Zenon DEF GovernorRestarts
  <2>5. AsRead(marker'[m], u) \in MarkerRec
    BY <2>2, <2>3, NoMarkerIsOne DEF AsRead
  <2>6. MarkerShape'
    BY <1>13, <2>2, <2>3, <2>4, <2>5 DEF GovernorRestarts, MarkerShape
  <2>7. gesture' \in [Gestures -> GestureRec]
    <3>1. \A g \in Gestures : [gesture[g] EXCEPT !.at = "done"] \in GestureRec
      BY DEF GestureShape, GestureRec, GestureStages
    <3>2. gesture' = [g \in Gestures |-> IF does[g].m = m /\ ~InStep(g, "ready")
                                    THEN [gesture[g] EXCEPT !.at = "done"] ELSE gesture[g]]
      BY <1>13 DEF GovernorRestarts
    <3>3. QED BY <3>1, <3>2 DEF GestureShape
  <2>8. GestureShape'
    BY <1>13, <2>7, NoGestureIsOne DEF GovernorRestarts, GestureShape
  <2>9. EvidenceShape'
    BY <1>13 DEF GovernorRestarts, EvidenceShape
  <2>10. QED BY <2>6, <2>8, <2>9
<1>14. ASSUME NEW m \in Machines, NEW n \in Machines, SyncMarker(m, n) PROVE CutoverShape'
  <2>1. MarkerShape'
    BY <1>14 DEF SyncMarker, MarkerShape
  <2>2. glance' \in [Machines -> GlanceRec]
    BY <1>14 DEF SyncMarker, GestureShape, GlanceRec
  <2>3. QED BY <1>14, <2>1, <2>2 DEF SyncMarker, GestureShape, EvidenceShape
<1>15. CASE UNCHANGED cvars
  BY <1>15 DEF cvars, MarkerShape, GestureShape, EvidenceShape
<1>16. QED BY <1>1, <1>2, <1>3, <1>4, <1>5, <1>6, <1>7, <1>8, <1>9, <1>10, <1>11, <1>12, <1>13, <1>14,
              <1>15 DEF CutoverNext

LEMMA BeginMoves ==
  ASSUME CutoverShape, NEW g \in Gestures, BeginGesture(g)
  PROVE  /\ OthersStay(g) /\ gesture[g].at = "ready"
         /\ gesture'[g].at = IF does[g].kind = "cut" THEN "plan" ELSE "check"
         /\ gesture'[g].had = Landed(does[g].m) /\ gesture'[g].todo = {}
BY OfMachine DEF BeginGesture, OthersStay, InStep, NoGesture, CutoverShape, GestureShape, GestureRec

LEMMA PlanMoves ==
  ASSUME CutoverShape, NEW g \in Gestures, PlanImport(g)
  PROVE  /\ TurnsTo(g, "import") /\ gesture[g].at = "plan"
         /\ gesture'[g].todo = Landed(does[g].m)
BY OfMachine DEF PlanImport, TurnsTo, OthersStay, InStep, CutoverShape, GestureShape, GestureRec

LEMMA StartMoves ==
  ASSUME CutoverShape, NEW g \in Gestures, StartImport(g)
  PROVE  /\ TurnsTo(g, "append") /\ gesture[g].at = "import" /\ importing[does[g].m] = {}
         /\ gesture'[g].todo = {b \in gesture[g].todo : evidence[does[g].m][b] = 0}
         /\ importing'[does[g].m] = {g}
         /\ \A m \in Machines : m # does[g].m => importing'[m] = importing[m]
BY OfMachine DEF StartImport, MayImport, TurnsTo, OthersStay, InStep, CutoverShape, GestureShape, GestureRec,
                 EvidenceShape

LEMMA AppendMoves ==
  ASSUME CutoverShape, NEW g \in Gestures, AppendEvidence(g)
  PROVE  /\ gesture[g].at = "append"
         /\ \/ \E b \in gesture[g].todo :
                 /\ TurnsTo(g, "append") /\ gesture'[g].todo = gesture[g].todo \ {b} /\ b \in Baselines
                 /\ evidence'[does[g].m][b] = evidence[does[g].m][b] + 1
                 /\ \A m \in Machines : \A c \in Baselines :
                      m # does[g].m \/ c # b => evidence'[m][c] = evidence[m][c]
                 /\ importing' = importing
            \/ /\ TurnsTo(g, "mint") /\ gesture[g].todo = {} /\ evidence' = evidence
               /\ importing'[does[g].m] = importing[does[g].m] \ {g}
               /\ \A m \in Machines : m # does[g].m => importing'[m] = importing[m]
<1>1. gesture[g].at = "append"
  BY DEF AppendEvidence, InStep
<1>2. ASSUME NEW b \in gesture[g].todo, evidence' = [evidence EXCEPT ![does[g].m][b] = @ + 1],
             gesture' = [gesture EXCEPT ![g].todo = @ \ {b}], UNCHANGED importing
      PROVE  /\ TurnsTo(g, "append") /\ gesture'[g].todo = gesture[g].todo \ {b} /\ b \in Baselines
             /\ evidence'[does[g].m][b] = evidence[does[g].m][b] + 1
             /\ \A m \in Machines : \A c \in Baselines :
                  m # does[g].m \/ c # b => evidence'[m][c] = evidence[m][c]
             /\ importing' = importing
  <2>1. b \in Baselines
    BY <1>2, OfMachine DEF GestureRec
  <2>2. QED BY <1>1, <1>2, <2>1, OfMachine
            DEF TurnsTo, OthersStay, CutoverShape, GestureShape, GestureRec, EvidenceShape
<1>3. ASSUME gesture[g].todo = {}, importing' = [importing EXCEPT ![does[g].m] = @ \ {g}],
             MoveTo(g, "mint"), UNCHANGED evidence
      PROVE  /\ TurnsTo(g, "mint") /\ gesture[g].todo = {} /\ evidence' = evidence
             /\ importing'[does[g].m] = importing[does[g].m] \ {g}
             /\ \A m \in Machines : m # does[g].m => importing'[m] = importing[m]
  BY <1>1, <1>3, MoveIs, StagesAre, OfMachine DEF CutoverShape, EvidenceShape
<1>4. QED BY <1>1, <1>2, <1>3 DEF AppendEvidence

LEMMA MintMoves ==
  ASSUME CutoverShape, NEW g \in Gestures, MintStoreId(g)
  PROVE  /\ TurnsTo(g, "decide") /\ gesture[g].at = "mint" /\ gesture'[g].clear = gesture[g].clear
BY MoveIs, StagesAre DEF MintStoreId, InStep

LEMMA LookMoves ==
  ASSUME CutoverShape, NEW g \in Gestures, LookFirst(g)
  PROVE  /\ gesture[g].at = "check"
         /\ \/ /\ TurnsTo(g, IF does[g].kind = "bind" THEN "mint" ELSE "decide")
               /\ gesture'[g].clear
            \/ TurnsTo(g, "refused")
<1>1. gesture[g].at = "check"
  BY DEF LookFirst, InStep
<1>2. PICK fails \in BOOLEAN :
        IF MayOverwrite(does[g].m, fails)
        THEN gesture' = [gesture EXCEPT ![g] = [gesture[g] EXCEPT !.clear = ~Useless(does[g].m, fails),
                           !.at = IF does[g].kind = "bind" THEN "mint" ELSE "decide"]]
        ELSE MoveTo(g, "refused")
  BY DEF LookFirst
<1>3. CASE MayOverwrite(does[g].m, fails)
  <2>1. PICK w : w = ~Useless(does[g].m, fails) /\ w \in BOOLEAN
    OBVIOUS
  <2>2. w
    BY <1>3, <2>1 DEF MayOverwrite
  <2>3. gesture' = [gesture EXCEPT ![g] = [gesture[g] EXCEPT !.clear = w,
                           !.at = IF does[g].kind = "bind" THEN "mint" ELSE "decide"]]
    BY <1>2, <1>3, <2>1, Zenon
  <2>4. QED BY <1>1, <2>1, <2>2, <2>3, OfMachine
            DEF TurnsTo, OthersStay, GestureRec, CutoverShape, GestureShape
<1>4. CASE ~MayOverwrite(does[g].m, fails)
  BY <1>1, <1>2, <1>4, MoveIs, StagesAre
<1>5. QED BY <1>3, <1>4

LEMMA DecideMoves ==
  ASSUME CutoverShape, NEW g \in Gestures, DecideGesture(g)
  PROVE  /\ gesture[g].at = "decide" /\ excused \subseteq excused'
         /\ \/ TurnsTo(g, "refused")
            \/ \E u \in BOOLEAN :
                 /\ marker[does[g].m].at = "torn" => u
                 /\ u /\ gesture[g].clear => g \in excused'
                 /\ GestureAllowed(does[g].kind, AsRead(marker[does[g].m], u))
                 /\ TurnsTo(g, "write") /\ gesture'[g].seen = marker[does[g].m]
                 /\ gesture'[g].next = NextMarker(g, AsRead(marker[does[g].m], u))
<1> DEFINE C(f) == AsRead(marker[does[g].m], Useless(does[g].m, f))
<1>1. gesture[g].at = "decide"
  BY DEF DecideGesture, InStep
<1>2. PICK fails \in BOOLEAN :
        /\ IF GestureAllowed(does[g].kind, C(fails))
           THEN gesture' = [gesture EXCEPT ![g] = [gesture[g] EXCEPT !.at = "write",
                              !.seen = marker[does[g].m], !.next = NextMarker(g, C(fails))]]
           ELSE MoveTo(g, "refused")
        /\ excused' = excused \cup IF Useless(does[g].m, fails) /\ gesture[g].clear THEN {g} ELSE {}
  BY DEF DecideGesture
<1>3. PICK u : u = Useless(does[g].m, fails) /\ u \in BOOLEAN
  BY DEF Useless
<1>4. C(fails) = AsRead(marker[does[g].m], u)
  BY <1>3, Zenon
<1>5. marker[does[g].m].at = "torn" => u
  BY <1>3 DEF Useless
<1>6. excused \subseteq excused' /\ (u /\ gesture[g].clear => g \in excused')
  BY <1>2, <1>3
<1>7. CASE GestureAllowed(does[g].kind, C(fails))
  <2> DEFINE x == NextMarker(g, C(fails))
  <2>1. gesture' = [gesture EXCEPT ![g] = [gesture[g] EXCEPT !.at = "write",
                      !.seen = marker[does[g].m], !.next = x]]
    BY <1>2, <1>7
  <2>2. TurnsTo(g, "write") /\ gesture'[g].seen = marker[does[g].m] /\ gesture'[g].next = x
    <3> HIDE DEF x, C
    <3>1. QED BY <1>1, <2>1, OfMachine DEF TurnsTo, OthersStay, GestureRec, CutoverShape, GestureShape
  <2>3. GestureAllowed(does[g].kind, AsRead(marker[does[g].m], u))
        /\ x = NextMarker(g, AsRead(marker[does[g].m], u))
    BY <1>4, <1>7
  <2>4. QED BY <1>1, <1>3, <1>5, <1>6, <2>2, <2>3
<1>8. CASE ~GestureAllowed(does[g].kind, C(fails))
  <2>1. MoveTo(g, "refused")
    BY <1>2, <1>8
  <2>2. TurnsTo(g, "refused")
    BY <1>1, <2>1, MoveIs, StagesAre
  <2>3. QED BY <1>1, <1>6, <2>2
<1>9. QED BY <1>7, <1>8

LEMMA WriteMoves ==
  ASSUME CutoverShape, NEW g \in Gestures, WriteMarker(g) \/ TearMarker(g)
  PROVE  /\ gesture[g].at = "write"
         /\ WriteMarker(g) => TurnsTo(g, "cache") /\ gesture'[g].next = gesture[g].next
         /\ TearMarker(g) => TurnsTo(g, "refused")
<1>1. gesture[g].at = "write"
  BY DEF WriteMarker, TearMarker, InStep
<1>2. ASSUME WriteMarker(g) PROVE TurnsTo(g, "cache") /\ gesture'[g].next = gesture[g].next
  BY <1>2, MoveIs, StagesAre DEF WriteMarker
<1>3. ASSUME TearMarker(g) PROVE TurnsTo(g, "refused")
  BY <1>3, MoveIs, StagesAre DEF TearMarker
<1>4. QED BY <1>1, <1>2, <1>3

LEMMA CacheMoves ==
  ASSUME CutoverShape, NEW g \in Gestures, CacheMarker(g)
  PROVE  gesture[g].at = "cache" /\ TurnsTo(g, "done")
BY MoveIs, StagesAre DEF CacheMarker, InStep

LEMMA RestartMoves ==
  ASSUME CutoverShape, NEW m \in Machines, GovernorRestarts(m)
  PROVE  \A g \in Gestures :
           IF does[g].m = m /\ gesture[g].at # "ready"
           THEN gesture'[g].at = "done" /\ gesture'[g].had = gesture[g].had
           ELSE gesture'[g] = gesture[g]
BY OfMachine DEF GovernorRestarts, InStep, GestureRec, CutoverShape, GestureShape

-----------------------------------------------------------------------------
\* What a gesture read, decided and is to write: the kinds take their roads, what looked
\* first saw a clear marker, and the write undoes nothing of what the decision read.
RecordInv ==
  /\ undone \subseteq excused
  /\ \A g \in Gestures :
       /\ gesture[g].at \in {"plan", "import", "append"} => does[g].kind = "cut"
       /\ gesture[g].at = "check" => does[g].kind # "cut"
       /\ gesture[g].at \in {"mint", "decide"} /\ does[g].kind # "cut" => gesture[g].clear
       /\ gesture[g].at \in {"write", "cache"} => gesture[g].next.at # "torn"
       /\ gesture[g].at = "write" =>
            g \in excused \/ ~Destroys(g, gesture[g].seen, gesture[g].next)

LEMMA RecordInit == CutoverInit => RecordInv
BY DEF CutoverInit, RecordInv, NoGesture

\* What is allowed over a marker that was read undoes nothing of it.
LEMMA AllowedUndoesNothing ==
  ASSUME CutoverShape, NEW g \in Gestures, NEW x \in MarkerRec, x.at # "torn",
         GestureAllowed(does[g].kind, x)
  PROVE  ~Destroys(g, x, NextMarker(g, x)) /\ NextMarker(g, x).at # "torn"
<1>1. CASE does[g].kind = "cut"
  BY <1>1 DEF GestureAllowed, NextMarker, Destroys, MarkerRec
<1>2. CASE does[g].kind = "rollback"
  BY <1>2 DEF GestureAllowed, NextMarker, Destroys, MarkerRec
<1>3. CASE does[g].kind = "bind"
  BY <1>3 DEF GestureAllowed, NextMarker, Destroys, MarkerRec
<1>4. QED BY OfMachine, <1>1, <1>2, <1>3 DEF GestureKinds

\* What is decided over a marker that could not be read is not torn either.
LEMMA FallbackIsWhole ==
  ASSUME CutoverShape, NEW g \in Gestures, GestureAllowed(does[g].kind, Fallback)
  PROVE  does[g].kind # "cut" /\ NextMarker(g, Fallback).at # "torn"
<1>1. does[g].kind # "cut"
  BY DEF GestureAllowed, Fallback, NoMarker
<1>2. CASE does[g].kind = "rollback"
  BY <1>2 DEF NextMarker, Fallback, NoMarker
<1>3. CASE does[g].kind = "bind"
  BY <1>3 DEF NextMarker, Fallback, NoMarker
<1>4. QED BY <1>1, <1>2, <1>3, OfMachine DEF GestureKinds

\* One gesture's part of it, at a step of another.
OwnRecord(g) ==
  /\ gesture[g].at \in {"plan", "import", "append"} => does[g].kind = "cut"
  /\ gesture[g].at = "check" => does[g].kind # "cut"
  /\ gesture[g].at \in {"mint", "decide"} /\ does[g].kind # "cut" => gesture[g].clear
  /\ gesture[g].at \in {"write", "cache"} => gesture[g].next.at # "torn"
  /\ gesture[g].at = "write" => g \in excused \/ ~Destroys(g, gesture[g].seen, gesture[g].next)

LEMMA RecordStays ==
  ASSUME NEW g \in Gestures, OwnRecord(g), gesture'[g] = gesture[g], does' = does,
         excused \subseteq excused'
  PROVE  OwnRecord(g)'
BY DEF OwnRecord, Destroys

LEMMA RecordStep == CutoverShape /\ RecordInv /\ [CutoverNext]_cvars => RecordInv'
<1> SUFFICES ASSUME CutoverShape, RecordInv, [CutoverNext]_cvars PROVE RecordInv'
  OBVIOUS
<1>0. \A g \in Gestures : OwnRecord(g)
  BY DEF RecordInv, OwnRecord
<1> SUFFICES undone' \subseteq excused' /\ \A g \in Gestures : OwnRecord(g)'
  BY DEF RecordInv, OwnRecord
<1>1. does' = does
  BY DEF CutoverNext, PassGuard, LandBaseline, BeginGesture, PlanImport, StartImport, AppendEvidence,
         MintStoreId, LookFirst, DecideGesture, WriteMarker, TearMarker, CacheMarker, Glance, GlanceEnds,
         GovernorRestarts, SyncMarker, RestOfGesture, RestOfGlance, cvars
<1>2. ASSUME NEW g \in Gestures, OthersStay(g), OwnRecord(g)', excused \subseteq excused',
             undone' \subseteq excused'
      PROVE  undone' \subseteq excused' /\ \A h \in Gestures : OwnRecord(h)'
  BY <1>0, <1>1, <1>2, RecordStays DEF OthersStay
<1>3. ASSUME NEW g \in Gestures, OthersStay(g), OwnRecord(g)', UNCHANGED <<undone, excused>>
      PROVE  undone' \subseteq excused' /\ \A h \in Gestures : OwnRecord(h)'
  BY <1>2, <1>3 DEF RecordInv
<1>4. ASSUME UNCHANGED <<gesture, undone, excused>>
      PROVE  undone' \subseteq excused' /\ \A h \in Gestures : OwnRecord(h)'
  BY <1>0, <1>1, <1>4, RecordStays DEF RecordInv
<1>5. ASSUME NEW b \in Baselines, PassGuard(b) \/ LandBaseline(b)
      PROVE  undone' \subseteq excused' /\ \A h \in Gestures : OwnRecord(h)'
  BY <1>4, <1>5 DEF PassGuard, LandBaseline
<1>6. ASSUME NEW g \in Gestures, BeginGesture(g)
      PROVE  undone' \subseteq excused' /\ \A h \in Gestures : OwnRecord(h)'
  <2>1. OthersStay(g) /\ OwnRecord(g)'
    BY <1>1, <1>6, BeginMoves DEF OwnRecord
  <2>2. QED BY <1>3, <1>6, <2>1 DEF BeginGesture
<1>7. ASSUME NEW g \in Gestures, PlanImport(g) \/ StartImport(g)
      PROVE  undone' \subseteq excused' /\ \A h \in Gestures : OwnRecord(h)'
  <2>1. OthersStay(g) /\ gesture'[g].at \in {"import", "append"} /\ does[g].kind = "cut"
    BY <1>0, <1>7, PlanMoves, StartMoves DEF OwnRecord, TurnsTo
  <2>2. OwnRecord(g)'
    BY <1>1, <2>1 DEF OwnRecord
  <2>3. QED BY <1>3, <1>7, <2>1, <2>2 DEF PlanImport, StartImport
<1>8. ASSUME NEW g \in Gestures, AppendEvidence(g)
      PROVE  undone' \subseteq excused' /\ \A h \in Gestures : OwnRecord(h)'
  <2>1. OthersStay(g) /\ gesture'[g].at \in {"append", "mint"} /\ does[g].kind = "cut"
    BY <1>0, <1>8, AppendMoves DEF OwnRecord, TurnsTo
  <2>2. OwnRecord(g)'
    BY <1>1, <2>1 DEF OwnRecord
  <2>3. QED BY <1>3, <1>8, <2>1, <2>2 DEF AppendEvidence
<1>9. ASSUME NEW g \in Gestures, MintStoreId(g)
      PROVE  undone' \subseteq excused' /\ \A h \in Gestures : OwnRecord(h)'
  <2>1. OthersStay(g) /\ OwnRecord(g)'
    BY <1>0, <1>1, <1>9, MintMoves DEF OwnRecord, TurnsTo
  <2>2. QED BY <1>3, <1>9, <2>1 DEF MintStoreId
<1>10. ASSUME NEW g \in Gestures, LookFirst(g)
       PROVE  undone' \subseteq excused' /\ \A h \in Gestures : OwnRecord(h)'
  <2>1. OthersStay(g) /\ OwnRecord(g)'
    BY <1>0, <1>1, <1>10, LookMoves DEF OwnRecord, TurnsTo
  <2>2. QED BY <1>3, <1>10, <2>1 DEF LookFirst
<1>11. ASSUME NEW g \in Gestures, DecideGesture(g)
       PROVE  undone' \subseteq excused' /\ \A h \in Gestures : OwnRecord(h)'
  <2>1. excused \subseteq excused' /\ undone' = undone
    BY <1>11, DecideMoves DEF DecideGesture
  <2>2. OthersStay(g)
    BY <1>11, DecideMoves DEF TurnsTo
  <2>3. OwnRecord(g)'
    <3>1. CASE TurnsTo(g, "refused")
      BY <3>1 DEF OwnRecord, TurnsTo
    <3>2. ASSUME NEW u \in BOOLEAN,
                 marker[does[g].m].at = "torn" => u, u /\ gesture[g].clear => g \in excused',
                 GestureAllowed(does[g].kind, AsRead(marker[does[g].m], u)),
                 TurnsTo(g, "write"), gesture'[g].seen = marker[does[g].m],
                 gesture'[g].next = NextMarker(g, AsRead(marker[does[g].m], u))
          PROVE  OwnRecord(g)'
      <4>1. PICK x \in MarkerRec : x = marker[does[g].m]
        BY OfMachine
      <4>2. ASSUME u PROVE OwnRecord(g)'
        <5>1. AsRead(x, u) = Fallback
          BY <4>2 DEF AsRead
        <5>2. does[g].kind # "cut" /\ NextMarker(g, Fallback).at # "torn"
          BY <3>2, <4>1, <5>1, FallbackIsWhole
        <5>3. gesture[g].clear
          BY <1>0, <1>11, <5>2, DecideMoves DEF OwnRecord
        <5>4. g \in excused' /\ gesture'[g].at = "write" /\ gesture'[g].next.at # "torn"
          BY <3>2, <4>1, <4>2, <5>1, <5>2, <5>3 DEF TurnsTo
        <5>5. QED BY <1>1, <5>4 DEF OwnRecord
      <4>3. ASSUME ~u PROVE OwnRecord(g)'
        <5>1. AsRead(x, u) = x /\ x.at # "torn"
          BY <3>2, <4>1, <4>3 DEF AsRead
        <5>2. ~Destroys(g, x, NextMarker(g, x)) /\ NextMarker(g, x).at # "torn"
          BY <3>2, <4>1, <5>1, AllowedUndoesNothing
        <5>3. PICK y : y = NextMarker(g, x)
          OBVIOUS
        <5>4. gesture'[g].at = "write" /\ gesture'[g].next = y /\ gesture'[g].seen = x
          BY <3>2, <4>1, <5>1, <5>3 DEF TurnsTo
        <5>5. ~Destroys(g, x, y) /\ y.at # "torn"
          BY <5>2, <5>3
        <5>6. QED BY <1>1, <5>4, <5>5 DEF OwnRecord, Destroys
      <4>4. QED BY <4>2, <4>3
    <3>3. QED BY <1>11, <3>1, <3>2, DecideMoves
  <2>4. QED BY <1>2, <2>1, <2>2, <2>3 DEF RecordInv
<1>12. ASSUME NEW g \in Gestures, WriteMarker(g)
       PROVE  undone' \subseteq excused' /\ \A h \in Gestures : OwnRecord(h)'
  <2>1. OthersStay(g) /\ gesture[g].at = "write" /\ gesture'[g].at = "cache"
        /\ gesture'[g].next = gesture[g].next
    BY <1>12, WriteMoves DEF TurnsTo
  <2>2. OwnRecord(g)'
    BY <1>0, <1>1, <2>1 DEF OwnRecord
  <2>3. /\ undone' = undone \cup IF Destroys(g, marker[does[g].m], gesture[g].next) THEN {g} ELSE {}
        /\ excused' = excused \cup IF marker[does[g].m] # gesture[g].seen THEN {g} ELSE {}
    BY <1>12 DEF WriteMarker
  <2>4. g \in undone' => g \in excused'
    BY <1>0, <2>1, <2>3 DEF OwnRecord, RecordInv
  <2>5. undone' \subseteq excused'
    BY <2>3, <2>4 DEF RecordInv
  <2>6. QED BY <1>2, <2>1, <2>2, <2>3, <2>5
<1>13. ASSUME NEW g \in Gestures, TearMarker(g) \/ CacheMarker(g)
       PROVE  undone' \subseteq excused' /\ \A h \in Gestures : OwnRecord(h)'
  <2>1. OthersStay(g) /\ gesture'[g].at \in {"refused", "done"}
    BY <1>13, WriteMoves, CacheMoves DEF TurnsTo
  <2>2. OwnRecord(g)'
    BY <2>1 DEF OwnRecord
  <2>3. QED BY <1>3, <1>13, <2>1, <2>2 DEF TearMarker, CacheMarker
<1>14. ASSUME NEW m \in Machines, Glance(m) \/ GlanceEnds(m)
       PROVE  undone' \subseteq excused' /\ \A h \in Gestures : OwnRecord(h)'
  BY <1>4, <1>14 DEF Glance, GlanceEnds, RestOfGlance
<1>15. ASSUME NEW m \in Machines, GovernorRestarts(m)
       PROVE  undone' \subseteq excused' /\ \A h \in Gestures : OwnRecord(h)'
  <2>1. undone' = undone /\ excused' = excused
    BY <1>15 DEF GovernorRestarts
  <2>2. ASSUME NEW h \in Gestures PROVE OwnRecord(h)'
    <3>1. CASE gesture'[h].at = "done"
      BY <3>1 DEF OwnRecord
    <3>2. CASE gesture'[h] = gesture[h]
      BY <1>0, <1>1, <2>1, <3>2, RecordStays
    <3>3. QED BY <1>15, <3>1, <3>2, RestartMoves
  <2>3. QED BY <2>1, <2>2 DEF RecordInv
<1>16. ASSUME NEW m \in Machines, NEW n \in Machines, SyncMarker(m, n)
       PROVE  undone' \subseteq excused' /\ \A h \in Gestures : OwnRecord(h)'
  BY <1>4, <1>16 DEF SyncMarker
<1>17. CASE UNCHANGED cvars
  BY <1>4, <1>17 DEF cvars
<1>18. QED BY <1>5, <1>6, <1>7, <1>8, <1>9, <1>10, <1>11, <1>12, <1>13, <1>14, <1>15, <1>16, <1>17
           DEF CutoverNext

-----------------------------------------------------------------------------
\* A look that nothing crossed saw what is there; the gesture that goes on from its
\* write, and nobody else's write since, has what is there; and who read nothing newer
\* is guarded.
GuardOf(m) ==
  /\ glance[m].crossed => glance[m].on
  /\ glance[m].on /\ ~glance[m].crossed => glance[m].seen = marker[m]
  /\ \A g \in Gestures :
       does[g].m = m /\ gesture[g].at = "cache" /\ ~behind[m] => gesture[g].next = marker[m]
  /\ \/ behind[m] \/ glance[m].crossed
     \/ \E g \in Gestures : does[g].m = m /\ gesture[g].at = "cache"
     \/ /\ marker[m].cut => cached[m].cut
        /\ marker[m].at = "torn" => cached[m].cut \/ corrupt[m]

GuardInv == \A m \in Machines : GuardOf(m)

LEMMA GuardInit == CutoverInit => GuardInv
<1> SUFFICES ASSUME CutoverInit, NEW m \in Machines PROVE GuardOf(m)
  BY DEF GuardInv
<1>1. marker[m].cut => cached[m].cut
  BY DEF CutoverInit, AsRead, Fallback, NoMarker
<1>2. marker[m].at = "torn" => corrupt[m]
  BY DEF CutoverInit
<1>3. ~glance[m].on /\ ~glance[m].crossed
  BY DEF CutoverInit, NoGlance
<1>4. \A g \in Gestures : gesture[g].at = "ready"
  BY DEF CutoverInit, NoGesture
<1>5. QED BY <1>1, <1>2, <1>3, <1>4 DEF GuardOf

\* Nothing that matters to m happens.
LEMMA GuardStays ==
  ASSUME CutoverShape, NEW m \in Machines, GuardOf(m), does' = does,
         marker'[m] = marker[m], cached'[m] = cached[m], behind'[m] = behind[m],
         glance'[m] = glance[m] \/ (~glance[m].on /\ glance'[m].on /\ ~glance'[m].crossed
                                    /\ glance'[m].seen = marker[m]),
         marker[m].at = "torn" /\ corrupt[m] => corrupt'[m],
         \A g \in Gestures : does[g].m = m =>
           \/ gesture'[g] = gesture[g]
           \/ gesture[g].at # "cache" /\ gesture'[g].at # "cache"
  PROVE  GuardOf(m)'
<1>1. /\ glance'[m].crossed => glance'[m].on
      /\ glance'[m].on /\ ~glance'[m].crossed => glance'[m].seen = marker'[m]
      /\ glance[m].crossed => glance'[m].crossed
  BY DEF GuardOf
<1>2. \A g \in Gestures :
        does[g].m = m /\ gesture'[g].at = "cache" => gesture[g].at = "cache" /\ gesture'[g] = gesture[g]
  OBVIOUS
<1>3. \A g \in Gestures :
        does'[g].m = m /\ gesture'[g].at = "cache" /\ ~behind'[m] => gesture'[g].next = marker'[m]
  BY <1>2 DEF GuardOf
<1>4. (\E g \in Gestures : does[g].m = m /\ gesture[g].at = "cache")
        => \E g \in Gestures : does'[g].m = m /\ gesture'[g].at = "cache"
  OBVIOUS
<1>5. QED BY <1>1, <1>3, <1>4 DEF GuardOf

LEMMA GuardStep == CutoverShape /\ CutoverShape' /\ RecordInv /\ GuardInv /\ [CutoverNext]_cvars => GuardInv'
<1> SUFFICES ASSUME CutoverShape, CutoverShape', RecordInv, GuardInv, [CutoverNext]_cvars,
                    NEW m \in Machines
             PROVE  GuardOf(m)'
  BY DEF GuardInv
<1>0. GuardOf(m)
  BY DEF GuardInv
<1>1. does' = does
  BY DEF CutoverNext, PassGuard, LandBaseline, BeginGesture, PlanImport, StartImport, AppendEvidence,
         MintStoreId, LookFirst, DecideGesture, WriteMarker, TearMarker, CacheMarker, Glance, GlanceEnds,
         GovernorRestarts, SyncMarker, RestOfGesture, RestOfGlance, cvars
<1>2. ASSUME NEW g \in Gestures, OthersStay(g), gesture[g].at # "cache", gesture'[g].at # "cache",
             UNCHANGED <<marker, cached, behind, glance>>, corrupt'[m] \/ corrupt'[m] = corrupt[m] \/ marker[m].at # "torn"
      PROVE  GuardOf(m)'
  <2>1. \A h \in Gestures : \/ gesture'[h] = gesture[h]
                            \/ gesture[h].at # "cache" /\ gesture'[h].at # "cache"
    BY <1>2 DEF OthersStay
  <2>2. QED BY <1>0, <1>1, <1>2, <2>1, GuardStays
<1>3. ASSUME UNCHANGED <<gesture, marker, cached, behind, glance, corrupt>> PROVE GuardOf(m)'
  BY <1>0, <1>1, <1>3, GuardStays
<1>4. ASSUME NEW b \in Baselines, PassGuard(b) \/ LandBaseline(b) PROVE GuardOf(m)'
  BY <1>3, <1>4 DEF PassGuard, LandBaseline
<1>5. ASSUME NEW g \in Gestures,
             BeginGesture(g) \/ PlanImport(g) \/ StartImport(g) \/ AppendEvidence(g) \/ MintStoreId(g)
      PROVE  GuardOf(m)'
  <2>1. UNCHANGED <<marker, cached, behind, glance, corrupt>>
    BY <1>5 DEF BeginGesture, PlanImport, StartImport, AppendEvidence, MintStoreId, RestOfGesture
  <2>2. OthersStay(g) /\ gesture[g].at # "cache" /\ gesture'[g].at # "cache"
    BY <1>5, BeginMoves, PlanMoves, StartMoves, AppendMoves, MintMoves DEF TurnsTo
  <2>3. QED BY <1>2, <2>1, <2>2
<1>6. ASSUME NEW g \in Gestures, LookFirst(g) \/ DecideGesture(g) PROVE GuardOf(m)'
  <2>1. OthersStay(g) /\ gesture[g].at # "cache" /\ gesture'[g].at # "cache"
    BY <1>6, LookMoves, DecideMoves DEF TurnsTo
  <2>2. UNCHANGED <<marker, cached, behind, glance>>
    BY <1>6 DEF LookFirst, DecideGesture, RestOfGesture
  <2>3. corrupt'[m] \/ corrupt'[m] = corrupt[m] \/ marker[m].at # "torn"
    <3>1. PICK fails \in BOOLEAN : corrupt' = [corrupt EXCEPT ![does[g].m] = Useless(does[g].m, fails)]
      BY <1>6 DEF LookFirst, DecideGesture
    <3>2. CASE does[g].m = m
      <4>1. corrupt'[m] = Useless(m, fails)
        BY <3>1, <3>2 DEF CutoverShape, MarkerShape
      <4>2. QED BY <4>1 DEF Useless
    <3>3. CASE does[g].m # m
      BY <3>1, <3>3 DEF CutoverShape, MarkerShape
    <3>4. QED BY <3>2, <3>3
  <2>4. QED BY <1>2, <2>1, <2>2, <2>3
<1>7. ASSUME NEW g \in Gestures, does[g].m # m, WriteMarker(g) \/ TearMarker(g) \/ CacheMarker(g)
      PROVE  GuardOf(m)'
  <2>1. OthersStay(g)
    BY <1>7, WriteMoves, CacheMoves DEF TurnsTo
  <2>2. /\ marker'[m] = marker[m] /\ cached'[m] = cached[m] /\ behind'[m] = behind[m]
        /\ corrupt'[m] = corrupt[m] /\ glance'[m] = glance[m]
    BY <1>7 DEF WriteMarker, TearMarker, CacheMarker, Adopted, Crossing, RestOfGesture,
                CutoverShape, MarkerShape, GestureShape
  <2>3. \A h \in Gestures : does[h].m = m => gesture'[h] = gesture[h]
    BY <1>7, <2>1 DEF OthersStay
  <2>4. QED BY <1>0, <1>1, <2>2, <2>3, GuardStays
<1>8. ASSUME NEW g \in Gestures, does[g].m = m, WriteMarker(g) PROVE GuardOf(m)'
  <2>1. OthersStay(g) /\ gesture'[g].at = "cache" /\ gesture'[g].next = gesture[g].next
        /\ gesture[g].at = "write"
    BY <1>8, WriteMoves DEF TurnsTo
  <2>2. marker'[m] = gesture[g].next
    BY <1>8 DEF WriteMarker, CutoverShape, MarkerShape
  <2>3. glance'[m].crossed = glance[m].on /\ glance'[m].on = glance[m].on
    BY <1>8 DEF WriteMarker, Crossing, CutoverShape, GestureShape, GlanceRec
  <2>4. ASSUME NEW h \in Gestures, does[h].m = m, gesture'[h].at = "cache", ~behind'[m]
        PROVE  gesture'[h].next = marker'[m]
    <3>1. CASE h = g
      BY <2>1, <2>2, <3>1
    <3>2. CASE h # g
      <4>1. gesture[h].at = "cache"
        BY <2>1, <2>4, <3>2 DEF OthersStay
      <4>2. PICK v : /\ v \in BOOLEAN
                     /\ v = (behind[m] \/ \E k \in Gestures \ {g} : does[k].m = m /\ InStep(k, "cache"))
        OBVIOUS
      <4>3. v
        BY <2>4, <3>2, <4>1, <4>2 DEF InStep
      <4>4. behind' = [behind EXCEPT ![m] = v]
        BY <1>8, <4>2, Zenon DEF WriteMarker, Crossing
      <4>5. behind'[m]
        BY <4>3, <4>4 DEF CutoverShape, MarkerShape
      <4>6. QED BY <2>4, <4>5
    <3>3. QED BY <3>1, <3>2
  <2>5. QED BY <1>1, <1>8, <2>1, <2>3, <2>4 DEF GuardOf
<1>9. ASSUME NEW g \in Gestures, does[g].m = m, TearMarker(g) PROVE GuardOf(m)'
  <2>1. glance'[m].crossed = glance[m].on /\ glance'[m].on = glance[m].on /\ behind'[m]
    BY <1>9 DEF TearMarker, CutoverShape, GestureShape, MarkerShape, GlanceRec
  <2>2. QED BY <2>1 DEF GuardOf
<1>10. ASSUME NEW g \in Gestures, does[g].m = m, CacheMarker(g) PROVE GuardOf(m)'
  <2>1. OthersStay(g) /\ gesture'[g].at = "done" /\ gesture[g].at = "cache"
    BY <1>10, CacheMoves DEF TurnsTo
  <2>2. UNCHANGED <<marker, behind, glance>> /\ cached'[m] = gesture[g].next
    BY <1>10 DEF CacheMarker, Adopted, RestOfGesture, CutoverShape, MarkerShape
  <2>3. \A h \in Gestures : does'[h].m = m /\ gesture'[h].at = "cache" /\ ~behind'[m]
          => gesture'[h].next = marker'[m]
    BY <1>0, <1>1, <2>1, <2>2 DEF GuardOf, OthersStay
  <2>4. behind[m] \/ (gesture[g].next = marker[m] /\ marker[m].at # "torn")
    BY <1>0, <1>10, <2>1 DEF GuardOf, RecordInv
  <2>5. QED BY <1>0, <2>2, <2>3, <2>4 DEF GuardOf
<1>11. ASSUME NEW n \in Machines, Glance(n) PROVE GuardOf(m)'
  <2>1. UNCHANGED <<gesture, marker, cached, behind, corrupt>>
    BY <1>11 DEF Glance, RestOfGlance
  <2>2. glance'[m] = glance[m] \/ (~glance[m].on /\ glance'[m].on /\ ~glance'[m].crossed
                                    /\ glance'[m].seen = marker[m])
    BY <1>11 DEF Glance, CutoverShape, GestureShape
  <2>3. QED BY <1>0, <1>1, <2>1, <2>2, GuardStays
<1>12. ASSUME NEW n \in Machines, n # m, GlanceEnds(n) PROVE GuardOf(m)'
  <2>1. /\ UNCHANGED <<gesture, marker>> /\ cached'[m] = cached[m] /\ behind'[m] = behind[m]
        /\ corrupt'[m] = corrupt[m] /\ glance'[m] = glance[m]
    BY <1>12 DEF GlanceEnds, RestOfGlance, CutoverShape, GestureShape, MarkerShape
  <2>2. QED BY <1>0, <1>1, <2>1, GuardStays
<1>13. ASSUME GlanceEnds(m) PROVE GuardOf(m)'
  <2>1. UNCHANGED <<gesture, marker>> /\ glance[m].on /\ ~glance'[m].on /\ ~glance'[m].crossed
    BY <1>13 DEF GlanceEnds, RestOfGlance, CutoverShape, GestureShape, NoGlance
  <2>2. PICK u : u \in BOOLEAN /\ u = (glance[m].seen.at = "torn")
    OBVIOUS
  <2>3. PICK v : /\ v \in BOOLEAN
                 /\ v = (glance[m].crossed \/ \E g \in Gestures : does[g].m = m /\ InStep(g, "cache"))
    OBVIOUS
  <2>4. /\ corrupt' = [corrupt EXCEPT ![m] = u] /\ behind' = [behind EXCEPT ![m] = v]
        /\ cached' = [cached EXCEPT ![m] = AsRead(glance[m].seen, u)]
    BY <1>13, <2>2, <2>3, Zenon DEF GlanceEnds
  <2>5. corrupt'[m] = u /\ behind'[m] = v /\ cached'[m] = AsRead(glance[m].seen, u)
    BY <2>4 DEF CutoverShape, MarkerShape
  <2>6. CASE v
    BY <1>1, <2>1, <2>5, <2>6 DEF GuardOf
  <2>7. CASE ~v
    <3>1. glance[m].seen = marker[m] /\ ~\E g \in Gestures : does[g].m = m /\ gesture[g].at = "cache"
      BY <1>0, <2>1, <2>3, <2>7 DEF GuardOf, InStep
    <3>2. marker[m].cut => cached'[m].cut
      BY <2>5, <3>1 DEF AsRead, Fallback, NoMarker
    <3>3. marker[m].at = "torn" => corrupt'[m]
      BY <2>2, <2>5, <3>1
    <3>4. QED BY <1>1, <2>1, <3>1, <3>2, <3>3 DEF GuardOf
  <2>8. QED BY <2>6, <2>7
<1>14. ASSUME NEW n \in Machines, n # m, GovernorRestarts(n) PROVE GuardOf(m)'
  <2>1. /\ marker'[m] = marker[m] /\ cached'[m] = cached[m] /\ behind'[m] = behind[m]
        /\ corrupt'[m] = corrupt[m] /\ glance'[m] = glance[m]
    <3>1. marker'[m] = marker[m]
      <4>1. \/ marker' = [marker EXCEPT ![n] = TornMarker]
            \/ marker' = marker
        BY <1>14 DEF GovernorRestarts
      <4>2. QED BY <4>1, <1>14 DEF CutoverShape, MarkerShape
    <3>2. behind'[m] = behind[m] /\ glance'[m] = glance[m]
      BY <1>14 DEF GovernorRestarts, CutoverShape, GestureShape, MarkerShape
    <3>3. PICK c, d : cached' = [cached EXCEPT ![n] = c] /\ corrupt' = [corrupt EXCEPT ![n] = d]
      BY <1>14 DEF GovernorRestarts
    <3>4. cached'[m] = cached[m] /\ corrupt'[m] = corrupt[m]
      BY <3>3, <1>14 DEF CutoverShape, MarkerShape
    <3>5. QED BY <3>1, <3>2, <3>4
  <2>2. \A h \in Gestures : does[h].m = m => gesture'[h] = gesture[h]
    BY <1>14, RestartMoves
  <2>3. QED BY <1>0, <1>1, <2>1, <2>2, GuardStays
<1>15. ASSUME GovernorRestarts(m) PROVE GuardOf(m)'
  <2>1. PICK u : u \in BOOLEAN /\ u = (marker'[m].at = "torn")
    OBVIOUS
  <2>2. cached' = [cached EXCEPT ![m] = AsRead(marker'[m], u)] /\ corrupt' = [corrupt EXCEPT ![m] = u]
    BY <1>15, <2>1, Zenon DEF GovernorRestarts
  <2>3. cached'[m] = AsRead(marker'[m], u) /\ corrupt'[m] = u
    BY <2>2 DEF CutoverShape, MarkerShape
  <2>4. marker'[m].cut => cached'[m].cut
    BY <2>3 DEF AsRead, Fallback, NoMarker
  <2>5. ~glance'[m].on /\ ~glance'[m].crossed
    BY <1>15 DEF GovernorRestarts, NoGlance, CutoverShape, GestureShape
  <2>6. \A g \in Gestures : does[g].m = m => gesture'[g].at # "cache"
    BY <1>15, RestartMoves
  <2>7. QED BY <1>1, <2>1, <2>3, <2>4, <2>5, <2>6 DEF GuardOf
<1>16. ASSUME NEW n \in Machines, NEW k \in Machines, k # m, SyncMarker(n, k) PROVE GuardOf(m)'
  <2>1. /\ UNCHANGED <<gesture, cached, corrupt>> /\ marker'[m] = marker[m] /\ behind'[m] = behind[m]
        /\ glance'[m] = glance[m]
    BY <1>16 DEF SyncMarker, CutoverShape, GestureShape, MarkerShape
  <2>2. QED BY <1>0, <1>1, <2>1, GuardStays
<1>17. ASSUME NEW n \in Machines, SyncMarker(n, m) PROVE GuardOf(m)'
  <2>1. glance'[m].crossed = glance[m].on /\ glance'[m].on = glance[m].on /\ behind'[m]
    BY <1>17 DEF SyncMarker, CutoverShape, GestureShape, MarkerShape, GlanceRec
  <2>2. QED BY <2>1 DEF GuardOf
<1>18. CASE UNCHANGED cvars
  BY <1>3, <1>18 DEF cvars
<1>19. QED BY <1>4, <1>5, <1>6, <1>7, <1>8, <1>9, <1>10, <1>11, <1>12, <1>13, <1>14, <1>15, <1>16, <1>17,
              <1>18 DEF CutoverNext

LEMMA GuardGuards == CutoverShape /\ GuardInv => GuardFollows
BY DEF GuardInv, GuardOf, GuardFollows, InStep, IsCutOver

-----------------------------------------------------------------------------
\* What g had when it began is in its machine's evidence.
Known(g) ==
  gesture[g].at # "ready" /\ \A b \in gesture[g].had : evidence[does[g].m][b] > 0

\* On its way there: what it is to import, and what it wrote stands for.
EvidenceOf(g) ==
  /\ gesture[g].at = "plan" =>
       \A b \in gesture[g].had : writer[b] = does[g].m /\ landing[b] = "landed"
  /\ gesture[g].at = "import" => gesture[g].had \subseteq gesture[g].todo
  /\ gesture[g].at = "append" =>
       /\ \A b \in gesture[g].had : b \in gesture[g].todo \/ evidence[does[g].m][b] > 0
       /\ \A b \in gesture[g].todo : evidence[does[g].m][b] = 0
       /\ g \in importing[does[g].m]
  /\ gesture[g].at \in {"mint", "decide"} /\ does[g].kind = "cut" =>
       \A b \in gesture[g].had : evidence[does[g].m][b] > 0
  /\ gesture[g].at \in {"write", "cache"} => \A h \in gesture[g].next.by : Known(h)

EvidenceAt(m) ==
  /\ \A g, h \in importing[m] : g = h
  /\ \A b \in Baselines : evidence[m][b] <= 1
  /\ \A g \in marker[m].by : Known(g)

EvidenceInv == (\A g \in Gestures : EvidenceOf(g)) /\ \A m \in Machines : EvidenceAt(m)

LEMMA EvidenceInit == CutoverInit => EvidenceInv
<1> SUFFICES ASSUME CutoverInit PROVE EvidenceInv
  OBVIOUS
<1>1. \A g \in Gestures : EvidenceOf(g)
  BY DEF CutoverInit, EvidenceOf, NoGesture
<1>2. ASSUME NEW m \in Machines PROVE EvidenceAt(m)
  <2>1. marker[m].by = {}
    BY CutoverAssumption DEF CutoverInit
  <2>2. QED BY <2>1 DEF CutoverInit, EvidenceAt
<1>3. QED BY <1>1, <1>2 DEF EvidenceInv

\* Evidence and landed baselines only grow, and a gesture keeps what it had.
Grows ==
  /\ does' = does /\ writer' = writer
  /\ \A b \in Baselines : landing[b] = "landed" => landing'[b] = "landed"
  /\ \A m \in Machines : \A b \in Baselines : evidence'[m][b] \in Nat /\ evidence[m][b] <= evidence'[m][b]
  /\ \A g \in Gestures : gesture[g].at # "ready" => gesture'[g].at # "ready" /\ gesture'[g].had = gesture[g].had

LEMMA StepGrows == CutoverShape /\ CutoverShape' /\ [CutoverNext]_cvars => Grows
<1> SUFFICES ASSUME CutoverShape, CutoverShape', [CutoverNext]_cvars PROVE Grows
  OBVIOUS
<1>1. does' = does /\ writer' = writer
  BY DEF CutoverNext, PassGuard, LandBaseline, BeginGesture, PlanImport, StartImport, AppendEvidence,
         MintStoreId, LookFirst, DecideGesture, WriteMarker, TearMarker, CacheMarker, Glance, GlanceEnds,
         GovernorRestarts, SyncMarker, RestOfGesture, RestOfGlance, cvars
<1>2. ASSUME NEW b \in Baselines, landing[b] = "landed" PROVE landing'[b] = "landed"
  BY <1>2, ZenonT(60) DEF CutoverNext, PassGuard, LandBaseline, BeginGesture, PlanImport, StartImport, AppendEvidence,
         MintStoreId, LookFirst, DecideGesture, WriteMarker, TearMarker, CacheMarker, Glance, GlanceEnds,
         GovernorRestarts, SyncMarker, RestOfGesture, RestOfGlance, cvars, CutoverShape, EvidenceShape
<1>3. ASSUME NEW m \in Machines, NEW b \in Baselines
      PROVE  evidence'[m][b] \in Nat /\ evidence[m][b] <= evidence'[m][b]
  <2>1. evidence[m][b] \in Nat /\ evidence'[m][b] \in Nat
    BY DEF CutoverShape, EvidenceShape
  <2>2. CASE \E g \in Gestures : AppendEvidence(g)
    <3>1. PICK g \in Gestures : AppendEvidence(g)
      BY <2>2
    <3>2. CASE evidence' = evidence
      BY <2>1, <3>2
    <3>3. ASSUME NEW c \in Baselines, evidence'[does[g].m][c] = evidence[does[g].m][c] + 1,
                 \A k \in Machines : \A d \in Baselines :
                   k # does[g].m \/ d # c => evidence'[k][d] = evidence[k][d]
          PROVE  evidence[m][b] <= evidence'[m][b]
      <4>1. evidence'[m][b] = evidence[m][b] \/ evidence'[m][b] = evidence[m][b] + 1
        BY <3>3
      <4>2. QED BY <2>1, <4>1
    <3>4. QED BY <2>1, <3>1, <3>2, <3>3, AppendMoves
  <2>3. CASE ~\E g \in Gestures : AppendEvidence(g)
    <3>1. evidence' = evidence
      BY <2>3 DEF CutoverNext, PassGuard, LandBaseline, BeginGesture, PlanImport, StartImport,
         MintStoreId, LookFirst, DecideGesture, WriteMarker, TearMarker, CacheMarker, Glance, GlanceEnds,
         GovernorRestarts, SyncMarker, RestOfGesture, RestOfGlance, cvars
    <3>2. QED BY <2>1, <3>1
  <2>4. QED BY <2>2, <2>3
<1>4. ASSUME NEW h \in Gestures, gesture[h].at # "ready"
      PROVE  gesture'[h].at # "ready" /\ gesture'[h].had = gesture[h].had
  <2>1. ASSUME NEW g \in Gestures, NEW s, TurnsTo(g, s), s # "ready"
        PROVE  gesture'[h].at # "ready" /\ gesture'[h].had = gesture[h].had
    BY <1>4, <2>1 DEF TurnsTo, OthersStay
  <2>2. ASSUME NEW g \in Gestures, BeginGesture(g)
        PROVE  gesture'[h].at # "ready" /\ gesture'[h].had = gesture[h].had
    BY <1>4, <2>2, BeginMoves DEF OthersStay
  <2>3. ASSUME NEW g \in Gestures,
               \/ PlanImport(g) \/ StartImport(g) \/ AppendEvidence(g) \/ MintStoreId(g)
               \/ LookFirst(g) \/ DecideGesture(g) \/ WriteMarker(g) \/ TearMarker(g) \/ CacheMarker(g)
        PROVE  gesture'[h].at # "ready" /\ gesture'[h].had = gesture[h].had
    <3>1. \E s \in GestureStages \ {"ready"} : TurnsTo(g, s)
      <4>1. {"plan", "import", "append", "mint", "decide", "write", "cache", "done", "refused"}
              \subseteq GestureStages \ {"ready"}
        BY DEF GestureStages
      <4>2. CASE PlanImport(g) \/ StartImport(g) \/ AppendEvidence(g) \/ MintStoreId(g)
        BY <4>1, <4>2, PlanMoves, StartMoves, AppendMoves, MintMoves
      <4>3. CASE LookFirst(g) \/ DecideGesture(g)
        BY <4>1, <4>3, LookMoves, DecideMoves
      <4>4. CASE WriteMarker(g) \/ TearMarker(g) \/ CacheMarker(g)
        BY <4>1, <4>4, WriteMoves, CacheMoves
      <4>5. QED BY <2>3, <4>2, <4>3, <4>4
    <3>2. QED BY <2>1, <3>1
  <2>4. ASSUME NEW m \in Machines, GovernorRestarts(m)
        PROVE  gesture'[h].at # "ready" /\ gesture'[h].had = gesture[h].had
    BY <1>4, <2>4, RestartMoves
  <2>5. ASSUME gesture' = gesture PROVE gesture'[h].at # "ready" /\ gesture'[h].had = gesture[h].had
    BY <1>4, <2>5
  <2>6. QED BY <2>2, <2>3, <2>4, <2>5
            DEF CutoverNext, PassGuard, LandBaseline, Glance, GlanceEnds, RestOfGlance, SyncMarker, cvars
<1>5. QED BY <1>1, <1>2, <1>3, <1>4 DEF Grows

LEMMA KnownStays ==
  ASSUME CutoverShape, Grows, NEW g \in Gestures, Known(g) PROVE Known(g)'
<1>1. gesture'[g].at # "ready" /\ gesture'[g].had = gesture[g].had /\ does'[g].m = does[g].m
  BY DEF Known, Grows
<1>2. ASSUME NEW b \in gesture[g].had PROVE evidence'[does[g].m][b] > 0
  <2>1. b \in Baselines /\ does[g].m \in Machines /\ evidence[does[g].m][b] \in Nat
    BY OfMachine DEF GestureRec, CutoverShape, EvidenceShape
  <2>2. QED BY <2>1 DEF Known, Grows
<1>3. QED BY <1>1, <1>2 DEF Known

\* A gesture that does not move keeps its part.
LEMMA EvidenceStays ==
  ASSUME CutoverShape, Grows, NEW g \in Gestures, EvidenceOf(g), gesture'[g] = gesture[g],
         gesture[g].at = "append" =>
           /\ \A b \in Baselines : evidence'[does[g].m][b] = evidence[does[g].m][b]
           /\ g \in importing'[does[g].m]
  PROVE  EvidenceOf(g)'
<1>1. does'[g] = does[g] /\ gesture[g].had \subseteq Baselines /\ gesture[g].todo \subseteq Baselines
      /\ does[g].m \in Machines /\ gesture[g].next.by \subseteq Gestures
  BY OfMachine DEF Grows, GestureRec, MarkerRec
<1>2. ASSUME NEW b \in Baselines, evidence[does[g].m][b] > 0 PROVE evidence'[does[g].m][b] > 0
  <2>1. evidence[does[g].m][b] \in Nat
    BY <1>1 DEF CutoverShape, EvidenceShape
  <2>2. QED BY <1>1, <1>2, <2>1 DEF Grows
<1>3. gesture[g].at = "plan" =>
        \A b \in gesture[g].had : writer'[b] = does[g].m /\ landing'[b] = "landed"
  BY <1>1 DEF EvidenceOf, Grows
<1>4. gesture[g].at = "append" =>
       /\ \A b \in gesture[g].had : b \in gesture[g].todo \/ evidence'[does[g].m][b] > 0
       /\ \A b \in gesture[g].todo : evidence'[does[g].m][b] = 0
  BY <1>1 DEF EvidenceOf
<1>5. gesture[g].at \in {"mint", "decide"} /\ does[g].kind = "cut" =>
       \A b \in gesture[g].had : evidence'[does[g].m][b] > 0
  BY <1>1, <1>2 DEF EvidenceOf
<1>6. gesture[g].at \in {"write", "cache"} => \A h \in gesture[g].next.by : Known(h)'
  BY <1>1, KnownStays DEF EvidenceOf
<1>7. gesture[g].at = "import" => gesture[g].had \subseteq gesture[g].todo
  BY DEF EvidenceOf
<1>8. QED BY <1>1, <1>3, <1>4, <1>5, <1>6, <1>7 DEF EvidenceOf

\* Nor does a machine whose imports end, and whose marker names what is known.
LEMMA MachineStays ==
  ASSUME CutoverShape, Grows, NEW m \in Machines, EvidenceAt(m), importing'[m] \subseteq importing[m],
         \A b \in Baselines : evidence'[m][b] = evidence[m][b],
         \A g \in marker'[m].by : g \in Gestures /\ Known(g)
  PROVE  EvidenceAt(m)'
<1>1. \A g \in marker'[m].by : Known(g)'
  BY KnownStays
<1>2. QED BY <1>1 DEF EvidenceAt

LEMMA EvidenceStep ==
  CutoverShape /\ CutoverShape' /\ RecordInv /\ EvidenceInv /\ [CutoverNext]_cvars => EvidenceInv'
<1> SUFFICES ASSUME CutoverShape, CutoverShape', RecordInv, EvidenceInv, [CutoverNext]_cvars
             PROVE  EvidenceInv'
  OBVIOUS
<1>0. Grows
  BY StepGrows
<1>1. /\ \A g \in Gestures : EvidenceOf(g)
      /\ \A m \in Machines : EvidenceAt(m)
      /\ \A m \in Machines : \A g \in marker[m].by : g \in Gestures /\ Known(g)
  BY DEF EvidenceInv, EvidenceAt, CutoverShape, MarkerShape, MarkerRec
<1>2. \A g \in Gestures : does[g].m \in Machines /\ (gesture[g].at = "append" => g \in importing[does[g].m])
  BY <1>1, OfMachine DEF EvidenceOf
<1>3. ASSUME NEW g \in Gestures, OthersStay(g), EvidenceOf(g)', UNCHANGED <<evidence, importing>>,
             \A m \in Machines : \A h \in marker'[m].by : h \in Gestures /\ Known(h)
      PROVE  EvidenceInv'
  <2>1. ASSUME NEW h \in Gestures, h # g PROVE EvidenceOf(h)'
    BY <1>0, <1>1, <1>2, <1>3, <2>1, EvidenceStays DEF OthersStay
  <2>2. \A m \in Machines : EvidenceAt(m)'
    BY <1>0, <1>1, <1>3, MachineStays
  <2>3. QED BY <1>3, <2>1, <2>2 DEF EvidenceInv
<1>4. ASSUME NEW g \in Gestures, OthersStay(g), EvidenceOf(g)', UNCHANGED <<evidence, importing, marker>>
      PROVE  EvidenceInv'
  BY <1>1, <1>3, <1>4
<1>5. ASSUME UNCHANGED <<gesture, evidence, importing>>,
             \A m \in Machines : \A h \in marker'[m].by : h \in Gestures /\ Known(h)
      PROVE  EvidenceInv'
  <2>1. \A h \in Gestures : EvidenceOf(h)'
    BY <1>0, <1>1, <1>2, <1>5, EvidenceStays
  <2>2. \A m \in Machines : EvidenceAt(m)'
    BY <1>0, <1>1, <1>5, MachineStays
  <2>3. QED BY <2>1, <2>2 DEF EvidenceInv
<1>6. ASSUME NEW b \in Baselines, PassGuard(b) \/ LandBaseline(b) PROVE EvidenceInv'
  BY <1>1, <1>5, <1>6 DEF PassGuard, LandBaseline
<1>7. ASSUME NEW m \in Machines, Glance(m) \/ GlanceEnds(m) PROVE EvidenceInv'
  BY <1>1, <1>5, <1>7 DEF Glance, GlanceEnds, RestOfGlance
<1>8. ASSUME NEW m \in Machines, NEW n \in Machines, SyncMarker(m, n) PROVE EvidenceInv'
  <2>1. \A k \in Machines : marker'[k] \in {marker[k], marker[m]}
    BY <1>8 DEF SyncMarker, CutoverShape, MarkerShape
  <2>2. \A k \in Machines : \A h \in marker'[k].by : h \in Gestures /\ Known(h)
    BY <1>1, <2>1
  <2>3. QED BY <1>5, <1>8, <2>2 DEF SyncMarker
<1>9. ASSUME NEW g \in Gestures, BeginGesture(g) PROVE EvidenceInv'
  <2>1. /\ OthersStay(g) /\ gesture'[g].at \in {"plan", "check"} /\ gesture'[g].had = Landed(does[g].m)
        /\ UNCHANGED <<evidence, importing, marker, does, writer, landing>>
    BY <1>9, BeginMoves DEF BeginGesture, RestOfGesture
  <2>2. EvidenceOf(g)'
    BY <2>1 DEF EvidenceOf, Landed
  <2>3. QED BY <1>4, <2>1, <2>2
<1>10. ASSUME NEW g \in Gestures, PlanImport(g) PROVE EvidenceInv'
  <2>1. /\ TurnsTo(g, "import") /\ gesture[g].at = "plan" /\ gesture'[g].todo = Landed(does[g].m)
        /\ UNCHANGED <<evidence, importing, marker, does, writer, landing>>
    BY <1>10, PlanMoves DEF PlanImport, RestOfGesture
  <2>2. gesture[g].had \subseteq Landed(does[g].m)
    BY <1>1, <2>1, OfMachine DEF EvidenceOf, Landed, GestureRec
  <2>3. EvidenceOf(g)'
    BY <2>1, <2>2 DEF EvidenceOf, TurnsTo
  <2>4. QED BY <1>4, <2>1, <2>3 DEF TurnsTo
<1>11. ASSUME NEW g \in Gestures, MintStoreId(g) PROVE EvidenceInv'
  <2>1. /\ TurnsTo(g, "decide") /\ gesture[g].at = "mint"
        /\ UNCHANGED <<evidence, importing, marker, does>>
    BY <1>11, MintMoves DEF MintStoreId, RestOfGesture
  <2>2. EvidenceOf(g)'
    BY <1>1, <2>1 DEF EvidenceOf, TurnsTo
  <2>3. QED BY <1>4, <2>1, <2>2 DEF TurnsTo
<1>12. ASSUME NEW g \in Gestures, LookFirst(g) PROVE EvidenceInv'
  <2>1. /\ OthersStay(g) /\ gesture'[g].at \in {"mint", "decide", "refused"} /\ gesture[g].at = "check"
        /\ UNCHANGED <<evidence, importing, marker, does>>
    BY <1>12, LookMoves DEF LookFirst, RestOfGesture, TurnsTo
  <2>2. does[g].kind # "cut"
    BY <2>1 DEF RecordInv
  <2>3. EvidenceOf(g)'
    BY <2>1, <2>2 DEF EvidenceOf
  <2>4. QED BY <1>4, <2>1, <2>3
<1>13. ASSUME NEW g \in Gestures, DecideGesture(g) PROVE EvidenceInv'
  <2>1. gesture[g].at = "decide" /\ UNCHANGED <<evidence, importing, marker, does>>
    BY <1>13, DecideMoves DEF DecideGesture, RestOfGesture
  <2>2. CASE TurnsTo(g, "refused")
    <3>1. OthersStay(g) /\ EvidenceOf(g)'
      BY <2>2 DEF EvidenceOf, TurnsTo
    <3>2. QED BY <1>4, <2>1, <3>1
  <2>3. ASSUME NEW u \in BOOLEAN, TurnsTo(g, "write"),
               gesture'[g].next = NextMarker(g, AsRead(marker[does[g].m], u))
        PROVE  EvidenceInv'
    <3>1. PICK x : x = AsRead(marker[does[g].m], u)
      OBVIOUS
    <3>2. x \in MarkerRec /\ \A h \in x.by : Known(h)
      <4>1. CASE u
        BY <3>1, <4>1, NoMarkerIsOne DEF AsRead, Fallback, NoMarker
      <4>2. CASE ~u
        BY <1>1, <1>2, <3>1, <4>2, OfMachine DEF AsRead
      <4>3. QED BY <4>1, <4>2
    <3>3. \A h \in NextMarker(g, x).by : h \in Gestures /\ Known(h)
      <4>1. CASE does[g].kind = "cut"
        <5>1. Known(g)
          BY <1>1, <2>1, <4>1 DEF EvidenceOf, Known
        <5>2. QED BY <4>1, <5>1 DEF NextMarker
      <4>2. CASE does[g].kind = "rollback"
        BY <3>2, <4>2 DEF NextMarker, MarkerRec
      <4>3. CASE does[g].kind = "bind"
        BY <3>2, <4>3 DEF NextMarker, MarkerRec
      <4>4. QED BY <4>1, <4>2, <4>3, OfMachine DEF GestureKinds
    <3>4. \A h \in gesture'[g].next.by : Known(h)'
      BY <1>0, <2>3, <3>1, <3>3, KnownStays
    <3>5. OthersStay(g) /\ EvidenceOf(g)'
      BY <2>3, <3>4 DEF EvidenceOf, TurnsTo
    <3>6. QED BY <1>4, <2>1, <3>5
  <2>4. QED BY <1>13, <2>2, <2>3, DecideMoves
<1>14. ASSUME NEW g \in Gestures, WriteMarker(g) PROVE EvidenceInv'
  <2>1. /\ OthersStay(g) /\ gesture[g].at = "write" /\ gesture'[g].at = "cache"
        /\ gesture'[g].next = gesture[g].next /\ UNCHANGED <<evidence, importing, does>>
    BY <1>14, WriteMoves DEF WriteMarker, TurnsTo
  <2>2. \A h \in gesture[g].next.by : h \in Gestures /\ Known(h)
    BY <1>1, <2>1, OfMachine DEF EvidenceOf, GestureRec, MarkerRec
  <2>3. \A m \in Machines : marker'[m] = marker[m] \/ marker'[m] = gesture[g].next
    BY <1>14 DEF WriteMarker, CutoverShape, MarkerShape
  <2>4. \A m \in Machines : \A h \in marker'[m].by : h \in Gestures /\ Known(h)
    BY <1>1, <2>2, <2>3
  <2>5. EvidenceOf(g)'
    BY <1>0, <2>1, <2>2, KnownStays DEF EvidenceOf
  <2>6. QED BY <1>3, <2>1, <2>4, <2>5
<1>15. ASSUME NEW g \in Gestures, TearMarker(g) PROVE EvidenceInv'
  <2>1. OthersStay(g) /\ gesture'[g].at = "refused" /\ UNCHANGED <<evidence, importing>>
    BY <1>15, WriteMoves DEF TearMarker, TurnsTo
  <2>2. \A m \in Machines : marker'[m] = marker[m] \/ marker'[m].by = {}
    BY <1>15 DEF TearMarker, CutoverShape, MarkerShape, TornMarker, NoMarker
  <2>3. \A m \in Machines : \A h \in marker'[m].by : h \in Gestures /\ Known(h)
    BY <1>1, <2>2
  <2>4. EvidenceOf(g)'
    BY <2>1 DEF EvidenceOf
  <2>5. QED BY <1>3, <2>1, <2>3, <2>4
<1>16. ASSUME NEW g \in Gestures, CacheMarker(g) PROVE EvidenceInv'
  <2>1. OthersStay(g) /\ gesture'[g].at = "done" /\ UNCHANGED <<evidence, importing, marker>>
    BY <1>16, CacheMoves DEF CacheMarker, RestOfGesture, TurnsTo
  <2>2. EvidenceOf(g)'
    BY <2>1 DEF EvidenceOf
  <2>3. QED BY <1>4, <2>1, <2>2
<1>17. ASSUME NEW g \in Gestures, StartImport(g) PROVE EvidenceInv'
  <2>1. /\ TurnsTo(g, "append") /\ gesture[g].at = "import" /\ importing[does[g].m] = {}
        /\ gesture'[g].todo = {b \in gesture[g].todo : evidence[does[g].m][b] = 0}
        /\ importing'[does[g].m] = {g}
        /\ \A m \in Machines : m # does[g].m => importing'[m] = importing[m]
        /\ UNCHANGED <<evidence, marker, does>>
    BY <1>17, StartMoves DEF StartImport, RestOfGesture
  <2>2. ASSUME NEW h \in Gestures, h # g PROVE EvidenceOf(h)'
    <3>1. gesture'[h] = gesture[h]
      BY <2>1, <2>2 DEF TurnsTo, OthersStay
    <3>2. gesture[h].at = "append" => h \in importing'[does[h].m]
      BY <1>2, <2>1
    <3>3. QED BY <1>0, <1>1, <2>1, <3>1, <3>2, EvidenceStays
  <2>3. EvidenceOf(g)'
    <3>1. gesture[g].had \subseteq gesture[g].todo /\ gesture[g].had \subseteq Baselines /\ does[g].m \in Machines
      BY <1>1, <2>1, OfMachine DEF EvidenceOf, GestureRec
    <3>2. \A b \in gesture[g].had : b \in gesture'[g].todo \/ evidence[does[g].m][b] > 0
      BY <2>1, <3>1 DEF CutoverShape, EvidenceShape
    <3>3. QED BY <2>1, <3>2 DEF EvidenceOf, TurnsTo
  <2>4. ASSUME NEW m \in Machines PROVE EvidenceAt(m)'
    <3>1. \A k \in marker'[m].by : Known(k)'
      BY <1>0, <1>1, <2>1, KnownStays
    <3>2. \A k, h \in importing'[m] : k = h
      BY <1>1, <2>1 DEF EvidenceAt
    <3>3. QED BY <1>1, <2>1, <3>1, <3>2 DEF EvidenceAt
  <2>5. QED BY <2>2, <2>3, <2>4 DEF EvidenceInv
<1>18. ASSUME NEW g \in Gestures, AppendEvidence(g) PROVE EvidenceInv'
  <2>0. /\ gesture[g].at = "append" /\ UNCHANGED <<marker, does>> /\ g \in importing[does[g].m]
        /\ does[g].m \in Machines
    BY <1>2, <1>18, AppendMoves DEF AppendEvidence, RestOfGesture
  <2>1. ASSUME NEW b \in gesture[g].todo, b \in Baselines,
               TurnsTo(g, "append"), gesture'[g].todo = gesture[g].todo \ {b},
               evidence'[does[g].m][b] = evidence[does[g].m][b] + 1,
               \A m \in Machines : \A c \in Baselines :
                 m # does[g].m \/ c # b => evidence'[m][c] = evidence[m][c],
               importing' = importing
        PROVE  EvidenceInv'
    <3>1. evidence[does[g].m][b] = 0 /\ evidence'[does[g].m][b] = 1
      BY <1>1, <2>0, <2>1 DEF EvidenceOf
    <3>2. ASSUME NEW h \in Gestures, h # g PROVE EvidenceOf(h)'
      <4>1. gesture'[h] = gesture[h]
        BY <2>1, <3>2 DEF TurnsTo, OthersStay
      <4>2. gesture[h].at = "append" => does[h].m # does[g].m
        BY <1>1, <1>2, <2>0, <3>2 DEF EvidenceAt
      <4>3. QED BY <1>0, <1>1, <1>2, <2>1, <4>1, <4>2, EvidenceStays
    <3>3. EvidenceOf(g)'
      <4>1. gesture[g].had \subseteq Baselines /\ gesture[g].todo \subseteq Baselines
        BY OfMachine DEF GestureRec
      <4>2. \A c \in gesture[g].had : c \in gesture'[g].todo \/ evidence'[does[g].m][c] > 0
        <5>1. ASSUME NEW c \in gesture[g].had, c = b PROVE evidence'[does[g].m][c] > 0
          BY <3>1, <5>1
        <5>2. ASSUME NEW c \in gesture[g].had, c # b
              PROVE  c \in gesture'[g].todo \/ evidence'[does[g].m][c] > 0
          BY <1>1, <2>0, <2>1, <4>1, <5>2 DEF EvidenceOf
        <5>3. QED BY <5>1, <5>2
      <4>3. \A c \in gesture'[g].todo : evidence'[does[g].m][c] = 0
        BY <1>1, <2>0, <2>1, <4>1 DEF EvidenceOf
      <4>4. QED BY <2>0, <2>1, <4>2, <4>3 DEF EvidenceOf, TurnsTo
    <3>4. ASSUME NEW m \in Machines PROVE EvidenceAt(m)'
      <4>1. \A k \in marker'[m].by : Known(k)'
        BY <1>0, <1>1, <2>0, KnownStays
      <4>2. \A c \in Baselines : evidence'[m][c] <= 1
        BY <1>1, <2>1, <3>1 DEF EvidenceAt
      <4>3. QED BY <1>1, <2>1, <4>1, <4>2 DEF EvidenceAt
    <3>5. QED BY <3>2, <3>3, <3>4 DEF EvidenceInv
  <2>2. ASSUME TurnsTo(g, "mint"), gesture[g].todo = {}, evidence' = evidence,
               importing'[does[g].m] = importing[does[g].m] \ {g},
               \A m \in Machines : m # does[g].m => importing'[m] = importing[m]
        PROVE  EvidenceInv'
    <3>1. ASSUME NEW h \in Gestures, h # g PROVE EvidenceOf(h)'
      <4>1. gesture'[h] = gesture[h]
        BY <2>2, <3>1 DEF TurnsTo, OthersStay
      <4>2. gesture[h].at = "append" => h \in importing'[does[h].m]
        BY <1>2, <2>2, <3>1
      <4>3. QED BY <1>0, <1>1, <2>2, <4>1, <4>2, EvidenceStays
    <3>2. EvidenceOf(g)'
      BY <1>1, <2>0, <2>2 DEF EvidenceOf, TurnsTo
    <3>3. ASSUME NEW m \in Machines PROVE EvidenceAt(m)'
      BY <1>0, <1>1, <2>0, <2>2, MachineStays
    <3>4. QED BY <3>1, <3>2, <3>3 DEF EvidenceInv
  <2>3. QED BY <1>18, <2>1, <2>2, AppendMoves
<1>19. ASSUME NEW m \in Machines, GovernorRestarts(m) PROVE EvidenceInv'
  <2>1. /\ UNCHANGED evidence /\ importing'[m] = {}
        /\ \A n \in Machines : n # m => importing'[n] = importing[n]
    BY <1>19 DEF GovernorRestarts, CutoverShape, EvidenceShape
  <2>2. ASSUME NEW h \in Gestures PROVE EvidenceOf(h)'
    <3>1. CASE gesture'[h].at = "done"
      BY <3>1 DEF EvidenceOf
    <3>2. ASSUME gesture'[h] = gesture[h], does[h].m # m \/ gesture[h].at = "ready" PROVE EvidenceOf(h)'
      BY <1>0, <1>1, <1>2, <2>1, <3>2, EvidenceStays
    <3>3. QED BY <1>19, <3>1, <3>2, RestartMoves
  <2>3. \A n \in Machines : \A h \in marker'[n].by : h \in Gestures /\ Known(h)
    <3>1. \A n \in Machines : marker'[n] = marker[n] \/ marker'[n].by = {}
      <4>1. \/ marker' = [marker EXCEPT ![m] = TornMarker]
            \/ marker' = marker
        BY <1>19 DEF GovernorRestarts
      <4>2. QED BY <4>1 DEF CutoverShape, MarkerShape, TornMarker, NoMarker
    <3>2. QED BY <1>1, <3>1
  <2>4. ASSUME NEW n \in Machines PROVE EvidenceAt(n)'
    <3>1. importing'[n] \subseteq importing[n]
      BY <2>1
    <3>2. QED BY <1>0, <1>1, <2>1, <2>3, <3>1, MachineStays
  <2>5. QED BY <2>2, <2>4 DEF EvidenceInv
<1>20. CASE UNCHANGED cvars
  BY <1>1, <1>5, <1>20 DEF cvars
<1>21. QED BY <1>6, <1>7, <1>8, <1>9, <1>10, <1>11, <1>12, <1>13, <1>14, <1>15, <1>16, <1>17, <1>18, <1>19,
              <1>20 DEF CutoverNext

-----------------------------------------------------------------------------
CutoverInv == CutoverShape /\ RecordInv /\ GuardInv /\ EvidenceInv

LEMMA CutoverInvSafe == CutoverInv => CutoverSafe
<1> SUFFICES ASSUME CutoverInv PROVE CutoverSafe
  OBVIOUS
<1>1. CutoverTypeOK
  BY DEF CutoverInv, CutoverShape, MarkerShape, EvidenceShape, MarkerRec, CutoverTypeOK
<1>2. GuardFollows
  BY GuardGuards DEF CutoverInv
<1>3. EvidenceCurrent
  BY DEF CutoverInv, EvidenceInv, EvidenceAt, Known, EvidenceCurrent
<1>4. QED BY <1>1, <1>2, <1>3 DEF CutoverInv, RecordInv, RecordKept, CutoverSafe

(***************************************************************************)
(* However gestures, looks, restarts, tears and sync interleave on any     *)
(* number of machines: where the marker says that the chain is the         *)
(* authority the legacy writers are refused, what had landed is in the     *)
(* evidence once, and no gesture undoes a record it did not read.          *)
(***************************************************************************)
THEOREM CutoverIsSafe == CutoverSpec => []CutoverSafe
<1>1. CutoverInit => CutoverInv
  BY ShapeInit, RecordInit, GuardInit, EvidenceInit DEF CutoverInv
<1>2. CutoverInv /\ [CutoverNext]_cvars => CutoverInv'
  BY ShapeStep, RecordStep, GuardStep, EvidenceStep DEF CutoverInv
<1>3. QED BY <1>1, <1>2, CutoverInvSafe, PTL DEF CutoverSpec

-----------------------------------------------------------------------------
(***************************************************************************)
(* The mandates.  What the log, its cache and the calls are; an event      *)
(* never brings a mandate back.                                            *)
(***************************************************************************)
Ended     == {"superseded", "revoked", "exhausted"}
LogEvents == [kind : {"drafted", "declined"}, of : Drafts, draft : {0}, over : {0}] \cup
             [kind : {"activated"}, of : MandateIds, draft : Drafts, over : MandateIds \cup {0}] \cup
             [kind : {"usage", "revoked", "exhausted"}, of : MandateIds, draft : {0}, over : {0}]
Stages    == {"idle", "cold", "read", "look", "grant", "stamped", "queued", "landed", "failed",
              "attach", "observe", "uncharged", "refused", "done"}
CallRecs  == [verb : {"draft", "decline", "activate", "revoke", "write"}, at : Stages, on : Nat,
              ev : LogEvents \cup {Event("none", 0)}, array : Nat, seen : SUBSET Folds,
              gone : BOOLEAN, beside : Nat, rivals : SUBSET Verbs]

\* What a call asks for is there to be asked for, and what it waits to say is an event.
CallOK(v) ==
  /\ v.verb \in {"draft", "decline", "activate"} => v.on \in Drafts
  /\ v.verb = "revoke" => v.on \in MandateIds
  /\ v.at \in {"attach", "grant"} => v.verb = "activate"
  /\ v.at \in {"stamped", "observe"} => v.verb = "write" /\ v.on \in MandateIds
  /\ v.at \in {"grant", "queued", "landed"} =>
       v.ev \in LogEvents /\ (v.ev.kind = "usage" => v.verb = "write" /\ v.on \in MandateIds)
  /\ v.at = "read" => v.seen # {} /\ \A s, t \in v.seen : s = t

MandateInv ==
  /\ mandateLog \in Folds /\ lines \subseteq Folds /\ \A s, t \in lines : s = t
  /\ arrays \in Nat /\ governing \in MandateIds \cup {0}
  /\ verbs \in [Verbs -> CallRecs] /\ sending \in Seq(Verbs)
  /\ \A i, j \in DOMAIN sending : i # j => sending[i] # sending[j]
  /\ \A i \in DOMAIN sending : verbs[sending[i]].at = "queued"
  /\ \A c \in Verbs : verbs[c].at = "queued" => \E i \in DOMAIN sending : sending[i] = c
  /\ lapsed \subseteq MandateIds /\ refusals \subseteq Verbs
  /\ \A c \in Verbs : CallOK(verbs[c]) /\ (lines = {} => verbs[c].at \in {"idle", "cold", "read"})

-----------------------------------------------------------------------------
\* What has ended in s has ended in t, in the same way or by a revocation.
StayEnded(s, t) ==
  \A m \in MandateIds : s.grant[m].status \in Ended => t.grant[m].status \in {s.grant[m].status, "revoked"}

LEMMA ClosedDraft ==
  ASSUME NEW s \in Folds, NEW d \in Drafts \cup {0}, NEW to \in {"declined", "superseded", "activated"}
  PROVE  CloseDraft(s, d, to) \in Folds /\ CloseDraft(s, d, to).grant = s.grant
BY MandateAssumption DEF CloseDraft, Folds

LEMMA EndedGrant ==
  ASSUME NEW s \in Folds, NEW m \in MandateIds \cup {0}, NEW to \in Ended
  PROVE  End(s, m, to) \in Folds /\ StayEnded(s, End(s, m, to))
<1>1. CASE m # 0 /\ s.grant[m].status = "active"
  <2>1. m \in MandateIds
    BY <1>1
  <2>2. PICK t : t = [s EXCEPT !.grant[m].status = to]
    OBVIOUS
  <2>3. /\ t \in Folds /\ t.grant[m].status = to
        /\ \A n \in MandateIds \ {m} : t.grant[n] = s.grant[n]
    BY <2>1, <2>2, SMTT(60) DEF Folds, Ended
  <2>4. End(s, m, to) = t
    BY <1>1, <2>2 DEF End
  <2>5. QED BY <1>1, <2>3, <2>4 DEF StayEnded, Ended
<1>2. CASE ~(m # 0 /\ s.grant[m].status = "active")
  BY <1>2 DEF End, StayEnded
<1>3. QED BY <1>1, <1>2

\* One line of the log leaves it one, and what has ended stays so.
LEMMA ApplyKeeps ==
  ASSUME NEW s \in Folds, NEW e \in LogEvents
  PROVE  Apply(s, e) \in Folds /\ StayEnded(s, Apply(s, e))
<1>1. StayEnded(s, s)
  BY DEF StayEnded
<1>2. CASE e.kind = "drafted"
  <2>1. e.of \in Drafts /\ CounterOf[e.of] \in Drafts \cup {0}
    BY <1>2, MandateAssumption DEF LogEvents
  <2>2. CASE s.draft[e.of] = "none"
    <3>1. PICK t : t = [s EXCEPT !.draft[e.of] = "open"]
      OBVIOUS
    <3>2. t \in Folds /\ t.grant = s.grant
      BY <2>1, <3>1 DEF Folds
    <3>3. Apply(s, e) = CloseDraft(t, CounterOf[e.of], "superseded")
      BY <1>2, <2>2, <3>1 DEF Apply
    <3>4. Apply(s, e) \in Folds /\ Apply(s, e).grant = s.grant
      <4>1. PICK d \in Drafts \cup {0} : d = CounterOf[e.of]
        BY <2>1
      <4>2. CloseDraft(t, d, "superseded") \in Folds /\ CloseDraft(t, d, "superseded").grant = t.grant
        BY <3>2, ClosedDraft
      <4>3. QED BY <3>2, <3>3, <4>1, <4>2
    <3>5. QED BY <3>4 DEF StayEnded
  <2>3. CASE s.draft[e.of] # "none"
    BY <1>1, <1>2, <2>3 DEF Apply
  <2>4. QED BY <2>2, <2>3
<1>3. CASE e.kind = "declined"
  <2>1. e.of \in Drafts /\ Apply(s, e) = CloseDraft(s, e.of, "declined")
    BY <1>3 DEF LogEvents, Apply
  <2>2. Apply(s, e) \in Folds /\ Apply(s, e).grant = s.grant
    BY <2>1, ClosedDraft
  <2>3. QED BY <2>2 DEF StayEnded
<1>4. CASE e.kind = "activated"
  <2>1. e.of \in MandateIds /\ e.draft \in Drafts /\ e.over \in MandateIds \cup {0}
    BY <1>4 DEF LogEvents
  <2>2. CASE s.grant[e.of].status = "none"
    <3>1. PICK t : t = [s EXCEPT !.grant[e.of] = [status |-> "active", draft |-> e.draft]]
      OBVIOUS
    <3>2. t \in Folds /\ \A m \in MandateIds \ {e.of} : t.grant[m] = s.grant[m]
      BY <2>1, <3>1 DEF Folds
    <3>3. PICK u : u = CloseDraft(t, e.draft, "activated")
      OBVIOUS
    <3>4. u \in Folds /\ u.grant = t.grant
      BY <2>1, <3>2, <3>3, ClosedDraft
    <3>5. Apply(s, e) = End(u, e.over, "superseded")
      BY <1>4, <2>2, <3>1, <3>3 DEF Apply
    <3>6. Apply(s, e) \in Folds /\ StayEnded(u, Apply(s, e))
      BY <2>1, <3>4, <3>5, EndedGrant DEF Ended
    <3>7. QED BY <2>2, <3>2, <3>4, <3>6 DEF StayEnded, Ended
  <2>3. CASE s.grant[e.of].status # "none"
    BY <1>1, <1>4, <2>3 DEF Apply
  <2>4. QED BY <2>2, <2>3
<1>5. CASE e.kind = "usage"
  <2>1. e.of \in MandateIds
    BY <1>5 DEF LogEvents
  <2>2. CASE s.grant[e.of].status # "none"
    <3>1. PICK t : t = [s EXCEPT !.used[e.of] = s.used[e.of] + 1]
      OBVIOUS
    <3>2. t \in Folds /\ t.grant = s.grant
      BY <2>1, <3>1, SMTT(60) DEF Folds
    <3>3. Apply(s, e) = t
      BY <1>5, <2>2, <3>1 DEF Apply
    <3>4. QED BY <3>2, <3>3 DEF StayEnded
  <2>3. CASE s.grant[e.of].status = "none"
    BY <1>1, <1>5, <2>3 DEF Apply
  <2>4. QED BY <2>2, <2>3
<1>6. CASE e.kind = "revoked"
  <2>1. e.of \in MandateIds
    BY <1>6 DEF LogEvents
  <2>2. CASE s.grant[e.of].status # "none"
    <3>1. PICK t : t = [s EXCEPT !.grant[e.of].status = "revoked"]
      OBVIOUS
    <3>2. /\ t \in Folds /\ t.grant[e.of].status = "revoked"
          /\ \A n \in MandateIds \ {e.of} : t.grant[n] = s.grant[n]
      BY <2>1, <3>1, SMTT(60) DEF Folds
    <3>3. Apply(s, e) = t
      BY <1>6, <2>2, <3>1 DEF Apply
    <3>4. QED BY <3>2, <3>3 DEF StayEnded
  <2>3. CASE s.grant[e.of].status = "none"
    BY <1>1, <1>6, <2>3 DEF Apply
  <2>4. QED BY <2>2, <2>3
<1>7. CASE e.kind = "exhausted"
  <2>1. e.of \in MandateIds /\ Apply(s, e) = End(s, e.of, "exhausted")
    BY <1>7 DEF LogEvents, Apply
  <2>2. QED BY <2>1, EndedGrant DEF Ended
<1>8. QED BY <1>2, <1>3, <1>4, <1>5, <1>6, <1>7 DEF LogEvents

-----------------------------------------------------------------------------
LEMMA MandateInvInit == MandatesInit => MandateInv
<1> SUFFICES ASSUME MandatesInit PROVE MandateInv
  OBVIOUS
<1>1. PICK s \in Starts :
        /\ mandateLog = Fold(s.log) /\ governing = s.bound
        /\ verbs = [c \in Verbs |-> [FreshVerb EXCEPT !.verb = s.ask[c][1], !.on = s.ask[c][2]]]
  BY DEF MandatesInit
<1>2. mandateLog \in Folds /\ governing \in MandateIds \cup {0}
  BY <1>1, StartAssumption
<1>3. ASSUME NEW c \in Verbs
      PROVE  verbs[c] \in CallRecs /\ CallOK(verbs[c]) /\ verbs[c].at = "idle"
  <2>1. PICK k, n : k = s.ask[c][1] /\ n = s.ask[c][2]
    OBVIOUS
  <2>2. \/ k \in {"draft", "decline", "activate"} /\ n \in Drafts
        \/ k = "revoke" /\ n \in MandateIds
        \/ k = "write" /\ n = 0
    BY <2>1, StartAssumption
  <2>3. n \in Nat
    BY <2>2, MandateAssumption DEF MandateIds
  <2>4. verbs[c] = [verb |-> k, at |-> "idle", on |-> n, ev |-> Event("none", 0), array |-> 0,
                    seen |-> {}, gone |-> FALSE, beside |-> 0, rivals |-> {}]
    BY <1>1, <2>1 DEF FreshVerb
  <2>5. verbs[c] \in CallRecs
    BY <2>2, <2>3, <2>4 DEF CallRecs, Stages
  <2>6. QED BY <2>2, <2>4, <2>5 DEF CallOK
<1>4. verbs \in [Verbs -> CallRecs]
  BY <1>1, <1>3
<1>5. lines = {} /\ arrays \in Nat /\ sending = <<>> /\ lapsed = {} /\ refusals = {}
  BY DEF MandatesInit
<1>6. sending \in Seq(Verbs) /\ DOMAIN sending = {}
  BY <1>5
<1>7. QED BY <1>2, <1>3, <1>4, <1>5, <1>6 DEF MandateInv

\* A call goes on, and joins the chain of appends or leaves the chain alone.
LEMMA CallGoesOn ==
  ASSUME MandateInv, NEW c \in Verbs, verbs[c].at # "queued",
         NEW v \in CallRecs, verbs' = [verbs EXCEPT ![c] = v], CallOK(v),
         mandateLog' = mandateLog, governing' \in MandateIds \cup {0}, arrays' \in Nat,
         lines' \subseteq Folds, \A s, t \in lines' : s = t, lines # {} => lines' # {},
         lines' = {} => v.at \in {"idle", "cold", "read"},
         lapsed' \subseteq MandateIds, refusals' \subseteq Verbs,
         (sending' = sending /\ v.at # "queued") \/ (sending' = Append(sending, c) /\ v.at = "queued")
  PROVE  MandateInv'
<1>1. /\ verbs \in [Verbs -> CallRecs] /\ sending \in Seq(Verbs)
      /\ \A i, j \in DOMAIN sending : i # j => sending[i] # sending[j]
      /\ \A i \in DOMAIN sending : verbs[sending[i]].at = "queued"
      /\ \A b \in Verbs : verbs[b].at = "queued" => \E i \in DOMAIN sending : sending[i] = b
      /\ \A b \in Verbs : CallOK(verbs[b]) /\ (lines = {} => verbs[b].at \in {"idle", "cold", "read"})
  BY DEF MandateInv
<1>2. verbs' \in [Verbs -> CallRecs] /\ verbs'[c] = v /\ \A b \in Verbs \ {c} : verbs'[b] = verbs[b]
  BY <1>1
<1>3. \A i \in DOMAIN sending : sending[i] \in Verbs \ {c}
  BY <1>1
<1>4. ASSUME NEW b \in Verbs PROVE CallOK(verbs'[b]) /\ (lines' = {} => verbs'[b].at \in {"idle", "cold", "read"})
  <2>1. CASE b = c
    BY <1>2, <2>1
  <2>2. CASE b # c
    BY <1>1, <1>2, <2>2
  <2>3. QED BY <2>1, <2>2
<1>5. /\ sending' \in Seq(Verbs)
      /\ \A i, j \in DOMAIN sending' : i # j => sending'[i] # sending'[j]
      /\ \A i \in DOMAIN sending' : verbs'[sending'[i]].at = "queued"
      /\ \A b \in Verbs : verbs'[b].at = "queued" => \E i \in DOMAIN sending' : sending'[i] = b
  <2>1. CASE sending' = sending /\ v.at # "queued"
    BY <1>1, <1>2, <1>3, <2>1
  <2>2. CASE sending' = Append(sending, c) /\ v.at = "queued"
    <3>1. sending' \in Seq(Verbs) /\ \A i \in DOMAIN sending' :
            \/ i \in DOMAIN sending /\ sending'[i] = sending[i]
            \/ i = Len(sending) + 1 /\ sending'[i] = c
      BY <1>1, <2>2
    <3>2. ASSUME NEW i \in DOMAIN sending', NEW j \in DOMAIN sending', i # j PROVE sending'[i] # sending'[j]
      BY <1>1, <1>3, <3>1, <3>2
    <3>3. ASSUME NEW i \in DOMAIN sending' PROVE verbs'[sending'[i]].at = "queued"
      BY <1>1, <1>2, <1>3, <2>2, <3>1
    <3>4. ASSUME NEW b \in Verbs, verbs'[b].at = "queued" PROVE \E i \in DOMAIN sending' : sending'[i] = b
      <4>1. \A i \in DOMAIN sending : i \in DOMAIN sending' /\ sending'[i] = sending[i]
        BY <1>1, <2>2
      <4>2. Len(sending) + 1 \in DOMAIN sending' /\ sending'[Len(sending) + 1] = c
        BY <1>1, <2>2
      <4>3. QED BY <1>1, <1>2, <3>4, <4>1, <4>2
    <3>5. QED BY <3>1, <3>2, <3>3, <3>4
  <2>3. QED BY <2>1, <2>2
<1>6. QED BY <1>2, <1>4, <1>5 DEF MandateInv

\* It goes to another stage and does nothing else.
LEMMA GoToKeeps ==
  ASSUME MandateInv, NEW c \in Verbs, verbs[c].at # "queued",
         NEW at \in {"cold", "look", "refused", "uncharged", "done"}, GoTo(c, at),
         lines = {} => at = "cold"
  PROVE  MandateInv' /\ UNCHANGED <<mandateLog, lines, arrays>>
<1>1. PICK v : v = [verbs[c] EXCEPT !.at = at]
  OBVIOUS
<1>2. verbs[c] \in CallRecs /\ CallOK(verbs[c])
  BY DEF MandateInv
<1>3. v \in CallRecs /\ v.at = at /\ v.verb = verbs[c].verb /\ v.on = verbs[c].on
  BY <1>1, <1>2 DEF CallRecs, Stages
<1>4. CallOK(v)
  BY <1>2, <1>3 DEF CallOK
<1>5. verbs' = [verbs EXCEPT ![c] = v] /\ UNCHANGED <<mandateLog, lines, arrays, governing, sending, lapsed, refusals>>
  BY <1>1 DEF GoTo, StoreSame
<1>6. QED BY <1>3, <1>4, <1>5, CallGoesOn DEF MandateInv

\* It hands a line to the chain.
LEMMA EnqueueKeeps ==
  ASSUME MandateInv, NEW c \in Verbs, verbs[c].at \notin {"queued", "idle", "cold", "read"},
         NEW ev \in LogEvents, Enqueue(c, ev),
         ev.kind = "usage" => verbs[c].verb = "write" /\ verbs[c].on \in MandateIds
  PROVE  MandateInv' /\ UNCHANGED <<mandateLog, lines, arrays>>
<1>1. PICK v : v = [verbs[c] EXCEPT !.at = "queued", !.ev = ev, !.array = arrays]
  OBVIOUS
<1>2. verbs[c] \in CallRecs /\ CallOK(verbs[c]) /\ arrays \in Nat /\ lines # {}
  BY DEF MandateInv
<1>3. v \in CallRecs /\ v.at = "queued" /\ v.verb = verbs[c].verb /\ v.on = verbs[c].on /\ v.ev = ev
  BY <1>1, <1>2 DEF CallRecs, Stages
<1>4. CallOK(v)
  BY <1>2, <1>3 DEF CallOK
<1>5. /\ verbs' = [verbs EXCEPT ![c] = v] /\ UNCHANGED <<mandateLog, lines, arrays, governing, lapsed, refusals>>
      /\ sending' = Append(sending, c)
  BY <1>1 DEF Enqueue, StoreSame
<1>6. QED BY <1>2, <1>3, <1>4, <1>5, CallGoesOn DEF MandateInv

LEMMA ReplacedIsOne ==
  ASSUME NEW s, NEW d
  PROVE  Replaced(s, d) \in MandateIds \cup {0}
<1>1. Nearest(s, d) \subseteq MandateIds
  BY DEF Nearest, Grants
<1>2. QED BY <1>1 DEF Replaced

\* The steps of a call.
LEMMA VerbStep ==
  ASSUME MandateInv, NEW c \in Verbs,
         \/ BeginCall(c) \/ ReadFile(c) \/ AppendEvent(c) \/ LookUp(c) \/ Grant(c)
         \/ Stamp(c) \/ Unrecorded(c) \/ Charge(c) \/ Observe(c)
  PROVE  MandateInv' /\ UNCHANGED <<mandateLog, lines, arrays>>
<1>1. verbs[c] \in CallRecs /\ CallOK(verbs[c]) /\ (lines = {} => verbs[c].at \in {"idle", "cold", "read"})
  BY DEF MandateInv
<1>2. CASE BeginCall(c)
  <2>1. PICK at \in {"cold", "look"} : GoTo(c, at) /\ (lines = {} => at = "cold")
    BY <1>2 DEF BeginCall
  <2>2. QED BY <1>2, <2>1, GoToKeeps DEF BeginCall
<1>3. CASE ReadFile(c)
  <2>1. PICK v : v = [verbs[c] EXCEPT !.at = "read", !.seen = {mandateLog}]
    OBVIOUS
  <2>2. v \in CallRecs /\ v.at = "read" /\ v.verb = verbs[c].verb /\ v.on = verbs[c].on /\ v.seen = {mandateLog}
    BY <1>1, <2>1 DEF CallRecs, Stages, MandateInv
  <2>3. CallOK(v)
    BY <1>1, <2>2 DEF CallOK
  <2>4. verbs' = [verbs EXCEPT ![c] = v] /\ UNCHANGED <<mandateLog, lines, arrays, governing, sending, lapsed, refusals>>
    BY <1>3, <2>1 DEF ReadFile, StoreSame
  <2>5. verbs[c].at # "queued"
    BY <1>3 DEF ReadFile
  <2>6. QED BY <2>2, <2>3, <2>4, <2>5, CallGoesOn DEF MandateInv
<1>4. CASE AppendEvent(c)
  <2>1. verbs[c].at = "look" /\ lines # {}
    BY <1>1, <1>4 DEF AppendEvent
  <2>2. ASSUME GoTo(c, "refused") PROVE MandateInv' /\ UNCHANGED <<mandateLog, lines, arrays>>
    BY <2>1, <2>2, GoToKeeps
  <2>3. ASSUME NEW k \in {"drafted", "declined"}, Enqueue(c, Event(k, verbs[c].on)), verbs[c].on \in Drafts
        PROVE  MandateInv' /\ UNCHANGED <<mandateLog, lines, arrays>>
    <3>1. PICK ev : ev = Event(k, verbs[c].on)
      OBVIOUS
    <3>2. ev \in LogEvents /\ ev.kind # "usage"
      BY <2>3, <3>1 DEF Event, LogEvents
    <3>3. QED BY <2>1, <2>3, <3>1, <3>2, EnqueueKeeps
  <2>4. ASSUME Enqueue(c, Event("revoked", verbs[c].on)), verbs[c].on \in MandateIds
        PROVE  MandateInv' /\ UNCHANGED <<mandateLog, lines, arrays>>
    <3>1. PICK ev : ev = Event("revoked", verbs[c].on)
      OBVIOUS
    <3>2. ev \in LogEvents /\ ev.kind # "usage"
      BY <2>4, <3>1 DEF Event, LogEvents
    <3>3. QED BY <2>1, <2>4, <3>1, <3>2, EnqueueKeeps
  <2>5. QED BY <1>1, <1>4, <2>2, <2>3, <2>4 DEF AppendEvent, CallOK
<1>5. CASE LookUp(c)
  <2>1. verbs[c].at = "look" /\ lines # {} /\ verbs[c].verb = "activate" /\ verbs[c].on \in Drafts
    BY <1>1, <1>5 DEF LookUp, CallOK
  <2>2. CASE GoTo(c, "refused")
    BY <2>1, <2>2, GoToKeeps
  <2>3. ASSUME NEW ev, ev = Activated(c, verbs[c].on, Replaced(Seen, verbs[c].on)), NEW b \in SUBSET Verbs,
               verbs' = [verbs EXCEPT ![c].at = "grant", ![c].ev = ev, ![c].rivals = b],
               StoreSame, UNCHANGED sending
        PROVE  MandateInv' /\ UNCHANGED <<mandateLog, lines, arrays>>
    <3>1. ev \in LogEvents /\ ev.kind = "activated"
      <4>1. PICK o \in MandateIds \cup {0} : o = Replaced(Seen, verbs[c].on)
        BY ReplacedIsOne
      <4>2. QED BY <2>1, <2>3, <4>1 DEF Activated, LogEvents, MandateIds
    <3>2. PICK v : v = [verbs[c] EXCEPT !.at = "grant", !.ev = ev, !.rivals = b]
      OBVIOUS
    <3>3. v \in CallRecs /\ v.at = "grant" /\ v.verb = verbs[c].verb /\ v.on = verbs[c].on /\ v.ev = ev
      BY <1>1, <3>1, <3>2 DEF CallRecs, Stages
    <3>4. CallOK(v)
      BY <1>1, <2>1, <3>1, <3>3 DEF CallOK
    <3>5. verbs' = [verbs EXCEPT ![c] = v] /\ UNCHANGED <<mandateLog, lines, arrays, governing, sending, lapsed, refusals>>
      BY <2>3, <3>2 DEF StoreSame
    <3>6. QED BY <2>1, <3>3, <3>4, <3>5, CallGoesOn DEF MandateInv
  <2>4. PICK b \in SUBSET Verbs :
          b = {x \in Verbs : /\ verbs[x].verb = "activate" /\ verbs[x].at \in {"grant", "queued", "landed"}
                              /\ Related(verbs[c].on, verbs[x].on)}
    OBVIOUS
  <2>5. QED BY <1>5, <2>2, <2>3, <2>4 DEF LookUp
<1>6. CASE Grant(c)
  <2>1. verbs[c].at = "grant" /\ lines # {} /\ verbs[c].ev \in LogEvents
        /\ (verbs[c].ev.kind = "usage" => verbs[c].verb = "write" /\ verbs[c].on \in MandateIds)
    BY <1>1, <1>6 DEF Grant, CallOK
  <2>2. GoTo(c, "refused") \/ Enqueue(c, verbs[c].ev)
    BY <1>6 DEF Grant
  <2>3. QED BY <2>1, <2>2, GoToKeeps, EnqueueKeeps
<1>7. CASE Stamp(c)
  <2>1. verbs[c].at = "look" /\ lines # {} /\ verbs[c].verb = "write"
    BY <1>1, <1>7 DEF Stamp
  <2>2. CASE ~Fits(Seen, governing)
    <3>1. GoTo(c, "refused")
      BY <1>7, <2>2 DEF Stamp
    <3>2. QED BY <2>1, <3>1, GoToKeeps
  <2>3. CASE Fits(Seen, governing)
    <3>1. governing \in MandateIds
      BY <2>3 DEF Fits, MandateInv
    <3>2. PICK u : u \in BOOLEAN /\ u = \E r \in Verbs : verbs[r].verb = "revoke" /\ verbs[r].on = governing
                                                       /\ verbs[r].at = "done"
      OBVIOUS
    <3>3. PICK S \in SUBSET Verbs :
            S = {b \in Verbs : verbs[b].verb = "write" /\ verbs[b].on = governing
                                 /\ verbs[b].at \in {"stamped", "queued", "landed"}}
      OBVIOUS
    <3>4. Cardinality(S) \in Nat
      BY MandateAssumption, FS_Subset, FS_CardinalityType
    <3>5. PICK v : v = [verbs[c] EXCEPT !.at = "stamped", !.on = governing, !.gone = u, !.beside = Cardinality(S)]
      OBVIOUS
    <3>6. /\ verbs' = [verbs EXCEPT ![c] = v] /\ UNCHANGED <<mandateLog, lines, arrays, governing, sending, lapsed, refusals>>
      <4>1. /\ verbs' = [verbs EXCEPT ![c].at = "stamped", ![c].on = governing, ![c].gone = u,
                                     ![c].beside = Cardinality(S)]
            /\ StoreSame /\ UNCHANGED sending
        BY <1>7, <2>3, <3>2, <3>3, Zenon DEF Stamp
      <4>2. QED BY <3>5, <4>1 DEF StoreSame
    <3>7. governing \in Nat
      BY <3>1, MandateAssumption DEF MandateIds
    <3>8. v \in CallRecs /\ v.at = "stamped" /\ v.verb = verbs[c].verb /\ v.on = governing
      BY <1>1, <3>2, <3>4, <3>5, <3>7 DEF CallRecs, Stages
    <3>9. CallOK(v)
      BY <2>1, <3>1, <3>8 DEF CallOK
    <3>10. QED BY <2>1, <3>6, <3>8, <3>9, CallGoesOn DEF MandateInv
  <2>4. QED BY <2>2, <2>3
<1>8. CASE Unrecorded(c)
  <2>1. verbs[c].at = "stamped" /\ lines # {} /\ GoTo(c, "refused")
    BY <1>1, <1>8 DEF Unrecorded
  <2>2. QED BY <2>1, GoToKeeps
<1>9. CASE Charge(c)
  <2>1. verbs[c].at = "stamped" /\ lines # {} /\ verbs[c].verb = "write" /\ verbs[c].on \in MandateIds
    BY <1>1, <1>9 DEF Charge, CallOK
  <2>2. PICK ev : ev = Event("usage", verbs[c].on)
    OBVIOUS
  <2>3. ev \in LogEvents
    BY <2>1, <2>2 DEF Event, LogEvents
  <2>4. GoTo(c, "uncharged") \/ Enqueue(c, ev)
    BY <1>9, <2>2 DEF Charge
  <2>5. QED BY <2>1, <2>3, <2>4, GoToKeeps, EnqueueKeeps
<1>10. CASE Observe(c)
  <2>1. verbs[c].at = "observe" /\ lines # {} /\ verbs[c].on \in MandateIds
    BY <1>1, <1>10 DEF Observe, CallOK
  <2>2. PICK ev : ev = Event("exhausted", verbs[c].on)
    OBVIOUS
  <2>3. ev \in LogEvents /\ ev.kind # "usage"
    BY <2>1, <2>2 DEF Event, LogEvents
  <2>4. GoTo(c, "done") \/ Enqueue(c, ev)
    BY <1>10, <2>2 DEF Observe
  <2>5. QED BY <2>1, <2>3, <2>4, GoToKeeps, EnqueueKeeps
<1>11. QED BY <1>2, <1>3, <1>4, <1>5, <1>6, <1>7, <1>8, <1>9, <1>10

\* What was read becomes the cache; what landed joins it.
LEMMA CacheStep ==
  ASSUME MandateInv, NEW c \in Verbs, FillCache(c) \/ PushLine(c)
  PROVE  /\ MandateInv' /\ mandateLog' = mandateLog
         /\ lines # {} /\ arrays' = arrays => StayEnded(Seen, Seen')
<1>1. verbs[c] \in CallRecs /\ CallOK(verbs[c]) /\ (lines = {} => verbs[c].at \in {"idle", "cold", "read"})
  BY DEF MandateInv
<1>2. CASE FillCache(c)
  <2>1. PICK v : v = [verbs[c] EXCEPT !.at = "look", !.seen = {}]
    OBVIOUS
  <2>2. v \in CallRecs /\ v.at = "look" /\ v.verb = verbs[c].verb /\ v.on = verbs[c].on
    BY <1>1, <2>1 DEF CallRecs, Stages
  <2>3. CallOK(v)
    BY <1>1, <2>2 DEF CallOK
  <2>4. /\ verbs' = [verbs EXCEPT ![c] = v] /\ UNCHANGED <<mandateLog, governing, sending, lapsed, refusals>>
        /\ arrays' = arrays + 1 /\ lines' = verbs[c].seen /\ verbs[c].at = "read"
    BY <1>2, <2>1 DEF FillCache
  <2>5. lines' # {} /\ lines' \subseteq Folds /\ \A s, t \in lines' : s = t
    BY <1>1, <2>4 DEF CallOK, CallRecs
  <2>6. arrays \in Nat /\ governing \in MandateIds \cup {0}
    BY DEF MandateInv
  <2>7. /\ verbs[c].at # "queued" /\ arrays' \in Nat /\ governing' \in MandateIds \cup {0}
        /\ mandateLog' = mandateLog /\ sending' = sending
        /\ lapsed' \subseteq MandateIds /\ refusals' \subseteq Verbs
    BY <2>4, <2>6 DEF MandateInv
  <2>8. verbs' = [verbs EXCEPT ![c] = v]
    BY <2>4
  <2>9. MandateInv'
    BY <2>2, <2>3, <2>5, <2>7, <2>8, CallGoesOn
  <2>10. QED BY <2>4, <2>6, <2>9
<1>3. CASE PushLine(c)
  <2>1. verbs[c].at = "landed" /\ lines # {} /\ verbs[c].ev \in LogEvents
    BY <1>1, <1>3 DEF PushLine, CallOK
  <2>2. PICK v : v = [verbs[c] EXCEPT !.at = NextStage(c)]
    OBVIOUS
  <2>3. /\ NextStage(c) \in {"attach", "observe", "done"}
        /\ NextStage(c) = "observe" => verbs[c].ev.kind = "usage"
        /\ NextStage(c) = "attach" => verbs[c].verb = "activate"
    BY DEF NextStage
  <2>4. v \in CallRecs /\ v.at = NextStage(c) /\ v.verb = verbs[c].verb /\ v.on = verbs[c].on
    BY <1>1, <2>2, <2>3 DEF CallRecs, Stages
  <2>5. CallOK(v)
    BY <1>1, <2>1, <2>3, <2>4 DEF CallOK
  <2>6. PICK s \in Folds : s = Seen /\ lines = {s}
    BY <2>1 DEF Seen, MandateInv
  <2>7. PICK t : t = Apply(s, verbs[c].ev)
    OBVIOUS
  <2>8. t \in Folds /\ StayEnded(s, t) /\ StayEnded(s, s)
    BY <2>1, <2>7, ApplyKeeps DEF StayEnded
  <2>9. /\ verbs' = [verbs EXCEPT ![c] = v] /\ UNCHANGED <<mandateLog, governing, sending, arrays, lapsed, refusals>>
        /\ lines' = {t} \/ lines' = {s}
    BY <1>3, <2>2, <2>6, <2>7 DEF PushLine
  <2>10. PICK u \in {s, t} : lines' = {u}
    BY <2>9
  <2>11. /\ arrays \in Nat /\ governing \in MandateIds \cup {0}
         /\ lapsed \subseteq MandateIds /\ refusals \subseteq Verbs
    BY DEF MandateInv
  <2>12. lines' \subseteq Folds /\ (\A x, y \in lines' : x = y) /\ lines' # {}
    BY <2>8, <2>10
  <2>13. MandateInv'
    <3>1. /\ verbs[c].at # "queued" /\ v.at # "queued" /\ arrays' \in Nat /\ governing' \in MandateIds \cup {0}
          /\ mandateLog' = mandateLog /\ sending' = sending
          /\ lapsed' \subseteq MandateIds /\ refusals' \subseteq Verbs
      BY <2>1, <2>3, <2>4, <2>9, <2>11
    <3>2. verbs' = [verbs EXCEPT ![c] = v]
      BY <2>9
    <3>3. QED BY <2>4, <2>5, <2>12, <3>1, <3>2, CallGoesOn
  <2>14. Seen' = u
    BY <2>10 DEF Seen
  <2>15. QED BY <2>6, <2>8, <2>9, <2>10, <2>13, <2>14
<1>4. QED BY <1>2, <1>3

LEMMA AttachStep ==
  ASSUME MandateInv, NEW c \in Verbs, Attach(c)
  PROVE  MandateInv' /\ UNCHANGED <<mandateLog, lines, arrays>>
<1>1. verbs[c] \in CallRecs /\ CallOK(verbs[c]) /\ lines # {} /\ verbs[c].at = "attach"
  BY DEF MandateInv, Attach
<1>2. PICK v : v = [verbs[c] EXCEPT !.at = "done"]
  OBVIOUS
<1>3. v \in CallRecs /\ v.at = "done" /\ v.verb = verbs[c].verb /\ v.on = verbs[c].on
  BY <1>1, <1>2 DEF CallRecs, Stages
<1>4. CallOK(v)
  BY <1>1, <1>3 DEF CallOK
<1>5. verbs' = [verbs EXCEPT ![c] = v] /\ UNCHANGED <<mandateLog, lines, arrays, sending, lapsed, refusals>>
  BY <1>2 DEF Attach
<1>6. governing' \in MandateIds \cup {0}
  BY DEF Attach, MandateInv, MandateIds
<1>7. QED BY <1>1, <1>3, <1>4, <1>5, <1>6, CallGoesOn DEF MandateInv

\* The chain's next line lands or is refused.
LEMMA ChainStep ==
  ASSUME MandateInv, LineLands \/ LineFails
  PROVE  MandateInv' /\ UNCHANGED <<lines, arrays>> /\ StayEnded(mandateLog, mandateLog')
<1>1. PICK c : c = Head(sending)
  OBVIOUS
<1>2. PICK to \in {"landed", "failed"} :
        /\ verbs' = [verbs EXCEPT ![c].at = to] /\ sending # <<>> /\ sending' = Tail(sending)
        /\ UNCHANGED <<lines, arrays, governing, lapsed>> /\ refusals' \subseteq refusals \cup {c}
        /\ mandateLog' = mandateLog \/ mandateLog' = Apply(mandateLog, verbs[c].ev)
  BY <1>1 DEF LineLands, LineFails
<1>3. /\ verbs \in [Verbs -> CallRecs] /\ sending \in Seq(Verbs) /\ mandateLog \in Folds
      /\ \A i, j \in DOMAIN sending : i # j => sending[i] # sending[j]
      /\ \A i \in DOMAIN sending : verbs[sending[i]].at = "queued"
      /\ \A b \in Verbs : verbs[b].at = "queued" => \E i \in DOMAIN sending : sending[i] = b
      /\ lapsed \subseteq MandateIds /\ refusals \subseteq Verbs
      /\ \A b \in Verbs : CallOK(verbs[b]) /\ (lines = {} => verbs[b].at \in {"idle", "cold", "read"})
  BY DEF MandateInv
<1>4. 1 \in DOMAIN sending /\ c = sending[1] /\ c \in Verbs /\ verbs[c].at = "queued" /\ lines # {}
  BY <1>1, <1>2, <1>3
<1>5. mandateLog' \in Folds /\ StayEnded(mandateLog, mandateLog')
  <2>1. verbs[c].ev \in LogEvents
    BY <1>3, <1>4 DEF CallOK
  <2>2. Apply(mandateLog, verbs[c].ev) \in Folds /\ StayEnded(mandateLog, Apply(mandateLog, verbs[c].ev))
    BY <1>3, <2>1, ApplyKeeps
  <2>3. StayEnded(mandateLog, mandateLog)
    BY DEF StayEnded
  <2>4. QED BY <1>2, <1>3, <2>2, <2>3
<1>6. PICK v : v = [verbs[c] EXCEPT !.at = to]
  OBVIOUS
<1>7. v \in CallRecs /\ v.at = to /\ v.verb = verbs[c].verb /\ v.on = verbs[c].on /\ v.ev = verbs[c].ev
  <2>1. verbs[c] \in CallRecs
    BY <1>3, <1>4
  <2>2. QED BY <1>6, <2>1 DEF CallRecs, Stages
<1>8. CallOK(v)
  BY <1>3, <1>4, <1>7 DEF CallOK
<1>9. verbs' \in [Verbs -> CallRecs] /\ verbs'[c] = v /\ \A b \in Verbs \ {c} : verbs'[b] = verbs[b]
  BY <1>2, <1>3, <1>4, <1>6, <1>7
<1>10. ASSUME NEW b \in Verbs PROVE CallOK(verbs'[b])
  BY <1>3, <1>8, <1>9
<1>11. sending' \in Seq(Verbs) /\ \A i \in DOMAIN sending' :
         i + 1 \in DOMAIN sending /\ sending'[i] = sending[i + 1] /\ i + 1 # 1
  BY <1>2, <1>3
<1>12. ASSUME NEW i \in DOMAIN sending', NEW j \in DOMAIN sending', i # j PROVE sending'[i] # sending'[j]
  <2>1. i \in Nat /\ j \in Nat /\ i + 1 # j + 1
    BY <1>11, <1>12
  <2>2. QED BY <1>3, <1>11, <2>1
<1>13. ASSUME NEW i \in DOMAIN sending' PROVE verbs'[sending'[i]].at = "queued"
  <2>1. sending'[i] \in Verbs \ {c} /\ verbs[sending'[i]].at = "queued"
    BY <1>3, <1>4, <1>11
  <2>2. QED BY <1>9, <2>1
<1>14. ASSUME NEW b \in Verbs, verbs'[b].at = "queued" PROVE \E i \in DOMAIN sending' : sending'[i] = b
  <2>1. b # c /\ verbs[b].at = "queued"
    BY <1>2, <1>7, <1>9, <1>14
  <2>2. PICK i \in DOMAIN sending : sending[i] = b /\ i # 1
    BY <1>3, <1>4, <2>1
  <2>3. i - 1 \in DOMAIN sending' /\ sending'[i - 1] = b
    BY <1>2, <1>3, <2>2
  <2>4. QED BY <2>3
<1>15. lapsed' \subseteq MandateIds /\ refusals' \subseteq Verbs
  BY <1>2, <1>3, <1>4
<1>16. QED BY <1>2, <1>4, <1>5, <1>9, <1>10, <1>11, <1>12, <1>13, <1>14, <1>15 DEF MandateInv

\* What EndsForGood says of one step.
EndsKept ==
  \A m \in MandateIds :
    LET one(s, t) == /\ s.grant[m].status \notin {"none", "active"}
                     => t.grant[m].status \in {s.grant[m].status, "revoked"}
    IN one(mandateLog, mandateLog') /\ (lines # {} /\ arrays' = arrays => one(Seen, Seen'))

LEMMA KeptEnds ==
  ASSUME MandateInv, StayEnded(mandateLog, mandateLog'),
         lines # {} /\ arrays' = arrays => StayEnded(Seen, Seen')
  PROVE  EndsKept
<1>1. lines # {} => Seen \in Folds
  BY DEF Seen, MandateInv
<1>2. \A s \in Folds : \A m \in MandateIds :
        s.grant[m].status \notin {"none", "active"} => s.grant[m].status \in Ended
  BY DEF Folds, Ended
<1>3. QED BY <1>1, <1>2 DEF EndsKept, StayEnded, MandateInv

LEMMA MandateStep == MandateInv /\ [MandatesNext]_mvars => MandateInv' /\ EndsKept
<1> SUFFICES ASSUME MandateInv, [MandatesNext]_mvars PROVE MandateInv' /\ EndsKept
  OBVIOUS
<1>1. ASSUME MandateInv', UNCHANGED <<mandateLog, lines, arrays>> PROVE MandateInv' /\ EndsKept
  <2>1. Seen' = Seen
    BY <1>1 DEF Seen
  <2>2. StayEnded(mandateLog, mandateLog') /\ StayEnded(Seen, Seen')
    BY <1>1, <2>1 DEF StayEnded
  <2>3. QED BY <1>1, <2>2, KeptEnds
<1>2. ASSUME NEW c \in Verbs,
             \/ BeginCall(c) \/ ReadFile(c) \/ AppendEvent(c) \/ LookUp(c) \/ Grant(c)
             \/ Stamp(c) \/ Unrecorded(c) \/ Charge(c) \/ Observe(c)
      PROVE  MandateInv' /\ EndsKept
  BY <1>1, <1>2, VerbStep
<1>3. ASSUME NEW c \in Verbs, FillCache(c) \/ PushLine(c) PROVE MandateInv' /\ EndsKept
  <2>1. StayEnded(mandateLog, mandateLog')
    BY <1>3, CacheStep DEF StayEnded
  <2>2. QED BY <1>3, <2>1, CacheStep, KeptEnds
<1>4. ASSUME NEW c \in Verbs, Attach(c) PROVE MandateInv' /\ EndsKept
  BY <1>1, <1>4, AttachStep
<1>5. CASE LineLands \/ LineFails
  <2>1. Seen' = Seen
    BY <1>5, ChainStep DEF Seen
  <2>2. StayEnded(Seen, Seen')
    BY <2>1 DEF StayEnded
  <2>3. QED BY <1>5, <2>2, ChainStep, KeptEnds
<1>6. CASE Lapse \/ UNCHANGED mvars
  <2>1. /\ UNCHANGED <<mandateLog, lines, arrays, verbs, sending, governing, refusals>>
        /\ lapsed' \subseteq MandateIds \/ lapsed' = lapsed
    BY <1>6 DEF Lapse, mvars
  <2>2. MandateInv'
    BY <2>1 DEF MandateInv
  <2>3. QED BY <1>1, <2>1, <2>2
<1>7. QED BY <1>2, <1>3, <1>4, <1>5, <1>6 DEF MandatesNext

\* No event brings a mandate back (foldMandateEvents): what has ended is never
\* active again, in the file and in what the pane is shown, whatever lines are
\* appended, in what order, and whatever the disk refuses.
THEOREM EndedStaysEnded == MandatesSpec => EndsForGood
<1>1. MandateInv /\ [MandatesNext]_mvars => [EndsKept]_mvars
  BY MandateStep
<1>2. [][EndsKept]_mvars => EndsForGood
  BY DEF EndsKept, EndsForGood
<1>3. QED BY <1>1, <1>2, MandateInvInit, MandateStep, PTL DEF MandatesSpec

-----------------------------------------------------------------------------
(***************************************************************************)
(* While the cache is one array.  OrderInv: the log is the cache and the   *)
(* line that landed, and what a call found still holds when its line       *)
(* lands.  GrantInv: a call that grants replaces what its grant would      *)
(* stand beside.  BudgetInv: the charges, landed and to come, fit the      *)
(* budget and what was stamped beside the last stamp.                      *)
(***************************************************************************)
InView == IF lines = {} THEN mandateLog ELSE Seen
Onward == {"grant", "queued", "landed"}
Sent  == {"queued", "landed"}

Knows(s, c, v) ==
  /\ ~v.gone
  /\ v.at \in {"idle", "cold", "read", "look"} => v.rivals = {}
  /\ v.at \in Sent => v.array = 1
  /\ v.at \in Sent /\ v.verb = "draft" =>
       v.ev = Event("drafted", v.on) /\ (CounterOf[v.on] # 0 => s.draft[CounterOf[v.on]] # "none")
  /\ v.at \in Sent /\ v.verb = "decline" => v.ev = Event("declined", v.on)
  /\ v.at \in Onward /\ v.verb = "activate" =>
       v.ev.kind = "activated" /\ v.ev.of = c /\ v.ev.draft = v.on /\ s.draft[v.on] # "none"
  /\ v.at \in Sent /\ v.verb = "revoke" => v.ev = Event("revoked", v.on) /\ s.grant[v.on].status # "none"
  /\ v.at = "done" /\ v.verb = "revoke" => s.grant[v.on].status = "revoked"
  /\ v.at \in Sent /\ v.verb = "write" => v.ev \in {Event("usage", v.on), Event("exhausted", v.on)}

OrderInv ==
  /\ lines = {} <=> arrays = 0
  /\ Orderly(InView) /\ Orderly(mandateLog)
  /\ \A b, c \in Verbs : verbs[b].at = "landed" /\ verbs[c].at = "landed" => b = c
  /\ (\A c \in Verbs : verbs[c].at # "landed") => mandateLog = InView
  /\ \A c \in Verbs : verbs[c].at = "landed" => mandateLog = Apply(InView, verbs[c].ev)
  /\ \A c \in Verbs : Knows(InView, c, verbs[c])
  /\ \A c \in Verbs : verbs[c].at = "read" /\ arrays = 0 => verbs[c].seen = {mandateLog}

Older(d)  == Narrowed[d] \cup {d}
Granting(c) == verbs[c].verb = "activate" /\ verbs[c].at \in Onward

\* Of two grants of a negotiation that are active, the one on the older terms was beside another.
OneIn(s) ==
  \A m, n \in MandateIds :
    /\ m # n /\ s.grant[m].status = "active" /\ s.grant[n].status = "active"
    /\ s.grant[n].draft \in Older(s.grant[m].draft)
    => Beside(n)

RivalInv ==
  \A b, c \in Verbs :
    b # c /\ Granting(b) /\ Granting(c) /\ Related(verbs[b].on, verbs[c].on) =>
      c \in verbs[b].rivals \/ b \in verbs[c].rivals

PutsAside(s, b) ==
  \A m \in MandateIds \ {b} :
    s.grant[m].status = "active" =>
      /\ s.grant[m].draft \in Older(verbs[b].on) => m = verbs[b].ev.over \/ Beside(m)
      /\ verbs[b].on \in Older(s.grant[m].draft) => Beside(b)

GrantInv ==
  /\ RivalInv /\ OneIn(InView) /\ OneIn(mandateLog)
  /\ \A b \in Verbs : Granting(b) => PutsAside(InView, b)

\* A write that stamped, one whose charge may still land, and one that will look for the breach.
HasStamped(v)    == v.verb = "write" /\ v.at \notin {"idle", "cold", "read", "look"}
Charging(v) == v.verb = "write" /\ (v.at = "stamped" \/ (v.at = "queued" /\ v.ev.kind = "usage"))
Awaits(v)   == v.verb = "write" /\ v.at \in {"landed", "observe", "queued"}
Pending(m)  == {c \in Verbs : verbs[c].on = m /\ Charging(verbs[c])}

Within(m) ==
  \/ mandateLog.used[m] <= Cap /\ Pending(m) = {}
  \/ \E c \in Verbs : /\ verbs[c].on = m /\ HasStamped(verbs[c])
                      /\ mandateLog.used[m] + Cardinality(Pending(m)) <= Cap + verbs[c].beside

Spent(m) ==
  mandateLog.used[m] >= Cap /\ mandateLog.grant[m].status = "active" =>
    refusals # {} \/ \E c \in Verbs : verbs[c].on = m /\ Awaits(verbs[c])

BudgetInv == \A m \in MandateIds : Within(m) /\ Spent(m)

OneArrayInv == arrays <= 1 => OrderInv /\ GrantInv /\ BudgetInv

-----------------------------------------------------------------------------
\* What closing a draft, ending a grant and one line of the log leave alone.
CloseTo(s, d, to, t) ==
  /\ t \in Folds /\ t.grant = s.grant /\ t.used = s.used
  /\ \A x \in Drafts : t.draft[x] = s.draft[x] \/ (s.draft[x] = "open" /\ t.draft[x] = to)
  /\ d # 0 => t.draft[d] # "open"

LEMMA CloseSays ==
  ASSUME NEW s \in Folds, NEW d \in Drafts \cup {0}, NEW to \in {"declined", "superseded", "activated"}
  PROVE  CloseTo(s, d, to, CloseDraft(s, d, to))
<1> DEFINE t == CloseDraft(s, d, to)
<1>1. CASE d # 0 /\ s.draft[d] = "open"
  <2>1. t = [s EXCEPT !.draft[d] = to] /\ d \in Drafts
    BY <1>1 DEF CloseDraft
  <2>2. QED BY <1>1, <2>1 DEF Folds, CloseTo
<1>2. CASE ~(d # 0 /\ s.draft[d] = "open")
  BY <1>2 DEF CloseDraft, CloseTo
<1>3. QED BY <1>1, <1>2

EndTo(s, m, to, t) ==
  /\ t \in Folds /\ t.draft = s.draft /\ t.used = s.used
  /\ \A n \in MandateIds : t.grant[n].draft = s.grant[n].draft
  /\ \A n \in MandateIds : t.grant[n].status = s.grant[n].status
                           \/ (n = m /\ s.grant[n].status = "active" /\ t.grant[n].status = to)
  /\ m # 0 => t.grant[m].status # "active"

LEMMA EndSays ==
  ASSUME NEW s \in Folds, NEW m \in MandateIds \cup {0}, NEW to \in Ended
  PROVE  EndTo(s, m, to, End(s, m, to))
<1> DEFINE t == End(s, m, to)
<1>1. CASE m # 0 /\ s.grant[m].status = "active"
  <2>1. t = [s EXCEPT !.grant[m].status = to] /\ m \in MandateIds
    BY <1>1 DEF End
  <2> HIDE DEF t
  <2>2. t \in Folds /\ t.draft = s.draft /\ t.used = s.used
    <3>1. s.grant[m] \in [status : {"none", "active", "superseded", "revoked", "exhausted"}, draft : Drafts \cup {0}]
      BY <2>1 DEF Folds
    <3>2. [s.grant[m] EXCEPT !.status = to] \in
            [status : {"none", "active", "superseded", "revoked", "exhausted"}, draft : Drafts \cup {0}]
      BY <3>1 DEF Ended
    <3>3. QED BY <2>1, <3>2 DEF Folds
  <2>3. t.grant[m] = [s.grant[m] EXCEPT !.status = to] /\ \A n \in MandateIds \ {m} : t.grant[n] = s.grant[n]
    BY <2>1 DEF Folds
  <2>4. t.grant[m].status = to /\ t.grant[m].draft = s.grant[m].draft
    BY <2>1, <2>3 DEF Folds
  <2>5. EndTo(s, m, to, t)
    BY <1>1, <2>1, <2>2, <2>3, <2>4 DEF Ended, EndTo
  <2>6. QED BY <2>5 DEF t
<1>2. CASE ~(m # 0 /\ s.grant[m].status = "active")
  BY <1>2 DEF End, EndTo
<1>3. QED BY <1>1, <1>2

LEMMA DraftedSays ==
  ASSUME NEW s \in Folds, NEW e \in LogEvents, e.kind \in {"drafted", "declined"}, NEW t, t = Apply(s, e)
  PROVE  /\ t \in Folds /\ t.grant = s.grant /\ t.used = s.used
         /\ \A d \in Drafts :
              \/ t.draft[d] = s.draft[d]
              \/ s.draft[d] = "open" /\ t.draft[d] \notin {"none", "open"}
              \/ /\ e = Event("drafted", d) /\ s.draft[d] = "none" /\ t.draft[d] = "open"
                 /\ CounterOf[d] # 0 => t.draft[CounterOf[d]] # "open"
<1>1. e.of \in Drafts /\ e = Event(e.kind, e.of)
  BY DEF LogEvents, Event
<1>2. CounterOf[e.of] \in Drafts \cup {0} /\ CounterOf[e.of] # e.of
  BY <1>1, MandateAssumption
<1>3. CASE e.kind = "drafted" /\ s.draft[e.of] = "none"
  <2>1. PICK u : u = [s EXCEPT !.draft[e.of] = "open"]
    OBVIOUS
  <2>2. /\ u \in Folds /\ u.grant = s.grant /\ u.used = s.used /\ u.draft[e.of] = "open"
        /\ \A d \in Drafts \ {e.of} : u.draft[d] = s.draft[d]
    BY <1>1, <2>1 DEF Folds
  <2>3. t = CloseDraft(u, CounterOf[e.of], "superseded")
    BY <1>3, <2>1 DEF Apply
  <2>4. /\ t \in Folds /\ t.grant = u.grant /\ t.used = u.used
        /\ \A x \in Drafts : t.draft[x] = u.draft[x] \/ (u.draft[x] = "open" /\ t.draft[x] = "superseded")
        /\ CounterOf[e.of] # 0 => t.draft[CounterOf[e.of]] # "open"
    <3>1. PICK c \in Drafts \cup {0} : c = CounterOf[e.of]
      BY <1>2
    <3>2. CloseTo(u, c, "superseded", CloseDraft(u, c, "superseded"))
      BY <2>2, CloseSays
    <3>3. QED BY <2>2, <2>3, <3>1, <3>2 DEF CloseTo
  <2>5. t.draft[e.of] = "open"
    BY <1>1, <1>2, <2>2, <2>3 DEF CloseDraft, Folds
  <2>6. QED BY <1>1, <1>3, <2>2, <2>4, <2>5
<1>4. CASE e.kind = "drafted" /\ s.draft[e.of] # "none"
  BY <1>4 DEF Apply
<1>5. CASE e.kind = "declined"
  <2>1. t = CloseDraft(s, e.of, "declined")
    BY <1>5 DEF Apply
  <2>2. CloseTo(s, e.of, "declined", CloseDraft(s, e.of, "declined"))
    BY <1>1, CloseSays
  <2>3. QED BY <1>1, <2>1, <2>2 DEF CloseTo
<1>6. QED BY <1>3, <1>4, <1>5

LEMMA ActivatedSays ==
  ASSUME NEW s \in Folds, NEW e \in LogEvents, e.kind = "activated", NEW t, t = Apply(s, e),
         s.grant[e.of].status = "none"
  PROVE  /\ t \in Folds /\ t.used = s.used /\ t.draft[e.draft] # "open"
         /\ \A d \in Drafts : t.draft[d] = s.draft[d] \/ (s.draft[d] = "open" /\ t.draft[d] = "activated")
         /\ t.grant[e.of].status \in {"active", "superseded"} /\ t.grant[e.of].draft = e.draft
         /\ \A m \in MandateIds \ {e.of} :
              /\ t.grant[m].draft = s.grant[m].draft
              /\ t.grant[m].status = s.grant[m].status
                 \/ (m = e.over /\ s.grant[m].status = "active" /\ t.grant[m].status = "superseded")
         /\ e.over # 0 => t.grant[e.over].status # "active"
<1>1. e.of \in MandateIds /\ e.draft \in Drafts /\ e.over \in MandateIds \cup {0}
  BY DEF LogEvents
<1>2. PICK u : u = [s EXCEPT !.grant[e.of] = [status |-> "active", draft |-> e.draft]]
  OBVIOUS
<1>3. /\ u \in Folds /\ u.used = s.used /\ u.draft = s.draft
      /\ u.grant[e.of].status = "active" /\ u.grant[e.of].draft = e.draft
      /\ \A m \in MandateIds \ {e.of} : u.grant[m] = s.grant[m]
  BY <1>1, <1>2 DEF Folds
<1>4. PICK v : v = CloseDraft(u, e.draft, "activated")
  OBVIOUS
<1>5. /\ v \in Folds /\ v.grant = u.grant /\ v.used = u.used /\ v.draft[e.draft] # "open"
      /\ \A x \in Drafts : v.draft[x] = u.draft[x] \/ (u.draft[x] = "open" /\ v.draft[x] = "activated")
  <2>1. e.draft # 0
    BY <1>1, MandateAssumption
  <2>2. CloseTo(u, e.draft, "activated", CloseDraft(u, e.draft, "activated"))
    BY <1>1, <1>3, CloseSays
  <2>3. QED BY <1>1, <1>3, <1>4, <2>1, <2>2 DEF CloseTo
<1>6. t = End(v, e.over, "superseded")
  BY <1>2, <1>4 DEF Apply
<1>7. /\ t \in Folds /\ t.draft = v.draft /\ t.used = v.used
      /\ \A n \in MandateIds : t.grant[n].draft = v.grant[n].draft
      /\ \A n \in MandateIds : t.grant[n].status = v.grant[n].status
                               \/ (n = e.over /\ v.grant[n].status = "active" /\ t.grant[n].status = "superseded")
      /\ e.over # 0 => t.grant[e.over].status # "active"
  <2>1. EndTo(v, e.over, "superseded", End(v, e.over, "superseded"))
    BY <1>1, <1>5, EndSays DEF Ended
  <2>2. QED BY <1>6, <2>1 DEF EndTo
<1>8. QED BY <1>1, <1>3, <1>5, <1>7

LEMMA ChargedSays ==
  ASSUME NEW s \in Folds, NEW e \in LogEvents, e.kind \in {"usage", "revoked", "exhausted"}, NEW t, t = Apply(s, e)
  PROVE  /\ t \in Folds /\ t.draft = s.draft
         /\ \A m \in MandateIds : t.grant[m].draft = s.grant[m].draft
         /\ \A m \in MandateIds : t.grant[m].status = s.grant[m].status
                \/ (m = e.of /\ s.grant[m].status # "none" /\ t.grant[m].status = e.kind /\ e.kind # "usage")
         /\ \A m \in MandateIds : t.used[m] = s.used[m]
                \/ (m = e.of /\ e.kind = "usage" /\ s.grant[m].status # "none" /\ t.used[m] = s.used[m] + 1)
         /\ e.kind = "exhausted" => t.grant[e.of].status # "active"
         /\ e.kind = "revoked" /\ s.grant[e.of].status # "none" => t.grant[e.of].status = "revoked"
<1>1. e.of \in MandateIds
  BY DEF LogEvents
<1>2. CASE e.kind = "exhausted"
  <2>1. t = End(s, e.of, "exhausted")
    BY <1>2 DEF Apply
  <2>2. e.of # 0
    BY <1>1, MandateAssumption DEF MandateIds
  <2>3. EndTo(s, e.of, "exhausted", End(s, e.of, "exhausted"))
    BY <1>1, EndSays DEF Ended
  <2>4. QED BY <1>1, <1>2, <2>1, <2>2, <2>3 DEF EndTo
<1>3. CASE s.grant[e.of].status = "none" /\ e.kind # "exhausted"
  BY <1>3 DEF Apply
<1>4. CASE e.kind = "usage" /\ s.grant[e.of].status # "none"
  <2>1. t = [s EXCEPT !.used[e.of] = s.used[e.of] + 1]
    BY <1>4 DEF Apply
  <2>2. QED BY <1>1, <1>4, <2>1 DEF Folds
<1>5. CASE e.kind = "revoked" /\ s.grant[e.of].status # "none"
  <2>1. t = [s EXCEPT !.grant[e.of].status = "revoked"]
    BY <1>5 DEF Apply
  <2>2. /\ t.draft = s.draft /\ t.used = s.used
        /\ \A n \in MandateIds \ {e.of} : t.grant[n] = s.grant[n]
        /\ t.grant[e.of] = [s.grant[e.of] EXCEPT !.status = "revoked"]
    BY <1>1, <2>1 DEF Folds
  <2>3. t.grant[e.of].status = "revoked" /\ t.grant[e.of].draft = s.grant[e.of].draft
    BY <1>1, <2>2 DEF Folds
  <2>4. t \in Folds
    BY ApplyKeeps
  <2>5. ASSUME NEW m \in MandateIds
        PROVE  /\ t.grant[m].draft = s.grant[m].draft /\ t.used[m] = s.used[m]
               /\ t.grant[m].status = s.grant[m].status
                  \/ (m = e.of /\ s.grant[m].status # "none" /\ t.grant[m].status = "revoked")
    <3>1. CASE m = e.of
      BY <1>5, <2>2, <2>3, <3>1
    <3>2. CASE m # e.of
      BY <2>2, <3>2
    <3>3. QED BY <3>1, <3>2
  <2>6. QED BY <1>5, <2>2, <2>3, <2>4, <2>5
<1>6. QED BY <1>2, <1>3, <1>4, <1>5

\* What a line leaves in order, and what only it can bring.
LEMMA ApplySays ==
  ASSUME NEW s \in Folds, NEW e \in LogEvents, NEW t, t = Apply(s, e), Orderly(s)
  PROVE  /\ \A d \in Drafts : s.draft[d] # "none" => t.draft[d] # "none"
         /\ \A m \in MandateIds : s.grant[m].status # "none" =>
              t.grant[m].status # "none" /\ t.grant[m].draft = s.grant[m].draft
         /\ \A m \in MandateIds : s.grant[m].status = "revoked" => t.grant[m].status = "revoked"
         /\ \A m \in MandateIds : t.grant[m].status = "active" =>
              \/ s.grant[m].status = "active"
              \/ /\ e.kind = "activated" /\ e.of = m /\ s.grant[m].status = "none"
                 /\ t.grant[m].draft = e.draft /\ t.used[m] = 0
         /\ \A m \in MandateIds : t.used[m] = s.used[m]
              \/ (e.kind = "usage" /\ m = e.of /\ s.grant[m].status # "none" /\ t.used[m] = s.used[m] + 1)
<1>1. CASE e.kind \in {"drafted", "declined"}
  BY <1>1, DraftedSays
<1>2. CASE e.kind = "activated" /\ s.grant[e.of].status # "none"
  BY <1>2 DEF Apply
<1>3. CASE e.kind = "activated" /\ s.grant[e.of].status = "none"
  <2>1. e.of \in MandateIds /\ s.used[e.of] = 0
    BY <1>3 DEF LogEvents, Orderly
  <2>2. QED BY <1>3, <2>1, ActivatedSays, SMTT(60)
<1>4. CASE e.kind \in {"usage", "revoked", "exhausted"}
  <2>1. e.of \in MandateIds
    BY <1>4 DEF LogEvents
  <2>2. /\ t.draft = s.draft
        /\ \A m \in MandateIds : t.grant[m].draft = s.grant[m].draft
        /\ \A m \in MandateIds : t.grant[m].status = s.grant[m].status
               \/ (m = e.of /\ s.grant[m].status # "none" /\ t.grant[m].status = e.kind /\ e.kind # "usage")
        /\ \A m \in MandateIds : t.used[m] = s.used[m]
               \/ (m = e.of /\ e.kind = "usage" /\ s.grant[m].status # "none" /\ t.used[m] = s.used[m] + 1)
        /\ e.kind = "revoked" /\ s.grant[e.of].status # "none" => t.grant[e.of].status = "revoked"
    BY <1>4, ChargedSays
  <2>3. StayEnded(s, t)
    BY ApplyKeeps
  <2>4. QED BY <1>4, <2>1, <2>2, <2>3 DEF StayEnded, Ended
<1>5. QED BY <1>1, <1>2, <1>3, <1>4 DEF LogEvents

LEMMA ApplyOrderly ==
  ASSUME NEW s \in Folds, NEW e \in LogEvents, NEW t, t = Apply(s, e), Orderly(s),
         e.kind = "drafted" /\ CounterOf[e.of] # 0 => s.draft[CounterOf[e.of]] # "none",
         e.kind = "activated" => s.draft[e.draft] # "none"
  PROVE  Orderly(t)
<1>1. /\ \A d \in Drafts : s.draft[d] # "none" /\ CounterOf[d] # 0 => s.draft[CounterOf[d]] \notin {"none", "open"}
      /\ \A m \in MandateIds : s.grant[m].status = "none" => s.used[m] = 0
      /\ \A m \in MandateIds : s.grant[m].status # "none" =>
           s.grant[m].draft \in Drafts /\ s.draft[s.grant[m].draft] \notin {"none", "open"}
  BY DEF Orderly
<1>2. \A d \in Drafts : CounterOf[d] \in Drafts \cup {0}
  BY MandateAssumption
<1>3. CASE e.kind \in {"drafted", "declined"}
  <2>1. /\ t.grant = s.grant /\ t.used = s.used
        /\ \A d \in Drafts :
              \/ t.draft[d] = s.draft[d]
              \/ s.draft[d] = "open" /\ t.draft[d] \notin {"none", "open"}
              \/ /\ e = Event("drafted", d) /\ s.draft[d] = "none" /\ t.draft[d] = "open"
                 /\ CounterOf[d] # 0 => t.draft[CounterOf[d]] # "open"
    BY <1>3, DraftedSays
  <2>2. \A d \in Drafts : s.draft[d] \notin {"none", "open"} => t.draft[d] \notin {"none", "open"}
    BY <2>1
  <2>3. ASSUME NEW d \in Drafts, t.draft[d] # "none", CounterOf[d] # 0
        PROVE  t.draft[CounterOf[d]] \notin {"none", "open"}
    <3>1. PICK x \in Drafts : x = CounterOf[d]
      BY <1>2, <2>3
    <3>2. CASE s.draft[d] # "none"
      BY <1>1, <2>2, <2>3, <3>1, <3>2
    <3>3. CASE s.draft[d] = "none"
      <4>1. e = Event("drafted", d) /\ t.draft[x] # "open"
        BY <2>1, <2>3, <3>1, <3>3
      <4>2. s.draft[x] # "none"
        BY <3>1, <2>3, <4>1 DEF Event
      <4>3. t.draft[x] # "none"
        BY <2>1, <4>2
      <4>4. QED BY <3>1, <4>1, <4>3
    <3>4. QED BY <3>2, <3>3
  <2>4. QED BY <1>1, <2>1, <2>2, <2>3 DEF Orderly
<1>4. CASE e.kind = "activated" /\ s.grant[e.of].status # "none"
  BY <1>4 DEF Apply
<1>5. CASE e.kind = "activated" /\ s.grant[e.of].status = "none"
  <2>1. e.of \in MandateIds /\ e.draft \in Drafts
    BY <1>5 DEF LogEvents
  <2>2. /\ t.used = s.used /\ t.draft[e.draft] # "open"
        /\ \A d \in Drafts : t.draft[d] = s.draft[d] \/ (s.draft[d] = "open" /\ t.draft[d] = "activated")
        /\ t.grant[e.of].status \in {"active", "superseded"} /\ t.grant[e.of].draft = e.draft
        /\ \A m \in MandateIds \ {e.of} :
              /\ t.grant[m].draft = s.grant[m].draft
              /\ t.grant[m].status = s.grant[m].status
                 \/ (m = e.over /\ s.grant[m].status = "active" /\ t.grant[m].status = "superseded")
    BY <1>5, ActivatedSays
  <2>3. \A d \in Drafts : s.draft[d] \notin {"none", "open"} => t.draft[d] \notin {"none", "open"}
    BY <2>2
  <2>4. \A d \in Drafts : t.draft[d] # "none" => s.draft[d] # "none"
    BY <2>2
  <2>5. ASSUME NEW d \in Drafts, t.draft[d] # "none", CounterOf[d] # 0
        PROVE  t.draft[CounterOf[d]] \notin {"none", "open"}
    BY <1>1, <1>2, <2>3, <2>4, <2>5
  <2>6. t.draft[e.draft] # "none"
    BY <1>5, <2>1, <2>2
  <2>7. ASSUME NEW m \in MandateIds
        PROVE  IF t.grant[m].status = "none" THEN t.used[m] = 0
               ELSE t.grant[m].draft \in Drafts /\ t.draft[t.grant[m].draft] \notin {"none", "open"}
    <3>1. CASE m = e.of
      BY <2>1, <2>2, <2>6, <3>1
    <3>2. CASE m # e.of
      BY <1>1, <2>2, <2>3, <3>2
    <3>3. QED BY <3>1, <3>2
  <2>8. QED BY <2>5, <2>7 DEF Orderly
<1>6. CASE e.kind \in {"usage", "revoked", "exhausted"}
  <2>1. /\ t.draft = s.draft
        /\ \A m \in MandateIds : t.grant[m].draft = s.grant[m].draft
        /\ \A m \in MandateIds : t.grant[m].status = s.grant[m].status \/ s.grant[m].status # "none"
        /\ \A m \in MandateIds : t.used[m] = s.used[m] \/ s.grant[m].status # "none"
        /\ \A m \in MandateIds : s.grant[m].status # "none" => t.grant[m].status # "none"
    <3>1. \A m \in MandateIds : s.grant[m].status # "none" => t.grant[m].status # "none"
      BY ApplySays
    <3>2. QED BY <1>6, <3>1, ChargedSays
  <2>2. QED BY <1>1, <2>1 DEF Orderly
<1>7. QED BY <1>3, <1>4, <1>5, <1>6 DEF LogEvents

-----------------------------------------------------------------------------
\* A call goes on and touches nothing else, save the chain of appends.
SameCall(v, w) == w.verb = v.verb /\ w.on = v.on /\ w.rivals = v.rivals /\ w.gone = v.gone /\ w.beside = v.beside

Stays(c, w) ==
  /\ verbs' = [verbs EXCEPT ![c] = w] /\ UNCHANGED <<mandateLog, lines, arrays>> /\ refusals \subseteq refusals'
  /\ SameCall(verbs[c], w)

Utters(v, w) ==
  \/ /\ v.at = "look" /\ v.verb = "draft" /\ w.ev = Event("drafted", v.on)
     /\ CounterOf[v.on] # 0 => Seen.draft[CounterOf[v.on]] # "none"
  \/ v.at = "look" /\ v.verb = "decline" /\ w.ev = Event("declined", v.on)
  \/ v.at = "look" /\ v.verb = "revoke" /\ w.ev = Event("revoked", v.on) /\ Seen.grant[v.on].status # "none"
  \/ v.at = "grant" /\ w.ev = v.ev
  \/ v.at = "stamped" /\ w.ev = Event("usage", v.on)
  \/ v.at = "observe" /\ w.ev = Event("exhausted", v.on)

Proceeds(v, w) ==
  \/ v.at = "idle" /\ w.at \in {"cold", "look"}
  \/ v.at = "cold" /\ w.at = "read" /\ w.seen = {mandateLog}
  \/ v.at \in {"look", "grant", "stamped"} /\ w.at \in {"refused", "uncharged"}
  \/ v.at = "observe" /\ w.at = "done" /\ ~(Seen.grant[v.on].status = "active" /\ Seen.used[v.on] >= Cap)
  \/ v.at = "attach" /\ w.at = "done"
  \/ v.at = "queued" /\ w.at = "failed" /\ refusals' # {}
  \/ w.at = "queued" /\ lines # {} /\ w.array = arrays /\ Utters(v, w)

LEMMA GoesTo ==
  ASSUME MandateInv, NEW c \in Verbs, NEW at, GoTo(c, at)
  PROVE  \E w : Stays(c, w) /\ w.at = at
<1>1. verbs[c] \in CallRecs
  BY DEF MandateInv
<1>2. PICK w : w = [verbs[c] EXCEPT !.at = at]
  OBVIOUS
<1>3. w.at = at /\ SameCall(verbs[c], w)
  BY <1>1, <1>2 DEF CallRecs, SameCall
<1>4. Stays(c, w)
  BY <1>2, <1>3 DEF Stays, GoTo, StoreSame
<1>5. QED BY <1>3, <1>4

LEMMA Enqueues ==
  ASSUME MandateInv, NEW c \in Verbs, NEW ev, Enqueue(c, ev)
  PROVE  \E w : Stays(c, w) /\ w.at = "queued" /\ w.ev = ev /\ w.array = arrays
<1>1. verbs[c] \in CallRecs
  BY DEF MandateInv
<1>2. PICK w : w = [verbs[c] EXCEPT !.at = "queued", !.ev = ev, !.array = arrays]
  OBVIOUS
<1>3. w.at = "queued" /\ w.ev = ev /\ w.array = arrays /\ SameCall(verbs[c], w)
  BY <1>1, <1>2 DEF CallRecs, SameCall
<1>4. Stays(c, w)
  BY <1>2, <1>3 DEF Stays, Enqueue, StoreSame
<1>5. QED BY <1>3, <1>4

GrantBegins(c) == LookUp(c) /\ Seen.draft[verbs[c].on] = "open"
StampBegins(c) == Stamp(c) /\ Fits(Seen, governing)

\* Every step is one of these.
LEMMA StepSays ==
  ASSUME MandateInv, [MandatesNext]_mvars
  PROVE  \/ \E c \in Verbs : \E w : Stays(c, w) /\ Proceeds(verbs[c], w)
         \/ \E c \in Verbs : GrantBegins(c) \/ StampBegins(c) \/ FillCache(c) \/ PushLine(c)
         \/ LineLands
         \/ UNCHANGED <<mandateLog, lines, arrays, verbs, refusals>>
<1>1. ASSUME NEW c \in Verbs, NEW at, GoTo(c, at),
             \/ verbs[c].at = "idle" /\ at \in {"cold", "look"}
             \/ verbs[c].at \in {"look", "grant", "stamped"} /\ at \in {"refused", "uncharged"}
             \/ /\ verbs[c].at = "observe" /\ at = "done"
                /\ ~(Seen.grant[verbs[c].on].status = "active" /\ Seen.used[verbs[c].on] >= Cap)
      PROVE  \E w : Stays(c, w) /\ Proceeds(verbs[c], w)
  <2>1. PICK w : Stays(c, w) /\ w.at = at
    BY <1>1, GoesTo
  <2>2. Proceeds(verbs[c], w)
    BY <1>1, <2>1 DEF Proceeds
  <2>3. QED BY <2>1, <2>2
<1>2. ASSUME NEW c \in Verbs, NEW ev, Enqueue(c, ev), verbs[c].at \notin {"idle", "cold", "read"},
             \A w : w.ev = ev => Utters(verbs[c], w)
      PROVE  \E w : Stays(c, w) /\ Proceeds(verbs[c], w)
  <2>1. PICK w : Stays(c, w) /\ w.at = "queued" /\ w.ev = ev /\ w.array = arrays
    BY <1>2, Enqueues
  <2>2. lines # {}
    BY <1>2 DEF MandateInv
  <2>3. Utters(verbs[c], w)
    BY <1>2, <2>1
  <2>4. Proceeds(verbs[c], w)
    BY <2>1, <2>2, <2>3 DEF Proceeds
  <2>5. QED BY <2>1, <2>4
<1>3. ASSUME NEW c \in Verbs, BeginCall(c) PROVE \E w : Stays(c, w) /\ Proceeds(verbs[c], w)
  BY <1>1, <1>3 DEF BeginCall
<1>4. ASSUME NEW c \in Verbs, ReadFile(c) PROVE \E w : Stays(c, w) /\ Proceeds(verbs[c], w)
  <2>1. verbs[c] \in CallRecs
    BY DEF MandateInv
  <2>2. PICK w : w = [verbs[c] EXCEPT !.at = "read", !.seen = {mandateLog}]
    OBVIOUS
  <2>3. w.at = "read" /\ w.seen = {mandateLog} /\ SameCall(verbs[c], w)
    BY <2>1, <2>2 DEF CallRecs, SameCall
  <2>4. Stays(c, w) /\ Proceeds(verbs[c], w)
    BY <1>4, <2>2, <2>3 DEF Stays, Proceeds, ReadFile, StoreSame
  <2>5. QED BY <2>4
<1>5. ASSUME NEW c \in Verbs, AppendEvent(c) PROVE \E w : Stays(c, w) /\ Proceeds(verbs[c], w)
  <2>1. verbs[c].at = "look"
    BY <1>5 DEF AppendEvent
  <2>2. CASE GoTo(c, "refused")
    BY <1>1, <2>1, <2>2
  <2>3. CASE verbs[c].verb = "draft" /\ Enqueue(c, Event("drafted", verbs[c].on))
             /\ (CounterOf[verbs[c].on] # 0 => Seen.draft[CounterOf[verbs[c].on]] # "none")
    <3>1. \A w : w.ev = Event("drafted", verbs[c].on) => Utters(verbs[c], w)
      BY <2>1, <2>3 DEF Utters
    <3>2. QED BY <1>2, <2>1, <2>3, <3>1
  <2>4. CASE verbs[c].verb = "decline" /\ Enqueue(c, Event("declined", verbs[c].on))
    <3>1. \A w : w.ev = Event("declined", verbs[c].on) => Utters(verbs[c], w)
      BY <2>1, <2>4 DEF Utters
    <3>2. QED BY <1>2, <2>1, <2>4, <3>1
  <2>5. CASE verbs[c].verb = "revoke" /\ Enqueue(c, Event("revoked", verbs[c].on))
             /\ Seen.grant[verbs[c].on].status # "none"
    <3>1. \A w : w.ev = Event("revoked", verbs[c].on) => Utters(verbs[c], w)
      BY <2>1, <2>5 DEF Utters
    <3>2. QED BY <1>2, <2>1, <2>5, <3>1
  <2>6. QED BY <1>5, <2>2, <2>3, <2>4, <2>5 DEF AppendEvent
<1>6. ASSUME NEW c \in Verbs, LookUp(c), ~GrantBegins(c) PROVE \E w : Stays(c, w) /\ Proceeds(verbs[c], w)
  <2>1. verbs[c].at = "look" /\ GoTo(c, "refused")
    BY <1>6 DEF LookUp, GrantBegins
  <2>2. QED BY <1>1, <2>1
<1>7. ASSUME NEW c \in Verbs, Grant(c) PROVE \E w : Stays(c, w) /\ Proceeds(verbs[c], w)
  <2>1. verbs[c].at = "grant" /\ (GoTo(c, "refused") \/ Enqueue(c, verbs[c].ev))
    BY <1>7 DEF Grant
  <2>2. \A w : w.ev = verbs[c].ev => Utters(verbs[c], w)
    BY <2>1 DEF Utters
  <2>3. QED BY <1>1, <1>2, <2>1, <2>2
<1>8. ASSUME NEW c \in Verbs, Stamp(c), ~StampBegins(c) PROVE \E w : Stays(c, w) /\ Proceeds(verbs[c], w)
  <2>1. verbs[c].at = "look" /\ GoTo(c, "refused")
    BY <1>8 DEF Stamp, StampBegins
  <2>2. QED BY <1>1, <2>1
<1>9. ASSUME NEW c \in Verbs, Unrecorded(c) PROVE \E w : Stays(c, w) /\ Proceeds(verbs[c], w)
  BY <1>1, <1>9 DEF Unrecorded
<1>10. ASSUME NEW c \in Verbs, Charge(c) PROVE \E w : Stays(c, w) /\ Proceeds(verbs[c], w)
  <2>1. verbs[c].at = "stamped" /\ (GoTo(c, "uncharged") \/ Enqueue(c, Event("usage", verbs[c].on)))
    BY <1>10 DEF Charge
  <2>2. \A w : w.ev = Event("usage", verbs[c].on) => Utters(verbs[c], w)
    BY <2>1 DEF Utters
  <2>3. QED BY <1>1, <1>2, <2>1, <2>2
<1>11. ASSUME NEW c \in Verbs, Observe(c) PROVE \E w : Stays(c, w) /\ Proceeds(verbs[c], w)
  <2>1. /\ verbs[c].at = "observe"
        /\ \/ /\ GoTo(c, "done")
              /\ ~(Seen.grant[verbs[c].on].status = "active" /\ Seen.used[verbs[c].on] >= Cap)
           \/ Enqueue(c, Event("exhausted", verbs[c].on))
    BY <1>11 DEF Observe
  <2>2. \A w : w.ev = Event("exhausted", verbs[c].on) => Utters(verbs[c], w)
    BY <2>1 DEF Utters
  <2>3. QED BY <1>1, <1>2, <2>1, <2>2
<1>12. ASSUME NEW c \in Verbs, Attach(c) PROVE \E w : Stays(c, w) /\ Proceeds(verbs[c], w)
  <2>1. verbs[c] \in CallRecs
    BY DEF MandateInv
  <2>2. PICK w : w = [verbs[c] EXCEPT !.at = "done"]
    OBVIOUS
  <2>3. w.at = "done" /\ SameCall(verbs[c], w)
    BY <2>1, <2>2 DEF CallRecs, SameCall
  <2>4. Stays(c, w) /\ Proceeds(verbs[c], w)
    BY <1>12, <2>2, <2>3 DEF Stays, Proceeds, Attach
  <2>5. QED BY <2>4
<1>13. ASSUME LineFails PROVE \E c \in Verbs : \E w : Stays(c, w) /\ Proceeds(verbs[c], w)
  <2>1. PICK c : c = Head(sending)
    OBVIOUS
  <2>2. c \in Verbs /\ verbs[c].at = "queued"
    BY <1>13, <2>1 DEF LineFails, MandateInv
  <2>3. verbs[c] \in CallRecs
    BY <2>2 DEF MandateInv
  <2>4. PICK w : w = [verbs[c] EXCEPT !.at = "failed"]
    OBVIOUS
  <2>5. w.at = "failed" /\ SameCall(verbs[c], w)
    BY <2>3, <2>4 DEF CallRecs, SameCall
  <2>6. /\ verbs' = [verbs EXCEPT ![c].at = "failed"] /\ refusals' = refusals \cup {c}
        /\ UNCHANGED <<mandateLog, lines, arrays>>
    BY <1>13, <2>1 DEF LineFails
  <2>7. Stays(c, w) /\ Proceeds(verbs[c], w)
    BY <2>2, <2>4, <2>5, <2>6 DEF Stays, Proceeds
  <2>8. QED BY <2>2, <2>7
<1>14. CASE Lapse \/ UNCHANGED mvars
  BY <1>14 DEF Lapse, mvars
<1>15. QED
  BY <1>3, <1>4, <1>5, <1>6, <1>7, <1>8, <1>9, <1>10, <1>11, <1>12, <1>13, <1>14 DEF MandatesNext

-----------------------------------------------------------------------------
LEMMA InViewIsFold == MandateInv => InView \in Folds
BY DEF MandateInv, InView, Seen

LEMMA OrderInit == MandatesInit => OrderInv
<1> SUFFICES ASSUME MandatesInit PROVE OrderInv
  OBVIOUS
<1>1. PICK s \in Starts :
        /\ mandateLog = Fold(s.log)
        /\ verbs = [c \in Verbs |-> [FreshVerb EXCEPT !.verb = s.ask[c][1], !.on = s.ask[c][2]]]
  BY DEF MandatesInit
<1>2. Orderly(mandateLog)
  BY <1>1, StartAssumption
<1>3. lines = {} /\ arrays = 0 /\ InView = mandateLog
  BY DEF MandatesInit, InView
<1>4. ASSUME NEW c \in Verbs PROVE verbs[c].at = "idle" /\ ~verbs[c].gone /\ verbs[c].rivals = {}
  BY <1>1 DEF FreshVerb
<1>5. \A c \in Verbs : Knows(InView, c, verbs[c])
  BY <1>4 DEF Knows, Sent, Onward
<1>6. QED BY <1>2, <1>3, <1>4, <1>5 DEF OrderInv

\* One call goes on; the log and the cache stay.
LEMMA OrderMove ==
  ASSUME MandateInv, OrderInv, NEW c \in Verbs, NEW w, verbs' = [verbs EXCEPT ![c] = w],
         UNCHANGED <<mandateLog, lines, arrays>>, verbs[c].at # "landed", w.at # "landed",
         Knows(InView, c, w), w.at = "read" => w.seen = {mandateLog}
  PROVE  OrderInv'
<1>1. InView' = InView
  BY DEF InView, Seen
<1>2. verbs \in [Verbs -> CallRecs]
  BY DEF MandateInv
<1>3. verbs'[c] = w /\ \A b \in Verbs \ {c} : verbs'[b] = verbs[b]
  BY <1>2
<1>4. \A b \in Verbs : verbs'[b].at = "landed" => b # c /\ verbs[b].at = "landed" /\ verbs'[b] = verbs[b]
  BY <1>3
<1>5. \A b \in Verbs : verbs[b].at = "landed" => b # c /\ verbs'[b].at = "landed"
  BY <1>3
<1>6. \A b \in Verbs : Knows(InView', b, verbs'[b])
  BY <1>1, <1>3 DEF OrderInv
<1>7. \A b \in Verbs : verbs'[b].at = "read" /\ arrays' = 0 => verbs'[b].seen = {mandateLog'}
  BY <1>3 DEF OrderInv
<1>8. QED BY <1>1, <1>4, <1>5, <1>6, <1>7 DEF OrderInv

LEMMA OrderTurns ==
  ASSUME MandateInv, OrderInv, arrays <= 1, NEW c \in Verbs, NEW w, Stays(c, w), Proceeds(verbs[c], w)
  PROVE  OrderInv'
<1>1. /\ verbs[c] \in CallRecs /\ CallOK(verbs[c]) /\ Knows(InView, c, verbs[c]) /\ arrays \in Nat
  BY DEF MandateInv, OrderInv
<1>2. SameCall(verbs[c], w) /\ verbs' = [verbs EXCEPT ![c] = w] /\ UNCHANGED <<mandateLog, lines, arrays>>
  BY DEF Stays
<1>3. verbs[c].at # "landed" /\ w.at # "landed" /\ (w.at = "read" => w.seen = {mandateLog})
  BY DEF Proceeds, Utters
<1>4. Knows(InView, c, w)
  <2>1. CASE w.at \in {"cold", "look", "read"}
    BY <1>1, <1>2, <2>1 DEF Knows, SameCall, Proceeds, Sent, Onward
  <2>2. CASE w.at \in {"refused", "uncharged", "failed"}
    BY <1>1, <1>2, <2>2 DEF Knows, SameCall, Sent, Onward
  <2>3. CASE w.at = "done"
    <3>1. w.verb # "revoke"
      BY <1>1, <1>2, <2>3 DEF CallOK, SameCall, Proceeds
    <3>2. QED BY <1>1, <1>2, <2>3, <3>1 DEF Knows, SameCall, Sent, Onward
  <2>4. CASE w.at = "queued"
    <3>1. lines # {} /\ w.array = arrays /\ Utters(verbs[c], w)
      BY <2>4 DEF Proceeds
    <3>2. w.array = 1 /\ InView = Seen
      BY <1>1, <3>1 DEF OrderInv, InView
    <3>3. CASE verbs[c].at = "look"
      BY <1>1, <1>2, <2>4, <3>1, <3>2, <3>3 DEF Knows, SameCall, Utters, Sent, Onward
    <3>4. CASE verbs[c].at = "grant"
      <4>1. w.ev = verbs[c].ev
        BY <3>1, <3>4 DEF Utters
      <4>2. verbs[c].verb = "activate"
        BY <1>1, <3>4 DEF CallOK
      <4>3. QED BY <1>1, <1>2, <2>4, <3>2, <3>4, <4>1, <4>2 DEF Knows, SameCall, Sent, Onward
    <3>5. CASE verbs[c].at \in {"stamped", "observe"}
      <4>1. w.ev \in {Event("usage", w.on), Event("exhausted", w.on)}
        BY <1>2, <3>1, <3>5 DEF Utters, SameCall
      <4>2. w.verb = "write"
        BY <1>1, <1>2, <3>5 DEF CallOK, SameCall
      <4>3. QED BY <1>1, <1>2, <2>4, <3>2, <3>5, <4>1, <4>2 DEF Knows, SameCall, Sent, Onward
    <3>6. QED BY <3>1, <3>3, <3>4, <3>5 DEF Utters
  <2>5. QED BY <2>1, <2>2, <2>3, <2>4 DEF Proceeds
<1>5. QED BY <1>2, <1>3, <1>4, OrderMove

LEMMA OrderGranted ==
  ASSUME MandateInv, OrderInv, NEW c \in Verbs, GrantBegins(c)
  PROVE  OrderInv'
<1>1. verbs[c] \in CallRecs /\ Knows(InView, c, verbs[c]) /\ verbs[c].at = "look" /\ lines # {}
  BY DEF MandateInv, OrderInv, GrantBegins, LookUp
<1>2. PICK ev : ev = Activated(c, verbs[c].on, Replaced(Seen, verbs[c].on))
  OBVIOUS
<1>3. PICK S : /\ verbs' = [verbs EXCEPT ![c].at = "grant", ![c].ev = ev, ![c].rivals = S]
               /\ UNCHANGED <<mandateLog, lines, arrays>>
  BY <1>2 DEF GrantBegins, LookUp, StoreSame
<1>4. PICK w : w = [verbs[c] EXCEPT !.at = "grant", !.ev = ev, !.rivals = S]
  OBVIOUS
<1>5. /\ w.at = "grant" /\ w.verb = verbs[c].verb /\ w.on = verbs[c].on /\ w.ev = ev
      /\ w.gone = verbs[c].gone
  BY <1>1, <1>4 DEF CallRecs
<1>6. InView.draft[verbs[c].on] # "none"
  BY <1>1 DEF InView, GrantBegins
<1>7. Knows(InView, c, w)
  BY <1>1, <1>2, <1>5, <1>6 DEF Knows, Sent, Onward, Activated
<1>8. verbs' = [verbs EXCEPT ![c] = w]
  BY <1>3, <1>4
<1>9. QED BY <1>1, <1>3, <1>5, <1>7, <1>8, OrderMove

LEMMA OrderStamped ==
  ASSUME MandateInv, OrderInv, arrays <= 1, NEW c \in Verbs, StampBegins(c)
  PROVE  OrderInv'
<1>1. /\ verbs[c] \in CallRecs /\ Knows(InView, c, verbs[c]) /\ verbs[c].at = "look" /\ lines # {}
      /\ verbs[c].verb = "write"
  BY DEF MandateInv, OrderInv, StampBegins, Stamp
<1>2. PICK u, n :
        /\ verbs' = [verbs EXCEPT ![c].at = "stamped", ![c].on = governing, ![c].gone = u, ![c].beside = n]
        /\ u \in BOOLEAN /\ u = \E r \in Verbs : verbs[r].verb = "revoke" /\ verbs[r].on = governing
                                                /\ verbs[r].at = "done"
        /\ UNCHANGED <<mandateLog, lines, arrays>>
  BY Zenon DEF StampBegins, Stamp, StoreSame
<1>3. ~u
  <2>1. ASSUME NEW r \in Verbs, verbs[r].verb = "revoke", verbs[r].on = governing, verbs[r].at = "done"
        PROVE  FALSE
    <3>1. InView.grant[governing].status = "revoked"
      BY <2>1 DEF OrderInv, Knows
    <3>2. Seen.grant[governing].status = "active"
      BY DEF StampBegins, Fits
    <3>3. QED BY <1>1, <3>1, <3>2 DEF InView
  <2>2. QED BY <1>2, <2>1
<1>4. PICK w : w = [verbs[c] EXCEPT !.at = "stamped", !.on = governing, !.gone = u, !.beside = n]
  OBVIOUS
<1>5. w.at = "stamped" /\ w.gone = u
  BY <1>1, <1>4 DEF CallRecs
<1>6. Knows(InView, c, w)
  BY <1>3, <1>5 DEF Knows, Sent, Onward
<1>7. verbs' = [verbs EXCEPT ![c] = w]
  BY <1>2, <1>4
<1>8. QED BY <1>1, <1>2, <1>5, <1>6, <1>7, OrderMove

\* The first read makes the cache; nothing has been appended before it.
LEMMA OrderFilled ==
  ASSUME MandateInv, OrderInv, NEW c \in Verbs, FillCache(c), arrays' <= 1
  PROVE  OrderInv' /\ InView' = InView /\ mandateLog' = InView /\ mandateLog' = mandateLog
<1>1. /\ verbs \in [Verbs -> CallRecs] /\ arrays = 0 /\ lines = {} /\ arrays' = 1
      /\ \A b \in Verbs : verbs[b].at \in {"idle", "cold", "read"}
  BY DEF MandateInv, OrderInv, FillCache
<1>2. mandateLog = InView /\ lines' = {mandateLog} /\ mandateLog' = mandateLog
  BY <1>1 DEF OrderInv, FillCache
<1>3. InView' = InView
  BY <1>1, <1>2 DEF InView, Seen
<1>4. PICK w : w = [verbs[c] EXCEPT !.at = "look", !.seen = {}]
  OBVIOUS
<1>5. w.at = "look" /\ w.gone = verbs[c].gone /\ w.rivals = verbs[c].rivals
  BY <1>1, <1>4 DEF CallRecs
<1>6. verbs' = [verbs EXCEPT ![c] = w]
  BY <1>4 DEF FillCache
<1>7. verbs'[c] = w /\ \A b \in Verbs \ {c} : verbs'[b] = verbs[b]
  BY <1>1, <1>6
<1>8. \A b \in Verbs : verbs'[b].at # "landed"
  BY <1>1, <1>5, <1>7
<1>9. ASSUME NEW b \in Verbs PROVE Knows(InView, b, verbs'[b])
  <2>1. Knows(InView, b, verbs[b])
    BY DEF OrderInv
  <2>2. CASE b = c
    BY <1>1, <1>5, <1>7, <2>1, <2>2 DEF Knows, Sent, Onward
  <2>3. CASE b # c
    BY <1>7, <2>1, <2>3
  <2>4. QED BY <2>2, <2>3
<1>10. QED BY <1>1, <1>2, <1>3, <1>8, <1>9 DEF OrderInv

\* The line that is to land finds what its call found.
LEMMA LineFits ==
  ASSUME MandateInv, OrderInv, NEW c \in Verbs, verbs[c].at \in Sent, NEW e, e = verbs[c].ev
  PROVE  /\ e \in LogEvents
         /\ e.kind = "drafted" /\ CounterOf[e.of] # 0 => InView.draft[CounterOf[e.of]] # "none"
         /\ e.kind = "activated" => verbs[c].verb = "activate" /\ InView.draft[e.draft] # "none"
         /\ e.kind \in {"usage", "exhausted"} => verbs[c].verb = "write" /\ e.of = verbs[c].on
<1>1. verbs[c] \in CallRecs /\ CallOK(verbs[c]) /\ Knows(InView, c, verbs[c])
  BY DEF MandateInv, OrderInv
<1>2. e \in LogEvents
  BY <1>1 DEF CallOK, Sent
<1>3. CASE verbs[c].verb = "activate"
  BY <1>1, <1>2, <1>3 DEF Knows, Sent, Onward
<1>4. CASE verbs[c].verb # "activate"
  BY <1>1, <1>2, <1>4 DEF Knows, Sent, Event, CallRecs
<1>5. QED BY <1>3, <1>4

\* What a landing is, with the cache one array.
LEMMA LandingIs ==
  ASSUME MandateInv, OrderInv, LineLands
  PROVE  \E c \in Verbs : \E w :
           /\ verbs[c].at = "queued" /\ w.at = "landed" /\ SameCall(verbs[c], w)
           /\ w.ev = verbs[c].ev /\ w.array = verbs[c].array
           /\ verbs' = [verbs EXCEPT ![c] = w]
           /\ mandateLog = InView /\ mandateLog' = Apply(InView, verbs[c].ev)
           /\ UNCHANGED <<lines, arrays, refusals>> /\ InView' = InView /\ lines # {}
           /\ \A b \in Verbs : verbs[b].at # "landed"
<1>1. PICK c : c = Head(sending)
  OBVIOUS
<1>2. c \in Verbs /\ verbs[c].at = "queued" /\ lines # {}
  BY <1>1 DEF LineLands, MandateInv
<1>3. verbs[c] \in CallRecs
  BY <1>2 DEF MandateInv
<1>4. PICK w : w = [verbs[c] EXCEPT !.at = "landed"]
  OBVIOUS
<1>5. w.at = "landed" /\ SameCall(verbs[c], w) /\ w.ev = verbs[c].ev /\ w.array = verbs[c].array
  BY <1>3, <1>4 DEF CallRecs, SameCall
<1>6. /\ verbs' = [verbs EXCEPT ![c].at = "landed"] /\ mandateLog' = Apply(mandateLog, verbs[c].ev)
      /\ UNCHANGED <<lines, arrays, refusals>> /\ \A b \in Verbs : verbs[b].at # "landed"
  BY <1>1 DEF LineLands
<1>7. mandateLog = InView /\ InView' = InView
  BY <1>2, <1>6 DEF OrderInv, InView, Seen
<1>8. verbs' = [verbs EXCEPT ![c] = w]
  BY <1>4, <1>6
<1>9. QED BY <1>2, <1>5, <1>6, <1>7, <1>8

LEMMA OrderLands ==
  ASSUME MandateInv, OrderInv, LineLands
  PROVE  OrderInv'
<1>1. PICK c, w :
           /\ c \in Verbs /\ verbs[c].at = "queued" /\ w.at = "landed" /\ SameCall(verbs[c], w)
           /\ w.ev = verbs[c].ev /\ w.array = verbs[c].array
           /\ verbs' = [verbs EXCEPT ![c] = w]
           /\ mandateLog = InView /\ mandateLog' = Apply(InView, verbs[c].ev)
           /\ UNCHANGED <<lines, arrays, refusals>> /\ InView' = InView /\ lines # {}
           /\ \A b \in Verbs : verbs[b].at # "landed"
  BY LandingIs
<1>2. verbs \in [Verbs -> CallRecs] /\ InView \in Folds
  BY InViewIsFold DEF MandateInv
<1>3. verbs'[c] = w /\ \A b \in Verbs \ {c} : verbs'[b] = verbs[b]
  BY <1>1, <1>2
<1>4. Orderly(mandateLog')
  <2>1. PICK e : e = verbs[c].ev
    OBVIOUS
  <2>2. /\ e \in LogEvents
        /\ e.kind = "drafted" /\ CounterOf[e.of] # 0 => InView.draft[CounterOf[e.of]] # "none"
        /\ e.kind = "activated" => InView.draft[e.draft] # "none"
    BY <1>1, <2>1, LineFits DEF Sent
  <2>3. Orderly(InView)
    BY DEF OrderInv
  <2>4. Orderly(Apply(InView, e))
    BY <1>2, <2>2, <2>3, ApplyOrderly
  <2>5. QED BY <1>1, <2>1, <2>4
<1>5. ASSUME NEW b \in Verbs PROVE Knows(InView', b, verbs'[b])
  <2>1. Knows(InView, b, verbs[b])
    BY DEF OrderInv
  <2>2. CASE b = c
    BY <1>1, <1>3, <2>1, <2>2 DEF Knows, SameCall, Sent, Onward
  <2>3. CASE b # c
    BY <1>1, <1>3, <2>1, <2>3
  <2>4. QED BY <2>2, <2>3
<1>6. \A b \in Verbs : verbs'[b].at = "landed" => b = c
  BY <1>1, <1>3
<1>7. mandateLog' = Apply(InView', verbs'[c].ev)
  BY <1>1, <1>3
<1>8. Orderly(InView') /\ arrays' # 0 /\ lines' # {}
  BY <1>1 DEF OrderInv
<1>9. QED BY <1>1, <1>3, <1>4, <1>5, <1>6, <1>7, <1>8 DEF OrderInv

\* What a push is, with the cache one array.
LEMMA PushIs ==
  ASSUME MandateInv, OrderInv, arrays <= 1, NEW c \in Verbs, PushLine(c)
  PROVE  \E w :
           /\ verbs[c].at = "landed" /\ w.at = NextStage(c) /\ SameCall(verbs[c], w)
           /\ verbs' = [verbs EXCEPT ![c] = w]
           /\ mandateLog = Apply(InView, verbs[c].ev) /\ InView' = mandateLog /\ mandateLog' = mandateLog
           /\ UNCHANGED <<arrays, refusals>> /\ lines # {} /\ lines' # {}
<1>1. /\ verbs[c] \in CallRecs /\ verbs[c].at = "landed" /\ lines # {} /\ arrays \in Nat
      /\ Knows(InView, c, verbs[c])
  BY DEF MandateInv, PushLine, OrderInv
<1>2. arrays = 1 /\ verbs[c].array = 1
  BY <1>1 DEF OrderInv, Knows, Sent
<1>3. lines' = {mandateLog} /\ mandateLog = Apply(InView, verbs[c].ev)
  BY <1>1, <1>2 DEF PushLine, OrderInv, InView
<1>4. InView' = mandateLog
  BY <1>3 DEF InView, Seen
<1>5. PICK w : w = [verbs[c] EXCEPT !.at = NextStage(c)]
  OBVIOUS
<1>6. w.at = NextStage(c) /\ SameCall(verbs[c], w)
  BY <1>1, <1>5 DEF CallRecs, SameCall
<1>7. verbs' = [verbs EXCEPT ![c] = w] /\ UNCHANGED <<mandateLog, arrays, refusals>>
  BY <1>5 DEF PushLine
<1>8. QED BY <1>1, <1>3, <1>4, <1>6, <1>7

LEMMA OrderPushed ==
  ASSUME MandateInv, OrderInv, arrays <= 1, NEW c \in Verbs, PushLine(c)
  PROVE  OrderInv'
<1>1. PICK w :
           /\ verbs[c].at = "landed" /\ w.at = NextStage(c) /\ SameCall(verbs[c], w)
           /\ verbs' = [verbs EXCEPT ![c] = w]
           /\ mandateLog = Apply(InView, verbs[c].ev) /\ InView' = mandateLog /\ mandateLog' = mandateLog
           /\ UNCHANGED <<arrays, refusals>> /\ lines # {} /\ lines' # {}
  BY PushIs
<1>2. verbs \in [Verbs -> CallRecs] /\ InView \in Folds
  BY InViewIsFold DEF MandateInv
<1>3. verbs'[c] = w /\ \A b \in Verbs \ {c} : verbs'[b] = verbs[b]
  BY <1>1, <1>2
<1>4. \A b \in Verbs : verbs'[b].at # "landed"
  <2>1. w.at # "landed"
    BY <1>1 DEF NextStage
  <2>2. QED BY <1>1, <1>3, <2>1 DEF OrderInv
<1>5. PICK e \in LogEvents : e = verbs[c].ev
  BY <1>1, LineFits DEF Sent
<1>6. PICK t : t = InView' /\ t = Apply(InView, e)
  BY <1>1, <1>5
<1>7. /\ \A d \in Drafts : InView.draft[d] # "none" => t.draft[d] # "none"
      /\ \A m \in MandateIds : InView.grant[m].status # "none" => t.grant[m].status # "none"
      /\ \A m \in MandateIds : InView.grant[m].status = "revoked" => t.grant[m].status = "revoked"
  BY <1>2, <1>6, ApplySays DEF OrderInv
<1>8. ASSUME NEW b \in Verbs PROVE Knows(t, b, verbs'[b])
  <2>1. Knows(InView, b, verbs[b]) /\ verbs[b] \in CallRecs /\ CallOK(verbs[b])
    BY <1>2 DEF OrderInv, MandateInv
  <2>2. \A d \in Drafts : CounterOf[d] \in Drafts \cup {0}
    BY MandateAssumption
  <2>3. /\ verbs[b].verb \in {"draft", "decline", "activate"} => verbs[b].on \in Drafts
        /\ verbs[b].verb = "revoke" => verbs[b].on \in MandateIds
    BY <2>1 DEF CallOK
  <2>4. CASE b # c
    <3>1. Knows(t, b, verbs[b])
      BY <1>7, <2>1, <2>2, <2>3 DEF Knows
    <3>2. QED BY <1>3, <2>4, <3>1
  <2>5. CASE b = c
    <3>1. w.at \in {"attach", "observe", "done"}
      BY <1>1 DEF NextStage
    <3>2. w.verb = "revoke" => t.grant[w.on].status = "revoked"
      <4>1. SUFFICES ASSUME w.verb = "revoke" PROVE t.grant[w.on].status = "revoked"
        OBVIOUS
      <4>2. e = Event("revoked", w.on) /\ InView.grant[w.on].status # "none"
        BY <1>1, <1>5, <2>1, <2>5, <4>1 DEF Knows, SameCall, Sent
      <4>3. e.kind = "revoked" /\ e.of = w.on
        BY <4>2 DEF Event
      <4>4. QED BY <1>2, <1>6, <4>2, <4>3, ChargedSays
    <3>3. QED BY <1>1, <1>3, <2>1, <2>5, <3>1, <3>2 DEF Knows, SameCall, Sent, Onward
  <2>6. QED BY <2>4, <2>5
<1>9. Orderly(InView') /\ Orderly(mandateLog') /\ arrays' # 0
  BY <1>1 DEF OrderInv
<1>10. QED BY <1>1, <1>3, <1>4, <1>6, <1>8, <1>9 DEF OrderInv

\* So the log and the cache stay in order while one array was made.
LEMMA OrderStep ==
  ASSUME MandateInv, OrderInv, [MandatesNext]_mvars, arrays' <= 1
  PROVE  OrderInv'
<1>1. arrays <= 1
  <2>1. arrays \in Nat
    BY DEF MandateInv
  <2>2. arrays' = arrays \/ arrays' = arrays + 1
    BY StepSays DEF Stays, GrantBegins, LookUp, StampBegins, Stamp, FillCache, PushLine, LineLands, StoreSame
  <2>3. QED BY <2>1, <2>2
<1>2. CASE UNCHANGED <<mandateLog, lines, arrays, verbs, refusals>>
  <2>1. InView' = InView
    BY <1>2 DEF InView, Seen
  <2>2. QED BY <1>2, <2>1 DEF OrderInv
<1>3. QED
  BY <1>1, <1>2, StepSays, OrderTurns, OrderGranted, OrderStamped, OrderFilled, OrderPushed, OrderLands

-----------------------------------------------------------------------------
\* The drafts that a draft narrows: the one it counters and what that one narrows.
LEMMA NarrowedTakes ==
  ASSUME NEW d \in Drafts
  PROVE  /\ Narrowed[d] \subseteq Drafts
         /\ CounterOf[d] \in Narrowed[d] \cup {0}
         /\ \A x \in Narrowed[d] : CounterOf[x] \in Narrowed[d] \cup {0}
<1>1. \A x \in Drafts : CounterOf[x] \in Drafts \cup {0}
  BY MandateAssumption
<1>2. \A e : e \in Narrowed[d] <=>
        e \in Drafts /\ \A T \in SUBSET Drafts :
          CounterOf[d] \in T \cup {0} /\ (\A x \in T : CounterOf[x] \in T \cup {0}) => e \in T
  BY DEF Narrowed
<1>3. QED BY <1>1, <1>2

LEMMA NarrowedLeast ==
  ASSUME NEW d \in Drafts, NEW T \in SUBSET Drafts, CounterOf[d] \in T \cup {0},
         \A x \in T : CounterOf[x] \in T \cup {0}
  PROVE  Narrowed[d] \subseteq T
BY DEF Narrowed

LEMMA NarrowedFirst ==
  ASSUME NEW d \in Drafts, NEW e \in Narrowed[d]
  PROVE  CounterOf[d] \in Drafts /\ (e = CounterOf[d] \/ e \in Narrowed[CounterOf[d]])
<1>1. CounterOf[d] \in Drafts
  <2>1. CASE CounterOf[d] = 0
    <3>1. {} \in SUBSET Drafts /\ CounterOf[d] \in {} \cup {0} /\ \A x \in {} : CounterOf[x] \in {} \cup {0}
      BY <2>1
    <3>2. Narrowed[d] \subseteq {}
      BY <3>1, NarrowedLeast
    <3>3. QED BY <3>2
  <2>2. QED BY <2>1, MandateAssumption
<1>2. PICK c \in Drafts : c = CounterOf[d]
  BY <1>1
<1>3. PICK T : T = {c} \cup Narrowed[c]
  OBVIOUS
<1>4. T \in SUBSET Drafts /\ CounterOf[d] \in T \cup {0} /\ \A x \in T : CounterOf[x] \in T \cup {0}
  BY <1>2, <1>3, NarrowedTakes
<1>5. e \in T
  BY <1>4, NarrowedLeast
<1>6. QED BY <1>1, <1>2, <1>3, <1>5

LEMMA NarrowedBefore ==
  ASSUME NEW d \in Drafts, NEW e \in Narrowed[d]
  PROVE  e < d
<1>1. PICK T : T = {x \in Drafts : x < d}
  OBVIOUS
<1>2. T \in SUBSET Drafts /\ CounterOf[d] \in T \cup {0} /\ \A x \in T : CounterOf[x] \in T \cup {0}
  <2>1. /\ Drafts \subseteq Nat \ {0}
        /\ \A x \in Drafts : CounterOf[x] \in Drafts \cup {0} /\ CounterOf[x] < x
    BY MandateAssumption
  <2>2. ASSUME NEW x \in Drafts, x <= d PROVE CounterOf[x] \in T \cup {0}
    <3>1. CounterOf[x] \in Drafts \cup {0} /\ CounterOf[x] < x
      BY <2>1, Zenon
    <3>2. Drafts \subseteq Nat
      BY <2>1, Zenon
    <3>3. CASE CounterOf[x] \in Drafts
      <4>1. CounterOf[x] \in Nat /\ x \in Nat /\ d \in Nat
        BY <3>2, <3>3
      <4>2. CounterOf[x] < d
        BY <2>2, <3>1, <4>1
      <4>3. QED BY <1>1, <3>3, <4>2
    <3>4. QED BY <3>1, <3>3
  <2>3. d <= d /\ \A x \in T : x \in Drafts /\ x <= d
    <3>1. Drafts \subseteq Nat
      BY <2>1, Zenon
    <3>2. QED BY <1>1, <3>1
  <2>4. T \in SUBSET Drafts
    BY <1>1
  <2>5. QED BY <2>2, <2>3, <2>4
<1>3. e \in T
  BY <1>2, NarrowedLeast
<1>4. QED BY <1>1, <1>3

\* One negotiation is a chain.
LEMMA NarrowedChain ==
  ASSUME NEW d \in Drafts, NEW e \in Narrowed[d], NEW f \in Narrowed[d]
  PROVE  Related(e, f)
<1>1. e \in Drafts /\ f \in Drafts
  BY NarrowedTakes
<1>2. PICK T : T = {x \in Drafts : x = e \/ x \in Narrowed[e] \/ e \in Narrowed[x]}
  OBVIOUS
<1>3. CounterOf[d] \in T \cup {0}
  BY <1>2, NarrowedFirst
<1>4. ASSUME NEW x \in T PROVE CounterOf[x] \in T \cup {0}
  <2>1. CASE x = e \/ x \in Narrowed[e]
    <3>1. CounterOf[x] \in Narrowed[e] \cup {0} /\ Narrowed[e] \subseteq Drafts
      BY <1>1, <2>1, NarrowedTakes
    <3>2. QED BY <1>2, <3>1
  <2>2. CASE e \in Narrowed[x]
    <3>1. x \in Drafts
      BY <1>2, <1>4
    <3>2. CounterOf[x] \in Drafts /\ (e = CounterOf[x] \/ e \in Narrowed[CounterOf[x]])
      BY <2>2, <3>1, NarrowedFirst
    <3>3. QED BY <1>2, <3>2
  <2>3. QED BY <1>2, <1>4, <2>1, <2>2
<1>5. T \in SUBSET Drafts
  BY <1>2
<1>6. f \in T
  BY <1>3, <1>4, <1>5, NarrowedLeast
<1>7. QED BY <1>2, <1>6 DEF Related

\* What a recorded draft narrows is not open.
LEMMA NarrowedClosed ==
  ASSUME NEW s, Orderly(s), NEW d \in Drafts, s.draft[d] # "none", NEW e \in Narrowed[d]
  PROVE  s.draft[e] \notin {"none", "open"}
<1>1. PICK T : T = {x \in Drafts : s.draft[x] \notin {"none", "open"}}
  OBVIOUS
<1>2. \A x \in Drafts : /\ CounterOf[x] \in Drafts \cup {0}
                        /\ s.draft[x] # "none" /\ CounterOf[x] # 0 => s.draft[CounterOf[x]] \notin {"none", "open"}
  BY MandateAssumption DEF Orderly
<1>3. T \in SUBSET Drafts /\ CounterOf[d] \in T \cup {0} /\ \A x \in T : CounterOf[x] \in T \cup {0}
  BY <1>1, <1>2
<1>4. e \in T
  BY <1>3, NarrowedLeast
<1>5. QED BY <1>1, <1>4

-----------------------------------------------------------------------------
LEMMA GrantInit == MandatesInit => GrantInv
<1> SUFFICES ASSUME MandatesInit PROVE GrantInv
  OBVIOUS
<1>1. PICK s \in Starts :
        /\ mandateLog = Fold(s.log)
        /\ verbs = [c \in Verbs |-> [FreshVerb EXCEPT !.verb = s.ask[c][1], !.on = s.ask[c][2]]]
  BY DEF MandatesInit
<1>2. Unraced(mandateLog) /\ InView = mandateLog
  BY <1>1, StartAssumption DEF MandatesInit, InView
<1>3. \A c \in Verbs : ~Granting(c)
  BY <1>1 DEF FreshVerb, Granting, Onward
<1>4. OneIn(mandateLog)
  BY <1>2 DEF OneIn, Unraced, Related, Older
<1>5. QED BY <1>2, <1>3, <1>4 DEF GrantInv, RivalInv

LEMMA RivalsStay ==
  ASSUME \A b \in Verbs : verbs[b].rivals \subseteq verbs'[b].rivals
  PROVE  \A m : Beside(m) => Beside(m)'
BY DEF Beside

\* No call begins to grant.
LEMMA GrantKeeps ==
  ASSUME GrantInv, \A b \in Verbs : verbs[b].rivals \subseteq verbs'[b].rivals,
         \A b \in Verbs : Granting(b)' =>
           Granting(b) /\ verbs'[b].on = verbs[b].on /\ verbs'[b].ev = verbs[b].ev
  PROVE  /\ RivalInv' /\ \A s : OneIn(s) => OneIn(s)'
         /\ \A s : \A b \in Verbs : Granting(b)' /\ PutsAside(s, b) => PutsAside(s, b)'
<1>1. \A m : Beside(m) => Beside(m)'
  BY RivalsStay
<1>2. RivalInv'
  <2>1. RivalInv
    BY DEF GrantInv
  <2>2. QED BY <2>1 DEF RivalInv
<1>3. ASSUME NEW s, OneIn(s) PROVE OneIn(s)'
  BY <1>1, <1>3 DEF OneIn
<1>4. ASSUME NEW s, NEW b \in Verbs, Granting(b)', PutsAside(s, b) PROVE PutsAside(s, b)'
  BY <1>1, <1>4 DEF PutsAside
<1>5. QED BY <1>2, <1>3, <1>4

LEMMA GrantMove ==
  ASSUME GrantInv, \A b \in Verbs : verbs[b].rivals \subseteq verbs'[b].rivals,
         \A b \in Verbs : Granting(b)' =>
           Granting(b) /\ verbs'[b].on = verbs[b].on /\ verbs'[b].ev = verbs[b].ev,
         InView' = InView, mandateLog' = mandateLog
  PROVE  GrantInv'
<1>1. PICK s, t : s = InView /\ t = mandateLog
  OBVIOUS
<1>2. OneIn(s) /\ OneIn(t) /\ \A b \in Verbs : Granting(b) => PutsAside(s, b)
  BY <1>1 DEF GrantInv
<1>3. RivalInv' /\ OneIn(s)' /\ OneIn(t)' /\ \A b \in Verbs : Granting(b)' => PutsAside(s, b)'
  BY <1>2, GrantKeeps
<1>4. s = InView' /\ t = mandateLog'
  BY <1>1
<1>5. QED BY <1>3, <1>4 DEF GrantInv

LEMMA GrantTurns ==
  ASSUME MandateInv, OrderInv, GrantInv, NEW c \in Verbs, NEW w, Stays(c, w), Proceeds(verbs[c], w)
  PROVE  GrantInv'
<1>1. /\ verbs \in [Verbs -> CallRecs] /\ CallOK(verbs[c])
  BY DEF MandateInv
<1>2. SameCall(verbs[c], w) /\ verbs' = [verbs EXCEPT ![c] = w] /\ UNCHANGED <<mandateLog, lines, arrays>>
  BY DEF Stays
<1>3. verbs'[c] = w /\ \A b \in Verbs \ {c} : verbs'[b] = verbs[b]
  BY <1>1, <1>2
<1>4. \A b \in Verbs : verbs[b].rivals \subseteq verbs'[b].rivals
  BY <1>2, <1>3 DEF SameCall
<1>5. InView' = InView
  BY <1>2 DEF InView, Seen
<1>6. w.verb = "activate" /\ w.at \in Onward => verbs[c].at = "grant" /\ w.ev = verbs[c].ev
  <2>1. SUFFICES ASSUME w.verb = "activate", w.at \in Onward PROVE verbs[c].at = "grant" /\ w.ev = verbs[c].ev
    OBVIOUS
  <2>2. w.at = "queued" /\ Utters(verbs[c], w)
    BY <2>1 DEF Proceeds, Onward
  <2>3. verbs[c].verb = "activate"
    BY <1>2, <2>1 DEF SameCall
  <2>4. QED BY <1>1, <2>2, <2>3 DEF Utters, CallOK
<1>7. ASSUME NEW b \in Verbs, Granting(b)'
      PROVE  Granting(b) /\ verbs'[b].on = verbs[b].on /\ verbs'[b].ev = verbs[b].ev
  BY <1>2, <1>3, <1>6, <1>7 DEF Granting, SameCall, Onward
<1>8. QED BY <1>2, <1>4, <1>5, <1>7, GrantMove

LEMMA GrantStamped ==
  ASSUME MandateInv, GrantInv, NEW c \in Verbs, StampBegins(c)
  PROVE  GrantInv'
<1>1. /\ verbs \in [Verbs -> CallRecs] /\ verbs[c].at = "look"
  BY DEF MandateInv, StampBegins, Stamp
<1>2. PICK u, n :
        /\ verbs' = [verbs EXCEPT ![c].at = "stamped", ![c].on = governing, ![c].gone = u, ![c].beside = n]
        /\ u \in BOOLEAN /\ u = \E r \in Verbs : verbs[r].verb = "revoke" /\ verbs[r].on = governing
                                                /\ verbs[r].at = "done"
        /\ UNCHANGED <<mandateLog, lines, arrays>>
  BY Zenon DEF StampBegins, Stamp, StoreSame
<1>3. PICK w : w = [verbs[c] EXCEPT !.at = "stamped", !.on = governing, !.gone = u, !.beside = n]
  OBVIOUS
<1>4. w.at = "stamped" /\ w.rivals = verbs[c].rivals
  BY <1>1, <1>3 DEF CallRecs
<1>5. verbs'[c] = w /\ \A b \in Verbs \ {c} : verbs'[b] = verbs[b]
  BY <1>1, <1>2, <1>3
<1>6. \A b \in Verbs : verbs[b].rivals \subseteq verbs'[b].rivals
  BY <1>4, <1>5
<1>7. InView' = InView /\ mandateLog' = mandateLog
  <2>1. UNCHANGED <<mandateLog, lines>>
    BY DEF StampBegins, Stamp, StoreSame
  <2>2. QED BY <2>1 DEF InView, Seen
<1>8. \A b \in Verbs : Granting(b)' =>
           Granting(b) /\ verbs'[b].on = verbs[b].on /\ verbs'[b].ev = verbs[b].ev
  BY <1>4, <1>5 DEF Granting, Onward
<1>9. QED BY <1>6, <1>7, <1>8, GrantMove

LEMMA GrantFilled ==
  ASSUME MandateInv, OrderInv, GrantInv, NEW c \in Verbs, FillCache(c), arrays' <= 1
  PROVE  GrantInv'
<1>1. InView' = InView /\ mandateLog' = mandateLog
  BY OrderFilled
<1>2. verbs \in [Verbs -> CallRecs]
  BY DEF MandateInv
<1>3. PICK w : w = [verbs[c] EXCEPT !.at = "look", !.seen = {}]
  OBVIOUS
<1>4. w.at = "look" /\ w.rivals = verbs[c].rivals
  BY <1>2, <1>3 DEF CallRecs
<1>5. verbs' = [verbs EXCEPT ![c] = w]
  BY <1>3 DEF FillCache
<1>6. verbs'[c] = w /\ \A b \in Verbs \ {c} : verbs'[b] = verbs[b]
  BY <1>2, <1>5
<1>7. \A b \in Verbs : verbs[b].rivals \subseteq verbs'[b].rivals
  BY <1>4, <1>6
<1>8. \A b \in Verbs : Granting(b)' =>
           Granting(b) /\ verbs'[b].on = verbs[b].on /\ verbs'[b].ev = verbs[b].ev
  BY <1>4, <1>6 DEF Granting, Onward
<1>9. QED BY <1>1, <1>7, <1>8, GrantMove

\* The last of the drafts before d.
LEMMA LastBefore ==
  ASSUME NEW d \in Nat, NEW D, D \subseteq {x \in Nat : x < d}, D # {}
  PROVE  \E e \in D : \A x \in D : x <= e
<1>1. PICK R : R = {d - x : x \in D}
  OBVIOUS
<1>2. R \subseteq Nat /\ R # {}
  <2>1. PICK x \in D : TRUE
    OBVIOUS
  <2>2. \A y \in D : d - y \in Nat
    OBVIOUS
  <2>3. QED BY <1>1, <2>1, <2>2, Zenon
<1>3. PICK r \in R : \A y \in R : ~(<<y, r>> \in OpToRel(<, Nat))
  <2>1. IsWellFoundedOn(OpToRel(<, Nat), Nat)
    BY NatLessThanWellFounded
  <2>2. QED BY <1>2, <2>1, WFMin
<1>4. PICK e \in D : r = d - e
  BY <1>1, <1>3
<1>5. ASSUME NEW x \in D PROVE x <= e
  <2>1. d - x \in R /\ d - x \in Nat /\ r \in Nat
    BY <1>1, <1>2, <1>3
  <2>2. ~(d - x < r)
    BY <1>3, <2>1 DEF OpToRel
  <2>3. QED BY <1>4, <2>1, <2>2
<1>6. QED BY <1>5

\* The nearest grant up the chain: every other on the chain is on older terms than it, or as old.
LEMMA NearestIsLast ==
  ASSUME NEW s \in Folds, NEW d \in Drafts, NEW m \in MandateIds, s.grant[m].status = "active",
         s.grant[m].draft \in Narrowed[d], OneIn(s)
  PROVE  Replaced(s, d) = m \/ Beside(m)
<1>1. PICK k : k = Replaced(s, d)
  OBVIOUS
<1>2. \A n \in MandateIds : \A e : n \in Grants(s, e) <=> s.grant[n].status = "active" /\ s.grant[n].draft = e
  BY DEF Grants, Folds
<1>3. PICK D : D = {e \in Narrowed[d] : Grants(s, e) # {}}
  OBVIOUS
<1>4. s.grant[m].draft \in D
  BY <1>2, <1>3
<1>5. Nearest(s, d) # {}
  <2>1. D \subseteq Nat /\ \A e \in D : e < d
    BY <1>3, NarrowedTakes, NarrowedBefore, MandateAssumption
  <2>2. PICK e \in D : \A x \in D : x <= e
    <3>1. d \in Nat /\ D \subseteq {x \in Nat : x < d} /\ D # {}
      BY <1>4, <2>1, MandateAssumption
    <3>2. QED BY <3>1, LastBefore
  <2>3. PICK n \in MandateIds : n \in Grants(s, e)
    BY <1>3, <2>2 DEF Grants
  <2>4. n \in Nearest(s, d)
    BY <1>3, <2>2, <2>3 DEF Nearest
  <2>5. QED BY <2>4
<1>6. k \in Nearest(s, d)
  BY <1>1, <1>5 DEF Replaced
<1>7. PICK e \in Narrowed[d] :
        k \in Grants(s, e) /\ \A x \in Narrowed[d] : Grants(s, x) # {} => x <= e
  BY <1>6 DEF Nearest
<1>8. /\ k \in MandateIds /\ s.grant[k].status = "active" /\ s.grant[k].draft = e /\ e \in Drafts
      /\ s.grant[m].draft \in Drafts /\ s.grant[m].draft <= e
  BY <1>2, <1>3, <1>4, <1>6, <1>7, NarrowedTakes DEF Nearest
<1>9. s.grant[m].draft \in Older(e)
  <2>1. Related(e, s.grant[m].draft)
    BY <1>7, NarrowedChain
  <2>2. e \notin Narrowed[s.grant[m].draft]
    BY <1>8, NarrowedBefore, MandateAssumption
  <2>3. QED BY <2>1, <2>2 DEF Related, Older
<1>10. QED BY <1>1, <1>8, <1>9 DEF OneIn

LEMMA GrantGranted ==
  ASSUME MandateInv, OrderInv, GrantInv, NEW c \in Verbs, GrantBegins(c)
  PROVE  GrantInv'
<1>1. /\ verbs \in [Verbs -> CallRecs] /\ CallOK(verbs[c]) /\ Knows(InView, c, verbs[c])
      /\ verbs[c].at = "look" /\ lines # {} /\ verbs[c].verb = "activate" /\ verbs[c].on \in Drafts
  BY DEF MandateInv, OrderInv, GrantBegins, LookUp, CallOK
<1>2. PICK s \in Folds : s = InView /\ s = Seen
  BY <1>1, InViewIsFold DEF InView
<1>3. Orderly(s) /\ OneIn(s) /\ s.draft[verbs[c].on] = "open"
  BY <1>2 DEF OrderInv, GrantInv, GrantBegins
<1>4. PICK ev : ev = Activated(c, verbs[c].on, Replaced(s, verbs[c].on))
  OBVIOUS
<1>5. PICK S : S = {b \in Verbs : /\ verbs[b].verb = "activate" /\ verbs[b].at \in {"grant", "queued", "landed"}
                                  /\ Related(verbs[c].on, verbs[b].on)}
  OBVIOUS
<1>6. /\ verbs' = [verbs EXCEPT ![c].at = "grant", ![c].ev = ev, ![c].rivals = S]
      /\ UNCHANGED <<mandateLog, lines, arrays>>
  BY <1>2, <1>4, <1>5 DEF GrantBegins, LookUp, StoreSame
<1>7. PICK w : w = [verbs[c] EXCEPT !.at = "grant", !.ev = ev, !.rivals = S]
  OBVIOUS
<1>8. /\ w.at = "grant" /\ w.verb = "activate" /\ w.on = verbs[c].on /\ w.ev = ev /\ w.rivals = S
  BY <1>1, <1>7 DEF CallRecs
<1>9. verbs'[c] = w /\ \A b \in Verbs \ {c} : verbs'[b] = verbs[b]
  BY <1>1, <1>6, <1>7
<1>10. verbs[c].rivals = {} /\ ~Granting(c)
  BY <1>1 DEF Knows, Granting, Onward
<1>11. \A b \in Verbs : verbs[b].rivals \subseteq verbs'[b].rivals
  BY <1>9, <1>10
<1>12. \A m : Beside(m) => Beside(m)'
  BY <1>11, RivalsStay
<1>13. \A b \in Verbs \ {c} : Granting(b)' = Granting(b)
  BY <1>9 DEF Granting
<1>14. RivalInv'
  <2>1. ASSUME NEW b \in Verbs \ {c}, Granting(b), Related(verbs[b].on, verbs[c].on)
        PROVE  b \in S
    BY <1>5, <2>1 DEF Granting, Onward, Related
  <2>2. RivalInv
    BY DEF GrantInv
  <2>3. SUFFICES ASSUME NEW a \in Verbs, NEW b \in Verbs, a # b, Granting(a)', Granting(b)',
                        Related(verbs'[a].on, verbs'[b].on)
                 PROVE  b \in verbs'[a].rivals \/ a \in verbs'[b].rivals
    BY DEF RivalInv
  <2>4. CASE a = c
    <3>1. Granting(b) /\ Related(verbs[b].on, verbs[c].on)
      BY <1>8, <1>9, <1>13, <2>3, <2>4 DEF Related
    <3>2. QED BY <1>8, <1>9, <2>1, <2>3, <2>4, <3>1
  <2>5. CASE b = c
    <3>1. Granting(a) /\ Related(verbs[a].on, verbs[c].on)
      BY <1>8, <1>9, <1>13, <2>3, <2>5
    <3>2. QED BY <1>8, <1>9, <2>1, <2>3, <2>5, <3>1
  <2>6. CASE a # c /\ b # c
    BY <1>9, <1>13, <2>2, <2>3, <2>6 DEF RivalInv
  <2>7. QED BY <2>4, <2>5, <2>6
<1>15. OneIn(s)'
  BY <1>3, <1>12 DEF OneIn
<1>16. OneIn(mandateLog)'
  BY <1>6, <1>12 DEF GrantInv, OneIn
<1>17. ASSUME NEW b \in Verbs \ {c}, Granting(b)' PROVE PutsAside(s, b)'
  <2>1. PutsAside(s, b)
    BY <1>2, <1>13, <1>17 DEF GrantInv
  <2>2. QED BY <1>9, <1>12, <2>1 DEF PutsAside
<1>18. PutsAside(s, c)'
  <2>1. SUFFICES ASSUME NEW m \in MandateIds \ {c}, s.grant[m].status = "active"
                 PROVE  /\ s.grant[m].draft \in Older(verbs[c].on) => m = Replaced(s, verbs[c].on) \/ Beside(m)'
                        /\ verbs[c].on \in Older(s.grant[m].draft) => Beside(c)'
    <3>1. verbs'[c].on = verbs[c].on /\ verbs'[c].ev.over = Replaced(s, verbs[c].on)
      BY <1>4, <1>8, <1>9 DEF Activated
    <3>2. QED BY <2>1, <3>1 DEF PutsAside
  <2>2. s.grant[m].draft \in Drafts /\ s.draft[s.grant[m].draft] \notin {"none", "open"}
    BY <1>3, <2>1 DEF Orderly
  <2>3. s.grant[m].draft # verbs[c].on /\ verbs[c].on \notin Narrowed[s.grant[m].draft]
    BY <1>1, <1>3, <2>2, NarrowedClosed
  <2>4. s.grant[m].draft \in Narrowed[verbs[c].on] => m = Replaced(s, verbs[c].on) \/ Beside(m)
    BY <1>1, <1>3, <2>1, NearestIsLast
  <2>5. QED BY <1>12, <2>3, <2>4 DEF Older
<1>19. InView' = s
  BY <1>2, <1>6 DEF InView, Seen
<1>20. QED BY <1>14, <1>15, <1>16, <1>17, <1>18, <1>19 DEF GrantInv

\* A grant that lands takes the place of what it replaces.
LEMMA GrantLands ==
  ASSUME MandateInv, OrderInv, GrantInv, LineLands
  PROVE  GrantInv'
<1>1. PICK c, w :
           /\ c \in Verbs /\ verbs[c].at = "queued" /\ w.at = "landed" /\ SameCall(verbs[c], w)
           /\ w.ev = verbs[c].ev /\ w.array = verbs[c].array
           /\ verbs' = [verbs EXCEPT ![c] = w]
           /\ mandateLog = InView /\ mandateLog' = Apply(InView, verbs[c].ev)
           /\ UNCHANGED <<lines, arrays, refusals>> /\ InView' = InView /\ lines # {}
           /\ \A b \in Verbs : verbs[b].at # "landed"
  BY LandingIs
<1>2. verbs \in [Verbs -> CallRecs]
  BY DEF MandateInv
<1>3. verbs'[c] = w /\ \A b \in Verbs \ {c} : verbs'[b] = verbs[b]
  BY <1>1, <1>2
<1>4. \A b \in Verbs : verbs[b].rivals \subseteq verbs'[b].rivals
  BY <1>1, <1>3 DEF SameCall
<1>5. \A b \in Verbs : Granting(b)' => Granting(b) /\ verbs'[b].on = verbs[b].on /\ verbs'[b].ev = verbs[b].ev
  BY <1>1, <1>3 DEF Granting, Onward, SameCall
<1>6. PICK s \in Folds : s = InView
  BY InViewIsFold
<1>7. PICK e \in LogEvents : e = verbs[c].ev
  BY <1>1, LineFits DEF Sent
<1>8. PICK t : t = Apply(s, e)
  OBVIOUS
<1>9. OneIn(s) /\ Orderly(s) /\ \A b \in Verbs : Granting(b) => PutsAside(s, b)
  BY <1>6 DEF OrderInv, GrantInv
<1>10. OneIn(t)
  <2>1. /\ \A m \in MandateIds : s.grant[m].status # "none" => t.grant[m].draft = s.grant[m].draft
        /\ \A m \in MandateIds : t.grant[m].status = "active" =>
              \/ s.grant[m].status = "active"
              \/ /\ e.kind = "activated" /\ e.of = m /\ s.grant[m].status = "none"
                 /\ t.grant[m].draft = e.draft
    BY <1>8, <1>9, ApplySays
  <2>2. e.kind = "activated" => /\ Granting(c) /\ e.of = c /\ e.draft = verbs[c].on /\ PutsAside(s, c)
    <3>1. e.kind = "activated" => verbs[c].verb = "activate"
      BY <1>1, <1>7, LineFits DEF Sent
    <3>2. Knows(InView, c, verbs[c])
      BY <1>1 DEF OrderInv
    <3>3. QED BY <1>1, <1>7, <1>9, <3>1, <3>2 DEF Knows, Granting, Onward
  <2>3. SUFFICES ASSUME NEW m \in MandateIds, NEW n \in MandateIds, m # n,
                        t.grant[m].status = "active", t.grant[n].status = "active",
                        t.grant[n].draft \in Older(t.grant[m].draft)
                 PROVE  Beside(n)
    BY DEF OneIn
  <2>4. CASE s.grant[m].status = "active" /\ s.grant[n].status = "active"
    BY <1>9, <2>1, <2>3, <2>4 DEF OneIn
  <2>5. CASE s.grant[m].status # "active"
    <3>1. e.kind = "activated" /\ m = c /\ s.grant[m].status = "none" /\ t.grant[m].draft = verbs[c].on
      BY <2>1, <2>2, <2>3, <2>5
    <3>2. s.grant[n].status = "active" /\ t.grant[n].draft = s.grant[n].draft /\ n # c
      BY <2>1, <2>2, <2>3, <3>1
    <3>3. n = e.over \/ Beside(n)
      BY <1>7, <2>2, <2>3, <3>1, <3>2 DEF PutsAside
    <3>4. n # e.over
      <4>1. n # 0
        BY MandateAssumption DEF MandateIds
      <4>2. s.grant[e.of].status = "none"
        BY <2>2, <3>1
      <4>3. e.over # 0 => t.grant[e.over].status # "active"
        BY <1>8, <3>1, <4>2, ActivatedSays
      <4>4. QED BY <2>3, <4>1, <4>3
    <3>5. QED BY <3>3, <3>4
  <2>6. CASE s.grant[n].status # "active"
    <3>1. e.kind = "activated" /\ n = c /\ t.grant[n].draft = verbs[c].on
      BY <2>1, <2>2, <2>3, <2>6
    <3>2. s.grant[m].status = "active" /\ t.grant[m].draft = s.grant[m].draft /\ m # c
      BY <2>1, <2>2, <2>3, <3>1
    <3>3. QED BY <2>2, <2>3, <3>1, <3>2 DEF PutsAside
  <2>7. QED BY <2>4, <2>5, <2>6
<1>11. RivalInv' /\ OneIn(s)' /\ OneIn(t)' /\ \A b \in Verbs : Granting(b)' => PutsAside(s, b)'
  BY <1>4, <1>5, <1>9, <1>10, GrantKeeps
<1>12. s = InView' /\ t = mandateLog'
  BY <1>1, <1>6, <1>7, <1>8
<1>13. QED BY <1>11, <1>12 DEF GrantInv

\* A grant that comes to be seen was beside those that did not see it.
LEMMA GrantPushed ==
  ASSUME MandateInv, OrderInv, GrantInv, arrays <= 1, NEW c \in Verbs, PushLine(c)
  PROVE  GrantInv'
<1>1. PICK w :
           /\ verbs[c].at = "landed" /\ w.at = NextStage(c) /\ SameCall(verbs[c], w)
           /\ verbs' = [verbs EXCEPT ![c] = w]
           /\ mandateLog = Apply(InView, verbs[c].ev) /\ InView' = mandateLog /\ mandateLog' = mandateLog
           /\ UNCHANGED <<arrays, refusals>> /\ lines # {} /\ lines' # {}
  BY PushIs
<1>2. verbs \in [Verbs -> CallRecs]
  BY DEF MandateInv
<1>3. verbs'[c] = w /\ \A b \in Verbs \ {c} : verbs'[b] = verbs[b]
  BY <1>1, <1>2
<1>4. \A b \in Verbs : verbs[b].rivals \subseteq verbs'[b].rivals
  BY <1>1, <1>3 DEF SameCall
<1>5. \A b \in Verbs : Granting(b)' =>
        b # c /\ Granting(b) /\ verbs'[b].on = verbs[b].on /\ verbs'[b].ev = verbs[b].ev
  BY <1>1, <1>3 DEF Granting, Onward, NextStage
<1>6. PICK s \in Folds : s = InView
  BY InViewIsFold
<1>7. PICK e \in LogEvents : e = verbs[c].ev
  BY <1>1, LineFits DEF Sent
<1>8. PICK t : t = mandateLog /\ t = Apply(s, e)
  BY <1>1, <1>6, <1>7
<1>9. Orderly(s) /\ OneIn(t) /\ RivalInv /\ \A b \in Verbs : Granting(b) => PutsAside(s, b)
  BY <1>6, <1>8 DEF OrderInv, GrantInv
<1>10. ASSUME NEW b \in Verbs, b # c, Granting(b) PROVE PutsAside(t, b)
  <2>1. SUFFICES ASSUME NEW m \in MandateIds \ {b}, t.grant[m].status = "active"
                 PROVE  /\ t.grant[m].draft \in Older(verbs[b].on) => m = verbs[b].ev.over \/ Beside(m)
                        /\ verbs[b].on \in Older(t.grant[m].draft) => Beside(b)
    BY DEF PutsAside
  <2>2. \/ s.grant[m].status = "active" /\ t.grant[m].draft = s.grant[m].draft
        \/ e.kind = "activated" /\ e.of = m /\ t.grant[m].draft = e.draft
    BY <1>8, <1>9, <2>1, ApplySays
  <2>3. CASE s.grant[m].status = "active" /\ t.grant[m].draft = s.grant[m].draft
    BY <1>9, <1>10, <2>1, <2>3 DEF PutsAside
  <2>4. CASE e.kind = "activated" /\ e.of = m /\ t.grant[m].draft = e.draft
    <3>1. verbs[c].verb = "activate"
      BY <1>1, <1>7, <2>4, LineFits DEF Sent
    <3>2. Granting(c) /\ m = c /\ t.grant[m].draft = verbs[c].on
      BY <1>1, <1>7, <2>4, <3>1 DEF OrderInv, Knows, Granting, Onward
    <3>3. Related(verbs[b].on, verbs[c].on) => Beside(b) /\ Beside(c)
      BY <1>9, <1>10, <3>2 DEF RivalInv, Beside
    <3>4. QED BY <3>2, <3>3 DEF Older, Related
  <2>5. QED BY <2>2, <2>3, <2>4
<1>11. RivalInv' /\ OneIn(t)' /\ \A b \in Verbs : Granting(b)' => PutsAside(t, b)'
  BY <1>4, <1>5, <1>9, <1>10, GrantKeeps
<1>12. t = InView' /\ t = mandateLog'
  BY <1>1, <1>8
<1>13. QED BY <1>11, <1>12 DEF GrantInv

LEMMA GrantStep ==
  ASSUME MandateInv, OrderInv, GrantInv, [MandatesNext]_mvars, arrays <= 1, arrays' <= 1
  PROVE  GrantInv'
<1>1. CASE UNCHANGED <<mandateLog, lines, arrays, verbs, refusals>>
  <2>1. InView' = InView
    BY <1>1 DEF InView, Seen
  <2>2. QED BY <1>1, <2>1, GrantMove DEF Granting
<1>2. QED
  BY <1>1, StepSays, GrantTurns, GrantGranted, GrantStamped, GrantFilled, GrantPushed, GrantLands

-----------------------------------------------------------------------------
LEMMA BudgetInit == MandatesInit => BudgetInv
<1> SUFFICES ASSUME MandatesInit, NEW m \in MandateIds PROVE Within(m) /\ Spent(m)
  BY DEF BudgetInv
<1>1. PICK s \in Starts :
        /\ mandateLog = Fold(s.log)
        /\ verbs = [c \in Verbs |-> [FreshVerb EXCEPT !.verb = s.ask[c][1], !.on = s.ask[c][2]]]
  BY DEF MandatesInit
<1>2. Unraced(mandateLog) /\ mandateLog \in Folds
  BY <1>1, StartAssumption
<1>3. Pending(m) = {}
  BY <1>1 DEF FreshVerb, Pending, Charging
<1>4. /\ mandateLog.used[m] \in Nat /\ Cap \in Nat /\ mandateLog.used[m] <= Cap
      /\ mandateLog.grant[m].status = "active" => mandateLog.used[m] < Cap
  BY <1>2, MandateAssumption DEF Unraced, Folds
<1>5. QED BY <1>3, <1>4 DEF Within, Spent

LEMMA PendingCounts ==
  ASSUME NEW m, NEW T, T \subseteq Pending(m)
  PROVE  /\ IsFiniteSet(Pending(m)) /\ Cardinality(Pending(m)) \in Nat
         /\ IsFiniteSet(T) /\ Cardinality(T) \in Nat /\ Cardinality(T) <= Cardinality(Pending(m))
<1>1. PICK P : P = Pending(m)
  OBVIOUS
<1>2. IsFiniteSet(Verbs) /\ P \in SUBSET Verbs /\ T \in SUBSET P
  BY <1>1, MandateAssumption DEF Pending
<1>3. IsFiniteSet(P)
  BY <1>2, FS_Subset
<1>4. IsFiniteSet(T) /\ Cardinality(T) <= Cardinality(P)
  BY <1>2, <1>3, FS_Subset
<1>5. QED BY <1>1, <1>3, <1>4, FS_CardinalityType

\* The charges to come get fewer.
LEMMA WithinKeeps ==
  ASSUME MandateInv, NEW m \in MandateIds, Within(m), mandateLog'.used[m] = mandateLog.used[m],
         Pending(m)' \subseteq Pending(m),
         \A b \in Verbs : verbs[b].on = m /\ HasStamped(verbs[b]) =>
           verbs'[b].on = m /\ HasStamped(verbs'[b]) /\ verbs'[b].beside = verbs[b].beside
  PROVE  Within(m)'
<1>1. PICK P, Q : P = Pending(m) /\ Q = Pending(m)'
  OBVIOUS
<1>2. /\ Cardinality(P) \in Nat /\ Cardinality(Q) \in Nat /\ Cardinality(Q) <= Cardinality(P)
  BY <1>1, PendingCounts
<1>3. /\ mandateLog.used[m] \in Nat /\ Cap \in Nat /\ \A b \in Verbs : verbs[b].beside \in Nat
  BY MandateAssumption DEF MandateInv, Folds, CallRecs
<1>4. CASE mandateLog.used[m] <= Cap /\ P = {}
  BY <1>1, <1>4 DEF Within
<1>5. ASSUME NEW c \in Verbs, verbs[c].on = m, HasStamped(verbs[c]),
             mandateLog.used[m] + Cardinality(P) <= Cap + verbs[c].beside
      PROVE  Within(m)'
  <2>1. verbs'[c].on = m /\ HasStamped(verbs'[c]) /\ verbs'[c].beside = verbs[c].beside
    BY <1>5
  <2>2. mandateLog'.used[m] + Cardinality(Q) <= Cap + verbs'[c].beside
    BY <1>2, <1>3, <1>5, <2>1
  <2>3. QED BY <1>1, <2>1, <2>2 DEF Within
<1>6. QED BY <1>1, <1>4, <1>5 DEF Within

\* One call goes on; nothing is charged.
LEMMA BudgetMove ==
  ASSUME MandateInv, BudgetInv, NEW c \in Verbs, NEW w, verbs' = [verbs EXCEPT ![c] = w],
         mandateLog' = mandateLog, refusals \subseteq refusals',
         w.verb = verbs[c].verb, w.on = verbs[c].on, w.beside = verbs[c].beside,
         Charging(w) => Charging(verbs[c]), HasStamped(verbs[c]) => HasStamped(w),
         Awaits(verbs[c]) => \/ Awaits(w) \/ refusals' # {}
                             \/ ~(mandateLog.used[w.on] >= Cap /\ mandateLog.grant[w.on].status = "active")
                             \/ \E b \in Verbs \ {c} : verbs[b].on = w.on /\ Awaits(verbs[b])
  PROVE  BudgetInv'
<1>1. verbs \in [Verbs -> CallRecs]
  BY DEF MandateInv
<1>2. verbs'[c] = w /\ \A b \in Verbs \ {c} : verbs'[b] = verbs[b]
  BY <1>1
<1>3. SUFFICES ASSUME NEW m \in MandateIds PROVE Within(m)' /\ Spent(m)'
  BY DEF BudgetInv
<1>4. Within(m) /\ Spent(m)
  BY DEF BudgetInv
<1>5. Pending(m)' \subseteq Pending(m)
  <2>1. \A b \in Verbs : verbs'[b].on = m /\ Charging(verbs'[b]) => verbs[b].on = m /\ Charging(verbs[b])
    BY <1>2
  <2>2. QED BY <2>1 DEF Pending, Charging
<1>6. \A b \in Verbs : verbs[b].on = m /\ HasStamped(verbs[b]) =>
        verbs'[b].on = m /\ HasStamped(verbs'[b]) /\ verbs'[b].beside = verbs[b].beside
  BY <1>2
<1>7. Within(m)'
  BY <1>4, <1>5, <1>6, WithinKeeps
<1>8. Spent(m)'
  <2>1. SUFFICES ASSUME mandateLog.used[m] >= Cap, mandateLog.grant[m].status = "active", refusals' = {}
                 PROVE  \E b \in Verbs : verbs'[b].on = m /\ Awaits(verbs'[b])
    BY DEF Spent, Awaits
  <2>2. PICK b \in Verbs : verbs[b].on = m /\ Awaits(verbs[b])
    BY <1>4, <2>1 DEF Spent
  <2>3. CASE b # c
    BY <1>2, <2>2, <2>3
  <2>4. CASE b = c
    <3>1. Awaits(w) \/ \E a \in Verbs \ {c} : verbs[a].on = m /\ Awaits(verbs[a])
      BY <2>1, <2>2, <2>4
    <3>2. QED BY <1>2, <2>2, <2>4, <3>1
  <2>5. QED BY <2>3, <2>4
<1>9. QED BY <1>7, <1>8

\* A breach that the cache does not show is in the line that landed.
LEMMA BreachSeen ==
  ASSUME MandateInv, OrderInv, lines # {}, NEW m \in MandateIds,
         ~(Seen.grant[m].status = "active" /\ Seen.used[m] >= Cap),
         mandateLog.used[m] >= Cap, mandateLog.grant[m].status = "active"
  PROVE  \E b \in Verbs : verbs[b].on = m /\ verbs[b].at = "landed" /\ Awaits(verbs[b])
<1>1. InView = Seen
  BY DEF InView
<1>2. PICK b \in Verbs : verbs[b].at = "landed" /\ mandateLog = Apply(InView, verbs[b].ev)
  BY <1>1 DEF OrderInv
<1>3. PICK e \in LogEvents : e = verbs[b].ev
  BY <1>2, LineFits DEF Sent
<1>4. PICK s \in Folds : s = InView
  BY InViewIsFold
<1>5. PICK t : t = mandateLog /\ t = Apply(s, e)
  BY <1>2, <1>3, <1>4
<1>6. /\ s.grant[m].status = "active" \/ t.used[m] = 0
      /\ t.used[m] = s.used[m] \/ (e.kind = "usage" /\ m = e.of)
  BY <1>4, <1>5, ApplySays DEF OrderInv
<1>7. Cap # 0 /\ Cap \in Nat
  BY MandateAssumption
<1>8. e.kind = "usage" /\ m = e.of
  BY <1>1, <1>4, <1>5, <1>6, <1>7
<1>9. verbs[b].verb = "write" /\ verbs[b].on = m
  BY <1>2, <1>3, <1>8, LineFits DEF Sent
<1>10. QED BY <1>2, <1>9 DEF Awaits

LEMMA BudgetTurns ==
  ASSUME MandateInv, OrderInv, BudgetInv, NEW c \in Verbs, NEW w, Stays(c, w), Proceeds(verbs[c], w)
  PROVE  BudgetInv'
<1>1. verbs[c] \in CallRecs /\ CallOK(verbs[c]) /\ (lines = {} => verbs[c].at \in {"idle", "cold", "read"})
  BY DEF MandateInv
<1>2. /\ verbs' = [verbs EXCEPT ![c] = w] /\ UNCHANGED <<mandateLog, lines, arrays>> /\ refusals \subseteq refusals'
      /\ w.verb = verbs[c].verb /\ w.on = verbs[c].on /\ w.beside = verbs[c].beside
  BY DEF Stays, SameCall
<1>3. Charging(w) => Charging(verbs[c])
  <2>1. SUFFICES ASSUME Charging(w) PROVE Charging(verbs[c])
    OBVIOUS
  <2>2. w.at = "queued" /\ Utters(verbs[c], w) /\ w.ev.kind = "usage" /\ verbs[c].verb = "write"
    BY <1>2, <2>1 DEF Charging, Proceeds
  <2>3. verbs[c].at = "stamped"
    BY <1>1, <2>2 DEF Utters, CallOK, Event
  <2>4. QED BY <2>2, <2>3 DEF Charging
<1>4. HasStamped(verbs[c]) => HasStamped(w)
  BY <1>2 DEF HasStamped, Proceeds
<1>5. ASSUME Awaits(verbs[c])
      PROVE  \/ Awaits(w) \/ refusals' # {}
             \/ ~(mandateLog.used[w.on] >= Cap /\ mandateLog.grant[w.on].status = "active")
             \/ \E b \in Verbs \ {c} : verbs[b].on = w.on /\ Awaits(verbs[b])
  <2>1. \/ w.at = "queued"
        \/ refusals' # {}
        \/ verbs[c].at = "observe" /\ ~(Seen.grant[verbs[c].on].status = "active" /\ Seen.used[verbs[c].on] >= Cap)
    BY <1>5 DEF Awaits, Proceeds
  <2>2. CASE w.at = "queued"
    BY <1>2, <1>5, <2>2 DEF Awaits
  <2>3. CASE verbs[c].at = "observe" /\ ~(Seen.grant[verbs[c].on].status = "active" /\ Seen.used[verbs[c].on] >= Cap)
    <3>1. PICK m \in MandateIds : m = w.on /\ m = verbs[c].on
      BY <1>1, <1>2, <2>3 DEF CallOK
    <3>2. lines # {}
      BY <1>1, <2>3
    <3>3. CASE mandateLog.used[m] >= Cap /\ mandateLog.grant[m].status = "active"
      <4>1. PICK b \in Verbs : verbs[b].on = m /\ verbs[b].at = "landed" /\ Awaits(verbs[b])
        BY <2>3, <3>1, <3>2, <3>3, BreachSeen
      <4>2. QED BY <2>3, <3>1, <4>1
    <3>4. QED BY <3>1, <3>3
  <2>4. QED BY <2>1, <2>2, <2>3
<1>6. QED BY <1>2, <1>3, <1>4, <1>5, BudgetMove

LEMMA BudgetGranted ==
  ASSUME MandateInv, BudgetInv, NEW c \in Verbs, GrantBegins(c)
  PROVE  BudgetInv'
<1>1. verbs[c] \in CallRecs /\ verbs[c].verb = "activate"
  BY DEF MandateInv, GrantBegins, LookUp
<1>2. PICK ev : ev = Activated(c, verbs[c].on, Replaced(Seen, verbs[c].on))
  OBVIOUS
<1>3. PICK S : /\ verbs' = [verbs EXCEPT ![c].at = "grant", ![c].ev = ev, ![c].rivals = S]
               /\ UNCHANGED <<mandateLog, refusals>>
  BY <1>2 DEF GrantBegins, LookUp, StoreSame
<1>4. PICK w : w = [verbs[c] EXCEPT !.at = "grant", !.ev = ev, !.rivals = S]
  OBVIOUS
<1>5. w.verb = "activate" /\ w.on = verbs[c].on /\ w.beside = verbs[c].beside
  BY <1>1, <1>4 DEF CallRecs
<1>6. ~Charging(w) /\ ~HasStamped(verbs[c]) /\ ~Awaits(verbs[c])
  BY <1>1, <1>5 DEF Charging, HasStamped, Awaits
<1>7. verbs' = [verbs EXCEPT ![c] = w]
  BY <1>3, <1>4
<1>8. QED BY <1>1, <1>3, <1>5, <1>6, <1>7, BudgetMove

LEMMA BudgetFilled ==
  ASSUME MandateInv, BudgetInv, NEW c \in Verbs, FillCache(c)
  PROVE  BudgetInv'
<1>1. verbs[c] \in CallRecs /\ verbs[c].at = "read"
  BY DEF MandateInv, FillCache
<1>2. PICK w : w = [verbs[c] EXCEPT !.at = "look", !.seen = {}]
  OBVIOUS
<1>3. w.at = "look" /\ w.verb = verbs[c].verb /\ w.on = verbs[c].on /\ w.beside = verbs[c].beside
  BY <1>1, <1>2 DEF CallRecs
<1>4. ~Charging(w) /\ ~HasStamped(verbs[c]) /\ ~Awaits(verbs[c])
  BY <1>1, <1>3 DEF Charging, HasStamped, Awaits
<1>5. verbs' = [verbs EXCEPT ![c] = w] /\ UNCHANGED <<mandateLog, refusals>>
  BY <1>2 DEF FillCache
<1>6. QED BY <1>3, <1>4, <1>5, BudgetMove

\* A stamp fits the budget that is shown; what is not shown yet is beside it.
LEMMA BudgetStamped ==
  ASSUME MandateInv, OrderInv, BudgetInv, NEW c \in Verbs, StampBegins(c)
  PROVE  BudgetInv'
<1>1. /\ verbs \in [Verbs -> CallRecs] /\ verbs[c].at = "look" /\ verbs[c].verb = "write" /\ lines # {}
  BY DEF MandateInv, StampBegins, Stamp
<1>2. PICK B : B = {b \in Verbs : verbs[b].verb = "write" /\ verbs[b].on = governing
                                   /\ verbs[b].at \in {"stamped", "queued", "landed"}}
  OBVIOUS
<1>3. PICK u, n :
        /\ verbs' = [verbs EXCEPT ![c].at = "stamped", ![c].on = governing, ![c].gone = u, ![c].beside = n]
        /\ u \in BOOLEAN /\ u = \E r \in Verbs : verbs[r].verb = "revoke" /\ verbs[r].on = governing
                                                /\ verbs[r].at = "done"
        /\ n = Cardinality(B)
        /\ UNCHANGED <<mandateLog, lines, arrays>>
  BY <1>2, Zenon DEF StampBegins, Stamp, StoreSame
<1>4. UNCHANGED <<mandateLog, refusals>>
  BY DEF StampBegins, Stamp, StoreSame
<1>5. PICK w : w = [verbs[c] EXCEPT !.at = "stamped", !.on = governing, !.gone = u, !.beside = n]
  OBVIOUS
<1>6. w.at = "stamped" /\ w.verb = "write" /\ w.on = governing /\ w.beside = n
  BY <1>1, <1>5 DEF CallRecs
<1>7. verbs' = [verbs EXCEPT ![c] = w]
  BY <1>3, <1>5
<1>8. verbs'[c] = w /\ \A b \in Verbs \ {c} : verbs'[b] = verbs[b]
  BY <1>1, <1>7
<1>9. ~Charging(verbs[c]) /\ ~HasStamped(verbs[c]) /\ ~Awaits(verbs[c]) /\ Charging(w) /\ HasStamped(w)
  BY <1>1, <1>6 DEF Charging, HasStamped, Awaits
<1>10. SUFFICES ASSUME NEW m \in MandateIds PROVE Within(m)' /\ Spent(m)'
  BY DEF BudgetInv
<1>11. Within(m) /\ Spent(m)
  BY DEF BudgetInv
<1>12. Spent(m)'
  <2>1. SUFFICES ASSUME mandateLog.used[m] >= Cap, mandateLog.grant[m].status = "active", refusals = {}
                 PROVE  \E b \in Verbs : verbs'[b].on = m /\ Awaits(verbs'[b])
    BY <1>4 DEF Spent, Awaits
  <2>2. PICK b \in Verbs : verbs[b].on = m /\ Awaits(verbs[b])
    BY <1>11, <2>1 DEF Spent
  <2>3. QED BY <1>8, <1>9, <2>2
<1>13. CASE m # governing
  <2>1. \A b \in Verbs : verbs[b].on = m /\ HasStamped(verbs[b]) =>
          verbs'[b].on = m /\ HasStamped(verbs'[b]) /\ verbs'[b].beside = verbs[b].beside
    BY <1>8, <1>9
  <2>2. Pending(m)' \subseteq Pending(m)
    <3>1. \A b \in Verbs : verbs'[b].on = m /\ Charging(verbs'[b]) => verbs[b].on = m /\ Charging(verbs[b])
      BY <1>6, <1>8, <1>13
    <3>2. QED BY <3>1 DEF Pending, Charging
  <2>3. mandateLog'.used[m] = mandateLog.used[m]
    BY <1>4
  <2>4. QED BY <1>11, <1>12, <2>1, <2>2, <2>3, WithinKeeps
<1>14. CASE m = governing
  <2>1. PICK P, Q : P = Pending(m) /\ Q = Pending(m)'
    OBVIOUS
  <2>2. Q = P \cup {c} /\ c \notin P
    <3>1. \A b \in Verbs : (verbs'[b].on = m /\ Charging(verbs'[b])) <=> (b = c \/ (verbs[b].on = m /\ Charging(verbs[b])))
      BY <1>6, <1>8, <1>9, <1>14
    <3>2. Q = {b \in Verbs : verbs'[b].on = m /\ Charging(verbs'[b])}
      BY <2>1 DEF Pending, Charging
    <3>3. QED BY <1>9, <2>1, <3>1, <3>2 DEF Pending
  <2>3. P \subseteq B /\ IsFiniteSet(B) /\ IsFiniteSet(P) /\ n \in Nat /\ Cardinality(P) \in Nat
        /\ Cardinality(P) <= n
    <3>1. P \in SUBSET B
      BY <1>2, <1>14, <2>1 DEF Pending, Charging
    <3>2. B \in SUBSET Verbs /\ IsFiniteSet(Verbs)
      BY <1>2, MandateAssumption
    <3>3. IsFiniteSet(B)
      BY <3>2, FS_Subset
    <3>4. IsFiniteSet(P) /\ Cardinality(P) <= Cardinality(B)
      BY <3>1, <3>3, FS_Subset
    <3>5. QED BY <1>3, <3>1, <3>3, <3>4, FS_CardinalityType
  <2>4. Cardinality(Q) = Cardinality(P) + 1
    BY <2>2, <2>3, FS_AddElement
  <2>5. /\ Seen.used[m] < Cap /\ Seen = InView /\ Seen \in Folds /\ Cap \in Nat
        /\ mandateLog.used[m] \in Nat /\ Seen.used[m] \in Nat
    <3>1. Seen = InView /\ InView \in Folds /\ mandateLog \in Folds
      BY <1>1, InViewIsFold DEF InView, MandateInv
    <3>2. Seen.used[m] < Cap /\ Cap \in Nat
      BY <1>14, MandateAssumption DEF StampBegins, Fits
    <3>3. QED BY <3>1, <3>2 DEF Folds
  <2>6. mandateLog.used[m] + Cardinality(Q) <= Cap + n
    <3>1. CASE mandateLog.used[m] = Seen.used[m]
      BY <2>3, <2>4, <2>5, <3>1
    <3>2. CASE mandateLog.used[m] # Seen.used[m]
      <4>1. PICK b \in Verbs : verbs[b].at = "landed" /\ mandateLog = Apply(InView, verbs[b].ev)
        BY <2>5, <3>2 DEF OrderInv
      <4>2. PICK e \in LogEvents : e = verbs[b].ev
        BY <4>1, LineFits DEF Sent
      <4>3. PICK s \in Folds : s = InView /\ s = Seen
        BY <2>5
      <4>4. PICK t : t = mandateLog /\ t = Apply(s, e)
        BY <4>1, <4>2, <4>3
      <4>5. e.kind = "usage" /\ m = e.of /\ t.used[m] = s.used[m] + 1
        BY <3>2, <4>3, <4>4, ApplySays DEF OrderInv
      <4>6. verbs[b].verb = "write" /\ verbs[b].on = m
        BY <4>1, <4>2, <4>5, LineFits DEF Sent
      <4>7. b \notin P /\ P \cup {b} \in SUBSET B
        BY <1>2, <1>14, <2>1, <2>3, <4>1, <4>6 DEF Pending, Charging
      <4>8. Cardinality(P \cup {b}) = Cardinality(P) + 1
        BY <2>3, <4>7, FS_AddElement
      <4>9. Cardinality(P \cup {b}) <= n
        BY <1>3, <2>3, <4>7, FS_Subset
      <4>10. QED BY <2>3, <2>4, <2>5, <4>3, <4>4, <4>5, <4>8, <4>9
    <3>3. QED BY <3>1, <3>2
  <2>7. Within(m)'
    <3>1. verbs'[c].on = m /\ HasStamped(verbs'[c]) /\ verbs'[c].beside = n
      BY <1>6, <1>8, <1>9, <1>14
    <3>2. mandateLog'.used[m] + Cardinality(Q) <= Cap + verbs'[c].beside
      BY <1>4, <2>6, <3>1
    <3>3. QED BY <2>1, <3>1, <3>2 DEF Within
  <2>8. QED BY <1>12, <2>7
<1>15. QED BY <1>13, <1>14

\* The writer of a charge looks for the breach; that of an end has ended it.
LEMMA BudgetPushed ==
  ASSUME MandateInv, OrderInv, BudgetInv, arrays <= 1, NEW c \in Verbs, PushLine(c)
  PROVE  BudgetInv'
<1>1. PICK w :
           /\ verbs[c].at = "landed" /\ w.at = NextStage(c) /\ SameCall(verbs[c], w)
           /\ verbs' = [verbs EXCEPT ![c] = w]
           /\ mandateLog = Apply(InView, verbs[c].ev) /\ InView' = mandateLog /\ mandateLog' = mandateLog
           /\ UNCHANGED <<arrays, refusals>> /\ lines # {} /\ lines' # {}
  BY PushIs
<1>2. verbs[c] \in CallRecs /\ Knows(InView, c, verbs[c])
  BY DEF MandateInv, OrderInv
<1>3. w.at \in {"attach", "observe", "done"}
  BY <1>1 DEF NextStage
<1>4. w.verb = verbs[c].verb /\ w.on = verbs[c].on /\ w.beside = verbs[c].beside
  BY <1>1 DEF SameCall
<1>5. ~Charging(w) /\ (HasStamped(verbs[c]) => HasStamped(w))
  BY <1>3, <1>4 DEF Charging, HasStamped
<1>6. ASSUME Awaits(verbs[c])
      PROVE  Awaits(w) \/ ~(mandateLog.used[w.on] >= Cap /\ mandateLog.grant[w.on].status = "active")
  <2>1. verbs[c].verb = "write" /\ verbs[c].ev \in {Event("usage", verbs[c].on), Event("exhausted", verbs[c].on)}
    BY <1>1, <1>2, <1>6 DEF Awaits, Knows, Sent
  <2>2. CASE verbs[c].ev = Event("usage", verbs[c].on)
    <3>1. w.at = "observe"
      BY <1>1, <2>1, <2>2 DEF NextStage, Event
    <3>2. QED BY <1>4, <2>1, <3>1 DEF Awaits
  <2>3. CASE verbs[c].ev = Event("exhausted", verbs[c].on)
    <3>1. PICK e \in LogEvents : e = verbs[c].ev
      BY <1>1, LineFits DEF Sent
    <3>2. e.kind = "exhausted" /\ e.of = w.on
      BY <1>4, <2>3, <3>1 DEF Event
    <3>3. PICK s \in Folds : s = InView
      BY InViewIsFold
    <3>4. PICK t : t = mandateLog /\ t = Apply(s, e)
      BY <1>1, <3>1, <3>3
    <3>5. t.grant[e.of].status # "active"
      BY <3>2, <3>4, ChargedSays
    <3>6. QED BY <3>2, <3>4, <3>5
  <2>4. QED BY <2>1, <2>2, <2>3
<1>7. QED BY <1>1, <1>4, <1>5, <1>6, BudgetMove

\* A charge that lands was pending.
LEMMA BudgetLands ==
  ASSUME MandateInv, OrderInv, BudgetInv, LineLands
  PROVE  BudgetInv'
<1>1. PICK c, w :
           /\ c \in Verbs /\ verbs[c].at = "queued" /\ w.at = "landed" /\ SameCall(verbs[c], w)
           /\ w.ev = verbs[c].ev /\ w.array = verbs[c].array
           /\ verbs' = [verbs EXCEPT ![c] = w]
           /\ mandateLog = InView /\ mandateLog' = Apply(InView, verbs[c].ev)
           /\ UNCHANGED <<lines, arrays, refusals>> /\ InView' = InView /\ lines # {}
           /\ \A b \in Verbs : verbs[b].at # "landed"
  BY LandingIs
<1>2. verbs \in [Verbs -> CallRecs]
  BY DEF MandateInv
<1>3. verbs'[c] = w /\ \A b \in Verbs \ {c} : verbs'[b] = verbs[b]
  BY <1>1, <1>2
<1>4. w.verb = verbs[c].verb /\ w.on = verbs[c].on /\ w.beside = verbs[c].beside
  BY <1>1 DEF SameCall
<1>5. PICK s \in Folds : s = InView /\ s = mandateLog
  BY <1>1, InViewIsFold
<1>6. PICK e \in LogEvents : e = verbs[c].ev
  BY <1>1, LineFits DEF Sent
<1>7. PICK t : t = mandateLog' /\ t = Apply(s, e)
  BY <1>1, <1>5, <1>6
<1>8. e.kind = "usage" => verbs[c].verb = "write" /\ e.of = verbs[c].on
  BY <1>1, <1>6, LineFits DEF Sent
<1>9. SUFFICES ASSUME NEW m \in MandateIds PROVE Within(m)' /\ Spent(m)'
  BY DEF BudgetInv
<1>10. Within(m) /\ Spent(m)
  BY DEF BudgetInv
<1>11. /\ t.used[m] = s.used[m] \/ (e.kind = "usage" /\ m = e.of /\ t.used[m] = s.used[m] + 1)
       /\ t.grant[m].status = "active" => s.grant[m].status = "active" \/ t.used[m] = 0
  BY <1>5, <1>7, ApplySays DEF OrderInv
<1>12. ~Charging(w) /\ (HasStamped(verbs[c]) => HasStamped(w)) /\ (verbs[c].verb = "write" => Awaits(w))
  BY <1>1, <1>4 DEF Charging, HasStamped, Awaits
<1>13. s.used[m] \in Nat /\ Cap \in Nat \ {0} /\ \A b \in Verbs : verbs[b].beside \in Nat
  BY <1>2, MandateAssumption DEF Folds, CallRecs
<1>14. PICK P, Q : P = Pending(m) /\ Q = Pending(m)'
  OBVIOUS
<1>15. Q = P \ {c}
  <2>1. \A b \in Verbs : (verbs'[b].on = m /\ Charging(verbs'[b])) <=> (b # c /\ verbs[b].on = m /\ Charging(verbs[b]))
    BY <1>3, <1>12
  <2>2. Q = {b \in Verbs : verbs'[b].on = m /\ Charging(verbs'[b])}
    BY <1>14 DEF Pending, Charging
  <2>3. QED BY <1>14, <2>1, <2>2 DEF Pending
<1>16. \A b \in Verbs : verbs[b].on = m /\ HasStamped(verbs[b]) =>
          verbs'[b].on = m /\ HasStamped(verbs'[b]) /\ verbs'[b].beside = verbs[b].beside
  BY <1>3, <1>4, <1>12
<1>17. Within(m)'
  <2>1. CASE t.used[m] = s.used[m]
    <3>1. Pending(m)' \subseteq Pending(m)
      BY <1>14, <1>15
    <3>2. mandateLog'.used[m] = mandateLog.used[m]
      BY <1>5, <1>7, <2>1
    <3>3. QED BY <1>10, <1>16, <3>1, <3>2, WithinKeeps
  <2>2. CASE e.kind = "usage" /\ m = e.of /\ t.used[m] = s.used[m] + 1
    <3>1. c \in P
      BY <1>1, <1>6, <1>8, <1>14, <2>2 DEF Pending, Charging
    <3>2. PICK b \in Verbs : /\ verbs[b].on = m /\ HasStamped(verbs[b])
                             /\ mandateLog.used[m] + Cardinality(P) <= Cap + verbs[b].beside
      BY <1>10, <1>14, <3>1 DEF Within
    <3>3. IsFiniteSet(P) /\ Cardinality(P) \in Nat /\ Cardinality(Q) \in Nat
      BY <1>14, <1>15, PendingCounts
    <3>4. Cardinality(Q) = Cardinality(P) - 1
      BY <1>15, <3>1, <3>3, FS_RemoveElement
    <3>5. verbs'[b].on = m /\ HasStamped(verbs'[b]) /\ verbs'[b].beside = verbs[b].beside
      BY <1>16, <3>2
    <3>6. mandateLog'.used[m] + Cardinality(Q) <= Cap + verbs'[b].beside
      BY <1>5, <1>7, <1>13, <2>2, <3>2, <3>3, <3>4, <3>5
    <3>7. QED BY <1>14, <3>5, <3>6 DEF Within
  <2>3. QED BY <1>11, <2>1, <2>2
<1>18. Spent(m)'
  <2>1. SUFFICES ASSUME t.used[m] >= Cap, t.grant[m].status = "active", refusals = {}
                 PROVE  \E b \in Verbs : verbs'[b].on = m /\ Awaits(verbs'[b])
    BY <1>1, <1>7 DEF Spent, Awaits
  <2>2. s.grant[m].status = "active"
    BY <1>11, <1>13, <2>1
  <2>3. CASE t.used[m] = s.used[m]
    <3>1. PICK b \in Verbs : verbs[b].on = m /\ Awaits(verbs[b])
      BY <1>5, <1>10, <2>1, <2>2, <2>3 DEF Spent
    <3>2. CASE b = c
      BY <1>3, <1>4, <1>12, <3>1, <3>2 DEF Awaits
    <3>3. CASE b # c
      BY <1>3, <3>1, <3>3
    <3>4. QED BY <3>2, <3>3
  <2>4. CASE e.kind = "usage" /\ m = e.of
    BY <1>1, <1>3, <1>4, <1>8, <1>12, <2>4
  <2>5. QED BY <1>11, <2>3, <2>4
<1>19. QED BY <1>17, <1>18

LEMMA BudgetStep ==
  ASSUME MandateInv, OrderInv, BudgetInv, [MandatesNext]_mvars, arrays <= 1
  PROVE  BudgetInv'
<1>1. CASE UNCHANGED <<mandateLog, lines, arrays, verbs, refusals>>
  <2>1. \A m : Within(m)' <=> Within(m)
    BY <1>1 DEF Within, HasStamped, Pending, Charging
  <2>2. \A m : Spent(m)' <=> Spent(m)
    BY <1>1 DEF Spent, Awaits
  <2>3. QED BY <2>1, <2>2 DEF BudgetInv
<1>2. QED
  BY <1>1, StepSays, BudgetTurns, BudgetGranted, BudgetStamped, BudgetFilled, BudgetPushed, BudgetLands

-----------------------------------------------------------------------------
LEMMA OneArrayStep == MandateInv /\ OneArrayInv /\ [MandatesNext]_mvars => OneArrayInv'
<1> SUFFICES ASSUME MandateInv, OneArrayInv, [MandatesNext]_mvars, arrays' <= 1
             PROVE  OrderInv' /\ GrantInv' /\ BudgetInv'
  BY DEF OneArrayInv
<1>1. arrays <= 1
  <2>1. arrays \in Nat
    BY DEF MandateInv
  <2>2. arrays' = arrays \/ arrays' = arrays + 1
    BY StepSays DEF Stays, GrantBegins, LookUp, StampBegins, Stamp, FillCache, PushLine, LineLands, StoreSame
  <2>3. QED BY <2>1, <2>2
<1>2. OrderInv /\ GrantInv /\ BudgetInv
  BY <1>1 DEF OneArrayInv
<1>3. QED BY <1>1, <1>2, OrderStep, GrantStep, BudgetStep

LEMMA MandatesHold == MandateInv /\ OneArrayInv => MandatesSafe
<1> SUFFICES ASSUME MandateInv, OneArrayInv PROVE MandatesSafe
  OBVIOUS
<1>1. MandatesTypeOK
  <2>1. lines = {} \/ Cardinality(lines) = 1
    <3>1. ASSUME NEW s \in lines PROVE Cardinality(lines) = 1
      <4>1. lines = {s}
        BY DEF MandateInv
      <4>2. QED BY <4>1, FS_Singleton
    <3>2. QED BY <3>1
  <2>2. QED BY <2>1 DEF MandatesTypeOK, MandateInv
<1>2. arrays \in Nat
  BY DEF MandateInv
<1>3. ASSUME arrays = 1 PROVE CacheIsFile
  <2>1. OrderInv /\ lines # {} /\ InView = Seen
    BY <1>3 DEF OneArrayInv, OrderInv, InView
  <2>2. QED BY <2>1 DEF CacheIsFile, OrderInv
<1>4. RevokedStampsNothing
  <2>1. ASSUME NEW c \in Verbs, arrays <= 1 PROVE ~verbs[c].gone
    BY <2>1 DEF OneArrayInv, OrderInv, Knows
  <2>2. QED BY <1>2, <2>1 DEF RevokedStampsNothing
<1>5. OneGrant
  <2>1. SUFFICES ASSUME arrays <= 1 PROVE OneIn(mandateLog)
    BY <1>2 DEF OneGrant, OneIn, Older
  <2>2. QED BY <2>1 DEF OneArrayInv, GrantInv
<1>6. ASSUME arrays = 1 PROVE BudgetHeld
  <2>1. SUFFICES ASSUME NEW m \in MandateIds
                 PROVE  /\ mandateLog.used[m] > Cap =>
                            \E k \in {verbs[c].beside : c \in {b \in Verbs : verbs[b].verb = "write" /\ verbs[b].on = m}} :
                              mandateLog.used[m] <= Cap + k
                        /\ mandateLog.used[m] >= Cap /\ mandateLog.grant[m].status = "active"
                           => \/ refusals # {}
                              \/ \E c \in Verbs : verbs[c].on = m /\ verbs[c].at \in {"landed", "observe", "queued"}
    BY DEF BudgetHeld
  <2>2. Within(m) /\ Spent(m)
    BY <1>6 DEF OneArrayInv, BudgetInv
  <2>3. /\ mandateLog.used[m] \in Nat /\ Cap \in Nat /\ Cardinality(Pending(m)) \in Nat
        /\ \A b \in Verbs : verbs[b].beside \in Nat
    BY MandateAssumption, PendingCounts DEF MandateInv, Folds, CallRecs
  <2>4. ASSUME mandateLog.used[m] > Cap
        PROVE  \E k \in {verbs[c].beside : c \in {b \in Verbs : verbs[b].verb = "write" /\ verbs[b].on = m}} :
                 mandateLog.used[m] <= Cap + k
    <3>1. PICK c \in Verbs : /\ verbs[c].on = m /\ HasStamped(verbs[c])
                             /\ mandateLog.used[m] + Cardinality(Pending(m)) <= Cap + verbs[c].beside
      BY <2>2, <2>3, <2>4 DEF Within
    <3>2. mandateLog.used[m] <= Cap + verbs[c].beside
      BY <2>3, <3>1
    <3>3. QED BY <3>1, <3>2 DEF HasStamped
  <2>5. QED BY <2>2, <2>4 DEF Spent, Awaits
<1>7. QED
  <2>1. arrays # 1 => CacheIsFile /\ BudgetHeld
    BY DEF CacheIsFile, BudgetHeld
  <2>2. QED BY <1>1, <1>3, <1>4, <1>5, <1>6, <2>1 DEF MandatesSafe

\* While one array was made of the cache (mandate-store.ts): what the pane and the
\* observer read is the file save the line that has just landed, a confirmed revocation
\* stamps no more proposals, two grants of a negotiation are active only where they were
\* given beside each other, and no budget is charged past what was stamped together.
THEOREM MandatesAreSafe == MandatesSpec => []MandatesSafe
<1>1. MandatesInit => MandateInv /\ OneArrayInv
  BY MandateInvInit, OrderInit, GrantInit, BudgetInit DEF OneArrayInv
<1>2. (MandateInv /\ OneArrayInv) /\ [MandatesNext]_mvars => (MandateInv /\ OneArrayInv)'
  BY MandateStep, OneArrayStep
<1>3. QED BY <1>1, <1>2, MandatesHold, PTL DEF MandatesSpec

-----------------------------------------------------------------------------
(***************************************************************************)
(* The baseline store.  Where each acceptance is, in the cache and on the  *)
(* disk, and what a rekey carries while it is under way, unless another    *)
(* call has crossed it; FollowedOK, where the last acceptance of a note    *)
(* stands, and PlanOK, that the repair's plan goes by identity.            *)
(***************************************************************************)
\* What has its type: what is held was given, to a note, and has a number.
GivenAt == [NotePaths -> SUBSET given]
RekeyCalls == [from : NotePaths, to : NotePaths, by : {"event", "repair"}, at : {"write", "remove"}, rec : given]

BaselineShape ==
  /\ placed \in [Notes -> NotePaths \cup {Nowhere}]
  /\ \A m, n \in Notes : placed[m] = placed[n] /\ placed[m] # Nowhere => m = n
  /\ count \in Nat /\ given \subseteq [note : Notes, k : 1..count]
  /\ cache \in GivenAt /\ blobs \in GivenAt
  /\ \A q \in NotePaths : \A r, s \in cache[q] : r = s
  /\ \A q \in NotePaths : \A r, s \in blobs[q] : r = s
  /\ setting \subseteq [path : NotePaths, rec : [note : Notes, k : 1..count]]
  /\ rekeys \subseteq RekeyCalls /\ \A m \in rekeys : m.from # m.to
  /\ plan \subseteq [from : NotePaths, to : NotePaths, rec : given, then : [Notes -> NotePaths \cup {Nowhere}]]
  /\ up \in BOOLEAN /\ refusing \in BOOLEAN

DownIsEmpty ==
  /\ ~up => setting = {} /\ rekeys = {} /\ plan = {} /\ \A q \in NotePaths : cache[q] = {}
  /\ plan # {} => <<"resolved">> \notin next

\* A rekey goes on alone, or what it carries has been crossed, or is to be.
Meets(x, m) == x.from \in {m.from, m.to} \/ x.to \in {m.from, m.to}
Unhurt(m)   == m.rec \notin crossed /\ \A x \in rekeys : Meets(x, m) => x = m

RekeysOK ==
  /\ \A m \in rekeys : Unhurt(m) => m.rec \in cache[m.to]
  /\ \A m \in rekeys : Unhurt(m) /\ m.at = "write" => m.rec \in blobs[m.from]

\* What stands at a path is on its way there if any rekey touches the path.
OnItsWay(q, r) == \E m \in rekeys : m.rec = r /\ m.to = q
CacheOK ==
  \A q \in NotePaths : \A r \in cache[q] \ crossed :
    /\ (\E m \in rekeys : q \in {m.from, m.to}) => OnItsWay(q, r)
    /\ r \in blobs[q] \/ \E m \in rekeys : m.rec = r /\ m.to = q /\ m.at = "write"

BlobsOK ==
  up => \A q \in NotePaths :
    \/ blobs[q] \cap crossed # {} \/ q \in stale \/ blobs[q] = {}
    \/ blobs[q] \subseteq cache[q] /\ \A m \in rekeys : m.to = q => m.at # "write"
    \/ \E m \in rekeys : m.from = q /\ blobs[q] = {m.rec}

\* Where an acceptance is, in the cache and on the disk.
InMemory(r) == \E q \in NotePaths : r \in cache[q]
InStore(r) ==
  \/ \E q \in NotePaths : r \in blobs[q] /\ (up => r \in cache[q])
  \/ \E m \in rekeys : m.rec = r /\ m.at = "write" /\ r \in blobs[m.from]

GivenOK == \A r \in given \ (over \cup crossed) : (up => InMemory(r)) /\ InStore(r)

LatestOf(n, r) == r \in given /\ r.note = n /\ \A s \in given : s.note = n => s.k <= r.k
StandsBy(n, r) ==
  /\ placed[n] # Nowhere
  /\ IF up THEN r \in cache[placed[n]] \/ \E m \in plan : m.rec = r
     ELSE r \in blobs[placed[n]]

FollowedOK == \A n \in Notes \ strayed : \A r \in given : LatestOf(n, r) => r \in crossed \/ StandsBy(n, r)

PlanOK ==
  \A m \in plan : \A n \in Notes :
    m.then[n] # Nowhere /\ UidOf[n] = UidOf[m.rec.note] => m.then[n] = m.to

BaselineInv ==
  /\ BaselineShape /\ DownIsEmpty /\ RekeysOK /\ CacheOK /\ BlobsOK /\ GivenOK /\ FollowedOK /\ PlanOK /\ ByIdentity

-----------------------------------------------------------------------------
LEMMA ClashingMeets ==
  ASSUME NEW m \in rekeys
  PROVE  /\ crossed \subseteq Clashing(m)
         /\ \A x \in rekeys : Meets(x, m) /\ x # m => m.rec \in Clashing(m) /\ x.rec \in Clashing(m)
<1>1. ASSUME NEW x \in rekeys, Meets(x, m), x # m PROVE x \in Touching(m)
  BY <1>1 DEF Touching, Meets
<1>2. QED BY <1>1 DEF Clashing

\* What the parts say of one path, one acceptance, one call.
LEMMA ShapeFacts ==
  ASSUME BaselineShape
  PROVE  /\ \A q \in NotePaths : cache[q] \subseteq given /\ blobs[q] \subseteq given
         /\ \A q \in NotePaths : \A r \in cache[q] : cache[q] = {r}
         /\ \A q \in NotePaths : \A r \in blobs[q] : blobs[q] = {r}
         /\ \A m \in rekeys : /\ m.from \in NotePaths /\ m.to \in NotePaths /\ m.from # m.to
                              /\ m.rec \in given /\ m.at \in {"write", "remove"}
                              /\ m = [from |-> m.from, to |-> m.to, by |-> m.by, at |-> m.at, rec |-> m.rec]
         /\ \A r \in given : r.note \in Notes /\ r.k \in Nat
<1>1. cache \in [NotePaths -> SUBSET given] /\ blobs \in [NotePaths -> SUBSET given]
  BY DEF BaselineShape, GivenAt
<1>2. \A m \in rekeys : /\ m.from \in NotePaths /\ m.to \in NotePaths /\ m.from # m.to
                        /\ m.rec \in given /\ m.at \in {"write", "remove"}
                        /\ m = [from |-> m.from, to |-> m.to, by |-> m.by, at |-> m.at, rec |-> m.rec]
  BY DEF BaselineShape, RekeyCalls
<1>3. \A r \in given : r.note \in Notes /\ r.k \in Nat
  BY DEF BaselineShape
<1>4. \A q \in NotePaths : \A r \in cache[q] : cache[q] = {r}
  BY <1>1 DEF BaselineShape
<1>5. \A q \in NotePaths : \A r \in blobs[q] : blobs[q] = {r}
  BY <1>1 DEF BaselineShape
<1>6. QED BY <1>1, <1>2, <1>3, <1>4, <1>5

-----------------------------------------------------------------------------
\* What a step of the notes, of a plan or of an acceptance leaves alone, stays right.
LEMMA StoreStays ==
  ASSUME BaselineInv, UNCHANGED <<cache, blobs, rekeys, up, given, over, stale, crossed>>
  PROVE  RekeysOK' /\ CacheOK' /\ BlobsOK' /\ GivenOK'
<1>1. RekeysOK'
  BY DEF BaselineInv, RekeysOK, Unhurt
<1>2. CacheOK'
  BY DEF BaselineInv, CacheOK, OnItsWay
<1>3. BlobsOK'
  BY DEF BaselineInv, BlobsOK
<1>4. GivenOK'
  BY DEF BaselineInv, GivenOK, InMemory, InStore
<1>5. QED BY <1>1, <1>2, <1>3, <1>4

-----------------------------------------------------------------------------
\* LandRekey: the blob is at the new path.
LEMMA LandRekeyKeeps ==
  ASSUME BaselineInv, NEW m \in rekeys, LandRekey(m)
  PROVE  BaselineInv'
<1>0. PICK n : n = [m EXCEPT !.at = "remove"]
  OBVIOUS
<1>1. /\ m.at = "write" /\ blobs' = [blobs EXCEPT ![m.to] = {m.rec}]
      /\ rekeys' = (rekeys \ {m}) \cup {n} /\ crossed' = Clashing(m)
      /\ UNCHANGED <<placed, cache, setting, plan, up, refusing, next, count, given, over, strayed, stale, misled>>
  BY <1>0 DEF LandRekey
<1>2. BaselineShape /\ DownIsEmpty /\ RekeysOK /\ CacheOK /\ BlobsOK /\ GivenOK /\ FollowedOK /\ PlanOK /\ ByIdentity
  BY DEF BaselineInv
<1>3. /\ n.from = m.from /\ n.to = m.to /\ n.rec = m.rec /\ n.at = "remove" /\ n \in RekeyCalls
      /\ m.from \in NotePaths /\ m.to \in NotePaths /\ m.from # m.to /\ m.rec \in given
  BY <1>0, <1>2 DEF BaselineShape, RekeyCalls
<1>4. /\ blobs'[m.to] = {m.rec} /\ \A q \in NotePaths : q # m.to => blobs'[q] = blobs[q]
      /\ blobs' \in GivenAt
  BY <1>1, <1>2, <1>3 DEF BaselineShape, GivenAt
<1>5. /\ crossed \subseteq crossed'
      /\ \A x \in rekeys : Meets(x, m) /\ x # m => m.rec \in crossed' /\ x.rec \in crossed'
  BY <1>1, ClashingMeets
<1>6. m.rec \notin crossed' => Unhurt(m)
  BY <1>5 DEF Unhurt
<1>7. m.rec \notin crossed' => m.rec \in cache[m.to]
  BY <1>2, <1>6 DEF RekeysOK
<1>8. BaselineShape'
  <2>1. \A q \in NotePaths : \A r, s \in blobs'[q] : r = s
    BY <1>2, <1>4 DEF BaselineShape
  <2>2. rekeys' \subseteq RekeyCalls /\ \A x \in rekeys' : x.from # x.to
    BY <1>1, <1>2, <1>3 DEF BaselineShape
  <2>3. QED BY <1>1, <1>2, <1>4, <2>1, <2>2 DEF BaselineShape, GivenAt, RekeyCalls
<1>9. RekeysOK'
  <2>1. ASSUME NEW x \in rekeys', Unhurt(x)'
        PROVE  x.rec \in cache'[x.to] /\ (x.at = "write" => x.rec \in blobs'[x.from])
    <3>1. x.rec \notin crossed' /\ \A y \in rekeys' : Meets(y, x) => y = x
      BY <2>1 DEF Unhurt, Meets
    <3>2. CASE x = n
      BY <1>1, <1>3, <1>7, <3>1, <3>2
    <3>3. CASE x # n
      <4>1. x \in rekeys /\ x # m /\ ~Meets(m, x)
        BY <1>1, <1>3, <3>1, <3>3 DEF Meets
      <4>2. Unhurt(x)
        BY <1>1, <1>5, <3>1, <4>1 DEF Unhurt
      <4>3. x.from # m.to /\ x.from \in NotePaths
        BY <1>2, <4>1 DEF Meets, BaselineShape, RekeyCalls
      <4>4. QED BY <1>1, <1>2, <1>4, <4>1, <4>2, <4>3 DEF RekeysOK
    <3>4. QED BY <3>2, <3>3
  <2>2. QED BY <2>1 DEF RekeysOK
<1>10. CacheOK'
  <2>1. ASSUME NEW q \in NotePaths, NEW r \in cache'[q] \ crossed'
        PROVE  /\ (\E x \in rekeys' : q \in {x.from, x.to}) => OnItsWay(q, r)'
               /\ r \in blobs'[q] \/ \E x \in rekeys' : x.rec = r /\ x.to = q /\ x.at = "write"
    <3>1. /\ (\E x \in rekeys : q \in {x.from, x.to}) => OnItsWay(q, r)
          /\ r \in blobs[q] \/ \E x \in rekeys : x.rec = r /\ x.to = q /\ x.at = "write"
      BY <1>1, <1>2, <1>5, <2>1 DEF CacheOK
    <3>2. (\E x \in rekeys' : q \in {x.from, x.to}) => \E x \in rekeys : q \in {x.from, x.to}
      BY <1>1, <1>3
    <3>3. OnItsWay(q, r) => OnItsWay(q, r)'
      BY <1>1, <1>3 DEF OnItsWay
    <3>4. CASE q = m.to
      <4>1. PICK w \in rekeys : w.rec = r /\ w.to = q
        BY <3>1, <3>4 DEF OnItsWay
      <4>2. w = m
        BY <1>5, <2>1, <3>4, <4>1 DEF Meets
      <4>3. QED BY <1>4, <3>1, <3>2, <3>3, <3>4, <4>1, <4>2
    <3>5. CASE q # m.to
      BY <1>1, <1>4, <3>1, <3>2, <3>3, <3>5
    <3>6. QED BY <3>4, <3>5
  <2>2. QED BY <2>1 DEF CacheOK
<1>11. BlobsOK'
  <2>1. ASSUME up, NEW q \in NotePaths
        PROVE  \/ blobs'[q] \cap crossed' # {} \/ q \in stale' \/ blobs'[q] = {}
               \/ blobs'[q] \subseteq cache'[q] /\ \A x \in rekeys' : x.to = q => x.at # "write"
               \/ \E x \in rekeys' : x.from = q /\ blobs'[q] = {x.rec}
    <3>1. CASE q = m.to
      <4>1. CASE m.rec \in crossed'
        BY <1>4, <3>1, <4>1
      <4>2. CASE m.rec \notin crossed'
        <5>1. \A x \in rekeys : x.to = q => x = m
          BY <1>5, <3>1, <4>2 DEF Meets
        <5>2. \A x \in rekeys' : x.to = q => x.at # "write"
          BY <1>1, <1>3, <5>1
        <5>3. QED BY <1>1, <1>4, <1>7, <3>1, <4>2, <5>2
      <4>3. QED BY <4>1, <4>2
    <3>2. CASE q # m.to
      <4>1. \/ blobs[q] \cap crossed # {} \/ q \in stale \/ blobs[q] = {}
            \/ blobs[q] \subseteq cache[q] /\ \A x \in rekeys : x.to = q => x.at # "write"
            \/ \E x \in rekeys : x.from = q /\ blobs[q] = {x.rec}
        BY <1>2, <2>1 DEF BlobsOK
      <4>2. blobs'[q] = blobs[q] /\ cache' = cache /\ stale' = stale
        BY <1>1, <1>4, <3>2
      <4>3. (\A x \in rekeys : x.to = q => x.at # "write") => \A x \in rekeys' : x.to = q => x.at # "write"
        BY <1>1, <1>3
      <4>4. (\E x \in rekeys : x.from = q /\ blobs[q] = {x.rec}) => \E x \in rekeys' : x.from = q /\ blobs[q] = {x.rec}
        BY <1>1, <1>3
      <4>5. QED BY <1>5, <4>1, <4>2, <4>3, <4>4
    <3>3. QED BY <3>1, <3>2
  <2>2. QED BY <1>1, <2>1 DEF BlobsOK
<1>12. GivenOK'
  <2>1. ASSUME NEW r \in given' \ (over' \cup crossed') PROVE (up' => InMemory(r)') /\ InStore(r)'
    <3>1. r \in given \ (over \cup crossed) /\ r \notin crossed'
      BY <1>1, <1>5, <2>1
    <3>2. (up => InMemory(r)) /\ InStore(r)
      BY <1>2, <3>1 DEF GivenOK
    <3>3. up => InMemory(r)'
      BY <1>1, <3>2 DEF InMemory
    <3>4. ASSUME NEW q \in NotePaths, r \in blobs[q], up => r \in cache[q] PROVE InStore(r)'
      <4>1. CASE q # m.to
        BY <1>1, <1>4, <3>4, <4>1 DEF InStore
      <4>2. CASE q = m.to
        <5>1. r \in cache[q]
          BY <1>2, <3>4 DEF DownIsEmpty
        <5>2. PICK w \in rekeys : w.rec = r /\ w.to = q
          BY <1>2, <3>1, <4>2, <5>1 DEF CacheOK, OnItsWay
        <5>3. w = m
          BY <1>5, <3>1, <4>2, <5>2 DEF Meets
        <5>4. QED BY <1>1, <1>3, <1>4, <4>2, <5>1, <5>2, <5>3 DEF InStore
      <4>3. QED BY <4>1, <4>2
    <3>5. ASSUME NEW w \in rekeys, w.rec = r, w.at = "write", r \in blobs[w.from] PROVE InStore(r)'
      <4>1. CASE w = m
        BY <1>1, <1>3, <1>4, <1>7, <3>1, <3>5, <4>1 DEF InStore
      <4>2. CASE w # m
        <5>1. w.from # m.to /\ w.from \in NotePaths /\ w \in rekeys'
          BY <1>1, <1>2, <1>5, <3>1, <3>5, <4>2 DEF Meets, BaselineShape, RekeyCalls
        <5>2. QED BY <1>4, <3>5, <5>1 DEF InStore
      <4>3. QED BY <4>1, <4>2
    <3>6. QED BY <1>1, <3>2, <3>3, <3>4, <3>5 DEF InStore
  <2>2. QED BY <2>1 DEF GivenOK
<1>13. DownIsEmpty'
  BY <1>1, <1>2 DEF DownIsEmpty
<1>14. FollowedOK'
  <2>1. ASSUME NEW x \in Notes \ strayed', NEW r \in given', LatestOf(x, r)' PROVE r \in crossed' \/ StandsBy(x, r)'
    <3>1. up
      BY <1>2 DEF DownIsEmpty
    <3>2. r \in crossed \/ StandsBy(x, r)
      BY <1>1, <1>2, <2>1 DEF FollowedOK, LatestOf
    <3>3. QED BY <1>1, <1>5, <3>1, <3>2 DEF StandsBy
  <2>2. QED BY <2>1 DEF FollowedOK
<1>15. PlanOK' /\ ByIdentity'
  BY <1>1, <1>2 DEF PlanOK, ByIdentity
<1>16. QED BY <1>8, <1>9, <1>10, <1>11, <1>12, <1>13, <1>14, <1>15 DEF BaselineInv
-----------------------------------------------------------------------------
\* RemoveOld: the old blob is gone, or left behind.
LEMMA RemoveOldKeeps ==
  ASSUME BaselineInv, NEW m \in rekeys, RemoveOld(m)
  PROVE  BaselineInv'
<1>1. /\ m.at = "remove" /\ rekeys' = rekeys \ {m} /\ crossed' = Clashing(m)
      /\ UNCHANGED <<placed, cache, setting, plan, up, refusing, count, given, over, strayed, misled>>
      /\ next' \subseteq next
  BY DEF RemoveOld, IoFails, Happens
<1>2. BaselineShape /\ DownIsEmpty /\ RekeysOK /\ CacheOK /\ BlobsOK /\ GivenOK /\ FollowedOK /\ PlanOK /\ ByIdentity
  BY DEF BaselineInv
<1>3. m.from \in NotePaths /\ m.to \in NotePaths /\ m.from # m.to /\ m.rec \in given
  BY <1>2 DEF BaselineShape, RekeyCalls
<1>4. /\ \A q \in NotePaths : q # m.from => blobs'[q] = blobs[q]
      /\ blobs' \in GivenAt /\ blobs'[m.from] \subseteq blobs[m.from]
      /\ blobs'[m.from] = {} \/ m.from \in stale'
      /\ stale \subseteq stale'
      /\ blobs' = blobs \/ blobs'[m.from] = {}
  <2>1. \/ blobs' = [blobs EXCEPT ![m.from] = {}] /\ UNCHANGED <<stale, next>>
        \/ stale' = stale \cup {m.from} /\ UNCHANGED blobs
    BY DEF RemoveOld, Removed
  <2>2. CASE blobs' = [blobs EXCEPT ![m.from] = {}] /\ UNCHANGED <<stale, next>>
    BY <1>2, <1>3, <2>2 DEF BaselineShape, GivenAt
  <2>3. CASE stale' = stale \cup {m.from} /\ UNCHANGED blobs
    BY <1>2, <1>3, <2>3 DEF BaselineShape, GivenAt
  <2>4. QED BY <2>1, <2>2, <2>3
<1>5. /\ crossed \subseteq crossed'
      /\ \A x \in rekeys : Meets(x, m) /\ x # m => m.rec \in crossed' /\ x.rec \in crossed'
  BY <1>1, ClashingMeets
<1>6. \A q \in NotePaths : \A r \in cache[q] \ crossed' : q # m.from
  <2>1. SUFFICES ASSUME NEW r \in cache[m.from], r \notin crossed' PROVE FALSE
    BY <1>3
  <2>2. PICK w \in rekeys : w.rec = r /\ w.to = m.from
    BY <1>2, <1>3, <1>5, <2>1 DEF CacheOK, OnItsWay
  <2>3. w # m /\ Meets(w, m)
    BY <1>3, <2>2 DEF Meets
  <2>4. QED BY <1>5, <2>1, <2>2, <2>3
<1>7. BaselineShape'
  <2>1. \A q \in NotePaths : \A r, s \in blobs'[q] : r = s
    BY <1>2, <1>4 DEF BaselineShape
  <2>2. QED BY <1>1, <1>2, <1>4, <2>1 DEF BaselineShape, GivenAt, RekeyCalls
<1>8. RekeysOK'
  <2>1. ASSUME NEW x \in rekeys', Unhurt(x)'
        PROVE  x.rec \in cache'[x.to] /\ (x.at = "write" => x.rec \in blobs'[x.from])
    <3>1. x.rec \notin crossed' /\ (\A y \in rekeys' : Meets(y, x) => y = x) /\ x \in rekeys /\ x # m
      BY <1>1, <2>1 DEF Unhurt, Meets
    <3>2. ~Meets(x, m)
      BY <1>5, <3>1
    <3>3. x.from # m.from /\ x.from \in NotePaths /\ ~Meets(m, x)
      BY <1>2, <3>1, <3>2 DEF Meets, BaselineShape, RekeyCalls
    <3>4. Unhurt(x)
      BY <1>1, <1>5, <3>1, <3>3 DEF Unhurt
    <3>5. QED BY <1>1, <1>2, <1>4, <3>1, <3>3, <3>4 DEF RekeysOK
  <2>2. QED BY <2>1 DEF RekeysOK
<1>9. CacheOK'
  <2>1. ASSUME NEW q \in NotePaths, NEW r \in cache'[q] \ crossed'
        PROVE  /\ (\E x \in rekeys' : q \in {x.from, x.to}) => OnItsWay(q, r)'
               /\ r \in blobs'[q] \/ \E x \in rekeys' : x.rec = r /\ x.to = q /\ x.at = "write"
    <3>1. /\ (\E x \in rekeys : q \in {x.from, x.to}) => OnItsWay(q, r)
          /\ r \in blobs[q] \/ \E x \in rekeys : x.rec = r /\ x.to = q /\ x.at = "write"
      BY <1>1, <1>2, <1>5, <2>1 DEF CacheOK
    <3>2. ASSUME NEW y \in rekeys', q \in {y.from, y.to} PROVE OnItsWay(q, r)'
      <4>1. PICK w \in rekeys : w.rec = r /\ w.to = q
        BY <1>1, <3>1, <3>2 DEF OnItsWay
      <4>2. w # m
        <5>1. ASSUME w = m PROVE FALSE
          <6>1. y \in rekeys /\ y # m /\ Meets(y, m)
            BY <1>1, <3>2, <4>1, <5>1 DEF Meets
          <6>2. QED BY <1>5, <2>1, <4>1, <5>1, <6>1
        <5>2. QED BY <5>1
      <4>3. QED BY <1>1, <4>1, <4>2 DEF OnItsWay
    <3>3. q # m.from
      BY <1>1, <1>6, <2>1
    <3>4. QED BY <1>1, <1>4, <3>1, <3>2, <3>3
  <2>2. QED BY <2>1 DEF CacheOK
<1>10. BlobsOK'
  <2>1. ASSUME up, NEW q \in NotePaths
        PROVE  \/ blobs'[q] \cap crossed' # {} \/ q \in stale' \/ blobs'[q] = {}
               \/ blobs'[q] \subseteq cache'[q] /\ \A x \in rekeys' : x.to = q => x.at # "write"
               \/ \E x \in rekeys' : x.from = q /\ blobs'[q] = {x.rec}
    <3>1. CASE q = m.from
      BY <1>4, <3>1
    <3>2. CASE q # m.from
      <4>1. \/ blobs[q] \cap crossed # {} \/ q \in stale \/ blobs[q] = {}
            \/ blobs[q] \subseteq cache[q] /\ \A x \in rekeys : x.to = q => x.at # "write"
            \/ \E x \in rekeys : x.from = q /\ blobs[q] = {x.rec}
        BY <1>2, <2>1 DEF BlobsOK
      <4>2. (\E x \in rekeys : x.from = q /\ blobs[q] = {x.rec}) => \E x \in rekeys' : x.from = q /\ blobs[q] = {x.rec}
        BY <1>1, <3>2
      <4>3. blobs'[q] = blobs[q] /\ cache' = cache /\ stale \subseteq stale' /\ rekeys' \subseteq rekeys
        BY <1>1, <1>4, <3>2
      <4>4. QED BY <1>5, <4>1, <4>2, <4>3
    <3>3. QED BY <3>1, <3>2
  <2>2. QED BY <1>1, <2>1 DEF BlobsOK
<1>11. GivenOK'
  <2>1. ASSUME NEW r \in given' \ (over' \cup crossed') PROVE (up' => InMemory(r)') /\ InStore(r)'
    <3>1. r \in given \ (over \cup crossed) /\ r \notin crossed' /\ up
      BY <1>1, <1>2, <1>5, <2>1 DEF DownIsEmpty
    <3>2. InMemory(r) /\ InStore(r)
      BY <1>2, <3>1 DEF GivenOK
    <3>3. InMemory(r)'
      BY <1>1, <3>2 DEF InMemory
    <3>4. ASSUME NEW q \in NotePaths, r \in blobs[q], r \in cache[q] PROVE InStore(r)'
      <4>1. q # m.from
        BY <1>6, <3>1, <3>4
      <4>2. QED BY <1>1, <1>4, <3>4, <4>1 DEF InStore
    <3>5. ASSUME NEW w \in rekeys, w.rec = r, w.at = "write", r \in blobs[w.from] PROVE InStore(r)'
      <4>1. w # m /\ ~Meets(w, m)
        BY <1>1, <1>5, <3>1, <3>5
      <4>2. w.from # m.from /\ w.from \in NotePaths /\ w \in rekeys'
        BY <1>1, <1>2, <3>5, <4>1 DEF Meets, BaselineShape, RekeyCalls
      <4>3. QED BY <1>4, <3>5, <4>2 DEF InStore
    <3>6. QED BY <1>1, <3>1, <3>2, <3>3, <3>4, <3>5 DEF InStore
  <2>2. QED BY <2>1 DEF GivenOK
<1>12. DownIsEmpty'
  BY <1>1, <1>2 DEF DownIsEmpty
<1>13. FollowedOK'
  <2>1. ASSUME NEW x \in Notes \ strayed', NEW r \in given', LatestOf(x, r)' PROVE r \in crossed' \/ StandsBy(x, r)'
    <3>1. up
      BY <1>2 DEF DownIsEmpty
    <3>2. r \in crossed \/ StandsBy(x, r)
      BY <1>1, <1>2, <2>1 DEF FollowedOK, LatestOf
    <3>3. QED BY <1>1, <1>5, <3>1, <3>2 DEF StandsBy
  <2>2. QED BY <2>1 DEF FollowedOK
<1>14. PlanOK' /\ ByIdentity'
  BY <1>1, <1>2 DEF PlanOK, ByIdentity
<1>15. QED BY <1>7, <1>8, <1>9, <1>10, <1>11, <1>12, <1>13, <1>14 DEF BaselineInv

-----------------------------------------------------------------------------
\* RekeyFails: the claim is rolled back.
LEMMA RekeyFailsKeeps ==
  ASSUME BaselineInv, NEW m \in rekeys, RekeyFails(m)
  PROVE  BaselineInv'
<1>1. /\ m.at = "write" /\ rekeys' = rekeys \ {m} /\ next' \subseteq next
      /\ cache' = [cache EXCEPT ![m.to] = {}, ![m.from] = {m.rec}]
      /\ strayed' = strayed \cup {m.rec.note}
      /\ Clashing(m) \subseteq crossed'
      /\ cache[m.to] # {m.rec} \/ cache[m.from] # {}
           => {m.rec} \cup cache[m.to] \cup cache[m.from] \subseteq crossed'
      /\ UNCHANGED <<placed, blobs, setting, plan, up, refusing, count, given, over, stale, misled>>
  BY DEF RekeyFails, IoFails, Happens
<1>2. BaselineShape /\ DownIsEmpty /\ RekeysOK /\ CacheOK /\ BlobsOK /\ GivenOK /\ FollowedOK /\ PlanOK /\ ByIdentity
  BY DEF BaselineInv
<1>3. m.from \in NotePaths /\ m.to \in NotePaths /\ m.from # m.to /\ m.rec \in given /\ m.rec.note \in Notes
  BY <1>2, ShapeFacts
<1>4. /\ cache'[m.from] = {m.rec} /\ cache'[m.to] = {}
      /\ \A q \in NotePaths : q # m.to /\ q # m.from => cache'[q] = cache[q]
      /\ cache' \in GivenAt
  BY <1>1, <1>2, <1>3 DEF BaselineShape, GivenAt
<1>5. /\ crossed \subseteq crossed'
      /\ \A x \in rekeys : Meets(x, m) /\ x # m => m.rec \in crossed' /\ x.rec \in crossed'
  BY <1>1, ClashingMeets
<1>6. m.rec \notin crossed' => /\ Unhurt(m) /\ cache[m.to] = {m.rec} /\ cache[m.from] = {}
                               /\ m.rec \in blobs[m.from]
  <2>1. m.rec \notin crossed' => Unhurt(m) /\ cache[m.to] = {m.rec} /\ cache[m.from] = {}
    BY <1>1, <1>5 DEF Unhurt
  <2>2. QED BY <1>1, <1>2, <2>1 DEF RekeysOK
<1>7. \A r \in given \ crossed' : r # m.rec => r \notin cache[m.to] /\ r \notin cache[m.from]
  <2>1. SUFFICES ASSUME NEW r \in given \ crossed', r # m.rec, r \in cache[m.to] \cup cache[m.from] PROVE FALSE
    OBVIOUS
  <2>2. cache[m.to] # {m.rec} \/ cache[m.from] # {}
    BY <2>1
  <2>3. QED BY <1>1, <2>1, <2>2
<1>8. BaselineShape'
  <2>1. \A q \in NotePaths : \A r, s \in cache'[q] : r = s
    BY <1>2, <1>4 DEF BaselineShape
  <2>2. QED BY <1>1, <1>2, <1>4, <2>1 DEF BaselineShape, GivenAt, RekeyCalls
<1>9. RekeysOK'
  <2>1. ASSUME NEW x \in rekeys', Unhurt(x)'
        PROVE  x.rec \in cache'[x.to] /\ (x.at = "write" => x.rec \in blobs'[x.from])
    <3>1. x.rec \notin crossed' /\ (\A y \in rekeys' : Meets(y, x) => y = x) /\ x \in rekeys /\ x # m
      BY <1>1, <2>1 DEF Unhurt, Meets
    <3>2. ~Meets(x, m)
      BY <1>5, <3>1
    <3>3. x.to # m.from /\ x.to # m.to /\ x.to \in NotePaths /\ ~Meets(m, x)
      BY <1>2, <3>1, <3>2 DEF Meets, BaselineShape, RekeyCalls
    <3>4. Unhurt(x)
      BY <1>1, <1>5, <3>1, <3>3 DEF Unhurt
    <3>5. QED BY <1>1, <1>2, <1>4, <3>1, <3>3, <3>4 DEF RekeysOK
  <2>2. QED BY <2>1 DEF RekeysOK
<1>10. CacheOK'
  <2>1. ASSUME NEW q \in NotePaths, NEW r \in cache'[q] \ crossed'
        PROVE  /\ (\E x \in rekeys' : q \in {x.from, x.to}) => OnItsWay(q, r)'
               /\ r \in blobs'[q] \/ \E x \in rekeys' : x.rec = r /\ x.to = q /\ x.at = "write"
    <3>1. CASE q = m.from
      <4>1. r = m.rec /\ m.rec \notin crossed'
        BY <1>4, <2>1, <3>1
      <4>2. \A x \in rekeys : Meets(x, m) => x = m
        BY <1>6, <4>1 DEF Unhurt
      <4>3. ~\E x \in rekeys' : q \in {x.from, x.to}
        BY <1>1, <3>1, <4>2 DEF Meets
      <4>4. QED BY <1>1, <1>6, <3>1, <4>1, <4>3
    <3>2. CASE q = m.to
      BY <1>4, <2>1, <3>2
    <3>3. CASE q # m.from /\ q # m.to
      <4>1. r \in cache[q] \ crossed
        BY <1>4, <1>5, <2>1, <3>3
      <4>2. /\ (\E x \in rekeys : q \in {x.from, x.to}) => OnItsWay(q, r)
            /\ r \in blobs[q] \/ \E x \in rekeys : x.rec = r /\ x.to = q /\ x.at = "write"
        BY <1>2, <4>1 DEF CacheOK
      <4>3. OnItsWay(q, r) => OnItsWay(q, r)'
        BY <1>1, <3>3 DEF OnItsWay
      <4>4. QED BY <1>1, <3>3, <4>2, <4>3
    <3>4. QED BY <3>1, <3>2, <3>3
  <2>2. QED BY <2>1 DEF CacheOK
<1>11. BlobsOK'
  <2>1. ASSUME up, NEW q \in NotePaths
        PROVE  \/ blobs'[q] \cap crossed' # {} \/ q \in stale' \/ blobs'[q] = {}
               \/ blobs'[q] \subseteq cache'[q] /\ \A x \in rekeys' : x.to = q => x.at # "write"
               \/ \E x \in rekeys' : x.from = q /\ blobs'[q] = {x.rec}
    <3>0. \/ blobs[q] \cap crossed # {} \/ q \in stale \/ blobs[q] = {}
          \/ blobs[q] \subseteq cache[q] /\ \A x \in rekeys : x.to = q => x.at # "write"
          \/ \E x \in rekeys : x.from = q /\ blobs[q] = {x.rec}
      BY <1>2, <2>1 DEF BlobsOK
    <3>1. CASE blobs[q] \cap crossed # {} \/ q \in stale \/ blobs[q] = {}
      BY <1>1, <1>5, <3>1
    <3>2. ASSUME blobs[q] \subseteq cache[q], \A x \in rekeys : x.to = q => x.at # "write", blobs[q] # {}
          PROVE  blobs'[q] \cap crossed' # {} \/ (blobs'[q] \subseteq cache'[q] /\ \A x \in rekeys' : x.to = q => x.at # "write")
      <4>1. q # m.to
        BY <1>1, <3>2
      <4>2. CASE q = m.from
        BY <1>1, <3>2, <4>2
      <4>3. CASE q # m.from
        BY <1>1, <1>4, <3>2, <4>1, <4>3
      <4>4. QED BY <4>2, <4>3
    <3>3. ASSUME NEW x \in rekeys, x.from = q, blobs[q] = {x.rec}
          PROVE  \/ blobs'[q] \cap crossed' # {}
                 \/ blobs'[q] \subseteq cache'[q] /\ \A y \in rekeys' : y.to = q => y.at # "write"
                 \/ \E y \in rekeys' : y.from = q /\ blobs'[q] = {y.rec}
      <4>1. CASE x # m
        BY <1>1, <3>3, <4>1
      <4>2. CASE x = m /\ m.rec \in crossed'
        BY <1>1, <3>3, <4>2
      <4>3. CASE x = m /\ m.rec \notin crossed'
        <5>1. \A y \in rekeys : y.to = q => y = m
          BY <1>6, <3>3, <4>3 DEF Unhurt, Meets
        <5>2. QED BY <1>1, <1>4, <3>3, <4>3, <5>1
      <4>4. QED BY <4>1, <4>2, <4>3
    <3>4. QED BY <3>0, <3>1, <3>2, <3>3
  <2>2. QED BY <1>1, <2>1 DEF BlobsOK
<1>12. GivenOK'
  <2>1. ASSUME NEW r \in given' \ (over' \cup crossed') PROVE (up' => InMemory(r)') /\ InStore(r)'
    <3>1. r \in given \ (over \cup crossed) /\ r \notin crossed' /\ up
      BY <1>1, <1>2, <1>5, <2>1 DEF DownIsEmpty
    <3>2. InMemory(r) /\ InStore(r)
      BY <1>2, <3>1 DEF GivenOK
    <3>3. CASE r = m.rec
      BY <1>1, <1>3, <1>4, <1>6, <3>1, <3>3 DEF InMemory, InStore
    <3>4. CASE r # m.rec
      <4>1. \A q \in NotePaths : r \in cache[q] => r \in cache'[q]
        BY <1>4, <1>7, <3>1, <3>4
      <4>2. QED BY <1>1, <3>1, <3>2, <3>4, <4>1 DEF InMemory, InStore
    <3>5. QED BY <3>3, <3>4
  <2>2. QED BY <2>1 DEF GivenOK
<1>13. DownIsEmpty'
  BY <1>1, <1>2 DEF DownIsEmpty
<1>14. FollowedOK'
  <2>1. ASSUME NEW x \in Notes \ strayed', NEW r \in given', LatestOf(x, r)' PROVE r \in crossed' \/ StandsBy(x, r)'
    <3>1. up
      BY <1>2 DEF DownIsEmpty
    <3>2. r \in crossed \/ StandsBy(x, r)
      BY <1>1, <1>2, <2>1 DEF FollowedOK, LatestOf
    <3>3. r # m.rec /\ r \in given
      BY <1>1, <2>1 DEF LatestOf
    <3>4. ASSUME r \notin crossed', placed[x] # Nowhere, r \in cache[placed[x]] PROVE r \in cache'[placed[x]]
      BY <1>2, <1>4, <1>7, <3>3, <3>4 DEF BaselineShape
    <3>5. QED BY <1>1, <1>5, <3>1, <3>2, <3>4 DEF StandsBy
  <2>2. QED BY <2>1 DEF FollowedOK
<1>15. PlanOK' /\ ByIdentity'
  BY <1>1, <1>2 DEF PlanOK, ByIdentity
<1>16. QED BY <1>8, <1>9, <1>10, <1>11, <1>12, <1>13, <1>14, <1>15 DEF BaselineInv
-----------------------------------------------------------------------------
\* setBaseline lands: what stood there is over, and what was on its way there crossed.
LEMMA LandBaselineKeeps ==
  ASSUME BaselineInv, NEW s \in setting, LandBaselineAt(s)
  PROVE  BaselineInv'
<1>0. PICK p, a : p = s.path /\ a = s.rec
  OBVIOUS
<1>1. /\ setting' = setting \ {s} /\ cache' = [cache EXCEPT ![p] = {a}] /\ blobs' = [blobs EXCEPT ![p] = {a}]
      /\ given' = given \cup {a} /\ over' = over \cup cache[p] /\ stale' = stale \ {p}
      /\ UNCHANGED <<placed, rekeys, plan, up, refusing, next, count, misled>>
  BY <1>0 DEF LandBaselineAt
<1>2. BaselineShape /\ DownIsEmpty /\ RekeysOK /\ CacheOK /\ BlobsOK /\ GivenOK /\ FollowedOK /\ PlanOK /\ ByIdentity
  BY DEF BaselineInv
<1>3. /\ p \in NotePaths /\ a \in [note : Notes, k : 1..count] /\ up /\ a \in given'
      /\ a.note \in Notes /\ a.k \in Nat /\ a = [note |-> a.note, k |-> a.k]
  BY <1>0, <1>1, <1>2 DEF BaselineShape, DownIsEmpty
<1>4. /\ cache'[p] = {a} /\ blobs'[p] = {a}
      /\ \A q \in NotePaths : q # p => cache'[q] = cache[q] /\ blobs'[q] = blobs[q]
      /\ cache' \in GivenAt' /\ blobs' \in GivenAt'
  BY <1>1, <1>2, <1>3 DEF BaselineShape, GivenAt
<1>5. /\ crossed \subseteq crossed'
      /\ \A x \in rekeys : p \in {x.from, x.to} => x.rec \in crossed' /\ a \in crossed'
  BY <1>0 DEF LandBaselineAt
<1>6. BaselineShape'
  <2>1. /\ \A q \in NotePaths : \A r, t \in cache'[q] : r = t
        /\ \A q \in NotePaths : \A r, t \in blobs'[q] : r = t
    BY <1>2, <1>4 DEF BaselineShape
  <2>2. given' \subseteq [note : Notes, k : 1..count']
    BY <1>1, <1>2, <1>3 DEF BaselineShape
  <2>3. rekeys' \subseteq RekeyCalls' /\ \A m \in rekeys' : m.from # m.to
    BY <1>1, <1>2 DEF BaselineShape, RekeyCalls
  <2>4. plan' \subseteq [from : NotePaths, to : NotePaths, rec : given', then : [Notes -> NotePaths \cup {Nowhere}]]
    BY <1>1, <1>2 DEF BaselineShape
  <2>5. QED BY <1>1, <1>2, <1>4, <2>1, <2>2, <2>3, <2>4 DEF BaselineShape
<1>7. RekeysOK'
  <2>1. ASSUME NEW x \in rekeys', Unhurt(x)'
        PROVE  x.rec \in cache'[x.to] /\ (x.at = "write" => x.rec \in blobs'[x.from])
    <3>1. x \in rekeys /\ x.rec \notin crossed' /\ Unhurt(x)
      BY <1>1, <1>5, <2>1 DEF Unhurt, Meets
    <3>2. x.to # p /\ x.from # p /\ x.to \in NotePaths /\ x.from \in NotePaths
      BY <1>2, <1>5, <3>1 DEF BaselineShape, RekeyCalls
    <3>3. QED BY <1>2, <1>4, <3>1, <3>2 DEF RekeysOK
  <2>2. QED BY <2>1 DEF RekeysOK
<1>8. CacheOK'
  <2>1. ASSUME NEW q \in NotePaths, NEW r \in cache'[q] \ crossed'
        PROVE  /\ (\E x \in rekeys' : q \in {x.from, x.to}) => OnItsWay(q, r)'
               /\ r \in blobs'[q] \/ \E x \in rekeys' : x.rec = r /\ x.to = q /\ x.at = "write"
    <3>1. CASE q = p
      BY <1>1, <1>4, <1>5, <2>1, <3>1
    <3>2. CASE q # p
      <4>1. r \in cache[q] \ crossed /\ blobs'[q] = blobs[q]
        BY <1>4, <1>5, <2>1, <3>2
      <4>2. QED BY <1>1, <1>2, <4>1 DEF CacheOK, OnItsWay
    <3>3. QED BY <3>1, <3>2
  <2>2. QED BY <2>1 DEF CacheOK
<1>9. BlobsOK'
  <2>1. ASSUME NEW q \in NotePaths
        PROVE  \/ blobs'[q] \cap crossed' # {} \/ q \in stale' \/ blobs'[q] = {}
               \/ blobs'[q] \subseteq cache'[q] /\ \A x \in rekeys' : x.to = q => x.at # "write"
               \/ \E x \in rekeys' : x.from = q /\ blobs'[q] = {x.rec}
    <3>1. CASE q = p
      BY <1>1, <1>4, <1>5, <3>1
    <3>2. CASE q # p
      <4>1. cache'[q] = cache[q] /\ blobs'[q] = blobs[q] /\ (q \in stale => q \in stale')
        BY <1>1, <1>4, <3>2
      <4>2. QED BY <1>1, <1>2, <1>3, <1>5, <4>1 DEF BlobsOK
    <3>3. QED BY <3>1, <3>2
  <2>2. QED BY <2>1 DEF BlobsOK
<1>10. GivenOK'
  <2>1. ASSUME NEW r \in given' \ (over' \cup crossed') PROVE InMemory(r)' /\ InStore(r)'
    <3>1. CASE r = a
      BY <1>3, <1>4, <3>1 DEF InMemory, InStore
    <3>2. CASE r # a
      <4>1. r \in given \ (over \cup crossed) /\ r \notin crossed' /\ r \notin cache[p]
        BY <1>1, <1>5, <2>1, <3>2
      <4>2. InMemory(r) /\ InStore(r)
        BY <1>2, <1>3, <4>1 DEF GivenOK
      <4>3. InMemory(r)'
        BY <1>4, <4>1, <4>2 DEF InMemory
      <4>4. ASSUME NEW q \in NotePaths, r \in blobs[q], r \in cache[q] PROVE InStore(r)'
        BY <1>4, <4>1, <4>4 DEF InStore
      <4>5. ASSUME NEW w \in rekeys, w.rec = r, w.at = "write", r \in blobs[w.from] PROVE InStore(r)'
        <5>1. w.from # p /\ w.from \in NotePaths
          BY <1>2, <1>5, <4>1, <4>5 DEF BaselineShape, RekeyCalls
        <5>2. QED BY <1>1, <1>4, <4>5, <5>1 DEF InStore
      <4>6. QED BY <1>3, <4>2, <4>3, <4>4, <4>5 DEF InStore
    <3>3. QED BY <3>1, <3>2
  <2>2. QED BY <2>1 DEF GivenOK
<1>11. DownIsEmpty'
  BY <1>1, <1>2, <1>3 DEF DownIsEmpty
<1>12. FollowedOK'
  <2>1. /\ strayed \ {a.note} \subseteq strayed'
        /\ placed[a.note] # p \/ (\E g \in given : g.note = a.note /\ g.k > a.k) => a.note \in strayed'
        /\ \A r \in cache[p] : r.note # a.note => r.note \in strayed'
    BY <1>0 DEF LandBaselineAt
  <2>2. ASSUME NEW x \in Notes \ strayed', NEW r \in given', LatestOf(x, r)' PROVE r \in crossed' \/ StandsBy(x, r)'
    <3>1. CASE x = a.note
      <4>1. placed[x] = p /\ \A g \in given : g.note = x => ~(g.k > a.k)
        BY <2>1, <2>2, <3>1
      <4>2. r = a
        <5>1. r.note = x /\ a.k <= r.k
          BY <1>3, <2>2, <3>1 DEF LatestOf
        <5>2. CASE r \in given
          <6>1. r.k \in Nat /\ r = [note |-> r.note, k |-> r.k]
            BY <1>2, <5>2 DEF BaselineShape
          <6>2. r.k = a.k
            BY <1>3, <4>1, <5>1, <5>2, <6>1
          <6>3. QED BY <1>3, <3>1, <5>1, <6>1, <6>2
        <5>3. QED BY <1>1, <5>2
      <4>3. p # Nowhere
        BY <1>3, BaselineAssumption
      <4>4. QED BY <1>1, <1>3, <1>4, <4>1, <4>2, <4>3 DEF StandsBy
    <3>2. CASE x # a.note
      <4>1. x \notin strayed /\ r \in given /\ r.note = x /\ LatestOf(x, r)
        BY <1>1, <2>1, <2>2, <3>2 DEF LatestOf
      <4>2. r \in crossed \/ StandsBy(x, r)
        BY <1>2, <4>1 DEF FollowedOK
      <4>3. ASSUME placed[x] # Nowhere, r \in cache[placed[x]] PROVE r \in cache'[placed[x]]
        <5>1. placed[x] \in NotePaths
          BY <1>2, <4>3 DEF BaselineShape
        <5>2. placed[x] # p
          BY <2>1, <2>2, <3>2, <4>1, <4>3
        <5>3. QED BY <1>4, <4>3, <5>1, <5>2
      <4>4. QED BY <1>1, <1>3, <1>5, <4>2, <4>3 DEF StandsBy
    <3>3. QED BY <3>1, <3>2
  <2>3. QED BY <2>2 DEF FollowedOK
<1>13. PlanOK' /\ ByIdentity'
  BY <1>1, <1>2 DEF PlanOK, ByIdentity
<1>14. QED BY <1>6, <1>7, <1>8, <1>9, <1>10, <1>11, <1>12, <1>13 DEF BaselineInv

-----------------------------------------------------------------------------
\* A rekey claims its path: the acceptance is at the new path, its blob at the old one.
LEMMA ClaimKeeps ==
  ASSUME BaselineInv, up, NEW f \in NotePaths, NEW t \in NotePaths, NEW by \in {"event", "repair"},
         Claimable(f, t), ClaimPath(f, t, by), UNCHANGED <<blobs, up, given, over, stale, crossed>>
  PROVE  /\ RekeysOK' /\ CacheOK' /\ BlobsOK' /\ GivenOK'
         /\ cache' \in GivenAt /\ rekeys' \subseteq RekeyCalls /\ \A m \in rekeys' : m.from # m.to
         /\ \A q \in NotePaths : \A r, s \in cache'[q] : r = s
         /\ cache'[t] = cache[f] /\ \A q \in NotePaths : q # f /\ q # t => cache'[q] = cache[q]
<1>0. PICK a, n : a = (CHOOSE r \in cache[f] : TRUE)
                  /\ n = [from |-> f, to |-> t, by |-> by, at |-> "write", rec |-> a]
  OBVIOUS
<1>1. /\ f # t /\ cache[f] # {} /\ cache[t] = {} /\ cache' = [cache EXCEPT ![t] = cache[f], ![f] = {}]
      /\ rekeys' = rekeys \cup {n}
  BY <1>0 DEF Claimable, ClaimPath
<1>2. BaselineShape /\ DownIsEmpty /\ RekeysOK /\ CacheOK /\ BlobsOK /\ GivenOK
  BY DEF BaselineInv
<1>3. a \in cache[f] /\ cache[f] = {a} /\ a \in given
  BY <1>0, <1>1, <1>2, ShapeFacts
<1>4. n.from = f /\ n.to = t /\ n.rec = a /\ n.at = "write" /\ n \in RekeyCalls
  BY <1>0, <1>3 DEF RekeyCalls
<1>5. /\ cache'[t] = {a} /\ cache'[f] = {} /\ \A q \in NotePaths : q # f /\ q # t => cache'[q] = cache[q]
      /\ cache' \in GivenAt
  BY <1>1, <1>2, <1>3 DEF BaselineShape, GivenAt
<1>6. RekeysOK'
  <2>1. ASSUME NEW x \in rekeys', Unhurt(x)'
        PROVE  x.rec \in cache'[x.to] /\ (x.at = "write" => x.rec \in blobs'[x.from])
    <3>1. x.rec \notin crossed /\ \A y \in rekeys' : Meets(y, x) => y = x
      BY <2>1 DEF Unhurt, Meets
    <3>2. CASE x = n
      <4>1. a \in blobs[f] \/ \E w \in rekeys : w.rec = a /\ w.to = f /\ w.at = "write"
        BY <1>2, <1>3, <1>4, <3>1, <3>2 DEF CacheOK
      <4>2. ASSUME NEW w \in rekeys, w.to = f PROVE FALSE
        <5>1. w \in rekeys' /\ Meets(w, x)
          BY <1>1, <1>4, <3>2, <4>2 DEF Meets
        <5>2. QED BY <1>1, <1>4, <3>1, <3>2, <4>2, <5>1
      <4>3. QED BY <1>4, <1>5, <3>2, <4>1, <4>2
    <3>3. CASE x # n
      <4>1. x \in rekeys /\ ~Meets(n, x)
        BY <1>1, <3>1, <3>3
      <4>2. x.to # f /\ x.to # t /\ x.to \in NotePaths
        BY <1>2, <1>4, <4>1 DEF Meets, BaselineShape, RekeyCalls
      <4>3. Unhurt(x)
        BY <1>1, <3>1 DEF Unhurt
      <4>4. QED BY <1>2, <1>5, <4>1, <4>2, <4>3 DEF RekeysOK
    <3>4. QED BY <3>2, <3>3
  <2>2. QED BY <2>1 DEF RekeysOK
<1>7. CacheOK'
  <2>1. ASSUME NEW q \in NotePaths, NEW r \in cache'[q] \ crossed'
        PROVE  /\ (\E x \in rekeys' : q \in {x.from, x.to}) => OnItsWay(q, r)'
               /\ r \in blobs'[q] \/ \E x \in rekeys' : x.rec = r /\ x.to = q /\ x.at = "write"
    <3>1. CASE q = t
      BY <1>1, <1>4, <1>5, <2>1, <3>1 DEF OnItsWay
    <3>2. CASE q = f
      BY <1>5, <2>1, <3>2
    <3>3. CASE q # t /\ q # f
      <4>1. /\ (\E x \in rekeys : q \in {x.from, x.to}) => OnItsWay(q, r)
            /\ r \in blobs[q] \/ \E x \in rekeys : x.rec = r /\ x.to = q /\ x.at = "write"
        BY <1>2, <1>5, <2>1, <3>3 DEF CacheOK
      <4>2. OnItsWay(q, r) => OnItsWay(q, r)'
        BY <1>1 DEF OnItsWay
      <4>3. (\E x \in rekeys' : q \in {x.from, x.to}) => \E x \in rekeys : q \in {x.from, x.to}
        BY <1>1, <1>4, <3>3
      <4>4. QED BY <1>1, <4>1, <4>2, <4>3
    <3>4. QED BY <3>1, <3>2, <3>3
  <2>2. QED BY <2>1 DEF CacheOK
<1>8. BlobsOK'
  <2>1. ASSUME NEW q \in NotePaths
        PROVE  \/ blobs'[q] \cap crossed' # {} \/ q \in stale' \/ blobs'[q] = {}
               \/ blobs'[q] \subseteq cache'[q] /\ \A x \in rekeys' : x.to = q => x.at # "write"
               \/ \E x \in rekeys' : x.from = q /\ blobs'[q] = {x.rec}
    <3>0. \/ blobs[q] \cap crossed # {} \/ q \in stale \/ blobs[q] = {}
          \/ blobs[q] \subseteq cache[q] /\ \A x \in rekeys : x.to = q => x.at # "write"
          \/ \E x \in rekeys : x.from = q /\ blobs[q] = {x.rec}
      BY <1>2 DEF BlobsOK
    <3>1. CASE blobs[q] \cap crossed # {} \/ q \in stale \/ blobs[q] = {}
      BY <3>1
    <3>2. CASE \E x \in rekeys : x.from = q /\ blobs[q] = {x.rec}
      BY <1>1, <3>2
    <3>3. CASE blobs[q] \subseteq cache[q] /\ (\A x \in rekeys : x.to = q => x.at # "write") /\ blobs[q] # {}
      <4>1. CASE q = f
        <5>1. blobs[q] = {a}
          BY <1>3, <3>3, <4>1
        <5>2. QED BY <1>1, <1>4, <4>1, <5>1
      <4>2. CASE q = t
        BY <1>1, <3>3, <4>2
      <4>3. CASE q # f /\ q # t
        <5>1. \A x \in rekeys' : x.to = q => x.at # "write"
          BY <1>1, <1>4, <3>3, <4>3
        <5>2. QED BY <1>5, <3>3, <4>3, <5>1
      <4>4. QED BY <4>1, <4>2, <4>3
    <3>4. QED BY <3>0, <3>1, <3>2, <3>3
  <2>2. QED BY <2>1 DEF BlobsOK
<1>9. GivenOK'
  <2>1. ASSUME NEW r \in given' \ (over' \cup crossed') PROVE InMemory(r)' /\ InStore(r)'
    <3>1. InMemory(r) /\ InStore(r)
      BY <1>2, <2>1 DEF GivenOK
    <3>2. \A q \in NotePaths : r \in cache[q] => r \in cache'[IF q = f THEN t ELSE q]
      BY <1>1, <1>3, <1>5
    <3>3. InMemory(r)'
      BY <3>1, <3>2 DEF InMemory
    <3>4. ASSUME NEW q \in NotePaths, r \in blobs[q], r \in cache[q] PROVE InStore(r)'
      <4>1. CASE q = f
        BY <1>1, <1>3, <1>4, <3>4, <4>1 DEF InStore
      <4>2. CASE q # f
        BY <3>2, <3>4, <4>2 DEF InStore
      <4>3. QED BY <4>1, <4>2
    <3>5. ASSUME NEW w \in rekeys, w.rec = r, w.at = "write", r \in blobs[w.from] PROVE InStore(r)'
      BY <1>1, <3>5 DEF InStore
    <3>6. QED BY <3>1, <3>3, <3>4, <3>5 DEF InStore
  <2>2. QED BY <2>1 DEF GivenOK
<1>10. \A q \in NotePaths : \A r, s \in cache'[q] : r = s
  BY <1>2, <1>5 DEF BaselineShape
<1>11. rekeys' \subseteq RekeyCalls /\ \A m \in rekeys' : m.from # m.to
  BY <1>1, <1>2, <1>4 DEF BaselineShape
<1>12. QED BY <1>3, <1>5, <1>6, <1>7, <1>8, <1>9, <1>10, <1>11
-----------------------------------------------------------------------------
\* Each note's last acceptance stays by it when it strays, or its path and what is there stay.
LEMMA FollowedStays ==
  ASSUME BaselineInv, UNCHANGED <<given, up>>, crossed \subseteq crossed',
         \A n \in Notes \ strayed' : \A r \in given :
           n \notin strayed /\ (LatestOf(n, r) /\ StandsBy(n, r) => r \in crossed' \/ StandsBy(n, r)')
  PROVE  FollowedOK'
<1>1. ASSUME NEW n \in Notes \ strayed', NEW r \in given', LatestOf(n, r)' PROVE r \in crossed' \/ StandsBy(n, r)'
  <2>1. r \in given /\ LatestOf(n, r) /\ n \notin strayed
    BY <1>1 DEF LatestOf
  <2>2. r \in crossed \/ StandsBy(n, r)
    BY <2>1 DEF BaselineInv, FollowedOK
  <2>3. QED BY <2>1, <2>2
<1>2. QED BY <1>1 DEF FollowedOK

\* An acceptance begins.
LEMMA AcceptKeeps ==
  ASSUME BaselineInv, NEW n \in Notes, NEW e, AcceptAt(n, e)
  PROVE  BaselineInv'
<1>1. /\ up /\ placed[n] # Nowhere /\ count' = count + 1 /\ next' \subseteq next
      /\ setting' = setting \cup {[path |-> placed[n], rec |-> [note |-> n, k |-> count']]}
      /\ UNCHANGED <<placed, cache, blobs, rekeys, plan, up, refusing, given, over, strayed, stale, crossed, misled>>
  BY DEF AcceptAt, Happens, Acceptance
<1>2. BaselineShape /\ DownIsEmpty /\ FollowedOK /\ PlanOK /\ ByIdentity
  BY DEF BaselineInv
<1>3. RekeysOK' /\ CacheOK' /\ BlobsOK' /\ GivenOK'
  BY <1>1, StoreStays
<1>4. BaselineShape'
  <2>1. count \in Nat /\ count' \in Nat /\ 1..count \subseteq 1..count' /\ count' \in 1..count' /\ placed[n] \in NotePaths
    BY <1>1, <1>2 DEF BaselineShape
  <2>2. given' \subseteq [note : Notes, k : 1..count']
    BY <1>1, <1>2, <2>1 DEF BaselineShape
  <2>3. setting' \subseteq [path : NotePaths, rec : [note : Notes, k : 1..count']]
    <3>1. ASSUME NEW s \in setting PROVE s \in [path : NotePaths, rec : [note : Notes, k : 1..count']]
      <4>1. s \in [path : NotePaths, rec : [note : Notes, k : 1..count]]
        BY <1>2 DEF BaselineShape
      <4>2. QED BY <2>1, <4>1
    <3>2. QED BY <1>1, <2>1, <3>1
  <2>4. QED BY <1>1, <1>2, <2>1, <2>2, <2>3 DEF BaselineShape, GivenAt, RekeyCalls
<1>5. DownIsEmpty' /\ PlanOK' /\ ByIdentity'
  BY <1>1, <1>2 DEF DownIsEmpty, PlanOK, ByIdentity
<1>6. FollowedOK'
  BY <1>1, <1>2 DEF FollowedOK, LatestOf, StandsBy
<1>7. QED BY <1>3, <1>4, <1>5, <1>6 DEF BaselineInv

\* An acceptance that could not be written leaves nothing behind.
LEMMA BaselineFailsKeeps ==
  ASSUME BaselineInv, NEW s \in setting, BaselineFails(s)
  PROVE  BaselineInv'
<1>1. /\ setting' = setting \ {s} /\ next' \subseteq next
      /\ UNCHANGED <<placed, cache, blobs, rekeys, plan, up, refusing, count, given, over, strayed,
                     stale, crossed, misled>>
  BY DEF BaselineFails, IoFails, Happens
<1>2. BaselineShape /\ DownIsEmpty /\ FollowedOK /\ PlanOK /\ ByIdentity
  BY DEF BaselineInv
<1>3. RekeysOK' /\ CacheOK' /\ BlobsOK' /\ GivenOK'
  BY <1>1, StoreStays
<1>4. BaselineShape'
  BY <1>1, <1>2 DEF BaselineShape, GivenAt, RekeyCalls
<1>5. DownIsEmpty' /\ PlanOK' /\ ByIdentity' /\ FollowedOK'
  BY <1>1, <1>2 DEF DownIsEmpty, PlanOK, ByIdentity, FollowedOK, LatestOf, StandsBy
<1>6. QED BY <1>3, <1>4, <1>5 DEF BaselineInv

\* A note moves, unseen or not: no two notes are at one path.
LEMMA PlacedStays ==
  ASSUME BaselineInv, NEW n \in Notes, NEW q \in NotePaths \cup {Nowhere},
         q = Nowhere \/ Occupants(q) = {}, placed' = [placed EXCEPT ![n] = q]
  PROVE  /\ placed' \in [Notes -> NotePaths \cup {Nowhere}]
         /\ \A l, m \in Notes : placed'[l] = placed'[m] /\ placed'[l] # Nowhere => l = m
         /\ placed'[n] = q /\ \A m \in Notes \ {n} : placed'[m] = placed[m]
         /\ q # Nowhere => \A m \in Notes : placed[m] # q
<1>1. /\ placed \in [Notes -> NotePaths \cup {Nowhere}]
      /\ \A l, m \in Notes : placed[l] = placed[m] /\ placed[l] # Nowhere => l = m
  BY DEF BaselineInv, BaselineShape
<1>2. q # Nowhere => \A m \in Notes : placed[m] # q
  BY DEF Occupants
<1>3. placed'[n] = q /\ \A m \in Notes \ {n} : placed'[m] = placed[m]
  BY <1>1
<1>4. QED BY <1>1, <1>2, <1>3

\* A note moves unseen, is created or deleted.
LEMMA ElsewhereKeeps ==
  ASSUME BaselineInv, NEW n \in Notes, NEW q \in NotePaths \cup {Nowhere}, Elsewhere, next' \subseteq next,
         q = Nowhere \/ Occupants(q) = {}, placed' = [placed EXCEPT ![n] = q],
         strayed \subseteq strayed', n \in strayed' \/ placed[n] = Nowhere
  PROVE  BaselineInv'
<1>1. UNCHANGED <<cache, blobs, setting, rekeys, plan, up, refusing, count, given, over, stale, crossed, misled>>
  BY DEF Elsewhere
<1>2. BaselineShape /\ DownIsEmpty /\ PlanOK /\ ByIdentity
  BY DEF BaselineInv
<1>3. RekeysOK' /\ CacheOK' /\ BlobsOK' /\ GivenOK'
  BY <1>1, StoreStays
<1>4. /\ placed' \in [Notes -> NotePaths \cup {Nowhere}]
      /\ \A l, m \in Notes : placed'[l] = placed'[m] /\ placed'[l] # Nowhere => l = m
      /\ \A m \in Notes \ {n} : placed'[m] = placed[m]
  BY PlacedStays
<1>5. BaselineShape'
  BY <1>1, <1>2, <1>4 DEF BaselineShape, GivenAt, RekeyCalls
<1>6. DownIsEmpty' /\ PlanOK' /\ ByIdentity'
  BY <1>1, <1>2 DEF DownIsEmpty, PlanOK, ByIdentity
<1>7. ASSUME NEW x \in Notes \ strayed', NEW r \in given, StandsBy(x, r) PROVE StandsBy(x, r)'
  <2>1. x # n
    BY <1>7 DEF StandsBy
  <2>2. placed'[x] = placed[x]
    BY <1>4, <2>1
  <2>3. QED BY <1>1, <1>7, <2>2 DEF StandsBy
<1>8. FollowedOK'
  BY <1>1, <1>7, FollowedStays
<1>9. QED BY <1>3, <1>5, <1>6, <1>8 DEF BaselineInv

LEMMA RenameKeeps ==
  ASSUME BaselineInv, NEW n \in Notes, NEW q \in NotePaths, Rename(n, q)
  PROVE  BaselineInv'
<1>1. /\ up /\ placed[n] # Nowhere /\ Occupants(q) = {} /\ placed' = [placed EXCEPT ![n] = q] /\ next' \subseteq next
      /\ UNCHANGED <<blobs, setting, plan, up, refusing, count, given, over, stale, crossed, misled>>
  BY DEF Rename, Happens
<1>2. BaselineShape /\ DownIsEmpty /\ PlanOK /\ ByIdentity
  BY DEF BaselineInv
<1>3. placed[n] \in NotePaths
  BY <1>1, <1>2 DEF BaselineShape
<1>4. /\ placed' \in [Notes -> NotePaths \cup {Nowhere}] /\ placed'[n] = q
      /\ \A l, m \in Notes : placed'[l] = placed'[m] /\ placed'[l] # Nowhere => l = m
      /\ \A m \in Notes \ {n} : placed'[m] = placed[m]
      /\ \A m \in Notes : placed[m] # q
      /\ q # Nowhere
  BY <1>1, PlacedStays, BaselineAssumption
<1>5. DownIsEmpty' /\ PlanOK' /\ ByIdentity'
  BY <1>1, <1>2 DEF DownIsEmpty, PlanOK, ByIdentity
<1>6. CASE Claimable(placed[n], q) /\ ~refusing
  <2>1. ClaimPath(placed[n], q, "event") /\ UNCHANGED strayed
    BY <1>6 DEF Rename
  <2>2. /\ RekeysOK' /\ CacheOK' /\ BlobsOK' /\ GivenOK'
        /\ cache' \in GivenAt /\ rekeys' \subseteq RekeyCalls /\ \A m \in rekeys' : m.from # m.to
        /\ \A p \in NotePaths : \A r, s \in cache'[p] : r = s
        /\ cache'[q] = cache[placed[n]] /\ \A p \in NotePaths : p # placed[n] /\ p # q => cache'[p] = cache[p]
    BY <1>1, <1>3, <1>6, <2>1, ClaimKeeps
  <2>3. BaselineShape'
    BY <1>1, <1>2, <1>4, <2>2 DEF BaselineShape, GivenAt, RekeyCalls
  <2>4. ASSUME NEW x \in Notes \ strayed', NEW r \in given, StandsBy(x, r) PROVE StandsBy(x, r)'
    <3>1. CASE x = n
      BY <1>1, <1>4, <2>2, <2>4, <3>1 DEF StandsBy
    <3>2. CASE x # n
      <4>1. placed[x] # Nowhere /\ placed[x] \in NotePaths /\ placed[x] # placed[n] /\ placed[x] # q
        BY <1>2, <1>4, <2>4, <3>2 DEF StandsBy, BaselineShape
      <4>2. placed'[x] = placed[x] /\ cache'[placed[x]] = cache[placed[x]]
        BY <1>4, <2>2, <3>2, <4>1
      <4>3. QED BY <1>1, <2>4, <4>2 DEF StandsBy
    <3>3. QED BY <3>1, <3>2
  <2>5. FollowedOK'
    BY <1>1, <2>1, <2>4, FollowedStays
  <2>6. QED BY <1>5, <2>2, <2>3, <2>5 DEF BaselineInv
<1>7. CASE ~(Claimable(placed[n], q) /\ ~refusing)
  <2>1. UNCHANGED <<cache, rekeys>> /\ strayed' = strayed \cup IF cache[placed[n]] = {} THEN {} ELSE {n}
    BY <1>7 DEF Rename
  <2>2. RekeysOK' /\ CacheOK' /\ BlobsOK' /\ GivenOK'
    BY <1>1, <2>1, StoreStays
  <2>3. BaselineShape'
    BY <1>1, <1>2, <1>4, <2>1 DEF BaselineShape, GivenAt, RekeyCalls
  <2>4. ASSUME NEW x \in Notes \ strayed', NEW r \in given, StandsBy(x, r) PROVE StandsBy(x, r)'
    <3>1. CASE x = n
      <4>1. cache[placed[n]] = {}
        BY <2>1, <2>4, <3>1
      <4>2. \E m \in plan : m.rec = r
        BY <1>1, <2>4, <3>1, <4>1 DEF StandsBy
      <4>3. QED BY <1>1, <1>4, <3>1, <4>2 DEF StandsBy
    <3>2. CASE x # n
      <4>1. placed'[x] = placed[x]
        BY <1>4, <3>2
      <4>2. QED BY <1>1, <2>1, <2>4, <4>1 DEF StandsBy
    <3>3. QED BY <3>1, <3>2
  <2>5. FollowedOK'
    BY <1>1, <2>1, <2>4, FollowedStays
  <2>6. QED BY <1>5, <2>2, <2>3, <2>5 DEF BaselineInv
<1>8. QED BY <1>6, <1>7
-----------------------------------------------------------------------------
\* A planned move: it goes to the one note of its uid, or finds its path changed.
LEMMA RepairKeeps ==
  ASSUME BaselineInv, NEW m \in plan, Repair(m)
  PROVE  BaselineInv'
<1>1. /\ plan' = plan \ {m}
      /\ UNCHANGED <<placed, blobs, setting, up, refusing, next, count, given, over, stale, crossed>>
  BY DEF Repair
<1>2. BaselineShape /\ DownIsEmpty /\ PlanOK /\ ByIdentity
  BY DEF BaselineInv
<1>3. up /\ m.from \in NotePaths /\ m.to \in NotePaths /\ m.rec \in given /\ m.rec.note \in Notes
  BY <1>2 DEF BaselineShape, DownIsEmpty
<1>4. DownIsEmpty' /\ PlanOK'
  BY <1>1, <1>2 DEF DownIsEmpty, PlanOK
<1>5. CASE Claimable(m.from, m.to) /\ ~refusing
  <2>1. /\ ClaimPath(m.from, m.to, "repair")
        /\ misled' = misled \cup {r \in cache[m.from] : /\ r = m.rec /\ placed = m.then
                                                       /\ placed[r.note] \notin {Nowhere, m.to}}
        /\ strayed' = strayed \cup {r.note : r \in {x \in cache[m.from] : placed[x.note] # m.to}}
                              \cup {n \in {m.rec.note} : m.rec \notin cache[m.from]}
    BY <1>5 DEF Repair
  <2>2. /\ RekeysOK' /\ CacheOK' /\ BlobsOK' /\ GivenOK'
        /\ cache' \in GivenAt /\ rekeys' \subseteq RekeyCalls /\ \A x \in rekeys' : x.from # x.to
        /\ \A p \in NotePaths : \A r, s \in cache'[p] : r = s
        /\ cache'[m.to] = cache[m.from]
        /\ \A p \in NotePaths : p # m.from /\ p # m.to => cache'[p] = cache[p]
    BY <1>1, <1>3, <1>5, <2>1, ClaimKeeps
  <2>3. BaselineShape'
    BY <1>1, <1>2, <2>2 DEF BaselineShape, GivenAt, RekeyCalls
  <2>4. ByIdentity'
    <3>1. m.then[m.rec.note] # Nowhere => m.then[m.rec.note] = m.to
      BY <1>2, <1>3 DEF PlanOK
    <3>2. QED BY <1>2, <2>1, <3>1 DEF ByIdentity
  <2>5. cache[m.to] = {}
    BY <1>5 DEF Claimable
  <2>6. ASSUME NEW x \in Notes \ strayed', NEW r \in given, LatestOf(x, r), StandsBy(x, r) PROVE StandsBy(x, r)'
    <3>1. r.note = x /\ placed[x] # Nowhere /\ placed[x] \in NotePaths
      BY <1>2, <2>6 DEF LatestOf, StandsBy, BaselineShape
    <3>2. CASE r \in cache[placed[x]]
      <4>1. placed[x] # m.to
        BY <2>5, <3>2
      <4>2. placed[x] # m.from
        BY <2>1, <2>6, <3>1, <3>2, <4>1
      <4>3. QED BY <1>1, <1>3, <2>2, <3>1, <3>2, <4>1, <4>2 DEF StandsBy
    <3>3. CASE \E w \in plan : w.rec = r
      <4>1. PICK w \in plan : w.rec = r
        BY <3>3
      <4>2. CASE w = m
        <5>1. m.rec \in cache[m.from] /\ placed[x] = m.to
          BY <2>1, <2>6, <3>1, <4>1, <4>2
        <5>2. QED BY <1>1, <1>3, <2>2, <3>1, <4>1, <4>2, <5>1 DEF StandsBy
      <4>3. CASE w # m
        BY <1>1, <1>3, <3>1, <4>1, <4>3 DEF StandsBy
      <4>4. QED BY <4>2, <4>3
    <3>4. QED BY <1>3, <2>6, <3>2, <3>3 DEF StandsBy
  <2>7. FollowedOK'
    BY <1>1, <2>1, <2>6, FollowedStays
  <2>8. QED BY <1>4, <2>2, <2>3, <2>4, <2>7 DEF BaselineInv
<1>6. CASE ~(Claimable(m.from, m.to) /\ ~refusing)
  <2>1. UNCHANGED <<cache, rekeys, misled>> /\ strayed' = strayed \cup {m.rec.note}
    BY <1>6 DEF Repair
  <2>2. RekeysOK' /\ CacheOK' /\ BlobsOK' /\ GivenOK'
    BY <1>1, <2>1, StoreStays
  <2>3. BaselineShape' /\ ByIdentity'
    BY <1>1, <1>2, <2>1 DEF BaselineShape, GivenAt, RekeyCalls, ByIdentity
  <2>4. ASSUME NEW x \in Notes \ strayed', NEW r \in given, LatestOf(x, r), StandsBy(x, r) PROVE StandsBy(x, r)'
    <3>1. r.note = x /\ x # m.rec.note
      BY <2>1, <2>4 DEF LatestOf
    <3>2. (\E w \in plan : w.rec = r) => \E w \in plan' : w.rec = r
      BY <1>1, <3>1
    <3>3. QED BY <1>1, <2>1, <2>4, <3>2 DEF StandsBy
  <2>5. FollowedOK'
    BY <1>1, <2>1, <2>4, FollowedStays
  <2>6. QED BY <1>4, <2>2, <2>3, <2>5 DEF BaselineInv
<1>7. QED BY <1>5, <1>6

\* What resolves to a path is of the uid of the one note there.
LEMMA ResolvesToOne ==
  ASSUME BaselineInv, NEW p \in NotePaths, NEW r, NEW q \in NotePaths, Resolves(p, r, q)
  PROVE  /\ \A n \in Notes : placed[n] # Nowhere /\ UidOf[n] = Identity(r) => placed[n] = q
         /\ \A n \in Notes : placed[n] = q => UidOf[n] = Identity(r)
<1>1. /\ \A n \in Notes : placed[n] # Nowhere /\ UidOf[n] = Identity(r) => placed[n] = q
      /\ Cardinality(Bearers(Identity(r))) = 1
  BY DEF Resolves, Bearers
<1>2. PICK l \in Bearers(Identity(r)) : TRUE
  <2>1. CASE Bearers(Identity(r)) = {}
    BY <1>1, <2>1, FS_EmptySet
  <2>2. QED BY <2>1
<1>3. l \in Notes /\ placed[l] = q /\ UidOf[l] = Identity(r)
  BY <1>1, <1>2 DEF Bearers
<1>4. \A n \in Notes : placed[n] = q => n = l
  BY <1>3, BaselineAssumption DEF BaselineInv, BaselineShape
<1>5. QED BY <1>1, <1>3, <1>4

\* The repair finds whatever it is to find.
LEMMA FindableIsPlanned ==
  ASSUME BaselineInv, NEW n \in Findable, NEW r \in given, LatestOf(n, r)
  PROVE  placed[n] # Nowhere /\ \E m \in Repoints : m.rec = r
<1>1. n \in Notes /\ UidOf[n] # NoUid /\ Bearers(UidOf[n]) = {n} /\ cache[placed[n]] = {}
  BY DEF Findable
<1>2. PICK q \in NotePaths : \E s \in cache[q] :
        /\ s.note = n /\ \A t \in given : t.note = n => t.k <= s.k
        /\ \A x \in Occupants(q) : UidOf[x] # NoUid
        /\ \A p \in NotePaths : \A t \in cache[p] : Identity(t) = UidOf[n] => t.k <= s.k
  BY DEF Findable
<1>3. PICK s \in cache[q] :
        /\ s.note = n /\ \A t \in given : t.note = n => t.k <= s.k
        /\ \A x \in Occupants(q) : UidOf[x] # NoUid
        /\ \A p \in NotePaths : \A t \in cache[p] : Identity(t) = UidOf[n] => t.k <= s.k
  BY <1>2
<1>4. BaselineShape
  BY DEF BaselineInv
<1>5. s \in given /\ \A t \in given : t = [note |-> t.note, k |-> t.k] /\ t.k \in Nat
  BY <1>4 DEF BaselineShape, GivenAt
<1>6. s = r
  <2>1. r.note = n /\ s.k <= r.k /\ r.k <= s.k
    BY <1>3, <1>5 DEF LatestOf
  <2>2. s.k = r.k
    BY <1>5, <2>1
  <2>3. s = [note |-> s.note, k |-> s.k] /\ r = [note |-> r.note, k |-> r.k]
    BY <1>5
  <2>4. QED BY <1>3, <2>1, <2>2, <2>3
<1>7. placed[n] # Nowhere /\ placed[n] \in NotePaths /\ q # placed[n]
  BY <1>1, <1>3, <1>4 DEF Bearers, BaselineShape
<1>8. Identity(r) = UidOf[n]
  BY <1>3, <1>6 DEF Identity
<1>9. Drifted(q, r)
  <2>1. ASSUME NEW x \in Occupants(q) PROVE NoUid \notin {Identity(r), UidOf[x]} /\ Identity(r) # UidOf[x]
    <3>1. x \in Notes /\ placed[x] = q /\ q # Nowhere /\ UidOf[x] # NoUid
      BY <1>3, <2>1, BaselineAssumption DEF Occupants
    <3>2. UidOf[x] # UidOf[n]
      BY <1>1, <1>7, <3>1 DEF Bearers
    <3>3. QED BY <1>1, <1>8, <3>1, <3>2
  <2>2. QED BY <2>1 DEF Drifted
<1>10. Resolves(q, r, placed[n])
  <2>1. Cardinality(Bearers(Identity(r))) = 1
    BY <1>1, <1>8, FS_Singleton
  <2>2. QED BY <1>1, <1>8, <2>1 DEF Resolves
<1>11. PICK m : m = [from |-> q, to |-> placed[n], rec |-> r]
  OBVIOUS
<1>12. /\ m.from = q /\ m.to = placed[n] /\ m.rec = r
       /\ m \in [from : NotePaths, to : NotePaths, rec : UNION {cache[p] : p \in NotePaths}]
  BY <1>2, <1>3, <1>6, <1>7, <1>11
<1>13. ASSUME NEW o \in [from : NotePaths, to : NotePaths, rec : UNION {cache[p] : p \in NotePaths}],
              o.rec \in cache[o.from], Resolves(o.from, o.rec, o.to), o.to = m.to
       PROVE  o.rec.k <= r.k
  <2>1. UidOf[n] = Identity(o.rec)
    BY <1>1, <1>7, <1>12, <1>13, ResolvesToOne
  <2>2. QED BY <1>3, <1>6, <1>13, <2>1
<1>14. m \in Repoints
  BY <1>3, <1>6, <1>7, <1>9, <1>10, <1>12, <1>13 DEF Repoints
<1>15. QED BY <1>7, <1>12, <1>14
LEMMA PlanRepairKeeps ==
  ASSUME BaselineInv, PlanRepair
  PROVE  BaselineInv'
<1>1. /\ up /\ <<"resolved">> \in next /\ next' = next \ {<<"resolved">>}
      /\ plan' = {[from |-> m.from, to |-> m.to, rec |-> m.rec, then |-> placed] : m \in Repoints}
      /\ strayed' = strayed \ Findable
      /\ UNCHANGED <<placed, cache, blobs, setting, rekeys, up, refusing, count, given, over, stale, crossed, misled>>
  BY DEF PlanRepair, Happens
<1>2. BaselineShape /\ DownIsEmpty /\ FollowedOK /\ PlanOK /\ ByIdentity
  BY DEF BaselineInv
<1>3. plan = {}
  BY <1>1, <1>2 DEF DownIsEmpty
<1>4. RekeysOK' /\ CacheOK' /\ BlobsOK' /\ GivenOK'
  BY <1>1, StoreStays
<1>5. ASSUME NEW m \in plan'
      PROVE  /\ m \in [from : NotePaths, to : NotePaths, rec : given, then : [Notes -> NotePaths \cup {Nowhere}]]
             /\ \A n \in Notes : m.then[n] # Nowhere /\ UidOf[n] = UidOf[m.rec.note] => m.then[n] = m.to
  <2>1. PICK w \in Repoints : m = [from |-> w.from, to |-> w.to, rec |-> w.rec, then |-> placed]
    BY <1>1, <1>5
  <2>2. w.from \in NotePaths /\ w.to \in NotePaths /\ w.rec \in cache[w.from] /\ Resolves(w.from, w.rec, w.to)
    BY <2>1 DEF Repoints
  <2>3. w.rec \in given /\ placed \in [Notes -> NotePaths \cup {Nowhere}]
    BY <1>2, <2>2 DEF BaselineShape, GivenAt
  <2>4. \A n \in Notes : placed[n] # Nowhere /\ UidOf[n] = UidOf[w.rec.note] => placed[n] = w.to
    BY <2>2, ResolvesToOne DEF Identity
  <2>5. QED BY <2>1, <2>2, <2>3, <2>4
<1>6. BaselineShape'
  BY <1>1, <1>2, <1>5 DEF BaselineShape, GivenAt, RekeyCalls
<1>7. DownIsEmpty' /\ ByIdentity'
  BY <1>1, <1>2 DEF DownIsEmpty, ByIdentity
<1>8. PlanOK'
  BY <1>5 DEF PlanOK
<1>9. FollowedOK'
  <2>1. ASSUME NEW x \in Notes \ strayed', NEW r \in given', LatestOf(x, r)' PROVE r \in crossed' \/ StandsBy(x, r)'
    <3>1. r \in given /\ LatestOf(x, r)
      BY <1>1, <2>1 DEF LatestOf
    <3>2. CASE x \notin strayed
      <4>1. r \in crossed \/ StandsBy(x, r)
        BY <1>2, <3>1, <3>2 DEF FollowedOK
      <4>2. QED BY <1>1, <1>3, <4>1 DEF StandsBy
    <3>3. CASE x \in strayed
      <4>1. x \in Findable
        BY <1>1, <2>1, <3>3
      <4>2. placed[x] # Nowhere /\ \E m \in Repoints : m.rec = r
        BY <3>1, <4>1, FindableIsPlanned
      <4>3. \E m \in plan' : m.rec = r
        <5>1. PICK m \in Repoints : m.rec = r
          BY <4>2
        <5>2. [from |-> m.from, to |-> m.to, rec |-> m.rec, then |-> placed] \in plan'
          BY <1>1
        <5>3. QED BY <5>1, <5>2
      <4>4. QED BY <1>1, <4>2, <4>3 DEF StandsBy
    <3>4. QED BY <3>2, <3>3
  <2>2. QED BY <2>1 DEF FollowedOK
<1>10. QED BY <1>4, <1>6, <1>7, <1>8, <1>9 DEF BaselineInv

-----------------------------------------------------------------------------
\* The process ends: what was claimed and not written is where it was, on the disk.
LEMMA StopKeeps ==
  ASSUME BaselineInv, StopGovernor
  PROVE  BaselineInv'
<1>1. /\ up /\ up' = FALSE /\ setting' = {} /\ rekeys' = {} /\ plan' = {} /\ cache' = [p \in NotePaths |-> {}]
      /\ crossed \subseteq crossed' /\ strayed' = strayed \cup {m.rec.note : m \in rekeys \cup plan}
      /\ UNCHANGED <<placed, blobs, refusing, count, given, over, misled>>
  BY DEF StopGovernor
<1>2. BaselineShape /\ CacheOK /\ GivenOK /\ FollowedOK /\ ByIdentity
  BY DEF BaselineInv
<1>3. BaselineShape'
  BY <1>1, <1>2 DEF BaselineShape, GivenAt, RekeyCalls
<1>4. DownIsEmpty' /\ PlanOK' /\ ByIdentity' /\ RekeysOK' /\ CacheOK' /\ BlobsOK'
  BY <1>1, <1>2 DEF DownIsEmpty, PlanOK, ByIdentity, RekeysOK, CacheOK, BlobsOK
<1>5. GivenOK'
  <2>1. ASSUME NEW r \in given' \ (over' \cup crossed') PROVE InStore(r)'
    <3>1. InStore(r)
      BY <1>1, <1>2, <2>1 DEF GivenOK
    <3>2. (\E q \in NotePaths : r \in blobs[q]) \/ \E m \in rekeys : r \in blobs[m.from]
      BY <3>1 DEF InStore
    <3>3. \E q \in NotePaths : r \in blobs[q]
      BY <1>2, <3>2 DEF BaselineShape, RekeyCalls
    <3>4. QED BY <1>1, <3>3 DEF InStore
  <2>2. QED BY <1>1, <2>1 DEF GivenOK
<1>6. FollowedOK'
  <2>1. ASSUME NEW x \in Notes \ strayed', NEW r \in given', LatestOf(x, r)' PROVE r \in crossed' \/ StandsBy(x, r)'
    <3>1. r \in given /\ LatestOf(x, r) /\ r.note = x /\ x \notin strayed
      BY <1>1, <2>1 DEF LatestOf
    <3>2. r \in crossed \/ StandsBy(x, r)
      BY <1>2, <3>1 DEF FollowedOK
    <3>3. \A m \in rekeys \cup plan : m.rec # r
      BY <1>1, <2>1, <3>1
    <3>4. ASSUME StandsBy(x, r), r \notin crossed PROVE r \in blobs[placed[x]] /\ placed[x] # Nowhere
      <4>1. placed[x] # Nowhere /\ placed[x] \in NotePaths /\ r \in cache[placed[x]]
        BY <1>1, <1>2, <3>3, <3>4 DEF StandsBy, BaselineShape
      <4>2. QED BY <1>2, <3>3, <3>4, <4>1 DEF CacheOK
    <3>5. QED BY <1>1, <3>2, <3>4 DEF StandsBy
  <2>2. QED BY <2>1 DEF FollowedOK
<1>7. QED BY <1>3, <1>4, <1>5, <1>6 DEF BaselineInv

\* The start: the cache is what is on the disk.
LEMMA StartKeeps ==
  ASSUME BaselineInv, StartGovernor
  PROVE  BaselineInv'
<1>1. /\ ~up /\ up' = TRUE /\ cache' = blobs
      /\ UNCHANGED <<placed, blobs, setting, rekeys, plan, refusing, next, count, given, over, strayed,
                     stale, crossed, misled>>
  BY DEF StartGovernor
<1>2. BaselineShape /\ GivenOK /\ FollowedOK /\ PlanOK /\ ByIdentity /\ setting = {} /\ rekeys = {} /\ plan = {}
  BY <1>1 DEF BaselineInv, DownIsEmpty
<1>3. BaselineShape'
  BY <1>1, <1>2 DEF BaselineShape, GivenAt, RekeyCalls
<1>4. DownIsEmpty' /\ PlanOK' /\ ByIdentity' /\ RekeysOK' /\ CacheOK' /\ BlobsOK'
  BY <1>1, <1>2 DEF DownIsEmpty, PlanOK, ByIdentity, RekeysOK, CacheOK, BlobsOK
<1>5. GivenOK'
  BY <1>1, <1>2 DEF GivenOK, InMemory, InStore
<1>6. FollowedOK'
  BY <1>1, <1>2 DEF FollowedOK, LatestOf, StandsBy
<1>7. QED BY <1>3, <1>4, <1>5, <1>6 DEF BaselineInv

LEMMA RefuseKeeps ==
  ASSUME BaselineInv, RefuseWriters
  PROVE  BaselineInv'
<1>1. /\ refusing' = TRUE /\ next' \subseteq next
      /\ UNCHANGED <<placed, cache, blobs, setting, rekeys, plan, up, count, given, over, strayed, stale,
                     crossed, misled>>
  BY DEF RefuseWriters, Happens
<1>2. BaselineShape /\ DownIsEmpty /\ FollowedOK /\ PlanOK /\ ByIdentity
  BY DEF BaselineInv
<1>3. RekeysOK' /\ CacheOK' /\ BlobsOK' /\ GivenOK'
  BY <1>1, StoreStays
<1>4. BaselineShape' /\ DownIsEmpty' /\ PlanOK' /\ ByIdentity'
  BY <1>1, <1>2 DEF BaselineShape, GivenAt, RekeyCalls, DownIsEmpty, PlanOK, ByIdentity
<1>5. FollowedOK'
  BY <1>1, <1>2 DEF FollowedOK, LatestOf, StandsBy
<1>6. QED BY <1>3, <1>4, <1>5 DEF BaselineInv

-----------------------------------------------------------------------------
LEMMA BaselinesStart ==
  ASSUME BaselineInit
  PROVE  BaselineInv
<1>1. PICK h \in Histories :
        /\ placed = h.placed /\ next = h.next
        /\ cache = [p \in NotePaths |-> {Acceptance(n, 1) : n \in {m \in h.had : h.placed[m] = p}}]
        /\ given = UNION {cache[p] : p \in NotePaths}
  BY DEF BaselineInit
<1>2. /\ blobs = cache /\ setting = {} /\ rekeys = {} /\ plan = {} /\ up = TRUE /\ refusing = FALSE
      /\ count = 1 /\ over = {} /\ strayed = {} /\ stale = {} /\ crossed = {} /\ misled = {}
  BY DEF BaselineInit
<1>3. /\ placed \in [Notes -> NotePaths \cup {Nowhere}] /\ h.had \subseteq Notes
      /\ \A m, n \in Notes : placed[m] = placed[n] /\ placed[m] # Nowhere => m = n
  BY <1>1, BaselineAssumption
<1>4. \A p \in NotePaths : \A r \in cache[p] : r.note \in h.had /\ placed[r.note] = p /\ r = [note |-> r.note, k |-> 1]
  BY <1>1 DEF Acceptance
<1>5. given \subseteq [note : Notes, k : 1..count]
  BY <1>1, <1>2, <1>3, <1>4
<1>6. cache \in GivenAt
  BY <1>1 DEF GivenAt
<1>7. \A q \in NotePaths : \A r, s \in cache[q] : r = s
  <2>1. ASSUME NEW q \in NotePaths, NEW r \in cache[q], NEW s \in cache[q] PROVE r = s
    <3>1. q # Nowhere /\ r.note \in Notes /\ s.note \in Notes /\ placed[r.note] = placed[s.note] /\ placed[r.note] = q
      BY <1>3, <1>4, BaselineAssumption
    <3>2. r.note = s.note
      BY <1>3, <3>1
    <3>3. QED BY <1>4, <3>2
  <2>2. QED BY <2>1
<1>8. BaselineShape
  BY <1>2, <1>3, <1>5, <1>6, <1>7 DEF BaselineShape
<1>9. DownIsEmpty /\ RekeysOK /\ CacheOK /\ BlobsOK /\ PlanOK /\ ByIdentity
  BY <1>2 DEF DownIsEmpty, RekeysOK, CacheOK, BlobsOK, PlanOK, ByIdentity
<1>10. GivenOK
  BY <1>1, <1>2 DEF GivenOK, InMemory, InStore
<1>11. FollowedOK
  <2>1. ASSUME NEW n \in Notes, NEW r \in given, LatestOf(n, r) PROVE StandsBy(n, r)
    <3>1. PICK p \in NotePaths : r \in cache[p]
      BY <1>1
    <3>2. placed[n] = p /\ p # Nowhere
      BY <1>4, <2>1, <3>1, BaselineAssumption DEF LatestOf
    <3>3. QED BY <1>2, <3>1, <3>2 DEF StandsBy
  <2>2. QED BY <2>1 DEF FollowedOK
<1>12. QED BY <1>8, <1>9, <1>10, <1>11 DEF BaselineInv

LEMMA BaselinesStep ==
  ASSUME BaselineInv, [BaselineNext]_bvars
  PROVE  BaselineInv'
<1>1. ASSUME NEW n \in Notes, NEW e, AcceptAt(n, e) PROVE BaselineInv'
  BY <1>1, AcceptKeeps
<1>2. ASSUME NEW n \in Notes, DeleteNote(n) PROVE BaselineInv'
  <2>1. /\ placed' = [placed EXCEPT ![n] = Nowhere] /\ strayed' = strayed \cup {n} /\ Elsewhere /\ next' \subseteq next
    BY <1>2 DEF DeleteNote, Happens
  <2>2. QED BY <2>1, ElsewhereKeeps
<1>3. ASSUME NEW n \in Notes, NEW q \in NotePaths, Rename(n, q) PROVE BaselineInv'
  BY <1>3, RenameKeeps
<1>4. ASSUME NEW n \in Notes, NEW q \in NotePaths, MovesOffline(n, q) PROVE BaselineInv'
  <2>1. /\ placed' = [placed EXCEPT ![n] = q] /\ strayed' = strayed \cup {n} /\ Elsewhere /\ next' \subseteq next
        /\ Occupants(q) = {}
    BY <1>4 DEF MovesOffline, Happens
  <2>2. QED BY <2>1, ElsewhereKeeps
<1>5. ASSUME NEW n \in Notes, NEW q \in NotePaths, CreateNote(n, q) PROVE BaselineInv'
  <2>1. /\ placed' = [placed EXCEPT ![n] = q] /\ strayed' = strayed /\ placed[n] = Nowhere /\ Elsewhere /\ next' \subseteq next
        /\ Occupants(q) = {}
    BY <1>5 DEF CreateNote, Happens
  <2>2. QED BY <2>1, ElsewhereKeeps
<1>6. ASSUME NEW s \in setting, LandBaselineAt(s) \/ BaselineFails(s) PROVE BaselineInv'
  BY <1>6, LandBaselineKeeps, BaselineFailsKeeps
<1>7. ASSUME NEW m \in rekeys, LandRekey(m) \/ RekeyFails(m) \/ RemoveOld(m) PROVE BaselineInv'
  BY <1>7, LandRekeyKeeps, RekeyFailsKeeps, RemoveOldKeeps
<1>8. ASSUME NEW m \in plan, Repair(m) PROVE BaselineInv'
  BY <1>8, RepairKeeps
<1>9. ASSUME StopGovernor \/ StartGovernor \/ PlanRepair \/ RefuseWriters PROVE BaselineInv'
  BY <1>9, StopKeeps, StartKeeps, PlanRepairKeeps, RefuseKeeps
<1>10. ASSUME UNCHANGED bvars PROVE BaselineInv'
  <2>1. RekeysOK' /\ CacheOK' /\ BlobsOK' /\ GivenOK'
    BY <1>10, StoreStays DEF bvars
  <2>2. BaselineShape' /\ DownIsEmpty' /\ PlanOK' /\ ByIdentity' /\ FollowedOK'
    BY <1>10 DEF bvars, BaselineInv, BaselineShape, GivenAt, RekeyCalls, DownIsEmpty, PlanOK, ByIdentity,
                 FollowedOK, LatestOf, StandsBy
  <2>3. QED BY <2>1, <2>2 DEF BaselineInv
<1>11. QED BY <1>1, <1>2, <1>3, <1>4, <1>5, <1>6, <1>7, <1>8, <1>9, <1>10 DEF BaselineNext

LEMMA OneAtMost ==
  ASSUME NEW S, \A x, y \in S : x = y
  PROVE  Cardinality(S) <= 1
<1>1. CASE S = {}
  BY <1>1, FS_EmptySet
<1>2. CASE S # {}
  <2>1. PICK x \in S : S = {x}
    BY <1>2
  <2>2. QED BY <2>1, FS_Singleton
<1>3. QED BY <1>1, <1>2

\* The invariant is strong enough.
LEMMA BaselinesHold ==
  ASSUME BaselineInv
  PROVE  BaselinesSafe
<1>1. BaselineShape /\ CacheOK /\ BlobsOK /\ GivenOK /\ FollowedOK /\ ByIdentity
  BY DEF BaselineInv
<1>2. BaselineTypeOK
  <2>1. ASSUME NEW q \in NotePaths
        PROVE  Cardinality(Occupants(q)) <= 1 /\ Cardinality(cache[q]) <= 1 /\ Cardinality(blobs[q]) <= 1
    <3>1. \A x, y \in Occupants(q) : x = y
      BY <1>1, BaselineAssumption DEF Occupants, BaselineShape
    <3>2. (\A x, y \in cache[q] : x = y) /\ (\A x, y \in blobs[q] : x = y)
      BY <1>1 DEF BaselineShape
    <3>3. QED BY <3>1, <3>2, OneAtMost
  <2>2. QED BY <1>1, <2>1 DEF BaselineTypeOK, BaselineShape
<1>3. AcceptancesKept
  <2>1. ASSUME NEW r \in given, r \notin over \cup crossed
        PROVE  (\E q \in NotePaths : r \in blobs[q]) /\ (up => \E q \in NotePaths : r \in cache[q])
    <3>1. (up => InMemory(r)) /\ InStore(r)
      BY <1>1, <2>1 DEF GivenOK
    <3>2. \A m \in rekeys : m.from \in NotePaths
      BY <1>1, ShapeFacts
    <3>3. QED BY <3>1, <3>2 DEF InMemory, InStore
  <2>2. QED BY <2>1 DEF AcceptancesKept
<1>4. DiskAgrees
  <2>1. ASSUME Calm, NEW q \in NotePaths
        PROVE  blobs[q] = cache[q] \/ q \in stale \/ (blobs[q] \cup cache[q]) \cap crossed # {}
    <3>1. up /\ rekeys = {}
      BY <2>1 DEF Calm
    <3>2. blobs[q] \cap crossed # {} \/ q \in stale \/ blobs[q] \subseteq cache[q]
      BY <1>1, <3>1 DEF BlobsOK
    <3>3. cache[q] \subseteq blobs[q] \cup crossed
      BY <1>1, <3>1 DEF CacheOK
    <3>4. QED BY <3>2, <3>3
  <2>2. QED BY <2>1 DEF DiskAgrees
<1>5. Follows
  <2>1. ASSUME Calm, NEW n \in Notes, NEW r \in given, r.note = n, n \notin strayed, placed[n] # Nowhere,
               \A s \in given : s.note = n => s.k <= r.k
        PROVE  r \in cache[placed[n]] \cup crossed
    <3>1. r \in crossed \/ StandsBy(n, r)
      BY <1>1, <2>1 DEF FollowedOK, LatestOf
    <3>2. QED BY <2>1, <3>1 DEF Calm, StandsBy
  <2>2. QED BY <2>1 DEF Follows
<1>6. QED BY <1>1, <1>2, <1>3, <1>4, <1>5 DEF BaselinesSafe

\* The accepted texts: none is lost or left where the note is not, the disk agrees with
\* the cache, and the repair goes by identity (baseline-store.ts, baseline-reconcile.ts).
THEOREM BaselinesAreSafe == BaselineSpec => []BaselinesSafe
<1>1. BaselineInit => BaselineInv
  BY BaselinesStart
<1>2. BaselineInv /\ [BaselineNext]_bvars => BaselineInv'
  BY BaselinesStep
<1>3. BaselineInv => BaselinesSafe
  BY BaselinesHold
<1>4. QED BY <1>1, <1>2, <1>3, PTL DEF BaselineSpec
-----------------------------------------------------------------------------
(***************************************************************************)
(* The review queue.  What its texts and its workers are; TextsInv, that   *)
(* no text names an edit before it is made; ReviewedInv, where what is     *)
(* about to be the baseline comes from; ListInv, that the list is current  *)
(* or somebody is about to make it so.                                     *)
(***************************************************************************)
NoteTexts    == [has : SUBSET Edits, status : Statuses]
Bases    == [text : NoteTexts, since : SUBSET AgentEdits, real : BOOLEAN]
WorkRecs == [at : {"idle", "read", "begin", "old", "both", "put", "refresh", "again"},
             cur : NoteTexts, old : Bases, put : Bases]
ActRecs  == [at : {"idle", "stamp", "verify", "ready", "put", "finally", "refresh", "adopt",
                   "quarantine", "restore"},
             kind : {"none", "accept", "adopt", "revert", "dispose"}, pre : NoteTexts, cur : NoteTexts, put : Bases]
ViewRecs == [at : {"idle", "read", "write"}, seen : NoteTexts, put : BOOLEAN, outrun : BOOLEAN]
Trails   == [approved : SUBSET Edits, excused : SUBSET Edits, kept : SUBSET Edits,
             trampled : SUBSET Edits, typed : BOOLEAN, rode : BOOLEAN, residual : BOOLEAN, reversed : BOOLEAN]
Workers  == {"event", "poll"}
Views    == {"event", "more", "poll", "click"}

DeskInv ==
  /\ work \in [Workers -> WorkRecs] /\ act \in ActRecs /\ view \in [Views -> ViewRecs]
  /\ newest \in Views /\ listed \in BOOLEAN /\ index \in SUBSET BOOLEAN /\ sig \subseteq Lines
  /\ mounted \in BOOLEAN /\ retired \in BOOLEAN /\ lost \in BOOLEAN

RoomInv ==
  /\ note \in NoteTexts /\ base \in Bases
  /\ stage \in [Edits -> {"none", "written", "dated", "line", "aged"}]
  /\ fresh \in BOOLEAN /\ due \in BOOLEAN /\ ask \in BOOLEAN /\ trail \in Trails
  /\ \A e \in Edits \cap coming : stage[e] = "none"

\* The edits that were made; those that stand for themselves, or that a person stood behind.
Made       == {e \in Edits : stage[e] # "none"}
AnsweredFor   == HumanEdits \cup Mechanical \cup trail.approved \cup trail.excused

\* No text names an edit that was not made.
TextsInv ==
  /\ note.has \cup base.text.has \subseteq Made
  /\ \A o \in Workers : work[o].cur.has \cup work[o].old.text.has \cup work[o].put.text.has \subseteq Made
  /\ act.pre.has \cup act.cur.has \cup act.put.text.has \subseteq Made

\* What is about to be the baseline was read by whoever stands behind it.
ReviewedInv ==
  /\ base.text.has \subseteq AnsweredFor /\ ~trail.rode /\ (fresh => trail.typed)
  /\ \A o \in Workers : work[o].old.text.has \subseteq AnsweredFor /\ work[o].put.text.has \subseteq AnsweredFor
  /\ act.put.text.has \subseteq AnsweredFor
  /\ act.at \in {"stamp", "verify"} => act.pre.has \subseteq AnsweredFor
  /\ act.at = "ready" => act.cur.has \subseteq AnsweredFor

\* Nothing that was made is gone, and no index is written late but by who was writing.
KeepsInv ==
  /\ Made \subseteq note.has \cup trail.kept \cup trail.trampled
  /\ act.at = "restore" => act.cur.has \subseteq trail.kept
  /\ ~mounted /\ (index # {} \/ \E r \in Views : view[r].at = "write") => trail.residual
  /\ \E b \in BOOLEAN : index \subseteq {b}

\* The refresh that started last has read the note as it is, or listed what it found.
Current ==
  IF view[newest].at = "read" THEN view[newest].seen = note ELSE listed = Listed(note, Lines)

\* A refresh is to come.
ToCome ==
  \/ due \/ ask \/ sig # Lines
  \/ work["event"].at # "idle"
  \/ work["poll"].at \in {"refresh", "again"} /\ view["poll"].at = "idle"
  \/ act.at = "finally" \/ (act.at = "refresh" /\ view["click"].at = "idle")

\* The write of the list that was published last is not outrun: it brings that list.
Putting(r) == view[r].at = "write" /\ ~view[r].outrun
IndexInv ==
  /\ \A r \in Views : Putting(r) => view[r].put = listed
  /\ index = {listed} \/ trail.reversed \/ lost \/ \E r \in Views : Putting(r)

ListInv ==
  /\ work["poll"].at \notin {"refresh", "again"} => view["poll"].at = "idle"
  /\ act.at # "refresh" => view["click"].at = "idle"
  /\ work["event"].at \notin {"refresh", "again"} /\ work["poll"].at # "read"
  /\ mounted /\ ~lost => Current \/ ToCome
  /\ mounted => IndexInv

ReviewInv == DeskInv /\ RoomInv /\ TextsInv /\ ReviewedInv /\ KeepsInv /\ ListInv

\* What neither refreshes nor lists leaves the index to those who do.
LEMMA IndexStays ==
  ASSUME UNCHANGED <<view, listed, index, lost>>, trail'.reversed = trail.reversed
  PROVE  IndexInv <=> IndexInv'
BY DEF IndexInv, Putting

\* A note with one edit more.
LEMMA WithIsText ==
  ASSUME note \in NoteTexts, NEW e \in Edits
  PROVE  /\ With(e) \in NoteTexts /\ With(e).has = note.has \cup {e}
         /\ With(e) = [has |-> note.has \cup {e}, status |-> IF e \in Proposing THEN "proposed" ELSE note.status]
<1>1. PICK m : m = note
  OBVIOUS
<1>2. PICK t : t = IF e \in Proposing THEN "proposed" ELSE note.status
  OBVIOUS
<1>3. PICK h : h = note.has \cup {e}
  OBVIOUS
<1>4. m \in NoteTexts /\ h \in SUBSET Edits /\ t \in Statuses
  BY <1>1, <1>2, <1>3 DEF NoteTexts, Statuses
<1>5. PICK n : n = [m EXCEPT !.has = h, !.status = t]
  OBVIOUS
<1>6. n = [has |-> h, status |-> t]
  BY <1>4, <1>5 DEF NoteTexts
<1>7. With(e) = n
  BY <1>1, <1>2, <1>3, <1>5 DEF With
<1>8. n \in NoteTexts /\ n.has = h
  BY <1>4, <1>6 DEF NoteTexts
<1>9. QED BY <1>2, <1>3, <1>6, <1>7, <1>8

\* An edit that comes is made, once; the journal has no line of it yet.
Edited(e) ==
  /\ Comes(e) /\ stage' = [stage EXCEPT ![e] = "written"] /\ Modify(With(e))
  /\ UNCHANGED <<base, ask>> /\ UNCHANGED Desk

LEMMA EditsAreEdited ==
  ASSUME RoomInv, NEW e \in Edits, AgentWrites(e) \/ HumanTypes(e) \/ OtherWrites(e)
  PROVE  /\ Edited(e) /\ (trail' = trail \/ trail' = [trail EXCEPT !.typed = TRUE])
         /\ (fresh' = fresh /\ trail' = trail) \/ (fresh' = TRUE /\ trail' = [trail EXCEPT !.typed = TRUE])
BY DEF AgentWrites, HumanTypes, OtherWrites, Edited

LEMMA TypedIsTrail ==
  ASSUME trail \in Trails
  PROVE  [trail EXCEPT !.typed = TRUE] \in Trails
BY DEF Trails

LEMMA EditedStage ==
  ASSUME RoomInv, NEW e \in Edits, Edited(e)
  PROVE  /\ stage[e] = "none" /\ \A f \in Edits : stage'[f] = IF f = e THEN "written" ELSE stage[f]
         /\ stage' \in [Edits -> {"none", "written", "dated", "line", "aged"}]
         /\ Lines' = Lines /\ Made' = Made \cup {e}
         /\ \A f \in Edits \cap coming' : stage'[f] = "none"
<1>1. /\ stage[e] = "none" /\ \A f \in Edits : stage'[f] = IF f = e THEN "written" ELSE stage[f]
      /\ stage' \in [Edits -> {"none", "written", "dated", "line", "aged"}]
      /\ coming' = coming \ {e}
  BY DEF RoomInv, Edited, Comes
<1>2. AgentEdits \subseteq Edits
  BY DEF Edits
<1>3. QED BY <1>1, <1>2 DEF RoomInv, Lines, Made

LEMMA EditedKeepsTypes ==
  ASSUME DeskInv, RoomInv, NEW e \in Edits, AgentWrites(e) \/ HumanTypes(e) \/ OtherWrites(e)
  PROVE  DeskInv' /\ RoomInv'
<1>1. Edited(e) /\ trail' \in Trails /\ fresh' \in BOOLEAN
  BY EditsAreEdited, TypedIsTrail DEF RoomInv
<1>2. /\ Lines' = Lines /\ stage' \in [Edits -> {"none", "written", "dated", "line", "aged"}]
      /\ \A f \in Edits \cap coming' : stage'[f] = "none"
  BY <1>1, EditedStage
<1>3. note' \in NoteTexts /\ due' \in BOOLEAN /\ UNCHANGED <<base, ask>>
  BY <1>1, WithIsText DEF Edited, Modify, RoomInv, DeskInv
<1>4. UNCHANGED Desk
  BY <1>1 DEF Edited
<1>5. DeskInv'
  BY <1>2, <1>4 DEF Desk, DeskInv
<1>6. QED BY <1>1, <1>2, <1>3, <1>5 DEF RoomInv

\* A line moves on from the write to the journal, and grows old.
LineSteps(w) == LineMoves(w, "written", "dated") \/ LineMoves(w, "dated", "line") \/ LineAges(w)

LEMMA LineStage ==
  ASSUME RoomInv, NEW w \in AgentEdits, LineSteps(w)
  PROVE  /\ UNCHANGED <<note, base, fresh, due, ask, coming, trail>> /\ UNCHANGED Desk
         /\ stage' \in [Edits -> {"none", "written", "dated", "line", "aged"}]
         /\ Made' = Made /\ Lines \subseteq Lines'
         /\ Lines' # Lines => w \in Lines' \ Lines
         /\ \A e \in Edits : stage'[e] = "none" <=> stage[e] = "none"
<1>1. w \in Edits
  BY DEF Edits
<1>2. /\ UNCHANGED <<note, base, fresh, due, ask, coming, trail>> /\ UNCHANGED Desk
      /\ stage[w] \in {"written", "dated", "line"}
      /\ \A e \in Edits : stage'[e] = IF e = w THEN stage'[w] ELSE stage[e]
      /\ stage'[w] \in {"dated", "line", "aged"} /\ (stage[w] = "line" => stage'[w] = "aged")
      /\ stage' \in [Edits -> {"none", "written", "dated", "line", "aged"}]
  BY <1>1 DEF LineSteps, LineAges, LineMoves, RoomInv
<1>3. Made' = Made
  BY <1>2 DEF Made
<1>4. Lines \subseteq Lines' /\ (Lines' # Lines => w \in Lines' \ Lines)
  BY <1>2 DEF Lines, Edits
<1>5. QED BY <1>1, <1>2, <1>3, <1>4

LEMMA LineKeepsTypes ==
  ASSUME DeskInv, RoomInv, NEW w \in AgentEdits, LineSteps(w)
  PROVE  DeskInv' /\ RoomInv'
<1>1. DeskInv'
  BY LineStage DEF DeskInv, Desk
<1>2. QED BY <1>1, LineStage DEF RoomInv
-----------------------------------------------------------------------------
\* What the steps of the outside leave as it is in the history.
TrailStays ==
  /\ trail'.approved = trail.approved /\ trail'.excused = trail.excused /\ trail'.kept = trail.kept
  /\ trail'.trampled = trail.trampled /\ trail'.rode = trail.rode /\ trail'.residual = trail.residual /\ trail'.reversed = trail.reversed

LEMMA TypedTrailStays ==
  ASSUME trail \in Trails, trail' = trail \/ trail' = [trail EXCEPT !.typed = TRUE]
  PROVE  TrailStays /\ (trail' = trail \/ trail'.typed = TRUE)
<1>1. CASE trail' = trail
  BY <1>1 DEF TrailStays
<1>2. CASE trail' = [trail EXCEPT !.typed = TRUE]
  BY <1>2 DEF TrailStays, Trails
<1>3. QED BY <1>1, <1>2

LEMMA EditedKeepsRest ==
  ASSUME ReviewInv, NEW e \in Edits, AgentWrites(e) \/ HumanTypes(e) \/ OtherWrites(e)
  PROVE  TextsInv' /\ ReviewedInv' /\ KeepsInv' /\ ListInv'
<1>0. DeskInv /\ RoomInv /\ TextsInv /\ ReviewedInv /\ KeepsInv /\ ListInv
  BY DEF ReviewInv
<1>1. /\ Edited(e) /\ trail \in Trails /\ (trail' = trail \/ trail' = [trail EXCEPT !.typed = TRUE])
      /\ (fresh' = fresh /\ trail' = trail) \/ (fresh' = TRUE /\ trail' = [trail EXCEPT !.typed = TRUE])
  BY <1>0, EditsAreEdited DEF RoomInv
<1>2. TrailStays /\ ((fresh' => trail'.typed) \/ (fresh' = fresh /\ trail' = trail))
  BY <1>1, TypedTrailStays DEF Trails
<1>3. Made' = Made \cup {e} /\ Lines' = Lines
  BY <1>0, <1>1, EditedStage
<1>4. note'.has = note.has \cup {e} /\ due' = mounted /\ UNCHANGED <<base, ask>> /\ UNCHANGED Desk
  BY <1>0, <1>1, WithIsText DEF Edited, Modify, RoomInv
<1>5. AnsweredFor' = AnsweredFor
  BY <1>2 DEF AnsweredFor, TrailStays
<1>6. TextsInv'
  BY <1>0, <1>3, <1>4 DEF TextsInv, Desk
<1>7. ReviewedInv'
  BY <1>0, <1>2, <1>4, <1>5 DEF ReviewedInv, Desk, TrailStays
<1>8. KeepsInv'
  BY <1>0, <1>2, <1>3, <1>4 DEF KeepsInv, Desk, TrailStays
<1>9. ListInv'
  <2>1. IndexInv <=> IndexInv'
    BY <1>2, <1>4, IndexStays DEF Desk, TrailStays
  <2>2. QED BY <1>0, <1>4, <2>1 DEF ListInv, Desk, ToCome
<1>10. QED BY <1>6, <1>7, <1>8, <1>9

LEMMA EditedKeeps ==
  ASSUME ReviewInv, NEW e \in Edits, AgentWrites(e) \/ HumanTypes(e) \/ OtherWrites(e)
  PROVE  ReviewInv'
BY EditedKeepsTypes, EditedKeepsRest DEF ReviewInv

LEMMA LineKeeps ==
  ASSUME ReviewInv, NEW w \in AgentEdits, LineSteps(w)
  PROVE  ReviewInv'
<1>0. DeskInv /\ RoomInv /\ TextsInv /\ ReviewedInv /\ KeepsInv /\ ListInv
  BY DEF ReviewInv
<1>1. /\ UNCHANGED <<note, base, fresh, due, ask, coming, trail>> /\ UNCHANGED Desk
      /\ Made' = Made /\ Lines \subseteq Lines' /\ (Lines' # Lines => w \in Lines' \ Lines)
  BY <1>0, LineStage
<1>2. DeskInv' /\ RoomInv'
  BY <1>0, LineKeepsTypes
<1>3. TextsInv' /\ KeepsInv'
  BY <1>0, <1>1 DEF TextsInv, KeepsInv, Desk
<1>4. ReviewedInv'
  BY <1>0, <1>1 DEF ReviewedInv, AnsweredFor, Desk
<1>5. ListInv'
  <2>0. IndexInv <=> IndexInv'
    BY <1>1, IndexStays DEF Desk
  <2>1. CASE Lines' = Lines
    <3>1. (Current \/ ToCome) <=> (Current \/ ToCome)'
      BY <1>1, <2>1 DEF Current, ToCome, Listed, Desk
    <3>2. QED BY <1>0, <1>1, <2>0, <3>1 DEF ListInv, Desk
  <2>2. CASE Lines' # Lines
    <3>1. sig' # Lines'
      BY <1>0, <1>1, <2>2 DEF DeskInv, Desk
    <3>2. ToCome'
      BY <3>1 DEF ToCome
    <3>3. QED BY <1>0, <1>1, <2>0, <3>2 DEF ListInv, Desk
  <2>3. QED BY <2>1, <2>2
<1>6. QED BY <1>2, <1>3, <1>4, <1>5 DEF ReviewInv

LEMMA InputAgesKeeps ==
  ASSUME ReviewInv, InputAges
  PROVE  ReviewInv'
<1>0. DeskInv /\ RoomInv /\ TextsInv /\ ReviewedInv /\ KeepsInv /\ ListInv
  BY DEF ReviewInv
<1>1. fresh' = FALSE /\ UNCHANGED <<note, base, stage, due, ask, coming, trail>> /\ UNCHANGED Desk
  BY DEF InputAges
<1>2. Lines' = Lines /\ Made' = Made
  BY <1>1 DEF Lines, Made
<1>3. DeskInv' /\ RoomInv'
  BY <1>0, <1>1, <1>2 DEF DeskInv, RoomInv, Desk
<1>4. TextsInv' /\ KeepsInv'
  BY <1>0, <1>1, <1>2 DEF TextsInv, KeepsInv, Desk
<1>5. ReviewedInv'
  BY <1>0, <1>1 DEF ReviewedInv, AnsweredFor, Desk
<1>6. (Current \/ ToCome) <=> (Current \/ ToCome)'
  BY <1>1, <1>2 DEF Current, ToCome, Listed, Desk
<1>7. ListInv'
  <2>1. IndexInv <=> IndexInv'
    BY <1>1, IndexStays DEF Desk
  <2>2. QED BY <1>0, <1>1, <1>6, <2>1 DEF ListInv, Desk
<1>8. QED BY <1>3, <1>4, <1>5, <1>7 DEF ReviewInv

LEMMA RetireKeeps ==
  ASSUME ReviewInv, Retire
  PROVE  ReviewInv'
<1>0. DeskInv /\ RoomInv /\ TextsInv /\ ReviewedInv /\ KeepsInv /\ ListInv
  BY DEF ReviewInv
<1>1. /\ retired' = TRUE /\ coming' \subseteq coming
      /\ UNCHANGED <<note, base, stage, fresh, due, ask, work, act, view, newest, listed, index, sig,
                     mounted, lost, trail>>
  BY DEF Retire, Comes
<1>2. Lines' = Lines /\ Made' = Made
  BY <1>1 DEF Lines, Made
<1>3. DeskInv' /\ RoomInv'
  BY <1>0, <1>1, <1>2 DEF DeskInv, RoomInv
<1>4. TextsInv' /\ KeepsInv'
  BY <1>0, <1>1, <1>2 DEF TextsInv, KeepsInv
<1>5. ReviewedInv'
  BY <1>0, <1>1 DEF ReviewedInv, AnsweredFor
<1>6. (Current \/ ToCome) <=> (Current \/ ToCome)'
  BY <1>1, <1>2 DEF Current, ToCome, Listed
<1>7. ListInv'
  <2>1. IndexInv <=> IndexInv'
    BY <1>1, IndexStays
  <2>2. QED BY <1>0, <1>1, <1>6, <2>1 DEF ListInv
<1>8. QED BY <1>3, <1>4, <1>5, <1>7 DEF ReviewInv

LEMMA UnmountKeeps ==
  ASSUME ReviewInv, Unmount
  PROVE  ReviewInv'
<1>0. DeskInv /\ RoomInv /\ TextsInv /\ ReviewedInv /\ KeepsInv /\ ListInv
  BY DEF ReviewInv
<1>1. /\ mounted' = FALSE /\ due' = FALSE /\ index' = {} /\ coming' \subseteq coming
      /\ UNCHANGED <<note, base, stage, fresh, ask, work, act, view, newest, listed, sig, retired, lost>>
  BY DEF Unmount, Comes
<1>2. PICK b : b = \E r \in DOMAIN view : view[r].at = "write"
  OBVIOUS
<1>3. trail \in Trails /\ trail' = [trail EXCEPT !.residual = b] /\ DOMAIN view = Views /\ b \in BOOLEAN
  BY <1>0, <1>2 DEF Unmount, RoomInv, DeskInv
<1>4. /\ trail' \in Trails /\ trail'.residual = b
      /\ trail'.approved = trail.approved /\ trail'.excused = trail.excused /\ trail'.kept = trail.kept
      /\ trail'.trampled = trail.trampled /\ trail'.rode = trail.rode /\ trail'.typed = trail.typed
      /\ trail'.reversed = trail.reversed
  BY <1>3 DEF Trails
<1>5. Lines' = Lines /\ Made' = Made
  BY <1>1 DEF Lines, Made
<1>6. DeskInv' /\ RoomInv'
  BY <1>0, <1>1, <1>4, <1>5 DEF DeskInv, RoomInv
<1>7. TextsInv'
  BY <1>0, <1>1, <1>5 DEF TextsInv
<1>8. ReviewedInv'
  BY <1>0, <1>1, <1>4 DEF ReviewedInv, AnsweredFor
<1>9. KeepsInv'
  BY <1>0, <1>1, <1>2, <1>3, <1>4, <1>5 DEF KeepsInv
<1>10. ListInv'
  BY <1>0, <1>1 DEF ListInv
<1>11. QED BY <1>6, <1>7, <1>8, <1>9, <1>10 DEF ReviewInv
-----------------------------------------------------------------------------
\* The reconcile and the poll: one of them goes on as w.
WorkTo(o, w) ==
  /\ work' = [work EXCEPT ![o] = w] /\ w \in WorkRecs
  /\ UNCHANGED <<note, stage, fresh, act, view, newest, listed, index, mounted, retired, coming, lost>>
  /\ work[o].at \notin {"refresh", "again"}
  /\ o = "event" => w.at \notin {"refresh", "again"}
  /\ o = "poll" => w.at # "read"

\* What it read was made; what it is about to put was read by whoever answers for it.
WorkKnows(w) ==
  /\ w.cur.has \cup w.old.text.has \cup w.put.text.has \subseteq Made
  /\ w.old.text.has \cup w.put.text.has \subseteq AnsweredFor'

\* The baseline, the history and the list follow.
WorkMoves(o) ==
  /\ base' = base \/ base' = work[o].put
  /\ trail' \in Trails /\ trail.approved \subseteq trail'.approved /\ trail.excused \subseteq trail'.excused
  /\ trail'.kept = trail.kept /\ trail'.trampled = trail.trampled /\ trail'.residual = trail.residual /\ trail'.reversed = trail.reversed
  /\ trail'.rode = trail.rode /\ trail'.typed = trail.typed
  /\ due' \in BOOLEAN /\ ask' \in BOOLEAN /\ sig' \subseteq Lines
  /\ ToCome' \/ (base' = base /\ (ToCome => ToCome'))

LEMMA WorkToKeeps ==
  ASSUME ReviewInv, NEW o \in Workers, NEW w, WorkTo(o, w), WorkKnows(w), WorkMoves(o)
  PROVE  ReviewInv'
<1>0. DeskInv /\ RoomInv /\ TextsInv /\ ReviewedInv /\ KeepsInv /\ ListInv
  BY DEF ReviewInv
<1>1. /\ w \in WorkRecs /\ work \in [Workers -> WorkRecs]
      /\ UNCHANGED <<note, stage, fresh, act, view, newest, listed, index, mounted, retired, coming, lost>>
  BY <1>0 DEF WorkTo, DeskInv
<1>2. /\ work' \in [Workers -> WorkRecs] /\ \A p \in Workers : work'[p] = IF p = o THEN w ELSE work[p]
  BY <1>1 DEF WorkTo
<1>3. Lines' = Lines /\ Made' = Made /\ AnsweredFor \subseteq AnsweredFor'
  BY <1>1 DEF Lines, Made, AnsweredFor, WorkMoves
<1>4. base' \in Bases /\ base'.text.has \subseteq Made /\ base'.text.has \subseteq AnsweredFor
  BY <1>0, <1>1 DEF WorkMoves, WorkRecs, RoomInv, TextsInv, ReviewedInv
<1>5. DeskInv'
  BY <1>0, <1>1, <1>2, <1>3 DEF DeskInv, WorkMoves
<1>6. RoomInv'
  BY <1>0, <1>1, <1>4 DEF RoomInv, WorkMoves
<1>7. TextsInv'
  BY <1>0, <1>1, <1>2, <1>3, <1>4 DEF TextsInv, WorkKnows
<1>8. ReviewedInv'
  BY <1>0, <1>1, <1>2, <1>3, <1>4 DEF ReviewedInv, WorkKnows, WorkMoves
<1>9. KeepsInv'
  BY <1>0, <1>1, <1>3 DEF KeepsInv, WorkMoves
<1>10. base' = base => (Current <=> Current')
  BY <1>1, <1>3 DEF Current, Listed
<1>11. mounted /\ ~lost => (Current \/ ToCome)'
  BY <1>0, <1>10 DEF ListInv, WorkMoves
<1>12. ListInv'
  <2>1. IndexInv <=> IndexInv'
    BY <1>1, IndexStays DEF WorkMoves
  <2>2. QED BY <1>0, <1>1, <1>2, <1>11, <2>1 DEF ListInv, WorkTo
<1>13. QED BY <1>5, <1>6, <1>7, <1>8, <1>9, <1>12 DEF ReviewInv

\* A worker that is done.
LEMMA IdleIsWork ==
  /\ Blank \in NoteTexts /\ NoBase \in Bases /\ IdleWork \in WorkRecs
  /\ IdleWork.at = "idle" /\ IdleWork.cur.has = {} /\ IdleWork.old.text.has = {} /\ IdleWork.put.text.has = {}
<1>1. Blank \in NoteTexts /\ Blank.has = {}
  BY DEF Blank, NoteTexts, Statuses
<1>2. NoBase \in Bases /\ NoBase.text = Blank
  BY <1>1 DEF NoBase, Bases
<1>3. QED BY <1>1, <1>2 DEF IdleWork, WorkRecs

LEMMA FinishGoes ==
  ASSUME ReviewInv, NEW o \in Workers, NEW won \in BOOLEAN, Finish(o, won),
         work[o].at \notin {"refresh", "again"},
         UNCHANGED <<note, stage, fresh, act, view, newest, listed, index, mounted, retired, coming, lost>>
  PROVE  /\ \E w : WorkTo(o, w) /\ WorkKnows(w) /\ w.at = IF o = "poll" /\ won THEN "again" ELSE "idle"
         /\ ask' = (ask \/ o = "event")
<1>0. work \in [Workers -> WorkRecs]
  BY DEF ReviewInv, DeskInv
<1>1. PICK i : i = IdleWork
  OBVIOUS
<1>2. PICK w : w = IF o = "poll" /\ won THEN [i EXCEPT !.at = "again"] ELSE i
  OBVIOUS
<1>3. work' = [work EXCEPT ![o] = w] /\ ask' = (ask \/ o = "event")
  BY <1>1, <1>2 DEF Finish
<1>4. /\ i \in WorkRecs /\ i.at = "idle" /\ i.cur.has = {} /\ i.old.text.has = {} /\ i.put.text.has = {}
  BY <1>1, IdleIsWork
<1>5. /\ w \in WorkRecs /\ w.at = (IF o = "poll" /\ won THEN "again" ELSE "idle")
      /\ w.cur.has = {} /\ w.old.text.has = {} /\ w.put.text.has = {}
  BY <1>2, <1>4 DEF WorkRecs
<1>6. WorkKnows(w)
  BY <1>5 DEF WorkKnows
<1>7. WorkTo(o, w)
  BY <1>3, <1>5 DEF WorkTo, Workers
<1>8. QED BY <1>3, <1>5, <1>6, <1>7

\* What is accepted is a baseline of that text.
LEMMA AcceptedIsBase ==
  ASSUME NEW t \in NoteTexts, NEW c \in SUBSET AgentEdits
  PROVE  Accepted(t, c) \in Bases /\ Accepted(t, c).text = t
BY DEF Accepted, Bases

\* Two fields of one worker are replaced.
LEMMA WorkExcept ==
  ASSUME NEW f \in [Workers -> WorkRecs], NEW o \in Workers, NEW t, NEW c, NEW b
  PROVE  /\ [f EXCEPT ![o].at = t] = [f EXCEPT ![o] = [f[o] EXCEPT !.at = t]]
         /\ [f EXCEPT ![o].at = t, ![o].cur = c] = [f EXCEPT ![o] = [f[o] EXCEPT !.at = t, !.cur = c]]
         /\ [f EXCEPT ![o].at = t, ![o].old = b] = [f EXCEPT ![o] = [f[o] EXCEPT !.at = t, !.old = b]]
         /\ [f EXCEPT ![o].at = t, ![o].put = b] = [f EXCEPT ![o] = [f[o] EXCEPT !.at = t, !.put = b]]
OBVIOUS

LEMMA ReadModifiedKeeps ==
  ASSUME ReviewInv, ReadModified
  PROVE  ReviewInv'
<1>0. /\ work \in [Workers -> WorkRecs] /\ note \in NoteTexts /\ note.has \subseteq Made /\ trail \in Trails
      /\ sig \subseteq Lines /\ ask \in BOOLEAN
  BY DEF ReviewInv, DeskInv, RoomInv, TextsInv
<1>1. /\ due /\ work["event"].at = "idle" /\ due' = FALSE /\ UNCHANGED <<base, sig, trail>>
      /\ UNCHANGED <<note, stage, fresh, act, view, newest, listed, index, mounted, retired, coming, lost>>
  BY DEF ReadModified, RestOfWork
<1>2. AnsweredFor' = AnsweredFor
  BY <1>1 DEF AnsweredFor
<1>3. PICK w : w = IF base.real /\ note = base.text THEN work["event"]
                   ELSE [IdleWork EXCEPT !.at = "read", !.cur = note]
  OBVIOUS
<1>4. "event" \in Workers /\ work["event"] \in WorkRecs
  BY <1>0 DEF Workers
<1>5. CASE base.real /\ note = base.text
  <2>1. work' = [work EXCEPT !["event"] = w] /\ w = work["event"] /\ ask' = TRUE
    BY <1>0, <1>3, <1>4, <1>5 DEF ReadModified
  <2>2. WorkTo("event", w)
    BY <1>1, <1>4, <2>1 DEF WorkTo
  <2>3. WorkKnows(w)
    BY <1>2, <1>4, <2>1 DEF WorkKnows, ReviewInv, TextsInv, ReviewedInv
  <2>4. ToCome'
    BY <2>1 DEF ToCome
  <2>5. WorkMoves("event")
    BY <1>0, <1>1, <2>1, <2>4 DEF WorkMoves, Trails
  <2>6. QED BY <1>4, <2>2, <2>3, <2>5, WorkToKeeps
<1>6. CASE ~(base.real /\ note = base.text)
  <2>1. PICK i, n : i = IdleWork /\ n = note
    OBVIOUS
  <2>2. work' = [work EXCEPT !["event"] = w] /\ w = [i EXCEPT !.at = "read", !.cur = n] /\ ask' = ask
    BY <1>3, <1>6, <2>1 DEF ReadModified
  <2>3. /\ i \in WorkRecs /\ n \in NoteTexts /\ i.at = "idle"
        /\ i.cur.has = {} /\ i.old.text.has = {} /\ i.put.text.has = {}
    BY <1>0, <2>1, IdleIsWork
  <2>4. w \in WorkRecs /\ w.at = "read" /\ w.cur = n /\ w.old = i.old /\ w.put = i.put
    BY <2>2, <2>3 DEF WorkRecs
  <2>5. WorkTo("event", w)
    BY <1>1, <2>2, <2>4 DEF WorkTo
  <2>6. WorkKnows(w)
    BY <1>0, <2>1, <2>3, <2>4 DEF WorkKnows
  <2>7. work'["event"].at = "read"
    BY <1>0, <1>4, <2>2, <2>4
  <2>8. WorkMoves("event")
    BY <1>0, <1>1, <2>2, <2>7 DEF WorkMoves, Trails, ToCome
  <2>9. QED BY <1>4, <2>5, <2>6, <2>8, WorkToKeeps
<1>7. QED BY <1>5, <1>6

\* A step that leaves the baseline, the timer and the journal alone.
LEMMA WorkMovesOn ==
  ASSUME ReviewInv, NEW o \in Workers, NEW w, WorkTo(o, w), ask' \in BOOLEAN, ask => ask',
         UNCHANGED <<base, due, sig, trail>>, o = "event" => w.at # "idle" \/ ask'
  PROVE  WorkMoves(o)
<1>1. /\ work \in [Workers -> WorkRecs] /\ trail \in Trails /\ sig \subseteq Lines
      /\ due \in BOOLEAN
  BY DEF ReviewInv, DeskInv, RoomInv
<1>2. /\ work[o].at \notin {"refresh", "again"}
      /\ UNCHANGED <<note, stage, fresh, act, view, newest, listed, index, mounted, retired, coming, lost>>
      /\ \A p \in Workers : work'[p] = IF p = o THEN w ELSE work[p]
  BY <1>1 DEF WorkTo
<1>3. Lines' = Lines
  BY <1>2 DEF Lines
<1>4. ToCome => ToCome'
  BY <1>2, <1>3 DEF ToCome, Workers
<1>5. QED BY <1>1, <1>4 DEF WorkMoves, Trails

LEMMA ClassifyKeeps ==
  ASSUME ReviewInv, Classify
  PROVE  ReviewInv'
<1>0. /\ work \in [Workers -> WorkRecs] /\ trail \in Trails /\ sig \subseteq Lines /\ ask \in BOOLEAN
      /\ due \in BOOLEAN /\ "event" \in Workers /\ DeskInv /\ RoomInv
  BY DEF ReviewInv, DeskInv, RoomInv, Workers
<1>1. /\ work["event"].at = "read" /\ UNCHANGED <<base, due, sig>>
      /\ UNCHANGED <<note, stage, fresh, act, view, newest, listed, index, mounted, retired, coming, lost>>
  BY DEF Classify, RestOfWork
<1>2. PICK m : m = work["event"]
  OBVIOUS
<1>3. /\ m \in WorkRecs /\ m.cur \in NoteTexts /\ m.old \in Bases /\ m.put \in Bases
      /\ m.cur.has \cup m.old.text.has \cup m.put.text.has \subseteq Made
      /\ m.old.text.has \cup m.put.text.has \subseteq AnsweredFor
  BY <1>0, <1>2 DEF ReviewInv, TextsInv, ReviewedInv, WorkRecs
<1>4. ASSUME NEW t \in {"idle", "begin"}, work' = [work EXCEPT !["event"].at = t], trail' = trail,
             t = "idle" => ask' = TRUE, t = "begin" => ask' = ask
      PROVE  ReviewInv'
  <2>1. PICK w : w = [m EXCEPT !.at = t]
    OBVIOUS
  <2>2. w \in WorkRecs /\ w.at = t /\ w.cur = m.cur /\ w.old = m.old /\ w.put = m.put
    BY <1>3, <2>1 DEF WorkRecs
  <2>3. work' = [work EXCEPT !["event"] = w]
    <3>1. work' = [work EXCEPT !["event"] = [work["event"] EXCEPT !.at = t]]
      BY <1>0, <1>4, WorkExcept
    <3>2. w = [work["event"] EXCEPT !.at = t]
      BY <1>2, <2>1
    <3>3. QED BY <3>1, <3>2
  <2>4. WorkTo("event", w)
    BY <1>1, <2>2, <2>3 DEF WorkTo
  <2>5. AnsweredFor' = AnsweredFor
    BY <1>4 DEF AnsweredFor
  <2>6. WorkKnows(w)
    BY <1>3, <2>2, <2>5 DEF WorkKnows
  <2>7. ask' \in BOOLEAN /\ (ask => ask') /\ (t # "idle" \/ ask') /\ UNCHANGED <<base, due, sig, trail>>
    <3>1. ask' = TRUE \/ (ask' = ask /\ t # "idle")
      BY <1>4
    <3>2. ask' \in BOOLEAN
      BY <1>0, <3>1
    <3>3. ask => ask'
      BY <3>1
    <3>4. t # "idle" \/ ask'
      BY <3>1
    <3>5. UNCHANGED <<base, due, sig, trail>>
      BY <1>1, <1>4
    <3>6. QED BY <3>2, <3>3, <3>4, <3>5
  <2>8. WorkMoves("event")
    BY <1>0, <2>2, <2>4, <2>7, WorkMovesOn
  <2>9. QED BY <1>0, <2>4, <2>6, <2>8, WorkToKeeps
<1>5. ASSUME ModifyClass = "human", ask' = ask,
             work' = [work EXCEPT !["event"].at = "put", !["event"].put = Accepted(m.cur, Dated)],
             trail' = [trail EXCEPT !.rode = @ \/ ~trail.typed,
                          !.excused = @ \cup IF fresh /\ Recent = {} THEN m.cur.has ELSE {}]
      PROVE  ReviewInv'
  <2>1. PICK b : b = Accepted(m.cur, Dated)
    OBVIOUS
  <2>2. Dated \in SUBSET AgentEdits
    BY DEF Dated
  <2>3. b \in Bases /\ b.text = m.cur
    BY <1>3, <2>1, <2>2, AcceptedIsBase
  <2>4. PICK w : w = [m EXCEPT !.at = "put", !.put = b]
    OBVIOUS
  <2>5. w \in WorkRecs /\ w.at = "put" /\ w.cur = m.cur /\ w.old = m.old /\ w.put = b
    BY <1>3, <2>3, <2>4 DEF WorkRecs
  <2>6. work' = [work EXCEPT !["event"] = w]
    <3>1. work' = [work EXCEPT !["event"].at = "put", !["event"].put = b]
      BY <1>5, <2>1
    <3>2. w = [work["event"] EXCEPT !.at = "put", !.put = b]
      BY <1>2, <2>4
    <3>3. QED BY <1>0, <3>1, <3>2, WorkExcept
  <2>7. WorkTo("event", w)
    BY <1>1, <2>5, <2>6 DEF WorkTo
  <2>8. fresh /\ Recent = {} /\ trail.typed /\ ~trail.rode
    BY <1>0, <1>5 DEF ModifyClass, ReviewInv, ReviewedInv, RoomInv
  <2>9. PICK h : h = m.cur.has
    OBVIOUS
  <2>10. h \in SUBSET Edits
    BY <1>3, <2>9 DEF NoteTexts
  <2>11. PICK r, x : r = (trail.rode \/ ~trail.typed) /\ x = trail.excused \cup h
    OBVIOUS
  <2>12. r = FALSE /\ trail.rode = FALSE /\ x \in SUBSET Edits
    BY <1>0, <2>8, <2>10, <2>11 DEF Trails
  <2>13. trail' = [trail EXCEPT !.rode = r, !.excused = x]
    BY <1>5, <2>8, <2>9, <2>11
  <2>14. /\ trail' \in Trails /\ trail'.excused = trail.excused \cup h /\ trail'.rode = FALSE
         /\ trail'.approved = trail.approved /\ trail'.kept = trail.kept
         /\ trail'.trampled = trail.trampled /\ trail'.residual = trail.residual /\ trail'.reversed = trail.reversed
         /\ trail'.typed = trail.typed
    BY <1>0, <2>11, <2>12, <2>13 DEF Trails
  <2>15. AnsweredFor \subseteq AnsweredFor' /\ h \subseteq AnsweredFor'
    BY <2>14 DEF AnsweredFor
  <2>16. WorkKnows(w)
    BY <1>3, <2>3, <2>5, <2>9, <2>15 DEF WorkKnows
  <2>17. work'["event"].at # "idle"
    BY <1>0, <2>5, <2>6
  <2>18. ToCome'
    BY <2>17 DEF ToCome
  <2>19. WorkMoves("event")
    BY <1>0, <1>1, <1>5, <2>12, <2>14, <2>18 DEF WorkMoves
  <2>20. QED BY <1>0, <2>7, <2>16, <2>19, WorkToKeeps
<1>6. QED BY <1>2, <1>4, <1>5 DEF Classify

LEMMA BeginAutoKeeps ==
  ASSUME ReviewInv, NEW o \in Workers, BeginAuto(o)
  PROVE  ReviewInv'
<1>0. work \in [Workers -> WorkRecs] /\ base \in Bases /\ ask \in BOOLEAN
  BY DEF ReviewInv, DeskInv, RoomInv
<1>1. /\ work[o].at = "begin" /\ UNCHANGED <<base, due, sig, trail>>
      /\ UNCHANGED <<note, stage, fresh, act, view, newest, listed, index, mounted, retired, coming, lost>>
  BY DEF BeginAuto, RestOfWork
<1>2. CASE Finish(o, FALSE)
  <2>1. PICK w : WorkTo(o, w) /\ WorkKnows(w) /\ w.at = "idle"
    BY <1>1, <1>2, FinishGoes
  <2>2. ask' = (ask \/ o = "event")
    BY <1>2 DEF Finish
  <2>3. WorkMoves(o)
    BY <1>0, <1>1, <2>1, <2>2, WorkMovesOn
  <2>4. QED BY <2>1, <2>3, WorkToKeeps
<1>3. CASE work' = [work EXCEPT ![o].at = "old", ![o].old = base] /\ UNCHANGED ask
  <2>1. PICK m, b : m = work[o] /\ b = base
    OBVIOUS
  <2>2. PICK w : w = [m EXCEPT !.at = "old", !.old = b]
    OBVIOUS
  <2>3. m \in WorkRecs /\ b \in Bases /\ m.cur \in NoteTexts
    BY <1>0, <2>1 DEF WorkRecs
  <2>4. w \in WorkRecs /\ w.at = "old" /\ w.cur = m.cur /\ w.old = b /\ w.put = m.put
    BY <2>2, <2>3 DEF WorkRecs
  <2>5. work' = [work EXCEPT ![o] = w]
    <3>1. work' = [work EXCEPT ![o] = [work[o] EXCEPT !.at = "old", !.old = base]]
      BY <1>0, <1>3, WorkExcept
    <3>2. w = [work[o] EXCEPT !.at = "old", !.old = base]
      BY <2>1, <2>2
    <3>3. QED BY <3>1, <3>2
  <2>6. WorkTo(o, w)
    BY <1>1, <2>4, <2>5 DEF WorkTo
  <2>7. AnsweredFor' = AnsweredFor
    BY <1>1 DEF AnsweredFor
  <2>8. WorkKnows(w)
    BY <2>1, <2>4, <2>7 DEF WorkKnows, ReviewInv, TextsInv, ReviewedInv
  <2>9. WorkMoves(o)
    BY <1>0, <1>1, <1>3, <2>4, <2>6, WorkMovesOn
  <2>10. QED BY <2>6, <2>8, <2>9, WorkToKeeps
<1>4. QED BY <1>2, <1>3 DEF BeginAuto

LEMMA ReadAutoKeeps ==
  ASSUME ReviewInv, NEW o \in Workers, ReadAuto(o)
  PROVE  ReviewInv'
<1>0. work \in [Workers -> WorkRecs] /\ note \in NoteTexts /\ ask \in BOOLEAN
  BY DEF ReviewInv, DeskInv, RoomInv
<1>1. /\ work[o].at = "old" /\ UNCHANGED <<base, due, sig, trail>>
      /\ UNCHANGED <<note, stage, fresh, act, view, newest, listed, index, mounted, retired, coming, lost>>
  BY DEF ReadAuto, RestOfWork
<1>2. CASE Finish(o, FALSE)
  <2>1. PICK w : WorkTo(o, w) /\ WorkKnows(w) /\ w.at = "idle"
    BY <1>1, <1>2, FinishGoes
  <2>2. ask' = (ask \/ o = "event")
    BY <1>2 DEF Finish
  <2>3. WorkMoves(o)
    BY <1>0, <1>1, <2>1, <2>2, WorkMovesOn
  <2>4. QED BY <2>1, <2>3, WorkToKeeps
<1>3. CASE work' = [work EXCEPT ![o].at = "both", ![o].cur = note] /\ UNCHANGED ask
  <2>1. PICK m, n : m = work[o] /\ n = note
    OBVIOUS
  <2>2. PICK w : w = [m EXCEPT !.at = "both", !.cur = n]
    OBVIOUS
  <2>3. m \in WorkRecs /\ n \in NoteTexts /\ m.put \in Bases
    BY <1>0, <2>1 DEF WorkRecs
  <2>4. w \in WorkRecs /\ w.at = "both" /\ w.cur = n /\ w.old = m.old /\ w.put = m.put
    BY <2>2, <2>3 DEF WorkRecs
  <2>5. work' = [work EXCEPT ![o] = w]
    <3>1. work' = [work EXCEPT ![o] = [work[o] EXCEPT !.at = "both", !.cur = note]]
      BY <1>0, <1>3, WorkExcept
    <3>2. w = [work[o] EXCEPT !.at = "both", !.cur = note]
      BY <2>1, <2>2
    <3>3. QED BY <3>1, <3>2
  <2>6. WorkTo(o, w)
    BY <1>1, <2>4, <2>5 DEF WorkTo
  <2>7. AnsweredFor' = AnsweredFor
    BY <1>1 DEF AnsweredFor
  <2>8. WorkKnows(w)
    BY <2>1, <2>4, <2>7 DEF WorkKnows, ReviewInv, TextsInv, ReviewedInv
  <2>9. WorkMoves(o)
    BY <1>0, <1>1, <1>3, <2>4, <2>6, WorkMovesOn
  <2>10. QED BY <2>6, <2>8, <2>9, WorkToKeeps
<1>4. QED BY <1>2, <1>3 DEF ReadAuto

LEMMA DecideAutoKeeps ==
  ASSUME ReviewInv, NEW o \in Workers, DecideAuto(o)
  PROVE  ReviewInv'
<1>0. work \in [Workers -> WorkRecs] /\ ask \in BOOLEAN
  BY DEF ReviewInv, DeskInv, RoomInv
<1>1. /\ work[o].at = "both" /\ UNCHANGED <<base, due, sig, trail>>
      /\ UNCHANGED <<note, stage, fresh, act, view, newest, listed, index, mounted, retired, coming, lost>>
  BY DEF DecideAuto, RestOfWork
<1>2. CASE Finish(o, FALSE)
  <2>1. PICK w : WorkTo(o, w) /\ WorkKnows(w) /\ w.at = "idle"
    BY <1>1, <1>2, FinishGoes
  <2>2. ask' = (ask \/ o = "event")
    BY <1>2 DEF Finish
  <2>3. WorkMoves(o)
    BY <1>0, <1>1, <2>1, <2>2, WorkMovesOn
  <2>4. QED BY <2>1, <2>3, WorkToKeeps
<1>3. ASSUME Eligible(work[o].old.text, work[o].cur), UNCHANGED ask,
             work' = [work EXCEPT ![o].at = "put", ![o].put = Accepted(work[o].cur, Dated)]
      PROVE  ReviewInv'
  <2>1. PICK m, b : m = work[o] /\ b = Accepted(work[o].cur, Dated)
    OBVIOUS
  <2>2. PICK w : w = [m EXCEPT !.at = "put", !.put = b]
    OBVIOUS
  <2>3. m \in WorkRecs /\ m.cur \in NoteTexts /\ Dated \in SUBSET AgentEdits
    BY <1>0, <2>1 DEF WorkRecs, Dated
  <2>4. b \in Bases /\ b.text = m.cur
    BY <2>1, <2>3, AcceptedIsBase
  <2>5. w \in WorkRecs /\ w.at = "put" /\ w.cur = m.cur /\ w.old = m.old /\ w.put = b
    BY <2>2, <2>3, <2>4 DEF WorkRecs
  <2>6. work' = [work EXCEPT ![o] = w]
    <3>1. work' = [work EXCEPT ![o].at = "put", ![o].put = b]
      BY <1>3, <2>1
    <3>2. w = [work[o] EXCEPT !.at = "put", !.put = b]
      BY <2>1, <2>2
    <3>3. QED BY <1>0, <3>1, <3>2, WorkExcept
  <2>7. WorkTo(o, w)
    BY <1>1, <2>5, <2>6 DEF WorkTo
  <2>8. AnsweredFor' = AnsweredFor
    BY <1>1 DEF AnsweredFor
  <2>9. m.old.text.has \subseteq AnsweredFor
    BY <2>1 DEF ReviewInv, ReviewedInv
  <2>10. m.cur.has \subseteq AnsweredFor
    BY <1>3, <2>1, <2>9 DEF Eligible, AnsweredFor
  <2>11. WorkKnows(w)
    BY <2>1, <2>4, <2>5, <2>8, <2>9, <2>10 DEF WorkKnows, ReviewInv, TextsInv
  <2>12. WorkMoves(o)
    BY <1>0, <1>1, <1>3, <2>5, <2>7, WorkMovesOn
  <2>13. QED BY <2>7, <2>11, <2>12, WorkToKeeps
<1>4. QED BY <1>2, <1>3 DEF DecideAuto

LEMMA LandWorkKeeps ==
  ASSUME ReviewInv, NEW o \in Workers, LandWork(o)
  PROVE  ReviewInv'
<1>0. /\ work \in [Workers -> WorkRecs] /\ ask \in BOOLEAN /\ due \in BOOLEAN /\ trail \in Trails
      /\ sig \subseteq Lines
      /\ work["poll"].at \notin {"refresh", "again"} => view["poll"].at = "idle"
  BY DEF ReviewInv, DeskInv, RoomInv, ListInv
<1>1. /\ work[o].at = "put" /\ UNCHANGED <<due, sig, trail>> /\ base' = work[o].put /\ Finish(o, TRUE)
      /\ UNCHANGED <<note, stage, fresh, act, view, newest, listed, index, mounted, retired, coming, lost>>
  BY DEF LandWork, RestOfWork
<1>2. PICK w : WorkTo(o, w) /\ WorkKnows(w) /\ w.at = IF o = "poll" THEN "again" ELSE "idle"
  BY <1>1, FinishGoes
<1>3. ask' = (ask \/ o = "event")
  BY <1>1 DEF Finish
<1>4. work'[o] = w
  BY <1>0, <1>2 DEF WorkTo
<1>5. ToCome'
  BY <1>0, <1>1, <1>2, <1>3, <1>4 DEF ToCome, Workers
<1>6. WorkMoves(o)
  BY <1>0, <1>1, <1>3, <1>5 DEF WorkMoves, Trails
<1>7. QED BY <1>2, <1>6, WorkToKeeps

LEMMA PollTickKeeps ==
  ASSUME ReviewInv, PollTick
  PROVE  ReviewInv'
<1>0. /\ work \in [Workers -> WorkRecs] /\ ask \in BOOLEAN /\ due \in BOOLEAN /\ trail \in Trails
      /\ work["poll"].at \notin {"refresh", "again"} => view["poll"].at = "idle"
      /\ "poll" \in Workers
  BY DEF ReviewInv, DeskInv, RoomInv, ListInv, Workers
<1>1. /\ work["poll"].at = "idle" /\ sig' = Lines /\ UNCHANGED <<base, due, ask, trail>>
      /\ work' = [work EXCEPT !["poll"].at = "refresh"]
      /\ UNCHANGED <<note, stage, fresh, act, view, newest, listed, index, mounted, retired, coming, lost>>
  BY DEF PollTick, RestOfWork
<1>2. PICK m : m = work["poll"]
  OBVIOUS
<1>3. PICK w : w = [m EXCEPT !.at = "refresh"]
  OBVIOUS
<1>4. m \in WorkRecs /\ m.cur \in NoteTexts /\ m.old \in Bases
  BY <1>0, <1>2 DEF WorkRecs
<1>5. w \in WorkRecs /\ w.at = "refresh" /\ w.cur = m.cur /\ w.old = m.old /\ w.put = m.put
  BY <1>3, <1>4 DEF WorkRecs
<1>6. work' = [work EXCEPT !["poll"] = w]
  <2>1. work' = [work EXCEPT !["poll"] = [work["poll"] EXCEPT !.at = "refresh"]]
    BY <1>0, <1>1, WorkExcept
  <2>2. w = [work["poll"] EXCEPT !.at = "refresh"]
    BY <1>2, <1>3
  <2>3. QED BY <2>1, <2>2
<1>7. WorkTo("poll", w)
  BY <1>1, <1>5, <1>6 DEF WorkTo
<1>8. AnsweredFor' = AnsweredFor
  BY <1>1 DEF AnsweredFor
<1>9. WorkKnows(w)
  BY <1>0, <1>2, <1>5, <1>8 DEF WorkKnows, ReviewInv, TextsInv, ReviewedInv
<1>10. work'["poll"] = w
  BY <1>0, <1>6
<1>11. ToCome'
  BY <1>0, <1>1, <1>5, <1>10 DEF ToCome
<1>12. WorkMoves("poll")
  BY <1>0, <1>1, <1>11 DEF WorkMoves, Trails
<1>13. QED BY <1>0, <1>7, <1>9, <1>12, WorkToKeeps
-----------------------------------------------------------------------------
\* A refresh begins with the note as it is.
LEMMA StartRefreshKeeps ==
  ASSUME ReviewInv, NEW r \in Views, StartRefresh(r)
  PROVE  ReviewInv'
<1>0. DeskInv /\ RoomInv /\ TextsInv /\ ReviewedInv /\ KeepsInv /\ ListInv
  BY DEF ReviewInv
<1>1. PICK v : v = [IdleView EXCEPT !.at = "read", !.seen = note]
  OBVIOUS
<1>2. v \in ViewRecs /\ v.at = "read" /\ v.seen = note
  BY <1>0, <1>1 DEF ViewRecs, RoomInv, IdleView
<1>3. /\ Wanted(r) /\ view[r].at = "idle" /\ newest' = r /\ view' = [view EXCEPT ![r] = v]
      /\ ask' = (ask /\ r \in {"poll", "click"})
      /\ UNCHANGED <<work, act, listed, index, lost>>
      /\ UNCHANGED <<note, base, stage, fresh, due, sig, mounted, retired, coming, trail>>
  BY <1>1 DEF StartRefresh, RestOfView
<1>4. \A q \in Views : view'[q] = IF q = r THEN v ELSE view[q]
  BY <1>0, <1>3 DEF DeskInv
<1>5. Lines' = Lines /\ Made' = Made /\ AnsweredFor' = AnsweredFor
  BY <1>3 DEF Lines, Made, AnsweredFor
<1>6. DeskInv'
  BY <1>0, <1>2, <1>3, <1>5 DEF DeskInv
<1>7. RoomInv'
  <2>1. ask' \in BOOLEAN
    BY <1>3
  <2>2. QED BY <1>0, <1>3, <2>1 DEF RoomInv
<1>8. TextsInv' /\ ReviewedInv'
  BY <1>0, <1>3, <1>5 DEF TextsInv, ReviewedInv
<1>9. KeepsInv'
  <2>1. \A q \in Views : view'[q].at = "write" => view[q].at = "write"
    BY <1>2, <1>4
  <2>2. QED BY <1>0, <1>3, <1>5, <2>1 DEF KeepsInv
<1>10. Current'
  <2>1. view'[newest'].at = "read" /\ view'[newest'].seen = note'
    BY <1>2, <1>3, <1>4
  <2>2. QED BY <2>1 DEF Current
<1>11. r = "poll" => work["poll"].at \in {"refresh", "again"}
  BY <1>3 DEF Wanted
<1>12. r = "click" => act.at = "refresh"
  BY <1>3 DEF Wanted
<1>13. ListInv'
  <2>1. \A q \in Views : (Putting(q) <=> Putting(q)') /\ (Putting(q) => view'[q] = view[q])
    BY <1>2, <1>3, <1>4 DEF Putting
  <2>2. IndexInv => IndexInv'
    BY <1>3, <2>1 DEF IndexInv
  <2>3. QED BY <1>0, <1>3, <1>4, <1>10, <1>11, <1>12, <2>2 DEF ListInv, Views
<1>14. QED BY <1>6, <1>7, <1>8, <1>9, <1>13 DEF ReviewInv

\* A refresh ends: its caller goes on, with what it had read.
ViewEnds(r) ==
  /\ view' \in [Views -> ViewRecs] /\ act' \in ActRecs /\ work' \in [Workers -> WorkRecs]
  /\ view'[r].at = "idle" /\ \A q \in Views \ {r} : view'[q] = view[q]
  /\ \A o \in Workers : work'[o].cur = work[o].cur /\ work'[o].old = work[o].old /\ work'[o].put = work[o].put
  /\ work'["event"] = work["event"]
  /\ r # "poll" => work' = work
  /\ r = "poll" => work'["poll"].at \in {"begin", "idle"}
  /\ r # "click" => act' = act
  /\ r = "click" => act' = IdleAct
  /\ newest' = newest /\ ask' = ask

LEMMA IdleIsAct ==
  /\ IdleAct \in ActRecs /\ IdleAct.at = "idle" /\ IdleAct.pre.has = {} /\ IdleAct.cur.has = {}
  /\ IdleAct.put.text.has = {}
<1>1. Blank \in NoteTexts /\ Blank.has = {}
  BY DEF Blank, NoteTexts, Statuses
<1>2. NoBase \in Bases /\ NoBase.text = Blank
  BY <1>1 DEF NoBase, Bases
<1>3. QED BY <1>1, <1>2 DEF IdleAct, ActRecs

LEMMA EndRefreshEnds ==
  ASSUME ReviewInv, NEW r \in Views, NEW s \in BOOLEAN, EndRefresh(r, s)
  PROVE  ViewEnds(r)
<1>0. view \in [Views -> ViewRecs] /\ act \in ActRecs /\ work \in [Workers -> WorkRecs]
  BY DEF ReviewInv, DeskInv
<1>1. IdleView \in ViewRecs /\ IdleView.at = "idle"
  BY IdleIsWork DEF IdleView, ViewRecs
<1>2. /\ view' \in [Views -> ViewRecs] /\ view'[r].at = "idle"
      /\ \A q \in Views \ {r} : view'[q] = view[q]
  BY <1>0, <1>1 DEF EndRefresh
<1>3. act' \in ActRecs /\ (r # "click" => act' = act) /\ (r = "click" => act' = IdleAct)
  BY <1>0, IdleIsAct DEF EndRefresh
<1>4. newest' = newest /\ ask' = ask
  BY DEF EndRefresh
<1>5. CASE r # "poll"
  <2>1. work' = work
    BY <1>5 DEF EndRefresh
  <2>2. QED BY <1>0, <1>2, <1>3, <1>4, <1>5, <2>1 DEF ViewEnds
<1>6. CASE r = "poll"
  <2>1. PICK m : m = work["poll"]
    OBVIOUS
  <2>2. PICK t : t = IF m.at = "refresh" /\ s /\ ~retired THEN "begin" ELSE "idle"
    OBVIOUS
  <2>3. PICK w : w = [m EXCEPT !.at = t]
    OBVIOUS
  <2>4. "poll" \in Workers /\ m \in WorkRecs /\ t \in {"begin", "idle"}
    BY <1>0, <2>1, <2>2 DEF Workers
  <2>5. w \in WorkRecs /\ w.at = t /\ w.cur = m.cur /\ w.old = m.old /\ w.put = m.put
    BY <2>3, <2>4 DEF WorkRecs
  <2>6. work' = [work EXCEPT !["poll"].at =
                   IF @ = "refresh" /\ s /\ ~retired THEN "begin" ELSE "idle"]
    BY <1>6 DEF EndRefresh
  <2>7. work' = [work EXCEPT !["poll"] = w]
    BY <1>0, <2>1, <2>2, <2>3, <2>4, <2>6
  <2>8. work' \in [Workers -> WorkRecs] /\ work'["poll"] = w /\ work'["event"] = work["event"]
    BY <1>0, <2>4, <2>5, <2>7 DEF Workers
  <2>9. \A o \in Workers : work'[o].cur = work[o].cur /\ work'[o].old = work[o].old /\ work'[o].put = work[o].put
    BY <2>1, <2>5, <2>8 DEF Workers
  <2>10. QED BY <1>2, <1>3, <1>4, <1>6, <2>4, <2>5, <2>8, <2>9 DEF ViewEnds
<1>7. QED BY <1>5, <1>6

\* Of the history, a refresh touches only what tells the order of the index writes.
ViewTrail ==
  /\ trail' \in Trails
  /\ trail'.approved = trail.approved /\ trail'.excused = trail.excused /\ trail'.kept = trail.kept
  /\ trail'.trampled = trail.trampled /\ trail'.rode = trail.rode /\ trail'.typed = trail.typed
  /\ trail'.residual = trail.residual

LEMMA ViewTrailKeeps ==
  ASSUME ReviewInv, NEW b \in BOOLEAN, trail' = trail \/ trail' = [trail EXCEPT !.reversed = b]
  PROVE  ViewTrail
<1>1. trail \in Trails
  BY DEF ReviewInv, RoomInv
<1>2. CASE trail' = trail
  BY <1>1, <1>2 DEF ViewTrail
<1>3. CASE trail' = [trail EXCEPT !.reversed = b]
  BY <1>1, <1>3 DEF ViewTrail, Trails
<1>4. QED BY <1>2, <1>3

LEMMA ViewEndsKeep ==
  ASSUME ReviewInv, NEW r \in Views, ViewEnds(r), view[r].at # "idle",
         UNCHANGED <<note, base, stage, fresh, due, sig, mounted, retired>>, ViewTrail, coming' \subseteq coming,
         listed' \in BOOLEAN, lost' \in BOOLEAN, index' \in SUBSET BOOLEAN, \E b \in BOOLEAN : index' \subseteq {b},
         ~mounted /\ index' # {} => trail.residual,
         mounted => IndexInv',
         mounted /\ ~lost' => Current' \/ ToCome
  PROVE  ReviewInv'
<1>0. DeskInv /\ RoomInv /\ TextsInv /\ ReviewedInv /\ KeepsInv /\ ListInv
  BY DEF ReviewInv
<1>1. Lines' = Lines /\ Made' = Made /\ AnsweredFor' = AnsweredFor
  BY DEF Lines, Made, AnsweredFor, ViewTrail
<1>2. DeskInv'
  BY <1>0, <1>1 DEF DeskInv, ViewEnds
<1>3. RoomInv'
  BY <1>0 DEF RoomInv, ViewEnds, ViewTrail
<1>4. /\ act'.pre.has \subseteq act.pre.has /\ act'.cur.has \subseteq act.cur.has
      /\ act'.put.text.has \subseteq act.put.text.has /\ (act' = act \/ act'.at = "idle")
  BY IdleIsAct DEF ViewEnds
<1>5. TextsInv'
  BY <1>0, <1>1, <1>4 DEF TextsInv, ViewEnds
<1>6. ReviewedInv'
  BY <1>0, <1>1, <1>4 DEF ReviewedInv, ViewEnds, ViewTrail
<1>7. KeepsInv'
  <2>1. \A q \in Views : view'[q].at = "write" => view[q].at = "write"
    BY DEF ViewEnds
  <2>2. QED BY <1>0, <1>1, <1>4, <2>1 DEF KeepsInv, ViewTrail
<1>8. ToCome => ToCome'
  <2>1. r = "click" => act.at = "refresh"
    BY <1>0 DEF ListInv
  <2>2. work'["event"].at = work["event"].at
    BY DEF ViewEnds
  <2>3. ASSUME work["poll"].at \in {"refresh", "again"} /\ view["poll"].at = "idle"
        PROVE  work'["poll"].at \in {"refresh", "again"} /\ view'["poll"].at = "idle"
    BY <2>3 DEF ViewEnds, Views
  <2>4. ASSUME act.at = "finally" \/ (act.at = "refresh" /\ view["click"].at = "idle")
        PROVE  act'.at = "finally" \/ (act'.at = "refresh" /\ view'["click"].at = "idle")
    BY <2>1, <2>4 DEF ViewEnds, Views
  <2>5. (due => due') /\ (ask => ask') /\ (sig # Lines => sig' # Lines')
    BY <1>1 DEF ViewEnds
  <2>6. QED BY <2>2, <2>3, <2>4, <2>5 DEF ToCome
<1>9. mounted' /\ ~lost' => (Current \/ ToCome)'
  BY <1>8
<1>10. /\ work'["poll"].at \notin {"refresh", "again"} => view'["poll"].at = "idle"
       /\ act'.at # "refresh" => view'["click"].at = "idle"
       /\ work'["event"].at \notin {"refresh", "again"} /\ work'["poll"].at # "read"
  BY <1>0 DEF ListInv, ViewEnds, Views
<1>11. ListInv'
  BY <1>9, <1>10 DEF ListInv
<1>12. QED BY <1>2, <1>3, <1>5, <1>6, <1>7, <1>11 DEF ReviewInv

\* A refresh that ends without a write leaves the index to those that write.
LEMMA IndexLeft ==
  ASSUME IndexInv, NEW r \in Views, ViewEnds(r), view[r].at = "read", UNCHANGED <<listed, index, trail>>,
         lost => lost'
  PROVE  IndexInv'
<1>1. \A q \in Views : (Putting(q) <=> Putting(q)') /\ (Putting(q) => view'[q] = view[q])
  BY DEF Putting, ViewEnds
<1>2. QED BY <1>1 DEF IndexInv

LEMMA PublishKeeps ==
  ASSUME ReviewInv, NEW r \in Views, Publish(r)
  PROVE  ReviewInv'
<1>0. DeskInv /\ RoomInv /\ TextsInv /\ ReviewedInv /\ KeepsInv /\ ListInv
  BY DEF ReviewInv
<1>1. /\ view[r].at = "read" /\ UNCHANGED <<index, lost>>
      /\ UNCHANGED <<note, base, stage, fresh, due, sig, mounted, retired, coming, trail>>
  BY DEF Publish, RestOfView
<1>2. Lines' = Lines /\ Made' = Made /\ AnsweredFor' = AnsweredFor
  BY <1>1 DEF Lines, Made, AnsweredFor
<1>3. CASE newest # r
  <2>1. EndRefresh(r, listed) /\ listed' = listed
    BY <1>3 DEF Publish
  <2>2. ViewEnds(r)
    BY <1>0, <2>1, EndRefreshEnds DEF DeskInv
  <2>3. Current => Current'
    BY <1>0, <1>1, <1>2, <1>3, <2>1, <2>2 DEF Current, Listed, ViewEnds, DeskInv
  <2>4. ViewTrail
    BY <1>1, ViewTrailKeeps
  <2>5. /\ listed' \in BOOLEAN /\ lost' \in BOOLEAN /\ index' \in SUBSET BOOLEAN
        /\ \E b \in BOOLEAN : index' \subseteq {b}
        /\ ~mounted /\ index' # {} => trail.residual
        /\ mounted => IndexInv'
    BY <1>0, <1>1, <2>1, <2>2, IndexLeft DEF DeskInv, KeepsInv, ListInv
  <2>6. mounted /\ ~lost' => Current' \/ ToCome
    BY <1>0, <1>1, <2>3 DEF ListInv
  <2>7. coming' \subseteq coming /\ view[r].at # "idle"
    BY <1>1
  <2>8. QED BY <1>1, <2>2, <2>4, <2>5, <2>6, <2>7, ViewEndsKeep
<1>4. CASE newest = r /\ mounted
  <2>1. PICK v : v = [IdleView EXCEPT !.at = "write", !.put = listed']
    OBVIOUS
  <2>2. /\ listed' = Listed(view[r].seen, Lines) /\ UNCHANGED <<newest, ask, act, work>>
        /\ view' = [x \in Views |-> IF x = r THEN v
                                    ELSE [view[x] EXCEPT !.outrun = @ \/ view[x].at = "write"]]
    BY <1>0, <1>4, <2>1 DEF Publish, Issue, DeskInv
  <2>3. v \in ViewRecs /\ v.at = "write" /\ v.put = listed' /\ ~v.outrun
    <3>1. listed' \in BOOLEAN
      BY <2>2 DEF Listed
    <3>2. IdleView \in ViewRecs /\ ~IdleView.outrun
      BY IdleIsWork DEF IdleView, ViewRecs
    <3>3. QED BY <2>1, <3>1, <3>2 DEF ViewRecs
  <2>4. /\ view'[r] = v /\ view' \in [Views -> ViewRecs]
        /\ \A q \in Views \ {r} : /\ view'[q].at = view[q].at
                                  /\ view[q].at = "write" => view'[q].outrun
    <3>1. \A q \in Views \ {r} : view'[q] = [view[q] EXCEPT !.outrun = @ \/ view[q].at = "write"]
      BY <2>2
    <3>2. \A q \in Views : view[q] \in ViewRecs
      BY <1>0 DEF DeskInv
    <3>3. ASSUME NEW q \in Views \ {r}
          PROVE  /\ view'[q] \in ViewRecs
                 /\ view'[q].at = view[q].at
                 /\ view[q].at = "write" => view'[q].outrun
      <4>1. PICK u, o : u = view[q] /\ o = (view[q].outrun \/ view[q].at = "write")
        OBVIOUS
      <4>2. u \in ViewRecs /\ o \in BOOLEAN /\ view'[q] = [u EXCEPT !.outrun = o]
        BY <3>1, <3>2, <4>1
      <4>3. view'[q] \in ViewRecs /\ view'[q].at = u.at /\ view'[q].outrun = o
        BY <4>2 DEF ViewRecs
      <4>4. QED BY <4>1, <4>3
    <3>4. view'[r] = v
      BY <2>2
    <3>5. ASSUME NEW x \in Views PROVE view'[x] \in ViewRecs
      <4>1. CASE x = r
        BY <2>3, <3>4, <4>1, Zenon
      <4>2. CASE x # r
        BY <3>3, <4>2, Zenon
      <4>3. QED BY <4>1, <4>2, Zenon
    <3>6. view' = [x \in Views |-> view'[x]]
      BY <2>2, Zenon
    <3>7. view' \in [Views -> ViewRecs]
      BY <3>5, <3>6
    <3>8. QED BY <3>3, <3>4, <3>7, Zenon
  <2>5. listed' \in BOOLEAN
    BY <2>2 DEF Listed
  <2>6. DeskInv'
    BY <1>0, <1>1, <1>2, <2>2, <2>4, <2>5 DEF DeskInv
  <2>7. RoomInv' /\ TextsInv' /\ ReviewedInv'
    BY <1>0, <1>1, <1>2, <2>2 DEF RoomInv, TextsInv, ReviewedInv
  <2>8. KeepsInv'
    BY <1>0, <1>1, <1>2, <1>4, <2>2 DEF KeepsInv
  <2>9. view[newest].at = "read" /\ view[newest].seen = view[r].seen /\ view'[newest'].at = "write"
    BY <1>1, <1>4, <2>2, <2>3, <2>4
  <2>10. Current => Current'
    <3>1. SUFFICES ASSUME Current PROVE Current'
      OBVIOUS
    <3>2. view[r].seen = note
      BY <2>9, <3>1 DEF Current
    <3>3. listed' = Listed(note, Lines)'
      BY <1>1, <1>2, <2>2, <3>2 DEF Listed
    <3>4. QED BY <2>9, <3>3 DEF Current
  <2>11. ToCome => ToCome'
    <3>1. view["poll"].at = "idle" => view'["poll"].at = "idle"
      BY <1>1, <2>4 DEF Views
    <3>2. view["click"].at = "idle" => view'["click"].at = "idle"
      BY <1>1, <2>4 DEF Views
    <3>3. QED BY <1>1, <1>2, <2>2, <3>1, <3>2 DEF ToCome
  <2>12. ListInv'
    <3>1. work["poll"].at \notin {"refresh", "again"} => view'["poll"].at = "idle"
      BY <1>0, <1>1, <2>4 DEF ListInv, Views
    <3>2. act.at # "refresh" => view'["click"].at = "idle"
      BY <1>0, <1>1, <2>4 DEF ListInv, Views
    <3>3. IndexInv'
      <4>1. \A q \in Views : Putting(q)' <=> q = r
        BY <2>3, <2>4 DEF Putting
      <4>2. view'[r].put = listed'
        BY <2>3, <2>4
      <4>3. QED BY <4>1, <4>2 DEF IndexInv
    <3>4. mounted' /\ ~lost' => (Current \/ ToCome)'
      BY <1>0, <1>1, <2>10, <2>11 DEF ListInv
    <3>5. QED BY <1>0, <2>2, <3>1, <3>2, <3>3, <3>4 DEF ListInv
  <2>13. QED BY <2>6, <2>7, <2>8, <2>12 DEF ReviewInv
<1>5. CASE newest = r /\ ~mounted
  <2>1. EndRefresh(r, listed') /\ listed' = Listed(view[r].seen, Lines)
    BY <1>5 DEF Publish, Issue
  <2>2. listed' \in BOOLEAN
    BY <2>1 DEF Listed
  <2>3. PICK s \in BOOLEAN : s = listed'
    BY <2>2
  <2>4. ViewEnds(r)
    BY <2>1, <2>3, EndRefreshEnds
  <2>5. /\ lost' \in BOOLEAN /\ index' \in SUBSET BOOLEAN
        /\ \E b \in BOOLEAN : index' \subseteq {b}
        /\ ~mounted /\ index' # {} => trail.residual
    BY <1>0, <1>1 DEF DeskInv, KeepsInv
  <2>6. coming' \subseteq coming /\ view[r].at # "idle" /\ ViewTrail
    BY <1>1, ViewTrailKeeps
  <2>7. QED BY <1>1, <1>5, <2>2, <2>4, <2>5, <2>6, ViewEndsKeep
<1>6. QED BY <1>3, <1>4, <1>5

\* The index is the list that was published last, or its write is still to land, or
\* it landed before an older one.
LEMMA IndexWritten ==
  ASSUME ReviewInv, NEW r \in Views, WriteIndex(r), ViewEnds(r), mounted
  PROVE  IndexInv'
<1>0. IndexInv /\ trail \in Trails /\ DOMAIN view = Views
  BY DEF ReviewInv, ListInv, RoomInv, DeskInv
<1>1. /\ view[r].at = "write" /\ index' = {view[r].put} /\ UNCHANGED <<listed, lost>>
      /\ trail' = [trail EXCEPT !.reversed = IF view[r].outrun THEN @ \/ Overtaken(r) ELSE FALSE]
  BY DEF WriteIndex
<1>2. \A q \in Views : (Putting(q)' <=> Putting(q) /\ q # r) /\ (q # r => view'[q] = view[q])
  BY DEF Putting, ViewEnds
<1>3. \A q \in Views : Putting(q)' => view'[q].put = listed'
  BY <1>0, <1>1, <1>2 DEF IndexInv
<1>4. CASE ~view[r].outrun
  <2>1. index' = {listed'}
    BY <1>0, <1>1, <1>4 DEF IndexInv, Putting
  <2>2. QED BY <1>3, <2>1 DEF IndexInv
<1>5. CASE view[r].outrun
  <2>1. trail'.reversed = (trail.reversed \/ Overtaken(r))
    BY <1>0, <1>1, <1>5 DEF Trails
  <2>2. CASE Overtaken(r)
    BY <1>3, <2>1, <2>2 DEF IndexInv
  <2>3. CASE ~Overtaken(r)
    <3>1. PICK x \in Views : view[x].at = "write" /\ ~view[x].outrun
      BY <1>0, <1>5, <2>3 DEF Overtaken
    <3>2. Putting(x)'
      BY <1>2, <1>5, <3>1 DEF Putting
    <3>3. QED BY <1>3, <3>2 DEF IndexInv
  <2>4. QED BY <2>2, <2>3
<1>6. QED BY <1>4, <1>5

LEMMA WriteIndexKeeps ==
  ASSUME ReviewInv, NEW r \in Views, WriteIndex(r)
  PROVE  ReviewInv'
<1>0. DeskInv /\ RoomInv /\ TextsInv /\ ReviewedInv /\ KeepsInv /\ ListInv
  BY DEF ReviewInv
<1>1. /\ view[r].at = "write" /\ index' = {view[r].put} /\ EndRefresh(r, listed) /\ UNCHANGED <<listed, lost>>
      /\ UNCHANGED <<note, base, stage, fresh, due, sig, mounted, retired, coming>>
  BY DEF WriteIndex, RestOfView
<1>2. listed \in BOOLEAN /\ lost \in BOOLEAN /\ newest \in Views /\ view[r].put \in BOOLEAN
  BY <1>0 DEF DeskInv, ViewRecs
<1>3. ViewEnds(r) /\ Lines' = Lines
  BY <1>1, <1>2, EndRefreshEnds DEF Lines
<1>4. Current => Current'
  BY <1>1, <1>2, <1>3 DEF Current, Listed, ViewEnds
<1>5. mounted /\ ~lost' => Current' \/ ToCome
  BY <1>0, <1>1, <1>4 DEF ListInv
<1>6. ~mounted /\ index' # {} => trail.residual
  BY <1>0, <1>1 DEF KeepsInv
<1>7. /\ index' \in SUBSET BOOLEAN /\ \E b \in BOOLEAN : index' \subseteq {b}
      /\ listed' \in BOOLEAN /\ lost' \in BOOLEAN /\ coming' \subseteq coming
      /\ view[r].at # "idle"
  BY <1>1, <1>2
<1>8. ViewTrail
  <2>1. PICK b : b = IF view[r].outrun THEN trail.reversed \/ Overtaken(r) ELSE FALSE
    OBVIOUS
  <2>2. b \in BOOLEAN /\ trail' = [trail EXCEPT !.reversed = b]
    BY <1>0, <2>1 DEF WriteIndex
  <2>3. QED BY <2>2, ViewTrailKeeps
<1>9. mounted => IndexInv'
  BY <1>3, IndexWritten
<1>10. QED BY <1>1, <1>3, <1>5, <1>6, <1>7, <1>8, <1>9, ViewEndsKeep

LEMMA RefreshFailsKeeps ==
  ASSUME ReviewInv, NEW r \in Views, RefreshFails(r)
  PROVE  ReviewInv'
<1>0. DeskInv /\ RoomInv /\ TextsInv /\ ReviewedInv /\ KeepsInv /\ ListInv
  BY DEF ReviewInv
<1>1. /\ lost' = TRUE /\ coming' \subseteq coming
      /\ UNCHANGED <<note, base, stage, fresh, due, listed, index, sig, mounted, retired, trail>>
  BY DEF RefreshFails, Comes
<1>2. PICK s \in BOOLEAN : EndRefresh(r, s) /\ view[r].at # "idle"
  BY <1>0 DEF RefreshFails, DeskInv
<1>3. ViewEnds(r)
  BY <1>2, EndRefreshEnds
<1>4. mounted => IndexInv'
  <2>1. \A q \in Views : Putting(q)' => Putting(q) /\ view'[q] = view[q]
    BY <1>3 DEF Putting, ViewEnds
  <2>2. QED BY <1>0, <1>1, <2>1 DEF ListInv, IndexInv
<1>5. /\ listed' \in BOOLEAN /\ lost' \in BOOLEAN /\ index' \in SUBSET BOOLEAN
      /\ \E b \in BOOLEAN : index' \subseteq {b}
      /\ ~mounted /\ index' # {} => trail.residual
  BY <1>0, <1>1 DEF DeskInv, KeepsInv
<1>6. lost' /\ ViewTrail
  BY <1>1, ViewTrailKeeps
<1>7. QED BY <1>1, <1>2, <1>3, <1>4, <1>5, <1>6, ViewEndsKeep
-----------------------------------------------------------------------------
\* A click begins, or goes on: what it leaves alone, and what it knows.
ActTo ==
  /\ UNCHANGED <<stage, ask, work, view, newest, listed, index, sig, mounted, retired, lost>>
  /\ act' \in ActRecs /\ act.at # "refresh" /\ coming' \subseteq coming
  /\ act'.pre.has \cup act'.cur.has \cup act'.put.text.has \subseteq Made
  /\ act'.put.text.has \subseteq AnsweredFor'
  /\ act'.at \in {"stamp", "verify"} => act'.pre.has \subseteq AnsweredFor'
  /\ act'.at = "ready" => act'.cur.has \subseteq AnsweredFor'
  /\ act'.at = "restore" => act'.cur.has \subseteq trail'.kept

\* The history only grows; a human's input is forgotten before it can ride on a disposition.
TrailGrows ==
  /\ trail' \in Trails /\ trail'.rode = trail.rode /\ trail'.residual = trail.residual /\ trail'.reversed = trail.reversed
  /\ trail.approved \subseteq trail'.approved /\ trail.excused \subseteq trail'.excused
  /\ trail.kept \subseteq trail'.kept /\ trail.trampled \subseteq trail'.trampled
  /\ fresh' \in BOOLEAN /\ (fresh' => trail'.typed)

\* What is in the note and in the baseline after it.
ActLeaves ==
  /\ note' \in NoteTexts /\ note'.has \subseteq Made
  /\ Made \subseteq note'.has \cup trail'.kept \cup trail'.trampled
  /\ base' = base \/ base' = act.put
  /\ due' = mounted \/ (note' = note /\ due' = due)
  /\ base' = base \/ act'.at = "finally"
  /\ act.at = "finally" => act'.at = "refresh"

LEMMA ActToKeeps ==
  ASSUME ReviewInv, ActTo, TrailGrows, ActLeaves
  PROVE  ReviewInv'
<1>0. DeskInv /\ RoomInv /\ TextsInv /\ ReviewedInv /\ KeepsInv /\ ListInv
  BY DEF ReviewInv
<1>1. /\ UNCHANGED <<stage, ask, work, view, newest, listed, index, sig, mounted, retired, lost>>
      /\ act' \in ActRecs /\ act.at # "refresh" /\ view["click"].at = "idle"
  BY <1>0 DEF ActTo, ListInv
<1>2. Lines' = Lines /\ Made' = Made /\ AnsweredFor \subseteq AnsweredFor'
  BY <1>1 DEF Lines, Made, AnsweredFor, TrailGrows
<1>3. base' \in Bases /\ base'.text.has \subseteq Made /\ base'.text.has \subseteq AnsweredFor
  BY <1>0 DEF ActLeaves, DeskInv, ActRecs, RoomInv, TextsInv, ReviewedInv
<1>4. DeskInv'
  BY <1>0, <1>1, <1>2 DEF DeskInv
<1>5. due' \in BOOLEAN
  BY <1>0 DEF ActLeaves, DeskInv, RoomInv
<1>6. RoomInv'
  BY <1>0, <1>1, <1>3, <1>5 DEF RoomInv, ActTo, TrailGrows, ActLeaves
<1>7. TextsInv'
  BY <1>0, <1>1, <1>2, <1>3 DEF TextsInv, ActTo, ActLeaves
<1>8. ReviewedInv'
  BY <1>0, <1>1, <1>2, <1>3 DEF ReviewedInv, ActTo, TrailGrows
<1>9. KeepsInv'
  BY <1>0, <1>1, <1>2 DEF KeepsInv, ActTo, TrailGrows, ActLeaves
<1>10. mounted' /\ ~lost' => (Current \/ ToCome)'
  <2>1. SUFFICES ASSUME mounted, ~lost PROVE Current' \/ ToCome'
    BY <1>1
  <2>2. CASE act'.at \in {"finally", "refresh"}
    BY <1>1, <2>2 DEF ToCome
  <2>3. CASE due' = mounted
    BY <2>1, <2>3 DEF ToCome
  <2>4. CASE act'.at \notin {"finally", "refresh"} /\ due' # mounted
    <3>1. note' = note /\ base' = base /\ due' = due /\ act.at # "finally"
      BY <2>4 DEF ActLeaves
    <3>2. Current => Current'
      BY <1>1, <1>2, <3>1 DEF Current, Listed
    <3>3. ToCome => ToCome'
      BY <1>1, <1>2, <3>1 DEF ToCome
    <3>4. QED BY <1>0, <2>1, <3>2, <3>3 DEF ListInv
  <2>5. QED BY <2>2, <2>3, <2>4
<1>11. ListInv'
  <2>1. IndexInv <=> IndexInv'
    BY <1>1, IndexStays DEF TrailGrows
  <2>2. QED BY <1>0, <1>1, <1>10, <2>1 DEF ListInv
<1>12. QED BY <1>4, <1>6, <1>7, <1>8, <1>9, <1>11 DEF ReviewInv

\* Nothing is added to the history, or only to one part of it.
LEMMA TrailAsItIs ==
  ASSUME ReviewInv, trail' = trail, fresh' = fresh \/ fresh' = FALSE
  PROVE  TrailGrows /\ AnsweredFor' = AnsweredFor
<1>1. trail \in Trails /\ fresh \in BOOLEAN /\ (fresh => trail.typed)
  BY DEF ReviewInv, RoomInv, ReviewedInv
<1>2. fresh' \in BOOLEAN /\ (fresh' => trail.typed)
  <2>1. CASE fresh' = fresh
    BY <1>1, <2>1
  <2>2. CASE fresh' = FALSE
    BY <2>2
  <2>3. QED BY <2>1, <2>2
<1>3. QED BY <1>1, <1>2 DEF TrailGrows, AnsweredFor

\* The clicks that leave the note and the baseline as they are.
LEMMA LeavesAsItIs ==
  ASSUME ReviewInv, TrailGrows, UNCHANGED <<note, base, due>>, act.at = "finally" => act'.at = "refresh"
  PROVE  ActLeaves
BY DEF ActLeaves, ReviewInv, RoomInv, TextsInv, KeepsInv, TrailGrows

LEMMA ClickAcceptKeeps ==
  ASSUME ReviewInv, Accept
  PROVE  ReviewInv'
<1>1. /\ note \in NoteTexts /\ note.has \subseteq Made /\ trail \in Trails
  BY DEF ReviewInv, RoomInv, TextsInv
<1>2. PICK i, n, t : i = IdleAct /\ n = note /\ t = IF note.status = "proposed" THEN "stamp" ELSE "ready"
  OBVIOUS
<1>3. act' = [i EXCEPT !.kind = "accept", !.pre = n, !.cur = n, !.at = t]
  BY <1>2 DEF Accept
<1>4. /\ act.at = "idle" /\ coming' \subseteq coming /\ fresh' = FALSE /\ UNCHANGED <<note, base, due>>
      /\ UNCHANGED <<stage, ask, work, view, newest, listed, index, sig, mounted, retired, lost>>
      /\ trail' = [trail EXCEPT !.approved = @ \cup note.has, !.typed = FALSE]
  BY DEF Accept, Click, Comes, RestOfClick
<1>5. i \in ActRecs /\ i.put.text.has = {} /\ n \in NoteTexts /\ t \in {"stamp", "ready"}
  BY <1>1, <1>2, IdleIsAct
<1>6. act' \in ActRecs /\ act'.at = t /\ act'.pre = n /\ act'.cur = n /\ act'.put = i.put
  BY <1>3, <1>5 DEF ActRecs
<1>7. PICK a : a = trail.approved \cup n.has
  OBVIOUS
<1>8. a \in SUBSET Edits /\ trail' = [trail EXCEPT !.approved = a, !.typed = FALSE]
  BY <1>1, <1>2, <1>4, <1>7 DEF Trails, NoteTexts
<1>9. /\ trail' \in Trails /\ trail'.approved = a /\ trail'.excused = trail.excused
      /\ trail'.kept = trail.kept /\ trail'.trampled = trail.trampled /\ trail'.rode = trail.rode
      /\ trail'.residual = trail.residual /\ trail'.reversed = trail.reversed
  BY <1>1, <1>8 DEF Trails
<1>10. TrailGrows
  BY <1>4, <1>7, <1>9 DEF TrailGrows
<1>11. n.has \subseteq AnsweredFor'
  BY <1>7, <1>9 DEF AnsweredFor
<1>12. ActTo
  BY <1>1, <1>2, <1>4, <1>5, <1>6, <1>11 DEF ActTo
<1>13. ActLeaves
  BY <1>4, <1>10, LeavesAsItIs
<1>14. QED BY <1>10, <1>12, <1>13, ActToKeeps

LEMMA StampNoteKeeps ==
  ASSUME ReviewInv, StampNote
  PROVE  ReviewInv'
<1>0. note \in NoteTexts /\ note.has \subseteq Made /\ act \in ActRecs
  BY DEF ReviewInv, RoomInv, TextsInv, DeskInv
<1>1. /\ act.at = "stamp" /\ act' = [act EXCEPT !.at = "verify"] /\ due' = mounted
      /\ note' = [note EXCEPT !.status = "accepted"] /\ UNCHANGED <<base, fresh, coming, trail>>
      /\ UNCHANGED <<stage, ask, work, view, newest, listed, index, sig, mounted, retired, lost>>
  BY DEF StampNote, Modify, RestOfClick
<1>2. TrailGrows /\ AnsweredFor' = AnsweredFor
  BY <1>1, TrailAsItIs
<1>3. note' \in NoteTexts /\ note'.has = note.has
  BY <1>0, <1>1 DEF NoteTexts, Statuses
<1>4. /\ act' \in ActRecs /\ act'.at = "verify" /\ act'.pre = act.pre /\ act'.cur = act.cur
      /\ act'.put = act.put
  BY <1>0, <1>1 DEF ActRecs
<1>5. ActTo
  BY <1>1, <1>2, <1>4 DEF ActTo, ReviewInv, TextsInv, ReviewedInv
<1>6. ActLeaves
  BY <1>0, <1>1, <1>3 DEF ActLeaves, ReviewInv, KeepsInv
<1>7. QED BY <1>2, <1>5, <1>6, ActToKeeps

LEMMA VerifyKeeps ==
  ASSUME ReviewInv, Verify
  PROVE  ReviewInv'
<1>0. /\ note \in NoteTexts /\ note.has \subseteq Made /\ act \in ActRecs /\ trail \in Trails
      /\ fresh \in BOOLEAN /\ (fresh => trail.typed)
  BY DEF ReviewInv, RoomInv, TextsInv, DeskInv, ReviewedInv
<1>1. /\ act.at = "verify" /\ UNCHANGED <<note, base, fresh, due, coming>>
      /\ UNCHANGED <<stage, ask, work, view, newest, listed, index, sig, mounted, retired, lost>>
      /\ trail' = [trail EXCEPT !.excused = @ \cup ((note.has \ act.pre.has) \cap ValuesOnly)]
  BY DEF Verify, RestOfClick
<1>2. PICK x : x = trail.excused \cup ((note.has \ act.pre.has) \cap ValuesOnly)
  OBVIOUS
<1>3. trail' = [trail EXCEPT !.excused = x] /\ x \in SUBSET Edits
  BY <1>0, <1>1, <1>2 DEF Trails, NoteTexts
<1>4. /\ trail' \in Trails /\ trail'.approved = trail.approved /\ trail'.excused = x
      /\ trail'.kept = trail.kept /\ trail'.trampled = trail.trampled /\ trail'.rode = trail.rode
      /\ trail'.residual = trail.residual /\ trail'.reversed = trail.reversed /\ trail'.typed = trail.typed
  BY <1>0, <1>3 DEF Trails
<1>5. TrailGrows
  BY <1>0, <1>1, <1>2, <1>4 DEF TrailGrows
<1>6. AnsweredFor \subseteq AnsweredFor'
  BY <1>2, <1>4 DEF AnsweredFor
<1>7. act.pre.has \subseteq AnsweredFor
  BY <1>1 DEF ReviewInv, ReviewedInv
<1>8. /\ act' \in ActRecs /\ act'.pre = act.pre /\ act'.put = act.put /\ act'.at \in {"ready", "finally"}
      /\ act'.at = "ready" => act'.cur = note /\ Folded(act.pre, note)
      /\ act'.at = "finally" => act'.cur = act.cur
  <2>1. PICK n : n = note
    OBVIOUS
  <2>2. CASE Folded(act.pre, note)
    <3>1. act' = [act EXCEPT !.at = "ready", !.cur = n] /\ n \in NoteTexts
      BY <1>0, <2>1, <2>2 DEF Verify
    <3>2. act' \in ActRecs /\ act'.pre = act.pre /\ act'.put = act.put /\ act'.at = "ready" /\ act'.cur = n
      BY <1>0, <3>1 DEF ActRecs
    <3>3. QED BY <2>1, <2>2, <3>2
  <2>3. CASE ~Folded(act.pre, note)
    <3>1. act' = [act EXCEPT !.at = "finally"]
      BY <2>3 DEF Verify
    <3>2. /\ act' \in ActRecs /\ act'.pre = act.pre /\ act'.put = act.put /\ act'.at = "finally"
          /\ act'.cur = act.cur
      BY <1>0, <3>1 DEF ActRecs
    <3>3. QED BY <3>2
  <2>4. QED BY <2>2, <2>3
<1>9. act'.at = "ready" => act'.cur.has \subseteq AnsweredFor'
  <2>1. SUFFICES ASSUME act'.at = "ready" PROVE note.has \subseteq AnsweredFor'
    BY <1>8
  <2>2. note.has \ ValuesOnly \subseteq act.pre.has
    BY <1>8, <2>1 DEF Folded
  <2>3. note.has \subseteq act.pre.has \cup x
    BY <1>2, <2>2
  <2>4. QED BY <1>4, <1>6, <1>7, <2>3 DEF AnsweredFor
<1>10. ActTo
  BY <1>0, <1>1, <1>6, <1>8, <1>9 DEF ActTo, ReviewInv, TextsInv, ReviewedInv
<1>11. ActLeaves
  BY <1>1, <1>5, LeavesAsItIs
<1>12. QED BY <1>5, <1>10, <1>11, ActToKeeps

LEMMA PutAcceptedKeeps ==
  ASSUME ReviewInv, PutAccepted
  PROVE  ReviewInv'
<1>0. act \in ActRecs
  BY DEF ReviewInv, DeskInv
<1>1. /\ act.at = "ready" /\ UNCHANGED <<note, base, fresh, due, coming, trail>>
      /\ UNCHANGED <<stage, ask, work, view, newest, listed, index, sig, mounted, retired, lost>>
  BY DEF PutAccepted, RestOfClick
<1>2. TrailGrows /\ AnsweredFor' = AnsweredFor
  BY <1>1, TrailAsItIs
<1>3. act.cur \in NoteTexts /\ act.cur.has \subseteq AnsweredFor /\ act.put.since \in SUBSET AgentEdits
  BY <1>0, <1>1 DEF ActRecs, Bases, ReviewInv, ReviewedInv
<1>4. PICK k : k = IF act.kind = "adopt" THEN act.put.since ELSE Dated
  OBVIOUS
<1>5. PICK b : b = Accepted(act.cur, k)
  OBVIOUS
<1>6. k \in SUBSET AgentEdits
  BY <1>3, <1>4 DEF Dated
<1>7. b \in Bases /\ b.text = act.cur
  BY <1>3, <1>5, <1>6, AcceptedIsBase
<1>8. /\ act' \in ActRecs /\ act'.pre = act.pre /\ act'.cur = act.cur /\ act'.at \in {"put", "finally"}
      /\ act'.put.text.has \subseteq act.put.text.has \cup act.cur.has
  <2>1. CASE retired
    <3>1. act' = [act EXCEPT !.at = "finally"]
      BY <2>1 DEF PutAccepted
    <3>2. QED BY <1>0, <3>1 DEF ActRecs
  <2>2. CASE ~retired
    <3>1. act' = [act EXCEPT !.at = "put", !.put = b]
      BY <1>4, <1>5, <2>2 DEF PutAccepted
    <3>2. act' \in ActRecs /\ act'.pre = act.pre /\ act'.cur = act.cur /\ act'.at = "put" /\ act'.put = b
      BY <1>0, <1>7, <3>1 DEF ActRecs
    <3>3. QED BY <1>7, <3>2
  <2>3. QED BY <2>1, <2>2
<1>9. ActTo
  BY <1>1, <1>2, <1>3, <1>8 DEF ActTo, ReviewInv, TextsInv, ReviewedInv
<1>10. ActLeaves
  BY <1>1, <1>2, LeavesAsItIs
<1>11. QED BY <1>2, <1>9, <1>10, ActToKeeps

\* A click that only goes on to another place.
LEMMA ActMoves ==
  ASSUME act \in ActRecs, NEW t \in {"finally", "refresh", "restore"}, act' = [act EXCEPT !.at = t]
  PROVE  act' \in ActRecs /\ act'.at = t /\ act'.pre = act.pre /\ act'.cur = act.cur /\ act'.put = act.put
BY DEF ActRecs

LEMMA LandAcceptedKeeps ==
  ASSUME ReviewInv, LandAccepted
  PROVE  ReviewInv'
<1>0. act \in ActRecs /\ note \in NoteTexts /\ note.has \subseteq Made /\ Made \subseteq note.has \cup trail.kept \cup trail.trampled
  BY DEF ReviewInv, DeskInv, RoomInv, TextsInv, KeepsInv
<1>1. /\ act.at = "put" /\ base' = act.put /\ act' = [act EXCEPT !.at = "finally"]
      /\ UNCHANGED <<note, fresh, due, coming, trail>>
      /\ UNCHANGED <<stage, ask, work, view, newest, listed, index, sig, mounted, retired, lost>>
  BY DEF LandAccepted, RestOfClick
<1>2. TrailGrows /\ AnsweredFor' = AnsweredFor
  BY <1>1, TrailAsItIs
<1>3. /\ act' \in ActRecs /\ act'.at = "finally" /\ act'.pre = act.pre /\ act'.cur = act.cur
      /\ act'.put = act.put
  BY <1>0, <1>1, ActMoves
<1>4. ActTo
  BY <1>1, <1>2, <1>3 DEF ActTo, ReviewInv, TextsInv, ReviewedInv
<1>5. ActLeaves
  BY <1>0, <1>1, <1>3 DEF ActLeaves
<1>6. QED BY <1>2, <1>4, <1>5, ActToKeeps

LEMMA FinallyKeepsIt ==
  ASSUME ReviewInv, Finally
  PROVE  ReviewInv'
<1>0. act \in ActRecs /\ trail \in Trails /\ fresh \in BOOLEAN /\ (fresh => trail.typed)
  BY DEF ReviewInv, DeskInv, RoomInv, ReviewedInv
<1>1. /\ act.at = "finally" /\ act' = [act EXCEPT !.at = "refresh"]
      /\ UNCHANGED <<note, base, due, coming>>
      /\ UNCHANGED <<stage, ask, work, view, newest, listed, index, sig, mounted, retired, lost>>
  BY DEF Finally, RestOfClick
<1>2. PICK k : k = (trail.typed /\ act.kind = "adopt")
  OBVIOUS
<1>3. trail' = [trail EXCEPT !.typed = k] /\ k \in BOOLEAN /\ fresh' = (fresh /\ act.kind = "adopt")
  BY <1>2 DEF Finally
<1>4. fresh' \in BOOLEAN /\ (fresh' => k)
  BY <1>0, <1>2, <1>3
<1>5. /\ trail' \in Trails /\ trail'.approved = trail.approved /\ trail'.excused = trail.excused
      /\ trail'.kept = trail.kept /\ trail'.trampled = trail.trampled /\ trail'.rode = trail.rode
      /\ trail'.residual = trail.residual /\ trail'.reversed = trail.reversed /\ trail'.typed = k
  BY <1>0, <1>3 DEF Trails
<1>6. TrailGrows /\ AnsweredFor' = AnsweredFor
  BY <1>4, <1>5 DEF TrailGrows, AnsweredFor
<1>7. /\ act' \in ActRecs /\ act'.at = "refresh" /\ act'.pre = act.pre /\ act'.cur = act.cur
      /\ act'.put = act.put
  BY <1>0, <1>1, ActMoves
<1>8. ActTo
  BY <1>1, <1>6, <1>7 DEF ActTo, ReviewInv, TextsInv, ReviewedInv
<1>9. ActLeaves
  BY <1>1, <1>6, <1>7, LeavesAsItIs
<1>10. QED BY <1>6, <1>8, <1>9, ActToKeeps

LEMMA AdoptAllKeeps ==
  ASSUME ReviewInv, AdoptAll
  PROVE  ReviewInv'
<1>1. /\ act.at = "idle" /\ coming' \subseteq coming /\ UNCHANGED <<note, base, fresh, due, trail>>
      /\ UNCHANGED <<stage, ask, work, view, newest, listed, index, sig, mounted, retired, lost>>
  BY DEF AdoptAll, Click, Comes, RestOfClick
<1>2. TrailGrows /\ AnsweredFor' = AnsweredFor
  BY <1>1, TrailAsItIs
<1>3. PICK i, b : i = IdleAct /\ b = Accepted(Blank, Dated)
  OBVIOUS
<1>4. Dated \in SUBSET AgentEdits /\ Blank \in NoteTexts /\ Blank.has = {}
  BY IdleIsWork DEF Dated, Blank
<1>5. b \in Bases /\ b.text.has = {} /\ i \in ActRecs /\ i.pre.has = {} /\ i.cur.has = {}
  BY <1>3, <1>4, AcceptedIsBase, IdleIsAct
<1>6. act' = [i EXCEPT !.kind = "adopt", !.at = "adopt", !.put = b]
  BY <1>3 DEF AdoptAll
<1>7. act' \in ActRecs /\ act'.at = "adopt" /\ act'.pre = i.pre /\ act'.cur = i.cur /\ act'.put = b
  BY <1>5, <1>6 DEF ActRecs
<1>8. ActTo
  BY <1>1, <1>5, <1>7 DEF ActTo
<1>9. ActLeaves
  BY <1>1, <1>2, LeavesAsItIs
<1>10. QED BY <1>2, <1>8, <1>9, ActToKeeps

LEMMA ReadAdoptedKeeps ==
  ASSUME ReviewInv, ReadAdopted
  PROVE  ReviewInv'
<1>0. /\ note \in NoteTexts /\ note.has \subseteq Made /\ act \in ActRecs /\ trail \in Trails
      /\ fresh \in BOOLEAN /\ (fresh => trail.typed)
  BY DEF ReviewInv, RoomInv, TextsInv, DeskInv, ReviewedInv
<1>1. /\ act.at = "adopt" /\ UNCHANGED <<note, base, fresh, due, coming>>
      /\ UNCHANGED <<stage, ask, work, view, newest, listed, index, sig, mounted, retired, lost>>
  BY DEF ReadAdopted, RestOfClick
<1>2. PICK n, a : n = note /\ a = trail.approved \cup note.has
  OBVIOUS
<1>3. trail' = [trail EXCEPT !.approved = a] /\ a \in SUBSET Edits /\ act' = [act EXCEPT !.at = "ready", !.cur = n]
  BY <1>0, <1>2 DEF ReadAdopted, Trails, NoteTexts
<1>4. /\ trail' \in Trails /\ trail'.approved = a /\ trail'.excused = trail.excused
      /\ trail'.kept = trail.kept /\ trail'.trampled = trail.trampled /\ trail'.rode = trail.rode
      /\ trail'.residual = trail.residual /\ trail'.reversed = trail.reversed /\ trail'.typed = trail.typed
  BY <1>0, <1>3 DEF Trails
<1>5. TrailGrows
  BY <1>0, <1>1, <1>2, <1>4 DEF TrailGrows
<1>6. AnsweredFor \subseteq AnsweredFor' /\ note.has \subseteq AnsweredFor'
  BY <1>2, <1>4 DEF AnsweredFor
<1>7. act' \in ActRecs /\ act'.at = "ready" /\ act'.pre = act.pre /\ act'.cur = n /\ act'.put = act.put
  BY <1>0, <1>2, <1>3 DEF ActRecs
<1>8. ActTo
  BY <1>0, <1>1, <1>2, <1>6, <1>7 DEF ActTo, ReviewInv, TextsInv, ReviewedInv
<1>9. ActLeaves
  BY <1>1, <1>5, LeavesAsItIs
<1>10. QED BY <1>5, <1>8, <1>9, ActToKeeps

LEMMA RevertKeeps ==
  ASSUME ReviewInv, Revert
  PROVE  ReviewInv'
<1>0. note \in NoteTexts /\ note.has \subseteq Made /\ base \in Bases /\ base.text.has \subseteq Made
  BY DEF ReviewInv, RoomInv, TextsInv
<1>1. /\ act.at = "idle" /\ coming' \subseteq coming /\ UNCHANGED <<note, base, fresh, due, trail>>
      /\ UNCHANGED <<stage, ask, work, view, newest, listed, index, sig, mounted, retired, lost>>
  BY DEF Revert, Click, Comes, RestOfClick
<1>2. TrailGrows /\ AnsweredFor' = AnsweredFor
  BY <1>1, TrailAsItIs
<1>3. PICK i, n, b : i = IdleAct /\ n = note /\ b = base.text
  OBVIOUS
<1>4. act' = [i EXCEPT !.kind = "revert", !.at = "quarantine", !.pre = b, !.cur = n]
  BY <1>3 DEF Revert
<1>5. i \in ActRecs /\ i.put.text.has = {} /\ n \in NoteTexts /\ b \in NoteTexts
  BY <1>0, <1>3, IdleIsAct DEF Bases
<1>6. act' \in ActRecs /\ act'.at = "quarantine" /\ act'.pre = b /\ act'.cur = n /\ act'.put = i.put
  BY <1>4, <1>5 DEF ActRecs
<1>7. ActTo
  BY <1>0, <1>1, <1>3, <1>5, <1>6 DEF ActTo
<1>8. ActLeaves
  BY <1>1, <1>2, LeavesAsItIs
<1>9. QED BY <1>2, <1>7, <1>8, ActToKeeps

LEMMA QuarantineKeeps ==
  ASSUME ReviewInv, Quarantine
  PROVE  ReviewInv'
<1>0. /\ act \in ActRecs /\ trail \in Trails /\ fresh \in BOOLEAN /\ (fresh => trail.typed)
      /\ act.cur.has \subseteq Made
  BY DEF ReviewInv, RoomInv, TextsInv, DeskInv, ReviewedInv
<1>1. /\ act.at = "quarantine" /\ act' = [act EXCEPT !.at = "restore"]
      /\ UNCHANGED <<note, base, fresh, due, coming>>
      /\ UNCHANGED <<stage, ask, work, view, newest, listed, index, sig, mounted, retired, lost>>
  BY DEF Quarantine, RestOfClick
<1>2. PICK k : k = trail.kept \cup act.cur.has
  OBVIOUS
<1>3. trail' = [trail EXCEPT !.kept = k] /\ k \in SUBSET Edits
  BY <1>0, <1>2 DEF Quarantine, Trails, Made
<1>4. /\ trail' \in Trails /\ trail'.approved = trail.approved /\ trail'.excused = trail.excused
      /\ trail'.kept = k /\ trail'.trampled = trail.trampled /\ trail'.rode = trail.rode
      /\ trail'.residual = trail.residual /\ trail'.reversed = trail.reversed /\ trail'.typed = trail.typed
  BY <1>0, <1>3 DEF Trails
<1>5. TrailGrows /\ AnsweredFor' = AnsweredFor
  BY <1>0, <1>1, <1>2, <1>4 DEF TrailGrows, AnsweredFor
<1>6. /\ act' \in ActRecs /\ act'.at = "restore" /\ act'.pre = act.pre /\ act'.cur = act.cur
      /\ act'.put = act.put
  BY <1>0, <1>1, ActMoves
<1>7. ActTo
  BY <1>1, <1>2, <1>4, <1>5, <1>6 DEF ActTo, ReviewInv, TextsInv, ReviewedInv
<1>8. ActLeaves
  BY <1>1, <1>5, LeavesAsItIs
<1>9. QED BY <1>5, <1>7, <1>8, ActToKeeps

LEMMA WriteBackKeeps ==
  ASSUME ReviewInv, WriteBack
  PROVE  ReviewInv'
<1>0. /\ act \in ActRecs /\ trail \in Trails /\ fresh \in BOOLEAN /\ (fresh => trail.typed)
      /\ act.pre.has \subseteq Made /\ note \in NoteTexts /\ note.has \subseteq Made
      /\ Made \subseteq note.has \cup trail.kept \cup trail.trampled
  BY DEF ReviewInv, RoomInv, TextsInv, DeskInv, ReviewedInv, KeepsInv
<1>1. /\ act.at = "restore" /\ act' = [act EXCEPT !.at = "refresh"] /\ note' = act.pre /\ due' = mounted
      /\ UNCHANGED <<base, fresh, coming>>
      /\ UNCHANGED <<stage, ask, work, view, newest, listed, index, sig, mounted, retired, lost>>
  BY DEF WriteBack, Modify, RestOfClick
<1>2. act.cur.has \subseteq trail.kept
  BY <1>1 DEF ReviewInv, KeepsInv
<1>3. PICK k : k = trail.trampled \cup (note.has \ act.cur.has)
  OBVIOUS
<1>4. trail' = [trail EXCEPT !.trampled = k] /\ k \in SUBSET Edits
  BY <1>0, <1>3 DEF WriteBack, Trails, NoteTexts
<1>5. /\ trail' \in Trails /\ trail'.approved = trail.approved /\ trail'.excused = trail.excused
      /\ trail'.kept = trail.kept /\ trail'.trampled = k /\ trail'.rode = trail.rode
      /\ trail'.residual = trail.residual /\ trail'.reversed = trail.reversed /\ trail'.typed = trail.typed
  BY <1>0, <1>4 DEF Trails
<1>6. TrailGrows /\ AnsweredFor' = AnsweredFor
  BY <1>0, <1>1, <1>3, <1>5 DEF TrailGrows, AnsweredFor
<1>7. /\ act' \in ActRecs /\ act'.at = "refresh" /\ act'.pre = act.pre /\ act'.cur = act.cur
      /\ act'.put = act.put
  BY <1>0, <1>1, ActMoves
<1>8. ActTo
  BY <1>1, <1>6, <1>7 DEF ActTo, ReviewInv, TextsInv, ReviewedInv
<1>9. note' \in NoteTexts /\ note'.has \subseteq Made /\ Made \subseteq note'.has \cup trail'.kept \cup trail'.trampled
  BY <1>0, <1>1, <1>2, <1>3, <1>5 DEF ActRecs
<1>10. ActLeaves
  BY <1>1, <1>7, <1>9 DEF ActLeaves
<1>11. QED BY <1>6, <1>8, <1>10, ActToKeeps

LEMMA DisposeKeeps ==
  ASSUME ReviewInv, NEW to \in {"revising", "proposed"}, Dispose(to)
  PROVE  ReviewInv'
<1>0. /\ note \in NoteTexts /\ note.has \subseteq Made
      /\ Made \subseteq note.has \cup trail.kept \cup trail.trampled
  BY DEF ReviewInv, RoomInv, TextsInv, KeepsInv
<1>1. /\ act.at = "idle" /\ coming' \subseteq coming /\ note' = [note EXCEPT !.status = to] /\ due' = mounted
      /\ UNCHANGED <<base, fresh, trail>>
      /\ UNCHANGED <<stage, ask, work, view, newest, listed, index, sig, mounted, retired, lost>>
  BY DEF Dispose, Click, Comes, Modify, RestOfClick
<1>2. TrailGrows /\ AnsweredFor' = AnsweredFor
  BY <1>1, TrailAsItIs
<1>3. PICK i : i = IdleAct
  OBVIOUS
<1>4. i \in ActRecs /\ i.pre.has = {} /\ i.cur.has = {} /\ i.put.text.has = {}
  BY <1>3, IdleIsAct
<1>5. act' = [i EXCEPT !.kind = "dispose", !.at = "finally"]
  BY <1>3 DEF Dispose
<1>6. /\ act' \in ActRecs /\ act'.at = "finally" /\ act'.pre = i.pre /\ act'.cur = i.cur
      /\ act'.put = i.put
  BY <1>4, <1>5 DEF ActRecs
<1>7. ActTo
  BY <1>1, <1>4, <1>6 DEF ActTo
<1>8. note' \in NoteTexts /\ note'.has = note.has
  BY <1>0, <1>1 DEF NoteTexts, Statuses
<1>9. ActLeaves
  BY <1>0, <1>1, <1>6, <1>8 DEF ActLeaves
<1>10. QED BY <1>2, <1>7, <1>9, ActToKeeps
-----------------------------------------------------------------------------
LEMMA ReviewInitInv == ReviewInit => ReviewInv
<1>1. SUFFICES ASSUME ReviewInit PROVE ReviewInv
  OBVIOUS
<1>2. PICK p \in Plays : /\ base = p.base /\ note = p.note /\ coming = p.coming
                         /\ stage = [e \in Edits |-> IF e \in p.note.has THEN "aged" ELSE "none"]
                         /\ sig = p.note.has \cap AgentEdits /\ listed = (p.note # p.base.text)
                         /\ index = {listed}
  BY <1>1 DEF ReviewInit
<1>3. /\ fresh = FALSE /\ due = FALSE /\ ask = FALSE /\ act = IdleAct /\ newest = "event"
      /\ work = [o \in Workers |-> IdleWork] /\ view = [r \in Views |-> IdleView]
      /\ mounted = TRUE /\ retired = FALSE /\ lost = FALSE /\ trail = Trail
  BY <1>1 DEF ReviewInit, Workers, Views
<1>4. /\ {p.note, p.base.text} \subseteq NoteTexts
      /\ p.base = [text |-> p.base.text, since |-> p.base.since, real |-> p.base.real]
      /\ p.base.since \subseteq AgentEdits /\ p.base.real \in BOOLEAN
      /\ p.base.text.has \subseteq p.note.has \cap (HumanEdits \cup Mechanical)
      /\ p.note # p.base.text => (p.note.has \cap AgentEdits) \ p.base.since # {}
      /\ p.coming \subseteq (Edits \ p.note.has) \cup Doings
      /\ Edits \cap Doings = {}
  BY ReviewAssumption DEF NoteTexts
<1>5. note \in NoteTexts /\ base.text \in NoteTexts
  BY <1>2, <1>4
<1>6. base \in Bases
  <2>1. PICK x, y, z : x = p.base.text /\ y = p.base.since /\ z = p.base.real
    OBVIOUS
  <2>2. p.base = [text |-> x, since |-> y, real |-> z] /\ x \in NoteTexts /\ y \in SUBSET AgentEdits /\ z \in BOOLEAN
    BY <1>4, <2>1
  <2>3. QED BY <1>2, <2>2 DEF Bases
<1>7. Made = note.has /\ Lines = note.has \cap AgentEdits
  <2>1. note.has \subseteq Edits /\ AgentEdits \subseteq Edits
    BY <1>5 DEF NoteTexts, Edits
  <2>2. \A e \in Edits : stage[e] = IF e \in note.has THEN "aged" ELSE "none"
    BY <1>2
  <2>3. QED BY <2>1, <2>2 DEF Made, Lines
<1>8. IdleView \in ViewRecs /\ IdleView.at = "idle"
  BY IdleIsWork DEF IdleView, ViewRecs
<1>9. /\ trail \in Trails /\ trail.approved = {} /\ trail.excused = {} /\ trail.rode = FALSE
  BY <1>3 DEF Trail, Trails
<1>10. listed \in BOOLEAN /\ index \in SUBSET BOOLEAN
  BY <1>2
<1>11. DeskInv
  BY <1>2, <1>3, <1>7, <1>8, <1>10, IdleIsWork, IdleIsAct DEF DeskInv, Views
<1>12. RoomInv
  <2>1. \A e \in Edits \cap coming : stage[e] = "none"
    BY <1>2, <1>4
  <2>2. stage \in [Edits -> {"none", "written", "dated", "line", "aged"}]
    BY <1>2
  <2>3. QED BY <1>3, <1>5, <1>6, <1>9, <2>1, <2>2 DEF RoomInv
<1>13. TextsInv
  BY <1>2, <1>3, <1>4, <1>7, IdleIsWork, IdleIsAct DEF TextsInv
<1>14. ReviewedInv
  BY <1>2, <1>3, <1>4, <1>9, IdleIsWork, IdleIsAct DEF ReviewedInv, AnsweredFor
<1>15. KeepsInv
  BY <1>2, <1>3, <1>7, <1>10, IdleIsAct DEF KeepsInv
<1>16. Current
  <2>1. view[newest].at = "idle"
    BY <1>3, <1>8 DEF Views
  <2>2. listed <=> note # base.text
    BY <1>2
  <2>3. note # base.text => Lines \ base.since # {}
    BY <1>2, <1>4, <1>7
  <2>4. listed <=> Listed(note, Lines)
    BY <2>2, <2>3 DEF Listed
  <2>5. listed = Listed(note, Lines)
    BY <1>10, <2>4 DEF Listed
  <2>6. QED BY <2>1, <2>5 DEF Current
<1>17. ListInv
  <2>1. IndexInv
    BY <1>2, <1>3, <1>8 DEF IndexInv, Putting
  <2>2. QED BY <1>2, <1>3, <1>8, <1>16, <2>1, IdleIsWork, IdleIsAct DEF ListInv, Workers, Views
<1>18. QED BY <1>11, <1>12, <1>13, <1>14, <1>15, <1>17 DEF ReviewInv

LEMMA ReviewStutters ==
  ASSUME ReviewInv, UNCHANGED rvars
  PROVE  ReviewInv'
<1>1. /\ UNCHANGED <<note, base, stage, fresh, due, ask, work, act, view, newest, listed, index, sig>>
      /\ UNCHANGED <<mounted, retired, coming, lost, trail>>
  BY DEF rvars
<1>2. Lines' = Lines /\ Made' = Made /\ AnsweredFor' = AnsweredFor
  BY <1>1 DEF Lines, Made, AnsweredFor
<1>3. (Current \/ ToCome) <=> (Current \/ ToCome)'
  BY <1>1, <1>2 DEF Current, ToCome, Listed
<1>4. DeskInv' /\ RoomInv' /\ TextsInv' /\ KeepsInv'
  BY <1>1, <1>2 DEF ReviewInv, DeskInv, RoomInv, TextsInv, KeepsInv
<1>5. ReviewedInv' /\ ListInv'
  <2>1. IndexInv <=> IndexInv'
    BY <1>1, IndexStays
  <2>2. QED BY <1>1, <1>2, <1>3, <2>1 DEF ReviewInv, ReviewedInv, ListInv
<1>6. QED BY <1>4, <1>5 DEF ReviewInv

LEMMA ReviewStep == ReviewInv /\ [ReviewNext]_rvars => ReviewInv'
<1>1. SUFFICES ASSUME ReviewInv, [ReviewNext]_rvars PROVE ReviewInv'
  OBVIOUS
<1>2. DOMAIN work = Workers /\ DOMAIN view = Views
  BY <1>1 DEF ReviewInv, DeskInv
<1>3. ASSUME NEW w \in AgentEdits, AgentWrites(w) \/ LineSteps(w)
      PROVE  ReviewInv'
  BY <1>1, <1>3, EditedKeeps, LineKeeps DEF Edits
<1>4. ASSUME NEW h \in HumanEdits, HumanTypes(h)
      PROVE  ReviewInv'
  BY <1>1, <1>4, EditedKeeps DEF Edits
<1>5. ASSUME NEW x \in OtherEdits, OtherWrites(x)
      PROVE  ReviewInv'
  BY <1>1, <1>5, EditedKeeps DEF Edits
<1>6. CASE InputAges \/ Retire \/ Unmount
  BY <1>1, <1>6, InputAgesKeeps, RetireKeeps, UnmountKeeps
<1>7. CASE ReadModified \/ Classify \/ PollTick
  BY <1>1, <1>7, ReadModifiedKeeps, ClassifyKeeps, PollTickKeeps
<1>8. ASSUME NEW o \in DOMAIN work, BeginAuto(o) \/ ReadAuto(o) \/ DecideAuto(o) \/ LandWork(o)
      PROVE  ReviewInv'
  <2>1. o \in Workers
    BY <1>2
  <2>2. QED BY <1>1, <1>8, <2>1, BeginAutoKeeps, ReadAutoKeeps, DecideAutoKeeps, LandWorkKeeps
<1>9. ASSUME NEW r \in DOMAIN view, StartRefresh(r) \/ Publish(r) \/ WriteIndex(r) \/ RefreshFails(r)
      PROVE  ReviewInv'
  <2>1. r \in Views
    BY <1>2
  <2>2. QED BY <1>1, <1>9, <2>1, StartRefreshKeeps, PublishKeeps, WriteIndexKeeps, RefreshFailsKeeps
<1>10. CASE Accept \/ StampNote \/ Verify \/ PutAccepted \/ LandAccepted \/ Finally
  BY <1>1, <1>10, ClickAcceptKeeps, StampNoteKeeps, VerifyKeeps, PutAcceptedKeeps, LandAcceptedKeeps, FinallyKeepsIt
<1>11. CASE AdoptAll \/ ReadAdopted \/ Revert \/ Quarantine \/ WriteBack
  BY <1>1, <1>11, AdoptAllKeeps, ReadAdoptedKeeps, RevertKeeps, QuarantineKeeps, WriteBackKeeps
<1>12. ASSUME NEW to \in {"revising", "proposed"}, Dispose(to)
       PROVE  ReviewInv'
  BY <1>1, <1>12, DisposeKeeps
<1>13. CASE UNCHANGED rvars
  BY <1>1, <1>13, ReviewStutters
<1>14. CASE ReviewNext
  <2>1. \/ \E w \in AgentEdits : AgentWrites(w) \/ LineSteps(w)
        \/ \E h \in HumanEdits : HumanTypes(h)
        \/ \E x \in OtherEdits : OtherWrites(x)
        \/ InputAges \/ Retire \/ Unmount \/ ReadModified \/ Classify \/ PollTick
        \/ \E o \in DOMAIN work : BeginAuto(o) \/ ReadAuto(o) \/ DecideAuto(o) \/ LandWork(o)
        \/ \E r \in DOMAIN view : StartRefresh(r) \/ Publish(r) \/ WriteIndex(r) \/ RefreshFails(r)
        \/ Accept \/ StampNote \/ Verify \/ PutAccepted \/ LandAccepted \/ Finally
        \/ AdoptAll \/ ReadAdopted \/ Revert \/ Quarantine \/ WriteBack
        \/ \E to \in {"revising", "proposed"} : Dispose(to)
    BY <1>14 DEF ReviewNext, LineSteps
  <2>2. QED BY <1>3, <1>4, <1>5, <1>6, <1>7, <1>8, <1>9, <1>10, <1>11, <1>12, <2>1
<1>15. QED BY <1>1, <1>13, <1>14

LEMMA ReviewInvSafe == ReviewInv => ReviewSafe
<1>1. SUFFICES ASSUME ReviewInv PROVE ReviewSafe
  OBVIOUS
<1>2. DeskInv /\ RoomInv /\ TextsInv /\ ReviewedInv /\ KeepsInv /\ ListInv
  BY <1>1 DEF ReviewInv
<1>3. ReviewTypeOK
  <2>1. PICK b \in BOOLEAN : index \subseteq {b}
    BY <1>2 DEF KeepsInv
  <2>2. index = {} \/ index = {b}
    BY <2>1
  <2>3. Cardinality(index) <= 1
    <3>1. Cardinality({}) = 0 /\ Cardinality({b}) = 1
      BY FS_EmptySet, FS_Singleton
    <3>2. CASE index = {}
      BY <3>1, <3>2
    <3>3. CASE index = {b}
      BY <3>1, <3>3
    <3>4. QED BY <2>2, <3>2, <3>3
  <2>4. note.has \cup base.text.has \subseteq {e \in Edits : stage[e] # "none"} /\ note.status \in Statuses
    BY <1>2 DEF TextsInv, Made, RoomInv, NoteTexts
  <2>5. QED BY <1>2, <2>3, <2>4 DEF ReviewTypeOK, DeskInv
<1>4. BaselineReviewed /\ NothingRides
  BY <1>2 DEF BaselineReviewed, NothingRides, ReviewedInv, AnsweredFor
<1>5. NothingHidden
  <2>1. SUFFICES ASSUME Settled
                 PROVE  /\ (note.has \ base.text.has) \cap (AgentEdits \ base.since) # {} => listed
                        /\ listed => note # base.text
                        /\ index = {listed} \/ trail.reversed
    BY DEF NothingHidden
  <2>2. /\ mounted /\ ~lost /\ ~due /\ ~ask /\ act.at = "idle" /\ sig = Lines
        /\ \A o \in Workers : work[o].at = "idle"
        /\ \A r \in Views : view[r].at = "idle"
        /\ \A w \in AgentEdits : stage[w] \notin {"written", "dated"}
    BY <1>2, <2>1 DEF Settled, DeskInv
  <2>3. ~ToCome
    BY <2>2 DEF ToCome, Workers
  <2>4. listed = Listed(note, Lines)
    BY <1>2, <2>2, <2>3 DEF ListInv, Current, DeskInv
  <2>5. index = {listed} \/ trail.reversed
    BY <1>2, <2>2 DEF ListInv, IndexInv, Putting
  <2>6. ASSUME NEW w \in (note.has \ base.text.has) \cap (AgentEdits \ base.since)
        PROVE  Listed(note, Lines)
    <3>1. w \in Edits /\ stage[w] # "none"
      BY <1>2 DEF TextsInv, Made
    <3>2. w \in Lines
      BY <1>2, <2>2, <3>1 DEF Lines, RoomInv
    <3>3. note # base.text /\ Lines \ base.since # {}
      BY <3>2
    <3>4. QED BY <3>3 DEF Listed
  <2>7. QED BY <2>4, <2>5, <2>6 DEF Listed
<1>6. NothingDestroyed /\ Retracted
  BY <1>2 DEF NothingDestroyed, Retracted, KeepsInv, Made
<1>7. QED BY <1>3, <1>4, <1>5, <1>6 DEF ReviewSafe

\* In every reachable state no text of an agent stands in the baseline that
\* nobody answered for, no silent advance rides on old input, what is not in
\* the baseline is listed once all is settled, and a revert destroys only
\* what was written under it: wiring.ts, with accept.ts and queue.ts.
THEOREM ReviewIsSafe == ReviewSpec => []ReviewSafe
<1>1. ReviewInit => ReviewInv
  BY ReviewInitInv
<1>2. ReviewInv /\ [ReviewNext]_rvars => ReviewInv'
  BY ReviewStep
<1>3. ReviewInv => ReviewSafe
  BY ReviewInvSafe
<1>4. QED BY <1>1, <1>2, <1>3, PTL DEF ReviewSpec
=============================================================================
