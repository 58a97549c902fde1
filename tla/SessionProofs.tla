--------------------------- MODULE SessionProofs ----------------------------
(***************************************************************************)
(* Theorems about what a session is given: the payloads of the reads it is *)
(* known by, the receipts of the channels between sessions, and the skills *)
(* that are compiled for it from notes.                                    *)
(***************************************************************************)
EXTENDS Observations, CrossSession, SkillsExport, FiniteSetTheorems, WellFoundedInduction, TLAPS

-----------------------------------------------------------------------------
(***************************************************************************)
(* The payloads of observed reads.  First the sums of bytes, an element at *)
(* a time; then CountOK, what a connection has found, added and counted,   *)
(* and PutsOK, that a put which overlaps no other has seen what is stored. *)
(***************************************************************************)
\* Among finite sets there is one that has none of the others as a proper part.
LEMMA SmallestSet ==
  ASSUME NEW F, F # {}, \A S \in F : IsFiniteSet(S)
  PROVE  \E S \in F : \A T \in F : T \subseteq S => T = S
<1> DEFINE N == {Cardinality(S) : S \in F}
<1>1. N \subseteq Nat /\ N # {}
  BY FS_CardinalityType
<1>2. PICK n \in N : \A m \in N : ~(<<m, n>> \in OpToRel(<, Nat))
  <2>1. IsWellFoundedOn(OpToRel(<, Nat), Nat)
    BY NatLessThanWellFounded
  <2> HIDE DEF N
  <2>2. QED BY <1>1, <2>1, WFMin
<1>3. PICK S \in F : n = Cardinality(S)
  BY <1>2
<1>4. ASSUME NEW T \in F, T \subseteq S, T # S PROVE FALSE
  <2>1. IsFiniteSet(S) /\ IsFiniteSet(T)
    OBVIOUS
  <2>2. Cardinality(T) < Cardinality(S)
    BY <1>4, <2>1, FS_Subset, FS_CardinalityType
  <2>3. Cardinality(T) \in N /\ Cardinality(T) \in Nat /\ n \in Nat
    BY <1>1, <1>2
  <2>4. QED BY <1>2, <1>3, <2>2, <2>3 DEF OpToRel
<1>5. QED BY <1>4

\* The function by which a sum over a set is computed, an element at a time.
FirstIn(T) == CHOOSE x \in T : TRUE
Sums(g, w, S) == g = [T \in SUBSET S |-> IF T = {} THEN 0 ELSE w[FirstIn(T)] + g[T \ {FirstIn(T)}]]

LEMMA FirstIsIn ==
  ASSUME NEW T, T # {}
  PROVE  FirstIn(T) \in T /\ T \ {FirstIn(T)} \subseteq T /\ T \ {FirstIn(T)} # T
BY DEF FirstIn

LEMMA SumsAt ==
  ASSUME NEW g, NEW w, NEW S, Sums(g, w, S), NEW T \in SUBSET S
  PROVE  g[T] = IF T = {} THEN 0 ELSE w[FirstIn(T)] + g[T \ {FirstIn(T)}]
<1>1. g = [U \in SUBSET S |-> IF U = {} THEN 0 ELSE w[FirstIn(U)] + g[U \ {FirstIn(U)}]]
  BY Zenon DEF Sums
<1> DEFINE e(U) == IF U = {} THEN 0 ELSE w[FirstIn(U)] + g[U \ {FirstIn(U)}]
<1>2. g = [U \in SUBSET S |-> e(U)]
  BY <1>1, Zenon
<1>3. g[T] = e(T)
  <2> HIDE DEF e
  <2>1. [U \in SUBSET S |-> e(U)][T] = e(T)
    OBVIOUS
  <2>2. QED BY <1>2, <2>1, Zenon
<1>4. QED BY <1>3

LEMMA SumsAgree ==
  ASSUME NEW g, NEW h, NEW w, NEW S, NEW R, Sums(g, w, S), Sums(h, w, R),
         NEW T, IsFiniteSet(T), T \subseteq S, T \subseteq R
  PROVE  g[T] = h[T]
<1> DEFINE F == {U \in SUBSET T : g[U] # h[U]}
<1>1. SUFFICES ASSUME F # {} PROVE FALSE
  OBVIOUS
<1>2. \A U \in F : IsFiniteSet(U)
  BY FS_Subset
<1>3. PICK U \in F : \A V \in F : V \subseteq U => V = U
  <2> HIDE DEF F
  <2>1. QED BY <1>1, <1>2, SmallestSet
<1>4. U # {} /\ g[U] = w[FirstIn(U)] + g[U \ {FirstIn(U)}] /\ h[U] = w[FirstIn(U)] + h[U \ {FirstIn(U)}]
  <2>1. U \in SUBSET S /\ U \in SUBSET R /\ g[U] # h[U]
    OBVIOUS
  <2>2. /\ g[U] = IF U = {} THEN 0 ELSE w[FirstIn(U)] + g[U \ {FirstIn(U)}]
        /\ h[U] = IF U = {} THEN 0 ELSE w[FirstIn(U)] + h[U \ {FirstIn(U)}]
    BY <2>1, SumsAt
  <2>3. QED BY <2>1, <2>2
<1>5. U \ {FirstIn(U)} \in SUBSET T /\ U \ {FirstIn(U)} \notin F
  BY <1>3, <1>4, FirstIsIn
<1>6. g[U \ {FirstIn(U)}] = h[U \ {FirstIn(U)}]
  BY <1>5
<1>7. g[U] # h[U]
  OBVIOUS
<1>8. QED BY <1>4, <1>6, <1>7

LEMMA SumsExist ==
  ASSUME NEW w, NEW S, IsFiniteSet(S)
  PROVE  \E g : Sums(g, w, S)
<1> DEFINE F == {T \in SUBSET S : ~\E g : Sums(g, w, T)}
<1>1. SUFFICES ASSUME F # {} PROVE FALSE
  OBVIOUS
<1>2. \A T \in F : IsFiniteSet(T)
  BY FS_Subset
<1>3. PICK T \in F : \A U \in F : U \subseteq T => U = T
  <2> HIDE DEF F
  <2>1. QED BY <1>1, <1>2, SmallestSet
<1> DEFINE SumsOf(U) == CHOOSE g : Sums(g, w, U)
<1>4. ASSUME NEW U \in SUBSET T, U # T PROVE Sums(SumsOf(U), w, U) /\ IsFiniteSet(U)
  <2>1. U \in SUBSET S /\ IsFiniteSet(U) /\ \E g : Sums(g, w, U)
    BY <1>3, <1>4, FS_Subset
  <2>2. QED BY <2>1
<1> DEFINE g == [U \in SUBSET T |-> IF U = {} THEN 0
                                    ELSE w[FirstIn(U)] + SumsOf(U \ {FirstIn(U)})[U \ {FirstIn(U)}]]
<1> HIDE DEF SumsOf
<1>5. ASSUME NEW U \in SUBSET T, U # {} PROVE g[U \ {FirstIn(U)}] = SumsOf(U \ {FirstIn(U)})[U \ {FirstIn(U)}]
  <2>1. PICK V : V = U \ {FirstIn(U)}
    OBVIOUS
  <2>2. V \in SUBSET T /\ V # T
    BY <1>5, <2>1, FirstIsIn
  <2>3. Sums(SumsOf(V), w, V)
    BY <1>4, <2>2
  <2>4. SumsOf(V)[V] = IF V = {} THEN 0 ELSE w[FirstIn(V)] + SumsOf(V)[V \ {FirstIn(V)}]
    BY <2>3, SumsAt
  <2>5. ASSUME V # {} PROVE SumsOf(V)[V \ {FirstIn(V)}] = SumsOf(V \ {FirstIn(V)})[V \ {FirstIn(V)}]
    <3>1. PICK W : W = V \ {FirstIn(V)}
      OBVIOUS
    <3>2. W \in SUBSET T /\ W # T /\ W \subseteq V
      BY <2>2, <2>5, <3>1, FirstIsIn
    <3>3. Sums(SumsOf(W), w, W) /\ IsFiniteSet(W)
      BY <1>4, <3>2
    <3>4. SumsOf(V)[W] = SumsOf(W)[W]
      BY <2>3, <3>2, <3>3, SumsAgree
    <3>5. QED BY <3>1, <3>4
  <2>6. g[V] = SumsOf(V)[V]
    BY <2>2, <2>4, <2>5
  <2>7. QED BY <2>1, <2>6
<1>6. g = [U \in SUBSET T |-> IF U = {} THEN 0 ELSE w[FirstIn(U)] + g[U \ {FirstIn(U)}]]
  <2>1. \A U \in SUBSET T : g[U] = IF U = {} THEN 0 ELSE w[FirstIn(U)] + g[U \ {FirstIn(U)}]
    BY <1>5
  <2>2. g = [U \in SUBSET T |-> g[U]]
    OBVIOUS
  <2> HIDE DEF g
  <2>3. QED BY <2>1, <2>2
<1>7. Sums(g, w, T)
  <2> HIDE DEF g
  <2>1. QED BY <1>6, Zenon DEF Sums
<1>8. QED BY <1>3, <1>7

\* What the sum of a finite set is: a number, the same whichever element is taken first.
LEMMA BytesAreSums ==
  ASSUME NEW w, NEW S, IsFiniteSet(S)
  PROVE  \E g : Sums(g, w, S) /\ Bytes(w, S) = g[S]
<1>1. \E g : Sums(g, w, S)
  BY SumsExist
<1> DEFINE h == CHOOSE g : Sums(g, w, S)
<1>2. Sums(h, w, S)
  BY <1>1
<1>3. Bytes(w, S) = h[S]
  BY DEF Bytes, MapThenSumSet, MapThenFoldSet, Sums, FirstIn
<1>4. QED BY <1>2, <1>3

LEMMA BytesAt ==
  ASSUME NEW w, NEW S, IsFiniteSet(S)
  PROVE  Bytes(w, S) = IF S = {} THEN 0 ELSE w[FirstIn(S)] + Bytes(w, S \ {FirstIn(S)})
<1>1. PICK g : Sums(g, w, S) /\ Bytes(w, S) = g[S]
  BY BytesAreSums
<1>2. g[S] = IF S = {} THEN 0 ELSE w[FirstIn(S)] + g[S \ {FirstIn(S)}]
  BY <1>1, SumsAt
<1>3. ASSUME S # {} PROVE g[S \ {FirstIn(S)}] = Bytes(w, S \ {FirstIn(S)})
  <2>1. PICK T : T = S \ {FirstIn(S)}
    OBVIOUS
  <2>2. T \subseteq S /\ IsFiniteSet(T)
    BY <2>1, FS_Subset
  <2>3. PICK h : Sums(h, w, T) /\ Bytes(w, T) = h[T]
    BY <2>2, BytesAreSums
  <2>4. g[T] = h[T]
    BY <1>1, <2>2, <2>3, SumsAgree
  <2>5. QED BY <2>1, <2>3, <2>4
<1>4. QED BY <1>1, <1>2, <1>3

LEMMA BytesOf ==
  ASSUME NEW w, NEW S, IsFiniteSet(S), \A x \in S : w[x] \in Nat
  PROVE  /\ Bytes(w, {}) = 0 /\ Bytes(w, S) \in Nat
         /\ \A x \in S : Bytes(w, S) = w[x] + Bytes(w, S \ {x})
<1> DEFINE Fine(T) == Bytes(w, T) \in Nat /\ \A x \in T : Bytes(w, T) = w[x] + Bytes(w, T \ {x})
<1> DEFINE F == {T \in SUBSET S : ~Fine(T)}
<1>0. Bytes(w, {}) = 0
  BY BytesAt, FS_EmptySet
<1>1. SUFFICES ASSUME F # {} PROVE FALSE
  BY <1>0
<1>2. \A T \in F : IsFiniteSet(T)
  BY FS_Subset
<1>3. PICK T \in F : \A U \in F : U \subseteq T => U = T
  <2> HIDE DEF F
  <2>1. QED BY <1>1, <1>2, SmallestSet
<1>4. T # {}
  <2>1. Fine({})
    BY <1>0
  <2>2. QED BY <2>1
<1>5. PICK y : y = FirstIn(T)
  OBVIOUS
<1>6. y \in T /\ Bytes(w, T) = w[y] + Bytes(w, T \ {y})
  BY <1>2, <1>4, <1>5, BytesAt, FirstIsIn
<1>7. ASSUME NEW U \in SUBSET T, U # T PROVE Fine(U)
  BY <1>3, <1>7
<1>8. Bytes(w, T) \in Nat /\ w[y] \in Nat
  <2>1. Fine(T \ {y})
    BY <1>6, <1>7
  <2>2. QED BY <1>6, <2>1
<1>9. ASSUME NEW x \in T, x # y PROVE Bytes(w, T) = w[x] + Bytes(w, T \ {x})
  <2>1. PICK A, B, C : A = T \ {y} /\ B = T \ {x} /\ C = T \ {x, y}
    OBVIOUS
  <2>2. A \in SUBSET T /\ A # T /\ x \in A /\ A \ {x} = C
    BY <1>6, <1>9, <2>1
  <2>3. B \in SUBSET T /\ B # T /\ y \in B /\ B \ {y} = C
    BY <1>6, <1>9, <2>1
  <2>4. C \in SUBSET T /\ C # T
    BY <1>6, <2>1
  <2>5. Fine(A) /\ Fine(B) /\ Fine(C)
    BY <1>7, <2>2, <2>3, <2>4
  <2>6. Bytes(w, A) = w[x] + Bytes(w, C) /\ Bytes(w, B) = w[y] + Bytes(w, C) /\ Bytes(w, C) \in Nat
    BY <2>2, <2>3, <2>5
  <2>7. w[x] \in Nat /\ w[y] \in Nat
    BY <1>6
  <2>8. Bytes(w, T) = w[y] + Bytes(w, A)
    BY <1>6, <2>1
  <2>9. Bytes(w, T) = w[x] + Bytes(w, B)
    BY <2>6, <2>7, <2>8
  <2>10. QED BY <2>1, <2>9
<1>10. Fine(T)
  BY <1>6, <1>8, <1>9
<1>11. QED BY <1>10

-----------------------------------------------------------------------------
\* What has its type, and that what is held is a number of bytes.
SourceSets == {NoBlob} \cup SUBSET (NoteSources \ GuardedNotes)
SeedStates == {"none", "walking", "walked", "counting", "failed"}
ReadStates == {"asked", "seeding", "get", "put", "kept", "refused", "failed"}

ObservationShape ==
  /\ sighting \in Sightings /\ blob \in [Digests -> SourceSets] /\ IsFiniteSet(Stored)
  /\ seed \in [Connections -> SeedStates] /\ found \in [Connections -> Nat] /\ counted \in [Connections -> Nat]
  /\ obs \in [Reads -> ReadStates] /\ sawStored \in [Reads -> SourceSets]
  /\ readable \subseteq NoteSources /\ sourced \in [Digests -> SUBSET NoteSources]

\* What passed the gate is not guarded.
PassedGate == \A r \in Reads : obs[r] \notin {"asked", "refused", "failed"} => ~Excluded(Asked(r).sources)

\* A connection counts what it found and what it added, and no other has room to.
CountOK(c) ==
  /\ IsFiniteSet(Claimed(c))
  /\ seed[c] # "counting" => Claimed(c) = {}
  /\ seed[c] = "counting" => found[c] + Added(c) <= counted[c]
  /\ Claimed(c) # {} => counted[c] <= MaxBytes
CountsOK == \A c \in Connections : CountOK(c)

\* A put that overlaps no other has seen what is stored.
Covers(was, srcs) == srcs = {} \/ (was # NoBlob /\ srcs \subseteq was)
PutsOK ==
  \A r \in Reads : \A d \in Digests :
    obs[r] = "put" /\ Asked(r).digest = d /\ d \notin overlapped =>
      /\ Covers(sawStored[r], sourced[d])
      /\ \A q \in Reads : obs[q] = "put" /\ Asked(q).digest = d => q = r

SourcesOK == \A d \in Digests \ overlapped : Covers(Found(d), sourced[d])
PlayingOK == \A p \in playing : p[1] \in overlapped \/ p[3] \subseteq p[2]

ObservationInv ==
  /\ ObservationShape /\ PassedGate /\ CountsOK /\ PutsOK /\ SourcesOK /\ PlayingOK
  /\ NothingDisclosed /\ KeptIsThere
LEMMA ObservationFacts ==
  ASSUME ObservationShape
  PROVE  /\ \A r \in Reads : /\ Asked(r).conn \in Connections /\ Asked(r).digest \in Digests
                             /\ Asked(r).sources \in SUBSET NoteSources /\ SizeOf[Asked(r).digest] \in Nat
         /\ \A d \in Digests : Found(d) \in SourceSets /\ blob[d] \in SourceSets
         /\ \A S \in SUBSET NoteSources : S # NoBlob
<1>1. /\ sighting.reads \in [Reads -> [conn : Connections, digest : Digests, sources : SUBSET NoteSources]]
      /\ sighting.legacy \in [Digests -> SourceSets]
  BY ObservationAssumption DEF ObservationShape, SourceSets
<1>2. SizeOf \in [Digests -> Nat]
  BY ObservationAssumption
<1>3. \A r \in Reads : /\ Asked(r).conn \in Connections /\ Asked(r).digest \in Digests
                       /\ Asked(r).sources \in SUBSET NoteSources /\ SizeOf[Asked(r).digest] \in Nat
  BY <1>1, <1>2 DEF Asked
<1>4. \A d \in Digests : Found(d) \in SourceSets /\ blob[d] \in SourceSets
  BY <1>1 DEF Found, ObservationShape
<1>5. QED BY <1>3, <1>4, ObservationAssumption

-----------------------------------------------------------------------------
\* Which reads of a connection have claimed bytes.
HasClaim == {"get", "put", "kept"}

LEMMA ClaimedMoves ==
  ASSUME ObservationShape, UNCHANGED sighting, NEW r \in Reads, NEW v, obs' = [obs EXCEPT ![r] = v]
  PROVE  /\ \A c \in Connections : c # Asked(r).conn => Claimed(c)' = Claimed(c)
         /\ \A c \in Connections : c = Asked(r).conn =>
              /\ v \in HasClaim => Claimed(c)' = Claimed(c) \cup {r}
              /\ v \notin HasClaim => Claimed(c)' = Claimed(c) \ {r}
              /\ r \in Claimed(c) <=> obs[r] \in HasClaim
         /\ \A q \in Reads : obs'[q] = (IF q = r THEN v ELSE obs[q]) /\ Asked(q)' = Asked(q)
<1>1. \A q \in Reads : obs'[q] = (IF q = r THEN v ELSE obs[q]) /\ Asked(q)' = Asked(q)
  BY DEF ObservationShape, Asked
<1>2. \A c \in Connections : c # Asked(r).conn => Claimed(c)' = Claimed(c)
  BY <1>1 DEF Claimed
<1>3. ASSUME NEW c \in Connections, c = Asked(r).conn
      PROVE  /\ v \in HasClaim => Claimed(c)' = Claimed(c) \cup {r}
             /\ v \notin HasClaim => Claimed(c)' = Claimed(c) \ {r}
             /\ r \in Claimed(c) <=> obs[r] \in HasClaim
  BY <1>1, <1>3 DEF Claimed, HasClaim
<1>4. QED BY <1>1, <1>2, <1>3

\* What is added to the sum by one more claim.
LEMMA AddedByOne ==
  ASSUME ObservationShape, UNCHANGED sighting, NEW c \in Connections, IsFiniteSet(Claimed(c)), NEW r \in Reads
  PROVE  /\ Added(c) \in Nat /\ (Claimed(c) = {} => Added(c) = 0)
         /\ Claimed(c)' = Claimed(c) => Added(c)' = Added(c)
         /\ r \notin Claimed(c) /\ Claimed(c)' = Claimed(c) \cup {r} =>
              IsFiniteSet(Claimed(c)') /\ Added(c)' = Added(c) + SizeOf[Asked(r).digest]
         /\ Claimed(c)' = Claimed(c) \ {r} =>
              IsFiniteSet(Claimed(c)') /\ Added(c)' \in Nat /\ Added(c)' <= Added(c)
<1>1. PICK w : w = [q \in Reads |-> SizeOf[Asked(q).digest]]
  OBVIOUS
<1>2. w = [q \in Reads |-> SizeOf[Asked(q)'.digest]] /\ \A q \in Reads : w[q] \in Nat
  BY <1>1, ObservationFacts DEF Asked
<1>3. Added(c) = Bytes(w, Claimed(c))
  BY <1>1 DEF Added
<1>4. Added(c)' = Bytes(w, Claimed(c)')
  <2>1. Added(c)' = Bytes([q \in Reads |-> SizeOf[Asked(q)'.digest]], Claimed(c)')
    BY DEF Added
  <2>2. QED BY <1>2, <2>1
<1>5. Claimed(c) \subseteq Reads
  BY DEF Claimed
<1>6. /\ Bytes(w, {}) = 0 /\ Bytes(w, Claimed(c)) \in Nat
      /\ \A x \in Claimed(c) : Bytes(w, Claimed(c)) = w[x] + Bytes(w, Claimed(c) \ {x})
  BY <1>2, <1>5, BytesOf
<1>7. ASSUME r \notin Claimed(c), Claimed(c)' = Claimed(c) \cup {r}
      PROVE  IsFiniteSet(Claimed(c)') /\ Added(c)' = Added(c) + SizeOf[Asked(r).digest]
  <2>1. PICK S : S = Claimed(c) \cup {r}
    OBVIOUS
  <2>2. IsFiniteSet(S) /\ (\A x \in S : w[x] \in Nat) /\ r \in S /\ S \ {r} = Claimed(c)
    BY <1>2, <1>5, <1>7, <2>1, FS_AddElement
  <2>3. Bytes(w, S) = w[r] + Bytes(w, Claimed(c))
    BY <2>2, BytesOf
  <2>4. w[r] = SizeOf[Asked(r).digest] /\ w[r] \in Nat
    BY <1>1, <1>2
  <2>5. QED BY <1>3, <1>4, <1>6, <1>7, <2>1, <2>2, <2>3, <2>4
<1>8. ASSUME Claimed(c)' = Claimed(c) \ {r}
      PROVE  IsFiniteSet(Claimed(c)') /\ Added(c)' \in Nat /\ Added(c)' <= Added(c)
  <2>1. PICK S : S = Claimed(c) \ {r}
    OBVIOUS
  <2>2. IsFiniteSet(S) /\ \A x \in S : w[x] \in Nat
    BY <1>2, <1>5, <2>1, FS_Subset
  <2>3. Bytes(w, S) \in Nat
    BY <2>2, BytesOf
  <2>4. CASE r \in Claimed(c)
    <3>1. Bytes(w, Claimed(c)) = w[r] + Bytes(w, S) /\ w[r] \in Nat
      BY <1>2, <1>6, <2>1, <2>4
    <3>2. QED BY <1>3, <1>4, <1>8, <2>1, <2>2, <2>3, <3>1
  <2>5. CASE r \notin Claimed(c)
    <3>1. S = Claimed(c)
      BY <2>1, <2>5
    <3>2. Claimed(c)' = Claimed(c) /\ Added(c)' = Added(c)
      BY <1>3, <1>4, <1>8, <2>1, <3>1
    <3>3. Added(c) \in Nat
      BY <1>3, <1>6
    <3>4. QED BY <3>2, <3>3
  <2>6. QED BY <2>4, <2>5
<1>9. QED BY <1>3, <1>4, <1>6, <1>7, <1>8

\* Nothing is claimed anew: the counts stay right.
LEMMA CountsStay ==
  ASSUME ObservationInv, UNCHANGED <<sighting, found, counted>>, NEW r \in Reads, NEW v,
         obs' = [obs EXCEPT ![r] = v], v \notin HasClaim \/ obs[r] \in HasClaim,
         \A c \in Connections : seed'[c] = seed[c] \/ (seed[c] # "counting" /\ seed'[c] # "counting")
  PROVE  CountsOK'
<1>1. ObservationShape /\ CountsOK
  BY DEF ObservationInv
<1>2. ASSUME NEW c \in Connections PROVE CountOK(c)'
  <2>1. CountOK(c) /\ found[c] \in Nat /\ counted[c] \in Nat
    BY <1>1 DEF CountsOK, ObservationShape
  <2>2. /\ c # Asked(r).conn => Claimed(c)' = Claimed(c)
        /\ c = Asked(r).conn => /\ v \in HasClaim => Claimed(c)' = Claimed(c) \cup {r}
                                /\ v \notin HasClaim => Claimed(c)' = Claimed(c) \ {r}
                                /\ r \in Claimed(c) <=> obs[r] \in HasClaim
    BY <1>1, ClaimedMoves
  <2>3. Claimed(c)' = Claimed(c) \/ Claimed(c)' = Claimed(c) \ {r}
    BY <2>2
  <2>4. IsFiniteSet(Claimed(c)') /\ Added(c) \in Nat /\ Added(c)' \in Nat /\ Added(c)' <= Added(c)
    BY <1>1, <2>1, <2>3, AddedByOne DEF CountOK
  <2>5. seed'[c] = "counting" => seed[c] = "counting"
    OBVIOUS
  <2>6. seed'[c] # "counting" => seed[c] # "counting"
    OBVIOUS
  <2>7. QED BY <2>1, <2>3, <2>4, <2>5, <2>6 DEF CountOK
<1>3. QED BY <1>2 DEF CountsOK

\* The check and the reservation, with nothing between them.
LEMMA CountsReserve ==
  ASSUME ObservationInv, UNCHANGED <<sighting, found>>, NEW r \in Reads, NEW n \in Nat, Reserve(r, n),
         obs[r] \notin HasClaim, seed'[Asked(r).conn] = "counting",
         \A c \in Connections : c # Asked(r).conn => seed'[c] = seed[c],
         found[Asked(r).conn] + Added(Asked(r).conn) <= n,
         Claimed(Asked(r).conn) # {} => n <= MaxBytes
  PROVE  CountsOK' /\ counted' \in [Connections -> Nat]
         /\ \E v \in {"get", "refused"} : obs' = [obs EXCEPT ![r] = v]
<1>1. ObservationShape /\ CountsOK
  BY DEF ObservationInv
<1>2. PICK k, s : k = Asked(r).conn /\ s = SizeOf[Asked(r).digest]
  OBVIOUS
<1>3. k \in Connections /\ s \in Nat /\ MaxBytes \in Nat /\ found[k] \in Nat
  BY <1>1, <1>2, ObservationFacts, ObservationAssumption DEF ObservationShape
<1>4. PICK v, m : /\ obs' = [obs EXCEPT ![r] = v] /\ counted' = [counted EXCEPT ![k] = m]
                  /\ \/ v = "refused" /\ m = n /\ n + s > MaxBytes
                     \/ v = "get" /\ m = n + s /\ ~(n + s > MaxBytes)
  <2>1. CASE n + s > MaxBytes
    <3>1. obs' = [obs EXCEPT ![r] = "refused"] /\ counted' = [counted EXCEPT ![k] = n]
      BY <1>2, <2>1 DEF Reserve
    <3>2. QED BY <2>1, <3>1
  <2>2. CASE ~(n + s > MaxBytes)
    <3>1. obs' = [obs EXCEPT ![r] = "get"] /\ counted' = [counted EXCEPT ![k] = n + s]
      BY <1>2, <2>2 DEF Reserve
    <3>2. QED BY <2>2, <3>1
  <2>3. QED BY <2>1, <2>2
<1>5. m \in Nat /\ counted' \in [Connections -> Nat] /\ counted'[k] = m
      /\ \A c \in Connections : c # k => counted'[c] = counted[c]
  BY <1>1, <1>3, <1>4 DEF ObservationShape
<1>6. ASSUME NEW c \in Connections PROVE CountOK(c)'
  <2>1. CountOK(c)
    BY <1>1 DEF CountsOK
  <2>2. CASE c # k
    <3>1. Claimed(c)' = Claimed(c)
      BY <1>1, <1>2, <1>4, <2>2, ClaimedMoves
    <3>2. Added(c)' = Added(c)
      BY <1>1, <2>1, <3>1, AddedByOne DEF CountOK
    <3>3. QED BY <1>2, <1>5, <2>1, <2>2, <3>1, <3>2 DEF CountOK
  <2>3. CASE c = k
    <3>1. /\ v \in HasClaim => Claimed(c)' = Claimed(c) \cup {r}
          /\ v \notin HasClaim => Claimed(c)' = Claimed(c) \ {r}
          /\ r \notin Claimed(c)
      BY <1>1, <1>2, <1>4, <2>3, ClaimedMoves
    <3>2. Added(c) \in Nat /\ found[c] + Added(c) <= n /\ (Claimed(c) # {} => n <= MaxBytes)
      BY <1>1, <1>2, <2>1, <2>3, AddedByOne DEF CountOK
    <3>3. CASE v = "refused"
      <4>1. Claimed(c)' = Claimed(c)
        BY <3>1, <3>3 DEF HasClaim
      <4>2. Added(c)' = Added(c) /\ m = n
        BY <1>1, <1>4, <2>1, <3>3, <4>1, AddedByOne DEF CountOK
      <4>3. QED BY <1>2, <1>5, <2>1, <2>3, <3>2, <4>1, <4>2 DEF CountOK
    <3>4. CASE v = "get"
      <4>1. Claimed(c)' = Claimed(c) \cup {r}
        BY <3>1, <3>4 DEF HasClaim
      <4>2. IsFiniteSet(Claimed(c)') /\ Added(c)' = Added(c) + s
        BY <1>1, <1>2, <2>1, <3>1, <4>1, AddedByOne DEF CountOK
      <4>3. m = n + s /\ n + s <= MaxBytes
        BY <1>3, <1>4, <3>4
      <4>4. found[c] + Added(c)' <= m
        BY <1>3, <2>3, <3>2, <4>2, <4>3
      <4>5. QED BY <1>2, <1>5, <2>3, <4>2, <4>3, <4>4 DEF CountOK
    <3>5. QED BY <1>4, <3>3, <3>4
  <2>4. QED BY <2>2, <2>3
<1>7. QED BY <1>4, <1>5, <1>6 DEF CountsOK
-----------------------------------------------------------------------------
\* A read waits, is let go on or is turned away; nothing is stored.
LEMMA ReadMovesOn ==
  ASSUME ObservationInv, NEW r \in Reads, NEW v \in {"seeding", "get", "refused", "failed"},
         obs' = [obs EXCEPT ![r] = v], v \in {"refused", "failed"} \/ ~Excluded(Asked(r).sources),
         UNCHANGED <<sighting, blob, sawStored, readable, playing, sourced, pruned, overlapped, disclosed>>,
         seed' \in [Connections -> SeedStates], found' = found, counted' \in [Connections -> Nat], CountsOK'
  PROVE  ObservationInv'
<1>1. /\ ObservationShape /\ PassedGate /\ PutsOK /\ SourcesOK /\ PlayingOK
      /\ NothingDisclosed /\ KeptIsThere
  BY DEF ObservationInv
<1>2. \A q \in Reads : obs'[q] = (IF q = r THEN v ELSE obs[q]) /\ Asked(q)' = Asked(q)
  BY <1>1, ClaimedMoves
<1>3. ObservationShape'
  BY <1>1 DEF ObservationShape, ReadStates, Stored
<1>4. PassedGate'
  BY <1>1, <1>2 DEF PassedGate, Excluded
<1>5. PutsOK'
  BY <1>1, <1>2 DEF PutsOK
<1>6. SourcesOK' /\ PlayingOK' /\ NothingDisclosed'
  BY <1>1 DEF SourcesOK, PlayingOK, NothingDisclosed, Found
<1>7. KeptIsThere'
  BY <1>1, <1>2 DEF KeptIsThere, Found
<1>8. QED BY <1>3, <1>4, <1>5, <1>6, <1>7 DEF ObservationInv

LEMMA BeginKeeps ==
  ASSUME ObservationInv, NEW r \in Reads, BeginCapture(r)
  PROVE  ObservationInv'
<1>1. ObservationShape /\ CountsOK
  BY DEF ObservationInv
<1>2. PICK k : k = Asked(r).conn
  OBVIOUS
<1>3. /\ obs[r] = "asked" /\ k \in Connections
      /\ UNCHANGED <<sighting, blob, found, sawStored, readable, playing, sourced, pruned, overlapped, disclosed>>
  BY <1>1, <1>2, ObservationFacts DEF BeginCapture
<1>4. CASE Excluded(Asked(r).sources)
  <2>1. obs' = [obs EXCEPT ![r] = "refused"] /\ UNCHANGED <<counted, seed>>
    BY <1>4 DEF BeginCapture
  <2>2. CountsOK'
    BY <1>3, <2>1, CountsStay DEF HasClaim
  <2>3. QED BY <1>1, <1>3, <2>1, <2>2, ReadMovesOn DEF ObservationShape
<1>5. CASE ~Excluded(Asked(r).sources) /\ seed[k] = "counting"
  <2>1. Reserve(r, counted[k]) /\ UNCHANGED seed
    BY <1>2, <1>5 DEF BeginCapture
  <2>2. counted[k] \in Nat /\ CountOK(k)
    BY <1>1, <1>3 DEF ObservationShape, CountsOK
  <2>3. CountsOK' /\ counted' \in [Connections -> Nat] /\ \E v \in {"get", "refused"} : obs' = [obs EXCEPT ![r] = v]
    BY <1>2, <1>3, <1>5, <2>1, <2>2, CountsReserve DEF CountOK, HasClaim
  <2>4. QED BY <1>1, <1>3, <1>5, <2>1, <2>3, ReadMovesOn DEF ObservationShape
<1>6. CASE ~Excluded(Asked(r).sources) /\ seed[k] # "counting"
  <2>1. /\ obs' = [obs EXCEPT ![r] = "seeding"] /\ UNCHANGED counted
        /\ seed' = [seed EXCEPT ![k] = IF @ = "none" THEN "walking" ELSE @]
    BY <1>2, <1>6 DEF BeginCapture
  <2>2. /\ seed' \in [Connections -> SeedStates]
        /\ \A c \in Connections : seed'[c] = seed[c] \/ (seed[c] # "counting" /\ seed'[c] # "counting")
    BY <1>1, <1>3, <1>6, <2>1 DEF ObservationShape, SeedStates
  <2>3. CountsOK'
    BY <1>3, <2>1, <2>2, CountsStay DEF HasClaim
  <2>4. QED BY <1>1, <1>3, <1>6, <2>1, <2>2, <2>3, ReadMovesOn DEF ObservationShape
<1>7. QED BY <1>4, <1>5, <1>6

LEMMA SeededKeeps ==
  ASSUME ObservationInv, NEW r \in Reads, Seeded(r)
  PROVE  ObservationInv'
<1>1. ObservationShape /\ CountsOK /\ PassedGate
  BY DEF ObservationInv
<1>2. PICK k : k = Asked(r).conn
  OBVIOUS
<1>3. /\ obs[r] = "seeding" /\ k \in Connections /\ seed[k] \notin {"none", "walking"}
      /\ UNCHANGED <<sighting, blob, found, sawStored, readable, playing, sourced, pruned, overlapped, disclosed>>
      /\ ~Excluded(Asked(r).sources)
  BY <1>1, <1>2, ObservationFacts DEF Seeded, PassedGate
<1>4. CASE seed[k] = "failed"
  <2>1. obs' = [obs EXCEPT ![r] = "failed"] /\ UNCHANGED <<counted, seed>>
    BY <1>2, <1>4 DEF Seeded
  <2>2. CountsOK'
    BY <1>3, <2>1, CountsStay DEF HasClaim
  <2>3. QED BY <1>1, <1>3, <2>1, <2>2, ReadMovesOn DEF ObservationShape
<1>5. CASE seed[k] # "failed"
  <2>1. seed' = [seed EXCEPT ![k] = "counting"] /\ Reserve(r, From(k))
    BY <1>2, <1>5 DEF Seeded
  <2>2. counted[k] \in Nat /\ found[k] \in Nat /\ CountOK(k) /\ seed[k] \in {"walked", "counting"}
    BY <1>1, <1>3, <1>5 DEF ObservationShape, CountsOK, SeedStates
  <2>3. PICK n : n = From(k)
    OBVIOUS
  <2>4. n \in Nat /\ found[k] + Added(k) <= n /\ (Claimed(k) # {} => n <= MaxBytes)
    <3>1. CASE seed[k] = "walked"
      <4>1. Added(k) = 0
        BY <1>1, <1>3, <2>2, <3>1, AddedByOne DEF CountOK
      <4>2. n = found[k] /\ Claimed(k) = {}
        BY <2>2, <2>3, <3>1 DEF From, CountOK
      <4>3. QED BY <2>2, <4>1, <4>2
    <3>2. CASE seed[k] = "counting"
      <4>1. n = counted[k]
        BY <2>3, <3>2 DEF From
      <4>2. QED BY <2>2, <3>2, <4>1 DEF CountOK
    <3>3. QED BY <2>2, <3>1, <3>2
  <2>5. /\ seed' \in [Connections -> SeedStates] /\ seed'[k] = "counting"
        /\ \A c \in Connections : c # k => seed'[c] = seed[c]
    BY <1>1, <1>3, <2>1 DEF ObservationShape, SeedStates
  <2>6. CountsOK' /\ counted' \in [Connections -> Nat] /\ \E v \in {"get", "refused"} : obs' = [obs EXCEPT ![r] = v]
    BY <1>2, <1>3, <2>1, <2>3, <2>4, <2>5, CountsReserve DEF HasClaim
  <2>7. QED BY <1>3, <2>5, <2>6, ReadMovesOn
<1>6. QED BY <1>4, <1>5

-----------------------------------------------------------------------------
\* The walk: a number of bytes, of so many payloads.
LEMMA WalkKeeps ==
  ASSUME ObservationInv, NEW k \in Connections, Walk(k)
  PROVE  ObservationInv'
<1>1. /\ seed[k] = "walking"
      /\ UNCHANGED <<sighting, blob, counted, obs, sawStored, readable, playing, sourced, pruned, overlapped, disclosed>>
      /\ \/ seed' = [seed EXCEPT ![k] = "walked"] /\ found' = [found EXCEPT ![k] = OnDisk]
         \/ seed' = [seed EXCEPT ![k] = "failed"] /\ UNCHANGED found
  BY DEF Walk
<1>2. /\ ObservationShape /\ PassedGate /\ CountsOK /\ PutsOK /\ SourcesOK /\ PlayingOK
      /\ NothingDisclosed /\ KeptIsThere
  BY DEF ObservationInv
<1>3. OnDisk \in Nat
  <2>1. SizeOf \in [Digests -> Nat] /\ IsFiniteSet(Stored) /\ \A d \in Stored : SizeOf[d] \in Nat
    BY <1>2, ObservationAssumption DEF ObservationShape, Stored
  <2>2. QED BY <2>1, BytesOf DEF OnDisk
<1>4. /\ seed' \in [Connections -> SeedStates] /\ found' \in [Connections -> Nat] /\ seed'[k] # "counting"
      /\ \A c \in Connections : c # k => seed'[c] = seed[c] /\ found'[c] = found[c]
  <2>1. CASE seed' = [seed EXCEPT ![k] = "walked"] /\ found' = [found EXCEPT ![k] = OnDisk]
    BY <1>2, <1>3, <2>1 DEF ObservationShape, SeedStates
  <2>2. CASE seed' = [seed EXCEPT ![k] = "failed"] /\ UNCHANGED found
    BY <1>2, <1>3, <2>2 DEF ObservationShape, SeedStates
  <2>3. QED BY <1>1, <2>1, <2>2
<1>5. ObservationShape'
  BY <1>1, <1>2, <1>4 DEF ObservationShape, Stored
<1>6. CountsOK'
  <2>1. ASSUME NEW c \in Connections PROVE CountOK(c)'
    <3>1. CountOK(c) /\ Claimed(c)' = Claimed(c) /\ Added(c)' = Added(c)
      BY <1>1, <1>2 DEF CountsOK, Claimed, Added, Asked
    <3>2. CASE c = k
      BY <1>1, <1>4, <3>1, <3>2 DEF CountOK
    <3>3. CASE c # k
      BY <1>1, <1>4, <3>1, <3>3 DEF CountOK
    <3>4. QED BY <3>2, <3>3
  <2>2. QED BY <2>1 DEF CountsOK
<1>7. PassedGate' /\ PutsOK' /\ SourcesOK' /\ PlayingOK' /\ NothingDisclosed' /\ KeptIsThere'
  BY <1>1, <1>2 DEF PassedGate, PutsOK, SourcesOK, PlayingOK, NothingDisclosed, KeptIsThere, Found, Asked, Excluded
<1>8. QED BY <1>5, <1>6, <1>7 DEF ObservationInv
-----------------------------------------------------------------------------
\* put() has looked: it is done, or it will write.
LEMMA GetKeeps ==
  ASSUME ObservationInv, NEW r \in Reads, GetBlob(r)
  PROVE  ObservationInv'
<1>1. PICK d, S : d = Asked(r).digest /\ S = Asked(r).sources
  OBVIOUS
<1>2. PICK v \in {"kept", "put"} :
        /\ obs[r] = "get" /\ sawStored' = [sawStored EXCEPT ![r] = Found(d)]
        /\ obs' = [obs EXCEPT ![r] = v]
        /\ v = "kept" => /\ Found(d) # NoBlob /\ Union(Found(d), S) = Found(d)
                         /\ sourced' = [sourced EXCEPT ![d] = @ \cup S]
        /\ v = "put" => UNCHANGED sourced
        /\ overlapped' = overlapped \cup {e \in {d} : \E q \in Reads : obs[q] = "put" /\ Asked(q).digest = d}
        /\ UNCHANGED <<sighting, blob, seed, found, counted, readable, playing, pruned, disclosed>>
  BY <1>1, Zenon DEF GetBlob, Keeps
<1>3. /\ ObservationShape /\ PassedGate /\ CountsOK /\ PutsOK /\ SourcesOK /\ PlayingOK
      /\ NothingDisclosed /\ KeptIsThere
  BY DEF ObservationInv
<1>4. d \in Digests /\ S \in SUBSET NoteSources /\ Found(d) \in SourceSets /\ Found(d)' = Found(d)
  BY <1>1, <1>2, <1>3, ObservationFacts DEF Found
<1>5. \A q \in Reads : obs'[q] = (IF q = r THEN v ELSE obs[q]) /\ Asked(q)' = Asked(q)
  BY <1>2, <1>3, ClaimedMoves
<1>6. /\ sawStored'[r] = Found(d) /\ \A q \in Reads : q # r => sawStored'[q] = sawStored[q]
      /\ sawStored' \in [Reads -> SourceSets]
  BY <1>2, <1>3, <1>4 DEF ObservationShape
<1>7. /\ overlapped \subseteq overlapped'
      /\ d \notin overlapped' => \A q \in Reads : obs[q] = "put" => Asked(q).digest # d
  BY <1>2
<1>8. /\ sourced' \in [Digests -> SUBSET NoteSources]
      /\ \A e \in Digests : e # d => sourced'[e] = sourced[e]
      /\ sourced'[d] = sourced[d] \/ (v = "kept" /\ sourced'[d] = sourced[d] \cup S)
  <2>1. CASE v = "kept"
    <3>1. sourced' = [sourced EXCEPT ![d] = sourced[d] \cup S]
      BY <1>2, <2>1
    <3>2. QED BY <1>3, <1>4, <2>1, <3>1 DEF ObservationShape
  <2>2. CASE v = "put"
    BY <1>2, <1>3, <2>2 DEF ObservationShape
  <2>3. QED BY <2>1, <2>2
<1>9. v = "kept" => S \subseteq Found(d)
  BY <1>2 DEF Union
<1>10. ObservationShape'
  BY <1>2, <1>3, <1>6, <1>8 DEF ObservationShape, ReadStates, Stored
<1>11. PassedGate'
  BY <1>2, <1>3, <1>5 DEF PassedGate, Excluded
<1>12. CountsOK'
  BY <1>2, CountsStay DEF HasClaim
<1>13. ASSUME d \notin overlapped' PROVE Covers(Found(d), sourced'[d])
  <2>1. Covers(Found(d), sourced[d])
    BY <1>3, <1>4, <1>7, <1>13 DEF SourcesOK
  <2>2. QED BY <1>2, <1>8, <1>9, <2>1 DEF Covers
<1>14. PutsOK'
  <2>1. ASSUME NEW q \in Reads, NEW e \in Digests, obs'[q] = "put", Asked(q).digest = e, e \notin overlapped'
        PROVE  /\ Covers(sawStored'[q], sourced'[e])
               /\ \A x \in Reads : obs'[x] = "put" /\ Asked(x).digest = e => x = q
    <3>1. CASE q = r
      BY <1>1, <1>5, <1>6, <1>7, <1>13, <2>1, <3>1
    <3>2. CASE q # r
      <4>1. obs[q] = "put" /\ e # d /\ e \notin overlapped
        BY <1>5, <1>7, <2>1, <3>2
      <4>2. Covers(sawStored[q], sourced[e]) /\ \A x \in Reads : obs[x] = "put" /\ Asked(x).digest = e => x = q
        BY <1>3, <2>1, <4>1 DEF PutsOK
      <4>3. QED BY <1>1, <1>5, <1>6, <1>8, <3>2, <4>1, <4>2
    <3>3. QED BY <3>1, <3>2
  <2>2. QED BY <1>5, <2>1 DEF PutsOK
<1>15. SourcesOK'
  <2>1. ASSUME NEW e \in Digests \ overlapped' PROVE Covers(Found(e)', sourced'[e])
    <3>1. CASE e = d
      BY <1>4, <1>13, <3>1
    <3>2. CASE e # d
      <4>1. Found(e)' = Found(e) /\ sourced'[e] = sourced[e] /\ e \notin overlapped
        BY <1>2, <1>7, <1>8, <3>2 DEF Found
      <4>2. QED BY <1>3, <4>1 DEF SourcesOK
    <3>3. QED BY <3>1, <3>2
  <2>2. QED BY <2>1 DEF SourcesOK
<1>16. PlayingOK' /\ NothingDisclosed'
  BY <1>2, <1>3, <1>7 DEF PlayingOK, NothingDisclosed
<1>17. KeptIsThere'
  <2>1. ASSUME NEW q \in Reads, obs'[q] = "kept", Asked(q).digest \notin pruned PROVE Found(Asked(q).digest) # NoBlob
    BY <1>1, <1>2, <1>3, <1>5, <2>1 DEF KeptIsThere
  <2>2. QED BY <1>2, <1>5, <2>1 DEF KeptIsThere, Found
<1>18. QED BY <1>10, <1>11, <1>12, <1>14, <1>15, <1>16, <1>17 DEF ObservationInv

\* The payload is written, with the sources of both.
LEMMA PutKeeps ==
  ASSUME ObservationInv, NEW r \in Reads, PutBlob(r)
  PROVE  ObservationInv'
<1>1. PICK d, S, U : d = Asked(r).digest /\ S = Asked(r).sources /\ U = Union(sawStored[r], S)
  OBVIOUS
<1>2. /\ obs[r] = "put"
      /\ UNCHANGED <<sighting, seed, found, counted, sawStored, readable, playing, pruned, overlapped, disclosed>>
      /\ \/ /\ blob' = [blob EXCEPT ![d] = U] /\ obs' = [obs EXCEPT ![r] = "kept"]
            /\ sourced' = [sourced EXCEPT ![d] = @ \cup S]
         \/ obs' = [obs EXCEPT ![r] = "failed"] /\ UNCHANGED <<blob, sourced>>
  BY <1>1 DEF PutBlob, Keeps
<1>3. CASE obs' = [obs EXCEPT ![r] = "failed"] /\ UNCHANGED <<blob, sourced>>
  <2>1. CountsOK'
    BY <1>2, <1>3, CountsStay DEF HasClaim
  <2>2. QED BY <1>2, <1>3, <2>1, ReadMovesOn DEF ObservationInv, ObservationShape
<1>4. CASE blob' = [blob EXCEPT ![d] = U] /\ obs' = [obs EXCEPT ![r] = "kept"] /\ sourced' = [sourced EXCEPT ![d] = @ \cup S]
  <2>1. /\ ObservationShape /\ PassedGate /\ CountsOK /\ PutsOK /\ SourcesOK /\ PlayingOK
        /\ NothingDisclosed /\ KeptIsThere
    BY DEF ObservationInv
  <2>2. d \in Digests /\ S \in SUBSET NoteSources /\ sawStored[r] \in SourceSets /\ ~Excluded(S)
    BY <1>1, <1>2, <2>1, ObservationFacts DEF ObservationShape, PassedGate
  <2>3. U \in SUBSET (NoteSources \ GuardedNotes) /\ U # NoBlob /\ U \in SourceSets /\ S \subseteq U
        /\ (sawStored[r] # NoBlob => sawStored[r] \subseteq U)
    <3>1. S \in SUBSET (NoteSources \ GuardedNotes)
      BY <2>2 DEF Excluded
    <3>2. U = S \/ (sawStored[r] # NoBlob /\ U = sawStored[r] \cup S)
      BY <1>1 DEF Union
    <3>3. U \in SUBSET (NoteSources \ GuardedNotes)
      BY <2>2, <3>1, <3>2 DEF SourceSets
    <3>4. U # NoBlob
      BY <3>3, ObservationAssumption
    <3>5. S \subseteq U /\ (sawStored[r] # NoBlob => sawStored[r] \subseteq U)
      BY <1>1, <3>1 DEF Union
    <3>6. QED BY <3>3, <3>4, <3>5 DEF SourceSets
  <2>4. /\ blob' \in [Digests -> SourceSets] /\ blob'[d] = U /\ \A e \in Digests : e # d => blob'[e] = blob[e]
    BY <1>4, <2>1, <2>2, <2>3 DEF ObservationShape
  <2>5. /\ sourced' \in [Digests -> SUBSET NoteSources] /\ sourced'[d] = sourced[d] \cup S
        /\ \A e \in Digests : e # d => sourced'[e] = sourced[e]
    BY <1>4, <2>1, <2>2 DEF ObservationShape
  <2>6. \A q \in Reads : obs'[q] = (IF q = r THEN "kept" ELSE obs[q]) /\ Asked(q)' = Asked(q)
    BY <1>2, <1>4, <2>1, ClaimedMoves
  <2>7. Found(d)' = U /\ \A e \in Digests : e # d => Found(e)' = Found(e)
    BY <1>2, <2>2, <2>3, <2>4 DEF Found
  <2>8. IsFiniteSet(Stored')
    <3>1. Stored' \subseteq Stored \cup {d}
      BY <2>4 DEF Stored
    <3>2. IsFiniteSet(Stored \cup {d})
      BY <2>1, FS_AddElement DEF ObservationShape
    <3>3. QED BY <3>1, <3>2, FS_Subset
  <2>9. ObservationShape'
    BY <1>2, <1>4, <2>1, <2>4, <2>5, <2>8 DEF ObservationShape, ReadStates
  <2>10. PassedGate'
    BY <1>2, <2>1, <2>6 DEF PassedGate, Excluded
  <2>11. CountsOK'
    BY <1>2, <1>4, CountsStay DEF HasClaim
  <2>12. d \notin overlapped => Covers(sawStored[r], sourced[d]) /\ \A q \in Reads : obs[q] = "put" /\ Asked(q).digest = d => q = r
    BY <1>1, <1>2, <2>1, <2>2 DEF PutsOK
  <2>13. PutsOK'
    <3>1. ASSUME NEW q \in Reads, NEW e \in Digests, obs'[q] = "put", Asked(q).digest = e, e \notin overlapped
          PROVE  /\ Covers(sawStored[q], sourced'[e])
                 /\ \A x \in Reads : obs'[x] = "put" /\ Asked(x).digest = e => x = q
      <4>1. q # r /\ obs[q] = "put"
        BY <2>6, <3>1
      <4>2. e # d
        BY <2>12, <3>1, <4>1
      <4>3. Covers(sawStored[q], sourced[e]) /\ \A x \in Reads : obs[x] = "put" /\ Asked(x).digest = e => x = q
        BY <2>1, <3>1, <4>1 DEF PutsOK
      <4>4. QED BY <2>5, <2>6, <4>2, <4>3
    <3>2. QED BY <1>2, <2>6, <3>1 DEF PutsOK
  <2>14. SourcesOK'
    <3>1. ASSUME NEW e \in Digests \ overlapped PROVE Covers(Found(e)', sourced'[e])
      <4>1. CASE e = d
        <5>1. Covers(sawStored[r], sourced[d])
          BY <2>12, <3>1, <4>1
        <5>2. QED BY <2>3, <2>5, <2>7, <4>1, <5>1 DEF Covers
      <4>2. CASE e # d
        BY <2>1, <2>5, <2>7, <4>2 DEF SourcesOK
      <4>3. QED BY <4>1, <4>2
    <3>2. QED BY <1>2, <3>1 DEF SourcesOK
  <2>15. PlayingOK' /\ NothingDisclosed'
    BY <1>2, <2>1 DEF PlayingOK, NothingDisclosed
  <2>16. KeptIsThere'
    <3>1. ASSUME NEW q \in Reads, obs'[q] = "kept", Asked(q).digest \notin pruned PROVE Found(Asked(q).digest)' # NoBlob
      <4>1. CASE Asked(q).digest = d
        BY <2>3, <2>6, <2>7, <4>1
      <4>2. CASE Asked(q).digest # d
        BY <1>1, <2>1, <2>6, <2>7, <3>1, <4>2, ObservationFacts DEF KeptIsThere
      <4>3. QED BY <4>1, <4>2
    <3>2. QED BY <1>2, <2>6, <3>1 DEF KeptIsThere, Found
  <2>17. QED BY <2>9, <2>10, <2>11, <2>13, <2>14, <2>15, <2>16 DEF ObservationInv
<1>5. QED BY <1>2, <1>3, <1>4
-----------------------------------------------------------------------------
\* A step of a reader or of the operator stores nothing.
LEMMA ObservationRests ==
  ASSUME ObservationInv, readable' \subseteq NoteSources, PlayingOK', NothingDisclosed',
         UNCHANGED <<sighting, blob, seed, found, counted, obs, sawStored, sourced, pruned, overlapped>>
  PROVE  ObservationInv'
<1>1. ObservationShape /\ PassedGate /\ CountsOK /\ PutsOK /\ SourcesOK /\ KeptIsThere
  BY DEF ObservationInv
<1>2. ObservationShape'
  BY <1>1 DEF ObservationShape, Stored
<1>3. PassedGate' /\ PutsOK' /\ SourcesOK' /\ KeptIsThere'
  BY <1>1 DEF PassedGate, PutsOK, SourcesOK, KeptIsThere, Found, Asked, Excluded
<1>4. CountsOK'
  <2>1. ASSUME NEW c \in Connections PROVE CountOK(c)'
    <3>1. CountOK(c) /\ Claimed(c)' = Claimed(c) /\ Added(c)' = Added(c)
      BY <1>1 DEF CountsOK, Claimed, Added, Asked
    <3>2. QED BY <3>1 DEF CountOK
  <2>2. QED BY <2>1 DEF CountsOK
<1>5. QED BY <1>2, <1>3, <1>4 DEF ObservationInv

LEMMA PruneKeeps ==
  ASSUME ObservationInv, NEW d \in Digests, Prune(d)
  PROVE  ObservationInv'
<1>1. UNCHANGED <<sighting, seed, found, counted, obs, sawStored, readable, playing, overlapped, disclosed>>
  BY DEF Prune
<1>2. /\ ObservationShape /\ PassedGate /\ CountsOK /\ PutsOK /\ SourcesOK /\ PlayingOK
      /\ NothingDisclosed /\ KeptIsThere
  BY DEF ObservationInv
<1>3. CASE UNCHANGED <<blob, sourced, pruned>>
  BY <1>1, <1>2, <1>3, ObservationRests DEF PlayingOK, NothingDisclosed, ObservationShape
<1>4. CASE /\ blob' = [blob EXCEPT ![d] = NoBlob] /\ pruned' = pruned \cup {d}
           /\ sourced' = [sourced EXCEPT ![d] = {}]
  <2>1. /\ blob' \in [Digests -> SourceSets] /\ blob'[d] = NoBlob
        /\ \A e \in Digests : e # d => blob'[e] = blob[e]
    BY <1>2, <1>4 DEF ObservationShape, SourceSets
  <2>2. /\ sourced' \in [Digests -> SUBSET NoteSources] /\ sourced'[d] = {}
        /\ \A e \in Digests : e # d => sourced'[e] = sourced[e]
    BY <1>2, <1>4 DEF ObservationShape
  <2>3. \A e \in Digests : e # d => Found(e)' = Found(e)
    BY <1>1, <2>1 DEF Found
  <2>4. IsFiniteSet(Stored')
    <3>1. Stored' \subseteq Stored
      BY <2>1 DEF Stored
    <3>2. QED BY <1>2, <3>1, FS_Subset DEF ObservationShape
  <2>5. ObservationShape'
    BY <1>1, <1>2, <2>1, <2>2, <2>4 DEF ObservationShape
  <2>6. \A q \in Reads : Asked(q)' = Asked(q)
    BY <1>1 DEF Asked
  <2>7. PassedGate'
    BY <1>1, <1>2, <2>6 DEF PassedGate, Excluded
  <2>8. CountsOK'
    <3>1. ASSUME NEW c \in Connections PROVE CountOK(c)'
      <4>1. CountOK(c) /\ Claimed(c)' = Claimed(c) /\ Added(c)' = Added(c)
        BY <1>1, <1>2 DEF CountsOK, Claimed, Added, Asked
      <4>2. QED BY <1>1, <4>1 DEF CountOK
    <3>2. QED BY <3>1 DEF CountsOK
  <2>9. \A e \in Digests : sourced'[e] = sourced[e] \/ sourced'[e] = {}
    BY <2>2
  <2>10. PutsOK'
    BY <1>1, <1>2, <2>6, <2>9 DEF PutsOK, Covers
  <2>11. SourcesOK'
    <3>1. ASSUME NEW e \in Digests \ overlapped PROVE Covers(Found(e)', sourced'[e])
      <4>1. CASE e = d
        BY <2>2, <4>1 DEF Covers
      <4>2. CASE e # d
        BY <1>2, <2>2, <2>3, <4>2 DEF SourcesOK
      <4>3. QED BY <4>1, <4>2
    <3>2. QED BY <1>1, <3>1 DEF SourcesOK
  <2>12. PlayingOK' /\ NothingDisclosed'
    BY <1>1, <1>2 DEF PlayingOK, NothingDisclosed
  <2>13. KeptIsThere'
    <3>1. ASSUME NEW q \in Reads, obs[q] = "kept", Asked(q).digest \notin pruned \cup {d}
          PROVE  Found(Asked(q).digest)' # NoBlob
      <4>1. Asked(q).digest \in Digests /\ Asked(q).digest # d /\ Found(Asked(q).digest) # NoBlob
        BY <1>2, <3>1, ObservationFacts DEF KeptIsThere
      <4>2. QED BY <2>3, <2>6, <4>1
    <3>2. QED BY <1>1, <1>4, <2>6, <3>1 DEF KeptIsThere
  <2>14. QED BY <2>5, <2>7, <2>8, <2>10, <2>11, <2>12, <2>13 DEF ObservationInv
<1>5. QED BY <1>3, <1>4 DEF Prune

LEMMA LoadKeeps ==
  ASSUME ObservationInv, NEW d \in Digests, LoadPayload(d)
  PROVE  ObservationInv'
<1>1. /\ playing' = IF Found(d) = NoBlob THEN {} ELSE {<<d, Found(d), sourced[d]>>}
      /\ UNCHANGED <<sighting, blob, seed, found, counted, obs, sawStored, readable, sourced, pruned,
                     overlapped, disclosed>>
  BY DEF LoadPayload
<1>2. ObservationShape /\ SourcesOK /\ NothingDisclosed
  BY DEF ObservationInv
<1>3. ASSUME NEW p \in playing' PROVE p[1] \in overlapped \/ p[3] \subseteq p[2]
  <2>1. p = <<d, Found(d), sourced[d]>>
    BY <1>1, <1>3
  <2>2. d \notin overlapped => sourced[d] \subseteq Found(d)
    BY <1>2 DEF SourcesOK, Covers
  <2>3. QED BY <2>1, <2>2
<1>4. PlayingOK' /\ NothingDisclosed' /\ readable' \subseteq NoteSources
  BY <1>1, <1>2, <1>3 DEF PlayingOK, NothingDisclosed, ObservationShape
<1>5. QED BY <1>1, <1>4, ObservationRests

LEMMA ReplayKeeps ==
  ASSUME ObservationInv, Replay
  PROVE  ObservationInv'
<1>1. PICK p \in playing :
        disclosed' = disclosed \cup {d \in {p[1]} : Authorized(p[2]) /\ ~(p[3] \subseteq readable)}
  BY DEF Replay
<1>2. playing' = {} /\ UNCHANGED <<sighting, blob, seed, found, counted, obs, sawStored, readable, occurrences,
                                   sourced, pruned, overlapped>>
  BY DEF Replay
<1>3. ObservationShape /\ PlayingOK /\ NothingDisclosed
  BY DEF ObservationInv
<1>4. p[1] \in overlapped \/ p[3] \subseteq p[2]
  BY <1>3 DEF PlayingOK
<1>5. disclosed' \subseteq overlapped
  BY <1>1, <1>3, <1>4 DEF Authorized, NothingDisclosed
<1>6. PlayingOK' /\ NothingDisclosed' /\ readable' \subseteq NoteSources
  BY <1>2, <1>3, <1>5 DEF PlayingOK, NothingDisclosed, ObservationShape
<1>7. QED BY <1>2, <1>6, ObservationRests

LEMMA NarrowKeeps ==
  ASSUME ObservationInv, NEW s \in NoteSources, Narrow(s)
  PROVE  ObservationInv'
<1>1. /\ readable' = readable \ {s}
      /\ UNCHANGED <<sighting, blob, seed, found, counted, obs, sawStored, playing, sourced, pruned,
                     overlapped, disclosed>>
  BY DEF Narrow
<1>2. PlayingOK' /\ NothingDisclosed' /\ readable' \subseteq NoteSources
  BY <1>1 DEF ObservationInv, PlayingOK, NothingDisclosed, ObservationShape
<1>3. QED BY <1>1, <1>2, ObservationRests

-----------------------------------------------------------------------------
LEMMA ObservationsStart ==
  ASSUME ObservationInit
  PROVE  ObservationInv
<1>1. /\ sighting \in Sightings /\ blob = sighting.blobs
      /\ seed = [c \in Connections |-> "none"]
      /\ found = [c \in Connections |-> 0] /\ counted = [c \in Connections |-> 0]
      /\ obs = [r \in Reads |-> "asked"] /\ sawStored = [r \in Reads |-> NoBlob]
      /\ readable = NoteSources /\ playing = {}
      /\ sourced = [d \in Digests |-> IF blob[d] = NoBlob THEN {} ELSE blob[d]]
      /\ pruned = {} /\ overlapped = {} /\ disclosed = {}
  BY DEF ObservationInit
<1>2. blob \in [Digests -> SourceSets] /\ IsFiniteSet(Stored)
  <2>1. blob \in [Digests -> SourceSets] /\ IsFiniteSet({d \in Digests : blob[d] # NoBlob})
    BY <1>1, ObservationAssumption DEF SourceSets
  <2>2. QED BY <2>1 DEF Stored
<1>3. sourced \in [Digests -> SUBSET NoteSources]
  BY <1>1, <1>2 DEF SourceSets
<1>4. ObservationShape
  BY <1>1, <1>2, <1>3 DEF ObservationShape, SourceSets, SeedStates, ReadStates
<1>5. PassedGate /\ PutsOK /\ PlayingOK /\ NothingDisclosed /\ KeptIsThere
  BY <1>1 DEF PassedGate, PutsOK, PlayingOK, NothingDisclosed, KeptIsThere
<1>6. SourcesOK
  BY <1>1 DEF SourcesOK, Covers, Found
<1>7. CountsOK
  <2>1. ASSUME NEW c \in Connections PROVE CountOK(c)
    <3>1. Claimed(c) = {}
      BY <1>1 DEF Claimed
    <3>2. IsFiniteSet(Claimed(c))
      BY <3>1, FS_EmptySet
    <3>3. QED BY <1>1, <3>1, <3>2 DEF CountOK
  <2>2. QED BY <2>1 DEF CountsOK
<1>8. QED BY <1>4, <1>5, <1>6, <1>7 DEF ObservationInv

LEMMA ObservationsStep ==
  ASSUME ObservationInv, [ObservationNext]_ovars
  PROVE  ObservationInv'
<1>1. ASSUME NEW r \in Reads, BeginCapture(r) \/ Seeded(r) \/ GetBlob(r) \/ PutBlob(r) PROVE ObservationInv'
  BY <1>1, BeginKeeps, SeededKeeps, GetKeeps, PutKeeps
<1>2. ASSUME NEW c \in Connections, Walk(c) PROVE ObservationInv'
  BY <1>2, WalkKeeps
<1>3. ASSUME NEW d \in Digests, Prune(d) \/ LoadPayload(d) PROVE ObservationInv'
  BY <1>3, PruneKeeps, LoadKeeps
<1>4. ASSUME Replay PROVE ObservationInv'
  BY <1>4, ReplayKeeps
<1>5. ASSUME NEW s \in NoteSources, Narrow(s) PROVE ObservationInv'
  BY <1>5, NarrowKeeps
<1>6. ASSUME UNCHANGED ovars PROVE ObservationInv'
  BY <1>6, ObservationRests DEF ovars, ObservationInv, ObservationShape, PlayingOK, NothingDisclosed
<1>7. QED BY <1>1, <1>2, <1>3, <1>4, <1>5, <1>6 DEF ObservationNext

LEMMA ObservationsHold ==
  ASSUME ObservationInv
  PROVE  ObservationsSafe
<1>1. ObservationShape /\ CountsOK /\ SourcesOK /\ NothingDisclosed /\ KeptIsThere
  BY DEF ObservationInv
<1>2. ObservationTypeOK
  BY <1>1 DEF ObservationTypeOK, ObservationShape, SourceSets, ReadStates, Stored
<1>3. CapHolds
  <2>1. ASSUME NEW c \in Connections, Claimed(c) # {} PROVE found[c] + Added(c) <= MaxBytes
    <3>1. CountOK(c) /\ found[c] \in Nat /\ counted[c] \in Nat
      BY <1>1 DEF CountsOK, ObservationShape
    <3>2. Added(c) \in Nat
      <4>1. IsFiniteSet(Claimed(c)) /\ Claimed(c) \subseteq Reads
        BY <3>1 DEF CountOK, Claimed
      <4>2. PICK w : w = [r \in Reads |-> SizeOf[Asked(r).digest]]
        OBVIOUS
      <4>3. \A r \in Claimed(c) : w[r] \in Nat
        BY <1>1, <4>1, <4>2, ObservationFacts
      <4>4. QED BY <4>1, <4>2, <4>3, BytesOf DEF Added
    <3>3. QED BY <2>1, <3>1, <3>2, ObservationAssumption DEF CountOK
  <2>2. QED BY <2>1 DEF CapHolds
<1>4. SourcesKept
  <2>1. ASSUME NEW d \in Digests PROVE Found(d) # NoBlob => Found(d) \cap GuardedNotes = {}
    BY <1>1, ObservationFacts DEF SourceSets
  <2>2. QED BY <1>1, <2>1 DEF SourcesKept, SourcesOK, Covers
<1>5. QED BY <1>1, <1>2, <1>3, <1>4 DEF ObservationsSafe

\* The payloads of observed reads: within each connection's cap, with every note they came
\* from, of none that is guarded, and given only to who may read them all (capture.ts, store.ts).
THEOREM ObservationsAreSafe == ObservationSpec => []ObservationsSafe
<1>1. ObservationInit => ObservationInv
  BY ObservationsStart
<1>2. ObservationInv /\ [ObservationNext]_ovars => ObservationInv'
  BY ObservationsStep
<1>3. ObservationInv => ObservationsSafe
  BY ObservationsHold
<1>4. QED BY <1>1, <1>2, <1>3, PTL DEF ObservationSpec
-----------------------------------------------------------------------------
(***************************************************************************)
(* The channels.  A minute is sound for a handle when its receipt may say  *)
(* it: all that others wrote until then was served to the handle, claimed  *)
(* by it, or came too late, and the channel has reached it.  The receipts, *)
(* what delta advises and what a call is about to write are sound          *)
(* (ReceiptsStand, TalkStands); a call that nothing crossed has the        *)
(* receipts as they are (TalkHolds); and what the host had is there from   *)
(* the latch on (AdoptInv, TalkHosts).                                     *)
(***************************************************************************)
TalkRecs ==
  [at : {"asked", "resolved", "append", "load", "write", "over"}, seen : SUBSET ChannelEntry,
   lists : SUBSET ChannelFiles, through : Nat, target : ChannelFiles \cup {"none"}, to : Nat,
   base : [Handles -> Nat], blind : BOOLEAN, forgot : BOOLEAN, crossed : BOOLEAN,
   answer : {"none", "ok", "lost", "stamp_ahead", "stale_read", "no single log"}]

ChannelShape ==
  /\ meeting \in Meetings /\ befalling \subseteq meeting.coming
  /\ entries \subseteq ChannelEntry /\ IsFiniteSet(entries)
  /\ \A e \in entries : e.no <= Cardinality(entries)
  /\ \A e, f \in entries : e.no = f.no => e = f
  /\ uncached \subseteq {e.file : e \in entries} \cap NoteFiles
  /\ minute \in Nat \ {0} /\ (<<"back">> \in befalling => minute > 1)

ReceiptShape ==
  /\ receipts \in [through : [Handles -> Nat], legible : BOOLEAN]
  /\ advised \in [Handles -> Nat] /\ got \in [Handles -> SUBSET Nat]
  /\ adoption \in {"asked", "merge", "write", "write over", "latch", "ready"}
  /\ latch \in BOOLEAN /\ wiped \in BOOLEAN

TalkShape == talk \in [Talks -> TalkRecs]

Rests(c) == talk[c].at \in {"asked", "over"}

\* What a handle was served, says it read, or could not have seen in time.
ToldOf(h, e)      == e.no \in got[h] \/ <<h, e.no>> \in missed
CoversKnown(h, t) == \A e \in entries : e.by # h /\ e.stamp <= t => ToldOf(h, e)
Reached(t)        == t = 0 \/ \E e \in entries : t <= e.stamp
Sound(h, t)       == CoversKnown(h, t) /\ Reached(t)

ReceiptsStand ==
  \A h \in Handles : Sound(h, receipts.through[h]) /\ Sound(h, advised[h]) /\ Sound(h, meeting.host[h])

\* What a call knows: what it saw, and that the rest came too late for it.
TalkSees(c) ==
  /\ talk[c].seen \subseteq entries
  /\ \A e \in entries : e \in talk[c].seen \/ e.by = Ask(c).handle \/ <<Ask(c).handle, e.no>> \in missed
  /\ Ask(c).tool = "attest" /\ Ask(c).stamp = 0 => advised[Ask(c).handle] # 0
TalkStands(c) ==
  /\ talk[c].at = "append" => /\ Ask(c).tool = "post" /\ talk[c].target \in ChannelFiles
                              /\ Sound(Ask(c).handle, talk[c].through)
                              /\ \A e \in entries : e.by # Ask(c).handle => ToldOf(Ask(c).handle, e)
  /\ talk[c].at \in {"load", "write"} => talk[c].to # 0 /\ Sound(Ask(c).handle, talk[c].to)
  /\ talk[c].at = "write" => \A h \in Handles : Sound(h, talk[c].base[h])

\* What a call has of the receipts that it read, if nothing crossed it.
TalkHolds(c) ==
  ~talk[c].crossed =>
    /\ talk[c].at = "append" /\ ~talk[c].blind => talk[c].through = receipts.through[Ask(c).handle]
    /\ talk[c].at \in {"load", "write"} /\ Ask(c).tool # "attest" /\ ~talk[c].blind
       => receipts.through[Ask(c).handle] <= talk[c].to
    /\ talk[c].at = "write" /\ ~talk[c].forgot => talk[c].base = receipts.through

\* Whoever had a receipt with the host has one in these.
HostIn(t) == \A h \in Handles : meeting.host[h] # 0 => t[h] # 0
TalkHosts(c) == talk[c].at = "write" /\ latch /\ ~talk[c].forgot => wiped \/ HostIn(talk[c].base)

TalkInv(c) == ~Rests(c) => TalkSees(c) /\ TalkStands(c) /\ TalkHolds(c) /\ TalkHosts(c)

AdoptInv ==
  /\ latch \/ adoption = "latch" => wiped \/ HostIn(receipts.through)
  /\ adoption # "ready" => \A c \in Talks : Rests(c)

CrossInv ==
  /\ ChannelShape /\ ReceiptShape /\ TalkShape
  /\ ReceiptsStand /\ rolled = {} /\ AdoptInv /\ \A c \in Talks : TalkInv(c)

\* Some entries, and not none, have a newest and an oldest.
LEMMA SomeNewest ==
  ASSUME NEW es \in SUBSET ChannelEntry, IsFiniteSet(es), es # {}
  PROVE  \E e \in es : \A f \in es : f.stamp <= e.stamp
<1> DEFINE Topped(T) == \E e \in T : \A f \in T : f.stamp <= e.stamp
           F == {T \in SUBSET es : T # {} /\ ~Topped(T)}
<1>1. SUFFICES ASSUME F # {} PROVE FALSE
  OBVIOUS
<1>2. \A T \in F : IsFiniteSet(T)
  BY FS_Subset
<1>3. PICK T \in F : \A U \in F : U \subseteq T => U = T
  <2> HIDE DEF F
  <2>1. QED BY <1>1, <1>2, SmallestSet
<1>4. PICK t \in T : TRUE
  OBVIOUS
<1>5. \A e \in T : e.stamp \in Nat
  BY DEF ChannelEntry
<1>6. T \ {t} # {}
  BY <1>4, <1>5
<1>7. Topped(T \ {t})
  <2>1. T \ {t} \in SUBSET es /\ T \ {t} \subseteq T /\ T \ {t} # T
    BY <1>4
  <2>2. T \ {t} \notin F
    <3> HIDE DEF F
    <3>1. QED BY <1>3, <2>1
  <2>3. QED BY <1>6, <2>1, <2>2
<1>8. PICK e \in T \ {t} : \A f \in T \ {t} : f.stamp <= e.stamp
  BY <1>7
<1>9. CASE t.stamp <= e.stamp
  <2>1. \A f \in T : f.stamp <= e.stamp
    BY <1>8, <1>9
  <2>2. QED BY <1>8, <2>1
<1>10. CASE ~(t.stamp <= e.stamp)
  <2>1. \A f \in T : f.stamp <= t.stamp
    BY <1>4, <1>5, <1>8, <1>10
  <2>2. QED BY <1>4, <2>1
<1>11. QED BY <1>9, <1>10

LEMMA SomeOldest ==
  ASSUME NEW es \in SUBSET ChannelEntry, es # {}
  PROVE  \E e \in es : \A f \in es : e.stamp <= f.stamp
<1>1. PICK S : S = {e.stamp : e \in es}
  OBVIOUS
<1>2. S # {} /\ S \subseteq Nat
  BY <1>1 DEF ChannelEntry
<1>3. IsWellFoundedOn(OpToRel(<, Nat), Nat)
  BY NatLessThanWellFounded
<1>4. PICK o \in S : \A x \in S : ~(<<x, o>> \in OpToRel(<, Nat))
  BY <1>2, <1>3, WFMin
<1>5. ASSUME NEW u \in S PROVE o <= u
  <2>1. ~(<<u, o>> \in OpToRel(<, Nat)) /\ u \in Nat /\ o \in Nat
    BY <1>2, <1>4, <1>5
  <2>2. ~(u < o)
    BY <2>1 DEF OpToRel
  <2>3. u \in Nat /\ o \in Nat
    BY <2>1
  <2>4. QED BY <2>2, <2>3
<1>6. PICK e \in es : e.stamp = o
  BY <1>1
<1>7. \A f \in es : e.stamp <= f.stamp
  BY <1>1, <1>5, <1>6
<1>8. QED BY <1>6, <1>7

LEMMA NewestIs ==
  ASSUME NEW es \in SUBSET ChannelEntry, IsFiniteSet(es), es # {}
  PROVE  (\E e \in es : e.stamp = Newest(es)) /\ \A e \in es : e.stamp <= Newest(es)
<1>1. PICK S : S = {e.stamp : e \in es}
  OBVIOUS
<1>2. S \subseteq Nat
  BY <1>1 DEF ChannelEntry
<1>3. PICK e \in es : \A f \in es : f.stamp <= e.stamp
  BY SomeNewest
<1>4. e.stamp \in S /\ \A u \in S : e.stamp >= u
  BY <1>1, <1>2, <1>3
<1>5. Newest(es) = CHOOSE t \in S : \A u \in S : t >= u
  BY <1>1 DEF Newest, Max
<1>6. Newest(es) \in S /\ \A u \in S : Newest(es) >= u
  BY <1>4, <1>5
<1>7. \A u \in S : u <= Newest(es)
  BY <1>2, <1>6
<1>8. QED BY <1>1, <1>6, <1>7

\* What is served is some of what is unread, and with an entry all that is older or as old.
LEMMA ServedIs ==
  ASSUME NEW un \in SUBSET ChannelEntry, IsFiniteSet(un), un # {}
  PROVE  /\ Served(un) \subseteq un /\ Served(un) # {} /\ IsFiniteSet(Served(un))
         /\ \A e \in Served(un), f \in un : f.stamp <= e.stamp => f \in Served(un)
<1> DEFINE Before(e) == {u \in un : u.stamp < e.stamp}
<1>1. \A e \in un : IsFiniteSet(Before(e)) /\ Cardinality(Before(e)) \in Nat
  BY FS_Subset, FS_CardinalityType
<1>2. Served(un) \subseteq un /\ \A e \in un : e \in Served(un) <=> Cardinality(Before(e)) < DeltaCap
  BY DEF Served
<1>3. PICK o \in un : \A f \in un : o.stamp <= f.stamp
  BY SomeOldest
<1>4. o \in Served(un)
  <2>1. \A u \in un : u.stamp \in Nat /\ o.stamp \in Nat
    BY DEF ChannelEntry
  <2>2. Before(o) = {}
    BY <1>3, <2>1
  <2>3. Cardinality(Before(o)) = 0
    BY <2>2, FS_EmptySet
  <2>4. QED BY <1>2, <2>3, CrossAssumption
<1>5. ASSUME NEW e \in Served(un), NEW f \in un, f.stamp <= e.stamp
      PROVE  f \in Served(un)
  <2>1. e \in un /\ e.stamp \in Nat /\ f.stamp \in Nat /\ \A u \in un : u.stamp \in Nat
    BY <1>2 DEF ChannelEntry
  <2>2. Before(f) \subseteq Before(e)
    BY <1>5, <2>1
  <2>3. Cardinality(Before(f)) <= Cardinality(Before(e))
    BY <1>1, <2>1, <2>2, FS_Subset
  <2>4. Cardinality(Before(e)) < DeltaCap /\ DeltaCap \in Nat
    BY <1>2, CrossAssumption
  <2>5. Cardinality(Before(f)) < DeltaCap
    <3>1. Cardinality(Before(f)) \in Nat /\ Cardinality(Before(e)) \in Nat
      BY <1>1, <2>1
    <3> HIDE DEF Before
    <3>2. QED BY <2>3, <2>4, <3>1
  <2>6. QED BY <1>2, <2>5
<1>6. IsFiniteSet(Served(un))
  BY <1>2, FS_Subset
<1>7. QED BY <1>2, <1>4, <1>5, <1>6

\* And with an entry that arrives: it comes too late for whom it passes by.
LEMMA SoundArrives ==
  ASSUME ChannelShape, NEW e \in ChannelEntry, EntryArrives(e), got' = got, meeting' = meeting,
         NEW h \in Handles, NEW t \in Nat, Sound(h, t),
         \/ t \in {receipts.through[h], advised[h], meeting.host[h]}
         \/ \E c \in Talks : talk[c].at = "write" /\ t = talk[c].base[h]
         \/ \E c \in Talks : Ask(c).handle = h /\ ~Rests(c)
  PROVE  entries' = entries \cup {e} /\ CoversKnown(h, t)' /\ Reached(t)'
<1>1. entries' = entries \cup {e} /\ missed' = missed \cup (PassedBy(e) \X {e.no})
  BY DEF EntryArrives
<1>2. ASSUME e.by # h, e.stamp <= t PROVE <<h, e.no>> \in missed'
  <2>1. e.stamp \in Nat \ {0}
    BY DEF ChannelEntry
  <2>2. t # 0
    BY <1>2, <2>1
  <2>3. \E f \in entries : e.stamp <= f.stamp
    <3>1. PICK f \in entries : t <= f.stamp
      BY <2>2 DEF Sound, Reached
    <3>2. f.stamp \in Nat
      BY DEF ChannelShape, ChannelEntry
    <3>3. QED BY <1>2, <2>1, <3>1, <3>2
  <2>4. h \in PassedBy(e)
    <3>1. CASE t \in {receipts.through[h], advised[h], meeting.host[h]}
      BY <1>2, <2>3, <3>1 DEF PassedBy
    <3>2. CASE \E c \in Talks : talk[c].at = "write" /\ t = talk[c].base[h]
      BY <1>2, <2>3, <3>2 DEF PassedBy
    <3>3. CASE \E c \in Talks : Ask(c).handle = h /\ ~Rests(c)
      BY <1>2, <3>3 DEF PassedBy, Rests
    <3>4. QED BY <3>1, <3>2, <3>3
  <2>5. QED BY <1>1, <2>4
<1>3. CoversKnown(h, t)'
  <2>1. ASSUME NEW f \in entries', f.by # h, f.stamp <= t PROVE ToldOf(h, f)'
    <3>1. CASE f \in entries
      BY <1>1, <2>1, <3>1 DEF Sound, CoversKnown, ToldOf
    <3>2. CASE f = e
      BY <1>2, <2>1, <3>2 DEF ToldOf
    <3>3. QED BY <1>1, <3>1, <3>2
  <2>2. QED BY <2>1 DEF CoversKnown
<1>4. Reached(t)'
  BY <1>1 DEF Sound, Reached
<1>5. QED BY <1>1, <1>3, <1>4

\* A call that no step of its own moved knows and has what it did.
LEMMA TalkOn ==
  ASSUME CrossInv, NEW d \in Talks, talk'[d] = talk[d], meeting' = meeting, entries' = entries,
         \A h \in Handles : got[h] \subseteq got'[h] /\ (advised[h] # 0 => advised'[h] # 0),
         missed \subseteq missed', receipts'.through = receipts.through,
         latch' = latch, wiped => wiped'
  PROVE  TalkInv(d)'
<1>1. SUFFICES ASSUME ~Rests(d)' PROVE (TalkSees(d) /\ TalkStands(d) /\ TalkHolds(d) /\ TalkHosts(d))'
  BY DEF TalkInv
<1>2. TalkSees(d) /\ TalkStands(d) /\ TalkHolds(d) /\ TalkHosts(d)
  BY <1>1 DEF CrossInv, TalkInv, Rests
<1>3. Ask(d)' = Ask(d) /\ Ask(d).handle \in Handles
  BY CrossAssumption DEF Ask, Talks, CrossInv, ChannelShape
<1>4. \A h \in Handles : \A t : Sound(h, t) => Sound(h, t)'
  BY DEF Sound, CoversKnown, Reached, ToldOf
<1>5. TalkSees(d)'
  BY <1>2, <1>3 DEF TalkSees
<1>6. TalkStands(d)'
  <2>1. talk[d].at = "append" => \A e \in entries : e.by # Ask(d).handle => ToldOf(Ask(d).handle, e)'
    BY <1>2, <1>3 DEF TalkStands, ToldOf
  <2>2. QED BY <1>2, <1>3, <1>4, <2>1 DEF TalkStands
<1>7. TalkHolds(d)'
  BY <1>2, <1>3 DEF TalkHolds
<1>8. TalkHosts(d)'
  BY <1>2 DEF TalkHosts, HostIn
<1>9. QED BY <1>5, <1>6, <1>7, <1>8

\* A step of one call, that leaves the receipts alone.
LEMMA TalkMoves ==
  ASSUME CrossInv, NEW c \in Talks, NEW w \in TalkRecs, Becomes(c, w),
         UNCHANGED <<channel, receipts, adoption, latch, losses>>, befalling' \subseteq befalling,
         missed \subseteq missed', got' \in [Handles -> SUBSET Nat], advised' \in [Handles -> Nat],
         \A h \in Handles : /\ got[h] \subseteq got'[h] /\ (advised[h] # 0 => advised'[h] # 0)
                            /\ Sound(h, advised[h])',
         adoption = "ready" \/ w.at \in {"asked", "over"}, TalkInv(c)'
  PROVE  CrossInv'
<1>1. ChannelShape /\ ReceiptShape /\ TalkShape /\ ReceiptsStand /\ AdoptInv
  BY DEF CrossInv
<1>2. UNCHANGED <<meeting, entries, uncached, minute, rolled, wiped>> /\ Talks' = Talks
  BY DEF channel, losses, Talks
<1>3. talk' = [talk EXCEPT ![c] = w] /\ talk' \in [Talks -> TalkRecs]
  BY <1>1 DEF Becomes, TalkShape
<1>4. ChannelShape'
  BY <1>1, <1>2 DEF ChannelShape
<1>5. ReceiptShape' /\ TalkShape'
  BY <1>1, <1>2, <1>3 DEF ReceiptShape, TalkShape
<1>6. ReceiptsStand'
  <2>1. \A h \in Handles : \A t : Sound(h, t) => Sound(h, t)'
    BY <1>2 DEF Sound, CoversKnown, Reached, ToldOf
  <2>2. QED BY <1>1, <1>2, <2>1 DEF ReceiptsStand
<1>7. AdoptInv'
  <2>1. ASSUME adoption' # "ready", NEW d \in Talks PROVE Rests(d)'
    BY <1>1, <1>3, <2>1 DEF AdoptInv, Rests, TalkShape
  <2>2. QED BY <1>1, <1>2, <2>1 DEF AdoptInv, HostIn
<1>8. ASSUME NEW d \in Talks, d # c PROVE TalkInv(d)'
  <2>1. talk'[d] = talk[d]
    BY <1>1, <1>3, <1>8 DEF TalkShape
  <2>2. QED BY <1>2, <1>8, <2>1, TalkOn
<1>9. rolled' = {}
  BY <1>2 DEF CrossInv
<1>10. QED BY <1>2, <1>4, <1>5, <1>6, <1>7, <1>8, <1>9 DEF CrossInv

\* What is read of the receipts stands.
LEMMA LoadsStand ==
  ASSUME CrossInv, NEW fails \in BOOLEAN
  PROVE  /\ LoadReceipts(fails) \in [Handles -> Nat] /\ Unheld \in [Handles -> Nat]
         /\ LoadReceipts(fails) \in {Unheld, receipts.through}
         /\ ~Forgets(fails) => LoadReceipts(fails) = receipts.through
         /\ \A h \in Handles : Sound(h, LoadReceipts(fails)[h]) /\ Sound(h, 0)
<1>1. Unheld \in [Handles -> Nat] /\ \A h \in Handles : Unheld[h] = 0
  BY DEF Unheld
<1>2. LoadReceipts(fails) \in {Unheld, receipts.through} /\ receipts.through \in [Handles -> Nat]
  BY DEF LoadReceipts, CrossInv, ReceiptShape
<1>3. ~Forgets(fails) => LoadReceipts(fails) = receipts.through
  BY DEF LoadReceipts, Forgets
<1>4. ASSUME NEW h \in Handles PROVE Sound(h, 0)
  <2>1. \A e \in entries : e.stamp \in Nat \ {0}
    BY DEF CrossInv, ChannelShape, ChannelEntry
  <2>2. QED BY <2>1 DEF Sound, CoversKnown, Reached
<1>5. ASSUME NEW h \in Handles PROVE Sound(h, LoadReceipts(fails)[h])
  <2>1. Sound(h, receipts.through[h])
    BY DEF CrossInv, ReceiptsStand
  <2>2. QED BY <1>1, <1>2, <1>4, <2>1
<1>6. QED BY <1>1, <1>2, <1>3, <1>4, <1>5

\* The calls, as they are asked.
LEMMA AskIs ==
  ASSUME CrossInv, NEW c \in Talks
  PROVE  /\ Ask(c) \in [tool : {"delta", "attest", "post"}, handle : Handles, stamp : Nat]
         /\ talk[c] \in TalkRecs
BY CrossAssumption DEF Ask, Talks, CrossInv, ChannelShape, TalkShape

LEMMA ResolveKeeps == ASSUME CrossInv, NEW c \in Talks, Resolve(c) PROVE CrossInv'
<1>1. PICK gone \in {{}, {"log"}} :
        /\ Befalls(<<"unreadable">>, gone # {})
        /\ Becomes(c, [talk[c] EXCEPT !.at = "resolved", !.seen = Visible(gone), !.lists = meeting.files \cup uncached])
        /\ missed' = missed \cup ({Ask(c).handle} \X {e.no : e \in entries \ Visible(gone)})
  BY DEF Resolve
<1>2. PICK m : m = talk[c]
  OBVIOUS
<1>3. PICK w : w = [m EXCEPT !.at = "resolved", !.seen = Visible(gone), !.lists = meeting.files \cup uncached]
  OBVIOUS
<1>4. Visible(gone) \subseteq entries /\ entries \subseteq ChannelEntry
  BY DEF Visible, CrossInv, ChannelShape
<1>5. meeting.files \cup uncached \subseteq ChannelFiles
  <2>1. uncached \subseteq NoteFiles /\ meeting \in Meetings
    BY DEF CrossInv, ChannelShape
  <2>2. QED BY <2>1, CrossAssumption
<1>6. m \in TalkRecs
  BY <1>2, AskIs
<1>7. w \in TalkRecs /\ w.at = "resolved" /\ w.seen = Visible(gone)
  BY <1>3, <1>4, <1>5, <1>6 DEF TalkRecs
<1>8. Becomes(c, w)
  BY <1>1, <1>2, <1>3
<1>9. UNCHANGED <<meeting, entries, uncached, minute, receipts, adoption, latch, advised, got, rolled, wiped>>
  BY DEF Resolve, channel, hostSide, losses
<1>10. befalling' \subseteq befalling
  BY <1>1 DEF Befalls
<1>11. talk'[c] = w /\ Ask(c)' = Ask(c)
  BY <1>8, <1>9 DEF Becomes, CrossInv, TalkShape, Ask, Talks
<1>12. TalkInv(c)'
  <2>1. TalkSees(c)'
    <3>1. ASSUME NEW e \in entries, e \notin Visible(gone) PROVE <<Ask(c).handle, e.no>> \in missed'
      BY <1>1, <3>1
    <3>2. Ask(c).tool = "attest" /\ Ask(c).stamp = 0 => advised[Ask(c).handle] # 0
      BY DEF Resolve
    <3>3. QED BY <1>4, <1>7, <1>9, <1>11, <3>1, <3>2 DEF TalkSees
  <2>2. (TalkStands(c) /\ TalkHolds(c) /\ TalkHosts(c))'
    BY <1>7, <1>11 DEF TalkStands, TalkHolds, TalkHosts
  <2>3. QED BY <2>1, <2>2 DEF TalkInv
<1>13. \A h \in Handles : Sound(h, advised[h])'
  <2>1. missed \subseteq missed'
    BY <1>1
  <2>2. QED BY <1>9, <2>1 DEF CrossInv, ReceiptsStand, Sound, CoversKnown, Reached, ToldOf
<1>14. adoption = "ready"
  BY DEF Resolve, MyTurn
<1>15. UNCHANGED <<channel, receipts, adoption, latch, losses>> /\ missed \subseteq missed'
  BY <1>1, <1>9 DEF channel, losses
<1>16. got' \in [Handles -> SUBSET Nat] /\ advised' \in [Handles -> Nat]
  BY <1>9 DEF CrossInv, ReceiptShape
<1>17. QED BY <1>7, <1>8, <1>9, <1>10, <1>12, <1>13, <1>14, <1>15, <1>16, TalkMoves

\* What a call saw of its channel.
LEMMA SeenIs ==
  ASSUME CrossInv, NEW c \in Talks, ~Rests(c)
  PROVE  /\ talk[c].seen \subseteq entries /\ talk[c].seen \in SUBSET ChannelEntry /\ IsFiniteSet(talk[c].seen)
         /\ \A e \in entries : e \in talk[c].seen \/ e.by = Ask(c).handle \/ <<Ask(c).handle, e.no>> \in missed
         /\ adoption = "ready"
<1>1. TalkSees(c)
  BY DEF CrossInv, TalkInv
<1>2. entries \subseteq ChannelEntry /\ IsFiniteSet(entries)
  BY DEF CrossInv, ChannelShape
<1>3. talk[c].seen \subseteq entries
  BY <1>1 DEF TalkSees
<1>4. IsFiniteSet(talk[c].seen)
  BY <1>2, <1>3, FS_Subset
<1>5. adoption = "ready"
  BY DEF CrossInv, AdoptInv
<1>6. QED BY <1>1, <1>2, <1>3, <1>4, <1>5 DEF TalkSees

\* A call that is over is held to nothing.
LEMMA OverHolds == ASSUME NEW c, talk'[c].at = "over" PROVE TalkInv(c)'
BY DEF TalkInv, Rests

LEMMA EndsAs ==
  ASSUME CrossInv, NEW c \in Talks, NEW a \in {"none", "ok", "lost", "stamp_ahead", "stale_read", "no single log"},
         CallEnds(c, a)
  PROVE  \E w \in TalkRecs : Becomes(c, w) /\ w.at = "over" /\ talk'[c] = w
<1>1. PICK m : m = talk[c]
  OBVIOUS
<1>2. PICK w : w = [m EXCEPT !.at = "over", !.answer = a]
  OBVIOUS
<1>3. m \in TalkRecs
  BY <1>1, AskIs
<1>4. w \in TalkRecs /\ w.at = "over"
  BY <1>2, <1>3 DEF TalkRecs
<1>5. Becomes(c, w)
  BY <1>1, <1>2 DEF CallEnds
<1>6. talk'[c] = w
  BY <1>5 DEF Becomes, CrossInv, TalkShape
<1>7. QED BY <1>4, <1>5, <1>6

LEMMA DeltaKeeps == ASSUME CrossInv, NEW c \in Talks, Delta(c) PROVE CrossInv'
<1>1. PICK h \in Handles : h = Ask(c).handle
  BY AskIs
<1>2. PICK fails \in BOOLEAN :
        LET unread == Unread(talk[c].seen, LoadReceipts(fails)[h], h)
            served == Served(unread)
        IN /\ Befalls(<<"load fails">>, fails)
           /\ got' = [got EXCEPT ![h] = @ \cup {e.no : e \in served}]
           /\ advised' = [advised EXCEPT ![h] = IF served # unread THEN Newest(served)
                                          ELSE IF talk[c].seen = {} THEN @ ELSE Newest(talk[c].seen)]
  BY <1>1 DEF Delta
<1>3. PICK seen : seen = talk[c].seen
  OBVIOUS
<1>4. PICK l : l = LoadReceipts(fails)[h]
  OBVIOUS
<1>5. PICK unread : unread = Unread(seen, l, h)
  OBVIOUS
<1>6. PICK served : served = Served(unread)
  OBVIOUS
<1>7. PICK n : n = IF served # unread THEN Newest(served) ELSE IF seen = {} THEN advised[h] ELSE Newest(seen)
  OBVIOUS
<1>8. /\ Befalls(<<"load fails">>, fails)
      /\ got' = [got EXCEPT ![h] = @ \cup {e.no : e \in served}]
      /\ advised' = [advised EXCEPT ![h] = n]
  BY <1>2, <1>3, <1>4, <1>5, <1>6, <1>7
<1>9. UNCHANGED <<meeting, entries, uncached, minute, receipts, adoption, latch, missed, rolled, wiped>>
  BY DEF Delta, channel, hostSide, losses
<1>10. ~Rests(c) /\ talk[c].at = "resolved"
  BY DEF Delta, Rests
<1>11. /\ seen \subseteq entries /\ seen \in SUBSET ChannelEntry /\ IsFiniteSet(seen) /\ adoption = "ready"
       /\ \A e \in entries : e \in seen \/ e.by = h \/ <<h, e.no>> \in missed
  BY <1>1, <1>3, <1>10, SeenIs
<1>12. Sound(h, l) /\ l \in Nat
  BY <1>4, LoadsStand
<1>13. unread \subseteq seen /\ IsFiniteSet(unread) /\ \A e \in seen : e \in unread <=> e.by # h /\ e.stamp > l
  BY <1>5, <1>11, FS_Subset DEF Unread
<1>14. /\ served \subseteq unread /\ IsFiniteSet(served) /\ (unread # {} => served # {})
       /\ \A e \in served, f \in unread : f.stamp <= e.stamp => f \in served
  <2>1. CASE unread # {}
    BY <1>6, <1>11, <1>13, <2>1, ServedIs
  <2>2. CASE unread = {}
    BY <1>6, <1>13, <2>2 DEF Served
  <2>3. QED BY <2>1, <2>2
<1>15. got \in [Handles -> SUBSET Nat] /\ advised \in [Handles -> Nat]
  BY DEF CrossInv, ReceiptShape
<1>16. /\ got'[h] = got[h] \cup {e.no : e \in served} /\ advised'[h] = n
       /\ \A i \in Handles \ {h} : got'[i] = got[i] /\ advised'[i] = advised[i]
  BY <1>8, <1>15
<1>17. \A i \in Handles : got[i] \subseteq got'[i]
  BY <1>16
<1>18. got' \in [Handles -> SUBSET Nat]
  <2>1. \A e \in served : e.no \in Nat
    BY <1>11, <1>13, <1>14 DEF ChannelEntry
  <2>2. QED BY <1>8, <1>15, <2>1
<1>19. \A e \in served : ToldOf(h, e)'
  BY <1>16 DEF ToldOf
<1>20. \A i \in Handles, t \in Nat : Sound(i, t) => Sound(i, t)'
  BY <1>9, <1>17 DEF Sound, CoversKnown, Reached, ToldOf
<1>21. \A e \in entries : e.stamp \in Nat \ {0}
  BY DEF CrossInv, ChannelShape, ChannelEntry
<1>22. \A e \in entries : e.by # h /\ e.stamp <= l => ToldOf(h, e)'
  BY <1>9, <1>12, <1>20 DEF Sound, CoversKnown
<1>23. Sound(h, n)' /\ n \in Nat /\ (advised[h] # 0 => n # 0)
  <2>1. CASE served # unread
    <3>1. served # {} /\ n = Newest(served) /\ served \in SUBSET ChannelEntry
      BY <1>7, <1>11, <1>13, <1>14, <2>1
    <3>2. PICK o \in served : o.stamp = n
      BY <1>14, <3>1, NewestIs
    <3>3. o \in entries /\ n \in Nat \ {0}
      BY <1>11, <1>13, <1>14, <1>21, <3>2
    <3>4. ASSUME NEW e \in entries, e.by # h, e.stamp <= n PROVE ToldOf(h, e)'
      <4>1. CASE e \notin seen
        BY <1>9, <1>11, <3>4, <4>1 DEF ToldOf
      <4>2. CASE e \in seen /\ e.stamp <= l
        BY <1>22, <3>4, <4>2
      <4>3. CASE e \in seen /\ e.stamp > l
        BY <1>13, <1>14, <1>19, <3>2, <3>4, <4>3
      <4>4. QED BY <1>12, <1>21, <4>1, <4>2, <4>3
    <3>5. CoversKnown(h, n)'
      BY <1>9, <3>4 DEF CoversKnown
    <3>6. Reached(n)'
      BY <1>9, <3>2, <3>3 DEF Reached
    <3>7. QED BY <3>3, <3>5, <3>6 DEF Sound
  <2>2. CASE served = unread /\ seen # {}
    <3>1. n = Newest(seen)
      BY <1>7, <2>2
    <3>2. PICK o \in seen : o.stamp = n
      BY <1>11, <2>2, <3>1, NewestIs
    <3>3. o \in entries /\ n \in Nat \ {0}
      BY <1>11, <1>21, <3>2
    <3>4. ASSUME NEW e \in entries, e.by # h PROVE ToldOf(h, e)'
      <4>1. CASE e \notin seen
        BY <1>9, <1>11, <3>4, <4>1 DEF ToldOf
      <4>2. CASE e \in seen /\ e.stamp <= l
        BY <1>22, <3>4, <4>2
      <4>3. CASE e \in seen /\ e.stamp > l
        BY <1>13, <1>19, <2>2, <3>4, <4>3
      <4>4. QED BY <1>12, <1>21, <4>1, <4>2, <4>3
    <3>5. CoversKnown(h, n)'
      BY <1>9, <3>4 DEF CoversKnown
    <3>6. Reached(n)'
      BY <1>9, <3>2, <3>3 DEF Reached
    <3>7. QED BY <3>3, <3>5, <3>6 DEF Sound
  <2>3. CASE served = unread /\ seen = {}
    <3>1. n = advised[h] /\ Sound(h, n)
      BY <1>7, <2>3 DEF CrossInv, ReceiptsStand
    <3>2. QED BY <1>15, <1>20, <3>1
  <2>4. QED BY <2>1, <2>2, <2>3
<1>24. advised' \in [Handles -> Nat]
  BY <1>8, <1>15, <1>23
<1>25. \A i \in Handles : Sound(i, advised[i])' /\ (advised[i] # 0 => advised'[i] # 0)
  <2>1. ASSUME NEW i \in Handles, i # h PROVE Sound(i, advised[i])'
    <3>1. Sound(i, advised[i]) /\ advised[i] \in Nat
      BY <1>15 DEF CrossInv, ReceiptsStand
    <3>2. Sound(i, advised'[i])
      BY <1>16, <2>1, <3>1
    <3>3. QED BY <1>9, <1>17, <3>2 DEF Sound, CoversKnown, Reached, ToldOf
  <2>2. Sound(h, advised[h])'
    BY <1>16, <1>23 DEF Sound, CoversKnown, Reached, ToldOf
  <2>3. QED BY <1>16, <1>23, <2>1, <2>2
<1>26. PICK w \in TalkRecs : Becomes(c, w) /\ w.at = "over" /\ talk'[c] = w
  <2>1. CallEnds(c, "ok")
    BY DEF Delta
  <2>2. QED BY <2>1, EndsAs
<1>27. TalkInv(c)' /\ befalling' \subseteq befalling
  BY <1>8, <1>26, OverHolds DEF Befalls
<1>28. UNCHANGED <<channel, receipts, adoption, latch, losses>> /\ missed \subseteq missed'
  BY <1>9 DEF channel, losses
<1>29. QED BY <1>11, <1>17, <1>18, <1>24, <1>25, <1>26, <1>27, <1>28, TalkMoves

LEMMA AttestKeeps == ASSUME CrossInv, NEW c \in Talks, Attest(c) PROVE CrossInv'
<1>1. PICK h \in Handles : h = Ask(c).handle
  BY AskIs
<1>2. PICK t : t = Through(c)
  OBVIOUS
<1>3. PICK seen : seen = talk[c].seen
  OBVIOUS
<1>4. UNCHANGED <<meeting, entries, uncached, minute, receipts, adoption, latch, advised, befalling, missed,
                  rolled, wiped>>
  BY DEF Attest, channel, hostSide, losses
<1>5. ~Rests(c) /\ talk[c].at = "resolved" /\ Ask(c).tool = "attest"
  BY DEF Attest, Rests
<1>6. /\ seen \subseteq entries /\ seen \in SUBSET ChannelEntry /\ IsFiniteSet(seen) /\ adoption = "ready"
      /\ \A e \in entries : e \in seen \/ e.by = h \/ <<h, e.no>> \in missed
  BY <1>1, <1>3, <1>5, SeenIs
<1>7. got \in [Handles -> SUBSET Nat] /\ advised \in [Handles -> Nat]
  BY DEF CrossInv, ReceiptShape
<1>8. UNCHANGED <<channel, receipts, adoption, latch, losses>> /\ missed \subseteq missed'
      /\ befalling' \subseteq befalling /\ advised' \in [Handles -> Nat]
  BY <1>4, <1>7 DEF channel, losses
<1>9. t \in Nat \ {0} /\ (Ask(c).stamp = 0 => t = advised[h])
  <2>1. Ask(c).stamp \in Nat
    BY AskIs
  <2>2. CASE Ask(c).stamp = 0
    <3>1. t = advised[h]
      BY <1>1, <1>2, <2>2 DEF Through
    <3>2. advised[h] # 0
      BY <1>1, <1>5, <2>2 DEF CrossInv, TalkInv, TalkSees
    <3>3. QED BY <1>7, <3>1, <3>2
  <2>3. CASE Ask(c).stamp # 0
    BY <1>2, <2>1, <2>3 DEF Through
  <2>4. QED BY <2>2, <2>3
<1>10. CASE Ahead(c, t)
  <2>1. CallEnds(c, "stamp_ahead") /\ got' = got
    BY <1>2, <1>10 DEF Attest
  <2>2. PICK w \in TalkRecs : Becomes(c, w) /\ w.at = "over" /\ talk'[c] = w
    BY <2>1, EndsAs
  <2>3. TalkInv(c)'
    BY <2>2, OverHolds
  <2>4. \A i \in Handles : got[i] \subseteq got'[i] /\ (advised[i] # 0 => advised'[i] # 0) /\ Sound(i, advised[i])'
    BY <1>4, <2>1 DEF CrossInv, ReceiptsStand, Sound, CoversKnown, Reached, ToldOf
  <2>5. QED BY <1>6, <1>7, <1>8, <2>1, <2>2, <2>3, <2>4, TalkMoves
<1>11. CASE ~Ahead(c, t)
  <2>1. PICK claimed : claimed = IF Ask(c).stamp = 0 THEN {} ELSE {e \in seen : e.stamp <= t}
    OBVIOUS
  <2>2. /\ Becomes(c, [talk[c] EXCEPT !.at = "load", !.to = t])
        /\ got' = [got EXCEPT ![h] = @ \cup {e.no : e \in claimed}]
    BY <1>1, <1>2, <1>3, <1>11, <2>1 DEF Attest
  <2>3. PICK m : m = talk[c]
    OBVIOUS
  <2>4. PICK w : w = [m EXCEPT !.at = "load", !.to = t]
    OBVIOUS
  <2>5. m \in TalkRecs
    BY <2>3, AskIs
  <2>6. w \in TalkRecs /\ w.at = "load" /\ w.to = t /\ w.seen = seen
    BY <1>3, <1>9, <2>3, <2>4, <2>5 DEF TalkRecs
  <2>7. Becomes(c, w)
    BY <2>2, <2>3, <2>4
  <2>8. talk'[c] = w /\ Ask(c)' = Ask(c)
    BY <1>4, <2>7 DEF Becomes, CrossInv, TalkShape, Ask, Talks
  <2>9. claimed \subseteq seen
    BY <2>1
  <2>10. got' \in [Handles -> SUBSET Nat]
    <3>1. \A e \in claimed : e.no \in Nat
      BY <1>6, <2>9 DEF ChannelEntry
    <3>2. QED BY <1>7, <2>2, <3>1
  <2>11. got'[h] = got[h] \cup {e.no : e \in claimed} /\ \A i \in Handles \ {h} : got'[i] = got[i]
    BY <1>7, <2>2
  <2>12. \A i \in Handles : got[i] \subseteq got'[i]
    BY <2>11
  <2>13. \A i \in Handles : \A s : Sound(i, s) => Sound(i, s)'
    BY <1>4, <2>12 DEF Sound, CoversKnown, Reached, ToldOf
  <2>14. \A i \in Handles : (advised[i] # 0 => advised'[i] # 0) /\ Sound(i, advised[i])'
    <3>1. \A i \in Handles : Sound(i, advised[i])
      BY DEF CrossInv, ReceiptsStand
    <3>2. QED BY <1>4, <2>13, <3>1
  <2>15. Sound(h, t)'
    <3>1. CASE Ask(c).stamp = 0
      <4>1. Sound(h, t)
        BY <1>9, <3>1 DEF CrossInv, ReceiptsStand
      <4>2. QED BY <2>13, <4>1
    <3>2. CASE Ask(c).stamp # 0
      <4>1. \A e \in seen : e.stamp <= t => e.no \in got'[h]
        BY <2>1, <2>11, <3>2
      <4>2. CoversKnown(h, t)'
        BY <1>4, <1>6, <4>1 DEF CoversKnown, ToldOf
      <4>3. seen # {} /\ ~(t > Newest(seen))
        BY <1>3, <1>11 DEF Ahead
      <4>4. PICK o \in seen : o.stamp = Newest(seen)
        BY <1>6, <4>3, NewestIs
      <4>5. o \in entries /\ o.stamp \in Nat
        BY <1>6, <4>4 DEF ChannelEntry
      <4>6. t <= o.stamp
        BY <1>9, <4>3, <4>4, <4>5
      <4>7. Reached(t)'
        BY <1>4, <4>5, <4>6 DEF Reached
      <4>8. QED BY <4>2, <4>7 DEF Sound
    <3>3. QED BY <3>1, <3>2
  <2>16. TalkInv(c)'
    <3>1. TalkSees(c)'
      <4>1. TalkSees(c)
        BY <1>5 DEF CrossInv, TalkInv
      <4>2. QED BY <1>3, <1>4, <2>6, <2>8, <4>1 DEF TalkSees
    <3>2. (TalkStands(c))'
      BY <1>1, <1>9, <2>6, <2>8, <2>15 DEF TalkStands
    <3>3. (TalkHolds(c) /\ TalkHosts(c))'
      BY <1>5, <2>6, <2>8 DEF TalkHolds, TalkHosts
    <3>4. QED BY <3>1, <3>2, <3>3 DEF TalkInv
  <2>17. QED BY <1>6, <1>8, <2>6, <2>7, <2>10, <2>12, <2>14, <2>16, TalkMoves
<1>12. QED BY <1>10, <1>11

LEMMA GateKeeps == ASSUME CrossInv, NEW c \in Talks, Gate(c) PROVE CrossInv'
<1>1. PICK h \in Handles : h = Ask(c).handle
  BY AskIs
<1>2. PICK fails \in BOOLEAN :
       LET through == LoadReceipts(fails)[h] IN
       /\ Befalls(<<"load fails">>, fails)
       /\ IF Stale(c, through) THEN CallEnds(c, "stale_read")
          ELSE IF Cardinality(Logs(c)) # 1 THEN CallEnds(c, "no single log")
          ELSE Becomes(c, [talk[c] EXCEPT !.at = "append", !.through = through, !.blind = Forgets(fails),
                                          !.target = CHOOSE f \in Logs(c) : TRUE])
  BY <1>1 DEF Gate
<1>3. PICK t : t = LoadReceipts(fails)[h]
  OBVIOUS
<1>4. PICK seen : seen = talk[c].seen
  OBVIOUS
<1>5. UNCHANGED <<meeting, entries, uncached, minute, receipts, adoption, latch, advised, got, missed,
                  rolled, wiped>>
  BY DEF Gate, channel, hostSide, losses
<1>6. ~Rests(c) /\ talk[c].at = "resolved" /\ Ask(c).tool = "post"
  BY DEF Gate, Rests
<1>7. /\ seen \subseteq entries /\ adoption = "ready"
      /\ \A e \in entries : e \in seen \/ e.by = h \/ <<h, e.no>> \in missed
  BY <1>1, <1>4, <1>6, SeenIs
<1>8. got' \in [Handles -> SUBSET Nat] /\ advised' \in [Handles -> Nat]
  BY <1>5 DEF CrossInv, ReceiptShape
<1>9. UNCHANGED <<channel, receipts, adoption, latch, losses>> /\ missed \subseteq missed'
      /\ befalling' \subseteq befalling
  BY <1>2, <1>5 DEF channel, losses, Befalls
<1>10. \A i \in Handles : \A s : Sound(i, s) => Sound(i, s)'
  BY <1>5 DEF Sound, CoversKnown, Reached, ToldOf
<1>11. \A i \in Handles : got[i] \subseteq got'[i] /\ (advised[i] # 0 => advised'[i] # 0) /\ Sound(i, advised[i])'
  <2>1. \A i \in Handles : Sound(i, advised[i])
    BY DEF CrossInv, ReceiptsStand
  <2>2. QED BY <1>5, <1>10, <2>1
<1>12. Sound(h, t) /\ t \in Nat /\ (~Forgets(fails) => t = receipts.through[h])
  BY <1>3, LoadsStand
<1>13. ASSUME NEW a \in {"stale_read", "no single log"}, CallEnds(c, a) PROVE CrossInv'
  <2>1. PICK w \in TalkRecs : Becomes(c, w) /\ w.at = "over" /\ talk'[c] = w
    BY <1>13, EndsAs
  <2>2. TalkInv(c)'
    BY <2>1, OverHolds
  <2>3. QED BY <1>7, <1>8, <1>9, <1>11, <2>1, <2>2, TalkMoves
<1>14. ASSUME ~Stale(c, t), Cardinality(Logs(c)) = 1 PROVE CrossInv'
  <2>1. PICK f : f = CHOOSE x \in Logs(c) : TRUE
    OBVIOUS
  <2>2. Becomes(c, [talk[c] EXCEPT !.at = "append", !.through = t, !.blind = Forgets(fails), !.target = f])
    BY <1>2, <1>3, <1>14, <2>1
  <2>3. PICK m : m = talk[c]
    OBVIOUS
  <2>4. PICK b : b = Forgets(fails)
    OBVIOUS
  <2>5. PICK w : w = [m EXCEPT !.at = "append", !.through = t, !.blind = b, !.target = f]
    OBVIOUS
  <2>6. m \in TalkRecs
    BY <2>3, AskIs
  <2>7. f \in ChannelFiles
    <3>1. Logs(c) # {}
      BY <1>14, FS_EmptySet
    <3>2. f \in Logs(c)
      BY <2>1, <3>1
    <3>3. Logs(c) \subseteq talk[c].lists
      BY DEF Logs
    <3>4. talk[c].lists \subseteq ChannelFiles
      BY <2>3, <2>6 DEF TalkRecs
    <3>5. QED BY <3>2, <3>3, <3>4
  <2>8. b \in BOOLEAN
    BY <2>4 DEF Forgets
  <2>9. w \in TalkRecs /\ w.at = "append" /\ w.through = t /\ w.seen = seen /\ w.blind = b /\ w.target = f
    <3>1. w.at = "append" /\ w.through = t /\ w.seen = m.seen /\ w.blind = b /\ w.target = f
      BY <2>5, <2>6 DEF TalkRecs
    <3>2. m.seen = seen /\ t \in Nat
      BY <1>4, <1>12, <2>3
    <3>3. w \in TalkRecs
      BY <2>5, <2>6, <2>7, <2>8, <3>2 DEF TalkRecs
    <3>4. QED BY <3>1, <3>2, <3>3
  <2>10. Becomes(c, w)
    BY <2>2, <2>3, <2>4, <2>5
  <2>11. talk'[c] = w /\ Ask(c)' = Ask(c)
    BY <1>5, <2>10 DEF Becomes, CrossInv, TalkShape, Ask, Talks
  <2>12. ASSUME NEW e \in entries, e.by # h PROVE ToldOf(h, e)'
    <3>1. CASE e \notin seen
      BY <1>5, <1>7, <2>12, <3>1 DEF ToldOf
    <3>2. CASE e \in seen
      <4>1. e.stamp \in Nat
        BY DEF CrossInv, ChannelShape, ChannelEntry
      <4>2. e.stamp <= t
        BY <1>1, <1>4, <1>12, <1>14, <2>12, <3>2, <4>1 DEF Stale, Unread
      <4>3. ToldOf(h, e)
        BY <1>12, <2>12, <4>2 DEF Sound, CoversKnown
      <4>4. QED BY <1>5, <4>3 DEF ToldOf
    <3>3. QED BY <3>1, <3>2
  <2>13. TalkSees(c)'
    <3>1. TalkSees(c)
      BY <1>6 DEF CrossInv, TalkInv
    <3>2. QED BY <1>4, <1>5, <2>9, <2>11, <3>1 DEF TalkSees
  <2>14. TalkStands(c)'
    <3>1. Sound(h, t)'
      BY <1>10, <1>12
    <3>2. QED BY <1>1, <1>5, <1>6, <2>7, <2>9, <2>11, <2>12, <3>1 DEF TalkStands
  <2>15. (TalkHolds(c) /\ TalkHosts(c))'
    BY <1>1, <1>5, <1>12, <2>4, <2>9, <2>11 DEF TalkHolds, TalkHosts
  <2>16. TalkInv(c)'
    BY <2>13, <2>14, <2>15 DEF TalkInv
  <2>17. QED BY <1>7, <1>8, <1>9, <1>11, <2>9, <2>10, <2>16, TalkMoves
<1>15. QED BY <1>2, <1>3, <1>13, <1>14

\* What an entry that arrives leaves as it was: it comes too late for whom it passes by.
LEMMA ArrivalKeeps ==
  ASSUME CrossInv, NEW e \in ChannelEntry, e.no = NextNo, EntryArrives(e), got' = got,
         UNCHANGED <<meeting, minute, receipts, advised, adoption, latch, rolled, wiped>>
  PROVE  /\ entries' = entries \cup {e} /\ missed \subseteq missed'
         /\ entries' \subseteq ChannelEntry /\ IsFiniteSet(entries')
         /\ \A f \in entries' : f.no <= Cardinality(entries')
         /\ \A f, g \in entries' : f.no = g.no => f = g
         /\ ReceiptShape' /\ ReceiptsStand' /\ rolled' = {}
         /\ \A c \in Talks : \A t \in Nat : ~Rests(c) /\ Sound(Ask(c).handle, t) => Sound(Ask(c).handle, t)'
         /\ \A c \in Talks : talk'[c] = talk[c] => TalkInv(c)'
<1>1. entries' = entries \cup {e} /\ missed' = missed \cup (PassedBy(e) \X {e.no})
  BY DEF EntryArrives
<1>2. /\ entries \subseteq ChannelEntry /\ IsFiniteSet(entries)
      /\ \A f \in entries : f.no <= Cardinality(entries)
      /\ \A f, g \in entries : f.no = g.no => f = g
  BY DEF CrossInv, ChannelShape
<1>3. PICK n \in Nat : n = Cardinality(entries)
  BY <1>2, FS_CardinalityType
<1>4. e \notin entries /\ e.no = n + 1 /\ \A f \in entries : f.no \in Nat /\ f.no <= n
  <2>1. e.no = n + 1
    BY <1>3 DEF NextNo
  <2>2. \A f \in entries : f.no \in Nat /\ f.no <= n
    BY <1>2, <1>3 DEF ChannelEntry
  <2>3. QED BY <2>1, <2>2
<1>5. IsFiniteSet(entries') /\ Cardinality(entries') = n + 1
  BY <1>1, <1>2, <1>3, <1>4, FS_AddElement
<1>6. (\A f \in entries' : f.no <= Cardinality(entries')) /\ \A f, g \in entries' : f.no = g.no => f = g
  <2>1. \A f \in entries' : f.no <= n + 1
    BY <1>1, <1>4
  <2>2. \A f, g \in entries' : f.no = g.no => f = g
    BY <1>1, <1>2, <1>4
  <2>3. QED BY <1>5, <2>1, <2>2
<1>7. ReceiptShape' /\ rolled' = {}
  BY DEF CrossInv, ReceiptShape
<1>8. ChannelShape /\ meeting' = meeting /\ Talks' = Talks
  BY DEF CrossInv, Talks
<1>9. ASSUME NEW h \in Handles, NEW t \in Nat, Sound(h, t),
             \/ t \in {receipts.through[h], advised[h], meeting.host[h]}
             \/ \E c \in Talks : talk[c].at = "write" /\ t = talk[c].base[h]
             \/ \E c \in Talks : Ask(c).handle = h /\ ~Rests(c)
      PROVE  Sound(h, t)'
  <2>1. CoversKnown(h, t)' /\ Reached(t)'
    BY <1>8, <1>9, SoundArrives
  <2>2. QED BY <2>1 DEF Sound
<1>10. ReceiptsStand'
  <2>1. ASSUME NEW h \in Handles
        PROVE  receipts.through[h] \in Nat /\ advised[h] \in Nat /\ meeting.host[h] \in Nat
    <3>1. receipts.through[h] \in Nat /\ advised[h] \in Nat
      BY DEF CrossInv, ReceiptShape
    <3>2. meeting.host \in [Handles -> Nat]
      BY CrossAssumption DEF CrossInv, ChannelShape
    <3>3. QED BY <3>1, <3>2
  <2>2. ASSUME NEW h \in Handles
        PROVE  Sound(h, receipts.through[h])' /\ Sound(h, advised[h])' /\ Sound(h, meeting.host[h])'
    <3>1. Sound(h, receipts.through[h]) /\ Sound(h, advised[h]) /\ Sound(h, meeting.host[h])
      BY DEF CrossInv, ReceiptsStand
    <3>2. PICK x, y, z : x = receipts.through[h] /\ y = advised[h] /\ z = meeting.host[h]
      OBVIOUS
    <3>3. Sound(h, x)' /\ Sound(h, y)' /\ Sound(h, z)'
      BY <1>9, <2>1, <3>1, <3>2
    <3>4. x = receipts'.through[h] /\ y = advised'[h] /\ z = meeting'.host[h]
      BY <3>2
    <3>5. QED BY <3>3, <3>4
  <2>3. QED BY <2>2 DEF ReceiptsStand
<1>11. ASSUME NEW c \in Talks, NEW t \in Nat, ~Rests(c), Sound(Ask(c).handle, t)
       PROVE  Sound(Ask(c).handle, t)'
  <2>1. PICK h \in Handles : h = Ask(c).handle
    BY AskIs
  <2>2. Sound(h, t)'
    BY <1>9, <1>11, <2>1
  <2>3. h = Ask(c)'.handle
    BY <1>8, <2>1 DEF Ask
  <2>4. QED BY <2>2, <2>3
<1>12. ASSUME NEW c \in Talks, talk'[c] = talk[c] PROVE TalkInv(c)'
  <2>1. SUFFICES ASSUME ~Rests(c) PROVE (TalkSees(c) /\ TalkStands(c) /\ TalkHolds(c) /\ TalkHosts(c))'
    BY <1>12 DEF TalkInv, Rests
  <2>2. TalkSees(c) /\ TalkStands(c) /\ TalkHolds(c) /\ TalkHosts(c)
    BY <2>1 DEF CrossInv, TalkInv
  <2>3. PICK h \in Handles : h = Ask(c).handle /\ h = Ask(c)'.handle /\ Ask(c)' = Ask(c)
    BY <1>8, AskIs DEF Ask
  <2>4. e.by = h \/ <<h, e.no>> \in missed'
    <3>1. e.by # h => h \in PassedBy(e)
      BY <2>1, <2>3 DEF PassedBy, Rests
    <3>2. QED BY <1>1, <3>1
  <2>5. TalkSees(c)'
    BY <1>1, <1>12, <2>2, <2>3, <2>4 DEF TalkSees
  <2>6. talk[c] \in TalkRecs
    BY AskIs
  <2>7. TalkStands(c)'
    <3>1. ASSUME talk[c].at = "append"
          PROVE  /\ Ask(c).tool = "post" /\ talk[c].target \in ChannelFiles /\ Sound(h, talk[c].through)'
                 /\ \A f \in entries' : f.by # h => ToldOf(h, f)'
      <4>1. /\ Ask(c).tool = "post" /\ talk[c].target \in ChannelFiles /\ Sound(h, talk[c].through)
            /\ \A f \in entries : f.by # h => ToldOf(h, f)
        BY <2>2, <2>3, <3>1 DEF TalkStands
      <4>2. talk[c].through \in Nat
        BY <2>6 DEF TalkRecs
      <4>3. PICK t : t = talk[c].through
        OBVIOUS
      <4>4. Sound(h, t)'
        BY <1>9, <2>1, <2>3, <4>1, <4>2, <4>3
      <4>5. Sound(h, talk[c].through)'
        BY <1>12, <4>3, <4>4
      <4>6. \A f \in entries' : f.by # h => ToldOf(h, f)'
        BY <1>1, <2>4, <4>1 DEF ToldOf
      <4>7. QED BY <4>1, <4>5, <4>6
    <3>2. ASSUME talk[c].at \in {"load", "write"}
          PROVE  talk[c].to # 0 /\ Sound(h, talk[c].to)'
      <4>1. talk[c].to # 0 /\ Sound(h, talk[c].to)
        BY <2>2, <2>3, <3>2 DEF TalkStands
      <4>2. talk[c].to \in Nat
        BY <2>6 DEF TalkRecs
      <4>3. PICK t : t = talk[c].to
        OBVIOUS
      <4>4. Sound(h, t)'
        BY <1>9, <2>1, <2>3, <4>1, <4>2, <4>3
      <4>5. QED BY <1>12, <4>1, <4>3, <4>4
    <3>3. ASSUME talk[c].at = "write", NEW i \in Handles PROVE Sound(i, talk[c].base[i])'
      <4>1. Sound(i, talk[c].base[i])
        BY <2>2, <3>3 DEF TalkStands
      <4>2. talk[c].base[i] \in Nat
        BY <2>6 DEF TalkRecs
      <4>3. PICK t : t = talk[c].base[i]
        OBVIOUS
      <4>4. Sound(i, t)'
        BY <1>9, <3>3, <4>1, <4>2, <4>3
      <4>5. QED BY <1>12, <4>3, <4>4
    <3>4. QED BY <1>12, <2>3, <3>1, <3>2, <3>3 DEF TalkStands
  <2>8. TalkHolds(c)'
    BY <1>12, <2>2, <2>3 DEF TalkHolds
  <2>9. TalkHosts(c)'
    BY <1>8, <1>12, <2>2 DEF TalkHosts, HostIn
  <2>10. QED BY <2>5, <2>7, <2>8, <2>9
<1>13. entries' \subseteq ChannelEntry /\ missed \subseteq missed'
  BY <1>1, <1>2
<1>14. QED BY <1>1, <1>5, <1>6, <1>7, <1>10, <1>11, <1>12, <1>13

LEMMA LandsKeeps == ASSUME CrossInv, NEW c \in Talks, Lands(c) PROVE CrossInv'
<1>1. PICK h \in Handles : h = Ask(c).handle
  BY AskIs
<1>2. PICK m : m = talk[c]
  OBVIOUS
<1>3. ~Rests(c) /\ m \in TalkRecs /\ m.at = "append" /\ m.through \in Nat
  BY <1>2, AskIs DEF Lands, TalkRecs, Rests
<1>4. minute \in Nat \ {0} /\ adoption = "ready"
  BY <1>3 DEF CrossInv, ChannelShape, AdoptInv
<1>5. TalkSees(c) /\ TalkHolds(c) /\ TalkStands(c)
  BY <1>3 DEF CrossInv, TalkInv
<1>6. /\ Ask(c).tool = "post" /\ m.target \in ChannelFiles /\ Sound(h, m.through)
      /\ \A f \in entries : f.by # h => ToldOf(h, f)
  BY <1>1, <1>2, <1>3, <1>5 DEF TalkStands
<1>7. PICK e : e = [no |-> NextNo, stamp |-> minute, by |-> h, file |-> m.target, form |-> "log"]
  OBVIOUS
<1>8. PICK t : t = Attested(c)
  OBVIOUS
<1>9. EntryArrives(e) /\ Becomes(c, [m EXCEPT !.at = "load", !.to = t])
  BY <1>1, <1>2, <1>7, <1>8 DEF Lands
<1>10. UNCHANGED <<meeting, uncached, minute, receipts, adoption, latch, advised, befalling, got, rolled, wiped>>
  BY DEF Lands, hostSide, losses
<1>11. PICK n \in Nat : n = NextNo
  <2>1. Cardinality(entries) \in Nat
    BY FS_CardinalityType DEF CrossInv, ChannelShape
  <2>2. QED BY <2>1 DEF NextNo
<1>12. e \in ChannelEntry /\ e.no = NextNo /\ e.stamp = minute /\ e.by = h
  BY <1>4, <1>6, <1>7, <1>11 DEF ChannelEntry
<1>13. t \in Nat \ {0} /\ t \in {m.through, minute} /\ m.through <= t
  <2>1. CASE m.through <= minute
    <3>1. \A x \in {m.through, minute} : minute >= x
      BY <1>3, <1>4, <2>1
    <3>2. PICK y : y = CHOOSE x \in {m.through, minute} : \A z \in {m.through, minute} : x >= z
      OBVIOUS
    <3>3. y \in {m.through, minute} /\ y >= m.through /\ y >= minute
      BY <3>1, <3>2
    <3>4. t = y
      BY <1>2, <1>8, <3>2 DEF Attested, Max
    <3>5. QED BY <1>3, <1>4, <3>3, <3>4
  <2>2. CASE ~(m.through <= minute)
    <3>1. \A x \in {m.through, minute} : m.through >= x
      BY <1>3, <1>4, <2>2
    <3>2. PICK y : y = CHOOSE x \in {m.through, minute} : \A z \in {m.through, minute} : x >= z
      OBVIOUS
    <3>3. y \in {m.through, minute} /\ y >= m.through /\ y >= minute
      BY <3>1, <3>2
    <3>4. t = y
      BY <1>2, <1>8, <3>2 DEF Attested, Max
    <3>5. QED BY <1>3, <1>4, <3>3, <3>4
  <2>3. QED BY <2>1, <2>2
<1>14. /\ entries' = entries \cup {e} /\ missed \subseteq missed'
       /\ entries' \subseteq ChannelEntry /\ IsFiniteSet(entries')
       /\ \A f \in entries' : f.no <= Cardinality(entries')
       /\ \A f, g \in entries' : f.no = g.no => f = g
       /\ ReceiptShape' /\ ReceiptsStand' /\ rolled' = {}
       /\ \A d \in Talks : \A s \in Nat : ~Rests(d) /\ Sound(Ask(d).handle, s) => Sound(Ask(d).handle, s)'
       /\ \A d \in Talks : talk'[d] = talk[d] => TalkInv(d)'
  BY <1>9, <1>10, <1>12, ArrivalKeeps
<1>15. PICK w : w = [m EXCEPT !.at = "load", !.to = t]
  OBVIOUS
<1>16. w \in TalkRecs /\ w.at = "load" /\ w.to = t /\ w.seen = m.seen /\ w.through = m.through
       /\ w.blind = m.blind /\ w.crossed = m.crossed
  BY <1>3, <1>13, <1>15 DEF TalkRecs
<1>17. talk' = [talk EXCEPT ![c] = w] /\ talk \in [Talks -> TalkRecs] /\ Talks' = Talks
  BY <1>9, <1>10, <1>15 DEF Becomes, CrossInv, TalkShape, Talks
<1>18. talk'[c] = w /\ Ask(c)' = Ask(c) /\ (\A d \in Talks : d # c => talk'[d] = talk[d])
       /\ talk' \in [Talks' -> TalkRecs]
  BY <1>10, <1>16, <1>17 DEF Ask
<1>19. \A f \in entries' : f.by # h => ToldOf(h, f)'
  BY <1>6, <1>10, <1>12, <1>14 DEF ToldOf
<1>20. Sound(h, t)'
  <2>1. CoversKnown(h, t)'
    BY <1>19 DEF CoversKnown
  <2>2. Reached(t)'
    <3>1. CASE t = minute
      <4>1. e \in entries' /\ t <= e.stamp
        BY <1>4, <1>12, <1>14, <3>1
      <4>2. QED BY <4>1 DEF Reached
    <3>2. CASE t = m.through
      <4>1. PICK f \in entries : t <= f.stamp
        BY <1>6, <1>13, <3>2 DEF Sound, Reached
      <4>2. QED BY <1>14, <4>1 DEF Reached
    <3>3. QED BY <1>13, <3>1, <3>2
  <2>3. QED BY <2>1, <2>2 DEF Sound
<1>21. TalkInv(c)'
  <2>1. TalkSees(c)'
    BY <1>1, <1>2, <1>5, <1>10, <1>12, <1>14, <1>16, <1>18 DEF TalkSees
  <2>2. TalkStands(c)'
    BY <1>1, <1>13, <1>16, <1>18, <1>20 DEF TalkStands
  <2>3. TalkHolds(c)'
    <3>1. ~m.crossed /\ ~m.blind => m.through = receipts.through[h]
      BY <1>1, <1>2, <1>3, <1>5 DEF TalkHolds
    <3>2. ~m.crossed /\ ~m.blind => receipts'.through[h] <= t
      BY <1>10, <1>13, <3>1
    <3>3. QED BY <1>1, <1>16, <1>18, <3>2 DEF TalkHolds
  <2>4. TalkHosts(c)'
    BY <1>16, <1>18 DEF TalkHosts
  <2>5. QED BY <2>1, <2>2, <2>3, <2>4 DEF TalkInv
<1>22. ChannelShape'
  <2>1. uncached' \subseteq {f.file : f \in entries'} \cap NoteFiles
    BY <1>10, <1>14 DEF CrossInv, ChannelShape
  <2>2. QED BY <1>10, <1>14, <2>1 DEF CrossInv, ChannelShape
<1>23. AdoptInv'
  BY <1>4, <1>10 DEF CrossInv, AdoptInv, HostIn
<1>24. TalkShape' /\ \A d \in Talks' : TalkInv(d)'
  BY <1>14, <1>17, <1>18, <1>21 DEF TalkShape
<1>25. QED BY <1>14, <1>22, <1>23, <1>24 DEF CrossInv

LEMMA OthersPostKeeps == ASSUME CrossInv, OthersPost PROVE CrossInv'
<1>1. PICK x \in befalling :
        /\ x[1] = "entry" /\ befalling' = befalling \ {x}
        /\ EntryArrives([no |-> NextNo, stamp |-> x[3], by |-> x[2], file |-> x[4],
                form |-> IF x[4] \in NoteFiles THEN "note" ELSE "log"])
        /\ uncached' = uncached \cup ({x[4]} \cap NoteFiles)
        /\ UNCHANGED <<meeting, minute, receipts, talk, hostSide, advised, got, losses>>
  BY DEF OthersPost
<1>2. x[2] \in Handles /\ x[3] \in Nat \ {0} /\ x[4] \in ChannelFiles
  BY <1>1, CrossAssumption DEF CrossInv, ChannelShape
<1>3. PICK k : k = IF x[4] \in NoteFiles THEN "note" ELSE "log"
  OBVIOUS
<1>4. PICK e : e = [no |-> NextNo, stamp |-> x[3], by |-> x[2], file |-> x[4], form |-> k]
  OBVIOUS
<1>5. PICK n \in Nat : n = NextNo
  <2>1. Cardinality(entries) \in Nat
    BY FS_CardinalityType DEF CrossInv, ChannelShape
  <2>2. QED BY <2>1 DEF NextNo
<1>6. e \in ChannelEntry /\ e.no = NextNo /\ e.file = x[4]
  BY <1>2, <1>3, <1>4, <1>5 DEF ChannelEntry
<1>7. EntryArrives(e)
  BY <1>1, <1>3, <1>4
<1>8. UNCHANGED <<meeting, minute, receipts, talk, adoption, latch, advised, got, rolled, wiped>>
  BY <1>1 DEF hostSide, losses
<1>9.  /\ entries' = entries \cup {e} /\ missed \subseteq missed'
       /\ entries' \subseteq ChannelEntry /\ IsFiniteSet(entries')
       /\ \A f \in entries' : f.no <= Cardinality(entries')
       /\ \A f, g \in entries' : f.no = g.no => f = g
       /\ ReceiptShape' /\ ReceiptsStand' /\ rolled' = {}
       /\ \A d \in Talks : talk'[d] = talk[d] => TalkInv(d)'
  BY <1>6, <1>7, <1>8, ArrivalKeeps
<1>10. ChannelShape'
  <2>1. uncached' \subseteq {f.file : f \in entries'} \cap NoteFiles
    BY <1>1, <1>6, <1>9 DEF CrossInv, ChannelShape
  <2>2. QED BY <1>1, <1>8, <1>9, <2>1 DEF CrossInv, ChannelShape
<1>11. AdoptInv'
  BY <1>8 DEF CrossInv, AdoptInv, HostIn, Rests, Talks
<1>12. TalkShape' /\ \A d \in Talks' : TalkInv(d)'
  BY <1>8, <1>9 DEF CrossInv, TalkShape, Talks
<1>13. QED BY <1>9, <1>10, <1>11, <1>12 DEF CrossInv

LEMMA SetLoadsKeeps == ASSUME CrossInv, NEW c \in Talks, SetLoads(c) PROVE CrossInv'
<1>1. PICK fails \in BOOLEAN :
       /\ Befalls(<<"load fails">>, fails)
       /\ Becomes(c, [talk[c] EXCEPT !.at = "write", !.base = Base(fails), !.forgot = Forgets(fails)])
  BY DEF SetLoads
<1>2. PICK b : b = LoadReceipts(fails)
  OBVIOUS
<1>3. PICK x : x = Forgets(fails)
  OBVIOUS
<1>4. PICK m : m = talk[c]
  OBVIOUS
<1>5. PICK w : w = [m EXCEPT !.at = "write", !.base = b, !.forgot = x]
  OBVIOUS
<1>6. Becomes(c, w)
  BY <1>1, <1>2, <1>3, <1>4, <1>5 DEF Base
<1>7. b \in [Handles -> Nat] /\ (~x => b = receipts.through) /\ (\A h \in Handles : Sound(h, b[h])) /\ x \in BOOLEAN
  <2>1. x \in BOOLEAN
    BY <1>3 DEF Forgets
  <2>2. QED BY <1>2, <1>3, <2>1, LoadsStand
<1>8. UNCHANGED <<meeting, entries, uncached, minute, receipts, adoption, latch, advised, got, missed,
                  rolled, wiped>>
  BY DEF SetLoads, channel, hostSide, losses
<1>9. ~Rests(c) /\ m.at = "load" /\ m \in TalkRecs
  BY <1>4, AskIs DEF SetLoads, Rests
<1>10. adoption = "ready" /\ TalkSees(c) /\ TalkStands(c) /\ TalkHolds(c)
  BY <1>9 DEF CrossInv, TalkInv, AdoptInv
<1>11. /\ w \in TalkRecs /\ w.at = "write" /\ w.base = b /\ w.forgot = x /\ w.to = m.to /\ w.seen = m.seen
       /\ w.blind = m.blind /\ w.crossed = m.crossed
  BY <1>5, <1>7, <1>9 DEF TalkRecs
<1>12. talk'[c] = w /\ Ask(c)' = Ask(c) /\ Ask(c).handle \in Handles
  BY <1>6, <1>8, AskIs DEF Becomes, CrossInv, TalkShape, Ask, Talks
<1>13. \A i \in Handles : \A s : Sound(i, s) => Sound(i, s)'
  BY <1>8 DEF Sound, CoversKnown, Reached, ToldOf
<1>14. TalkInv(c)'
  <2>1. TalkSees(c)'
    BY <1>4, <1>8, <1>10, <1>11, <1>12 DEF TalkSees
  <2>2. TalkStands(c)'
    <3>1. m.to # 0 /\ Sound(Ask(c).handle, m.to)
      BY <1>4, <1>9, <1>10 DEF TalkStands
    <3>2. QED BY <1>7, <1>11, <1>12, <1>13, <3>1 DEF TalkStands
  <2>3. TalkHolds(c)'
    <3>1. ~m.crossed /\ Ask(c).tool # "attest" /\ ~m.blind => receipts.through[Ask(c).handle] <= m.to
      BY <1>4, <1>9, <1>10 DEF TalkHolds
    <3>2. QED BY <1>7, <1>8, <1>11, <1>12, <3>1 DEF TalkHolds
  <2>4. TalkHosts(c)'
    <3>1. latch => wiped \/ HostIn(receipts.through)
      BY DEF CrossInv, AdoptInv
    <3>2. latch' /\ ~x => wiped' \/ HostIn(b)'
      BY <1>7, <1>8, <3>1 DEF HostIn
    <3>3. QED BY <1>11, <1>12, <3>2 DEF TalkHosts
  <2>5. QED BY <2>1, <2>2, <2>3, <2>4 DEF TalkInv
<1>15. \A h \in Handles : got[h] \subseteq got'[h] /\ (advised[h] # 0 => advised'[h] # 0) /\ Sound(h, advised[h])'
  <2>1. \A h \in Handles : Sound(h, advised[h])
    BY DEF CrossInv, ReceiptsStand
  <2>2. QED BY <1>8, <1>13, <2>1
<1>16. got' \in [Handles -> SUBSET Nat] /\ advised' \in [Handles -> Nat]
  BY <1>8 DEF CrossInv, ReceiptShape
<1>17. UNCHANGED <<channel, receipts, adoption, latch, losses>> /\ befalling' \subseteq befalling
  BY <1>1, <1>8 DEF channel, losses, Befalls
<1>18. QED BY <1>6, <1>8, <1>10, <1>11, <1>14, <1>15, <1>16, <1>17, TalkMoves

\* A receipt is set: nobody's but the caller's own goes back, and whoever another call
\* was about to set them for has been crossed.
LEMMA SetWritesKeeps == ASSUME CrossInv, NEW c \in Talks, SetWrites(c) PROVE CrossInv'
<1>1. PICK h \in Handles : h = Ask(c).handle
  BY AskIs
<1>2. PICK m : m = talk[c]
  OBVIOUS
<1>3. ~Rests(c) /\ m.at = "write" /\ m \in TalkRecs
  BY <1>2, AskIs DEF SetWrites, Rests
<1>4. m.base \in [Handles -> Nat] /\ m.to \in Nat
  BY <1>3 DEF TalkRecs
<1>5. adoption = "ready" /\ TalkStands(c) /\ TalkHolds(c) /\ TalkHosts(c)
  BY <1>3 DEF CrossInv, TalkInv, AdoptInv
<1>6. PICK s : s = [m.base EXCEPT ![h] = m.to]
  OBVIOUS
<1>7. s \in [Handles -> Nat] /\ s[h] = m.to /\ \A i \in Handles \ {h} : s[i] = m.base[i]
  BY <1>4, <1>6
<1>8. m.to # 0 /\ Sound(h, m.to) /\ \A i \in Handles : Sound(i, m.base[i])
  BY <1>1, <1>2, <1>3, <1>5 DEF TalkStands
<1>9. PICK fails \in BOOLEAN :
       /\ Befalls(<<"write fails">>, fails)
       /\ WriteReceipts(s, fails)
       /\ rolled' = rolled \cup IF m.blind \/ m.forgot \/ m.crossed THEN {}
                                ELSE Lowered(s, fails) \ (IF Ask(c).tool = "attest" THEN {h} ELSE {})
       /\ wiped' = (wiped \/ (m.forgot /\ ~fails))
       /\ talk' = [d \in Talks |->
            IF d = c THEN [talk[c] EXCEPT !.at = "over", !.answer = "ok"]
            ELSE [talk[d] EXCEPT !.crossed = @ \/ talk[d].at \notin {"asked", "over"}]]
  BY <1>1, <1>2, <1>6 DEF SetWrites
<1>10. UNCHANGED <<meeting, entries, uncached, minute, adoption, latch, advised, got, missed>>
  BY DEF SetWrites, channel, hostSide
<1>11. receipts \in [through : [Handles -> Nat], legible : BOOLEAN]
  BY DEF CrossInv, ReceiptShape
<1>12. /\ fails => receipts' = receipts
       /\ ~fails => receipts'.through = s /\ receipts'.legible = TRUE
       /\ receipts' \in [through : [Handles -> Nat], legible : BOOLEAN]
  BY <1>7, <1>9, <1>11 DEF WriteReceipts
<1>13. rolled' = {}
  <2>1. rolled = {}
    BY DEF CrossInv
  <2>2. ASSUME ~m.blind, ~m.forgot, ~m.crossed, ~fails, NEW i \in Handles, s[i] < Held[i]
        PROVE  i = h /\ Ask(c).tool = "attest"
    <3>1. m.base = receipts.through /\ (Ask(c).tool # "attest" => receipts.through[h] <= m.to)
      BY <1>1, <1>2, <1>3, <1>5, <2>2 DEF TalkHolds
    <3>2. Held[i] = receipts.through[i] \/ Held[i] = 0
      BY DEF Held, Unheld
    <3>3. s[i] \in Nat /\ receipts.through[i] \in Nat
      BY <1>7, <1>11
    <3>4. CASE i # h
      <4>1. s[i] = receipts.through[i]
        BY <1>7, <3>1, <3>4
      <4>2. QED BY <2>2, <3>2, <3>3, <4>1
    <3>5. CASE i = h /\ Ask(c).tool # "attest"
      BY <1>7, <2>2, <3>1, <3>2, <3>3, <3>5
    <3>6. QED BY <3>4, <3>5
  <2>3. CASE m.blind \/ m.forgot \/ m.crossed
    BY <1>9, <2>1, <2>3
  <2>4. CASE ~(m.blind \/ m.forgot \/ m.crossed) /\ fails
    <3>1. Lowered(s, fails) = {}
      BY <2>4 DEF Lowered
    <3>2. QED BY <1>9, <2>1, <2>4, <3>1
  <2>5. CASE ~(m.blind \/ m.forgot \/ m.crossed) /\ ~fails
    <3>1. Lowered(s, fails) = {i \in Handles : s[i] < Held[i]}
      BY <2>5 DEF Lowered
    <3>2. Lowered(s, fails) \ (IF Ask(c).tool = "attest" THEN {h} ELSE {}) = {}
      BY <2>2, <2>5, <3>1
    <3>3. QED BY <1>9, <2>1, <2>5, <3>2
  <2>6. QED BY <2>3, <2>4, <2>5
<1>14. \A i \in Handles : \A t : Sound(i, t) => Sound(i, t)'
  BY <1>10 DEF Sound, CoversKnown, Reached, ToldOf
<1>15. ReceiptsStand'
  <2>1. \A i \in Handles : Sound(i, receipts.through[i]) /\ Sound(i, advised[i]) /\ Sound(i, meeting.host[i])
    BY DEF CrossInv, ReceiptsStand
  <2>2. \A i \in Handles : Sound(i, s[i])
    BY <1>7, <1>8
  <2>3. \A i \in Handles : Sound(i, receipts'.through[i])
    BY <1>12, <2>1, <2>2
  <2>4. \A i \in Handles : Sound(i, receipts.through[i])'
    BY <1>14, <2>3
  <2>5. \A i \in Handles : Sound(i, advised[i])' /\ Sound(i, meeting.host[i])'
    BY <1>10, <1>14, <2>1
  <2>6. QED BY <2>4, <2>5 DEF ReceiptsStand
<1>16. wiped \in BOOLEAN /\ wiped' \in BOOLEAN /\ (wiped => wiped')
  BY <1>9 DEF CrossInv, ReceiptShape
<1>17. AdoptInv'
  <2>1. latch => wiped' \/ HostIn(receipts.through)'
    <3>1. CASE fails
      <4>1. latch => wiped \/ HostIn(receipts.through)
        BY DEF CrossInv, AdoptInv
      <4>2. QED BY <1>10, <1>12, <1>16, <3>1, <4>1 DEF HostIn
    <3>2. CASE ~fails /\ m.forgot
      BY <1>9, <3>2
    <3>3. CASE ~fails /\ ~m.forgot
      <4>1. latch => wiped \/ HostIn(m.base)
        BY <1>2, <1>3, <1>5, <3>3 DEF TalkHosts
      <4>2. HostIn(m.base) => HostIn(s)
        BY <1>7, <1>8 DEF HostIn
      <4>3. HostIn(s) => HostIn(receipts.through)'
        BY <1>10, <1>12, <3>3 DEF HostIn
      <4>4. QED BY <1>16, <4>1, <4>2, <4>3
    <3>4. QED BY <3>1, <3>2, <3>3
  <2>2. QED BY <1>5, <1>10, <2>1 DEF AdoptInv
<1>18. Talks' = Talks /\ talk \in [Talks -> TalkRecs]
  BY <1>10 DEF Talks, CrossInv, TalkShape
<1>19. ASSUME NEW d \in Talks PROVE talk'[d] \in TalkRecs /\ TalkInv(d)'
  <2>1. CASE d = c
    <3>1. PICK w : w = [m EXCEPT !.at = "over", !.answer = "ok"]
      OBVIOUS
    <3>2. w \in TalkRecs /\ w.at = "over"
      BY <1>3, <3>1 DEF TalkRecs
    <3>3. talk'[d] = w
      BY <1>2, <1>9, <2>1, <3>1
    <3>4. QED BY <3>2, <3>3, OverHolds
  <2>2. CASE d # c
    <3>1. PICK n \in TalkRecs : n = talk[d]
      BY AskIs
    <3>2. PICK x \in BOOLEAN : x = (n.crossed \/ n.at \notin {"asked", "over"})
      OBVIOUS
    <3>3. PICK w : w = [n EXCEPT !.crossed = x]
      OBVIOUS
    <3>4. /\ w \in TalkRecs /\ w.at = n.at /\ w.crossed = x /\ w.seen = n.seen /\ w.through = n.through
          /\ w.target = n.target /\ w.to = n.to /\ w.base = n.base /\ w.blind = n.blind /\ w.forgot = n.forgot
      BY <3>1, <3>3 DEF TalkRecs
    <3>5. talk'[d] = w
      BY <1>9, <2>2, <3>1, <3>2, <3>3
    <3>6. ASSUME ~Rests(d)' PROVE (TalkSees(d) /\ TalkStands(d) /\ TalkHolds(d) /\ TalkHosts(d))'
      <4>1. ~Rests(d) /\ w.crossed
        BY <3>1, <3>2, <3>4, <3>5, <3>6 DEF Rests
      <4>2. TalkSees(d) /\ TalkStands(d) /\ TalkHosts(d)
        BY <4>1 DEF CrossInv, TalkInv
      <4>3. Ask(d)' = Ask(d) /\ Ask(d).handle \in Handles
        BY <1>10, AskIs DEF Ask
      <4>4. TalkSees(d)'
        BY <1>10, <3>1, <3>4, <3>5, <4>2, <4>3 DEF TalkSees
      <4>5. TalkStands(d)'
        <5>1. n.at = "append" => \A e \in entries : e.by # Ask(d).handle => ToldOf(Ask(d).handle, e)'
          BY <1>10, <3>1, <4>2, <4>3 DEF TalkStands, ToldOf
        <5>2. QED BY <1>10, <1>14, <3>1, <3>4, <3>5, <4>2, <4>3, <5>1 DEF TalkStands
      <4>6. TalkHolds(d)'
        BY <3>5, <4>1 DEF TalkHolds
      <4>7. TalkHosts(d)'
        <5>1. n.at = "write" /\ latch /\ ~n.forgot => wiped \/ HostIn(n.base)
          BY <3>1, <4>2 DEF TalkHosts
        <5>2. HostIn(n.base) => HostIn(n.base)'
          BY <1>10 DEF HostIn
        <5>3. QED BY <1>10, <1>16, <3>4, <3>5, <5>1, <5>2 DEF TalkHosts
      <4>8. QED BY <4>4, <4>5, <4>6, <4>7
    <3>7. QED BY <3>4, <3>5, <3>6 DEF TalkInv
  <2>3. QED BY <2>1, <2>2
<1>20. TalkShape'
  <2>1. talk' \in [Talks -> TalkRecs]
    <3>1. PICK F : F = [d \in Talks |-> talk'[d]]
      OBVIOUS
    <3>2. talk' = F
      BY <1>9, <3>1
    <3>3. F \in [Talks -> TalkRecs]
      BY <1>19, <3>1
    <3>4. QED BY <3>2, <3>3
  <2>2. QED BY <1>18, <2>1 DEF TalkShape
<1>21. ChannelShape'
  BY <1>9, <1>10 DEF CrossInv, ChannelShape, Befalls
<1>22. ReceiptShape'
  BY <1>10, <1>12, <1>16 DEF CrossInv, ReceiptShape
<1>23. QED BY <1>13, <1>15, <1>17, <1>18, <1>19, <1>20, <1>21, <1>22 DEF CrossInv

\* A step of the adoption, taken while no call is under way.
LEMMA AdoptionMoves ==
  ASSUME CrossInv, \A c \in Talks : Rests(c), UNCHANGED <<channel, talk, advised, got, missed>>,
         befalling' \subseteq befalling, receipts' \in [through : [Handles -> Nat], legible : BOOLEAN],
         \A h \in Handles : Sound(h, receipts'.through[h]), rolled' = {},
         adoption' \in {"asked", "merge", "write", "write over", "latch", "ready"}, latch' \in BOOLEAN,
         wiped' \in BOOLEAN, latch' \/ adoption' = "latch" => wiped' \/ HostIn(receipts'.through)
  PROVE  CrossInv'
<1>1. UNCHANGED <<meeting, entries, uncached, minute, talk, advised, got, missed>> /\ Talks' = Talks
  BY DEF channel, Talks
<1>2. ChannelShape' /\ ReceiptShape' /\ TalkShape'
  BY <1>1 DEF CrossInv, ChannelShape, ReceiptShape, TalkShape
<1>3. \A i \in Handles : \A t : Sound(i, t) => Sound(i, t)'
  BY <1>1 DEF Sound, CoversKnown, Reached, ToldOf
<1>4. ReceiptsStand'
  <2>1. \A i \in Handles : Sound(i, receipts.through[i])'
    BY <1>3
  <2>2. \A i \in Handles : Sound(i, advised[i])' /\ Sound(i, meeting.host[i])'
    <3>1. \A i \in Handles : Sound(i, advised[i]) /\ Sound(i, meeting.host[i])
      BY DEF CrossInv, ReceiptsStand
    <3>2. QED BY <1>1, <1>3, <3>1
  <2>3. QED BY <2>1, <2>2 DEF ReceiptsStand
<1>5. \A c \in Talks : Rests(c)' /\ TalkInv(c)'
  BY <1>1 DEF Rests, TalkInv
<1>6. HostIn(receipts'.through) => HostIn(receipts.through)'
  BY <1>1 DEF HostIn
<1>7. AdoptInv'
  BY <1>1, <1>5, <1>6 DEF AdoptInv
<1>8. QED BY <1>1, <1>2, <1>4, <1>5, <1>7 DEF CrossInv

\* What is known while the adoption is not done.
LEMMA NotReady ==
  ASSUME CrossInv, adoption # "ready"
  PROVE  /\ \A c \in Talks : Rests(c)
         /\ receipts \in [through : [Handles -> Nat], legible : BOOLEAN]
         /\ meeting.host \in [Handles -> Nat]
         /\ \A h \in Handles : Sound(h, receipts.through[h]) /\ Sound(h, meeting.host[h])
         /\ rolled = {} /\ latch \in BOOLEAN /\ wiped \in BOOLEAN
         /\ (latch \/ adoption = "latch" => wiped \/ HostIn(receipts.through))
<1>1. meeting.host \in [Handles -> Nat]
  BY CrossAssumption DEF CrossInv, ChannelShape
<1>2. \A h \in Handles : Sound(h, receipts.through[h]) /\ Sound(h, meeting.host[h])
  BY DEF CrossInv, ReceiptsStand
<1>3. (\A c \in Talks : Rests(c)) /\ (latch \/ adoption = "latch" => wiped \/ HostIn(receipts.through))
  BY DEF CrossInv, AdoptInv
<1>4. QED BY <1>1, <1>2, <1>3 DEF CrossInv, ReceiptShape

LEMMA NobodyIn == ASSUME meeting.host = Unheld, NEW t PROVE HostIn(t)
BY DEF HostIn, Unheld

LEMMA AskHostKeeps == ASSUME CrossInv, AskHost PROVE CrossInv'
<1>1. PICK fails \in BOOLEAN : Befalls(<<"host fails">>, fails) /\ adoption' = AfterAsking(fails)
  BY DEF AskHost
<1>2. UNCHANGED <<channel, talk, advised, got, missed>> /\ UNCHANGED <<receipts, latch, rolled, wiped>>
  BY DEF AskHost, losses
<1>3. adoption = "asked"
  BY DEF AskHost
<1>4. adoption' \in {"ready", "latch", "merge"} /\ (adoption' = "latch" => meeting.host = Unheld)
  BY <1>1 DEF AfterAsking, Merge
<1>5. latch' \/ adoption' = "latch" => wiped' \/ HostIn(receipts'.through)
  BY <1>2, <1>3, <1>4, NobodyIn, NotReady
<1>6. befalling' \subseteq befalling
  BY <1>1 DEF Befalls
<1>7. adoption # "ready"
  BY <1>3
<1>8. QED BY <1>2, <1>4, <1>5, <1>6, <1>7, NotReady, AdoptionMoves

LEMMA MergeLoadsKeeps == ASSUME CrossInv, MergeLoads PROVE CrossInv'
<1>1. PICK fails \in BOOLEAN :
       /\ Befalls(<<"load fails">>, fails)
       /\ adoption' = IF Incoming(LoadReceipts(fails)) = LoadReceipts(fails) THEN "latch"
                      ELSE IF Forgets(fails) THEN "write over" ELSE "write"
  BY DEF MergeLoads
<1>2. UNCHANGED <<channel, talk, advised, got, missed>> /\ UNCHANGED <<receipts, latch, rolled, wiped>>
  BY DEF MergeLoads, losses
<1>3. adoption # "ready"
  BY DEF MergeLoads, Merge
<1>4. adoption' \in {"write", "write over", "latch"}
  BY <1>1
<1>5. ASSUME adoption' = "latch" PROVE HostIn(receipts.through)
  <2>1. PICK l : l = LoadReceipts(fails)
    OBVIOUS
  <2>2. Incoming(l) = l
    BY <1>1, <1>5, <2>1
  <2>3. \A h \in Handles : l[h] # 0 \/ l[h] = meeting.host[h]
    BY <2>2 DEF Incoming
  <2>4. l \in {Unheld, receipts.through}
    BY <2>1, LoadsStand
  <2>5. CASE l = Unheld
    BY <2>3, <2>5 DEF HostIn, Unheld
  <2>6. CASE l = receipts.through
    BY <2>3, <2>6 DEF HostIn
  <2>7. QED BY <2>4, <2>5, <2>6
<1>6. latch' \/ adoption' = "latch" => wiped' \/ HostIn(receipts'.through)
  BY <1>2, <1>3, <1>5, NotReady
<1>7. befalling' \subseteq befalling
  BY <1>1 DEF Befalls
<1>8. QED BY <1>2, <1>3, <1>4, <1>6, <1>7, NotReady, AdoptionMoves

LEMMA MergeWritesKeeps == ASSUME CrossInv, MergeWrites PROVE CrossInv'
<1>1. PICK over \in BOOLEAN : over = (adoption = "write over")
  OBVIOUS
<1>2. PICK mine : mine = IF over THEN Unheld ELSE Held
  OBVIOUS
<1>3. PICK s : s = Incoming(mine)
  OBVIOUS
<1>4. PICK fails \in BOOLEAN :
       /\ Befalls(<<"write fails">>, fails)
       /\ WriteReceipts(s, fails)
       /\ adoption' = IF fails THEN "ready" ELSE "latch"
       /\ rolled' = IF over THEN rolled ELSE rolled \cup Lowered(s, fails)
       /\ wiped' = (wiped \/ (over /\ ~fails))
  BY <1>1, <1>2, <1>3 DEF MergeWrites
<1>5. UNCHANGED <<channel, talk, advised, got, missed>> /\ UNCHANGED latch /\ adoption # "ready"
  BY DEF MergeWrites
<1>6. /\ \A c \in Talks : Rests(c)
      /\ receipts \in [through : [Handles -> Nat], legible : BOOLEAN]
      /\ meeting.host \in [Handles -> Nat]
      /\ \A h \in Handles : Sound(h, receipts.through[h]) /\ Sound(h, meeting.host[h])
      /\ rolled = {} /\ latch \in BOOLEAN /\ wiped \in BOOLEAN
      /\ (latch => wiped \/ HostIn(receipts.through))
  BY <1>5, NotReady
<1>7. Unheld \in [Handles -> Nat] /\ \A h \in Handles : Unheld[h] = 0 /\ Sound(h, 0)
  BY LoadsStand DEF Unheld
<1>8. mine \in {Unheld, receipts.through} /\ mine \in [Handles -> Nat] /\ \A h \in Handles : Sound(h, mine[h])
  <2>1. mine \in {Unheld, receipts.through}
    BY <1>2 DEF Held
  <2>2. CASE mine = Unheld
    BY <1>7, <2>2
  <2>3. CASE mine = receipts.through
    BY <1>6, <2>3
  <2>4. QED BY <2>1, <2>2, <2>3
<1>9. \A h \in Handles : s[h] = (IF mine[h] # 0 THEN mine[h] ELSE meeting.host[h])
  BY <1>3 DEF Incoming
<1>10. s \in [Handles -> Nat]
  <2>1. s = [h \in Handles |-> IF mine[h] # 0 THEN mine[h] ELSE meeting.host[h]]
    BY <1>3 DEF Incoming
  <2>2. QED BY <1>6, <1>8, <2>1
<1>11. HostIn(s) /\ \A h \in Handles : Sound(h, s[h])
  BY <1>6, <1>8, <1>9 DEF HostIn
<1>12. /\ fails => receipts' = receipts
       /\ ~fails => receipts'.through = s
       /\ receipts' \in [through : [Handles -> Nat], legible : BOOLEAN]
  BY <1>4, <1>6, <1>10 DEF WriteReceipts
<1>13. rolled' = {}
  <2>1. CASE over
    BY <1>4, <1>6, <2>1
  <2>2. CASE ~over
    <3>1. mine = Held
      BY <1>2, <2>2
    <3>2. \A h \in Handles : s[h] \in Nat /\ mine[h] \in Nat /\ mine[h] <= s[h]
      BY <1>8, <1>9, <1>10
    <3>3. Lowered(s, fails) = {}
      BY <3>1, <3>2 DEF Lowered
    <3>4. QED BY <1>4, <1>6, <2>2, <3>3
  <2>3. QED BY <2>1, <2>2
<1>14. \A h \in Handles : Sound(h, receipts'.through[h])
  BY <1>6, <1>11, <1>12
<1>15. wiped' \in BOOLEAN /\ (wiped => wiped')
  BY <1>4, <1>6
<1>16. adoption' \in {"ready", "latch"} /\ (fails <=> adoption' = "ready")
  BY <1>4
<1>17. latch' \/ adoption' = "latch" => wiped' \/ HostIn(receipts'.through)
  <2>1. CASE fails
    BY <1>5, <1>6, <1>12, <1>15, <1>16, <2>1
  <2>2. CASE ~fails
    BY <1>11, <1>12, <2>2
  <2>3. QED BY <2>1, <2>2
<1>18. befalling' \subseteq befalling
  BY <1>4 DEF Befalls
<1>19. QED BY <1>5, <1>6, <1>12, <1>13, <1>14, <1>15, <1>16, <1>17, <1>18, AdoptionMoves

LEMMA LatchesKeep == ASSUME CrossInv, Latches PROVE CrossInv'
<1>1. adoption = "latch" /\ latch' = TRUE /\ adoption' = "ready" /\ adoption # "ready"
  BY DEF Latches
<1>2. UNCHANGED <<channel, talk, advised, got, missed>> /\ UNCHANGED <<receipts, befalling, rolled, wiped>>
  BY DEF Latches, losses
<1>3. wiped' \/ HostIn(receipts'.through)
  BY <1>1, <1>2, NotReady
<1>4. QED BY <1>1, <1>2, <1>3, NotReady, AdoptionMoves

LEMMA CachedKeeps == ASSUME CrossInv, Cached \/ ClockMoves PROVE CrossInv'
<1>1. UNCHANGED <<meeting, entries, receipts, talk, adoption, latch, advised, got, missed, rolled, wiped>>
      /\ Talks' = Talks
  BY DEF Cached, ClockMoves, hostSide, losses, Talks
<1>2. ChannelShape'
  <2>1. CASE Cached
    BY <1>1, <2>1 DEF Cached, CrossInv, ChannelShape
  <2>2. CASE Befalls(<<"tick">>, TRUE) /\ minute' = minute + 1 /\ UNCHANGED uncached
    <3>1. minute' \in Nat \ {0} /\ (<<"back">> \in befalling' => minute' > 1)
      BY <2>2 DEF Befalls, CrossInv, ChannelShape
    <3>2. QED BY <1>1, <2>2, <3>1 DEF Befalls, CrossInv, ChannelShape
  <2>3. CASE Befalls(<<"back">>, TRUE) /\ minute' = minute - 1 /\ UNCHANGED uncached
    <3>1. minute' \in Nat \ {0} /\ <<"back">> \notin befalling'
      BY <2>3 DEF Befalls, CrossInv, ChannelShape
    <3>2. QED BY <1>1, <2>3, <3>1 DEF Befalls, CrossInv, ChannelShape
  <2>4. QED BY <2>1, <2>2, <2>3 DEF ClockMoves
<1>3. ReceiptShape' /\ TalkShape' /\ rolled' = {}
  BY <1>1 DEF CrossInv, ReceiptShape, TalkShape
<1>4. \A i \in Handles : \A t : Sound(i, t) => Sound(i, t)'
  BY <1>1 DEF Sound, CoversKnown, Reached, ToldOf
<1>5. ReceiptsStand' /\ AdoptInv'
  BY <1>1, <1>4 DEF CrossInv, ReceiptsStand, AdoptInv, HostIn, Rests
<1>6. \A c \in Talks : TalkInv(c)'
  BY <1>1, TalkOn
<1>7. QED BY <1>1, <1>2, <1>3, <1>5, <1>6 DEF CrossInv

LEMMA AbandonCallKeeps == ASSUME CrossInv, NEW c \in Talks, AbandonCall(c) PROVE CrossInv'
<1>1. UNCHANGED <<meeting, entries, uncached, minute, receipts, talk, adoption, latch, advised, got, missed,
                  rolled, wiped>> /\ Talks' = Talks /\ befalling' \subseteq befalling
  BY DEF AbandonCall, channel, losses, Talks, Befalls
<1>2. ChannelShape' /\ ReceiptShape' /\ TalkShape' /\ rolled' = {}
  BY <1>1 DEF CrossInv, ChannelShape, ReceiptShape, TalkShape
<1>3. \A i \in Handles : \A t : Sound(i, t) => Sound(i, t)'
  BY <1>1 DEF Sound, CoversKnown, Reached, ToldOf
<1>4. ReceiptsStand' /\ AdoptInv'
  BY <1>1, <1>3 DEF CrossInv, ReceiptsStand, AdoptInv, HostIn, Rests
<1>5. \A d \in Talks : TalkInv(d)'
  BY <1>1, TalkOn
<1>6. QED BY <1>1, <1>2, <1>4, <1>5 DEF CrossInv

LEMMA HostDiesKeeps == ASSUME CrossInv, HostDies PROVE CrossInv'
<1>1. PICK tears \in BOOLEAN :
        receipts' = IF tears THEN [receipts EXCEPT !.legible = FALSE] ELSE receipts
  BY DEF HostDies
<1>2. UNCHANGED <<meeting, entries, uncached, minute, latch, advised, got, missed, rolled, wiped>>
      /\ Talks' = Talks /\ befalling' \subseteq befalling /\ adoption' = "asked"
  BY DEF HostDies, channel, losses, Talks, Befalls
<1>3. receipts' \in [through : [Handles -> Nat], legible : BOOLEAN] /\ receipts'.through = receipts.through
  BY <1>1 DEF CrossInv, ReceiptShape
<1>4. ASSUME NEW c \in Talks PROVE talk'[c] \in TalkRecs /\ talk'[c].at \in {"asked", "over"}
  <2>1. PICK m \in TalkRecs : m = talk[c]
    BY AskIs
  <2>2. CASE Rests(c)
    BY <2>1, <2>2 DEF HostDies, Rests
  <2>3. CASE ~Rests(c)
    <3>1. PICK w : w = [m EXCEPT !.at = "over", !.answer = "lost"]
      OBVIOUS
    <3>2. w \in TalkRecs /\ w.at = "over"
      BY <2>1, <3>1 DEF TalkRecs
    <3>3. talk'[c] = w
      BY <2>1, <2>3, <3>1 DEF HostDies, Rests
    <3>4. QED BY <3>2, <3>3
  <2>4. QED BY <2>2, <2>3
<1>5. TalkShape'
  <2>1. PICK F : F = [c \in Talks |-> talk'[c]]
    OBVIOUS
  <2>2. talk' = F
    BY <2>1 DEF HostDies
  <2>3. F \in [Talks -> TalkRecs]
    BY <1>4, <2>1
  <2>4. QED BY <1>2, <2>2, <2>3 DEF TalkShape
<1>6. \A c \in Talks : Rests(c)' /\ TalkInv(c)'
  BY <1>4 DEF Rests, TalkInv
<1>7. ChannelShape' /\ ReceiptShape' /\ rolled' = {}
  BY <1>2, <1>3 DEF CrossInv, ChannelShape, ReceiptShape
<1>8. \A i \in Handles : \A t : Sound(i, t) => Sound(i, t)'
  BY <1>2 DEF Sound, CoversKnown, Reached, ToldOf
<1>9. ReceiptsStand' /\ AdoptInv'
  BY <1>2, <1>3, <1>6, <1>8 DEF CrossInv, ReceiptsStand, AdoptInv, HostIn
<1>10. QED BY <1>2, <1>5, <1>6, <1>7, <1>9 DEF CrossInv

LEMMA CrossInvInit == ASSUME CrossInit PROVE CrossInv
<1>1. meeting \in Meetings
  BY DEF CrossInit
<1>2. /\ meeting.entries \subseteq ChannelEntry /\ IsFiniteSet(meeting.entries)
      /\ \A e \in meeting.entries : e.no <= Cardinality(meeting.entries)
      /\ \A e, f \in meeting.entries : e.no = f.no => e = f
      /\ meeting.minute \in Nat \ {0} /\ (<<"back">> \in meeting.coming => meeting.minute > 1)
      /\ meeting.own \in [Handles -> Nat] /\ meeting.host \in [Handles -> Nat]
      /\ \A h \in Handles, r \in {meeting.own, meeting.host} : r[h] = 0 \/ \E e \in meeting.entries : r[h] <= e.stamp
  BY <1>1, CrossAssumption
<1>3. /\ entries = meeting.entries /\ uncached = {} /\ minute = meeting.minute /\ rolled = {} /\ wiped = FALSE
      /\ receipts = [through |-> meeting.own, legible |-> TRUE] /\ latch = FALSE /\ adoption = "asked"
      /\ talk = [c \in Talks |-> NotBegun] /\ advised = Unheld /\ befalling = meeting.coming
      /\ got = [h \in Handles |-> {e.no : e \in {x \in meeting.entries :
                                         x.stamp <= meeting.own[h] \/ x.stamp <= meeting.host[h]}}]
  BY DEF CrossInit, Talks
<1>4. \A e \in entries : e.no \in Nat /\ e.stamp \in Nat \ {0}
  BY <1>2, <1>3 DEF ChannelEntry
<1>5. Unheld \in [Handles -> Nat] /\ \A h \in Handles : Unheld[h] = 0
  BY DEF Unheld
<1>6. ChannelShape
  BY <1>1, <1>2, <1>3 DEF ChannelShape
<1>7. ReceiptShape
  <2>1. got \in [Handles -> SUBSET Nat]
    BY <1>3, <1>4
  <2>2. QED BY <1>2, <1>3, <1>5, <2>1 DEF ReceiptShape
<1>8. NotBegun \in TalkRecs /\ NotBegun.at = "asked"
  BY <1>5 DEF NotBegun, TalkRecs
<1>9. TalkShape /\ \A c \in Talks : Rests(c) /\ TalkInv(c)
  BY <1>3, <1>8 DEF TalkShape, Rests, TalkInv
<1>10. ASSUME NEW h \in Handles
       PROVE  Sound(h, meeting.own[h]) /\ Sound(h, meeting.host[h]) /\ Sound(h, 0)
  <2>1. \A e \in entries : e.stamp <= meeting.own[h] \/ e.stamp <= meeting.host[h] => e.no \in got[h]
    BY <1>3
  <2>2. CoversKnown(h, meeting.own[h]) /\ CoversKnown(h, meeting.host[h])
    BY <2>1 DEF CoversKnown, ToldOf
  <2>3. CoversKnown(h, 0)
    BY <1>4 DEF CoversKnown
  <2>4. Reached(meeting.own[h]) /\ Reached(meeting.host[h]) /\ Reached(0)
    BY <1>2, <1>3 DEF Reached
  <2>5. QED BY <2>2, <2>3, <2>4 DEF Sound
<1>11. ReceiptsStand
  BY <1>3, <1>5, <1>10 DEF ReceiptsStand
<1>12. AdoptInv
  BY <1>3, <1>9 DEF AdoptInv
<1>13. QED BY <1>3, <1>6, <1>7, <1>9, <1>11, <1>12 DEF CrossInv

LEMMA CrossStep == ASSUME CrossInv, [CrossNext]_xsvars PROVE CrossInv'
<1>1. CASE UNCHANGED xsvars
  <2>1. UNCHANGED <<meeting, entries, uncached, minute, receipts, talk, adoption, latch, advised, befalling, got,
                    missed, rolled, wiped>> /\ Talks' = Talks
    BY <1>1 DEF xsvars, Talks
  <2>2. ChannelShape' /\ ReceiptShape' /\ TalkShape' /\ rolled' = {}
    BY <2>1 DEF CrossInv, ChannelShape, ReceiptShape, TalkShape
  <2>3. \A i \in Handles : \A t : Sound(i, t) => Sound(i, t)'
    BY <2>1 DEF Sound, CoversKnown, Reached, ToldOf
  <2>4. ReceiptsStand' /\ AdoptInv'
    BY <2>1, <2>3 DEF CrossInv, ReceiptsStand, AdoptInv, HostIn, Rests
  <2>5. \A d \in Talks : TalkInv(d)'
    BY <2>1, TalkOn
  <2>6. QED BY <2>1, <2>2, <2>4, <2>5 DEF CrossInv
<1>2. ASSUME NEW c \in Talks,
             \/ Resolve(c) \/ Delta(c) \/ Attest(c) \/ Gate(c) \/ Lands(c)
             \/ SetLoads(c) \/ SetWrites(c) \/ AbandonCall(c)
      PROVE  CrossInv'
  BY <1>2, ResolveKeeps, DeltaKeeps, AttestKeeps, GateKeeps, LandsKeeps, SetLoadsKeeps, SetWritesKeeps,
     AbandonCallKeeps
<1>3. CASE AskHost \/ MergeLoads \/ MergeWrites \/ Latches
  BY <1>3, AskHostKeeps, MergeLoadsKeeps, MergeWritesKeeps, LatchesKeep
<1>4. CASE OthersPost \/ Cached \/ ClockMoves \/ HostDies
  BY <1>4, OthersPostKeeps, CachedKeeps, HostDiesKeeps
<1>5. QED BY <1>1, <1>2, <1>3, <1>4 DEF CrossNext

LEMMA CrossInvSafe == ASSUME CrossInv PROVE CrossSafe
<1>1. ChannelShape /\ ReceiptShape /\ TalkShape /\ ReceiptsStand /\ rolled = {} /\ AdoptInv
  BY DEF CrossInv
<1>2. CrossTypeOK
  <2>1. \A c \in Talks : talk[c].at \in {"asked", "resolved", "append", "load", "write", "over"}
    BY <1>1 DEF TalkShape, TalkRecs
  <2>2. QED BY <1>1, <2>1 DEF CrossTypeOK, ChannelShape, ReceiptShape
<1>3. NothingSkipped
  <2>1. ASSUME NEW h \in Handles, NEW e \in entries, e.by # h, e.stamp <= Held[h]
        PROVE  e.no \in got[h] \/ <<h, e.no>> \in missed
    <3>1. e.stamp \in Nat \ {0}
      BY <1>1 DEF ChannelShape, ChannelEntry
    <3>2. Held[h] \in {receipts.through[h], 0}
      BY DEF Held, Unheld
    <3>3. Held[h] = receipts.through[h]
      BY <2>1, <3>1, <3>2
    <3>4. QED BY <1>1, <2>1, <3>3 DEF ReceiptsStand, Sound, CoversKnown, ToldOf
  <2>2. QED BY <2>1 DEF NothingSkipped
<1>4. ReceiptsKept /\ HostAdopted
  BY <1>1 DEF ReceiptsKept, HostAdopted, AdoptInv, HostIn
<1>5. QED BY <1>2, <1>3, <1>4 DEF CrossSafe

\* A receipt counts as read only what its handle was served, said it read, or could not have
\* seen in time; it goes back by its own handle's attest alone, whatever calls, crashes and
\* clocks do; and once the adoption is closed nobody's receipt with the host is left behind
\* (tools.ts, receipts.ts and main.ts of the cross-session satellite).
THEOREM CrossIsSafe == CrossSpec => []CrossSafe
<1>1. QED BY CrossInvInit, CrossStep, CrossInvSafe, PTL DEF CrossSpec
-----------------------------------------------------------------------------
(***************************************************************************)
(* The export of skills.                                                   *)
(***************************************************************************)
PageTexts  == SUBSET (PageSet \X Nat)
Spotted    == SUBSET (PageSet \X BOOLEAN)
Listable == PageSet \X {"file", "asset"}
Takes  == [note : PageSet, v : Nat, face : Faces, in : BOOLEAN]
Exports == [at : {"notes", "embeds", "assets"}, left : SUBSET PageSet, face : Faces, taken : SUBSET Takes,
            units : SUBSET PageSet, chain : Seq(PageSet), text : [PageSet -> PageTexts],
            looked : Spotted, read : Spotted, prev : SUBSET Listable]

\* A note is read once; what is resolved is a unit, and its chain begins with it.
TakenOnce(s) == /\ \A x, y \in s.taken : x.note = y.note => x = y
                /\ \A x \in s.taken : x.note \notin s.left
UnitsOK(s) == \A n \in s.units : s.text[n] # {} /\ embeds[n] # "none"
ChainOK(s) == /\ s.units # {} /\ Len(s.chain) \in 1..EmbedDepth /\ s.chain[1] = Foremost(s.units)
              /\ embeds[s.chain[Len(s.chain)]] # "none"
ExportOK(s) ==
  /\ s \in Exports /\ s.looked = s.read /\ TakenOnce(s) /\ UnitsOK(s)
  /\ s.at = "notes" => s.left # {} /\ s.units = {}
  /\ s.at # "notes" => s.left = {}
  /\ s.at = "embeds" => ChainOK(s)

LibraryShape ==
  /\ embeds \in [PageSet -> PageSet \cup {"none"}] /\ sheet \in [PageSet -> Sheets]
  /\ indexed \in [PageSet -> Faces] /\ stock \in [PageSet -> {"none", "there", "evicted"}]
  /\ \A n \in PageSet : indexed[n].v <= sheet[n].v
SkillsShape ==
  /\ LibraryShape /\ armed \in BOOLEAN /\ onSave \in BOOLEAN /\ tangled \in BOOLEAN
  /\ shelf \in [PageSet -> PageTexts] /\ bundle \subseteq PageSet /\ manifest \subseteq Listable
  /\ unrenewed \subseteq PageSet /\ embedded = sources
  /\ going \in [Exporters -> Exports \cup {NotGoing}]
  /\ \A r \in Exporters : Running(r) => ExportOK(going[r])

\* What is compiled, and what is taken to be, was verified or taken in haste.
Permissible == vouched \cup hasty
VouchedInv ==
  /\ \A n \in PageSet : sheet[n].ok => <<n, sheet[n].v>> \in vouched
  /\ \A n \in PageSet : shelf[n] \subseteq Permissible
  /\ \A r \in Exporters : Running(r) =>
       /\ \A x \in going[r].taken : Compiles(x) => <<x.note, x.v>> \in Permissible
       /\ \A n \in PageSet : going[r].text[n] \subseteq Permissible

\* Two exports at once leave nothing to be relied on.
ApartInv == \A r, q \in Exporters : r # q /\ Running(r) /\ Running(q) => unrenewed = PageSet /\ tangled

\* The output and its manifest, while no two exports met and none stopped half-way.
ManifestInv ==
  ~tangled => /\ \A n \in PageSet : shelf[n] # {} => <<n, "file">> \in manifest
              /\ \A n \in bundle : <<n, "asset">> \in manifest
              /\ carried \subseteq bundle
              /\ \A r \in Exporters : going[r].at = "assets" => going[r].prev = manifest

\* By the index: a unit, an embed that is taken, and a text as old as the index at most.
IsUnit(n)    == sheet[n].there /\ sheet[n].in /\ indexed[n].typed /\ indexed[n].ok
IsGood(e)    == sheet[e].there /\ indexed[e].ok
UpToDate(n, v) == v \in Nat /\ indexed[n].v <= v /\ v <= sheet[n].v

\* A chain of embeds from n; whether it ends; and a text that is of its notes.
Walks(n, w) ==
  /\ w \in Seq(PageSet) /\ Len(w) \in 1..EmbedDepth + 1 /\ w[1] = n
  /\ \A i \in 1..Len(w) : w[i] \in Chained(n)
  /\ \A i, j \in 1..Len(w) : w[i] = w[j] => i = j
  /\ \A i \in 2..Len(w) : w[i] = embeds[w[i - 1]] /\ IsGood(w[i])
WalkEnds(w) ==
  LET e == embeds[w[Len(w)]]
  IN Len(w) > EmbedDepth \/ e = "none" \/ ~IsGood(e) \/ \E i \in 1..Len(w) : w[i] = e
Tells(T, w) ==
  /\ \A p \in T : \E i \in 1..Len(w) : \E v \in Nat : p = <<w[i], v>> /\ UpToDate(w[i], v)
  /\ \A i \in 1..Len(w) : \E v \in Nat : <<w[i], v>> \in T
Partly(n, w, T) == IsUnit(n) /\ Walks(n, w) /\ Tells(T, w)
FitsIndex(n, T) == IF IsUnit(n) THEN \E w \in Seq(PageSet) : Walks(n, w) /\ WalkEnds(w) /\ Tells(T, w)
                   ELSE T = {}

\* What an export has of a note is what the index says of it.
TakenRight(s, n) ==
  /\ \A x \in s.taken : x.note = n => /\ x.face = LookedAt(n) /\ x.in = sheet[n].in /\ UpToDate(n, x.v)
  /\ n \notin s.left /\ (\A x \in s.taken : x.note # n) => ~sheet[n].there
SeenRight(s, n) == TakenRight(s, n) /\ (n = Foremost(s.left) => s.face = LookedAt(n))
ComesRight(s, n) ==
  /\ s.at = "notes" => SeenRight(s, n)
  /\ s.at = "embeds" /\ n \in s.units => Partly(n, IF n = s.chain[1] THEN s.chain ELSE <<n>>, s.text[n])
  /\ s.at = "assets" \/ (s.at = "embeds" /\ n \notin s.units) => FitsIndex(n, s.text[n])

OnTheShelf(n) == IF <<n, "file">> \in manifest THEN shelf[n] ELSE {}
Touched(n)    == armed \/ n \in unrenewed
FollowInv ==
  /\ (\A r \in Exporters : ~Running(r)) => \A n \in PageSet : Touched(n) \/ FitsIndex(n, OnTheShelf(n))
  /\ \A r \in Exporters : Running(r) => \A n \in PageSet : Touched(n) \/ ComesRight(going[r], n)

SkillsInv == SkillsShape /\ VouchedInv /\ ApartInv /\ ManifestInv /\ FollowInv

Steady(m) == /\ sheet'[m].there = sheet[m].there /\ indexed'[m] = indexed[m] /\ sheet[m].v <= sheet'[m].v
Undisturbed(n)   == sheet'[n].in = sheet[n].in /\ \A m \in Chained(n) : Steady(m)

\* The first of some notes is one of them.
LEMMA ForemostIsIn ==
  ASSUME NEW S \in SUBSET PageSet, S # {} PROVE Foremost(S) \in S
<1> DEFINE I == {i \in 1..Len(Pages) : Pages[i] \in S}
<1>1. Pages \in Seq(PageSet) /\ DOMAIN Pages = 1..Len(Pages) /\ Len(Pages) \in Nat
  BY SkillsAssumption
<1>2. I \subseteq Nat /\ I # {}
  <2>1. PICK n \in S : TRUE
    OBVIOUS
  <2>2. PICK i \in DOMAIN Pages : Pages[i] = n
    BY <2>1 DEF PageSet
  <2>3. i \in I
    BY <1>1, <2>1, <2>2
  <2>4. QED BY <1>1, <2>3
<1>3. PICK i \in I : \A j \in I : ~(<<j, i>> \in OpToRel(<, Nat))
  <2>1. IsWellFoundedOn(OpToRel(<, Nat), Nat)
    BY NatLessThanWellFounded
  <2> HIDE DEF I
  <2>2. QED BY <1>2, <2>1, WFMin
<1>4. \A j \in I : ~(j < i)
  BY <1>2, <1>3 DEF OpToRel
<1>5. i \in DOMAIN Pages /\ Pages[i] \in S /\ \A j \in DOMAIN Pages : j < i => Pages[j] \notin S
  BY <1>1, <1>4
<1>6. QED BY <1>5 DEF Foremost

LEMMA ChainedIs ==
  ASSUME LibraryShape, NEW n \in PageSet
  PROVE  /\ n \in Chained(n) /\ Chained(n) \subseteq PageSet
         /\ \A k \in Chained(n) : embeds[k] # "none" => embeds[k] \in Chained(n)
<1>1. n \in Chained(n) /\ Chained(n) \subseteq PageSet
  BY DEF Chained
<1>2. ASSUME NEW k \in Chained(n), embeds[k] # "none" PROVE embeds[k] \in Chained(n)
  <2>1. k \in PageSet /\ embeds[k] \in PageSet
    BY <1>2 DEF Chained, LibraryShape
  <2>2. ASSUME NEW S \in SUBSET PageSet, n \in S, \A l \in S : Embed(l) # "none" => Embed(l) \in S
        PROVE  embeds[k] \in S
    <3>1. k \in S
      BY <1>2, <2>2 DEF Chained
    <3>2. QED BY <1>2, <2>2, <3>1 DEF Embed
  <2>3. QED BY <2>1, <2>2 DEF Chained
<1>3. QED BY <1>1, <1>2

LEMMA UsersAre ==
  ASSUME NEW n \in PageSet, NEW m \in Chained(n) PROVE n \in Users(m)
BY DEF Users

\* What stays of a note's chain.
LEMMA UndisturbedKeeps ==
  ASSUME LibraryShape, LibraryShape', embeds' = embeds, NEW n \in PageSet, Undisturbed(n)
  PROVE  /\ IsUnit(n)' = IsUnit(n) /\ LookedAt(n)' = LookedAt(n) /\ sheet'[n].in = sheet[n].in
         /\ sheet'[n].there = sheet[n].there
         /\ \A v : UpToDate(n, v) => UpToDate(n, v)'
         /\ \A w, T : Walks(n, w) /\ Tells(T, w) => Walks(n, w)' /\ Tells(T, w)'
         /\ \A w : Walks(n, w) /\ WalkEnds(w) => WalkEnds(w)'
<1>1. n \in Chained(n) /\ Chained(n) \subseteq PageSet
      /\ \A k \in Chained(n) : embeds[k] # "none" => embeds[k] \in Chained(n)
  BY ChainedIs
<1>2. Chained(n)' = Chained(n)
  BY DEF Chained, Embed
<1>3. \A m \in Chained(n) : Steady(m)
  BY DEF Undisturbed
<1>4. \A m \in Chained(n) : IsGood(m)' = IsGood(m)
  BY <1>3 DEF Steady, IsGood
<1>5. \A m \in Chained(n) : \A v : UpToDate(m, v) => UpToDate(m, v)'
  <2>1. SUFFICES ASSUME NEW m \in Chained(n), NEW v, UpToDate(m, v) PROVE UpToDate(m, v)'
    OBVIOUS
  <2>2. sheet[m].v \in Nat /\ sheet'[m].v \in Nat /\ sheet[m].v <= sheet'[m].v /\ indexed'[m].v = indexed[m].v
    BY <1>1, <1>3 DEF LibraryShape, Sheets, Steady
  <2>3. QED BY <2>1, <2>2 DEF UpToDate
<1>6. IsUnit(n)' = IsUnit(n) /\ LookedAt(n)' = LookedAt(n)
  BY <1>1, <1>3 DEF Undisturbed, IsUnit, LookedAt, Steady
<1>7. ASSUME NEW w, NEW T, Walks(n, w), Tells(T, w) PROVE Walks(n, w)' /\ Tells(T, w)'
  <2>1. \A i \in 1..Len(w) : w[i] \in Chained(n)
    BY <1>7 DEF Walks
  <2>2. Walks(n, w)'
    <3>1. w \in Seq(PageSet) /\ Len(w) \in Nat
      BY <1>7 DEF Walks
    <3>2. \A i \in 2..Len(w) : i \in 1..Len(w)
      BY <3>1
    <3>3. QED BY <1>2, <1>4, <1>7, <2>1, <3>2 DEF Walks
  <2>3. \A i \in 1..Len(w) : \A v : UpToDate(w[i], v) => UpToDate(w[i], v)'
    BY <1>5, <2>1
  <2>4. Tells(T, w)'
    BY <1>7, <2>3 DEF Tells
  <2>5. QED BY <2>2, <2>4
<1>8. ASSUME NEW w, Walks(n, w), WalkEnds(w) PROVE WalkEnds(w)'
  <2>1. w \in Seq(PageSet) /\ Len(w) \in 1..Len(w) /\ w[Len(w)] \in Chained(n)
    BY <1>8, SkillsAssumption DEF Walks
  <2>2. embeds[w[Len(w)]] # "none" => embeds[w[Len(w)]] \in Chained(n)
    BY <1>1, <2>1
  <2>3. QED BY <1>4, <1>8, <2>2 DEF WalkEnds
<1>9. sheet'[n].in = sheet[n].in /\ sheet'[n].there = sheet[n].there
  BY <1>1, <1>3 DEF Undisturbed, Steady
<1>10. QED BY <1>1, <1>5, <1>6, <1>7, <1>8, <1>9

LEMMA FitsStays ==
  ASSUME LibraryShape, LibraryShape', embeds' = embeds, NEW n \in PageSet, Undisturbed(n), NEW T, FitsIndex(n, T)
  PROVE  FitsIndex(n, T)'
<1>1. CASE IsUnit(n)
  <2>1. PICK w \in Seq(PageSet) : Walks(n, w) /\ WalkEnds(w) /\ Tells(T, w)
    BY <1>1 DEF FitsIndex
  <2>2. Walks(n, w)' /\ WalkEnds(w)' /\ Tells(T, w)' /\ IsUnit(n)'
    BY <1>1, <2>1, UndisturbedKeeps
  <2>3. QED BY <2>2 DEF FitsIndex
<1>2. CASE ~IsUnit(n)
  <2>1. ~IsUnit(n)'
    BY <1>2, UndisturbedKeeps
  <2>2. QED BY <1>2, <2>1 DEF FitsIndex
<1>3. QED BY <1>1, <1>2

LEMMA PartlyStays ==
  ASSUME LibraryShape, LibraryShape', embeds' = embeds, NEW n \in PageSet, Undisturbed(n), NEW w, NEW T, Partly(n, w, T)
  PROVE  Partly(n, w, T)'
BY UndisturbedKeeps DEF Partly

LEMMA ComesStays ==
  ASSUME LibraryShape, LibraryShape', embeds' = embeds, NEW n \in PageSet, Undisturbed(n), NEW s, ComesRight(s, n)
  PROVE  ComesRight(s, n)'
<1>1. ASSUME s.at = "notes" PROVE SeenRight(s, n)'
  <2>1. SeenRight(s, n)
    BY <1>1 DEF ComesRight
  <2>2. /\ LookedAt(n)' = LookedAt(n) /\ sheet'[n].in = sheet[n].in /\ sheet'[n].there = sheet[n].there
        /\ \A v : UpToDate(n, v) => UpToDate(n, v)'
    BY UndisturbedKeeps
  <2>3. QED BY <2>1, <2>2 DEF SeenRight, TakenRight
<1>2. ASSUME s.at = "embeds", n \in s.units
      PROVE  Partly(n, IF n = s.chain[1] THEN s.chain ELSE <<n>>, s.text[n])'
  <2>1. Partly(n, IF n = s.chain[1] THEN s.chain ELSE <<n>>, s.text[n])
    BY <1>2 DEF ComesRight
  <2>2. QED BY <2>1, PartlyStays
<1>3. ASSUME s.at = "assets" \/ (s.at = "embeds" /\ n \notin s.units) PROVE FitsIndex(n, s.text[n])'
  <2>1. FitsIndex(n, s.text[n])
    BY <1>3 DEF ComesRight
  <2>2. QED BY <2>1, FitsStays
<1>4. QED BY <1>1, <1>2, <1>3 DEF ComesRight

\* A change of the vault leaves an export, the output and what they are about as they were.
LEMMA LibraryMoves ==
  ASSUME SkillsInv, LibraryShape', embeds' = embeds, UNCHANGED <<going, output, hasty, carried, tangled>>,
         UNCHANGED <<sources, embedded>>, onSave' \in BOOLEAN, armed' \in BOOLEAN,
         armed => armed', unrenewed \subseteq unrenewed', unrenewed' \subseteq PageSet,
         vouched \subseteq vouched', \A n \in PageSet : sheet'[n].ok => <<n, sheet'[n].v>> \in vouched',
         \A n \in PageSet : Touched(n)' \/ Undisturbed(n)
  PROVE  SkillsInv'
<1>0. going' = going /\ shelf' = shelf /\ bundle' = bundle /\ manifest' = manifest
  BY DEF output
<1>1. \A r \in Exporters : Running(r)' = Running(r) /\ going'[r] = going[r]
  BY <1>0 DEF Running
<1>2. SkillsShape'
  <2>1. SkillsShape
    BY DEF SkillsInv
  <2>2. \A s : ExportOK(s) => ExportOK(s)'
    BY DEF ExportOK, TakenOnce, UnitsOK, ChainOK, Foremost
  <2>3. ASSUME NEW r \in Exporters, Running(r)' PROVE ExportOK(going[r])'
    <3>1. PICK s : s = going[r]
      OBVIOUS
    <3>2. ExportOK(s)
      BY <1>1, <2>1, <2>3, <3>1 DEF SkillsShape
    <3>3. ExportOK(s)'
      BY <2>2, <3>2
    <3>4. QED BY <1>0, <3>1, <3>3
  <2>4. QED BY <1>0, <2>1, <2>3 DEF SkillsShape
<1>3. VouchedInv'
  <2>1. VouchedInv /\ Permissible \subseteq Permissible'
    BY DEF SkillsInv, Permissible
  <2>2. QED BY <1>0, <1>1, <2>1 DEF VouchedInv, Compiles
<1>4. ApartInv'
  <2>1. ApartInv
    BY DEF SkillsInv
  <2>2. QED BY <1>1, <2>1 DEF ApartInv
<1>5. ManifestInv'
  BY <1>0 DEF SkillsInv, ManifestInv
<1>6. FollowInv'
  <2>1. FollowInv /\ LibraryShape
    BY DEF SkillsInv, SkillsShape
  <2>2. \A n \in PageSet : Touched(n) => Touched(n)'
    BY DEF Touched
  <2>3. \A n : OnTheShelf(n)' = OnTheShelf(n)
    BY <1>0 DEF OnTheShelf
  <2>4. ASSUME \A r \in Exporters : ~Running(r)', NEW n \in PageSet, ~Touched(n)'
        PROVE  FitsIndex(n, OnTheShelf(n))'
    <3>1. FitsIndex(n, OnTheShelf(n))
      BY <1>1, <2>1, <2>2, <2>4 DEF FollowInv
    <3>2. Undisturbed(n)
      BY <2>4
    <3> DEFINE T == OnTheShelf(n)
    <3>3. FitsIndex(n, T)
      BY <3>1
    <3> HIDE DEF T
    <3>4. FitsIndex(n, T)'
      <4>1. PICK U : U = T
        OBVIOUS
      <4>2. FitsIndex(n, U)'
        BY <2>1, <3>2, <3>3, <4>1, FitsStays
      <4>3. T' = T
        BY <2>3 DEF T
      <4>4. QED BY <4>1, <4>2, <4>3
    <3>5. QED BY <3>4 DEF T
  <2>5. ASSUME NEW r \in Exporters, Running(r)', NEW n \in PageSet, ~Touched(n)'
        PROVE  ComesRight(going[r], n)'
    <3>1. PICK s : s = going[r]
      OBVIOUS
    <3>2. ComesRight(s, n) /\ Undisturbed(n)
      BY <1>1, <2>1, <2>2, <2>5, <3>1 DEF FollowInv
    <3>3. ComesRight(s, n)'
      BY <2>1, <3>2, ComesStays
    <3>4. QED BY <1>0, <3>1, <3>3
  <2>6. QED BY <1>0, <2>4, <2>5 DEF FollowInv
<1>7. QED BY <1>2, <1>3, <1>4, <1>5, <1>6 DEF SkillsInv

LEMMA SheetIs ==
  ASSUME LibraryShape, NEW n \in PageSet
  PROVE  /\ sheet[n] \in Sheets /\ sheet[n].v \in Nat /\ indexed[n] \in Faces /\ indexed[n].v \in Nat
         /\ Face(n) \in Faces /\ NoPage \in Faces /\ indexed[n].v <= sheet[n].v
BY DEF LibraryShape, Sheets, Faces, Face, NoPage

LEMMA RevisedIs ==
  ASSUME LibraryShape, NEW n \in PageSet, NEW what \in Revisions
  PROVE  /\ Revised(n, what) \in Sheets /\ sheet[n].v <= Revised(n, what).v
         /\ Revised(n, what).there = sheet[n].there /\ Revised(n, what).in = sheet[n].in
<1>1. sheet[n] \in Sheets /\ sheet[n].v \in Nat
  BY SheetIs
<1>2. PICK x \in Sheets : x = sheet[n]
  BY <1>1
<1>3. x.v \in Nat /\ x.v + 1 \in Nat /\ x.v <= x.v + 1 /\ x.v <= x.v
  BY <1>2 DEF Sheets
<1>4. CASE what = "edit"
  BY <1>2, <1>3, <1>4 DEF Revised, Sheets
<1>5. CASE what = "agent"
  BY <1>2, <1>3, <1>5 DEF Revised, Sheets
<1>6. CASE what = "accept"
  BY <1>2, <1>3, <1>6 DEF Revised, Sheets
<1>7. CASE what = "unaccept"
  BY <1>2, <1>3, <1>7 DEF Revised, Sheets
<1>8. CASE what = "mark"
  BY <1>2, <1>3, <1>8 DEF Revised, Sheets
<1>9. CASE what = "untype"
  BY <1>2, <1>3, <1>9 DEF Revised, Sheets
<1>10. QED BY <1>4, <1>5, <1>6, <1>7, <1>8, <1>9 DEF Revisions

LEMMA ReviseStep ==
  ASSUME SkillsInv, NEW n \in PageSet, NEW what \in Revisions, Revise(n, what) PROVE SkillsInv'
<1>1. LibraryShape /\ VouchedInv /\ armed \in BOOLEAN /\ onSave \in BOOLEAN /\ unrenewed \subseteq PageSet
  BY DEF SkillsInv, SkillsShape
<1>2. sheet' = [sheet EXCEPT ![n] = Revised(n, what)]
      /\ vouched' = vouched \cup (IF sheet'[n].ok THEN {<<n, sheet'[n].v>>} ELSE {})
      /\ UNCHANGED <<embeds, indexed, stock, trigger, going, output, hasty, unrenewed, carried, tangled>>
  BY DEF Revise
<1>3. sheet \in [PageSet -> Sheets]
  BY <1>1 DEF LibraryShape
<1>4. PICK x \in Sheets : x = Revised(n, what) /\ sheet[n].v <= x.v /\ x.there = sheet[n].there /\ x.in = sheet[n].in
  BY <1>1, RevisedIs
<1>5. sheet' \in [PageSet -> Sheets] /\ sheet'[n] = x /\ \A m \in PageSet : m # n => sheet'[m] = sheet[m]
  BY <1>2, <1>3, <1>4
<1>6. indexed[n].v \in Nat /\ sheet[n].v \in Nat /\ x.v \in Nat /\ indexed[n].v <= sheet[n].v
  BY <1>1, <1>4, SheetIs DEF Sheets
<1>7. indexed[n].v <= x.v
  BY <1>4, <1>6
<1>8. LibraryShape'
  BY <1>1, <1>2, <1>5, <1>7 DEF LibraryShape
<1>9. \A m \in PageSet : sheet[m].v <= sheet'[m].v
  <2>1. \A m \in PageSet : sheet[m].v \in Nat
    BY <1>1, SheetIs
  <2>2. QED BY <1>4, <1>5, <2>1
<1>10. \A m \in PageSet : Undisturbed(m)
  BY <1>2, <1>4, <1>5, <1>9 DEF Undisturbed, Steady, Chained
<1>11. \A m \in PageSet : sheet'[m].ok => <<m, sheet'[m].v>> \in vouched'
  <2>1. \A m \in PageSet : sheet[m].ok => <<m, sheet[m].v>> \in vouched
    BY <1>1 DEF VouchedInv
  <2>2. QED BY <1>2, <1>5, <2>1
<1>12. QED BY <1>1, <1>2, <1>8, <1>10, <1>11, LibraryMoves DEF trigger

LEMMA IndexFollowsStep ==
  ASSUME SkillsInv, NEW n \in PageSet, IndexFollows(n) PROVE SkillsInv'
<1>1. LibraryShape /\ VouchedInv /\ armed \in BOOLEAN /\ onSave \in BOOLEAN /\ unrenewed \subseteq PageSet
      /\ embedded = sources
  BY DEF SkillsInv, SkillsShape
<1>2. /\ indexed' = [indexed EXCEPT ![n] = Face(n)]
      /\ armed' = (armed \/ (onSave /\ Matters(n, PathOf(n))))
      /\ unrenewed' = unrenewed \cup Unheeded(n, PathOf(n))
      /\ UNCHANGED <<embeds, sheet, stock, looming, onSave, sources, going, output, vouched, hasty, embedded,
                 carried, tangled>>
  BY DEF IndexFollows
<1>3. \A m \in PageSet : indexed[m].v \in Nat /\ sheet[m].v \in Nat /\ Face(m) \in Faces /\ indexed[m].v <= sheet[m].v
  BY <1>1, SheetIs
<1>4. indexed \in [PageSet -> Faces] /\ Face(n).v = sheet[n].v
  BY <1>1 DEF LibraryShape, Face
<1>5. indexed' \in [PageSet -> Faces] /\ indexed'[n] = Face(n) /\ \A m \in PageSet : m # n => indexed'[m] = indexed[m]
  BY <1>2, <1>3, <1>4
<1>6. \A m \in PageSet : indexed'[m].v <= sheet'[m].v
  <2>1. sheet[n].v <= sheet[n].v
    BY <1>3
  <2>2. QED BY <1>2, <1>3, <1>4, <1>5, <2>1
<1>7. LibraryShape'
  BY <1>1, <1>2, <1>5, <1>6 DEF LibraryShape
<1>8. \A m \in PageSet : n \in Chained(m) => Touched(m)'
  <2>1. SUFFICES ASSUME NEW m \in PageSet, n \in Chained(m) PROVE armed' \/ m \in unrenewed'
    BY DEF Touched
  <2>2. m \in Users(n)
    BY <2>1 DEF Users
  <2>3. QED BY <1>1, <1>2, <2>2 DEF Unheeded, Matters
<1>9. \A m \in PageSet : n \notin Chained(m) => Undisturbed(m)
  <2>1. \A m \in PageSet : sheet[m].v <= sheet[m].v
    BY <1>3
  <2>2. QED BY <1>2, <1>5, <2>1 DEF Undisturbed, Steady, Chained
<1>10. unrenewed' \subseteq PageSet /\ armed' \in BOOLEAN
  BY <1>1, <1>2 DEF Unheeded, Users
<1>11. \A m \in PageSet : sheet'[m].ok => <<m, sheet'[m].v>> \in vouched'
  BY <1>1, <1>2 DEF VouchedInv
<1>12. QED BY <1>1, <1>2, <1>7, <1>8, <1>9, <1>10, <1>11, LibraryMoves

LEMMA PageMovesStep ==
  ASSUME SkillsInv, NEW n \in PageSet, PageMoves(n) PROVE SkillsInv'
<1>1. LibraryShape /\ VouchedInv /\ armed \in BOOLEAN /\ onSave \in BOOLEAN /\ unrenewed \subseteq PageSet
      /\ embedded = sources
  BY DEF SkillsInv, SkillsShape
<1>2. PICK inCache \in BOOLEAN :
       /\ armed' = (armed \/ (onSave /\ Leaves(n, inCache)))
       /\ unrenewed' = unrenewed
                        \cup (IF onSave /\ sheet[n].typed /\ (inCache \/ sheet[n].in) THEN {} ELSE {n})
                        \cup (IF onSave /\ PathOf(n) \in embedded THEN {} ELSE Users(n) \ {n})
  BY DEF PageMoves
<1>3. /\ sheet' = [sheet EXCEPT ![n].in = ~@]
      /\ UNCHANGED <<embeds, indexed, stock, onSave, sources, going, output, vouched, hasty, embedded, carried, tangled>>
  BY DEF PageMoves
<1>4. sheet \in [PageSet -> Sheets]
  BY <1>1 DEF LibraryShape
<1>5. PICK x \in Sheets : /\ sheet' = [sheet EXCEPT ![n] = x]
                          /\ x.v = sheet[n].v /\ x.there = sheet[n].there /\ x.ok = sheet[n].ok
  <2>1. PICK y \in Sheets : y = sheet[n]
    BY <1>4
  <2>2. [y EXCEPT !.in = ~@] \in Sheets
    BY <2>1 DEF Sheets
  <2>3. sheet' = [sheet EXCEPT ![n] = [y EXCEPT !.in = ~@]]
    BY <1>3, <1>4, <2>1
  <2>4. [y EXCEPT !.in = ~@].v = y.v /\ [y EXCEPT !.in = ~@].there = y.there /\ [y EXCEPT !.in = ~@].ok = y.ok
    BY <2>1 DEF Sheets
  <2>5. QED BY <2>1, <2>2, <2>3, <2>4
<1>6. sheet' \in [PageSet -> Sheets] /\ sheet'[n] = x /\ \A m \in PageSet : m # n => sheet'[m] = sheet[m]
  BY <1>4, <1>5
<1>7. LibraryShape'
  BY <1>1, <1>3, <1>5, <1>6 DEF LibraryShape
<1>8. \A m \in PageSet : sheet[m].v <= sheet'[m].v /\ sheet'[m].there = sheet[m].there
  <2>1. \A m \in PageSet : sheet[m].v \in Nat
    BY <1>1, SheetIs
  <2>2. QED BY <1>5, <1>6, <2>1
<1>9. \A m \in PageSet : m # n => Undisturbed(m)
  BY <1>3, <1>6, <1>8 DEF Undisturbed, Steady, Chained
<1>10. Touched(n)'
  BY <1>2 DEF Touched, Leaves
<1>11. unrenewed' \subseteq PageSet /\ armed' \in BOOLEAN
  <2>1. unrenewed' \subseteq PageSet
    BY <1>1, <1>2 DEF Users
  <2>2. QED BY <1>1, <1>2, <2>1
<1>12. \A m \in PageSet : sheet'[m].ok => <<m, sheet'[m].v>> \in vouched'
  BY <1>1, <1>3, <1>5, <1>6 DEF VouchedInv
<1>13. QED BY <1>1, <1>2, <1>3, <1>7, <1>9, <1>10, <1>11, <1>12, LibraryMoves

LEMMA DeletedStep ==
  ASSUME SkillsInv, NEW n \in PageSet, Deleted(n) PROVE SkillsInv'
<1>1. LibraryShape /\ VouchedInv /\ armed \in BOOLEAN /\ onSave \in BOOLEAN /\ unrenewed \subseteq PageSet
  BY DEF SkillsInv, SkillsShape
<1>2. /\ sheet' = [sheet EXCEPT ![n].there = FALSE] /\ indexed' = [indexed EXCEPT ![n] = NoPage]
      /\ unrenewed' = unrenewed \cup Users(n)
      /\ UNCHANGED <<embeds, stock, trigger, going, output, vouched, hasty, carried, tangled>>
  BY DEF Deleted
<1>4. sheet \in [PageSet -> Sheets] /\ indexed \in [PageSet -> Faces] /\ NoPage \in Faces /\ NoPage.v = 0
  BY <1>1 DEF LibraryShape, NoPage, Faces
<1>5. PICK x \in Sheets : sheet' = [sheet EXCEPT ![n] = x] /\ x.v = sheet[n].v /\ x.ok = sheet[n].ok
                          /\ x.in = sheet[n].in
  <2>1. PICK y \in Sheets : y = sheet[n]
    BY <1>4
  <2>2. [y EXCEPT !.there = FALSE] \in Sheets
    BY <2>1 DEF Sheets
  <2>3. sheet' = [sheet EXCEPT ![n] = [y EXCEPT !.there = FALSE]]
    BY <1>2, <1>4, <2>1
  <2>4. [y EXCEPT !.there = FALSE].v = y.v /\ [y EXCEPT !.there = FALSE].ok = y.ok
        /\ [y EXCEPT !.there = FALSE].in = y.in
    BY <2>1 DEF Sheets
  <2>5. QED BY <2>1, <2>2, <2>3, <2>4
<1>6. /\ sheet' \in [PageSet -> Sheets] /\ sheet'[n] = x /\ \A m \in PageSet : m # n => sheet'[m] = sheet[m]
      /\ indexed' \in [PageSet -> Faces] /\ indexed'[n] = NoPage /\ \A m \in PageSet : m # n => indexed'[m] = indexed[m]
  BY <1>2, <1>4, <1>5
<1>7. \A m \in PageSet : indexed[m].v \in Nat /\ sheet[m].v \in Nat /\ indexed[m].v <= sheet[m].v
  BY <1>1, SheetIs
<1>8. \A m \in PageSet : indexed'[m].v <= sheet'[m].v
  BY <1>4, <1>5, <1>6, <1>7
<1>9. LibraryShape'
  BY <1>1, <1>2, <1>6, <1>8 DEF LibraryShape
<1>10. \A m \in PageSet : n \in Chained(m) => Touched(m)'
  BY <1>2 DEF Users, Touched
<1>11. \A m \in PageSet : sheet[m].v <= sheet'[m].v /\ sheet'[m].in = sheet[m].in
  BY <1>5, <1>6, <1>7
<1>12. \A m \in PageSet : n \notin Chained(m) => Undisturbed(m)
  BY <1>6, <1>11 DEF Undisturbed, Steady, Chained
<1>13. unrenewed' \subseteq PageSet
  BY <1>1, <1>2 DEF Users
<1>14. \A m \in PageSet : sheet'[m].ok => <<m, sheet'[m].v>> \in vouched'
  BY <1>1, <1>2, <1>5, <1>6 DEF VouchedInv
<1>15. QED BY <1>1, <1>2, <1>9, <1>10, <1>12, <1>13, <1>14, LibraryMoves DEF trigger

LEMMA AllUndisturbed ==
  ASSUME LibraryShape, UNCHANGED <<sheet, indexed>> PROVE \A n \in PageSet : Undisturbed(n)
<1>1. \A m \in PageSet : sheet[m].v <= sheet[m].v
  BY SheetIs
<1>2. QED BY <1>1 DEF Undisturbed, Steady, Chained

LEMMA StockChangesStep ==
  ASSUME SkillsInv, NEW n \in PageSet, StockChanges(n) PROVE SkillsInv'
<1>1. LibraryShape /\ VouchedInv /\ armed \in BOOLEAN /\ onSave \in BOOLEAN /\ unrenewed \subseteq PageSet
  BY DEF SkillsInv, SkillsShape
<1>2. /\ stock' = [stock EXCEPT ![n] = "evicted"]
      /\ UNCHANGED <<embeds, sheet, indexed, trigger, going, output, vouched, hasty, unrenewed, carried, tangled>>
  BY DEF StockChanges
<1>3. LibraryShape'
  BY <1>1, <1>2 DEF LibraryShape
<1>4. \A m \in PageSet : sheet'[m].ok => <<m, sheet'[m].v>> \in vouched'
  BY <1>1, <1>2 DEF VouchedInv
<1>5. QED BY <1>1, <1>2, <1>3, <1>4, AllUndisturbed, LibraryMoves DEF trigger

LEMMA SettingChangesStep ==
  ASSUME SkillsInv, SettingChanges PROVE SkillsInv'
<1>1. LibraryShape /\ VouchedInv /\ armed \in BOOLEAN /\ onSave \in BOOLEAN /\ unrenewed \subseteq PageSet
  BY DEF SkillsInv, SkillsShape
<1>2. /\ onSave' = ~onSave
      /\ UNCHANGED <<embeds, sheet, indexed, stock, armed, sources, going, output, vouched, hasty, unrenewed,
                 embedded, carried, tangled>>
  BY DEF SettingChanges
<1>3. LibraryShape'
  BY <1>1, <1>2 DEF LibraryShape
<1>4. \A m \in PageSet : sheet'[m].ok => <<m, sheet'[m].v>> \in vouched'
  BY <1>1, <1>2 DEF VouchedInv
<1>5. QED BY <1>1, <1>2, <1>3, <1>4, AllUndisturbed, LibraryMoves

\* One export takes a step: what is left to show of the shape, and of what the others do.
LEMMA GoingTo ==
  ASSUME SkillsShape, NEW r \in Exporters, NEW s, s = NotGoing \/ ExportOK(s), going' = [going EXCEPT ![r] = s]
  PROVE  /\ going'[r] = s /\ (Running(r)' <=> s # NotGoing) /\ going' \in [Exporters -> Exports \cup {NotGoing}]
         /\ \A q \in Exporters \ {r} : going'[q] = going[q] /\ Running(q)' = Running(q)
<1>1. going \in [Exporters -> Exports \cup {NotGoing}]
  BY DEF SkillsShape
<1>2. s \in Exports \cup {NotGoing}
  BY DEF ExportOK
<1>3. going'[r] = s /\ going' \in [Exporters -> Exports \cup {NotGoing}]
      /\ \A q \in Exporters \ {r} : going'[q] = going[q]
  BY <1>1, <1>2
<1>4. NotGoing.at = "idle" /\ (ExportOK(s) => s.at # "idle")
  BY DEF NotGoing, ExportOK, Exports
<1>5. s.at # "idle" <=> s # NotGoing
  BY <1>4
<1>6. Running(r)' <=> s # NotGoing
  BY <1>3, <1>5 DEF Running
<1>7. \A q \in Exporters \ {r} : Running(q)' = Running(q)
  BY <1>3 DEF Running
<1>8. QED BY <1>3, <1>6, <1>7

LEMMA ShapeAfter ==
  ASSUME SkillsShape, NEW r \in Exporters, NEW s, s = NotGoing \/ ExportOK(s), going' = [going EXCEPT ![r] = s],
         UNCHANGED <<embeds, sheet, indexed, stock>>, onSave' \in BOOLEAN, armed' \in BOOLEAN, tangled' \in BOOLEAN,
         shelf' \in [PageSet -> PageTexts], bundle' \subseteq PageSet, manifest' \subseteq Listable,
         unrenewed' \subseteq PageSet, embedded' = sources'
  PROVE  SkillsShape'
<1>1. LibraryShape'
  BY DEF SkillsShape, LibraryShape
<1>2. \A x : ExportOK(x) => ExportOK(x)'
  BY DEF ExportOK, TakenOnce, UnitsOK, ChainOK, Foremost
<1>3. ASSUME NEW q \in Exporters, Running(q)' PROVE ExportOK(going[q])'
  <2>1. PICK x : x = going'[q]
    OBVIOUS
  <2>2. ExportOK(x)
    <3>1. CASE q = r
      BY <1>3, <2>1, <3>1, GoingTo
    <3>2. CASE q # r
      BY <1>3, <2>1, <3>2, GoingTo DEF SkillsShape
    <3>3. QED BY <3>1, <3>2
  <2>3. ExportOK(x)'
    BY <1>2, <2>2
  <2>4. QED BY <2>1, <2>3
<1>4. going' \in [Exporters -> Exports \cup {NotGoing}]
  BY GoingTo
<1>5. QED BY <1>1, <1>3, <1>4 DEF SkillsShape

LEMMA AllTouched ==
  ASSUME unrenewed' = PageSet PROVE FollowInv'
BY DEF FollowInv, Touched

\* Two exports that meet are known to have met.
LEMMA ApartAfter ==
  ASSUME SkillsShape, ApartInv, NEW r \in Exporters, NEW s, s = NotGoing \/ ExportOK(s), going' = [going EXCEPT ![r] = s],
         s # NotGoing /\ OtherRuns(r) => unrenewed' = PageSet /\ tangled',
         OtherRuns(r) => \/ unrenewed' = PageSet /\ tangled'
                         \/ unrenewed' = unrenewed /\ tangled' = tangled
  PROVE  ApartInv'
<1>1. SUFFICES ASSUME NEW p \in Exporters, NEW q \in Exporters, p # q, Running(p)', Running(q)'
               PROVE  unrenewed' = PageSet /\ tangled'
  BY DEF ApartInv
<1>2. CASE p = r
  BY <1>1, <1>2, GoingTo DEF OtherRuns
<1>3. CASE q = r
  BY <1>1, <1>3, GoingTo DEF OtherRuns
<1>4. p = r \/ q = r
  BY <1>1 DEF Exporters
<1>5. QED BY <1>2, <1>3, <1>4

LEMMA BegunIs ==
  ASSUME LibraryShape, Begun # NotGoing
  PROVE  /\ ExportOK(Begun) /\ Begun.at = "notes" /\ Begun.taken = {} /\ \A n \in PageSet : Begun.text[n] = {}
         /\ \A n \in PageSet : SeenRight(Begun, n)
<1> DEFINE left == {n \in PageSet : sheet[n].there}
           g == [at |-> "notes", left |-> left, face |-> indexed[Foremost(left)], taken |-> {}, units |-> {},
                 chain |-> <<>>, text |-> [n \in PageSet |-> {}], looked |-> {}, read |-> {}, prev |-> {}]
<1>1. Begun = g /\ left # {}
  BY DEF Begun
<1>2. Foremost(left) \in left
  BY <1>1, ForemostIsIn
<1>3. indexed[Foremost(left)] \in Faces
  BY <1>2 DEF LibraryShape
<1>4. <<>> \in Seq(PageSet)
  OBVIOUS
<1>5. g \in Exports
  BY <1>3, <1>4 DEF Exports, PageTexts, Spotted, Takes, Listable
<1>6. ExportOK(g)
  BY <1>1, <1>5 DEF ExportOK, TakenOnce, UnitsOK
<1>7. \A n \in PageSet : SeenRight(g, n)
  <2>1. \A n \in PageSet : n \notin left => ~sheet[n].there
    OBVIOUS
  <2>2. LookedAt(Foremost(left)) = indexed[Foremost(left)]
    BY <1>2 DEF LookedAt
  <2>3. QED BY <2>1, <2>2 DEF SeenRight, TakenRight
<1>8. g.at = "notes" /\ g.taken = {} /\ \A n \in PageSet : g.text[n] = {}
  OBVIOUS
<1> HIDE DEF g
<1>9. QED BY <1>1, <1>6, <1>7, <1>8

LEMMA ExportStartsStep ==
  ASSUME SkillsInv, NEW r \in Exporters, ~Running(r), ExportStarts(r), armed' \in BOOLEAN,
         UNCHANGED <<embeds, sheet, indexed, stock, vouched, onSave, sources, embedded, output, hasty, carried>>
  PROVE  SkillsInv'
<1>0. SkillsShape /\ VouchedInv /\ ApartInv /\ ManifestInv /\ FollowInv /\ LibraryShape
  BY DEF SkillsInv, SkillsShape
<1>1. PICK s : s = Begun
  OBVIOUS
<1>2. going' = [going EXCEPT ![r] = s]
  BY <1>1 DEF ExportStarts
<1>3. s = NotGoing \/ ExportOK(s)
  BY <1>0, <1>1, BegunIs
<1>4. /\ unrenewed' = (IF OtherRuns(r) \/ s = NotGoing THEN PageSet ELSE {})
      /\ tangled' = (tangled \/ OtherRuns(r))
  BY <1>1 DEF ExportStarts
<1>5. shelf' = shelf /\ bundle' = bundle /\ manifest' = manifest
  BY DEF output
<1>6. /\ going'[r] = s /\ (Running(r)' <=> s # NotGoing)
      /\ \A q \in Exporters \ {r} : going'[q] = going[q] /\ Running(q)' = Running(q)
  BY <1>0, <1>2, <1>3, GoingTo
<1>7. SkillsShape'
  <2>1. unrenewed' \subseteq PageSet /\ tangled' \in BOOLEAN
    BY <1>4, <1>0 DEF SkillsShape
  <2>2. shelf' \in [PageSet -> PageTexts] /\ bundle' \subseteq PageSet /\ manifest' \subseteq Listable
        /\ embedded' = sources' /\ onSave' \in BOOLEAN
    BY <1>0, <1>5 DEF SkillsShape
  <2>3. QED BY <1>0, <1>2, <1>3, <2>1, <2>2, ShapeAfter
<1>8. s # NotGoing => /\ s.at = "notes" /\ s.taken = {} /\ \A n \in PageSet : s.text[n] = {}
                      /\ \A n \in PageSet : SeenRight(s, n)
  BY <1>0, <1>1, BegunIs
<1>9. VouchedInv'
  <2>1. Permissible' = Permissible
    BY DEF Permissible
  <2>2. \A q \in Exporters : Running(q)' =>
          /\ \A x \in going'[q].taken : Compiles(x) => <<x.note, x.v>> \in Permissible
          /\ \A n \in PageSet : going'[q].text[n] \subseteq Permissible
    BY <1>0, <1>6, <1>8 DEF VouchedInv
  <2>3. QED BY <1>0, <1>5, <2>1, <2>2 DEF VouchedInv, Compiles
<1>10. ApartInv'
  BY <1>0, <1>2, <1>3, <1>4, ApartAfter
<1>11. ManifestInv'
  <2>1. s.at # "assets"
    BY <1>8 DEF NotGoing
  <2>2. QED BY <1>0, <1>4, <1>5, <1>6, <2>1 DEF ManifestInv
<1>12. FollowInv'
  <2>1. CASE unrenewed' = PageSet
    BY <2>1, AllTouched
  <2>2. CASE ~OtherRuns(r) /\ s # NotGoing
    <3>1. \A q \in Exporters \ {r} : ~Running(q)'
      BY <1>6, <2>2 DEF OtherRuns
    <3>2. Running(r)'
      BY <1>6, <2>2
    <3>3. \A n \in PageSet : ComesRight(s, n)'
      <4>1. \A n \in PageSet : SeenRight(s, n)'
        BY <1>8, <2>2 DEF SeenRight, TakenRight, LookedAt, UpToDate
      <4>2. QED BY <1>8, <2>2, <4>1 DEF ComesRight
    <3>4. ASSUME NEW q \in Exporters, Running(q)', NEW n \in PageSet PROVE ComesRight(going[q], n)'
      <4>1. q = r /\ going'[q] = s
        BY <1>6, <3>1, <3>4
      <4>2. QED BY <3>3, <4>1
    <3>5. QED BY <3>2, <3>4 DEF FollowInv
  <2>3. QED BY <1>4, <2>1, <2>2
<1>13. QED BY <1>7, <1>9, <1>10, <1>11, <1>12 DEF SkillsInv

LEMMA FiresStep ==
  ASSUME SkillsInv, Fires PROVE SkillsInv'
<1>0. SkillsShape /\ VouchedInv /\ ApartInv /\ ManifestInv /\ LibraryShape /\ onSave \in BOOLEAN
      /\ unrenewed \subseteq PageSet /\ armed
  BY DEF SkillsInv, SkillsShape, Fires
<1>1. /\ armed' = (onSave /\ Running("gui"))
      /\ UNCHANGED <<embeds, sheet, indexed, stock, vouched, onSave, sources, embedded, output, hasty, carried>>
  BY DEF Fires, library, Rearmed
<1>2. armed' \in BOOLEAN
  BY <1>0, <1>1 DEF Running
<1>3. LibraryShape'
  BY <1>0, <1>1 DEF LibraryShape
<1>4. \A m \in PageSet : sheet'[m].ok => <<m, sheet'[m].v>> \in vouched'
  BY <1>0, <1>1 DEF VouchedInv
<1>5. CASE onSave /\ ~Running("gui")
  <2>1. ExportStarts("gui") /\ "gui" \in Exporters
    BY <1>5 DEF Fires, Exporters
  <2>2. QED BY <1>1, <1>2, <1>5, <2>1, ExportStartsStep
<1>6. CASE onSave /\ Running("gui")
  <2>1. UNCHANGED <<going, tangled, unrenewed>> /\ armed'
    BY <1>1, <1>6 DEF Fires
  <2>2. QED BY <1>0, <1>1, <1>2, <1>3, <1>4, <2>1, AllUndisturbed, LibraryMoves
<1>7. CASE ~onSave
  <2>1. UNCHANGED <<going, tangled>> /\ unrenewed' = PageSet
    BY <1>7 DEF Fires
  <2>2. ASSUME NEW n \in PageSet PROVE Touched(n)'
    BY <2>1, <2>2 DEF Touched
  <2>3. FollowInv'
    BY <2>1, AllTouched
  <2>4. going' = going /\ tangled' = tangled /\ shelf' = shelf /\ bundle' = bundle /\ manifest' = manifest
    BY <1>1, <2>1 DEF output
  <2>5. SkillsShape'
    <3>1. \A s : ExportOK(s) => ExportOK(s)'
      BY <1>1 DEF ExportOK, TakenOnce, UnitsOK, ChainOK, Foremost
    <3>2. ASSUME NEW r \in Exporters, Running(r)' PROVE ExportOK(going[r])'
      <4>1. PICK s : s = going[r]
        OBVIOUS
      <4>2. ExportOK(s)
        BY <1>0, <2>4, <3>2, <4>1 DEF SkillsShape, Running
      <4>3. ExportOK(s)'
        BY <3>1, <4>2
      <4>4. QED BY <2>4, <4>1, <4>3
    <3>3. QED BY <1>0, <1>1, <1>2, <1>3, <2>1, <2>4, <3>2 DEF SkillsShape
  <2>6. VouchedInv'
    BY <1>0, <1>1, <2>4 DEF VouchedInv, Permissible, Compiles, Running
  <2>7. ApartInv'
    BY <1>0, <2>1, <2>4 DEF ApartInv, Running
  <2>8. ManifestInv'
    BY <1>0, <1>1, <2>4 DEF ManifestInv
  <2>9. QED BY <2>3, <2>5, <2>6, <2>7, <2>8 DEF SkillsInv
<1>8. QED BY <1>5, <1>6, <1>7

LEMMA RestartsStep ==
  ASSUME SkillsInv, Restarts PROVE SkillsInv'
<1>0. SkillsShape /\ VouchedInv /\ ApartInv /\ ManifestInv /\ LibraryShape
  BY DEF SkillsInv, SkillsShape
<1>1. /\ armed' = FALSE /\ sources' = {} /\ embedded' = {} /\ going' = [r \in Exporters |-> NotGoing]
      /\ unrenewed' = PageSet
      /\ UNCHANGED <<embeds, sheet, indexed, stock, vouched, onSave, output, hasty, carried, tangled>>
  BY DEF Restarts
<1>2. shelf' = shelf /\ bundle' = bundle /\ manifest' = manifest
  BY <1>1 DEF output
<1>3. \A r \in Exporters : ~Running(r)' /\ going'[r].at # "assets"
  BY <1>1 DEF Running, NotGoing
<1>4. LibraryShape'
  BY <1>0, <1>1 DEF LibraryShape
<1>5. SkillsShape'
  <2>1. going' \in [Exporters -> Exports \cup {NotGoing}]
    BY <1>1
  <2>2. \A r \in Exporters : (Running(r) => ExportOK(going[r]))'
    BY <1>3
  <2>3. QED BY <1>0, <1>1, <1>2, <1>4, <2>1, <2>2 DEF SkillsShape
<1>6. VouchedInv'
  BY <1>0, <1>1, <1>2, <1>3 DEF VouchedInv, Permissible
<1>7. ApartInv'
  BY <1>3 DEF ApartInv
<1>8. ManifestInv'
  BY <1>0, <1>1, <1>2, <1>3 DEF ManifestInv
<1>9. FollowInv'
  BY <1>1, AllTouched
<1>10. QED BY <1>5, <1>6, <1>7, <1>8, <1>9 DEF SkillsInv

\* What comes next once a note or an embed is done.
LEMMA TurnsToNote ==
  ASSUME LibraryShape, NEW s \in Exports, s.left # {}
  PROVE  LET t == Turns(s)
         IN /\ t \in Exports /\ t.face = LookedAt(Foremost(s.left)) /\ t.at = s.at /\ t.left = s.left
            /\ t.taken = s.taken /\ t.units = s.units /\ t.chain = s.chain /\ t.text = s.text
            /\ t.looked = s.looked /\ t.read = s.read /\ t.prev = s.prev
<1>1. Foremost(s.left) \in PageSet
  <2>1. s.left \in SUBSET PageSet
    BY DEF Exports
  <2>2. QED BY <2>1, ForemostIsIn
<1>2. PICK f \in Faces : f = LookedAt(Foremost(s.left))
  BY <1>1, SheetIs DEF LookedAt
<1>3. Turns(s) = [s EXCEPT !.face = f]
  BY <1>2 DEF Turns
<1>4. QED BY <1>2, <1>3 DEF Exports

LEMMA TurnsToEmbeds ==
  ASSUME NEW s \in Exports, s.left = {}, s.units # {}
  PROVE  LET t == Turns(s)
         IN /\ t \in Exports /\ t.chain = <<Foremost(s.units)>> /\ t.at = "embeds" /\ t.left = s.left
            /\ t.taken = s.taken /\ t.units = s.units /\ t.face = s.face /\ t.text = s.text
            /\ t.looked = s.looked /\ t.read = s.read /\ t.prev = s.prev
            /\ Foremost(s.units) \in s.units
<1>1. s.units \in SUBSET PageSet
  BY DEF Exports
<1>2. Foremost(s.units) \in s.units
  BY <1>1, ForemostIsIn
<1>3. PICK c \in Seq(PageSet) : c = <<Foremost(s.units)>>
  <2>1. PICK u \in PageSet : u = Foremost(s.units)
    BY <1>1, <1>2
  <2>2. <<u>> \in Seq(PageSet)
    OBVIOUS
  <2>3. QED BY <2>1, <2>2
<1>4. Turns(s) = [s EXCEPT !.at = "embeds", !.chain = c]
  BY <1>3 DEF Turns
<1>5. QED BY <1>2, <1>3, <1>4 DEF Exports

LEMMA TurnsToAssets ==
  ASSUME NEW s \in Exports, s.left = {}, s.units = {}, manifest \subseteq Listable
  PROVE  LET t == Turns(s)
         IN /\ t \in Exports /\ t.at = "assets" /\ t.prev = manifest /\ t.chain = s.chain /\ t.left = s.left
            /\ t.taken = s.taken /\ t.units = s.units /\ t.face = s.face /\ t.text = s.text
            /\ t.looked = s.looked /\ t.read = s.read
<1>1. PICK m \in SUBSET Listable : m = manifest
  OBVIOUS
<1>2. Turns(s) = [s EXCEPT !.at = "assets", !.prev = m]
  BY <1>1 DEF Turns
<1>3. QED BY <1>1, <1>2 DEF Exports

LEMMA CollectedIs ==
  ASSUME NEW s \in Exports, s.left = {}
  PROVE  LET t == Collected(s)
         IN /\ t \in Exports /\ t.at = s.at /\ t.prev = s.prev /\ t.chain = s.chain /\ t.left = s.left
            /\ t.taken = s.taken /\ t.face = s.face /\ t.looked = s.looked /\ t.read = s.read
            /\ \A n \in PageSet : t.text[n] = {<<x.note, x.v>> : x \in {y \in s.taken : Compiles(y) /\ y.note = n}}
            /\ \A n \in PageSet : n \in t.units <=> embeds[n] # "none" /\ \E x \in s.taken : Compiles(x) /\ x.note = n
<1> DEFINE compiled == {x \in s.taken : Compiles(x)}
           text == [n \in PageSet |-> {<<x.note, x.v>> : x \in {y \in compiled : y.note = n}}]
           units == {n \in PageSet : Embed(n) # "none" /\ \E x \in compiled : x.note = n}
<1>1. s.taken \subseteq Takes
  BY DEF Exports
<1>2. \A n \in PageSet : text[n] \in PageTexts
  BY <1>1 DEF Takes, PageTexts
<1>3. PICK T \in [PageSet -> PageTexts] : T = text
  BY <1>2
<1>4. PICK U \in SUBSET PageSet : U = units
  OBVIOUS
<1>5. Collected(s) = [s EXCEPT !.text = T, !.units = U]
  BY <1>3, <1>4 DEF Collected
<1>6. \A n \in PageSet : T[n] = {<<x.note, x.v>> : x \in {y \in s.taken : Compiles(y) /\ y.note = n}}
  BY <1>3
<1>7. \A n \in PageSet : n \in U <=> embeds[n] # "none" /\ \E x \in s.taken : Compiles(x) /\ x.note = n
  BY <1>4 DEF Embed
<1> HIDE DEF text, units
<1>8. PICK t : t = [s EXCEPT !.text = T, !.units = U]
  OBVIOUS
<1>9. t.text = T /\ t.units = U
  BY <1>8 DEF Exports
<1>10. /\ t \in Exports /\ t.at = s.at /\ t.prev = s.prev /\ t.chain = s.chain /\ t.left = s.left
       /\ t.taken = s.taken /\ t.face = s.face /\ t.looked = s.looked /\ t.read = s.read
  BY <1>8 DEF Exports
<1>11. QED BY <1>5, <1>6, <1>7, <1>8, <1>9, <1>10

\* What is taken by the index compiles if the note is a unit by it.
LEMMA CompilesIs ==
  ASSUME NEW n \in PageSet, NEW x, x.face = LookedAt(n), x.in = sheet[n].in
  PROVE  Compiles(x) <=> IsUnit(n)
BY DEF Compiles, IsUnit, LookedAt, NoPage

\* A note alone is a chain, and its text tells of it.
LEMMA AloneWalks ==
  ASSUME LibraryShape, NEW n \in PageSet PROVE Walks(n, <<n>>)
<1>1. n \in Chained(n)
  BY ChainedIs
<1>2. <<n>> \in Seq(PageSet) /\ Len(<<n>>) = 1 /\ <<n>>[1] = n
  OBVIOUS
<1>3. 1 \in 1..EmbedDepth + 1
  BY SkillsAssumption
<1>4. \A i \in 1..1 : i = 1
  OBVIOUS
<1>5. 2..1 = {}
  OBVIOUS
<1>6. PICK w : w = <<n>>
  OBVIOUS
<1>7. Walks(n, w)
  BY <1>1, <1>2, <1>3, <1>4, <1>5, <1>6 DEF Walks
<1>8. QED BY <1>6, <1>7

LEMMA AloneTells ==
  ASSUME NEW n \in PageSet, NEW v, UpToDate(n, v), NEW T, T = {<<n, v>>} PROVE Tells(T, <<n>>)
<1>1. Len(<<n>>) = 1 /\ <<n>>[1] = n /\ v \in Nat
  BY DEF UpToDate
<1>2. \A i \in 1..1 : i = 1
  OBVIOUS
<1>3. 1 \in 1..1
  OBVIOUS
<1>4. PICK w : w = <<n>>
  OBVIOUS
<1>5. Tells(T, w)
  <2>1. \A p \in T : \E i \in 1..Len(w) : \E u \in Nat : p = <<w[i], u>> /\ UpToDate(w[i], u)
    BY <1>1, <1>3, <1>4
  <2>2. \A i \in 1..Len(w) : \E u \in Nat : <<w[i], u>> \in T
    BY <1>1, <1>2, <1>4
  <2>3. QED BY <2>1, <2>2 DEF Tells
<1>6. QED BY <1>4, <1>5

LEMMA AloneEnds ==
  ASSUME NEW n \in PageSet, embeds[n] = "none" PROVE WalkEnds(<<n>>)
<1>1. Len(<<n>>) = 1 /\ <<n>>[1] = n
  OBVIOUS
<1>2. QED BY <1>1 DEF WalkEnds

\* The text and the units, of what an export took of a note.
LEMMA CollectedRight ==
  ASSUME LibraryShape, NEW s \in Exports, s.left = {}, TakenOnce(s), NEW n \in PageSet, TakenRight(s, n)
  PROVE  LET t == Collected(s)
         IN IF n \in t.units THEN Partly(n, <<n>>, t.text[n]) ELSE FitsIndex(n, t.text[n])
<1>1. PICK t : t = Collected(s)
  OBVIOUS
<1>2. /\ t.text[n] = {<<x.note, x.v>> : x \in {y \in s.taken : Compiles(y) /\ y.note = n}}
      /\ n \in t.units <=> embeds[n] # "none" /\ \E x \in s.taken : Compiles(x) /\ x.note = n
  BY <1>1, CollectedIs
<1>3. CASE \E x \in s.taken : Compiles(x) /\ x.note = n
  <2>1. PICK x \in s.taken : Compiles(x) /\ x.note = n
    BY <1>3
  <2>2. x.face = LookedAt(n) /\ x.in = sheet[n].in /\ UpToDate(n, x.v)
    BY <2>1 DEF TakenRight
  <2>3. IsUnit(n)
    BY <2>1, <2>2, CompilesIs
  <2>4. t.text[n] = {<<n, x.v>>}
    <3>1. \A y \in s.taken : y.note = n => y = x
      BY <2>1 DEF TakenOnce
    <3>2. QED BY <1>2, <2>1, <3>1
  <2>5. PICK w \in Seq(PageSet) : w = <<n>>
    <3>1. <<n>> \in Seq(PageSet)
      OBVIOUS
    <3>2. QED BY <3>1
  <2>6. Walks(n, w) /\ Tells(t.text[n], w)
    BY <2>2, <2>4, <2>5, AloneWalks, AloneTells
  <2>7. Partly(n, w, t.text[n])
    BY <2>3, <2>6 DEF Partly
  <2>8. ASSUME n \notin t.units PROVE FitsIndex(n, t.text[n])
    <3>1. embeds[n] = "none"
      BY <1>2, <1>3, <2>8
    <3>2. WalkEnds(w)
      BY <2>5, <3>1, AloneEnds
    <3>3. QED BY <2>3, <2>6, <3>2 DEF FitsIndex
  <2>9. QED BY <1>1, <2>5, <2>7, <2>8
<1>4. CASE ~\E x \in s.taken : Compiles(x) /\ x.note = n
  <2>1. n \notin t.units /\ t.text[n] = {}
    BY <1>2, <1>4
  <2>2. ~IsUnit(n)
    <3>1. CASE \E x \in s.taken : x.note = n
      <4>1. PICK x \in s.taken : x.note = n
        BY <3>1
      <4>2. ~Compiles(x) /\ x.face = LookedAt(n) /\ x.in = sheet[n].in
        BY <1>4, <4>1 DEF TakenRight
      <4>3. QED BY <4>2, CompilesIs
    <3>2. CASE ~\E x \in s.taken : x.note = n
      BY <3>2 DEF TakenRight, IsUnit
    <3>3. QED BY <3>1, <3>2
  <2>3. QED BY <1>1, <2>1, <2>2 DEF FitsIndex
<1>5. QED BY <1>3, <1>4

\* An export that goes on: what it has must still come right, and be permissible.
LEMMA ExportMoves ==
  ASSUME SkillsInv, NEW r \in Exporters, Running(r), NEW s, ExportOK(s), going' = [going EXCEPT ![r] = s],
         UNCHANGED <<library, trigger, output, unrenewed, carried, tangled>>, hasty \subseteq hasty',
         s.at = "assets" => s.prev = manifest,
         \A x \in s.taken : Compiles(x) => <<x.note, x.v>> \in Permissible',
         \A n \in PageSet : s.text[n] \subseteq Permissible',
         \A n \in PageSet : ComesRight(going[r], n) => ComesRight(s, n)
  PROVE  SkillsInv'
<1>0. SkillsShape /\ VouchedInv /\ ApartInv /\ ManifestInv /\ FollowInv /\ LibraryShape
  BY DEF SkillsInv, SkillsShape
<1>1. /\ UNCHANGED <<embeds, sheet, indexed, stock, looming, vouched>>
      /\ UNCHANGED <<onSave, armed, sources, embedded>>
      /\ UNCHANGED <<shelf, bundle, manifest, unrenewed, carried, tangled>>
  BY DEF library, trigger, output
<1>2. /\ going'[r] = s /\ Running(r)'
      /\ \A q \in Exporters \ {r} : going'[q] = going[q] /\ Running(q)' = Running(q)
  <2>1. s # NotGoing
    BY DEF ExportOK, Exports, NotGoing
  <2>2. QED BY <1>0, <2>1, GoingTo
<1>3. SkillsShape'
  <2>1. /\ onSave' \in BOOLEAN /\ armed' \in BOOLEAN /\ tangled' \in BOOLEAN
        /\ shelf' \in [PageSet -> PageTexts] /\ bundle' \subseteq PageSet /\ manifest' \subseteq Listable
        /\ unrenewed' \subseteq PageSet /\ embedded' = sources'
    BY <1>0, <1>1 DEF SkillsShape
  <2>2. QED BY <1>0, <1>1, <2>1, ShapeAfter
<1>4. VouchedInv'
  <2>1. Permissible \subseteq Permissible'
    BY <1>1 DEF Permissible
  <2>2. \A q \in Exporters : Running(q)' =>
          /\ \A x \in going'[q].taken : Compiles(x) => <<x.note, x.v>> \in Permissible'
          /\ \A n \in PageSet : going'[q].text[n] \subseteq Permissible'
    <3>1. SUFFICES ASSUME NEW q \in Exporters, Running(q)'
                   PROVE  /\ \A x \in going'[q].taken : Compiles(x) => <<x.note, x.v>> \in Permissible'
                          /\ \A n \in PageSet : going'[q].text[n] \subseteq Permissible'
      OBVIOUS
    <3>2. CASE q = r
      BY <1>2, <3>2
    <3>3. CASE q # r
      <4>1. going'[q] = going[q] /\ Running(q)
        BY <1>2, <3>1, <3>3
      <4>2. QED BY <1>0, <2>1, <4>1 DEF VouchedInv
    <3>4. QED BY <3>2, <3>3
  <2>3. QED BY <1>0, <1>1, <2>1, <2>2 DEF VouchedInv, Compiles
<1>5. ApartInv'
  <2>1. \A q \in Exporters : Running(q)' => Running(q)
    BY <1>2
  <2>2. QED BY <1>0, <1>1, <2>1 DEF ApartInv
<1>6. ManifestInv'
  BY <1>0, <1>1, <1>2 DEF ManifestInv
<1>7. FollowInv'
  <2>1. \A n \in PageSet : \A x : ComesRight(x, n) => ComesRight(x, n)'
    <3>1. LibraryShape' /\ embeds' = embeds /\ \A n \in PageSet : Undisturbed(n)
      BY <1>0, <1>1, <1>3, AllUndisturbed DEF SkillsShape
    <3>2. QED BY <1>0, <3>1, ComesStays
  <2>2. ASSUME NEW q \in Exporters, Running(q)', NEW n \in PageSet, ~Touched(n)'
        PROVE  ComesRight(going[q], n)'
    <3>1. PICK x : x = going'[q]
      OBVIOUS
    <3>2. ~Touched(n)
      BY <1>1, <2>2 DEF Touched
    <3>3. ComesRight(x, n)
      <4>1. CASE q = r
        BY <1>0, <1>2, <3>1, <3>2, <4>1 DEF FollowInv
      <4>2. CASE q # r
        BY <1>0, <1>2, <2>2, <3>1, <3>2, <4>2 DEF FollowInv
      <4>3. QED BY <4>1, <4>2
    <3>4. ComesRight(x, n)'
      BY <2>1, <3>3
    <3>5. QED BY <3>1, <3>4
  <2>3. QED BY <1>2, <2>2 DEF FollowInv
<1>8. QED BY <1>3, <1>4, <1>5, <1>6, <1>7 DEF SkillsInv

LEMMA ExportGivesUp ==
  ASSUME SkillsInv, NEW r \in Exporters, Running(r), GoingEnds(r), unrenewed' = PageSet,
         UNCHANGED <<library, trigger, output, hasty, carried, tangled>>
  PROVE  SkillsInv'
<1>0. SkillsShape /\ VouchedInv /\ ApartInv /\ ManifestInv /\ FollowInv /\ LibraryShape
  BY DEF SkillsInv, SkillsShape
<1>1. /\ UNCHANGED <<embeds, sheet, indexed, stock, looming, vouched>>
      /\ UNCHANGED <<onSave, armed, sources, embedded>>
      /\ UNCHANGED <<shelf, bundle, manifest, hasty, carried, tangled>>
  BY DEF library, trigger, output
<1>2. PICK s : s = NotGoing
  OBVIOUS
<1>3. going' = [going EXCEPT ![r] = s]
  BY <1>2 DEF GoingEnds
<1>4. /\ going'[r] = s /\ ~Running(r)'
      /\ \A q \in Exporters \ {r} : going'[q] = going[q] /\ Running(q)' = Running(q)
  BY <1>0, <1>2, <1>3, GoingTo
<1>5. SkillsShape'
  <2>1. /\ onSave' \in BOOLEAN /\ armed' \in BOOLEAN /\ tangled' \in BOOLEAN
        /\ shelf' \in [PageSet -> PageTexts] /\ bundle' \subseteq PageSet /\ manifest' \subseteq Listable
        /\ unrenewed' \subseteq PageSet /\ embedded' = sources'
    BY <1>0, <1>1 DEF SkillsShape
  <2>2. QED BY <1>0, <1>1, <1>2, <1>3, <2>1, ShapeAfter
<1>6. VouchedInv'
  <2>1. Permissible' = Permissible
    BY <1>1 DEF Permissible
  <2>2. \A q \in Exporters : Running(q)' => going'[q] = going[q] /\ Running(q)
    BY <1>4
  <2>3. QED BY <1>0, <1>1, <2>1, <2>2 DEF VouchedInv, Compiles
<1>7. ApartInv'
  <2>1. OtherRuns(r) => tangled
    BY <1>0 DEF ApartInv, OtherRuns
  <2>2. tangled' = tangled
    BY <1>1
  <2>3. OtherRuns(r) => unrenewed' = PageSet /\ tangled'
    BY <2>1, <2>2
  <2>4. QED BY <1>0, <1>2, <1>3, <2>3, ApartAfter
<1>8. ManifestInv'
  <2>1. s.at # "assets"
    BY <1>2 DEF NotGoing
  <2>2. QED BY <1>0, <1>1, <1>4, <2>1 DEF ManifestInv
<1>9. FollowInv'
  BY AllTouched
<1>10. QED BY <1>5, <1>6, <1>7, <1>8, <1>9 DEF SkillsInv

NoteOf(s, n)      == [note |-> n, v |-> sheet[n].v, face |-> s.face, in |-> sheet[n].in]
WithNote(s, n, x) == [s EXCEPT !.left = @ \ {n}, !.taken = @ \cup {x}]

\* A note is read once, and what is read is right if nothing touched it.
LEMMA NoteTaken ==
  ASSUME LibraryShape, NEW s, ExportOK(s), s.at = "notes", NEW n, n = Foremost(s.left),
         NEW x, x = NoteOf(s, n),
         NEW t, t = WithNote(s, n, x)
  PROVE  /\ n \in PageSet /\ x \in Takes
         /\ t \in Exports /\ t.at = "notes" /\ t.units = {} /\ t.left = s.left \ {n} /\ t.taken = s.taken \cup {x}
         /\ t.face = s.face /\ t.text = s.text /\ t.looked = t.read /\ TakenOnce(t)
         /\ \A m \in PageSet : SeenRight(s, m) => TakenRight(t, m)
<1>1. s \in Exports /\ s.left # {} /\ s.units = {} /\ s.looked = s.read /\ TakenOnce(s)
  BY DEF ExportOK
<1>2. n \in s.left /\ n \in PageSet
  <2>1. s.left \in SUBSET PageSet
    BY <1>1 DEF Exports
  <2>2. QED BY <1>1, <2>1, ForemostIsIn
<1>3. sheet[n] \in Sheets /\ s.face \in Faces /\ sheet[n].v \in Nat /\ sheet[n].in \in BOOLEAN
  BY <1>1, <1>2 DEF LibraryShape, Exports, Sheets
<1>4. x \in Takes
  BY <1>2, <1>3 DEF Takes, NoteOf
<1>5. x.note = n /\ x.v = sheet[n].v /\ x.face = s.face /\ x.in = sheet[n].in
  BY DEF NoteOf
<1>6. /\ t \in Exports /\ t.at = s.at /\ t.units = s.units /\ t.left = s.left \ {n} /\ t.taken = s.taken \cup {x}
      /\ t.face = s.face /\ t.text = s.text /\ t.looked = s.looked /\ t.read = s.read
  BY <1>1, <1>4 DEF Exports, WithNote
<1>7. TakenOnce(t)
  BY <1>1, <1>2, <1>5, <1>6 DEF TakenOnce
<1>8. ASSUME NEW m \in PageSet, SeenRight(s, m) PROVE TakenRight(t, m)
  <2>1. x.note = m => x.face = LookedAt(m) /\ x.in = sheet[m].in
    BY <1>5, <1>8 DEF SeenRight
  <2>2. x.note = m => UpToDate(m, x.v)
    <3>1. sheet[m].v \in Nat /\ indexed[m].v \in Nat /\ indexed[m].v <= sheet[m].v /\ sheet[m].v <= sheet[m].v
      BY <1>8, SheetIs
    <3>2. QED BY <1>5, <3>1 DEF UpToDate
  <2>3. QED BY <1>5, <1>6, <1>8, <2>1, <2>2 DEF SeenRight, TakenRight
<1>9. n \in PageSet /\ x \in Takes /\ t \in Exports /\ t.at = "notes" /\ t.units = {} /\ t.left = s.left \ {n}
      /\ t.taken = s.taken \cup {x} /\ t.face = s.face /\ t.text = s.text /\ t.looked = t.read
  BY <1>1, <1>2, <1>4, <1>6
<1>10. QED BY <1>7, <1>8, <1>9

LEMMA BodyArrivesStep ==
  ASSUME SkillsInv, NEW r \in Exporters, BodyArrives(r) PROVE SkillsInv'
<1>0. SkillsShape /\ VouchedInv /\ LibraryShape
  BY DEF SkillsInv, SkillsShape
<1>1. PICK s : s = going[r]
  OBVIOUS
<1>2. PICK n : n = Foremost(s.left)
  OBVIOUS
<1>3. PICK x : x = NoteOf(s, n)
  OBVIOUS
<1>4. PICK t : t = WithNote(s, n, x)
  OBVIOUS
<1>5. /\ s.at = "notes"
      /\ IF (~sheet[n].there /\ s.face # NoPage) \/ NoUnits(t)
         THEN GoingEnds(r) /\ unrenewed' = PageSet /\ UNCHANGED hasty
         ELSE /\ going' = [going EXCEPT ![r] = Turns(Collected(t))]
              /\ hasty' = hasty \cup (IF s.face.ok /\ ~sheet[n].ok THEN {<<n, sheet[n].v>>} ELSE {})
              /\ UNCHANGED unrenewed
      /\ UNCHANGED <<library, trigger, output, embedded, carried, tangled>>
  BY <1>1, <1>2, <1>3, <1>4 DEF BodyArrives, NoteOf, WithNote
<1>6. Running(r) /\ ExportOK(s)
  BY <1>0, <1>1, <1>5 DEF Running, SkillsShape
<1>7. /\ n \in PageSet /\ x \in Takes
      /\ t \in Exports /\ t.at = "notes" /\ t.units = {} /\ t.left = s.left \ {n} /\ t.taken = s.taken \cup {x}
      /\ t.face = s.face /\ t.text = s.text /\ t.looked = t.read /\ TakenOnce(t)
      /\ \A m \in PageSet : SeenRight(s, m) => TakenRight(t, m)
  <2>1. s.at = "notes"
    BY <1>5
  <2>2. QED BY <1>0, <1>2, <1>3, <1>4, <1>6, <2>1, NoteTaken
<1>8. x.note = n /\ x.v = sheet[n].v /\ x.face = s.face /\ x.in = sheet[n].in
  BY <1>3 DEF NoteOf
<1>9. CASE (~sheet[n].there /\ s.face # NoPage) \/ NoUnits(t)
  BY <1>1, <1>5, <1>6, <1>9, ExportGivesUp DEF trigger
<1>10. ASSUME ~((~sheet[n].there /\ s.face # NoPage) \/ NoUnits(t)) PROVE SkillsInv'
  <2>1. PICK u : u = Turns(Collected(t))
    OBVIOUS
  <2>2. /\ going' = [going EXCEPT ![r] = u]
        /\ hasty' = hasty \cup (IF s.face.ok /\ ~sheet[n].ok THEN {<<n, sheet[n].v>>} ELSE {})
        /\ UNCHANGED unrenewed /\ UNCHANGED <<library, trigger, output, carried, tangled>>
    BY <1>5, <1>10, <2>1
  <2>3. Permissible \subseteq Permissible' /\ hasty \subseteq hasty'
    BY <2>2 DEF Permissible, library
  <2>4. \A y \in t.taken : Compiles(y) => <<y.note, y.v>> \in Permissible'
    <3>1. \A y \in s.taken : Compiles(y) => <<y.note, y.v>> \in Permissible
      BY <1>0, <1>1, <1>6 DEF VouchedInv
    <3>2. Compiles(x) => <<x.note, x.v>> \in Permissible'
      <4>1. Compiles(x) => s.face.ok
        BY <1>8 DEF Compiles
      <4>2. sheet[n].ok => <<n, sheet[n].v>> \in vouched
        BY <1>0, <1>7 DEF VouchedInv
      <4>3. QED BY <1>8, <2>2, <2>3, <4>1, <4>2 DEF Permissible
    <3>3. QED BY <1>7, <2>3, <3>1, <3>2
  <2>5. \A m \in PageSet : t.text[m] \subseteq Permissible'
    BY <1>0, <1>1, <1>6, <1>7, <2>3 DEF VouchedInv
  <2>6. \A m \in PageSet : ComesRight(s, m) => TakenRight(t, m)
    BY <1>5, <1>7 DEF ComesRight
  <2>7. CASE t.left # {}
    <3>1. u = Turns(t)
      BY <2>1, <2>7 DEF Collected
    <3>2. /\ u \in Exports /\ u.face = LookedAt(Foremost(t.left)) /\ u.at = t.at /\ u.left = t.left
          /\ u.taken = t.taken /\ u.units = t.units /\ u.chain = t.chain /\ u.text = t.text
          /\ u.looked = t.looked /\ u.read = t.read
      BY <1>0, <1>7, <2>7, <3>1, TurnsToNote
    <3>3. ExportOK(u)
      BY <1>7, <2>7, <3>2 DEF ExportOK, TakenOnce, UnitsOK
    <3>4. \A m \in PageSet : ComesRight(s, m) => ComesRight(u, m)
      BY <1>7, <2>6, <3>2 DEF ComesRight, SeenRight, TakenRight
    <3>5. u.at # "assets"
      BY <1>7, <3>2
    <3>6. QED BY <1>1, <1>6, <2>2, <2>3, <2>4, <2>5, <3>2, <3>3, <3>4, <3>5, ExportMoves
  <2>8. CASE t.left = {}
    <3>1. PICK c : c = Collected(t)
      OBVIOUS
    <3>2. /\ c \in Exports /\ c.at = t.at /\ c.prev = t.prev /\ c.chain = t.chain /\ c.left = t.left
          /\ c.taken = t.taken /\ c.face = t.face /\ c.looked = t.looked /\ c.read = t.read
          /\ \A m \in PageSet : c.text[m] = {<<y.note, y.v>> : y \in {z \in t.taken : Compiles(z) /\ z.note = m}}
          /\ \A m \in PageSet : m \in c.units <=> embeds[m] # "none" /\ \E y \in t.taken : Compiles(y) /\ y.note = m
      BY <1>7, <2>8, <3>1, CollectedIs
    <3>3. \A m \in PageSet : c.text[m] \subseteq Permissible'
      BY <2>4, <3>2
    <3>4. \A m \in PageSet : ComesRight(s, m) => IF m \in c.units THEN Partly(m, <<m>>, c.text[m])
                                                                  ELSE FitsIndex(m, c.text[m])
      BY <1>0, <1>7, <2>6, <2>8, <3>1, CollectedRight
    <3>5. c.units \subseteq PageSet /\ UnitsOK(c) /\ TakenOnce(c)
      <4>1. c.units \subseteq PageSet
        BY <3>2 DEF Exports
      <4>2. \A m \in c.units : c.text[m] # {} /\ embeds[m] # "none"
        <5>1. SUFFICES ASSUME NEW m \in c.units PROVE c.text[m] # {} /\ embeds[m] # "none"
          OBVIOUS
        <5>2. PICK y \in t.taken : Compiles(y) /\ y.note = m
          BY <3>2, <4>1
        <5>3. <<y.note, y.v>> \in c.text[m]
          BY <3>2, <4>1, <5>2
        <5>4. QED BY <3>2, <4>1, <5>3
      <4>3. QED BY <1>7, <3>2, <4>1, <4>2 DEF UnitsOK, TakenOnce
    <3>6. CASE c.units # {}
      <4>1. /\ u \in Exports /\ u.chain = <<Foremost(c.units)>> /\ u.at = "embeds" /\ u.left = c.left
            /\ u.taken = c.taken /\ u.units = c.units /\ u.face = c.face /\ u.text = c.text
            /\ u.looked = c.looked /\ u.read = c.read /\ Foremost(c.units) \in c.units
        BY <2>1, <2>8, <3>1, <3>2, <3>6, TurnsToEmbeds
      <4>2. Len(u.chain) = 1 /\ u.chain[1] = Foremost(c.units)
        BY <4>1
      <4>3. 1 \in 1..EmbedDepth
        BY SkillsAssumption
      <4>4. ChainOK(u)
        BY <3>5, <3>6, <4>1, <4>2, <4>3 DEF ChainOK, UnitsOK
      <4>5. ExportOK(u)
        BY <1>7, <2>8, <3>2, <3>5, <4>1, <4>4 DEF ExportOK, TakenOnce, UnitsOK
      <4>6. \A m \in PageSet : ComesRight(s, m) => ComesRight(u, m)
        BY <3>4, <4>1, <4>2 DEF ComesRight
      <4>7. u.taken = t.taken /\ u.text = c.text /\ u.at # "assets"
        BY <3>2, <4>1
      <4>8. QED BY <1>1, <1>6, <2>2, <2>3, <2>4, <3>3, <4>5, <4>6, <4>7, ExportMoves
    <3>7. CASE c.units = {}
      <4>1. /\ u \in Exports /\ u.at = "assets" /\ u.prev = manifest /\ u.left = c.left
            /\ u.taken = c.taken /\ u.units = c.units /\ u.face = c.face /\ u.text = c.text
            /\ u.looked = c.looked /\ u.read = c.read
        <5>1. manifest \subseteq Listable
          BY <1>0 DEF SkillsShape
        <5>2. QED BY <2>1, <2>8, <3>1, <3>2, <3>7, <5>1, TurnsToAssets
      <4>2. ExportOK(u)
        BY <1>7, <2>8, <3>2, <3>5, <4>1 DEF ExportOK, TakenOnce, UnitsOK
      <4>3. \A m \in PageSet : ComesRight(s, m) => ComesRight(u, m)
        BY <3>4, <3>7, <4>1 DEF ComesRight
      <4>4. u.taken = t.taken /\ u.text = c.text /\ u.prev = manifest
        BY <3>2, <4>1
      <4>5. QED BY <1>1, <1>6, <2>2, <2>3, <2>4, <3>3, <4>2, <4>3, <4>4, ExportMoves
    <3>8. QED BY <3>6, <3>7
  <2>9. QED BY <2>7, <2>8
<1>11. QED BY <1>9, <1>10

\* A chain grows by the embed of its last note, and so does the text that tells of it.
LEMMA WalkGrows ==
  ASSUME LibraryShape, NEW n \in PageSet, NEW w, Walks(n, w), Len(w) <= EmbedDepth,
         NEW e, e = embeds[w[Len(w)]], e # "none", IsGood(e), \A i \in 1..Len(w) : w[i] # e,
         NEW x, x = Append(w, e)
  PROVE  /\ Walks(n, x) /\ Len(x) = Len(w) + 1 /\ x[Len(x)] = e /\ x[1] = w[1]
         /\ \A T, v : Tells(T, w) /\ UpToDate(e, v) => Tells(T \cup {<<e, v>>}, x)
<1>1. w \in Seq(PageSet) /\ Len(w) \in Nat /\ 1 <= Len(w) /\ w[1] = n /\ EmbedDepth \in Nat
      /\ \A i \in 1..Len(w) : w[i] \in Chained(n)
  BY SkillsAssumption DEF Walks
<1>2. Len(w) \in 1..Len(w)
  BY <1>1
<1>3. e \in Chained(n) /\ e \in PageSet
  BY <1>1, <1>2, ChainedIs
<1>4. /\ x \in Seq(PageSet) /\ Len(x) = Len(w) + 1 /\ x[Len(w) + 1] = e
      /\ \A i \in 1..Len(w) : x[i] = w[i]
  BY <1>1, <1>3
<1>5. Len(x) \in 1..EmbedDepth + 1 /\ 1..Len(x) = (1..Len(w)) \cup {Len(w) + 1}
  BY <1>1, <1>4
<1>6. x[1] = w[1] /\ x[Len(x)] = e
  BY <1>1, <1>4
<1>7. \A i \in 1..Len(x) : x[i] \in Chained(n)
  BY <1>1, <1>3, <1>4, <1>5
<1>8. \A i, j \in 1..Len(x) : x[i] = x[j] => i = j
  <2>1. \A i, j \in 1..Len(w) : w[i] = w[j] => i = j
    BY DEF Walks
  <2>2. QED BY <1>4, <1>5, <2>1
<1>9. \A i \in 2..Len(x) : x[i] = embeds[x[i - 1]] /\ IsGood(x[i])
  <2>1. SUFFICES ASSUME NEW i \in 2..Len(x) PROVE x[i] = embeds[x[i - 1]] /\ IsGood(x[i])
    OBVIOUS
  <2>2. i - 1 \in 1..Len(w)
    BY <1>1, <1>4, <2>1
  <2>3. x[i - 1] = w[i - 1]
    BY <1>4, <2>2
  <2>4. CASE i = Len(w) + 1
    <3>1. i - 1 = Len(w)
      BY <1>1, <2>4
    <3>2. QED BY <1>4, <2>3, <2>4, <3>1
  <2>5. CASE i # Len(w) + 1
    <3>1. i \in 2..Len(w) /\ i \in 1..Len(w)
      BY <1>1, <1>4, <2>1, <2>5
    <3>2. w[i] = embeds[w[i - 1]] /\ IsGood(w[i])
      BY <3>1 DEF Walks
    <3>3. QED BY <1>4, <2>3, <3>1, <3>2
  <2>6. QED BY <2>4, <2>5
<1>10. Walks(n, x)
  BY <1>1, <1>4, <1>5, <1>6, <1>7, <1>8, <1>9 DEF Walks
<1>11. ASSUME NEW T, NEW v, Tells(T, w), UpToDate(e, v) PROVE Tells(T \cup {<<e, v>>}, x)
  <2>1. v \in Nat /\ Len(w) + 1 \in 1..Len(x)
    BY <1>1, <1>4, <1>11 DEF UpToDate
  <2>2. ASSUME NEW p \in T \cup {<<e, v>>}
        PROVE  \E i \in 1..Len(x) : \E y \in Nat : p = <<x[i], y>> /\ UpToDate(x[i], y)
    <3>1. CASE p = <<e, v>>
      BY <1>4, <1>11, <2>1, <3>1
    <3>2. CASE p \in T
      <4>1. PICK i \in 1..Len(w) : \E y \in Nat : p = <<w[i], y>> /\ UpToDate(w[i], y)
        BY <1>11, <3>2 DEF Tells
      <4>2. i \in 1..Len(x) /\ x[i] = w[i]
        BY <1>4, <1>5, <4>1
      <4>3. QED BY <4>1, <4>2
    <3>3. QED BY <2>2, <3>1, <3>2
  <2>3. ASSUME NEW i \in 1..Len(x) PROVE \E y \in Nat : <<x[i], y>> \in T \cup {<<e, v>>}
    <3>1. CASE i = Len(w) + 1
      BY <1>4, <2>1, <3>1
    <3>2. CASE i \in 1..Len(w)
      BY <1>4, <1>11, <3>2 DEF Tells
    <3>3. QED BY <1>5, <2>3, <3>1, <3>2
  <2>4. QED BY <2>2, <2>3 DEF Tells
<1>12. QED BY <1>4, <1>6, <1>10, <1>11

WithEmbed(s, u, L, A) == [s EXCEPT !.looked = @ \cup L, !.read = @ \cup L, !.text[u] = @ \cup A]
Extended(s, e)          == [s EXCEPT !.chain = Append(@, e)]
LessUnit(s, u)         == [s EXCEPT !.units = @ \ {u}]

LEMMA EmbedTaken ==
  ASSUME NEW s \in Exports, NEW u \in PageSet, NEW L \in Spotted, NEW A \in PageTexts,
         NEW t, t = WithEmbed(s, u, L, A)
  PROVE  /\ t \in Exports /\ t.at = s.at /\ t.left = s.left /\ t.taken = s.taken /\ t.face = s.face
         /\ t.units = s.units /\ t.chain = s.chain /\ t.prev = s.prev
         /\ t.looked = s.looked \cup L /\ t.read = s.read \cup L
         /\ t.text[u] = s.text[u] \cup A /\ \A m \in PageSet : m # u => t.text[m] = s.text[m]
<1>1. s.text \in [PageSet -> PageTexts]
  BY DEF Exports
<1>2. PICK T \in [PageSet -> PageTexts] : T = [s.text EXCEPT ![u] = @ \cup A]
  <2>1. s.text[u] \cup A \in PageTexts
    BY <1>1 DEF PageTexts
  <2>2. QED BY <1>1, <2>1
<1>3. t = [s EXCEPT !.looked = @ \cup L, !.read = @ \cup L, !.text = T]
  BY <1>2 DEF WithEmbed
<1>0. PICK K, R \in Spotted : K = s.looked \cup L /\ R = s.read \cup L
  BY DEF Exports, Spotted
<1>4. T[u] = s.text[u] \cup A /\ \A m \in PageSet : m # u => T[m] = s.text[m]
  BY <1>1, <1>2
<1>5. /\ t \in Exports /\ t.at = s.at /\ t.left = s.left /\ t.taken = s.taken /\ t.face = s.face
      /\ t.units = s.units /\ t.chain = s.chain /\ t.prev = s.prev
      /\ t.looked = s.looked \cup L /\ t.read = s.read \cup L /\ t.text = T
  <2>1. t = [s EXCEPT !.looked = K, !.read = R, !.text = T]
    BY <1>0, <1>3
  <2>2. QED BY <1>0, <2>1 DEF Exports
<1>6. QED BY <1>4, <1>5

LEMMA EmbedArrivesStep ==
  ASSUME SkillsInv, NEW r \in Exporters, EmbedArrives(r) PROVE SkillsInv'
<1>0. SkillsShape /\ VouchedInv /\ LibraryShape
  BY DEF SkillsInv, SkillsShape
<1> DEFINE s   == going[r]
           u   == s.chain[1]
           e   == Embed(s.chain[Len(s.chain)])
           met == sheet[e].there /\ \A i \in DOMAIN s.chain : s.chain[i] # e
           on  == met /\ Inlined(e)
           t   == [s EXCEPT !.looked = @ \cup (IF met /\ Sourced(e) THEN {PathOf(e)} ELSE {}),
                            !.read = @ \cup (IF met THEN {PathOf(e)} ELSE {}),
                            !.text[u] = @ \cup (IF on THEN {<<e, sheet[e].v>>} ELSE {})]
<1>8. /\ s.at = "embeds"
      /\ going' = [going EXCEPT ![r] = IF on /\ Embed(e) # "none" /\ Len(s.chain) < EmbedDepth
                                       THEN [t EXCEPT !.chain = Append(@, e)]
                                       ELSE Turns([t EXCEPT !.units = @ \ {u}])]
      /\ hasty' = hasty \cup (IF on /\ indexed[e].ok /\ ~sheet[e].ok THEN {<<e, sheet[e].v>>} ELSE {})
      /\ UNCHANGED <<library, trigger, output, unrenewed, carried, tangled>>
  BY DEF EmbedArrives
<1> HIDE DEF t
<1>9. /\ s.at = "embeds"
      /\ going' = [going EXCEPT ![r] = IF on /\ Embed(e) # "none" /\ Len(s.chain) < EmbedDepth
                                       THEN Extended(t, e) ELSE Turns(LessUnit(t, u))]
      /\ hasty' = hasty \cup (IF on /\ indexed[e].ok /\ ~sheet[e].ok THEN {<<e, sheet[e].v>>} ELSE {})
      /\ UNCHANGED <<library, trigger, output, unrenewed, carried, tangled>>
  BY <1>8 DEF Extended, LessUnit
<1>1. s = going[r] /\ u = s.chain[1]
  OBVIOUS
<1>2. u = s.chain[1] /\ e = Embed(s.chain[Len(s.chain)])
  OBVIOUS
<1>4. /\ met <=> sheet[e].there /\ \A i \in DOMAIN s.chain : s.chain[i] # e
      /\ on <=> met /\ Inlined(e)
  OBVIOUS
<1> HIDE DEF on, met, e, u, s
<1>6. PICK L : L = IF met THEN {PathOf(e)} ELSE {}
  OBVIOUS
<1>7. PICK A : A = IF on THEN {<<e, sheet[e].v>>} ELSE {}
  OBVIOUS
<1>5. t = WithEmbed(s, u, L, A)
  BY <1>6, <1>7 DEF t, WithEmbed, Sourced
<1>10. /\ Running(r) /\ ExportOK(s) /\ s \in Exports /\ s.left = {} /\ ChainOK(s) /\ s.looked = s.read
       /\ TakenOnce(s) /\ UnitsOK(s)
  <2>1. Running(r) /\ ExportOK(s)
    BY <1>0, <1>1, <1>9 DEF Running, SkillsShape
  <2>2. QED BY <1>9, <2>1 DEF ExportOK
<1>11. /\ s.units \subseteq PageSet /\ s.chain \in Seq(PageSet) /\ Len(s.chain) \in Nat /\ 1 <= Len(s.chain)
       /\ Len(s.chain) <= EmbedDepth /\ EmbedDepth \in Nat /\ u = Foremost(s.units) /\ u \in s.units
       /\ e = embeds[s.chain[Len(s.chain)]] /\ e # "none" /\ DOMAIN s.chain = 1..Len(s.chain)
  <2>1. s.units \in SUBSET PageSet /\ s.chain \in Seq(PageSet) /\ EmbedDepth \in Nat
    BY <1>10, SkillsAssumption DEF Exports
  <2>2. s.units # {} /\ Len(s.chain) \in 1..EmbedDepth /\ u = Foremost(s.units) /\ e # "none"
        /\ e = embeds[s.chain[Len(s.chain)]]
    BY <1>2, <1>10 DEF ChainOK, Embed
  <2>3. u \in s.units
    BY <2>1, <2>2, ForemostIsIn
  <2>4. QED BY <2>1, <2>2, <2>3
<1>12. e \in PageSet
  <2>1. s.chain[Len(s.chain)] \in PageSet
    BY <1>11
  <2>2. QED BY <1>0, <1>11, <2>1 DEF LibraryShape
<1>13. u \in PageSet /\ L \in Spotted /\ A \in PageTexts
  <2>1. sheet[e].v \in Nat /\ sheet[e].in \in BOOLEAN
    BY <1>0, <1>12 DEF LibraryShape, Sheets
  <2>2. QED BY <1>6, <1>7, <1>11, <1>12, <2>1 DEF PathOf, PageTexts, Spotted
<1>14. /\ t \in Exports /\ t.at = s.at /\ t.left = s.left /\ t.taken = s.taken /\ t.face = s.face
       /\ t.units = s.units /\ t.chain = s.chain /\ t.prev = s.prev
       /\ t.looked = t.read
       /\ t.text[u] = s.text[u] \cup A /\ \A m \in PageSet : m # u => t.text[m] = s.text[m]
  <2>1. s \in Exports /\ s.looked = s.read
    BY <1>10
  <2>2. /\ t \in Exports /\ t.at = s.at /\ t.left = s.left /\ t.taken = s.taken /\ t.face = s.face
        /\ t.units = s.units /\ t.chain = s.chain /\ t.prev = s.prev
        /\ t.looked = s.looked \cup L /\ t.read = s.read \cup L
        /\ t.text[u] = s.text[u] \cup A /\ \A m \in PageSet : m # u => t.text[m] = s.text[m]
    BY <1>5, <1>13, <2>1, EmbedTaken
  <2>3. QED BY <2>1, <2>2
<1>15. Permissible \subseteq Permissible' /\ hasty \subseteq hasty'
  BY <1>9 DEF Permissible, library
<1>16. \A y \in t.taken : Compiles(y) => <<y.note, y.v>> \in Permissible'
  BY <1>0, <1>1, <1>10, <1>14, <1>15 DEF VouchedInv
<1>17. \A m \in PageSet : t.text[m] \subseteq Permissible'
  <2>1. A \subseteq Permissible'
    <3>1. sheet[e].ok => <<e, sheet[e].v>> \in vouched
      BY <1>0, <1>12 DEF VouchedInv
    <3>2. on => indexed[e].ok
      BY <1>4 DEF Inlined
    <3>3. QED BY <1>7, <1>9, <1>15, <3>1, <3>2 DEF Permissible
  <2>2. \A m \in PageSet : s.text[m] \subseteq Permissible'
    BY <1>0, <1>1, <1>10, <1>15 DEF VouchedInv
  <2>3. QED BY <1>14, <2>1, <2>2
<1>18. PICK c : c = s.chain
  OBVIOUS
<1>19. /\ c \in Seq(PageSet) /\ c[1] = u /\ Len(c) \in Nat /\ 1 <= Len(c) /\ Len(c) <= EmbedDepth
       /\ e = embeds[c[Len(c)]]
  BY <1>2, <1>11, <1>18
<1>20. on => IsGood(e) /\ \A i \in 1..Len(c) : c[i] # e
  BY <1>4, <1>11, <1>18 DEF IsGood, Inlined
<1>21. ~on => ~IsGood(e) \/ \E i \in 1..Len(c) : c[i] = e
  BY <1>4, <1>11, <1>18 DEF IsGood, Inlined
<1>22. PICK w : w = IF on THEN Append(c, e) ELSE c
  OBVIOUS
<1>23. on => w \in Seq(PageSet) /\ Len(w) = Len(c) + 1 /\ w[Len(w)] = e /\ w[1] = u
  BY <1>12, <1>19, <1>22
<1>24. ComesRight(s, u) => Partly(u, w, t.text[u])
  <2>1. SUFFICES ASSUME ComesRight(s, u) PROVE Partly(u, w, t.text[u])
    OBVIOUS
  <2>2. Partly(u, c, s.text[u])
    BY <1>2, <1>9, <1>11, <1>18, <2>1 DEF ComesRight
  <2>3. CASE on
    <3>1. UpToDate(e, sheet[e].v)
      <4>1. sheet[e].v \in Nat /\ indexed[e].v \in Nat /\ indexed[e].v <= sheet[e].v /\ sheet[e].v <= sheet[e].v
        BY <1>0, <1>12, SheetIs
      <4>2. QED BY <4>1 DEF UpToDate
    <3>2. Walks(u, w) /\ Tells(s.text[u] \cup {<<e, sheet[e].v>>}, w)
      <4>1. w = Append(c, e)
        BY <1>22, <2>3
      <4>2. Walks(u, c) /\ Tells(s.text[u], c)
        BY <2>2 DEF Partly
      <4>3. QED BY <1>0, <1>11, <1>13, <1>19, <1>20, <2>3, <3>1, <4>1, <4>2, WalkGrows
    <3>3. t.text[u] = s.text[u] \cup {<<e, sheet[e].v>>}
      BY <1>7, <1>14, <2>3
    <3>4. QED BY <2>2, <3>2, <3>3 DEF Partly
  <2>4. CASE ~on
    <3>1. t.text[u] = s.text[u] /\ w = c
      BY <1>7, <1>14, <1>22, <2>4
    <3>2. QED BY <2>2, <3>1
  <2>5. QED BY <2>3, <2>4
<1>25. \A m \in PageSet : m # u /\ ComesRight(s, m) => IF m \in s.units THEN Partly(m, <<m>>, t.text[m])
                                                                       ELSE FitsIndex(m, t.text[m])
  BY <1>2, <1>9, <1>14 DEF ComesRight
<1>26. UnitsOK(t) /\ TakenOnce(t)
  <2>1. \A m \in t.units : t.text[m] # {} /\ embeds[m] # "none"
    <3>1. SUFFICES ASSUME NEW m \in s.units PROVE t.text[m] # {} /\ embeds[m] # "none"
      BY <1>14
    <3>2. s.text[m] # {} /\ embeds[m] # "none" /\ m \in PageSet
      BY <1>10, <1>11, <3>1 DEF UnitsOK
    <3>3. QED BY <1>14, <3>2
  <2>2. QED BY <1>10, <1>14, <2>1 DEF UnitsOK, TakenOnce
<1>27. CASE on /\ Embed(e) # "none" /\ Len(s.chain) < EmbedDepth
  <2>1. PICK x : x = Extended(t, e)
    OBVIOUS
  <2>2. w = Append(t.chain, e) /\ w \in Seq(PageSet)
    BY <1>14, <1>18, <1>22, <1>23, <1>27
  <2>3. x = [t EXCEPT !.chain = w]
    BY <2>1, <2>2 DEF Extended
  <2>4. /\ x \in Exports /\ x.at = "embeds" /\ x.left = {} /\ x.taken = t.taken /\ x.face = t.face
        /\ x.units = s.units /\ x.chain = w /\ x.prev = t.prev /\ x.looked = x.read /\ x.text = t.text
    BY <1>9, <1>10, <1>14, <2>2, <2>3 DEF Exports
  <2>5. ChainOK(x)
    <3>1. Len(w) \in 1..EmbedDepth
      BY <1>11, <1>18, <1>19, <1>23, <1>27
    <3>2. w[1] = Foremost(s.units) /\ embeds[w[Len(w)]] # "none"
      BY <1>11, <1>23, <1>27 DEF Embed
    <3>3. QED BY <1>11, <2>4, <3>1, <3>2 DEF ChainOK
  <2>6. ExportOK(x)
    BY <1>14, <1>26, <2>4, <2>5 DEF ExportOK, TakenOnce, UnitsOK
  <2>7. \A m \in PageSet : ComesRight(s, m) => ComesRight(x, m)
    <3>1. SUFFICES ASSUME NEW m \in PageSet, ComesRight(s, m) PROVE ComesRight(x, m)
      OBVIOUS
    <3>2. CASE m = u
      BY <1>11, <1>23, <1>24, <1>27, <2>4, <3>1, <3>2 DEF ComesRight
    <3>3. CASE m # u
      BY <1>11, <1>23, <1>25, <1>27, <2>4, <3>1, <3>3 DEF ComesRight
    <3>4. QED BY <3>2, <3>3
  <2>8. going' = [going EXCEPT ![r] = x] /\ x.at # "assets"
    BY <1>9, <1>27, <2>1, <2>4
  <2>9. QED BY <1>1, <1>9, <1>10, <1>15, <1>16, <1>17, <2>4, <2>6, <2>7, <2>8, ExportMoves
<1>28. CASE ~(on /\ Embed(e) # "none" /\ Len(s.chain) < EmbedDepth)
  <2>1. PICK v : v = LessUnit(t, u)
    OBVIOUS
  <2>2. /\ v \in Exports /\ v.at = "embeds" /\ v.left = {} /\ v.taken = t.taken /\ v.face = t.face
        /\ v.units = s.units \ {u} /\ v.chain = t.chain /\ v.prev = t.prev /\ v.looked = v.read /\ v.text = t.text
    BY <1>9, <1>10, <1>14, <2>1 DEF Exports, LessUnit
  <2>3. UnitsOK(v) /\ TakenOnce(v)
    BY <1>14, <1>26, <2>2 DEF UnitsOK, TakenOnce
  <2>4. \A m \in PageSet : ComesRight(s, m) => IF m \in v.units THEN Partly(m, <<m>>, v.text[m])
                                                                 ELSE FitsIndex(m, v.text[m])
    <3>1. SUFFICES ASSUME NEW m \in PageSet, ComesRight(s, m)
                   PROVE  IF m \in v.units THEN Partly(m, <<m>>, v.text[m]) ELSE FitsIndex(m, v.text[m])
      OBVIOUS
    <3>2. CASE m # u
      BY <1>25, <2>2, <3>1, <3>2
    <3>3. CASE m = u
      <4>1. Partly(u, w, t.text[u])
        BY <1>24, <3>1, <3>3
      <4>2. WalkEnds(w)
        <5>1. CASE on
          <6>1. embeds[w[Len(w)]] = embeds[e] /\ Len(w) = Len(c) + 1
            BY <1>23, <5>1
          <6>2. embeds[e] = "none" \/ ~(Len(c) < EmbedDepth)
            BY <1>18, <1>28, <5>1 DEF Embed
          <6>3. ~(Len(c) < EmbedDepth) => Len(w) > EmbedDepth
            BY <1>11, <1>19, <6>1
          <6>4. QED BY <6>1, <6>2, <6>3 DEF WalkEnds
        <5>2. CASE ~on
          BY <1>19, <1>21, <1>22, <5>2 DEF WalkEnds
        <5>3. QED BY <5>1, <5>2
      <4>3. IsUnit(u) /\ Walks(u, w) /\ Tells(t.text[u], w) /\ w \in Seq(PageSet)
        BY <4>1 DEF Partly, Walks
      <4>4. FitsIndex(u, t.text[u])
        BY <4>2, <4>3 DEF FitsIndex
      <4>5. QED BY <2>2, <3>3, <4>4
    <3>4. QED BY <3>2, <3>3
  <2>5. PICK x : x = Turns(v)
    OBVIOUS
  <2>6. going' = [going EXCEPT ![r] = x]
    BY <1>9, <1>28, <2>1, <2>5
  <2>7. CASE v.units # {}
    <3>1. /\ x \in Exports /\ x.chain = <<Foremost(v.units)>> /\ x.at = "embeds" /\ x.left = v.left
          /\ x.taken = v.taken /\ x.units = v.units /\ x.face = v.face /\ x.text = v.text
          /\ x.looked = v.looked /\ x.read = v.read /\ Foremost(v.units) \in v.units
      BY <2>2, <2>5, <2>7, TurnsToEmbeds
    <3>2. Len(x.chain) = 1 /\ x.chain[1] = Foremost(v.units)
      BY <3>1
    <3>3. 1 \in 1..EmbedDepth
      BY SkillsAssumption
    <3>4. ChainOK(x)
      BY <2>3, <2>7, <3>1, <3>2, <3>3 DEF ChainOK, UnitsOK
    <3>5. ExportOK(x)
      BY <2>2, <2>3, <3>1, <3>4 DEF ExportOK, TakenOnce, UnitsOK
    <3>6. \A m \in PageSet : ComesRight(s, m) => ComesRight(x, m)
      BY <2>4, <3>1, <3>2 DEF ComesRight
    <3>7. x.taken = t.taken /\ x.text = t.text /\ x.at # "assets"
      BY <2>2, <3>1
    <3>8. QED BY <1>1, <1>9, <1>10, <1>15, <1>16, <1>17, <2>6, <3>5, <3>6, <3>7, ExportMoves
  <2>8. CASE v.units = {}
    <3>1. /\ x \in Exports /\ x.at = "assets" /\ x.prev = manifest /\ x.left = v.left
          /\ x.taken = v.taken /\ x.units = v.units /\ x.face = v.face /\ x.text = v.text
          /\ x.looked = v.looked /\ x.read = v.read
      <4>1. manifest \subseteq Listable
        BY <1>0 DEF SkillsShape
      <4>2. QED BY <2>2, <2>5, <2>8, <4>1, TurnsToAssets
    <3>2. ExportOK(x)
      BY <2>2, <2>3, <3>1 DEF ExportOK, TakenOnce, UnitsOK
    <3>3. \A m \in PageSet : ComesRight(s, m) => ComesRight(x, m)
      BY <2>4, <2>8, <3>1 DEF ComesRight
    <3>4. x.taken = t.taken /\ x.text = t.text /\ x.prev = manifest
      BY <2>2, <3>1
    <3>5. QED BY <1>1, <1>9, <1>10, <1>15, <1>16, <1>17, <2>6, <3>2, <3>3, <3>4, ExportMoves
  <2>9. QED BY <2>7, <2>8
<1>29. QED BY <1>27, <1>28

\* What the last stretch makes of the output: the text of each unit, and its supporting file.
LEMMA LandedIs ==
  ASSUME NEW s, ExportOK(s), NEW n \in PageSet
  PROVE  /\ n \in Units(s) <=> s.text[n] # {}
         /\ <<n, "file">> \in NextFiles(s) <=> n \in Units(s)
         /\ <<n, "asset">> \in NextFiles(s) <=> n \in InStock(s) \cup Retained(s)
         /\ n \in Retained(s) <=> n \in Units(s) /\ stock[n] = "evicted" /\ <<n, "asset">> \in s.prev
         /\ n \in InStock(s) <=> n \in Units(s) /\ stock[n] = "there"
<1>1. n \in Units(s) <=> s.text[n] # {}
  BY DEF Units
<1>2. /\ n \in Retained(s) <=> n \in Units(s) /\ stock[n] = "evicted" /\ <<n, "asset">> \in s.prev
      /\ n \in InStock(s) <=> n \in Units(s) /\ stock[n] = "there"
  BY DEF Retained, InStock, Units
<1>3. <<n, "file">> \in NextFiles(s) <=> n \in Units(s)
  BY DEF NextFiles
<1>4. <<n, "asset">> \in NextFiles(s) <=> n \in InStock(s) \cup Retained(s)
  BY DEF NextFiles
<1>5. QED BY <1>1, <1>2, <1>3, <1>4

LEMMA ExportLandsStep ==
  ASSUME SkillsInv, NEW r \in Exporters, ExportLands(r) PROVE SkillsInv'
<1>0. SkillsShape /\ VouchedInv /\ ApartInv /\ ManifestInv /\ FollowInv /\ LibraryShape
  BY DEF SkillsInv, SkillsShape
<1>1. PICK s : s = going[r]
  OBVIOUS
<1>2. /\ s.at = "assets"
      /\ shelf' = Shelved(s, Units(s)) /\ bundle' = Bundled(s) \cup InStock(s) /\ manifest' = NextFiles(s)
      /\ carried' = InStock(s) \cup {n \in carried \cap Units(s) : stock[n] = "evicted"}
      /\ Remembers(r) /\ going' = [going EXCEPT ![r] = NotGoing]
      /\ UNCHANGED <<embeds, sheet, indexed, stock, looming, vouched, onSave, armed, hasty, unrenewed, tangled>>
  BY <1>1 DEF ExportLands, GoingEnds, library
<1>3. Running(r) /\ ExportOK(s) /\ s \in Exports /\ s.prev \subseteq Listable
      /\ \A n \in PageSet : s.text[n] \in PageTexts
  <2>1. Running(r) /\ ExportOK(s)
    BY <1>0, <1>1, <1>2 DEF Running, SkillsShape
  <2>2. s \in Exports
    BY <2>1 DEF ExportOK
  <2>3. QED BY <2>1, <2>2 DEF Exports
<1>4. PICK g : g = NotGoing
  OBVIOUS
<1>5. /\ going'[r] = g /\ ~Running(r)'
      /\ \A q \in Exporters \ {r} : going'[q] = going[q] /\ Running(q)' = Running(q)
  BY <1>0, <1>2, <1>4, GoingTo
<1>6. \A n \in PageSet : shelf'[n] = IF n \in Units(s) THEN s.text[n]
                                     ELSE IF <<n, "file">> \in Obsolete(s) THEN {} ELSE shelf[n]
  BY <1>2 DEF Shelved
<1>7. SkillsShape'
  <2>1. shelf' \in [PageSet -> PageTexts]
    <3>1. \A n \in PageSet : shelf[n] \in PageTexts /\ {} \in PageTexts
      BY <1>0 DEF SkillsShape, PageTexts
    <3>2. QED BY <1>2, <1>3, <3>1 DEF Shelved
  <2>2. bundle' \subseteq PageSet /\ manifest' \subseteq Listable
    BY <1>0, <1>2 DEF SkillsShape, Bundled, InStock, NextFiles, Retained, Units, Listable
  <2>3. embedded' = sources'
    <3>1. s.looked = s.read /\ embedded = sources
      BY <1>0, <1>3 DEF ExportOK, SkillsShape
    <3>2. CASE r = "gui"
      BY <1>1, <1>2, <3>1, <3>2 DEF Remembers
    <3>3. CASE r # "gui"
      BY <1>2, <3>1, <3>3 DEF Remembers
    <3>4. QED BY <3>2, <3>3
  <2>4. onSave' \in BOOLEAN /\ armed' \in BOOLEAN /\ tangled' \in BOOLEAN /\ unrenewed' \subseteq PageSet
    BY <1>0, <1>2 DEF SkillsShape
  <2>5. QED BY <1>0, <1>2, <2>1, <2>2, <2>3, <2>4, ShapeAfter
<1>8. VouchedInv'
  <2>1. Permissible' = Permissible
    BY <1>2 DEF Permissible
  <2>2. \A q \in Exporters : Running(q)' => going'[q] = going[q] /\ Running(q)
    BY <1>5
  <2>3. \A n \in PageSet : shelf'[n] \subseteq Permissible
    <3>1. \A n \in PageSet : s.text[n] \subseteq Permissible /\ shelf[n] \subseteq Permissible
      BY <1>0, <1>1, <1>3 DEF VouchedInv
    <3>2. QED BY <1>6, <3>1
  <2>4. QED BY <1>0, <1>2, <2>1, <2>2, <2>3 DEF VouchedInv, Compiles
<1>9. ApartInv'
  BY <1>0, <1>2, <1>5 DEF ApartInv
<1>10. ManifestInv'
  <2>1. SUFFICES ASSUME ~tangled' PROVE
              /\ \A n \in PageSet : shelf'[n] # {} => <<n, "file">> \in manifest'
              /\ \A n \in bundle' : <<n, "asset">> \in manifest'
              /\ carried' \subseteq bundle'
              /\ \A q \in Exporters : going'[q].at = "assets" => going'[q].prev = manifest'
    BY DEF ManifestInv
  <2>2. ~tangled
    BY <1>2, <2>1
  <2>3. s.prev = manifest
    BY <1>0, <1>1, <1>2, <2>2 DEF ManifestInv
  <2>4. \A n \in PageSet : shelf[n] # {} => <<n, "file">> \in manifest
    BY <1>0, <2>2 DEF ManifestInv
  <2>5. \A n \in bundle : <<n, "asset">> \in manifest /\ n \in PageSet
    BY <1>0, <2>2 DEF ManifestInv, SkillsShape
  <2>6. carried \subseteq bundle
    BY <1>0, <2>2 DEF ManifestInv
  <2>7. \A n \in PageSet : shelf'[n] # {} => <<n, "file">> \in manifest'
    BY <1>2, <1>3, <1>6, <2>3, <2>4, LandedIs DEF Obsolete
  <2>8. \A n \in bundle' : <<n, "asset">> \in manifest'
    <3>1. SUFFICES ASSUME NEW n \in bundle' PROVE <<n, "asset">> \in NextFiles(s)
      BY <1>2
    <3>2. CASE n \in InStock(s)
      <4>1. n \in PageSet
        BY <3>2 DEF InStock, Units
      <4>2. QED BY <1>3, <3>2, <4>1, LandedIs
    <3>3. CASE n \in Bundled(s)
      BY <2>3, <2>5, <3>3 DEF Bundled, Obsolete
    <3>4. QED BY <1>2, <3>1, <3>2, <3>3
  <2>9. carried' \subseteq bundle'
    <3>1. SUFFICES ASSUME NEW n \in carried \cap Units(s), stock[n] = "evicted" PROVE n \in Bundled(s)
      BY <1>2
    <3>2. n \in bundle /\ n \in PageSet /\ <<n, "asset">> \in s.prev
      BY <2>3, <2>5, <2>6, <3>1
    <3>3. <<n, "asset">> \in NextFiles(s)
      BY <1>3, <3>1, <3>2, LandedIs
    <3>4. QED BY <3>2, <3>3 DEF Bundled, Obsolete
  <2>10. \A q \in Exporters : going'[q].at # "assets"
    <3>1. going'[r].at # "assets"
      BY <1>4, <1>5 DEF NotGoing
    <3>2. \A q \in Exporters \ {r} : ~Running(q)
      BY <1>0, <1>3, <2>2 DEF ApartInv
    <3>3. \A q \in Exporters \ {r} : going'[q].at # "assets"
      BY <1>5, <3>2 DEF Running
    <3>4. QED BY <3>1, <3>3
  <2>11. QED BY <2>7, <2>8, <2>9, <2>10
<1>11. FollowInv'
  <2>1. CASE \E q \in Exporters \ {r} : Running(q)
    <3>1. unrenewed' = PageSet
      BY <1>0, <1>2, <1>3, <2>1 DEF ApartInv
    <3>2. QED BY <3>1, AllTouched
  <2>2. CASE ~\E q \in Exporters \ {r} : Running(q)
    <3>1. \A q \in Exporters : ~Running(q)'
      BY <1>5, <2>2
    <3>2. ASSUME NEW n \in PageSet, ~Touched(n)' PROVE FitsIndex(n, OnTheShelf(n))'
      <4>1. ~Touched(n)
        BY <1>2, <3>2 DEF Touched
      <4>2. PICK T : T = s.text[n]
        OBVIOUS
      <4>3. FitsIndex(n, T)
        <5>1. ComesRight(s, n)
          BY <1>0, <1>1, <1>3, <4>1 DEF FollowInv
        <5>2. QED BY <1>2, <4>2, <5>1 DEF ComesRight
      <4>4. FitsIndex(n, T)'
        <5>1. LibraryShape' /\ embeds' = embeds /\ Undisturbed(n)
          BY <1>0, <1>2, <1>7, AllUndisturbed DEF SkillsShape
        <5>2. QED BY <1>0, <4>3, <5>1, FitsStays
      <4>5. OnTheShelf(n)' = T
        BY <1>2, <1>3, <1>6, <4>2, LandedIs DEF OnTheShelf
      <4>6. QED BY <4>4, <4>5
    <3>3. QED BY <3>1, <3>2 DEF FollowInv
  <2>3. QED BY <2>1, <2>2
<1>12. QED BY <1>7, <1>8, <1>9, <1>10, <1>11 DEF SkillsInv

LEMMA ExportStopsStep ==
  ASSUME SkillsInv, NEW r \in Exporters, ExportStops(r) PROVE SkillsInv'
<1>0. SkillsShape /\ VouchedInv /\ ApartInv /\ LibraryShape
  BY DEF SkillsInv, SkillsShape
<1>1. PICK s : s = going[r]
  OBVIOUS
<1>2. /\ s.at = "assets"
      /\ bundle' = Bundled(s)
      /\ manifest' \in {manifest, {}} /\ going' = [going EXCEPT ![r] = NotGoing]
      /\ unrenewed' = PageSet /\ tangled' = TRUE
      /\ UNCHANGED <<embeds, sheet, indexed, stock, vouched, onSave, armed, sources, embedded, hasty>>
  BY <1>1 DEF ExportStops, GoingEnds, trigger
<1>3. PICK done \in SUBSET Units(s) : shelf' = Shelved(s, done)
  BY <1>1 DEF ExportStops
<1>4. ExportOK(s) /\ s \in Exports /\ Running(r) /\ \A n \in PageSet : s.text[n] \in PageTexts
  <2>1. ExportOK(s) /\ Running(r)
    BY <1>0, <1>1, <1>2 DEF Running, SkillsShape
  <2>2. s \in Exports
    BY <2>1 DEF ExportOK
  <2>3. QED BY <2>1, <2>2 DEF Exports
<1>5. PICK g : g = NotGoing
  OBVIOUS
<1>6. /\ going'[r] = g /\ ~Running(r)'
      /\ \A q \in Exporters \ {r} : going'[q] = going[q] /\ Running(q)' = Running(q)
  BY <1>0, <1>2, <1>5, GoingTo
<1>7. SkillsShape'
  <2>1. shelf' \in [PageSet -> PageTexts]
    <3>1. \A n \in PageSet : shelf[n] \in PageTexts /\ {} \in PageTexts
      BY <1>0 DEF SkillsShape, PageTexts
    <3>2. QED BY <1>3, <1>4, <3>1 DEF Shelved
  <2>2. bundle' \subseteq PageSet /\ manifest' \subseteq Listable
    BY <1>0, <1>2 DEF SkillsShape, Bundled
  <2>3. onSave' \in BOOLEAN /\ armed' \in BOOLEAN /\ tangled' \in BOOLEAN /\ unrenewed' \subseteq PageSet
        /\ embedded' = sources'
    BY <1>0, <1>2 DEF SkillsShape
  <2>4. QED BY <1>0, <1>2, <2>1, <2>2, <2>3, ShapeAfter
<1>8. VouchedInv'
  <2>1. Permissible' = Permissible
    BY <1>2 DEF Permissible
  <2>2. \A q \in Exporters : Running(q)' => going'[q] = going[q] /\ Running(q)
    BY <1>6
  <2>3. \A n \in PageSet : shelf'[n] \subseteq Permissible
    <3>1. \A n \in PageSet : s.text[n] \subseteq Permissible /\ shelf[n] \subseteq Permissible
      BY <1>0, <1>1, <1>4 DEF VouchedInv
    <3>2. QED BY <1>3, <3>1 DEF Shelved
  <2>4. QED BY <1>0, <1>2, <2>1, <2>2, <2>3 DEF VouchedInv, Compiles
<1>9. ApartInv'
  BY <1>2 DEF ApartInv
<1>10. ManifestInv'
  BY <1>2 DEF ManifestInv
<1>11. FollowInv'
  BY <1>2, AllTouched
<1>12. QED BY <1>7, <1>8, <1>9, <1>10, <1>11 DEF SkillsInv

LEMMA SkillsStart == SkillsInit => SkillsInv
<1>1. SUFFICES ASSUME SkillsInit PROVE SkillsInv
  OBVIOUS
<1>2. PICK t \in Tours : embeds = t.embed /\ sheet = t.sheet /\ stock = t.stock /\ onSave = t.onSave
  BY <1>1 DEF SkillsInit
<1>3. embeds \in [PageSet -> PageSet \cup {"none"}] /\ sheet \in [PageSet -> Sheets]
      /\ stock \in [PageSet -> {"none", "there", "evicted"}] /\ onSave \in BOOLEAN
  BY <1>2, SkillsAssumption
<1>4. /\ indexed = [n \in PageSet |-> Face(n)]
      /\ armed = FALSE /\ sources = {} /\ going = [r \in Exporters |-> NotGoing]
      /\ shelf = [n \in PageSet |-> {}] /\ bundle = {} /\ manifest = {}
      /\ vouched = {<<n, sheet[n].v>> : n \in {m \in PageSet : sheet[m].ok}}
      /\ hasty = {} /\ unrenewed = PageSet /\ embedded = {} /\ carried = {} /\ tangled = FALSE
  BY <1>1 DEF SkillsInit
<1>5. LibraryShape
  <2>1. \A n \in PageSet : Face(n) \in Faces /\ Face(n).v = sheet[n].v /\ sheet[n].v \in Nat
    BY <1>3 DEF Face, Faces, Sheets
  <2>2. \A n \in PageSet : sheet[n].v <= sheet[n].v
    BY <2>1
  <2>3. QED BY <1>3, <1>4, <2>1, <2>2 DEF LibraryShape
<1>6. \A r \in Exporters : ~Running(r) /\ going[r].at # "assets"
  BY <1>4 DEF Running, NotGoing
<1>7. SkillsShape
  <2>1. shelf \in [PageSet -> PageTexts] /\ bundle \subseteq PageSet /\ manifest \subseteq Listable
    BY <1>4 DEF PageTexts
  <2>2. going \in [Exporters -> Exports \cup {NotGoing}]
    BY <1>4
  <2>3. QED BY <1>3, <1>4, <1>5, <1>6, <2>1, <2>2 DEF SkillsShape
<1>8. VouchedInv
  BY <1>4, <1>6 DEF VouchedInv
<1>9. ApartInv /\ ManifestInv
  BY <1>4, <1>6 DEF ApartInv, ManifestInv
<1>10. FollowInv
  BY <1>4, <1>6 DEF FollowInv, Touched
<1>11. QED BY <1>7, <1>8, <1>9, <1>10 DEF SkillsInv

LEMMA SkillsIdle ==
  ASSUME SkillsInv, UNCHANGED skvars PROVE SkillsInv'
<1>1. UNCHANGED <<embeds, sheet, indexed, stock, looming, onSave, armed, sources, going, shelf, bundle, manifest,
            vouched, hasty, unrenewed, embedded, carried, tangled>>
  BY DEF skvars
<1>2. LibraryShape /\ LibraryShape' /\ VouchedInv /\ armed \in BOOLEAN /\ onSave \in BOOLEAN
      /\ unrenewed \subseteq PageSet
  BY <1>1 DEF SkillsInv, SkillsShape, LibraryShape
<1>3. \A m \in PageSet : sheet'[m].ok => <<m, sheet'[m].v>> \in vouched'
  BY <1>1, <1>2 DEF VouchedInv
<1>4. QED BY <1>1, <1>2, <1>3, AllUndisturbed, LibraryMoves DEF output

LEMMA SkillsStep ==
  ASSUME SkillsInv, [SkillsNext]_skvars PROVE SkillsInv'
<1>1. CASE UNCHANGED skvars
  BY <1>1, SkillsIdle
<1>2. ASSUME NEW n \in PageSet,
             (\E what \in Revisions : Revise(n, what)) \/ IndexFollows(n) \/ PageMoves(n) \/ Deleted(n) \/ StockChanges(n)
      PROVE  SkillsInv'
  BY <1>2, ReviseStep, IndexFollowsStep, PageMovesStep, DeletedStep, StockChangesStep
<1>3. ASSUME SettingChanges PROVE SkillsInv'
  BY <1>3, SettingChangesStep
<1>4. ASSUME NEW r \in Exporters, BodyArrives(r) \/ EmbedArrives(r) \/ ExportLands(r) \/ ExportStops(r)
      PROVE  SkillsInv'
  BY <1>4, BodyArrivesStep, EmbedArrivesStep, ExportLandsStep, ExportStopsStep
<1>5. ASSUME ByHand PROVE SkillsInv'
  <2>1. "gui" \in Exporters /\ armed' \in BOOLEAN
    BY <1>5 DEF Exporters, ByHand, trigger, SkillsInv, SkillsShape
  <2>2. QED BY <1>5, <2>1, ExportStartsStep DEF ByHand, trigger
<1>6. ASSUME ByTool PROVE SkillsInv'
  <2>1. "tool" \in Exporters /\ armed' \in BOOLEAN
    BY <1>6 DEF Exporters, ByTool, trigger, SkillsInv, SkillsShape
  <2>2. QED BY <1>6, <2>1, ExportStartsStep DEF ByTool, trigger
<1>7. ASSUME Fires PROVE SkillsInv'
  BY <1>7, FiresStep
<1>8. ASSUME Restarts PROVE SkillsInv'
  BY <1>8, RestartsStep
<1>9. QED BY <1>1, <1>2, <1>3, <1>4, <1>5, <1>6, <1>7, <1>8 DEF SkillsNext

\* At rest, what fits the index is what the vault compiles to.
LEMMA RestFollows ==
  ASSUME SkillsInv PROVE FollowsVault
<1>0. SkillsShape /\ FollowInv /\ LibraryShape
  BY DEF SkillsInv, SkillsShape
<1>1. SUFFICES ASSUME AtRest, NEW n \in PageSet \ unrenewed
               PROVE  CompilesNow(n, shelf[n]) \/ (~Fit(n) /\ <<n, "file">> \notin manifest)
  BY DEF FollowsVault
<1>2. \A m \in PageSet : sheet[m].there => /\ indexed[m].v = sheet[m].v /\ indexed[m].typed = sheet[m].typed
                                           /\ indexed[m].ok = sheet[m].ok
  <2>1. SUFFICES ASSUME NEW m \in PageSet, sheet[m].there
                 PROVE  indexed[m].v = sheet[m].v /\ indexed[m].typed = sheet[m].typed /\ indexed[m].ok = sheet[m].ok
    OBVIOUS
  <2>2. indexed[m] = Face(m)
    BY <1>1, <2>1 DEF AtRest
  <2>3. QED BY <2>2 DEF Face
<1>3. \A m \in PageSet : (IsUnit(m) <=> Fit(m)) /\ (IsGood(m) <=> Good(m))
  BY <1>2 DEF IsUnit, Fit, IsGood, Good
<1>4. PICK T : T = OnTheShelf(n)
  OBVIOUS
<1>5. FitsIndex(n, T)
  BY <1>0, <1>1, <1>4 DEF FollowInv, AtRest, Touched
<1>6. ASSUME IsUnit(n) PROVE CompilesNow(n, shelf[n])
  <2>1. PICK w \in Seq(PageSet) : Walks(n, w) /\ WalkEnds(w) /\ Tells(T, w)
    BY <1>5, <1>6 DEF FitsIndex
  <2>2. /\ Len(w) \in 1..EmbedDepth + 1 /\ Len(w) \in Nat /\ DOMAIN w = 1..Len(w) /\ w[1] = n
        /\ EmbedDepth \in Nat
    BY <2>1, SkillsAssumption DEF Walks
  <2>3. \A i \in 1..Len(w) : w[i] \in PageSet
    BY <2>1
  <2>4. T = shelf[n]
    <3>1. 1 \in 1..Len(w)
      BY <2>2
    <3>2. T # {}
      BY <2>1, <3>1 DEF Tells
    <3>3. QED BY <1>4, <3>2 DEF OnTheShelf
  <2>5. \A i \in 1..Len(w) : sheet[w[i]].there
    <3>1. \A i \in 1..Len(w) : i = 1 \/ i \in 2..Len(w)
      BY <2>2
    <3>2. QED BY <1>6, <2>1, <2>2, <3>1 DEF Walks, IsGood, IsUnit
  <2>6. \A i \in 1..Len(w) : \A v : UpToDate(w[i], v) => v = sheet[w[i]].v
    <3>1. SUFFICES ASSUME NEW i \in 1..Len(w), NEW v, UpToDate(w[i], v) PROVE v = sheet[w[i]].v
      OBVIOUS
    <3>2. indexed[w[i]].v = sheet[w[i]].v /\ sheet[w[i]].v \in Nat
      BY <1>0, <1>2, <2>3, <2>5, SheetIs
    <3>3. v \in Nat /\ indexed[w[i]].v <= v /\ v <= sheet[w[i]].v
      BY <3>1 DEF UpToDate
    <3>4. QED BY <3>2, <3>3
  <2>7. shelf[n] = {<<w[i], sheet[w[i]].v>> : i \in 1..Len(w)}
    <3>1. ASSUME NEW p \in T PROVE p \in {<<w[i], sheet[w[i]].v>> : i \in 1..Len(w)}
      <4>1. PICK i \in 1..Len(w) : \E v \in Nat : p = <<w[i], v>> /\ UpToDate(w[i], v)
        BY <2>1, <3>1 DEF Tells
      <4>2. QED BY <2>6, <4>1
    <3>2. ASSUME NEW i \in 1..Len(w) PROVE <<w[i], sheet[w[i]].v>> \in T
      <4>1. PICK v \in Nat : <<w[i], v>> \in T
        BY <2>1, <3>2 DEF Tells
      <4>2. PICK j \in 1..Len(w) : \E u \in Nat : <<w[i], v>> = <<w[j], u>> /\ UpToDate(w[j], u)
        BY <2>1, <4>1 DEF Tells
      <4>3. UpToDate(w[i], v)
        BY <4>2
      <4>4. v = sheet[w[i]].v
        BY <2>6, <3>2, <4>3
      <4>5. QED BY <4>1, <4>4
    <3>3. QED BY <2>4, <3>1, <3>2
  <2>8. w \in Chains(n)
    <3>1. w \in UNION {[1..k -> PageSet] : k \in 1..EmbedDepth + 1}
      <4>1. w \in [1..Len(w) -> PageSet]
        BY <2>1, <2>2, <2>3
      <4>2. QED BY <2>2, <4>1
    <3>2. \A i, j \in DOMAIN w : w[i] = w[j] => i = j
      BY <2>1, <2>2 DEF Walks
    <3>3. \A i \in DOMAIN w \ {1} : w[i] = Embed(w[i - 1]) /\ Good(w[i])
      <4>1. \A i \in DOMAIN w \ {1} : i \in 2..Len(w)
        BY <2>2
      <4>2. \A i \in 2..Len(w) : w[i] = embeds[w[i - 1]] /\ IsGood(w[i])
        BY <2>1 DEF Walks
      <4>3. QED BY <1>3, <2>2, <2>3, <4>1, <4>2 DEF Embed
    <3>4. LET e == Embed(w[Len(w)])
          IN Len(w) > EmbedDepth \/ e = "none" \/ ~Good(e) \/ \E i \in DOMAIN w : w[i] = e
      <4>1. PICK e : e = embeds[w[Len(w)]]
        OBVIOUS
      <4>2. e = "none" \/ e \in PageSet
        <5>1. Len(w) \in 1..Len(w)
          BY <2>2
        <5>2. w[Len(w)] \in PageSet
          BY <2>3, <5>1
        <5>3. QED BY <1>0, <4>1, <5>2 DEF LibraryShape
      <4>3. Len(w) > EmbedDepth \/ e = "none" \/ ~IsGood(e) \/ \E i \in 1..Len(w) : w[i] = e
        BY <2>1, <4>1 DEF WalkEnds
      <4>4. Len(w) > EmbedDepth \/ e = "none" \/ ~Good(e) \/ \E i \in DOMAIN w : w[i] = e
        BY <1>3, <2>2, <4>2, <4>3
      <4>5. QED BY <4>1, <4>4 DEF Embed
    <3>5. w[1] = n
      BY <2>2
    <3>6. QED BY <3>1, <3>2, <3>3, <3>4, <3>5 DEF Chains
  <2>9. QED BY <1>1, <1>3, <1>6, <2>2, <2>7, <2>8 DEF CompilesNow
<1>7. ASSUME ~IsUnit(n), <<n, "file">> \in manifest PROVE CompilesNow(n, shelf[n])
  <2>1. shelf[n] = {}
    BY <1>4, <1>5, <1>7 DEF FitsIndex, OnTheShelf
  <2>2. QED BY <1>1, <1>3, <1>7, <2>1 DEF CompilesNow
<1>8. QED BY <1>1, <1>3, <1>6, <1>7

\* SkillsSafe, for every vault, any nesting of embeds up to the limit and every order of the two
\* exporters' reads with what people, agents and the index do meanwhile: what is compiled was
\* verified, the output follows the vault, and it lists and keeps its files.
THEOREM SkillsAreSafe == SkillsSpec => []SkillsSafe
<1>1. SkillsInv => SkillsSafe
  <2>1. SUFFICES ASSUME SkillsInv PROVE SkillsSafe
    OBVIOUS
  <2>2. OnlyAccepted
    BY <2>1 DEF SkillsInv, VouchedInv, OnlyAccepted, Permissible
  <2>3. FollowsVault
    BY <2>1, RestFollows
  <2>4. NothingUnlisted /\ AssetKept
    BY <2>1 DEF SkillsInv, ManifestInv, NothingUnlisted, AssetKept
  <2>5. QED BY <2>2, <2>3, <2>4 DEF SkillsSafe
<1>2. QED BY <1>1, SkillsStart, SkillsStep, PTL DEF SkillsSpec
=============================================================================
