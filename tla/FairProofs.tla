------------------------------ MODULE FairProofs ------------------------------
(***************************************************************************)
(* Theorems about what serves beside the host.  The file server's index    *)
(* says of a note what the file says, once no event of it is still to      *)
(* come, for any vault, edits, builds, timers and stops; its ids and       *)
(* backlinks are then those that a rebuild would give.  The relay sends a  *)
(* request once and loses nothing that it queued.  The front: the watcher  *)
(* is off in LIVE mode unless stop() met an unfinished build, FS mode      *)
(* never serves with a stopped watcher, and the session counter errs in    *)
(* one direction only.                                                     *)
(***************************************************************************)
EXTENDS MCFair, Failover, FiniteSetTheorems, TLAPS

-----------------------------------------------------------------------------
(***************************************************************************)
(* Paths in lexical order: a set of them has a first and a last one.       *)
(***************************************************************************)
LEMMA PlaceOfPath ==
  ASSUME NEW p \in NotePaths
  PROVE  /\ Place(p) \in 1..Len(LexOrder) /\ Place(p) \in Nat
         /\ LexOrder[Place(p)] = p
<1>1. LexOrder \in Seq(NotePaths) /\ DOMAIN LexOrder = 1..Len(LexOrder) /\ Len(LexOrder) \in Nat
  BY IndexAssumption
<1>2. \E k \in DOMAIN LexOrder : LexOrder[k] = p
  BY DEF NotePaths
<1>3. Place(p) \in DOMAIN LexOrder /\ LexOrder[Place(p)] = p
  BY <1>2 DEF Place
<1>4. QED BY <1>1, <1>3

\* Two paths at one place are one.
LEMMA OnePath ==
  ASSUME NEW p \in NotePaths, NEW q \in NotePaths, Place(p) <= Place(q), Place(q) <= Place(p)
  PROVE  p = q
<1>1. Place(p) \in Nat /\ Place(q) \in Nat
  BY PlaceOfPath
<1>2. Place(p) = Place(q)
  BY <1>1
<1>3. QED BY <1>2, PlaceOfPath

LEMMA LeastOf ==
  ASSUME NEW N \in SUBSET Nat, N # {}
  PROVE  \E n \in N : \A k \in N : n <= k
<1>0. IsWellFoundedOn(OpToRel(<, Nat), Nat)
  BY NatLessThanWellFounded
<1>1. PICK n \in N : \A k \in N : ~(<<k, n>> \in OpToRel(<, Nat))
  BY <1>0, WFMin
<1>2. ASSUME NEW k \in N PROVE n <= k
  <2>1. n \in Nat /\ k \in Nat /\ ~(k < n)
    BY <1>1 DEF OpToRel
  <2>2. QED BY <2>1
<1>3. QED BY <1>2

LEMMA FirstOf ==
  ASSUME NEW S, S \subseteq NotePaths, S # {}
  PROVE  First(S) \in S
<1> DEFINE N == {Place(p) : p \in S}
<1>1. N \in SUBSET Nat /\ N # {}
  BY PlaceOfPath
<1> HIDE DEF N
<1>2. PICK n \in N : \A k \in N : n <= k
  BY <1>1, LeastOf
<1>3. \E p \in S : \A q \in S : Place(p) <= Place(q)
  BY <1>2 DEF N
<1>4. QED BY <1>3 DEF First

LEMMA LastOf ==
  ASSUME NEW S, S \subseteq NotePaths, S # {}
  PROVE  \E p \in S : \A q \in S : Place(q) <= Place(p)
<1> DEFINE N == {Len(LexOrder) - Place(p) : p \in S}
<1>0. \A p \in S : Place(p) \in 1..Len(LexOrder) /\ Len(LexOrder) \in Nat /\ Place(p) \in Nat
  BY PlaceOfPath, IndexAssumption
<1>1. N \in SUBSET Nat /\ N # {}
  BY <1>0
<1> HIDE DEF N
<1>2. PICK n \in N : \A k \in N : n <= k
  BY <1>1, LeastOf
<1>3. PICK p \in S : n = Len(LexOrder) - Place(p)
  BY <1>2 DEF N
<1>4. ASSUME NEW q \in S PROVE Place(q) <= Place(p)
  <2>1. n <= Len(LexOrder) - Place(q)
    BY <1>2 DEF N
  <2>2. QED BY <1>0, <1>3, <2>1
<1>5. QED BY <1>4

-----------------------------------------------------------------------------
(***************************************************************************)
(* Types: an event names a path, one job runs, and an update runs only on  *)
(* an index that is ready.                                                 *)
(***************************************************************************)
Entries == [event : {"build", "change", "unlink"}, path : NotePaths \cup {NoNote}]
BuildJobs == [event : {"build"}, read : [NotePaths -> Contents \cup {NoNote}], todo : SUBSET NotePaths]
Changes == [event : {"change"}, path : NotePaths, note : Contents]

ChainOK(s) ==
  s \in Seq(Entries) /\ \A k \in 1..Len(s) : s[k].event # "build" => s[k].path \in NotePaths

IndexShape ==
  /\ files \in [NotePaths -> Contents \cup {NoNote}]
  /\ notes \in [NotePaths -> Contents \cup {NoNote}]
  /\ status \in {"empty", "ready", "error"}
  /\ byJdId \in [Ids -> NotePaths \cup {NoNote}]
  /\ fs \in {"off", "building", "starting", "watching", "skipped"}
  /\ notified \subseteq NotePaths /\ timer \in [NotePaths -> {"none", "change", "unlink"}]
  /\ ChainOK(chain)
  /\ \/ job = {}
     \/ \E j \in BuildJobs : job = {j}
     \/ status = "ready" /\ \E j \in Changes : job = {j}
  /\ missed \subseteq NotePaths /\ unelected \subseteq Ids
  /\ edits \in 0..MaxEdits /\ builds \in 0..MaxBuilds
  /\ status # "ready" => notes = Nothing

(***************************************************************************)
(* Ids: whom an id leads to is indexed and has the id, and no indexed note *)
(* that has it comes later, but for the ids a removal took from their note.*)
(***************************************************************************)
Bearers(ns, i) == {p \in Carried(ns) : IdOf[p] = i}

IdsKept(ns, ids, lost) ==
  /\ \A i \in Ids : ids[i] # NoNote => ids[i] \in Bearers(ns, i)
  /\ \A i \in Ids \ lost : \A q \in Bearers(ns, i) : ids[i] # NoNote /\ Place(q) <= Place(ids[i])

IdsInv == IdsKept(notes, byJdId, unelected) /\ backlinks = BacklinksOf(notes, byJdId)

(***************************************************************************)
(* Currency: what waits in the chain will mend what the index says of a    *)
(* note; and where nothing does, nothing that waits will undo it, and the  *)
(* running job or the index has the file's text already.                   *)
(***************************************************************************)
Mend(e, p, c) ==
  e.event = "build" \/ (e.path = p /\ e.event = IF c = NoNote THEN "unlink" ELSE "change")
Undo(e, p) == e.event = "unlink" /\ e.path = p

Mends(s, p, c) ==
  \E k \in 1..Len(s) : /\ Mend(s[k], p, c)
                       /\ c # NoNote => \A n \in 1..Len(s) : n > k => ~Undo(s[n], p)
Clear(s, p, c) == c # NoNote => \A n \in 1..Len(s) : ~Undo(s[n], p)

JobHas(p) ==
  /\ \A j \in job : j.event = "build" => p \in j.todo \/ j.read[p] = files[p]
  /\ \A j \in job : j.event = "change" /\ j.path = p => j.note = files[p]
  /\ (\A j \in job : j.event = "change" /\ j.path # p) /\ status = "ready" => notes[p] = files[p]

Watched(p) == p \notin notified /\ timer[p] = "none" /\ p \notin missed

CurrentInv ==
  /\ fs # "watching" => \A p \in NotePaths : timer[p] = "none"
  /\ \A p \in NotePaths :
       timer[p] # "none" /\ p \notin notified => (timer[p] = "unlink" <=> files[p] = NoNote)
  /\ \A p \in NotePaths : Watched(p)
       => Mends(chain, p, files[p]) \/ (Clear(chain, p, files[p]) /\ JobHas(p))

IndexInv == IndexShape /\ IdsInv /\ CurrentInv

-----------------------------------------------------------------------------
\* An event joins the chain, and its first one leaves it.
LEMMA ChainGrows ==
  ASSUME NEW s, ChainOK(s), NEW e \in Entries, e.event # "build" => e.path \in NotePaths
  PROVE  /\ ChainOK(Append(s, e))
         /\ Len(Append(s, e)) = Len(s) + 1 /\ Len(s) \in Nat
         /\ \A k \in 1..Len(s) : Append(s, e)[k] = s[k]
         /\ Append(s, e)[Len(s) + 1] = e
<1>1. /\ Append(s, e) \in Seq(Entries) /\ Len(Append(s, e)) = Len(s) + 1 /\ Len(s) \in Nat
      /\ \A k \in 1..Len(s) : Append(s, e)[k] = s[k]
      /\ Append(s, e)[Len(s) + 1] = e
  BY DEF ChainOK
<1>2. \A k \in 1..(Len(s) + 1) : k \in 1..Len(s) \/ k = Len(s) + 1
  BY <1>1
<1>3. QED BY <1>1, <1>2 DEF ChainOK

LEMMA ChainShrinks ==
  ASSUME NEW s, ChainOK(s), s # <<>>
  PROVE  /\ ChainOK(Tail(s)) /\ Head(s) = s[1] /\ 1 \in 1..Len(s)
         /\ Len(Tail(s)) = Len(s) - 1 /\ Len(s) \in Nat
         /\ \A k \in 1..Len(Tail(s)) : Tail(s)[k] = s[k + 1] /\ k + 1 \in 1..Len(s)
<1>1. /\ Tail(s) \in Seq(Entries) /\ Head(s) = s[1] /\ Len(s) \in Nat /\ Len(s) > 0
      /\ Len(Tail(s)) = Len(s) - 1
      /\ \A k \in 1..(Len(s) - 1) : Tail(s)[k] = s[k + 1]
  BY DEF ChainOK
<1>2. \A k \in 1..(Len(s) - 1) : k + 1 \in 1..Len(s)
  BY <1>1
<1>3. QED BY <1>1, <1>2 DEF ChainOK

\* What an event that joins, or the first one that leaves, does to what waits for p.
LEMMA MendJoins ==
  ASSUME NEW s, ChainOK(s), NEW e \in Entries, e.event # "build" => e.path \in NotePaths,
         NEW p, NEW c
  PROVE  /\ Mend(e, p, c) /\ (c # NoNote => ~Undo(e, p)) => Mends(Append(s, e), p, c)
         /\ ~Undo(e, p) /\ Mends(s, p, c) => Mends(Append(s, e), p, c)
         /\ ~Undo(e, p) /\ Clear(s, p, c) => Clear(Append(s, e), p, c)
<1>0. PICK t, n : t = Append(s, e) /\ n = Len(s)
  OBVIOUS
<1>1. /\ Len(t) = n + 1 /\ n \in Nat /\ t[n + 1] = e
      /\ \A k \in 1..n : t[k] = s[k]
  BY <1>0, ChainGrows
<1>2. \A k \in 1..(n + 1) : k \in 1..n \/ k = n + 1
  BY <1>1
<1>3. n + 1 \in 1..(n + 1) /\ (\A k \in 1..(n + 1) : ~(k > n + 1)) /\ \A k \in 1..n : k \in 1..(n + 1)
  BY <1>1
<1>4. Mend(e, p, c) /\ (c # NoNote => ~Undo(e, p)) => Mends(t, p, c)
  BY <1>1, <1>3 DEF Mends
<1>5. ASSUME ~Undo(e, p), Mends(s, p, c) PROVE Mends(t, p, c)
  <2>1. PICK k \in 1..n : /\ Mend(s[k], p, c)
                          /\ c # NoNote => \A m \in 1..n : m > k => ~Undo(s[m], p)
    BY <1>0, <1>5 DEF Mends
  <2>2. c # NoNote => \A m \in 1..(n + 1) : m > k => ~Undo(t[m], p)
    BY <1>1, <1>2, <1>5, <2>1
  <2>3. Mend(t[k], p, c) /\ k \in 1..(n + 1)
    BY <1>1, <1>3, <2>1
  <2>4. QED BY <1>1, <2>2, <2>3 DEF Mends
<1>6. ASSUME ~Undo(e, p), Clear(s, p, c) PROVE Clear(t, p, c)
  BY <1>0, <1>1, <1>2, <1>6 DEF Clear
<1>7. QED BY <1>0, <1>4, <1>5, <1>6

LEMMA MendLeaves ==
  ASSUME NEW s, ChainOK(s), s # <<>>, NEW p, NEW c
  PROVE  /\ Mends(s, p, c) => Mends(Tail(s), p, c) \/ (Mend(Head(s), p, c) /\ Clear(Tail(s), p, c))
         /\ Clear(s, p, c) => Clear(Tail(s), p, c)
<1>0. PICK t, n : t = Tail(s) /\ n = Len(s)
  OBVIOUS
<1>1. /\ Len(t) = n - 1 /\ n \in Nat /\ Head(s) = s[1] /\ 1 \in 1..n
      /\ \A k \in 1..(n - 1) : t[k] = s[k + 1] /\ k + 1 \in 1..n
  BY <1>0, ChainShrinks
<1>2. ASSUME Mends(s, p, c), ~Mends(t, p, c) PROVE Mend(Head(s), p, c) /\ Clear(t, p, c)
  <2>1. PICK k \in 1..n : /\ Mend(s[k], p, c)
                          /\ c # NoNote => \A m \in 1..n : m > k => ~Undo(s[m], p)
    BY <1>0, <1>2 DEF Mends
  <2>2. CASE k = 1
    <3>1. c # NoNote => \A m \in 1..(n - 1) : ~Undo(t[m], p)
      BY <1>1, <2>1, <2>2
    <3>2. QED BY <1>1, <2>1, <2>2, <3>1 DEF Clear
  <2>3. CASE k # 1
    <3>1. k - 1 \in 1..(n - 1) /\ (k - 1) + 1 = k
      BY <1>1, <2>1, <2>3
    <3>2. Mend(t[k - 1], p, c)
      BY <1>1, <2>1, <3>1
    <3>3. c # NoNote => \A m \in 1..(n - 1) : m > k - 1 => ~Undo(t[m], p)
      BY <1>1, <2>1, <3>1
    <3>4. Mends(t, p, c)
      BY <1>1, <3>1, <3>2, <3>3 DEF Mends
    <3>5. QED BY <1>2, <3>4
  <2>4. QED BY <2>2, <2>3
<1>3. Clear(s, p, c) => Clear(t, p, c)
  BY <1>0, <1>1 DEF Clear
<1>4. QED BY <1>0, <1>2, <1>3

-----------------------------------------------------------------------------
\* The election of a rebuild: the lexically last bearer of an id.
LEMMA ElectedIs ==
  ASSUME NEW ns, NEW i \in Ids, NEW p \in Bearers(ns, i), \A q \in Bearers(ns, i) : Place(q) <= Place(p)
  PROVE  Elected(ns)[i] = p
<1> DEFINE B == {q \in Carried(ns) : IdOf[q] = i}
<1>1. B = Bearers(ns, i) /\ B \subseteq NotePaths
  BY DEF Bearers, Carried
<1>2. Elected(ns)[i] = CHOOSE q \in B : \A r \in B : Place(r) <= Place(q)
  BY <1>1 DEF Elected, Bearers
<1>3. \A q \in B : (\A r \in B : Place(r) <= Place(q)) => q = p
  BY <1>1, OnePath
<1>4. QED BY <1>1, <1>2, <1>3

LEMMA NoneElected ==
  ASSUME NEW ns, NEW i \in Ids, Bearers(ns, i) = {}
  PROVE  Elected(ns)[i] = NoNote
BY DEF Elected, Bearers

LEMMA ElectedKept ==
  ASSUME NEW ns
  PROVE  Elected(ns) \in [Ids -> NotePaths \cup {NoNote}] /\ IdsKept(ns, Elected(ns), {})
<1>1. ASSUME NEW i \in Ids, Bearers(ns, i) # {}
      PROVE  Elected(ns)[i] \in Bearers(ns, i) /\ \A q \in Bearers(ns, i) : Place(q) <= Place(Elected(ns)[i])
  <2>1. PICK p \in Bearers(ns, i) : \A q \in Bearers(ns, i) : Place(q) <= Place(p)
    BY <1>1, LastOf DEF Bearers, Carried
  <2>2. Elected(ns)[i] = p
    BY <2>1, ElectedIs
  <2>3. QED BY <2>1, <2>2
<1>2. \A i \in Ids : Bearers(ns, i) \subseteq NotePaths /\ NoNote \notin Bearers(ns, i)
  BY IndexAssumption DEF Bearers, Carried
<1>3. \A i \in Ids : Elected(ns)[i] \in NotePaths \cup {NoNote}
  BY <1>1, <1>2, NoneElected
<1>4. Elected(ns) \in [Ids -> NotePaths \cup {NoNote}]
  BY <1>3 DEF Elected
<1>5. \A i \in Ids : Elected(ns)[i] # NoNote => Elected(ns)[i] \in Bearers(ns, i)
  BY <1>1, NoneElected
<1>6. \A i \in Ids : \A q \in Bearers(ns, i) :
        Elected(ns)[i] # NoNote /\ Place(q) <= Place(Elected(ns)[i])
  BY <1>1, <1>2
<1>7. QED BY <1>4, <1>5, <1>6 DEF IdsKept

\* The ids that no removal took are those of a rebuild.
LEMMA KeptIsElected ==
  ASSUME NEW ns, NEW ids, NEW lost, IdsKept(ns, ids, lost), NEW i \in Ids \ lost
  PROVE  ids[i] = Elected(ns)[i]
<1>1. CASE Bearers(ns, i) = {}
  BY <1>1, NoneElected DEF IdsKept
<1>2. CASE Bearers(ns, i) # {}
  <2>1. ids[i] \in Bearers(ns, i) /\ \A q \in Bearers(ns, i) : Place(q) <= Place(ids[i])
    BY <1>2 DEF IdsKept
  <2>2. QED BY <2>1, ElectedIs
<1>3. QED BY <1>1, <1>2

\* A note is taken out and put in again.
LEMMA IdsPut ==
  ASSUME NEW ns \in [NotePaths -> Contents \cup {NoNote}], NEW ids \in [Ids -> NotePaths \cup {NoNote}],
         NEW lost, IdsKept(ns, ids, lost), NEW p \in NotePaths, NEW c \in Contents, NEW ns2,
         ns2 = [ns EXCEPT ![p] = c]
  PROVE  /\ IdsWith(IdsWithout(ids, p), p) \in [Ids -> NotePaths \cup {NoNote}]
         /\ IdsKept(ns2, IdsWith(IdsWithout(ids, p), p), lost)
<1>0. PICK out, put : out = IdsWithout(ids, p) /\ put = IdsWith(IdsWithout(ids, p), p)
  OBVIOUS
<1>1. p # NoNote /\ c # NoNote
  BY IndexAssumption
<1>2. /\ \A i \in Ids : out[i] = IF ids[i] = p THEN NoNote ELSE ids[i]
      /\ \A i \in Ids : put[i] = IF IdOf[p] = i /\ (out[i] = NoNote \/ Place(out[i]) <= Place(p))
                                  THEN p ELSE out[i]
  BY <1>0 DEF IdsWithout, IdsWith
<1>3. put \in [Ids -> NotePaths \cup {NoNote}]
  BY <1>0, <1>2 DEF IdsWith
<1>4. /\ \A i \in Ids : IdOf[p] # i => Bearers(ns2, i) = Bearers(ns, i) /\ p \notin Bearers(ns, i)
      /\ \A i \in Ids : IdOf[p] = i => Bearers(ns2, i) = Bearers(ns, i) \cup {p}
  BY <1>1 DEF Bearers, Carried
<1>5. \A i \in Ids : Bearers(ns, i) \subseteq NotePaths /\ NoNote \notin Bearers(ns, i)
  BY IndexAssumption DEF Bearers, Carried
<1>6. \A i \in Ids : IdOf[p] # i => put[i] = ids[i]
  BY <1>2, <1>4 DEF IdsKept
<1>7. ASSUME NEW i \in Ids, IdOf[p] = i
      PROVE  /\ put[i] # NoNote => put[i] \in Bearers(ns2, i)
             /\ i \notin lost => \A q \in Bearers(ns2, i) : put[i] # NoNote /\ Place(q) <= Place(put[i])
  <2>0. Bearers(ns2, i) = Bearers(ns, i) \cup {p} /\ Bearers(ns, i) \subseteq NotePaths
    BY <1>4, <1>5, <1>7
  <2>1. ids[i] # NoNote => ids[i] \in Bearers(ns, i)
    BY DEF IdsKept
  <2>p. \A q \in NotePaths : Place(q) \in Nat
    BY PlaceOfPath
  <2>2. CASE put[i] = p
    <3>1. i \notin lost => \A q \in Bearers(ns, i) : Place(q) <= Place(p)
      <4>1. i \notin lost => \A q \in Bearers(ns, i) : ids[i] # NoNote /\ Place(q) <= Place(ids[i])
        BY DEF IdsKept
      <4>2. ids[i] = NoNote \/ ids[i] = p \/ Place(ids[i]) <= Place(p)
        BY <1>2, <2>2
      <4>3. QED BY <2>0, <2>1, <2>p, <4>1, <4>2
    <3>2. \A q \in Bearers(ns2, i) : i \notin lost => Place(q) <= Place(p)
      BY <2>0, <2>p, <3>1
    <3>3. put[i] \in Bearers(ns2, i) /\ put[i] # NoNote
      BY <1>1, <2>0, <2>2
    <3>4. QED BY <2>2, <3>2, <3>3
  <2>3. CASE put[i] # p
    <3>1. put[i] = ids[i] /\ ids[i] # NoNote /\ ids[i] # p /\ ~(Place(ids[i]) <= Place(p))
      BY <1>2, <1>7, <2>3
    <3>2. ids[i] \in NotePaths
      BY <3>1
    <3>3. Place(p) <= Place(ids[i])
      BY <2>p, <3>1, <3>2
    <3>4. i \notin lost => \A q \in Bearers(ns, i) : Place(q) <= Place(ids[i])
      BY DEF IdsKept
    <3>5. QED BY <2>0, <2>1, <3>1, <3>3, <3>4
  <2>4. QED BY <2>2, <2>3
<1>8. \A i \in Ids : put[i] # NoNote => put[i] \in Bearers(ns2, i)
  BY <1>4, <1>6, <1>7 DEF IdsKept
<1>9. \A i \in Ids \ lost : \A q \in Bearers(ns2, i) : put[i] # NoNote /\ Place(q) <= Place(put[i])
  BY <1>4, <1>6, <1>7 DEF IdsKept
<1>10. QED BY <1>0, <1>3, <1>8, <1>9 DEF IdsKept

\* A note is removed: its id is lost to the other notes that have it.
IdsLose(ns, ids, lost, p, ns2, out, gone) ==
  /\ ns \in [NotePaths -> Contents \cup {NoNote}] /\ ids \in [Ids -> NotePaths \cup {NoNote}]
  /\ IdsKept(ns, ids, lost)
  /\ p \in NotePaths /\ ns2 = [ns EXCEPT ![p] = NoNote] /\ out = IdsWithout(ids, p)
  /\ \A i \in Ids : ids[i] = p /\ (\E q \in Carried(ns2) : IdOf[q] = i) => i \in gone

LEMMA IdsTaken ==
  ASSUME NEW ns, NEW ids, NEW lost, NEW p, NEW ns2, NEW out, NEW gone,
         IdsLose(ns, ids, lost, p, ns2, out, gone)
  PROVE  IdsKept(ns2, out, lost \cup gone)
<1> USE DEF IdsLose
<1>1. \A i \in Ids : out[i] = IF ids[i] = p THEN NoNote ELSE ids[i]
  BY DEF IdsWithout
<1>2. out \in [Ids -> NotePaths \cup {NoNote}]
  BY <1>1 DEF IdsWithout
<1>3. \A i \in Ids : Bearers(ns2, i) = Bearers(ns, i) \ {p}
  BY DEF Bearers, Carried
<1>4. \A i \in Ids : out[i] # NoNote => out[i] \in Bearers(ns2, i)
  BY <1>1, <1>3 DEF IdsKept
<1>5. ASSUME NEW i \in Ids \ (lost \cup gone), NEW q \in Bearers(ns2, i)
      PROVE  out[i] # NoNote /\ Place(q) <= Place(out[i])
  <2>1. q \in Bearers(ns, i) /\ q \in Carried(ns2) /\ IdOf[q] = i
    BY <1>3, <1>5 DEF Bearers
  <2>2. ids[i] # p
    BY <1>5, <2>1
  <2>3. ids[i] # NoNote /\ Place(q) <= Place(ids[i])
    BY <1>5, <2>1 DEF IdsKept
  <2>4. QED BY <1>1, <2>2, <2>3
<1>6. QED BY <1>2, <1>4, <1>5 DEF IdsKept

-----------------------------------------------------------------------------
\* Types: every action.
LEMMA BacklinksTyped ==
  ASSUME NEW ns, NEW ids
  PROVE  BacklinksOf(ns, ids) \in [NotePaths -> SUBSET NotePaths]
BY DEF BacklinksOf, Carried

LEMMA ShapeInitially == IndexInit => IndexShape
<1> SUFFICES ASSUME IndexInit PROVE IndexShape
  OBVIOUS
<1>1. ChainOK(chain)
  BY DEF IndexInit, ChainOK
<1>2. Nothing \in [NotePaths -> Contents \cup {NoNote}]
  BY DEF Nothing
<1>3. QED BY <1>1, <1>2, IndexAssumption DEF IndexInit, IndexShape

\* A build that is asked for joins the chain, or one that waits or runs.
LEMMA AskedChain ==
  ASSUME IndexShape, Asked
  PROVE  /\ builds' \in 0..MaxBuilds
         /\ \/ chain' = Append(chain, [event |-> "build", path |-> NoNote])
            \/ UNCHANGED chain
         /\ ChainOK(chain')
<1>1. /\ builds < MaxBuilds /\ builds' = builds + 1
      /\ \/ chain' = Append(chain, [event |-> "build", path |-> NoNote])
         \/ UNCHANGED chain
  BY DEF Asked
<1>2. [event |-> "build", path |-> NoNote] \in Entries
  BY DEF Entries
<1>3. ChainOK(Append(chain, [event |-> "build", path |-> NoNote]))
  BY <1>2, ChainGrows DEF IndexShape
<1>4. builds' \in 0..MaxBuilds
  BY <1>1, IndexAssumption DEF IndexShape
<1>5. QED BY <1>1, <1>3, <1>4 DEF IndexShape

\* The job of a step that has one.
LEMMA TheJob ==
  ASSUME IndexShape, NEW j \in job
  PROVE  /\ job = {j}
         /\ j \in BuildJobs \/ (j \in Changes /\ status = "ready")
         /\ j.event = "build" => j \in BuildJobs
         /\ j.event = "change" => j \in Changes /\ status = "ready"
<1>1. (\A b \in BuildJobs : b.event = "build") /\ \A b \in Changes : b.event = "change"
  BY DEF BuildJobs, Changes
<1>2. job = {j} /\ (j \in BuildJobs \/ (j \in Changes /\ status = "ready"))
  BY DEF IndexShape
<1>3. QED BY <1>1, <1>2

LEMMA ShapeStep ==
  ASSUME IndexShape, [IndexNext]_xvars
  PROVE  IndexShape'
<1> USE DEF IndexShape
<1>0. ChainOK(chain) /\ \A e \in Entries : e.event \in {"build", "change", "unlink"}
  BY DEF Entries
<1>1. ASSUME NEW p \in NotePaths, NEW c \in Contents \cup {NoNote}, Edit(p, c) PROVE IndexShape'
  <2>1. /\ files' = [files EXCEPT ![p] = c] /\ edits < MaxEdits /\ edits' = edits + 1
        /\ notified' \subseteq NotePaths /\ missed' \subseteq NotePaths
        /\ UNCHANGED <<status, notes, byJdId, unelected, chain, job, fs, timer, builds>>
    BY <1>1 DEF Edit, indexed
  <2>2. edits' \in 0..MaxEdits
    BY <2>1, IndexAssumption
  <2>3. QED BY <2>1, <2>2
<1>2. ASSUME IndexReady \/ ForceReindex PROVE IndexShape'
  <2>1. /\ Asked /\ fs' \in {fs, "building"}
        /\ UNCHANGED <<files, status, notes, byJdId, unelected, job, notified, timer, missed, edits>>
    BY <1>2 DEF IndexReady, ForceReindex, indexed, watch
  <2>2. QED BY <2>1, AskedChain
<1>3. ASSUME BuildStarts PROVE IndexShape'
  <2>1. /\ chain # <<>> /\ chain' = Tail(chain) /\ missed' \subseteq missed
        /\ job' = {[event |-> "build", read |-> Nothing, todo |-> Carried(files)]}
        /\ UNCHANGED <<files, status, notes, byJdId, unelected, fs, notified, timer, edits, builds>>
    BY <1>3 DEF BuildStarts, indexed, watch
  <2>2. [event |-> "build", read |-> Nothing, todo |-> Carried(files)] \in BuildJobs
    BY DEF BuildJobs, Nothing, Carried
  <2>3. ChainOK(chain')
    BY <1>0, <2>1, ChainShrinks
  <2>4. QED BY <2>1, <2>2, <2>3
<1>4. ASSUME BuildReads PROVE IndexShape'
  <2>1. PICK j \in job : /\ j.event = "build" /\ j.todo # {}
                         /\ job' = {[j EXCEPT !.todo = @ \ {First(j.todo)}, !.read[First(j.todo)] = files[First(j.todo)]]}
                         /\ missed' \subseteq missed
    BY <1>4 DEF BuildReads
  <2>2. UNCHANGED <<files, status, notes, byJdId, unelected, chain, fs, notified, timer, edits, builds>>
    BY <1>4 DEF BuildReads, indexed, watch
  <2>3. j \in BuildJobs
    BY <2>1, TheJob
  <2>4. PICK p : p = First(j.todo)
    OBVIOUS
  <2>5. p \in NotePaths
    BY <2>1, <2>3, <2>4, FirstOf DEF BuildJobs
  <2>6. [j EXCEPT !.todo = @ \ {p}, !.read[p] = files[p]] \in BuildJobs
    BY <2>3, <2>5 DEF BuildJobs
  <2>7. QED BY <2>1, <2>2, <2>4, <2>6
<1>5. ASSUME BuildDone PROVE IndexShape'
  <2>1. PICK j \in job : /\ j.event = "build" /\ notes' = j.read /\ status' = "ready"
                         /\ byJdId' = Elected(notes')
    BY <1>5 DEF BuildDone
  <2>2. /\ job' = {} /\ unelected' = {} /\ fs' \in {fs, "starting", "skipped"}
        /\ UNCHANGED <<files, chain, notified, timer, missed, edits, builds>>
    BY <1>5 DEF BuildDone, Handed
  <2>3. notes' \in [NotePaths -> Contents \cup {NoNote}]
    BY <2>1, TheJob DEF BuildJobs
  <2>4. byJdId' \in [Ids -> NotePaths \cup {NoNote}]
    BY <2>1, ElectedKept
  <2>5. QED BY <2>1, <2>2, <2>3, <2>4
<1>6. ASSUME BuildFails PROVE IndexShape'
  <2>1. /\ job' = {} /\ unelected' = {} /\ fs' \in {fs, "starting", "skipped"} /\ status' = "error"
        /\ notes' = Nothing /\ byJdId' = [i \in Ids |-> NoNote]
        /\ UNCHANGED <<files, chain, notified, timer, missed, edits, builds>>
    BY <1>6 DEF BuildFails, Handed
  <2>2. Nothing \in [NotePaths -> Contents \cup {NoNote}]
    BY DEF Nothing
  <2>3. QED BY <2>1, <2>2
<1>7. ASSUME IndexWatched PROVE IndexShape'
  BY <1>7 DEF IndexWatched, indexed
<1>8. ASSUME NEW p \in NotePaths, Schedule(p) PROVE IndexShape'
  BY <1>8 DEF Schedule, indexed
<1>9. ASSUME NEW p \in NotePaths, DebounceFires(p) PROVE IndexShape'
  <2>1. /\ timer[p] # "none" /\ chain' = Append(chain, [event |-> timer[p], path |-> p])
        /\ timer' = [timer EXCEPT ![p] = "none"]
        /\ UNCHANGED <<files, status, notes, byJdId, unelected, job, fs, notified, missed, edits, builds>>
    BY <1>9 DEF DebounceFires, indexed
  <2>2. [event |-> timer[p], path |-> p] \in Entries
    BY <2>1 DEF Entries
  <2>3. ChainOK(chain')
    BY <1>0, <2>1, <2>2, ChainGrows
  <2>4. QED BY <2>1, <2>3
<1>10. ASSUME ChangeStarts PROVE IndexShape'
  <2>1. /\ chain # <<>> /\ Head(chain).event = "change" /\ chain' = Tail(chain)
        /\ UNCHANGED <<files, status, notes, byJdId, unelected, fs, notified, timer, missed, edits, builds>>
    BY <1>10 DEF ChangeStarts, indexed, watch
  <2>2. PICK p : p = Head(chain).path
    OBVIOUS
  <2>3. \/ job' = {}
        \/ /\ status = "ready" /\ files[p] # NoNote
           /\ job' = {[event |-> "change", path |-> p, note |-> files[p]]}
    BY <1>10, <2>2 DEF ChangeStarts
  <2>4. p \in NotePaths /\ ChainOK(chain')
    BY <1>0, <2>1, <2>2, ChainShrinks DEF ChainOK
  <2>5. CASE job' = {}
    BY <2>1, <2>4, <2>5
  <2>6. CASE /\ status = "ready" /\ files[p] # NoNote
             /\ job' = {[event |-> "change", path |-> p, note |-> files[p]]}
    <3>1. [event |-> "change", path |-> p, note |-> files[p]] \in Changes
      BY <2>4, <2>6 DEF Changes
    <3>2. QED BY <2>1, <2>4, <2>6, <3>1
  <2>7. QED BY <2>3, <2>5, <2>6
<1>11. ASSUME ChangeApplied PROVE IndexShape'
  <2>1. PICK j \in job : /\ j.event = "change" /\ notes' = [notes EXCEPT ![j.path] = j.note]
                         /\ job' = {}
    BY <1>11 DEF ChangeApplied
  <2>2. UNCHANGED <<files, status, unelected, chain, fs, notified, timer, missed, edits, builds>>
    BY <1>11 DEF ChangeApplied, watch
  <2>3. j \in Changes /\ status = "ready"
    BY <2>1, TheJob
  <2>4. notes' \in [NotePaths -> Contents \cup {NoNote}]
    BY <2>1, <2>3 DEF Changes
  <2>5. byJdId' \in [Ids -> NotePaths \cup {NoNote}]
    <3>1. \E p \in NotePaths : byJdId' = IdsWith(IdsWithout(byJdId, p), p)
      BY <1>11, TheJob DEF ChangeApplied, Changes
    <3>2. PICK p \in NotePaths : byJdId' = IdsWith(IdsWithout(byJdId, p), p)
      BY <3>1
    <3>3. \A i \in Ids : IdsWithout(byJdId, p)[i] \in NotePaths \cup {NoNote}
      BY DEF IdsWithout
    <3>4. QED BY <3>2, <3>3 DEF IdsWith
  <2>6. QED BY <2>1, <2>2, <2>3, <2>4, <2>5
<1>12. ASSUME Unlinked PROVE IndexShape'
  <2>1. /\ chain # <<>> /\ Head(chain).event = "unlink" /\ chain' = Tail(chain)
        /\ UNCHANGED <<files, status, fs, notified, timer, job, missed, edits, builds>>
    BY <1>12 DEF Unlinked, watch
  <2>2. PICK p : p = Head(chain).path
    OBVIOUS
  <2>3. \/ UNCHANGED <<notes, byJdId, unelected>>
        \/ /\ status = "ready" /\ notes' = [notes EXCEPT ![p] = NoNote]
           /\ byJdId' = IdsWithout(byJdId, p) /\ unelected' \subseteq Ids
    BY <1>12, <2>2 DEF Unlinked
  <2>4. p \in NotePaths /\ ChainOK(chain')
    BY <1>0, <2>1, <2>2, ChainShrinks DEF ChainOK
  <2>5. CASE UNCHANGED <<notes, byJdId, unelected>>
    BY <2>1, <2>4, <2>5
  <2>6. CASE /\ status = "ready" /\ notes' = [notes EXCEPT ![p] = NoNote]
             /\ byJdId' = IdsWithout(byJdId, p) /\ unelected' \subseteq Ids
    <3>1. IdsWithout(byJdId, p) \in [Ids -> NotePaths \cup {NoNote}]
      BY DEF IdsWithout
    <3>2. QED BY <2>1, <2>4, <2>6, <3>1
  <2>7. QED BY <2>3, <2>5, <2>6
<1>13. ASSUME IndexStop PROVE IndexShape'
  BY <1>13 DEF IndexStop, indexed
<1>14. ASSUME UNCHANGED xvars PROVE IndexShape'
  BY <1>14 DEF xvars
<1>15. QED
  BY <1>1, <1>2, <1>3, <1>4, <1>5, <1>6, <1>7, <1>8, <1>9, <1>10, <1>11, <1>12, <1>13, <1>14
     DEF IndexNext

-----------------------------------------------------------------------------
\* Ids and backlinks: every action.
LEMMA IdsInitially == IndexInit => IdsInv
<1> SUFFICES ASSUME IndexInit PROVE IdsInv
  OBVIOUS
<1>1. notes = Nothing /\ byJdId = [i \in Ids |-> NoNote] /\ backlinks = [p \in NotePaths |-> {}]
  BY DEF IndexInit
<1>2. Carried(notes) = {}
  BY <1>1 DEF Carried, Nothing
<1>3. IdsKept(notes, byJdId, unelected)
  BY <1>1, <1>2 DEF IdsKept, Bearers
<1>4. backlinks = BacklinksOf(notes, byJdId)
  BY <1>1, <1>2 DEF BacklinksOf
<1>5. QED BY <1>3, <1>4 DEF IdsInv

LEMMA IdsStep ==
  ASSUME IndexShape, IdsInv, [IndexNext]_xvars
  PROVE  IdsInv'
<1>0. /\ notes \in [NotePaths -> Contents \cup {NoNote}] /\ byJdId \in [Ids -> NotePaths \cup {NoNote}]
      /\ IdsKept(notes, byJdId, unelected) /\ ChainOK(chain)
  BY DEF IndexShape, IdsInv
<1>1. ASSUME UNCHANGED indexed PROVE IdsInv'
  BY <1>1 DEF IdsInv, indexed
<1>2. ASSUME BuildDone PROVE IdsInv'
  <2>1. /\ byJdId' = Elected(notes') /\ unelected' = {}
        /\ backlinks' = BacklinksOf(notes', byJdId')
    BY <1>2 DEF BuildDone
  <2>2. PICK ns, ids : ns = notes' /\ ids = Elected(ns)
    OBVIOUS
  <2>3. IdsKept(ns, ids, {})
    BY <2>2, ElectedKept
  <2>4. QED BY <2>1, <2>2, <2>3 DEF IdsInv
<1>3. ASSUME BuildFails PROVE IdsInv'
  <2>1. /\ notes' = Nothing /\ byJdId' = [i \in Ids |-> NoNote] /\ backlinks' = [p \in NotePaths |-> {}]
        /\ unelected' = {}
    BY <1>3 DEF BuildFails
  <2>2. Carried(Nothing) = {}
    BY DEF Carried, Nothing
  <2>3. IdsKept(Nothing, [i \in Ids |-> NoNote], {})
    BY <2>2 DEF IdsKept, Bearers
  <2>4. BacklinksOf(Nothing, [i \in Ids |-> NoNote]) = [p \in NotePaths |-> {}]
    BY <2>2 DEF BacklinksOf
  <2>5. QED BY <2>1, <2>3, <2>4 DEF IdsInv
<1>4. ASSUME ChangeApplied PROVE IdsInv'
  <2>1. PICK j \in job : /\ j.event = "change" /\ notes' = [notes EXCEPT ![j.path] = j.note]
                         /\ byJdId' = IdsWith(IdsWithout(byJdId, j.path), j.path)
                         /\ backlinks' = BacklinksOf(notes', byJdId') /\ UNCHANGED unelected
    BY <1>4 DEF ChangeApplied
  <2>2. PICK p, c : p = j.path /\ c = j.note
    OBVIOUS
  <2>3. p \in NotePaths /\ c \in Contents
    BY <2>1, <2>2, TheJob DEF Changes
  <2>4. PICK ns2, ids2 : ns2 = [notes EXCEPT ![p] = c] /\ ids2 = IdsWith(IdsWithout(byJdId, p), p)
    OBVIOUS
  <2>5. IdsKept(ns2, ids2, unelected)
    BY <1>0, <2>3, <2>4, IdsPut
  <2>6. QED BY <2>1, <2>2, <2>4, <2>5 DEF IdsInv
<1>5. ASSUME Unlinked PROVE IdsInv'
  <2>1. PICK p : p = Head(chain).path
    OBVIOUS
  <2>2. p \in NotePaths
    BY <1>0, <1>5, <2>1, ChainShrinks DEF Unlinked, ChainOK
  <2>3. \/ UNCHANGED <<notes, byJdId, backlinks, unelected>>
        \/ /\ notes' = [notes EXCEPT ![p] = NoNote] /\ byJdId' = IdsWithout(byJdId, p)
           /\ backlinks' = BacklinksOf(notes', byJdId')
           /\ unelected' = unelected \cup {i \in Ids : byJdId[i] = p /\ \E q \in Carried(notes') : IdOf[q] = i}
    BY <1>5, <2>1 DEF Unlinked
  <2>4. CASE UNCHANGED <<notes, byJdId, backlinks, unelected>>
    BY <2>4 DEF IdsInv
  <2>5. CASE /\ notes' = [notes EXCEPT ![p] = NoNote] /\ byJdId' = IdsWithout(byJdId, p)
             /\ backlinks' = BacklinksOf(notes', byJdId')
             /\ unelected' = unelected \cup {i \in Ids : byJdId[i] = p /\ \E q \in Carried(notes') : IdOf[q] = i}
    <3>1. PICK ns2, ids2 : ns2 = [notes EXCEPT ![p] = NoNote] /\ ids2 = IdsWithout(byJdId, p)
      OBVIOUS
    <3>a. PICK gone : gone = {i \in Ids : byJdId[i] = p /\ \E q \in Carried(ns2) : IdOf[q] = i}
      OBVIOUS
    <3>c. \A i \in Ids : byJdId[i] = p /\ (\E q \in Carried(ns2) : IdOf[q] = i) => i \in gone
      BY <3>a
    <3>2. IdsKept(ns2, ids2, unelected \cup gone)
      <4>1. IdsLose(notes, byJdId, unelected, p, ns2, ids2, gone)
        BY <1>0, <2>2, <3>1, <3>c DEF IdsLose
      <4>2. QED BY <4>1, IdsTaken
    <3>3. notes' = ns2 /\ byJdId' = ids2 /\ unelected' = unelected \cup gone
      BY <2>5, <3>1, <3>a
    <3>4. QED BY <2>5, <3>2, <3>3 DEF IdsInv
  <2>6. QED BY <2>3, <2>4, <2>5
<1>6. ASSUME NEW p \in NotePaths, NEW c \in Contents \cup {NoNote},
             Edit(p, c) \/ Schedule(p) \/ DebounceFires(p)
      PROVE  IdsInv'
  BY <1>1, <1>6 DEF Edit, Schedule, DebounceFires
<1>7. ASSUME \/ IndexReady \/ ForceReindex \/ BuildStarts \/ IndexWatched
             \/ ChangeStarts \/ IndexStop \/ UNCHANGED xvars
      PROVE  IdsInv'
  BY <1>1, <1>7 DEF IndexReady, ForceReindex, BuildStarts, IndexWatched, ChangeStarts,
                    IndexStop, xvars, indexed
<1>8. ASSUME BuildReads PROVE IdsInv'
  BY <1>1, <1>8 DEF BuildReads
<1>9. QED
  BY <1>2, <1>3, <1>4, <1>5, <1>6, <1>7, <1>8 DEF IndexNext

-----------------------------------------------------------------------------
\* Currency: every action.
LEMMA CurrentInitially == IndexInit => CurrentInv
BY DEF IndexInit, CurrentInv, Watched, Clear, JobHas

\* What a step must keep for one path: its file, or that it is not watched.
Current(p) ==
  /\ timer[p] # "none" /\ p \notin notified => (timer[p] = "unlink" <=> files[p] = NoNote)
  /\ Watched(p) => Mends(chain, p, files[p]) \/ (Clear(chain, p, files[p]) /\ JobHas(p))

LEMMA CurrentStep ==
  ASSUME IndexShape, CurrentInv, [IndexNext]_xvars
  PROVE  CurrentInv'
<1>0. /\ files \in [NotePaths -> Contents \cup {NoNote}] /\ notes \in [NotePaths -> Contents \cup {NoNote}]
      /\ timer \in [NotePaths -> {"none", "change", "unlink"}] /\ ChainOK(chain)
      /\ fs # "watching" => \A p \in NotePaths : timer[p] = "none"
      /\ \A p \in NotePaths : Current(p)
  BY DEF IndexShape, CurrentInv, Current
<1>p. ASSUME fs' # "watching" => \A p \in NotePaths : timer'[p] = "none",
             \A p \in NotePaths : Current(p)'
      PROVE  CurrentInv'
  BY <1>p DEF CurrentInv, Current
<1>1. ASSUME NEW p \in NotePaths, NEW c \in Contents \cup {NoNote}, Edit(p, c) PROVE CurrentInv'
  <2>1. /\ files' = [files EXCEPT ![p] = c]
        /\ UNCHANGED <<status, notes, chain, job, fs, timer>>
        /\ \/ notified' = notified \cup {p} /\ missed' = missed \ {p}
           \/ fs # "watching" /\ missed' = missed \cup {p} /\ UNCHANGED notified
    BY <1>1 DEF Edit, indexed
  <2>2. ASSUME NEW q \in NotePaths PROVE Current(q)'
    <3>1. CASE q = p
      <4>1. timer[p] = "none" \/ p \in notified'
        BY <1>0, <2>1
      <4>2. ~Watched(p)'
        BY <2>1 DEF Watched
      <4>3. QED BY <2>1, <3>1, <4>1, <4>2 DEF Current
    <3>2. CASE q # p
      <4>1. files'[q] = files[q] /\ (Watched(q)' => Watched(q)) /\ (q \in notified <=> q \in notified')
        BY <1>0, <2>1, <3>2 DEF Watched
      <4>2. JobHas(q) => JobHas(q)'
        BY <2>1, <4>1 DEF JobHas
      <4>3. QED BY <1>0, <2>1, <4>1, <4>2 DEF Current
    <3>3. QED BY <3>1, <3>2
  <2>3. QED BY <1>0, <1>p, <2>1, <2>2
<1>2. ASSUME IndexReady \/ ForceReindex PROVE CurrentInv'
  <2>1. /\ Asked /\ fs' \in {fs, "building"} /\ (fs = "watching" => fs' = fs)
        /\ UNCHANGED <<files, status, notes, job, notified, timer, missed>>
    BY <1>2 DEF IndexReady, ForceReindex, indexed, watch
  <2>2. PICK e : e = [event |-> "build", path |-> NoNote]
    OBVIOUS
  <2>3. chain' = Append(chain, e) \/ UNCHANGED chain
    BY <2>1, <2>2, AskedChain
  <2>4. e \in Entries /\ e.event = "build" /\ \A p, c : Mend(e, p, c) /\ ~Undo(e, p)
    BY <2>2 DEF Entries, Mend, Undo
  <2>5. ASSUME NEW q \in NotePaths PROVE Current(q)'
    <3>1. CASE UNCHANGED chain
      BY <1>0, <2>1, <3>1 DEF Current, Watched, JobHas
    <3>2. CASE chain' = Append(chain, e)
      <4>1. PICK t, c : t = Append(chain, e) /\ c = files[q]
        OBVIOUS
      <4>2. Mends(t, q, c)
        BY <1>0, <2>4, <4>1, MendJoins
      <4>3. QED BY <1>0, <2>1, <3>2, <4>1, <4>2 DEF Current
    <3>3. QED BY <2>3, <3>1, <3>2
  <2>6. QED BY <1>0, <1>p, <2>1, <2>5
<1>3. ASSUME BuildStarts PROVE CurrentInv'
  <2>1. /\ chain # <<>> /\ Head(chain).event = "build" /\ chain' = Tail(chain)
        /\ job = {} /\ job' = {[event |-> "build", read |-> Nothing, todo |-> Carried(files)]}
        /\ missed' = missed \ UNION {Read(p) : p \in NotePaths \ Carried(files)}
        /\ UNCHANGED <<files, status, notes, fs, notified, timer>>
    BY <1>3 DEF BuildStarts, indexed, watch
  <2>2. ASSUME NEW q \in NotePaths PROVE Current(q)'
    <3>0. PICK c, t : c = files[q] /\ t = Tail(chain)
      OBVIOUS
    <3>1. JobHas(q)'
      BY <2>1 DEF JobHas, Carried, Nothing
    <3>2. Mends(chain, q, c) \/ Clear(chain, q, c) => Mends(t, q, c) \/ Clear(t, q, c)
      BY <1>0, <2>1, <3>0, MendLeaves
    <3>3. Watched(q)' => Watched(q) \/ c = NoNote
      BY <2>1, <3>0 DEF Watched, Read, Carried
    <3>4. c = NoNote => Clear(t, q, c)
      BY DEF Clear
    <3>5. Watched(q)' => Mends(t, q, c) \/ Clear(t, q, c)
      BY <1>0, <3>0, <3>2, <3>3, <3>4 DEF Current
    <3>6. QED BY <1>0, <2>1, <3>0, <3>1, <3>5 DEF Current
  <2>3. QED BY <1>0, <1>p, <2>1, <2>2
<1>4. ASSUME BuildReads PROVE CurrentInv'
  <2>1. PICK j \in job : /\ j.event = "build" /\ j.todo # {}
                         /\ job' = {[j EXCEPT !.todo = @ \ {First(j.todo)}, !.read[First(j.todo)] = files[First(j.todo)]]}
                         /\ missed' = missed \ Read(First(j.todo))
    BY <1>4 DEF BuildReads
  <2>2. UNCHANGED <<files, status, notes, chain, fs, notified, timer>>
    BY <1>4 DEF BuildReads, indexed, watch
  <2>3. j \in BuildJobs /\ job = {j}
    BY <2>1, TheJob
  <2>4. PICK p, j2 : p = First(j.todo) /\ j2 = [j EXCEPT !.todo = @ \ {p}, !.read[p] = files[p]]
    OBVIOUS
  <2>5. /\ p \in NotePaths
        /\ j2.event = "build" /\ j2.todo = j.todo \ {p} /\ j2.read[p] = files[p]
        /\ \A q \in NotePaths : q # p => j2.read[q] = j.read[q]
    BY <2>1, <2>3, <2>4, FirstOf DEF BuildJobs
  <2>6. ASSUME NEW q \in NotePaths PROVE Current(q)'
    <3>1. CASE q # p
      <4>1. Watched(q)' => Watched(q)
        BY <2>1, <2>2, <2>4, <3>1 DEF Watched, Read
      <4>2. JobHas(q) => JobHas(q)'
        BY <2>1, <2>2, <2>3, <2>4, <2>5, <3>1 DEF JobHas
      <4>3. QED BY <1>0, <2>2, <4>1, <4>2 DEF Current
    <3>2. CASE q = p
      <4>1. JobHas(q)'
        BY <2>1, <2>2, <2>4, <2>5, <3>2 DEF JobHas
      <4>2. CASE Watched(q)
        BY <1>0, <2>2, <4>1, <4>2 DEF Current
      <4>3. CASE ~Watched(q)
        <5>1. Watched(q)' => q \in Read(p)
          BY <2>1, <2>2, <2>4, <4>3 DEF Watched
        <5>2. q \in Read(p) => \A k \in 1..Len(chain) : ~Undo(chain[k], q)
          <6> SUFFICES ASSUME q \in Read(p), NEW k \in 1..Len(chain), Undo(chain[k], q) PROVE FALSE
            OBVIOUS
          <6>1. chain[k] \in Entries /\ k \in DOMAIN chain
            BY <1>0 DEF ChainOK
          <6>2. chain[k] = [event |-> "unlink", path |-> q]
            BY <6>1 DEF Undo, Entries
          <6>3. QED BY <6>1, <6>2 DEF Read
        <5>3. QED BY <1>0, <2>2, <4>1, <5>1, <5>2 DEF Current, Clear
      <4>4. QED BY <4>2, <4>3
    <3>3. QED BY <3>1, <3>2
  <2>7. QED BY <1>0, <1>p, <2>2, <2>6
<1>5. ASSUME BuildDone PROVE CurrentInv'
  <2>1. PICK j \in job : /\ j.event = "build" /\ j.todo = {} /\ notes' = j.read
    BY <1>5 DEF BuildDone
  <2>2. /\ job' = {} /\ (fs = "watching" <=> fs' = "watching")
        /\ UNCHANGED <<files, chain, notified, timer, missed>>
    BY <1>5 DEF BuildDone, Handed
  <2>3. ASSUME NEW q \in NotePaths PROVE Current(q)'
    <3>1. JobHas(q) => JobHas(q)'
      BY <2>1, <2>2 DEF JobHas
    <3>2. QED BY <1>0, <2>2, <3>1 DEF Current, Watched
  <2>4. QED BY <1>0, <1>p, <2>2, <2>3
<1>6. ASSUME BuildFails PROVE CurrentInv'
  <2>1. /\ job' = {} /\ (fs = "watching" <=> fs' = "watching") /\ status' = "error"
        /\ UNCHANGED <<files, chain, notified, timer, missed>>
    BY <1>6 DEF BuildFails, Handed
  <2>2. ASSUME NEW q \in NotePaths PROVE Current(q)'
    BY <1>0, <2>1 DEF Current, Watched, JobHas
  <2>3. QED BY <1>0, <1>p, <2>1, <2>2
<1>7. ASSUME IndexWatched PROVE CurrentInv'
  <2>1. /\ fs = "starting" /\ UNCHANGED <<files, status, notes, chain, job, notified, timer, missed>>
    BY <1>7 DEF IndexWatched, indexed
  <2>2. ASSUME NEW q \in NotePaths PROVE Current(q)'
    BY <1>0, <2>1 DEF Current, Watched, JobHas
  <2>3. QED BY <1>0, <1>p, <2>1, <2>2
<1>8. ASSUME NEW p \in NotePaths, Schedule(p) PROVE CurrentInv'
  <2>1. /\ fs = "watching" /\ p \in notified /\ notified' = notified \ {p}
        /\ timer' = [timer EXCEPT ![p] = IF files[p] = NoNote THEN "unlink" ELSE "change"]
        /\ UNCHANGED <<files, status, notes, chain, job, fs, missed>>
    BY <1>8 DEF Schedule, indexed
  <2>2. ASSUME NEW q \in NotePaths PROVE Current(q)'
    <3>1. CASE q = p
      <4>1. timer'[q] = IF files[q] = NoNote THEN "unlink" ELSE "change"
        BY <1>0, <2>1, <3>1
      <4>2. ~Watched(q)'
        BY <4>1 DEF Watched
      <4>3. QED BY <2>1, <4>1, <4>2 DEF Current
    <3>2. CASE q # p
      <4>1. timer'[q] = timer[q] /\ (q \in notified' <=> q \in notified)
        BY <1>0, <2>1, <3>2
      <4>2. QED BY <1>0, <2>1, <4>1 DEF Current, Watched, JobHas
    <3>3. QED BY <3>1, <3>2
  <2>3. QED BY <1>0, <1>p, <2>1, <2>2
<1>9. ASSUME NEW p \in NotePaths, DebounceFires(p) PROVE CurrentInv'
  <2>1. /\ timer[p] # "none" /\ chain' = Append(chain, [event |-> timer[p], path |-> p])
        /\ timer' = [timer EXCEPT ![p] = "none"]
        /\ UNCHANGED <<files, status, notes, job, fs, notified, missed>>
    BY <1>9 DEF DebounceFires, indexed
  <2>2. PICK e : e = [event |-> timer[p], path |-> p]
    OBVIOUS
  <2>3. e \in Entries /\ e.path = p /\ e.event = timer[p] /\ e.event # "build"
    BY <1>0, <2>1, <2>2 DEF Entries
  <2>4. ASSUME NEW q \in NotePaths PROVE Current(q)'
    <3>0. PICK c, t : c = files[q] /\ t = Append(chain, e)
      OBVIOUS
    <3>1. CASE q = p
      <4>1. p \notin notified => (timer[p] = "unlink" <=> c = NoNote)
        BY <1>0, <2>1, <3>0, <3>1 DEF Current
      <4>2. p \notin notified => Mend(e, q, c) /\ (c # NoNote => ~Undo(e, q))
        BY <1>0, <2>1, <2>3, <3>1, <4>1 DEF Mend, Undo
      <4>3. p \notin notified => Mends(t, q, c)
        BY <1>0, <2>3, <3>0, <4>2, MendJoins
      <4>4. timer'[q] = "none"
        BY <1>0, <2>1, <3>1
      <4>5. QED BY <2>1, <2>2, <3>0, <3>1, <4>3, <4>4 DEF Current, Watched
    <3>2. CASE q # p
      <4>1. timer'[q] = timer[q] /\ ~Undo(e, q)
        BY <1>0, <2>1, <2>3, <3>2 DEF Undo
      <4>2. /\ Mends(chain, q, c) => Mends(t, q, c)
            /\ Clear(chain, q, c) => Clear(t, q, c)
        BY <1>0, <2>3, <3>0, <4>1, MendJoins
      <4>3. JobHas(q) => JobHas(q)'
        BY <2>1 DEF JobHas
      <4>4. QED BY <1>0, <2>1, <2>2, <3>0, <4>1, <4>2, <4>3 DEF Current, Watched
    <3>3. QED BY <3>1, <3>2
  <2>5. QED BY <1>0, <1>p, <2>1, <2>4
<1>10. ASSUME ChangeStarts PROVE CurrentInv'
  <2>1. /\ job = {} /\ chain # <<>> /\ Head(chain).event = "change" /\ chain' = Tail(chain)
        /\ UNCHANGED <<files, status, notes, fs, notified, timer, missed>>
    BY <1>10 DEF ChangeStarts, indexed, watch
  <2>2. PICK p, e : e = Head(chain) /\ p = e.path
    OBVIOUS
  <2>3. job' = IF status = "ready" /\ files[p] # NoNote
               THEN {[event |-> "change", path |-> p, note |-> files[p]]} ELSE {}
    BY <1>10, <2>2 DEF ChangeStarts
  <2>4. ASSUME NEW q \in NotePaths PROVE Current(q)'
    <3>0. PICK c, t : c = files[q] /\ t = Tail(chain)
      OBVIOUS
    <3>1. /\ Mends(chain, q, c) => Mends(t, q, c) \/ (Mend(e, q, c) /\ Clear(t, q, c))
          /\ Clear(chain, q, c) => Clear(t, q, c)
      BY <1>0, <2>1, <2>2, <3>0, MendLeaves
    <3>2. Mend(e, q, c) => q = p /\ c # NoNote
      BY <2>1, <2>2 DEF Mend
    <3>3. JobHas(q) => JobHas(q)'
      BY <2>1, <2>3 DEF JobHas
    <3>4. ASSUME q = p, c # NoNote PROVE JobHas(q)'
      <4>1. CASE status = "ready"
        <5>1. PICK j : j = [event |-> "change", path |-> p, note |-> c]
          OBVIOUS
        <5>2. job' = {j} /\ j.event = "change" /\ j.path = q /\ j.note = c
          BY <2>3, <3>0, <3>4, <4>1, <5>1
        <5>3. files'[q] = c
          BY <2>1, <3>0
        <5>4. QED BY <5>2, <5>3 DEF JobHas
      <4>2. CASE status # "ready"
        <5>1. job' = {} /\ status' # "ready"
          BY <2>1, <2>3, <4>2
        <5>2. QED BY <5>1 DEF JobHas
      <4>3. QED BY <4>1, <4>2
    <3>5. QED BY <1>0, <2>1, <3>0, <3>1, <3>2, <3>3, <3>4 DEF Current, Watched
  <2>5. QED BY <1>0, <1>p, <2>1, <2>4
<1>11. ASSUME ChangeApplied PROVE CurrentInv'
  <2>1. PICK j \in job : /\ j.event = "change" /\ notes' = [notes EXCEPT ![j.path] = j.note]
                         /\ job' = {}
    BY <1>11 DEF ChangeApplied
  <2>2. UNCHANGED <<files, status, chain, fs, notified, timer, missed>>
    BY <1>11 DEF ChangeApplied, watch
  <2>3. j \in Changes /\ job = {j} /\ status = "ready"
    BY <2>1, TheJob
  <2>4. ASSUME NEW q \in NotePaths PROVE Current(q)'
    <3>1. JobHas(q) => JobHas(q)'
      BY <1>0, <2>1, <2>2, <2>3 DEF JobHas
    <3>2. QED BY <1>0, <2>2, <3>1 DEF Current, Watched
  <2>5. QED BY <1>0, <1>p, <2>2, <2>4
<1>12. ASSUME Unlinked PROVE CurrentInv'
  <2>1. /\ job = {} /\ chain # <<>> /\ Head(chain).event = "unlink" /\ chain' = Tail(chain)
        /\ UNCHANGED <<files, status, fs, notified, timer, job, missed>>
    BY <1>12 DEF Unlinked, watch
  <2>2. PICK p, e : e = Head(chain) /\ p = e.path
    OBVIOUS
  <2>3. notes' = IF status = "ready" /\ notes[p] # NoNote THEN [notes EXCEPT ![p] = NoNote] ELSE notes
    BY <1>12, <2>2 DEF Unlinked
  <2>4. ASSUME NEW q \in NotePaths PROVE Current(q)'
    <3>0. PICK c, t : c = files[q] /\ t = Tail(chain)
      OBVIOUS
    <3>1. /\ Mends(chain, q, c) => Mends(t, q, c) \/ (Mend(e, q, c) /\ Clear(t, q, c))
          /\ Clear(chain, q, c) => Clear(t, q, c)
      BY <1>0, <2>1, <2>2, <3>0, MendLeaves
    <3>2. CASE q = p
      <4>1. c = NoNote => JobHas(q)'
        BY <1>0, <2>1, <2>3, <3>0, <3>2 DEF JobHas
      <4>2. c # NoNote => ~Clear(chain, q, c) /\ ~Mend(e, q, c)
        <5>1. 1 \in 1..Len(chain) /\ e = chain[1]
          BY <1>0, <2>1, <2>2, ChainShrinks
        <5>2. QED BY <2>1, <2>2, <3>2, <5>1 DEF Clear, Undo, Mend
      <4>3. c = NoNote => Clear(t, q, c)
        BY DEF Clear
      <4>4. Watched(q) => Mends(t, q, c) \/ (Clear(t, q, c) /\ JobHas(q)')
        BY <1>0, <3>0, <3>1, <4>1, <4>2, <4>3 DEF Current
      <4>5. QED BY <1>0, <2>1, <3>0, <4>4 DEF Current, Watched
    <3>3. CASE q # p
      <4>1. ~Mend(e, q, c)
        BY <2>1, <2>2, <3>3 DEF Mend
      <4>2. JobHas(q) => JobHas(q)'
        BY <1>0, <2>1, <2>3, <3>3 DEF JobHas
      <4>3. QED BY <1>0, <2>1, <3>0, <3>1, <4>1, <4>2 DEF Current, Watched
    <3>4. QED BY <3>2, <3>3
  <2>5. QED BY <1>0, <1>p, <2>1, <2>4
<1>13. ASSUME IndexStop PROVE CurrentInv'
  <2>1. /\ missed' = missed \cup notified \cup {p \in NotePaths : timer[p] # "none"}
        /\ notified' = {} /\ timer' = [p \in NotePaths |-> "none"]
        /\ UNCHANGED <<files, status, notes, chain, job>>
    BY <1>13 DEF IndexStop, indexed
  <2>2. ASSUME NEW q \in NotePaths PROVE Current(q)'
    <3>1. Watched(q)' => Watched(q)
      BY <2>1 DEF Watched
    <3>2. JobHas(q) => JobHas(q)'
      BY <2>1 DEF JobHas
    <3>3. timer'[q] = "none"
      BY <2>1
    <3>4. QED BY <1>0, <2>1, <3>1, <3>2, <3>3 DEF Current
  <2>3. \A q \in NotePaths : timer'[q] = "none"
    BY <2>1
  <2>4. QED BY <1>p, <2>2, <2>3
<1>14. ASSUME UNCHANGED xvars PROVE CurrentInv'
  BY <1>14 DEF xvars, CurrentInv, Watched, JobHas
<1>15. QED
  BY <1>1, <1>2, <1>3, <1>4, <1>5, <1>6, <1>7, <1>8, <1>9, <1>10, <1>11, <1>12, <1>13, <1>14
     DEF IndexNext

(***************************************************************************)
(* The index says what the files say, for any vault and any order of       *)
(* edits, builds, debounced events and stops.                              *)
(***************************************************************************)
LEMMA IndexInvSafe == IndexInv => IndexSafe
<1> SUFFICES ASSUME IndexInv PROVE IndexSafe
  OBVIOUS
<1>0. IndexShape /\ IdsInv /\ CurrentInv
  BY DEF IndexInv
<1>1. IndexTypeOK
  <2>1. Cardinality(job) <= 1 /\ \A j \in job : j.event \in {"build", "change"}
    <3>1. CASE job = {}
      BY <3>1, FS_EmptySet
    <3>2. CASE job # {}
      <4>1. PICK j \in job : job = {j} /\ (j \in BuildJobs \/ j \in Changes)
        BY <1>0, <3>2, TheJob
      <4>2. Cardinality(job) = 1
        BY <4>1, FS_Singleton
      <4>3. QED BY <4>1, <4>2 DEF BuildJobs, Changes
    <3>3. QED BY <3>1, <3>2
  <2>2. backlinks \in [NotePaths -> SUBSET NotePaths]
    BY <1>0, BacklinksTyped DEF IdsInv
  <2>3. QED BY <1>0, <2>1, <2>2 DEF IndexTypeOK, IndexShape
<1>2. ASSUME NEW p \in NotePaths, status = "ready", ~Expected(p), p \notin missed
      PROVE  notes[p] = files[p]
  <2>1. Watched(p)
    BY <1>2 DEF Watched, Expected
  <2>2. ~Mends(chain, p, files[p])
    BY <1>0, <1>2 DEF Mends, Mend, Expected, IndexShape, ChainOK
  <2>3. JobHas(p)
    BY <1>0, <2>1, <2>2 DEF CurrentInv
  <2>4. \A j \in job : j.event = "change" /\ j.path # p
    <3>1. ASSUME NEW j \in job PROVE j.event \in {"build", "change"}
      BY <1>0, TheJob DEF BuildJobs, Changes
    <3>2. QED BY <1>2, <3>1 DEF Expected
  <2>5. QED BY <1>2, <2>3, <2>4 DEF JobHas
<1>3. LikeRebuild
  BY <1>0, KeptIsElected DEF IdsInv, LikeRebuild
<1>4. QED BY <1>1, <1>2, <1>3 DEF IndexSafe, IndexCurrent

THEOREM IndexIsSafe == IndexSpec => []IndexSafe
<1>1. IndexInit => IndexInv
  BY ShapeInitially, IdsInitially, CurrentInitially DEF IndexInv
<1>2. IndexInv /\ [IndexNext]_xvars => IndexInv'
  BY ShapeStep, IdsStep, CurrentStep DEF IndexInv
<1>3. QED BY <1>1, <1>2, IndexInvSafe, PTL DEF IndexSpec

-----------------------------------------------------------------------------
(***************************************************************************)
(* The relay.  Without keeps the lines that are not in D, in their order:  *)
(* the survivor with i survivors up to it becomes the i-th line.           *)
(***************************************************************************)
Upto(K, n) == {m \in K : m <= n}

\* How many of K are up to n grows with n, by one where n is of K.
LEMMA CountGrows ==
  ASSUME NEW N \in Nat, NEW K \in SUBSET (1..N)
  PROVE  /\ \A n \in 0..N : Cardinality(Upto(K, n)) \in Nat
         /\ Cardinality(Upto(K, 0)) = 0
         /\ Cardinality(Upto(K, N)) = Cardinality(K)
         /\ \A m, n \in 0..N : m <= n => Cardinality(Upto(K, m)) <= Cardinality(Upto(K, n))
         /\ \A n \in 1..N : n \in K => Cardinality(Upto(K, n)) = Cardinality(Upto(K, n - 1)) + 1
         /\ \A n \in 1..N : n \notin K => Cardinality(Upto(K, n)) = Cardinality(Upto(K, n - 1))
<1>0. \A m \in K : m \in Nat /\ 1 <= m /\ m <= N
  OBVIOUS
<1>1. IsFiniteSet(K)
  BY FS_Interval, FS_Subset, 1 \in Int, N \in Int
<1>2. \A n \in 0..N : IsFiniteSet(Upto(K, n)) /\ Cardinality(Upto(K, n)) \in Nat
  <2>1. ASSUME NEW n \in 0..N PROVE IsFiniteSet(Upto(K, n))
    BY <1>1, FS_Subset DEF Upto
  <2>2. QED BY <2>1, FS_CardinalityType
<1>3. Upto(K, 0) = {} /\ Upto(K, N) = K
  <2>1. \A m \in K : ~(m <= 0) /\ m <= N
    BY <1>0
  <2>2. QED BY <2>1 DEF Upto
<1>4. ASSUME NEW m \in 0..N, NEW n \in 0..N, m <= n
      PROVE  Cardinality(Upto(K, m)) <= Cardinality(Upto(K, n))
  <2>a. \A k \in K : k <= m => k <= n
    BY <1>0, <1>4
  <2>1. Upto(K, m) \subseteq Upto(K, n)
    BY <2>a DEF Upto
  <2>2. QED BY <1>2, <2>1, FS_Subset
<1>5. ASSUME NEW n \in 1..N, n \in K
      PROVE  Cardinality(Upto(K, n)) = Cardinality(Upto(K, n - 1)) + 1
  <2>1. /\ n - 1 \in 0..N
        /\ \A m \in K : m <= n <=> m <= n - 1 \/ m = n
        /\ ~(n <= n - 1)
    BY <1>0
  <2>a. Upto(K, n) = Upto(K, n - 1) \cup {n} /\ n \notin Upto(K, n - 1)
    BY <1>5, <2>1 DEF Upto
  <2>2. QED BY <1>2, <2>1, <2>a, FS_AddElement
<1>6. ASSUME NEW n \in 1..N, n \notin K
      PROVE  Cardinality(Upto(K, n)) = Cardinality(Upto(K, n - 1))
  <2>a. \A m \in K : m <= n <=> m <= n - 1
    BY <1>0, <1>6
  <2>1. Upto(K, n) = Upto(K, n - 1)
    BY <2>a DEF Upto
  <2>2. QED BY <2>1
<1>7. Cardinality(Upto(K, 0)) = 0 /\ Cardinality(Upto(K, N)) = Cardinality(K)
  BY <1>3, FS_EmptySet
<1>8. QED BY <1>2, <1>4, <1>5, <1>6, <1>7

\* So each of the ranks belongs to exactly one of K.
LEMMA OneOfRank ==
  ASSUME NEW N \in Nat, NEW K \in SUBSET (1..N), NEW i \in 1..Cardinality(K)
  PROVE  /\ \E n \in K : Cardinality(Upto(K, n)) = i
         /\ \A n, m \in K : Cardinality(Upto(K, n)) = i /\ Cardinality(Upto(K, m)) = i => n = m
<1> DEFINE cnt(n) == Cardinality(Upto(K, n))
<1>0. /\ \A n \in 0..N : cnt(n) \in Nat
      /\ cnt(0) = 0 /\ cnt(N) = Cardinality(K)
      /\ \A m, n \in 0..N : m <= n => cnt(m) <= cnt(n)
      /\ \A n \in 1..N : n \in K => cnt(n) = cnt(n - 1) + 1
      /\ \A n \in 1..N : n \notin K => cnt(n) = cnt(n - 1)
  BY CountGrows
<1>a. Cardinality(K) \in Nat /\ i \in Nat /\ 1 <= i /\ i <= Cardinality(K)
  BY <1>0
<1> HIDE DEF cnt
<1>1. \E n \in K : cnt(n) = i
  <2> DEFINE M == {n \in 1..N : i <= cnt(n)}
  <2>1. N \in M /\ M \in SUBSET Nat
    <3>1. N # 0
      BY <1>0, <1>a
    <3>2. QED BY <1>0, <1>a, <3>1
  <2> HIDE DEF M
  <2>2. PICK n \in M : \A k \in M : n <= k
    BY <2>1, LeastOf
  <2>3. n \in 1..N /\ i <= cnt(n) /\ n - 1 \in 0..N
    BY <2>2 DEF M
  <2>4. cnt(n - 1) < i
    <3>1. CASE n - 1 = 0
      BY <1>0, <1>a, <3>1
    <3>2. CASE n - 1 # 0
      <4>1. n - 1 \in 1..N /\ n - 1 \notin M
        BY <2>2, <2>3, <3>2
      <4>2. QED BY <1>0, <1>a, <4>1 DEF M
    <3>3. QED BY <3>1, <3>2
  <2>5. n \in K
    BY <1>0, <1>a, <2>3, <2>4
  <2>6. cnt(n) = i
    BY <1>0, <1>a, <2>3, <2>4, <2>5
  <2>7. QED BY <2>5, <2>6
<1>2. ASSUME NEW n \in K, NEW m \in K, n < m PROVE cnt(n) < cnt(m)
  <2>1. n \in 0..N /\ m \in 1..N /\ m - 1 \in 0..N /\ n <= m - 1
    BY <1>2
  <2>2. QED BY <1>0, <2>1
<1>3. ASSUME NEW n \in K, NEW m \in K, cnt(n) = i, cnt(m) = i PROVE n = m
  <2>1. n \in 0..N /\ m \in 0..N /\ cnt(n) \in Nat
    BY <1>0
  <2>2. ~(n < m) /\ ~(m < n)
    BY <1>2, <1>3, <1>a
  <2>3. QED BY <2>1, <2>2
<1>4. QED BY <1>1, <1>3 DEF cnt

\* t is what is left of s: h leads each of its lines to its place in s.
Sifted(s, D, t, h) ==
  /\ t = [i \in 1..Len(t) |-> s[h[i]]] /\ Len(t) \in Nat /\ DOMAIN t = 1..Len(t)
  /\ \A i \in 1..Len(t) : h[i] \in 1..Len(s) /\ t[i] = s[h[i]] /\ t[i] \notin D
  /\ \A i, j \in 1..Len(t) : i < j => h[i] < h[j]
  /\ \A n \in 1..Len(s) : s[n] \notin D => \E i \in 1..Len(t) : h[i] = n

LEMMA WithoutSifts ==
  ASSUME NEW S, NEW s \in Seq(S), NEW D
  PROVE  \E h : Sifted(s, D, Without(s, D), h)
<1> DEFINE K == {n \in 1..Len(s) : s[n] \notin D}
           at(i) == CHOOSE n \in K : Cardinality({m \in K : m <= n}) = i
<1>1. Len(s) \in Nat /\ K \in SUBSET (1..Len(s))
  OBVIOUS
<1>2. PICK C, h : C = Cardinality(K) /\ h = [i \in 1..C |-> at(i)]
  OBVIOUS
<1>3. PICK t : t = Without(s, D)
  OBVIOUS
<1>4. t = [i \in 1..C |-> s[at(i)]]
  BY <1>2, <1>3 DEF Without
<1>5. /\ C \in Nat /\ Cardinality(Upto(K, Len(s))) = C
      /\ \A n \in 0..Len(s) : Cardinality(Upto(K, n)) \in Nat
      /\ \A m, n \in 0..Len(s) : m <= n => Cardinality(Upto(K, m)) <= Cardinality(Upto(K, n))
      /\ \A n \in 1..Len(s) : n \in K => Cardinality(Upto(K, n)) = Cardinality(Upto(K, n - 1)) + 1
  <2>1. Len(s) \in 0..Len(s)
    BY <1>1
  <2>2. QED BY <1>1, <1>2, <2>1, CountGrows
<1>6. ASSUME NEW i \in 1..C
      PROVE  h[i] \in K /\ h[i] \in 1..Len(s) /\ Cardinality(Upto(K, h[i])) = i
  <2>0. \E n \in K : Cardinality(Upto(K, n)) = i
    <3> HIDE DEF K, at
    <3>1. i \in 1..Cardinality(K)
      BY <1>2
    <3>2. PICK N : N = Len(s)
      OBVIOUS
    <3>3. N \in Nat /\ K \in SUBSET (1..N)
      BY <1>1, <3>2
    <3>4. QED BY <3>1, <3>3, OneOfRank
  <2>1. \E n \in K : Cardinality({m \in K : m <= n}) = i
    BY <2>0 DEF Upto
  <2>2. at(i) \in K /\ Cardinality({m \in K : m <= at(i)}) = i
    BY <2>1
  <2>3. h[i] = at(i)
    BY <1>2
  <2>4. QED BY <2>2, <2>3 DEF Upto
<1>7. \A i \in 1..C : t[i] = s[h[i]]
  BY <1>2, <1>4
<1> HIDE DEF K, at
<1>8. ASSUME NEW i \in 1..C, NEW j \in 1..C, i < j PROVE h[i] < h[j]
  <2>a. h[i] \in 1..Len(s) /\ h[j] \in 1..Len(s)
    BY <1>6
  <2>1. h[i] \in 0..Len(s) /\ h[j] \in 0..Len(s)
    BY <1>1, <2>a
  <2>2. h[j] <= h[i] => j <= i
    BY <1>5, <1>6, <2>1
  <2>3. QED BY <1>5, <1>8, <2>1, <2>2
<1>9. ASSUME NEW n \in 1..Len(s), n \in K PROVE \E i \in 1..C : h[i] = n
  <2>1. PICK i : i = Cardinality(Upto(K, n))
    OBVIOUS
  <2>2. n \in 0..Len(s) /\ n - 1 \in 0..Len(s) /\ Len(s) \in 0..Len(s) /\ n <= Len(s)
    BY <1>1
  <2>3. i \in 1..C
    BY <1>5, <1>9, <2>1, <2>2
  <2>4. h[i] = n
    BY <1>1, <1>2, <1>6, <1>9, <2>1, <2>3, OneOfRank
  <2>5. QED BY <2>3, <2>4
<1>10. t \in Seq(S) /\ DOMAIN t = 1..C /\ Len(t) = C
  <2>1. \A i \in 1..C : t[i] \in S
    BY <1>1, <1>6, <1>7
  <2>2. t \in [1..C -> S]
    BY <1>4, <1>7, <2>1
  <2>3. t \in Seq(S)
    BY <1>5, <2>2
  <2>4. DOMAIN t = 1..C
    BY <2>2
  <2>5. QED BY <1>5, <2>3, <2>4
<1>11. t = [i \in 1..C |-> s[h[i]]]
  BY <1>4, <1>7
<1>12. \A i \in 1..C : h[i] \in 1..Len(s) /\ s[h[i]] \notin D
  BY <1>6 DEF K
<1>13. \A n \in 1..Len(s) : s[n] \notin D => \E i \in 1..C : h[i] = n
  BY <1>9 DEF K
<1>14. Sifted(s, D, t, h)
  BY <1>5, <1>7, <1>8, <1>10, <1>11, <1>12, <1>13 DEF Sifted
<1>15. QED BY <1>3, <1>14

-----------------------------------------------------------------------------
(***************************************************************************)
(* What holds of the relay between two steps.                              *)
(***************************************************************************)
Ordinary == Requests \cup Notes

\* Lines wait only while there is no socket, and only a socket's server answers.
RelayShape ==
  /\ sock \in {"up", "dying", "down", "exited"}
  /\ inServer \cup outstanding \subseteq Answerable \cap Said
  /\ {initResponseSeen, awaitingReplay, flowing, pausedForQueue, drainDue,
      clientEnded} \subseteq BOOLEAN
  /\ grace \in {"off", "armed", "expired"} /\ (sock = "down" <=> grace # "off")
  /\ deaths \in 0..MaxDeaths /\ rapidFails \in 0..deaths
  /\ sock = "dying" /\ ~clientEnded => rapidFails < deaths
  /\ flowing \/ pausedForQueue \/ drainDue
  /\ sock # "down" => queue = <<>>
  /\ sock = "down" => inServer = {}

\* What is said is said once, initialize first, and only what was said is held or written.
SaidInv ==
  /\ said \in Seq(Lines) /\ queue \in Seq(Lines) /\ written \in Seq(Lines)
  /\ Range(queue) \subseteq Said /\ Range(written) \subseteq Said
  /\ IsInjective(said) /\ (Said # {} => Initialize \in Said)

\* A line that waits was never written, an ordinary one is written once, and the
\* handshake once to each socket at most.
TimesInv ==
  /\ times \in [Lines -> Nat]
  /\ \A l \in Lines : times[l] <= deaths + 1 /\ (l \notin Said => times[l] = 0)
  /\ sock = "down" \/ (sock = "dying" /\ ~clientEnded) => \A l \in Lines : times[l] <= deaths
  /\ \A l \in Ordinary : times[l] <= 1 /\ (l \in Range(queue) => times[l] = 0)

\* A request that may still be answered was not; initialize is answered when its
\* response was seen, and its later responses are awaited, to be dropped.
AnswersInv ==
  /\ replies \in [Answerable -> Seq({"reply", "error"})]
  /\ \A l \in Answerable : Len(replies[l]) <= 1
  /\ \A l \in Requests : l \notin Said \/ l \in outstanding \cup inServer \cup Range(queue)
                           => replies[l] = <<>>
  /\ replies[Initialize] # <<>> => initResponseSeen
  /\ initResponseSeen => /\ Initialize \in Said
                         /\ Initialize \notin outstanding /\ Initialize \notin Range(queue)
  /\ Initialize \in inServer /\ initResponseSeen => awaitingReplay

\* The lines of w are in the order f in which they were said: all of them, as the
\* queue is, or each ordinary one after those said before it, as a server hears them.
AsSaid(f, w) ==
  \A a, b \in DOMAIN w : \A k, n \in DOMAIN f : f[k] = w[a] /\ f[n] = w[b] /\ k < n => a < b
InOrder(f, w) ==
  \A a, b \in DOMAIN w : \A k, n \in DOMAIN f :
    f[k] = w[a] /\ f[n] = w[b] /\ k < n /\ w[b] \notin Handshake => a < b
OrderInv ==
  /\ IsInjective(queue) /\ AsSaid(said, queue)
  /\ IsInjective(written) /\ InOrder(said, written)
  /\ written # <<>> => Head(written) = Initialize
  /\ sock \in {"up", "dying"} /\ Initialize \in Said => written # <<>>

RelayInv == RelayShape /\ SaidInv /\ TimesInv /\ AnswersInv /\ OrderInv

-----------------------------------------------------------------------------
(***************************************************************************)
(* What is left of the queue, and what is said, written and failed.        *)
(***************************************************************************)
Appended(S, s, e, t) ==
  /\ t \in Seq(S) /\ Range(t) = Range(s) \cup {e}
  /\ Len(s) \in Nat /\ Len(t) = Len(s) + 1 /\ t[Len(s) + 1] = e
  /\ DOMAIN s = 1..Len(s) /\ DOMAIN t = 1..(Len(s) + 1)
  /\ \A k \in 1..Len(s) : t[k] = s[k]

LEMMA RangeOfAppend ==
  ASSUME NEW S, NEW s \in Seq(S), NEW e \in S
  PROVE  Appended(S, s, e, Append(s, e))
<1>0. PICK t : t = Append(s, e)
  OBVIOUS
<1>1. /\ t \in Seq(S) /\ Len(s) \in Nat /\ Len(t) = Len(s) + 1 /\ t[Len(s) + 1] = e
      /\ DOMAIN s = 1..Len(s) /\ DOMAIN t = 1..(Len(s) + 1)
      /\ \A k \in 1..Len(s) : t[k] = s[k]
  BY <1>0
<1>2. \A k \in 1..(Len(s) + 1) : k \in 1..Len(s) \/ k = Len(s) + 1
  BY <1>1
<1>3. \A k \in 1..Len(s) : k \in 1..(Len(s) + 1)
  BY <1>1
<1>4. Len(s) + 1 \in 1..(Len(s) + 1)
  BY <1>1
<1>5. Range(t) = Range(s) \cup {e}
  BY <1>1, <1>2, <1>3, <1>4 DEF Range
<1>6. QED BY <1>0, <1>1, <1>5 DEF Appended

Joined(S, s, u, t) ==
  /\ t \in Seq(S) /\ Range(t) = Range(s) \cup Range(u)
  /\ Len(s) \in Nat /\ Len(u) \in Nat /\ DOMAIN t = 1..(Len(s) + Len(u))
  /\ DOMAIN s = 1..Len(s) /\ DOMAIN u = 1..Len(u)
  /\ \A k \in 1..Len(s) : t[k] = s[k]
  /\ \A k \in 1..Len(u) : t[Len(s) + k] = u[k]
  /\ \A k \in 1..(Len(s) + Len(u)) : k \in 1..Len(s) \/ \E m \in 1..Len(u) : k = Len(s) + m

LEMMA RangeOfJoin ==
  ASSUME NEW S, NEW s \in Seq(S), NEW u \in Seq(S)
  PROVE  Joined(S, s, u, s \o u)
<1>0. PICK t : t = s \o u
  OBVIOUS
<1>1. /\ t \in Seq(S) /\ Len(s) \in Nat /\ Len(u) \in Nat /\ DOMAIN t = 1..(Len(s) + Len(u))
      /\ DOMAIN s = 1..Len(s) /\ DOMAIN u = 1..Len(u)
      /\ \A k \in 1..Len(s) : t[k] = s[k]
      /\ \A k \in 1..Len(u) : t[Len(s) + k] = u[k]
  BY <1>0
<1>2. ASSUME NEW k \in 1..(Len(s) + Len(u))
      PROVE  k \in 1..Len(s) \/ \E m \in 1..Len(u) : k = Len(s) + m
  <2>1. CASE k <= Len(s)
    BY <1>1, <2>1
  <2>2. CASE ~(k <= Len(s))
    <3>1. k - Len(s) \in 1..Len(u) /\ k = Len(s) + (k - Len(s))
      BY <1>1, <2>2
    <3>2. QED BY <3>1
  <2>3. QED BY <2>1, <2>2
<1>3. /\ \A k \in 1..Len(s) : k \in 1..(Len(s) + Len(u))
      /\ \A k \in 1..Len(u) : Len(s) + k \in 1..(Len(s) + Len(u))
  BY <1>1
<1>4. Range(t) = Range(s) \cup Range(u)
  <2>1. ASSUME NEW x \in Range(t) PROVE x \in Range(s) \cup Range(u)
    <3>1. PICK k \in 1..(Len(s) + Len(u)) : x = t[k]
      BY <1>1, <2>1 DEF Range
    <3>2. QED BY <1>1, <1>2, <3>1 DEF Range
  <2>2. ASSUME NEW x \in Range(s) PROVE x \in Range(t)
    BY <1>1, <1>3, <2>2 DEF Range
  <2>3. ASSUME NEW x \in Range(u) PROVE x \in Range(t)
    <3>1. PICK k \in 1..Len(u) : x = u[k]
      BY <1>1, <2>3 DEF Range
    <3>2. t[Len(s) + k] = x /\ Len(s) + k \in DOMAIN t
      BY <1>1, <1>3, <3>1
    <3>3. QED BY <3>2 DEF Range
  <2>4. QED BY <2>1, <2>2, <2>3
<1>5. QED BY <1>0, <1>1, <1>2, <1>4 DEF Joined

LEMMA FirstAnswer ==
  ASSUME NEW S, NEW x \in S
  PROVE  /\ Append(<<>>, x) \in Seq(S) /\ Len(Append(<<>>, x)) = 1
         /\ Append(<<>>, x) # <<>>
<1>1. PICK e : e = <<>>
  OBVIOUS
<1>2. e \in Seq(S) /\ Len(e) = 0
  BY <1>1
<1>3. Append(e, x) \in Seq(S) /\ Len(Append(e, x)) = 1
  BY <1>2
<1>4. Append(e, x) # e
  BY <1>2, <1>3
<1>5. QED BY <1>1, <1>3, <1>4

LEMMA EmptyRange == Range(<<>>) = {}
BY DEF Range

\* What is left has its lines once and in their order, if s has.
Left(S, s, D, t) ==
  /\ t \in Seq(S) /\ Range(t) = Range(s) \ D
  /\ IsInjective(s) => IsInjective(t)
  /\ \A f : AsSaid(f, s) => AsSaid(f, t)

LEMMA SiftedKeeps ==
  ASSUME NEW S, NEW s \in Seq(S), NEW D
  PROVE  Left(S, s, D, Without(s, D))
<1>0. PICK t : t = Without(s, D)
  OBVIOUS
<1>1. PICK h : Sifted(s, D, t, h)
  BY <1>0, WithoutSifts
<1>2. /\ t = [i \in 1..Len(t) |-> s[h[i]]] /\ Len(t) \in Nat /\ DOMAIN t = 1..Len(t)
      /\ \A i \in 1..Len(t) : h[i] \in 1..Len(s) /\ t[i] = s[h[i]] /\ t[i] \notin D
      /\ \A i, j \in 1..Len(t) : i < j => h[i] < h[j]
      /\ \A n \in 1..Len(s) : s[n] \notin D => \E i \in 1..Len(t) : h[i] = n
  BY <1>1 DEF Sifted
<1>3. DOMAIN s = 1..Len(s) /\ Len(s) \in Nat /\ \A n \in 1..Len(s) : s[n] \in S
  OBVIOUS
<1>4. t \in Seq(S)
  <2>1. \A i \in 1..Len(t) : t[i] \in S
    BY <1>2, <1>3
  <2>2. t \in [1..Len(t) -> S]
    BY <1>2, <2>1
  <2>3. QED BY <1>2, <2>2
<1>5. Range(t) = Range(s) \ D
  <2>1. ASSUME NEW x \in Range(t) PROVE x \in Range(s) \ D
    <3>1. PICK i \in 1..Len(t) : x = t[i]
      BY <1>2, <2>1 DEF Range
    <3>2. QED BY <1>2, <1>3, <3>1 DEF Range
  <2>2. ASSUME NEW x \in Range(s) \ D PROVE x \in Range(t)
    <3>1. PICK n \in 1..Len(s) : x = s[n]
      BY <1>3, <2>2 DEF Range
    <3>2. PICK i \in 1..Len(t) : h[i] = n
      BY <1>2, <2>2, <3>1
    <3>3. t[i] = x /\ i \in DOMAIN t
      BY <1>2, <3>1, <3>2
    <3>4. QED BY <3>3 DEF Range
  <2>3. QED BY <2>1, <2>2
<1>6. ASSUME NEW i \in 1..Len(t), NEW j \in 1..Len(t), h[i] < h[j] PROVE i < j
  <2>1. i \in Nat /\ j \in Nat /\ h[i] \in Nat /\ h[j] \in Nat
    BY <1>2, <1>3
  <2>2. ~(h[j] < h[i]) /\ h[i] # h[j]
    BY <1>6, <2>1
  <2>3. ~(j < i) /\ i # j
    BY <1>2, <2>2
  <2>4. QED BY <2>1, <2>3
<1>7. ASSUME IsInjective(s) PROVE IsInjective(t)
  <2>1. ASSUME NEW i \in 1..Len(t), NEW j \in 1..Len(t), t[i] = t[j] PROVE i = j
    <3>1. h[i] = h[j]
      BY <1>2, <1>3, <1>7, <2>1 DEF IsInjective
    <3>2. i \in Nat /\ j \in Nat /\ h[i] \in Nat /\ h[j] \in Nat
      BY <1>2, <1>3
    <3>3. ~(h[i] < h[j]) /\ ~(h[j] < h[i])
      BY <3>1, <3>2
    <3>4. ~(i < j) /\ ~(j < i)
      BY <1>2, <3>3
    <3>5. QED BY <3>2, <3>4
  <2>2. QED BY <1>2, <2>1 DEF IsInjective
<1>8. ASSUME NEW f, AsSaid(f, s) PROVE AsSaid(f, t)
  <2>1. ASSUME NEW i \in 1..Len(t), NEW j \in 1..Len(t), NEW k \in DOMAIN f, NEW n \in DOMAIN f,
               f[k] = t[i], f[n] = t[j], k < n
        PROVE  i < j
    <3>1. h[i] < h[j]
      BY <1>2, <1>3, <1>8, <2>1, SMTT(60) DEF AsSaid
    <3>2. QED BY <1>6, <3>1
  <2>2. QED BY <1>2, <2>1 DEF AsSaid
<1>9. QED BY <1>0, <1>4, <1>5, <1>7, <1>8 DEF Left

\* A line is said.
LEMMA SpeaksOnce ==
  ASSUME SaidInv, NEW l \in Lines, Speaks(l)
  PROVE  /\ said' \in Seq(Lines) /\ Said' = Said \cup {l} /\ l \notin Said
         /\ IsInjective(said') /\ Initialize \in Said'
         /\ l = Initialize \/ Initialize \in Said
         /\ \A w : Range(w) \subseteq Said /\ InOrder(said, w) => InOrder(said', w)
         /\ \A w : Range(w) \subseteq Said /\ AsSaid(said, w) => AsSaid(said', w)
         /\ \A w \in Seq(Lines) : \A t : Range(w) \subseteq Said /\ t = Append(w, l)
              => /\ IsInjective(w) => IsInjective(t)
                 /\ InOrder(said, w) => InOrder(said', t)
                 /\ AsSaid(said, w) => AsSaid(said', t)
<1>1. /\ l \notin Said /\ (l # Initialize => Initialize \in Said) /\ said' = Append(said, l)
      /\ said \in Seq(Lines) /\ IsInjective(said)
  BY DEF Speaks, SaidInv
<1>2. PICK f, g, N : f = said /\ g = said' /\ N = Len(said)
  OBVIOUS
<1>3. /\ g \in Seq(Lines) /\ Range(g) = Range(f) \cup {l} /\ l \notin Range(f)
      /\ N \in Nat /\ g[N + 1] = l /\ DOMAIN f = 1..N /\ DOMAIN g = 1..(N + 1)
      /\ \A k \in 1..N : g[k] = f[k]
  <2>1. f \in Seq(Lines) /\ g = Append(f, l) /\ l \notin Range(f)
    BY <1>1, <1>2 DEF Said
  <2>2. Appended(Lines, f, l, g)
    BY <2>1, RangeOfAppend
  <2>3. QED BY <1>2, <2>1, <2>2 DEF Appended
<1>4. \A k \in 1..(N + 1) : k \in 1..N \/ k = N + 1
  BY <1>3
<1>5. \A k \in 1..N : f[k] # l
  BY <1>3 DEF Range
<1>6. IsInjective(g)
  BY <1>1, <1>2, <1>3, <1>4, <1>5 DEF IsInjective
<1>7. ASSUME NEW w, Range(w) \subseteq Range(f), NEW a \in DOMAIN w, NEW k \in DOMAIN g, g[k] = w[a]
      PROVE  k \in 1..N /\ f[k] = w[a] /\ w[a] # l
  <2>1. w[a] \in Range(f)
    BY <1>7 DEF Range
  <2>2. w[a] # l
    BY <1>3, <2>1
  <2>3. k # N + 1
    BY <1>3, <1>7, <2>2
  <2>4. QED BY <1>3, <1>4, <1>7, <2>2, <2>3
<1>8. \A w : Range(w) \subseteq Range(f) /\ InOrder(f, w) => InOrder(g, w)
  BY <1>3, <1>7 DEF InOrder
<1>9. \A w : Range(w) \subseteq Range(f) /\ AsSaid(f, w) => AsSaid(g, w)
  BY <1>3, <1>7 DEF AsSaid
<1>10. ASSUME NEW w \in Seq(Lines), NEW t, Range(w) \subseteq Range(f), t = Append(w, l)
       PROVE  /\ IsInjective(w) => IsInjective(t)
              /\ InOrder(f, w) => InOrder(g, t)
              /\ AsSaid(f, w) => AsSaid(g, t)
  <2>0. PICK M : M = Len(w)
    OBVIOUS
  <2>1. /\ M \in Nat /\ t[M + 1] = l /\ DOMAIN w = 1..M /\ DOMAIN t = 1..(M + 1)
        /\ \A k \in 1..M : t[k] = w[k]
    <3>1. Appended(Lines, w, l, t)
      BY <1>10, RangeOfAppend
    <3>2. QED BY <2>0, <3>1 DEF Appended
  <2>2. \A k \in 1..(M + 1) : k \in 1..M \/ k = M + 1
    BY <2>1
  <2>3. \A k \in 1..M : w[k] # l
    BY <1>3, <1>10, <2>1 DEF Range
  <2>4. IsInjective(w) => IsInjective(t)
    BY <2>1, <2>2, <2>3 DEF IsInjective
  <2>5. ASSUME NEW a \in 1..(M + 1), NEW b \in 1..(M + 1), NEW k \in DOMAIN g, NEW n \in DOMAIN g,
               g[k] = t[a], g[n] = t[b], k < n
        PROVE  \/ a < b
               \/ /\ a \in 1..M /\ b \in 1..M /\ t[a] = w[a] /\ t[b] = w[b]
                  /\ k \in 1..N /\ n \in 1..N /\ f[k] = w[a] /\ f[n] = w[b]
    <3>1. CASE a = M + 1
      <4>1. k = N + 1
        BY <1>3, <1>4, <1>5, <2>1, <2>5, <3>1
      <4>2. ~(k < n)
        BY <1>3, <2>5, <4>1
      <4>3. QED BY <2>5, <4>2
    <3>2. CASE a \in 1..M /\ b = M + 1
      BY <2>1, <3>2
    <3>3. CASE a \in 1..M /\ b \in 1..M
      <4>1. t[a] = w[a] /\ t[b] = w[b]
        BY <2>1, <3>3
      <4>2. k \in 1..N /\ n \in 1..N /\ f[k] = w[a] /\ f[n] = w[b]
        <5>1. a \in DOMAIN w /\ b \in DOMAIN w /\ g[k] = w[a] /\ g[n] = w[b]
          BY <2>1, <2>5, <3>3, <4>1
        <5>2. k \in 1..N /\ f[k] = w[a]
          BY <1>7, <1>10, <5>1, Zenon
        <5>3. n \in 1..N /\ f[n] = w[b]
          BY <1>7, <1>10, <5>1, Zenon
        <5>4. QED BY <5>2, <5>3
      <4>3. QED BY <3>3, <4>1, <4>2
    <3>4. QED BY <2>2, <3>1, <3>2, <3>3
  <2>6. InOrder(f, w) => InOrder(g, t)
    <3>1. ASSUME InOrder(f, w), NEW a \in DOMAIN t, NEW b \in DOMAIN t, NEW k \in DOMAIN g, NEW n \in DOMAIN g,
                 g[k] = t[a], g[n] = t[b], k < n, t[b] \notin Handshake, ~(a < b)
          PROVE  FALSE
      <4>1. /\ a \in DOMAIN w /\ b \in DOMAIN w /\ w[b] \notin Handshake
            /\ k \in DOMAIN f /\ n \in DOMAIN f /\ f[k] = w[a] /\ f[n] = w[b]
        BY <1>3, <2>1, <2>5, <3>1
      <4>2. QED BY <3>1, <4>1 DEF InOrder
    <3>2. QED BY <3>1 DEF InOrder
  <2>7. AsSaid(f, w) => AsSaid(g, t)
    <3>1. ASSUME AsSaid(f, w), NEW a \in DOMAIN t, NEW b \in DOMAIN t, NEW k \in DOMAIN g, NEW n \in DOMAIN g,
                 g[k] = t[a], g[n] = t[b], k < n, ~(a < b)
          PROVE  FALSE
      <4>1. /\ a \in DOMAIN w /\ b \in DOMAIN w
            /\ k \in DOMAIN f /\ n \in DOMAIN f /\ f[k] = w[a] /\ f[n] = w[b]
        BY <1>3, <2>1, <2>5, <3>1
      <4>2. QED BY <3>1, <4>1 DEF AsSaid
    <3>2. QED BY <3>1 DEF AsSaid
  <2>8. QED BY <2>4, <2>6, <2>7
<1>11. Said' = Said \cup {l} /\ Range(f) = Said
  BY <1>2, <1>3 DEF Said
<1>12. QED BY <1>1, <1>2, <1>3, <1>6, <1>8, <1>9, <1>10, <1>11

\* What is failed is answered with an error, but an initialize whose response was
\* never seen.
LEMMA FailingAnswers ==
  ASSUME AnswersInv, NEW S, NEW r, r = Failing(S),
         \A l \in S \cap Requests : replies[l] = <<>>,
         Initialize \in S => ~initResponseSeen
  PROVE  /\ r \in [Answerable -> Seq({"reply", "error"})]
         /\ \A l \in Answerable : Len(r[l]) <= 1
         /\ r[Initialize] = replies[Initialize]
         /\ \A l \in Answerable \ S : r[l] = replies[l]
         /\ \A l \in S \cap Requests : r[l] # <<>>
         /\ Failable(S) = S \cap Requests
<1>0. Requests \subseteq Answerable /\ Initialize \in Answerable /\ Initialize \notin Requests
  BY RelayAssumption DEF Answerable, Handshake
<1>1. Failable(S) = S \cap Requests
  BY <1>0 DEF Failable, Exempt, Answerable
<1>2. /\ replies \in [Answerable -> Seq({"reply", "error"})]
      /\ \A l \in Answerable : Len(replies[l]) <= 1
  BY DEF AnswersInv
<1>3. r = [l \in Answerable |-> IF l \in S \cap Requests THEN Append(replies[l], "error") ELSE replies[l]]
  BY <1>1 DEF Failing
<1>4. ASSUME NEW l \in S \cap Requests
      PROVE  r[l] = Append(<<>>, "error")
  <2>1. replies[l] = <<>> /\ l \in Answerable
    BY <1>0
  <2>2. r[l] = Append(replies[l], "error")
    BY <1>3, <2>1
  <2>3. QED BY <2>1, <2>2
<1>5. \A l \in Answerable \ (S \cap Requests) : r[l] = replies[l]
  BY <1>3
<1>6. PICK e : /\ e = Append(<<>>, "error") /\ e \in Seq({"reply", "error"})
               /\ Len(e) = 1 /\ e # <<>>
  <2>1. "error" \in {"reply", "error"}
    OBVIOUS
  <2>2. QED BY <2>1, FirstAnswer
<1>7. ASSUME NEW l \in Answerable
      PROVE  r[l] \in Seq({"reply", "error"}) /\ Len(r[l]) <= 1
  <2>1. CASE l \in S \cap Requests
    <3>1. r[l] = e
      BY <1>4, <1>6, <2>1
    <3>2. QED BY <1>6, <3>1
  <2>2. CASE l \notin S \cap Requests
    BY <1>2, <1>5, <2>2
  <2>3. QED BY <2>1, <2>2
<1>8. r \in [Answerable -> Seq({"reply", "error"})]
  BY <1>3, <1>7
<1>9. \A l \in S \cap Requests : r[l] # <<>>
  BY <1>4, <1>6
<1>10. r[Initialize] = replies[Initialize] /\ \A l \in Answerable \ S : r[l] = replies[l]
  BY <1>0, <1>5
<1>11. \A l \in Answerable : Len(r[l]) <= 1
  BY <1>7
<1>12. QED BY <1>1, <1>8, <1>9, <1>10, <1>11

\* What waits is ordinary or of the handshake, and is never written twice.
LEMMA LinesSplit ==
  /\ Lines = Ordinary \cup Handshake /\ Ordinary \cap Handshake = {}
  /\ Requests \subseteq Ordinary /\ Requests \subseteq Answerable /\ Answerable \subseteq Lines
  /\ Initialize \in Answerable /\ Initialize \in Handshake /\ Initialize \notin Ordinary
  /\ Answerable = Requests \cup {Initialize}
BY RelayAssumption DEF Lines, Ordinary, Handshake, Answerable

\* The lines that a new socket is sent.
LEMMA SocketLines ==
  ASSUME SaidInv, OrderInv,
         NEW w, w = Replayed \o Without(queue, Range(Replayed))
  PROVE  /\ w \in Seq(Lines) /\ Range(w) \subseteq Said
         /\ \A l \in Ordinary : l \in Range(w) <=> l \in Range(queue)
         /\ IsInjective(w) /\ InOrder(said, w)
         /\ w # <<>> => Head(w) = Initialize
         /\ Initialize \in Said => w # <<>>
<1> DEFINE hs == <<Initialize, Initialized>>
<1>1. PICK r, u : r = Replayed /\ u = Without(queue, Range(r))
  OBVIOUS
<1>2. /\ hs \in Seq(Lines) /\ Range(hs) = Handshake /\ IsInjective(hs) /\ Len(hs) = 2
      /\ hs[1] = Initialize
  <2>1. Initialize \in Lines /\ Initialized \in Lines /\ Initialize # Initialized
    BY RelayAssumption DEF Lines, Handshake
  <2>2. DOMAIN hs = {1, 2} /\ hs[1] = Initialize /\ hs[2] = Initialized /\ Len(hs) = 2
    OBVIOUS
  <2>3. hs \in Seq(Lines)
    BY <2>1
  <2>4. Range(hs) = Handshake
    BY <2>2 DEF Range, Handshake
  <2>5. IsInjective(hs)
    BY <2>1, <2>2 DEF IsInjective
  <2>6. QED BY <2>2, <2>3, <2>4, <2>5
<1>3. /\ r = Without(hs, Lines \ Said) /\ Said \subseteq Lines
      /\ queue \in Seq(Lines) /\ IsInjective(queue) /\ AsSaid(said, queue)
      /\ Range(queue) \subseteq Said /\ (Said # {} => Initialize \in Said)
  <2>1. Said \subseteq Lines
    BY DEF SaidInv, Said, Range
  <2>2. QED BY <1>1, <2>1 DEF Replayed, SaidInv, OrderInv
<1> HIDE DEF hs
<1>4. /\ r \in Seq(Lines) /\ Range(r) = Handshake \cap Said /\ IsInjective(r)
  <2>1. PICK D : D = Lines \ Said
    OBVIOUS
  <2>2. r \in Seq(Lines) /\ Range(r) = Range(hs) \ D /\ IsInjective(r)
    <3>1. r = Without(hs, D)
      BY <1>3, <2>1
    <3>2. Left(Lines, hs, D, r)
      BY <1>2, <3>1, SiftedKeeps
    <3>3. QED BY <1>2, <3>2 DEF Left
  <2>3. QED BY <1>2, <2>1, <2>2, LinesSplit
<1>5. /\ u \in Seq(Lines) /\ Range(u) = Range(queue) \ Range(r)
      /\ IsInjective(u) /\ AsSaid(said, u)
  <2>1. Left(Lines, queue, Range(r), u)
    BY <1>1, <1>3, SiftedKeeps
  <2>2. QED BY <1>3, <2>1 DEF Left
<1>6. PICK R, U : R = Len(r) /\ U = Len(u)
  OBVIOUS
<1>7. /\ w \in Seq(Lines) /\ Range(w) = Range(r) \cup Range(u)
      /\ R \in Nat /\ U \in Nat /\ DOMAIN w = 1..(R + U)
      /\ DOMAIN r = 1..R /\ DOMAIN u = 1..U
      /\ \A k \in 1..R : w[k] = r[k]
      /\ \A k \in 1..U : w[R + k] = u[k]
      /\ \A k \in 1..(R + U) : k \in 1..R \/ \E m \in 1..U : k = R + m
  <2>1. w = r \o u
    BY <1>1
  <2>2. Joined(Lines, r, u, w)
    BY <1>4, <1>5, <2>1, RangeOfJoin
  <2>3. QED BY <1>6, <2>2 DEF Joined
<1>8. Range(w) \subseteq Said /\ \A l \in Ordinary : l \in Range(w) <=> l \in Range(queue)
  BY <1>3, <1>4, <1>5, <1>7, LinesSplit
<1>9. \A a \in 1..R : r[a] \in Range(r)
  BY <1>7 DEF Range
<1>10. \A a \in 1..U : u[a] \in Range(u) /\ u[a] \notin Range(r)
  <2>1. \A a \in 1..U : u[a] \in Range(u)
    BY <1>7 DEF Range
  <2>2. QED BY <1>5, <2>1
<1>11. IsInjective(w)
  <2>1. ASSUME NEW a \in 1..(R + U), NEW b \in 1..(R + U), w[a] = w[b] PROVE a = b
    <3>1. CASE a \in 1..R /\ b \in 1..R
      BY <1>4, <1>7, <2>1, <3>1 DEF IsInjective
    <3>2. CASE a \in 1..R /\ b \notin 1..R
      <4>1. PICK n \in 1..U : b = R + n
        BY <1>7, <2>1, <3>2
      <4>2. w[a] \in Range(r) /\ w[b] = u[n]
        BY <1>7, <1>9, <3>2, <4>1
      <4>3. QED BY <1>10, <2>1, <4>2
    <3>3. CASE a \notin 1..R /\ b \in 1..R
      <4>1. PICK n \in 1..U : a = R + n
        BY <1>7, <2>1, <3>3
      <4>2. w[b] \in Range(r) /\ w[a] = u[n]
        BY <1>7, <1>9, <3>3, <4>1
      <4>3. QED BY <1>10, <2>1, <4>2
    <3>4. CASE a \notin 1..R /\ b \notin 1..R
      <4>1. PICK m \in 1..U, n \in 1..U : a = R + m /\ b = R + n
        BY <1>7, <2>1, <3>4
      <4>2. u[m] = u[n]
        BY <1>7, <2>1, <4>1
      <4>3. m = n
        BY <1>5, <1>7, <4>2 DEF IsInjective
      <4>4. QED BY <4>1, <4>3
    <3>5. QED BY <3>1, <3>2, <3>3, <3>4
  <2>2. QED BY <1>7, <2>1 DEF IsInjective
<1>12. InOrder(said, w)
  <2>1. ASSUME NEW a \in 1..(R + U), NEW b \in 1..(R + U), NEW k \in DOMAIN said, NEW n \in DOMAIN said,
               said[k] = w[a], said[n] = w[b], k < n, w[b] \notin Handshake
        PROVE  a < b
    <3>1. b \notin 1..R
      BY <1>4, <1>7, <1>9, <2>1
    <3>2. PICK d \in 1..U : b = R + d
      BY <1>7, <3>1
    <3>3. CASE a \in 1..R
      BY <1>7, <3>2, <3>3
    <3>4. CASE a \notin 1..R
      <4>1. PICK c \in 1..U : a = R + c
        BY <1>7, <3>4
      <4>2. said[k] = u[c] /\ said[n] = u[d]
        BY <1>7, <2>1, <3>2, <4>1
      <4>3. c < d
        BY <1>5, <1>7, <2>1, <4>2 DEF AsSaid
      <4>4. c \in Nat /\ d \in Nat
        OBVIOUS
      <4>5. QED BY <1>7, <3>2, <4>1, <4>3, <4>4
    <3>5. QED BY <3>3, <3>4
  <2>2. QED BY <1>7, <2>1 DEF InOrder
<1>13. ASSUME Initialize \in Said PROVE w # <<>> /\ Head(w) = Initialize
  <2>1. PICK h : Sifted(hs, Lines \ Said, r, h)
    BY <1>2, <1>3, WithoutSifts
  <2>2. PICK i \in 1..R : h[i] = 1
    BY <1>2, <1>6, <1>13, <2>1 DEF Sifted
  <2>3. i = 1
    <3>1. CASE 1 < i
      <4>1. 1 \in 1..R /\ i \in Nat
        BY <1>7, <3>1
      <4>2. h[1] < h[i] /\ h[1] \in 1..2
        BY <1>2, <1>6, <2>1, <3>1, <4>1 DEF Sifted
      <4>3. QED BY <2>2, <4>2
    <3>2. CASE ~(1 < i)
      BY <1>7, <3>2
    <3>3. QED BY <3>1, <3>2
  <2>4. r[1] = Initialize
    BY <1>2, <1>6, <2>1, <2>2, <2>3 DEF Sifted
  <2>5. w[1] = Initialize /\ 1 \in DOMAIN w
    BY <1>7, <2>2, <2>3, <2>4
  <2>6. QED BY <1>7, <2>5
<1>14. ASSUME Initialize \notin Said PROVE w = <<>>
  <2>1. Range(w) = {}
    BY <1>3, <1>4, <1>5, <1>7, <1>14
  <2>2. DOMAIN w = {}
    BY <2>1 DEF Range
  <2>3. QED BY <1>7, <2>2
<1>15. QED BY <1>7, <1>8, <1>11, <1>12, <1>13, <1>14

LEMMA WrittenOne ==
  ASSUME NEW S, NEW s \in Seq(S), NEW e \in S
  PROVE  s \o <<e>> = Append(s, e) /\ Range(<<e>>) = {e}
<1>1. Range(<<e>>) = {e}
  BY DEF Range
<1>2. s \o <<e>> = Append(s, e)
  OBVIOUS
<1>3. QED BY <1>1, <1>2

-----------------------------------------------------------------------------
\* The shape: every action.
LEMMA RelayShapeStep ==
  ASSUME RelayShape, SaidInv, OrderInv, [RelayNext]_rvars
  PROVE  RelayShape'
<1> USE DEF RelayShape
<1>a. MaxDeaths \in Nat /\ deaths \in Nat /\ rapidFails \in Nat /\ Answerable \subseteq Lines
  BY RelayAssumption, LinesSplit
<1>1. ASSUME NEW l \in Lines, Forward(l) PROVE RelayShape'
  <2>1. Said' = Said \cup {l}
    BY <1>1, SpeaksOnce DEF Forward, ClientLine
  <2>2. /\ sock \in {"up", "dying"} /\ inServer' \subseteq inServer \cup ({l} \cap Answerable)
        /\ outstanding' \subseteq outstanding \cup ({l} \cap Answerable)
        /\ UNCHANGED <<sock, initResponseSeen, awaitingReplay, grace, rapidFails, clientEnded,
                       deaths, queue, pausedForQueue>>
    BY <1>1, WrittenOne, <<>> \in Seq(Lines) DEF Forward, ClientLine, Write
  <2>3. (flowing' = TRUE /\ drainDue' = FALSE) \/ (flowing' = FALSE /\ drainDue' = TRUE)
    BY <1>1 DEF Forward
  <2>4. QED BY <2>1, <2>2, <2>3
<1>2. ASSUME NEW l \in Lines, Enqueue(l) PROVE RelayShape'
  <2>1. Said' = Said \cup {l}
    BY <1>2, SpeaksOnce DEF Enqueue, ClientLine
  <2>2. /\ sock = "down" /\ outstanding' \subseteq outstanding \cup ({l} \cap Answerable)
        /\ UNCHANGED <<sock, initResponseSeen, awaitingReplay, grace, rapidFails, clientEnded,
                       deaths, inServer, drainDue>>
    BY <1>2 DEF Enqueue, ClientLine
  <2>3. \/ pausedForQueue' = TRUE /\ flowing' = FALSE
        \/ pausedForQueue' = FALSE /\ flowing' = TRUE
    <3>1. PICK b : b = (Len(queue') >= MaxPending)
      OBVIOUS
    <3>2. pausedForQueue' = b /\ flowing' = ~b
      BY <1>2, <3>1 DEF Enqueue
    <3>3. b \in BOOLEAN
      BY <3>1
    <3>4. QED BY <3>2, <3>3
  <2>4. QED BY <2>1, <2>2, <2>3
<1>3. ASSUME NEW l \in Lines, FailFast(l) PROVE RelayShape'
  <2>1. Said' = Said \cup {l}
    BY <1>3, SpeaksOnce DEF FailFast
  <2>2. QED BY <1>3, <2>1 DEF FailFast
<1>4. ASSUME NEW l \in Lines, Reply(l) PROVE RelayShape'
  BY <1>4 DEF Reply, Said
<1>5. CASE Drain
  BY <1>5 DEF Drain, Said
<1>6. CASE ReplayRejected
  BY <1>6 DEF ReplayRejected, Said
<1>7. CASE SocketDies
  BY <1>a, <1>7 DEF SocketDies, Said
<1>8. CASE CloseEnded
  BY <1>8 DEF CloseEnded, Said
<1>9. CASE SocketCloses
  <2>1. /\ sock = "dying" /\ ~clientEnded /\ flowing' = TRUE /\ pausedForQueue' = FALSE
        /\ drainDue' = FALSE /\ inServer' = {} /\ (rapidFails' = rapidFails + 1 \/ rapidFails' = 0)
        /\ outstanding' \subseteq outstanding
        /\ \/ sock' = "exited" /\ grace' = "off" /\ queue' = <<>>
           \/ sock' = "down" /\ grace' = "armed" /\ UNCHANGED queue
        /\ UNCHANGED <<said, initResponseSeen, awaitingReplay, clientEnded, deaths>>
    BY <1>9 DEF SocketCloses
  <2>2. rapidFails' \in 0..deaths
    BY <1>a, <2>1
  <2>3. QED BY <2>1, <2>2 DEF Said
<1>10. CASE GraceExpires
  BY <1>10 DEF GraceExpires, Said
<1>11. CASE Reconnected
  <2>1. PICK w : w = Replayed \o Without(queue, Range(Replayed))
    OBVIOUS
  <2>2. Range(w) \subseteq Said
    BY <2>1, SocketLines
  <2>3. /\ sock' = "up" /\ grace' = "off" /\ inServer' = Range(w) \cap Answerable /\ queue' = <<>>
        /\ pausedForQueue' = FALSE /\ flowing' = (flowing \/ pausedForQueue)
        /\ awaitingReplay' = (awaitingReplay \/ (Initialize \in Said /\ initResponseSeen))
        /\ UNCHANGED <<said, outstanding, initResponseSeen, rapidFails, drainDue, clientEnded, deaths>>
    BY <1>11, <2>1 DEF Reconnected
  <2>4. QED BY <2>2, <2>3 DEF Said
<1>12. CASE ReconnectFails
  BY <1>12 DEF ReconnectFails, Shutdown, Said
<1>13. CASE ClientEnds
  BY <1>13 DEF ClientEnds, Shutdown, Said
<1>14. CASE UNCHANGED rvars
  BY <1>14 DEF rvars, Said
<1>15. QED
  BY <1>1, <1>2, <1>3, <1>4, <1>5, <1>6, <1>7, <1>8, <1>9, <1>10, <1>11, <1>12, <1>13, <1>14
     DEF RelayNext

\* What is said, held and written: every action that says a line, or lets lines go.
LEMMA SaidStep ==
  ASSUME RelayShape, SaidInv, OrderInv, [RelayNext]_rvars
  PROVE  SaidInv' /\ OrderInv'
<1>0. /\ said \in Seq(Lines) /\ queue \in Seq(Lines) /\ written \in Seq(Lines)
      /\ Range(queue) \subseteq Said /\ Range(written) \subseteq Said
      /\ IsInjective(said) /\ (Said # {} => Initialize \in Said)
      /\ IsInjective(queue) /\ AsSaid(said, queue)
      /\ IsInjective(written) /\ InOrder(said, written)
      /\ written # <<>> => Head(written) = Initialize
      /\ sock \in {"up", "dying"} /\ Initialize \in Said => written # <<>>
  BY DEF SaidInv, OrderInv
<1>e. <<>> \in Seq(Lines) /\ Range(<<>>) = {} /\ IsInjective(<<>>) /\ AsSaid(said, <<>>)
  BY EmptyRange DEF IsInjective, AsSaid
<1>1. ASSUME NEW l \in Lines, Speaks(l), UNCHANGED queue, written' = Append(written, l),
             sock \in {"up", "dying"}
      PROVE  SaidInv' /\ OrderInv'
  <2>0. PICK w, v : w = written /\ v = Append(w, l)
    OBVIOUS
  <2>1. /\ said' \in Seq(Lines) /\ Said' = Said \cup {l} /\ l \notin Said
        /\ IsInjective(said') /\ Initialize \in Said'
        /\ l = Initialize \/ Initialize \in Said
        /\ AsSaid(said', queue) /\ IsInjective(v) /\ InOrder(said', v)
    BY <1>0, <1>1, <2>0, SpeaksOnce
  <2>2. Appended(Lines, w, l, v)
    BY <1>0, <2>0, RangeOfAppend
  <2>3. v \in Seq(Lines) /\ Range(v) = Range(w) \cup {l} /\ v # <<>>
    BY <2>2 DEF Appended
  <2>4. Head(v) = Initialize
    <3>1. CASE w = <<>>
      BY <1>0, <1>1, <2>0, <2>1, <2>2, <3>1 DEF Appended
    <3>2. CASE w # <<>>
      BY <1>0, <2>0, <2>2, <3>2 DEF Appended
    <3>3. QED BY <3>1, <3>2
  <2>5. SaidInv'
    BY <1>0, <1>1, <2>0, <2>1, <2>3 DEF SaidInv
  <2>6. QED BY <1>0, <1>1, <2>0, <2>1, <2>3, <2>4, <2>5 DEF OrderInv
<1>2. ASSUME NEW l \in Lines, Speaks(l), queue' = Append(queue, l) \/ UNCHANGED queue,
             UNCHANGED <<written, sock>>, sock = "down"
      PROVE  SaidInv' /\ OrderInv'
  <2>0. PICK w, v : w = queue /\ v = queue'
    OBVIOUS
  <2>1. /\ said' \in Seq(Lines) /\ Said' = Said \cup {l} /\ l \notin Said
        /\ IsInjective(said') /\ Initialize \in Said'
        /\ InOrder(said', written)
        /\ AsSaid(said', w) /\ (v = Append(w, l) => IsInjective(v) /\ AsSaid(said', v))
    BY <1>0, <1>2, <2>0, SpeaksOnce
  <2>2. Appended(Lines, w, l, Append(w, l))
    BY <1>0, <2>0, RangeOfAppend
  <2>3. v \in Seq(Lines) /\ Range(v) \subseteq Range(w) \cup {l} /\ IsInjective(v) /\ AsSaid(said', v)
    BY <1>0, <1>2, <2>0, <2>1, <2>2 DEF Appended
  <2>4. SaidInv'
    BY <1>0, <1>2, <2>0, <2>1, <2>3 DEF SaidInv
  <2>5. QED BY <1>0, <1>2, <2>0, <2>1, <2>3, <2>4 DEF OrderInv
<1>3. ASSUME UNCHANGED <<said, written>>, queue' = <<>> \/ UNCHANGED queue,
             sock' \in {"up", "dying"} => sock \in {"up", "dying"}
      PROVE  SaidInv' /\ OrderInv'
  <2>1. /\ queue' \in Seq(Lines) /\ Range(queue') \subseteq Said /\ IsInjective(queue')
        /\ AsSaid(said, queue')
    BY <1>0, <1>3, <1>e
  <2>2. SaidInv'
    BY <1>0, <1>3, <2>1 DEF SaidInv, Said
  <2>3. QED BY <1>0, <1>3, <2>1, <2>2 DEF OrderInv, Said
<1>4. ASSUME NEW l \in Lines, Forward(l) PROVE SaidInv' /\ OrderInv'
  <2>1. written' = Append(written, l)
    BY <1>0, <1>4, WrittenOne DEF Forward, Write
  <2>2. QED BY <1>1, <1>4, <2>1 DEF Forward, ClientLine
<1>5. ASSUME NEW l \in Lines, Enqueue(l) \/ FailFast(l) PROVE SaidInv' /\ OrderInv'
  BY <1>2, <1>5 DEF Enqueue, ClientLine, FailFast
<1>6. CASE GraceExpires
  <2>1. PICK v, D : v = queue' /\ D = Failable(Lines)
    OBVIOUS
  <2>2. Left(Lines, queue, D, v)
    <3>1. v = Without(queue, D)
      BY <1>6, <2>1 DEF GraceExpires, Kept
    <3>2. QED BY <1>0, <3>1, SiftedKeeps
  <2>3. v \in Seq(Lines) /\ Range(v) \subseteq Said /\ IsInjective(v) /\ AsSaid(said, v)
    BY <1>0, <2>2 DEF Left
  <2>4. UNCHANGED <<said, written, sock>>
    BY <1>6 DEF GraceExpires
  <2>5. SaidInv'
    BY <1>0, <2>1, <2>3, <2>4 DEF SaidInv, Said
  <2>6. QED BY <1>0, <2>1, <2>3, <2>4, <2>5 DEF OrderInv, Said
<1>7. CASE Reconnected
  <2>1. PICK w : w = Replayed \o Without(queue, Range(Replayed))
    OBVIOUS
  <2>2. /\ w \in Seq(Lines) /\ Range(w) \subseteq Said
        /\ IsInjective(w) /\ InOrder(said, w)
        /\ w # <<>> => Head(w) = Initialize
        /\ Initialize \in Said => w # <<>>
    BY <2>1, SocketLines
  <2>3. written' = w /\ queue' = <<>> /\ UNCHANGED said
    BY <1>7, <2>1 DEF Reconnected
  <2>4. SaidInv'
    BY <1>0, <1>e, <2>2, <2>3 DEF SaidInv, Said
  <2>5. QED BY <1>0, <1>e, <2>2, <2>3, <2>4 DEF OrderInv, Said
<1>8. ASSUME (\E l \in Lines : Reply(l)) \/ Drain \/ ReplayRejected \/ SocketDies \/ CloseEnded
      PROVE  SaidInv' /\ OrderInv'
  BY <1>3, <1>8 DEF Reply, Drain, ReplayRejected, SocketDies, CloseEnded
<1>9. ASSUME SocketCloses \/ ReconnectFails \/ ClientEnds \/ UNCHANGED rvars
      PROVE  SaidInv' /\ OrderInv'
  BY <1>3, <1>9 DEF SocketCloses, ReconnectFails, ClientEnds, Shutdown, rvars
<1>10. QED
  BY <1>4, <1>5, <1>6, <1>7, <1>8, <1>9 DEF RelayNext

-----------------------------------------------------------------------------
\* How often a line was written: what is said is written at once or waits, and what
\* waits is written to one socket.
LEMMA TimesStep ==
  ASSUME RelayShape, SaidInv, OrderInv, TimesInv, [RelayNext]_rvars
  PROVE  TimesInv'
<1>0. /\ times \in [Lines -> Nat] /\ deaths \in Nat
      /\ \A l \in Lines : times[l] \in Nat /\ times[l] <= deaths + 1 /\ (l \notin Said => times[l] = 0)
      /\ sock = "down" \/ (sock = "dying" /\ ~clientEnded) => \A l \in Lines : times[l] <= deaths
      /\ \A l \in Ordinary : times[l] <= 1 /\ (l \in Range(queue) => times[l] = 0)
      /\ sock = "dying" /\ ~clientEnded => 1 <= deaths
      /\ sock # "down" => queue = <<>>
      /\ Ordinary \subseteq Lines
  <2>1. deaths \in Nat /\ (sock = "dying" /\ ~clientEnded => 1 <= deaths) /\ (sock # "down" => queue = <<>>)
    BY RelayAssumption DEF RelayShape
  <2>2. QED BY <2>1, LinesSplit DEF TimesInv
<1>1. ASSUME NEW l \in Lines, Forward(l) PROVE TimesInv'
  <2>1. /\ sock \in {"up", "dying"} /\ ~clientEnded /\ Speaks(l)
        /\ UNCHANGED <<sock, clientEnded, deaths, queue>>
        /\ times' = [x \in Lines |-> IF x \in Range(<<l>>) THEN times[x] + 1 ELSE times[x]]
    BY <1>1 DEF Forward, ClientLine, Write
  <2>2. Range(<<l>>) = {l} /\ Said' = Said \cup {l} /\ l \notin Said
    BY <2>1, SpeaksOnce, WrittenOne, <<>> \in Seq(Lines)
  <2>3. /\ times' \in [Lines -> Nat] /\ times'[l] = 1
        /\ \A x \in Lines : x # l => times'[x] = times[x]
    BY <1>0, <2>1, <2>2
  <2>4. Range(queue') = {}
    BY <1>0, <2>1, EmptyRange
  <2>5. \A x \in Lines : times'[x] <= deaths + 1
    BY <1>0, <2>3
  <2>6. sock = "dying" => \A x \in Lines : times'[x] <= deaths
    BY <1>0, <2>1, <2>3
  <2>7. \A x \in Lines \ Said' : times'[x] = 0
    BY <1>0, <2>2, <2>3
  <2>8. \A x \in Ordinary : times'[x] <= 1
    BY <1>0, <2>3
  <2>9. QED BY <2>1, <2>3, <2>4, <2>5, <2>6, <2>7, <2>8 DEF TimesInv
<1>2. ASSUME NEW l \in Lines, Enqueue(l) \/ FailFast(l) PROVE TimesInv'
  <2>1. /\ Speaks(l) /\ UNCHANGED <<sock, clientEnded, deaths, times>>
        /\ queue' = Append(queue, l) \/ UNCHANGED queue
    BY <1>2 DEF Enqueue, ClientLine, FailFast
  <2>2. Said' = Said \cup {l} /\ l \notin Said
    BY <2>1, SpeaksOnce
  <2>3. Range(queue') \subseteq Range(queue) \cup {l}
    <3>1. Appended(Lines, queue, l, Append(queue, l))
      BY RangeOfAppend DEF SaidInv
    <3>2. QED BY <2>1, <3>1 DEF Appended
  <2>4. QED BY <1>0, <2>1, <2>2, <2>3 DEF TimesInv
<1>3. ASSUME UNCHANGED <<said, times>>, deaths' = deaths, Range(queue') \subseteq Range(queue),
             sock' = "down" => sock = "down" \/ (sock = "dying" /\ ~clientEnded),
             sock' = "dying" /\ ~clientEnded' => sock = "dying" /\ ~clientEnded
      PROVE  TimesInv'
  BY <1>0, <1>3 DEF TimesInv, Said
<1>4. CASE Reconnected
  <2>1. PICK w : w = Replayed \o Without(queue, Range(Replayed))
    OBVIOUS
  <2>2. Range(w) \subseteq Said /\ \A l \in Ordinary : l \in Range(w) <=> l \in Range(queue)
    BY <2>1, SocketLines
  <2>3. /\ sock = "down" /\ sock' = "up" /\ queue' = <<>> /\ UNCHANGED <<said, deaths>>
        /\ times' = [l \in Lines |-> IF l \in Range(w) THEN times[l] + 1 ELSE times[l]]
    BY <1>4, <2>1 DEF Reconnected
  <2>4. /\ times' \in [Lines -> Nat]
        /\ \A l \in Lines : times'[l] = IF l \in Range(w) THEN times[l] + 1 ELSE times[l]
    BY <1>0, <2>3
  <2>5. Range(queue') = {} /\ Said' = Said
    BY <2>3, EmptyRange DEF Said
  <2>6. \A l \in Lines : times'[l] <= deaths + 1 /\ (l \notin Said => times'[l] = 0)
    BY <1>0, <2>2, <2>3, <2>4
  <2>7. \A l \in Ordinary : times'[l] <= 1
    BY <1>0, <2>2, <2>4
  <2>8. QED BY <2>3, <2>4, <2>5, <2>6, <2>7 DEF TimesInv
<1>5. CASE SocketDies
  <2>1. /\ sock = "up" /\ sock' = "dying" /\ UNCHANGED <<said, queue, times, clientEnded>>
        /\ deaths' = IF clientEnded THEN deaths ELSE deaths + 1
    BY <1>5 DEF SocketDies
  <2>2. deaths <= deaths' /\ (~clientEnded => deaths' = deaths + 1) /\ deaths' \in Nat
    BY <1>0, <2>1
  <2>3. \A l \in Lines : times[l] <= deaths' + 1
    BY <1>0, <2>2
  <2>4. QED BY <1>0, <2>1, <2>2, <2>3 DEF TimesInv, Said
<1>6. CASE GraceExpires
  <2>1. PICK D : D = Failable(Lines)
    OBVIOUS
  <2>2. Left(Lines, queue, D, queue')
    BY <1>6, <2>1, SiftedKeeps DEF GraceExpires, Kept, SaidInv
  <2>3. QED BY <1>3, <1>6, <2>2 DEF GraceExpires, Left
<1>7. ASSUME UNCHANGED queue \/ queue' = <<>> PROVE Range(queue') \subseteq Range(queue)
  BY <1>7, EmptyRange
<1>8. ASSUME (\E l \in Lines : Reply(l)) \/ Drain \/ ReplayRejected \/ CloseEnded
      PROVE  TimesInv'
  BY <1>3, <1>7, <1>8 DEF Reply, Drain, ReplayRejected, CloseEnded
<1>9. ASSUME SocketCloses \/ ReconnectFails \/ ClientEnds \/ UNCHANGED rvars
      PROVE  TimesInv'
  BY <1>3, <1>7, <1>9 DEF SocketCloses, ReconnectFails, ClientEnds, Shutdown, rvars
<1>10. QED
  BY <1>1, <1>2, <1>4, <1>5, <1>6, <1>8, <1>9 DEF RelayNext

-----------------------------------------------------------------------------
\* What is answered: a line that is said, a set of them that is failed, a response.
LEMMA AnswersWhenSaid ==
  ASSUME SaidInv, AnswersInv, NEW l \in Lines, Speaks(l),
         UNCHANGED <<replies, initResponseSeen, awaitingReplay>>,
         outstanding' \subseteq outstanding \cup {l}, inServer' \subseteq inServer \cup {l},
         Range(queue') \subseteq Range(queue) \cup {l}
  PROVE  AnswersInv'
<1>1. Said' = Said \cup {l} /\ l \notin Said
  BY SpeaksOnce
<1>2. QED BY <1>1 DEF AnswersInv

LEMMA AnswersWhenFailed ==
  ASSUME AnswersInv, NEW S, replies' = Failing(S),
         \A l \in S \cap Requests : replies[l] = <<>>,
         S \subseteq Said', Said \subseteq Said', UNCHANGED initResponseSeen,
         Initialize \in S => ~initResponseSeen,
         outstanding' \subseteq (outstanding \cup S) \ (S \cap Requests),
         Range(queue') \subseteq (Range(queue) \cup S) \ (S \cap Requests),
         inServer' \subseteq inServer, inServer' \cap S \cap Requests = {},
         Initialize \in inServer' => awaitingReplay' = awaitingReplay
  PROVE  AnswersInv'
<1>1. PICK r : r = Failing(S)
  OBVIOUS
<1>3. /\ r \in [Answerable -> Seq({"reply", "error"})]
      /\ \A l \in Answerable : Len(r[l]) <= 1
      /\ r[Initialize] = replies[Initialize]
      /\ \A l \in Answerable \ S : r[l] = replies[l]
  BY <1>1, FailingAnswers
<1>4. replies' = r /\ Requests \subseteq Answerable /\ Initialize \notin Requests
  BY <1>1, LinesSplit
<1>5. ASSUME NEW l \in Requests, l \notin Said' \/ l \in outstanding' \cup inServer' \cup Range(queue')
      PROVE  r[l] = <<>>
  <2>1. l \notin S
    BY <1>5
  <2>2. l \notin Said \/ l \in outstanding \cup inServer \cup Range(queue)
    BY <1>5, <2>1
  <2>3. QED BY <1>3, <1>4, <2>1, <2>2 DEF AnswersInv
<1>6. initResponseSeen => /\ Initialize \in Said'
                          /\ Initialize \notin outstanding' /\ Initialize \notin Range(queue')
  BY DEF AnswersInv
<1>7. /\ r[Initialize] # <<>> => initResponseSeen
      /\ Initialize \in inServer' /\ initResponseSeen => awaitingReplay'
  BY <1>3 DEF AnswersInv
<1>8. QED BY <1>3, <1>4, <1>5, <1>6, <1>7 DEF AnswersInv

LEMMA AnswersWhenAnswered ==
  ASSUME RelayShape, AnswersInv, NEW l \in Lines, Reply(l)
  PROVE  AnswersInv'
<1>0. /\ replies \in [Answerable -> Seq({"reply", "error"})] /\ l \in Answerable
      /\ \A x \in Answerable : Len(replies[x]) <= 1
      /\ Requests \subseteq Answerable /\ Initialize \in Answerable /\ Initialize \notin Requests
      /\ Answerable = Requests \cup {Initialize}
      /\ l \in inServer /\ queue = <<>>
  BY LinesSplit DEF AnswersInv, RelayShape, Reply
<1>1. /\ inServer' = inServer \ {l} /\ outstanding' = outstanding \ {l} /\ UNCHANGED <<queue, said>>
  BY DEF Reply
<1>2. Range(queue') = {} /\ Said' = Said
  BY <1>0, <1>1, EmptyRange DEF Said
<1>3. CASE l = Initialize /\ awaitingReplay
  <2>1. awaitingReplay' = FALSE /\ UNCHANGED <<initResponseSeen, replies>>
    BY <1>3 DEF Reply
  <2>2. QED BY <1>0, <1>1, <1>2, <1>3, <2>1 DEF AnswersInv
<1>4. CASE ~(l = Initialize /\ awaitingReplay)
  <2>1. /\ replies' = [replies EXCEPT ![l] = Append(@, "reply")] /\ UNCHANGED awaitingReplay
        /\ initResponseSeen' = (initResponseSeen \/ l = Initialize)
    BY <1>4 DEF Reply
  <2>2. replies[l] = <<>>
    BY <1>0, <1>4 DEF AnswersInv
  <2>3. "reply" \in {"reply", "error"}
    OBVIOUS
  <2>4. PICK e : /\ e = Append(<<>>, "reply") /\ e \in Seq({"reply", "error"})
                 /\ Len(e) = 1 /\ e # <<>>
    BY <2>3, FirstAnswer
  <2>5. replies' = [replies EXCEPT ![l] = e]
    BY <2>1, <2>2, <2>4
  <2>6. /\ replies' \in [Answerable -> Seq({"reply", "error"})] /\ replies'[l] = e
        /\ \A x \in Answerable : x # l => replies'[x] = replies[x]
    BY <1>0, <2>4, <2>5
  <2>7. ASSUME NEW x \in Answerable PROVE Len(replies'[x]) <= 1
    <3>1. CASE x = l
      <4>1. Len(replies'[x]) = 1
        BY <2>4, <2>6, <3>1
      <4>2. QED BY <4>1
    <3>2. CASE x # l
      BY <1>0, <2>6, <3>2
    <3>3. QED BY <3>1, <3>2
  <2>8. l \in Said
    BY <1>0 DEF RelayShape
  <2>9. ASSUME NEW x \in Requests, x \notin Said' \/ x \in outstanding' \cup inServer' \cup Range(queue')
        PROVE  replies'[x] = <<>>
    <3>1. x # l
      BY <1>1, <1>2, <2>8, <2>9
    <3>2. x \notin Said \/ x \in outstanding \cup inServer
      BY <1>1, <1>2, <2>9
    <3>3. QED BY <1>0, <2>6, <3>1, <3>2 DEF AnswersInv
  <2>10. replies'[Initialize] # <<>> => initResponseSeen'
    BY <1>0, <2>1, <2>6 DEF AnswersInv
  <2>11. initResponseSeen' => Initialize \in Said' /\ Initialize \notin outstanding'
    BY <1>1, <1>2, <2>1, <2>8 DEF AnswersInv
  <2>12. Initialize \in inServer' /\ initResponseSeen' => awaitingReplay'
    BY <1>1, <2>1 DEF AnswersInv
  <2>13. QED BY <1>2, <2>6, <2>7, <2>9, <2>10, <2>11, <2>12 DEF AnswersInv
<1>5. QED BY <1>3, <1>4

LEMMA AnswersStep ==
  ASSUME RelayShape, SaidInv, OrderInv, AnswersInv, [RelayNext]_rvars
  PROVE  AnswersInv'
<1>0. /\ outstanding \subseteq Said /\ inServer \subseteq Said /\ Range(queue) \subseteq Said
      /\ sock # "down" => queue = <<>>
      /\ sock = "down" => inServer = {}
      /\ \A l \in Requests : l \in outstanding \cup inServer \cup Range(queue) => replies[l] = <<>>
      /\ Initialize \in outstanding \cup Range(queue) => ~initResponseSeen
      /\ Requests \subseteq Answerable /\ Range(<<>>) = {} /\ Initialize \notin Requests
  BY LinesSplit, EmptyRange DEF RelayShape, SaidInv, AnswersInv
<1>a. ASSUME NEW S, Initialize \in S => ~initResponseSeen
      PROVE  Failable(S) = S \cap Requests
  BY <1>a, LinesSplit DEF Failable, Exempt
<1>1. ASSUME NEW l \in Lines, Forward(l) PROVE AnswersInv'
  <2>1. /\ Speaks(l) /\ UNCHANGED <<replies, initResponseSeen, awaitingReplay, queue>>
        /\ outstanding' \subseteq outstanding \cup {l} /\ inServer' \subseteq inServer \cup Range(<<l>>)
    BY <1>1 DEF Forward, ClientLine, Write
  <2>2. Range(<<l>>) = {l}
    BY WrittenOne, <<>> \in Seq(Lines)
  <2>3. QED BY <2>1, <2>2, AnswersWhenSaid
<1>2. ASSUME NEW l \in Lines, Enqueue(l) PROVE AnswersInv'
  <2>1. /\ Speaks(l) /\ UNCHANGED <<replies, initResponseSeen, awaitingReplay, inServer>>
        /\ outstanding' \subseteq outstanding \cup {l} /\ queue' = Append(queue, l)
    BY <1>2 DEF Enqueue, ClientLine
  <2>2. Appended(Lines, queue, l, Append(queue, l))
    BY RangeOfAppend DEF SaidInv
  <2>3. QED BY <2>1, <2>2, AnswersWhenSaid DEF Appended
<1>3. ASSUME NEW l \in Lines, FailFast(l) PROVE AnswersInv'
  <2>1. /\ Speaks(l) /\ replies' = Failing({l}) /\ sock = "down"
        /\ UNCHANGED <<initResponseSeen, awaitingReplay, inServer>>
        /\ outstanding' = IF l \in Answerable /\ Exempt(l) THEN outstanding \cup {l} ELSE outstanding
        /\ UNCHANGED queue \/ (l \notin Failable({l}) /\ queue' = Append(queue, l))
    BY <1>3 DEF FailFast
  <2>2. PICK S : S = {l}
    OBVIOUS
  <2>3. Said' = Said \cup {l} /\ l \notin Said
    BY <2>1, SpeaksOnce
  <2>4. Initialize \in S => ~initResponseSeen
    BY <2>2, <2>3 DEF AnswersInv
  <2>5. Failable(S) = S \cap Requests
    BY <1>a, <2>4
  <2>6. outstanding' \subseteq (outstanding \cup S) \ (S \cap Requests)
    BY <1>0, <2>1, <2>2, <2>3 DEF Exempt
  <2>7. Appended(Lines, queue, l, Append(queue, l))
    BY RangeOfAppend DEF SaidInv
  <2>8. Range(queue') \subseteq (Range(queue) \cup S) \ (S \cap Requests)
    BY <1>0, <2>1, <2>2, <2>3, <2>5, <2>7 DEF Appended
  <2>9. \A x \in S \cap Requests : replies[x] = <<>>
    BY <2>2, <2>3 DEF AnswersInv
  <2>10. inServer' = {} /\ replies' = Failing(S) /\ S \subseteq Said' /\ Said \subseteq Said'
    BY <1>0, <2>1, <2>2, <2>3
  <2>11. QED BY <2>1, <2>4, <2>6, <2>8, <2>9, <2>10, AnswersWhenFailed
\* The queue is failed, when there is no socket.
<1>4. ASSUME sock = "down", replies' = Failing(Range(queue)),
             outstanding' = outstanding \ Failable(Range(queue)),
             Range(queue') \subseteq Range(queue) \ Failable(Range(queue)),
             UNCHANGED <<inServer, said, initResponseSeen>>
      PROVE  AnswersInv'
  <2>1. PICK S : S = Range(queue)
    OBVIOUS
  <2>2. Failable(S) = S \cap Requests
    BY <1>0, <1>a, <2>1
  <2>3. inServer' = {} /\ Said' = Said
    BY <1>0, <1>4 DEF Said
  <2>4. /\ outstanding' \subseteq (outstanding \cup S) \ (S \cap Requests)
        /\ Range(queue') \subseteq (Range(queue) \cup S) \ (S \cap Requests)
    BY <1>4, <2>1, <2>2
  <2>5. QED BY <1>0, <1>4, <2>1, <2>3, <2>4, AnswersWhenFailed
<1>5. CASE GraceExpires
  <2>1. /\ sock = "down" /\ replies' = Failing(Range(queue))
        /\ outstanding' = outstanding \ Failable(Range(queue))
        /\ queue' = Kept(queue) /\ UNCHANGED <<inServer, said, initResponseSeen>>
    BY <1>5 DEF GraceExpires
  <2>2. PICK D : D = Failable(Lines)
    OBVIOUS
  <2>3. Left(Lines, queue, D, queue')
    BY <2>1, <2>2, SiftedKeeps DEF Kept, SaidInv
  <2>4. Failable(Range(queue)) \subseteq D
    BY <2>2, LinesSplit DEF Failable
  <2>5. Range(queue') \subseteq Range(queue) \ Failable(Range(queue))
    BY <2>3, <2>4 DEF Left
  <2>6. QED BY <1>4, <2>1, <2>5
<1>6. ASSUME ReconnectFails \/ (ClientEnds /\ sock = "down") PROVE AnswersInv'
  BY <1>0, <1>4, <1>6 DEF ReconnectFails, ClientEnds, Shutdown
<1>7. CASE SocketCloses
  <2>1. PICK S : S = outstanding \cup (IF rapidFails' >= RapidFailMax THEN Range(queue) ELSE {})
    OBVIOUS
  <2>2. /\ sock = "dying" /\ inServer' = {} /\ UNCHANGED <<said, initResponseSeen>>
        /\ replies' = Failing(S) /\ outstanding' = outstanding \ Failable(S)
        /\ UNCHANGED queue \/ queue' = <<>>
    BY <1>7, <2>1 DEF SocketCloses
  <2>3. Range(queue) = {} /\ Range(queue') = {} /\ Said' = Said
    BY <1>0, <2>2 DEF Said
  <2>4. S = outstanding
    BY <2>1, <2>3
  <2>5. Failable(S) = S \cap Requests
    BY <1>0, <1>a, <2>4
  <2>6. outstanding' \subseteq (outstanding \cup S) \ (S \cap Requests)
    BY <2>2, <2>4, <2>5
  <2>7. QED BY <1>0, <2>2, <2>3, <2>4, <2>6, AnswersWhenFailed
<1>8. CASE ReplayRejected
  <2>1. /\ sock # "down" /\ inServer' = inServer \ {Initialize} /\ awaitingReplay' = FALSE
        /\ replies' = Failing(Range(queue)) /\ UNCHANGED <<said, initResponseSeen>>
        /\ outstanding' = outstanding \ ({Initialize} \cup Failable(Range(queue))) /\ queue' = <<>>
    BY <1>8 DEF ReplayRejected
  <2>2. PICK S : S = {}
    OBVIOUS
  <2>3. Range(queue) = S /\ Range(queue') = {} /\ Said' = Said
    BY <1>0, <2>1, <2>2 DEF Said
  <2>4. replies' = Failing(S) /\ outstanding' \subseteq outstanding
    BY <2>1, <2>3
  <2>5. QED BY <1>0, <2>1, <2>2, <2>3, <2>4, AnswersWhenFailed
<1>9. CASE Reconnected
  <2>1. PICK w : w = Replayed \o Without(queue, Range(Replayed))
    OBVIOUS
  <2>2. Range(w) \subseteq Said /\ \A l \in Ordinary : l \in Range(w) <=> l \in Range(queue)
    BY <2>1, SocketLines
  <2>3. /\ inServer' = Range(w) \cap Answerable /\ queue' = <<>>
        /\ awaitingReplay' = (awaitingReplay \/ (Initialize \in Said /\ initResponseSeen))
        /\ UNCHANGED <<said, outstanding, initResponseSeen, replies>>
    BY <1>9, <2>1 DEF Reconnected
  <2>4. Range(queue') = {} /\ Said' = Said
    BY <1>0, <2>3 DEF Said
  <2>5. \A l \in Requests : l \in inServer' => l \in Range(queue)
    BY <2>2, <2>3, LinesSplit
  <2>6. QED BY <2>3, <2>4, <2>5 DEF AnswersInv
<1>10. ASSUME UNCHANGED <<said, replies, outstanding, queue, inServer, initResponseSeen, awaitingReplay>>
       PROVE  AnswersInv'
  BY <1>10 DEF AnswersInv, Said
<1>11. ASSUME Drain \/ SocketDies \/ CloseEnded \/ (ClientEnds /\ sock # "down") \/ UNCHANGED rvars
       PROVE  AnswersInv'
  BY <1>10, <1>11 DEF Drain, SocketDies, CloseEnded, ClientEnds, rvars
<1>12. ASSUME NEW l \in Lines, Reply(l) PROVE AnswersInv'
  BY <1>12, AnswersWhenAnswered
<1>13. QED
  BY <1>1, <1>2, <1>3, <1>5, <1>6, <1>7, <1>8, <1>9, <1>11, <1>12 DEF RelayNext

-----------------------------------------------------------------------------
LEMMA RelayInitially == RelayInit => RelayInv
<1> SUFFICES ASSUME RelayInit PROVE RelayInv
  OBVIOUS
<1>0. /\ sock = "up" /\ inServer = {} /\ outstanding = {}
      /\ queue = <<>> /\ said = <<>> /\ written = <<>>
      /\ initResponseSeen = FALSE /\ awaitingReplay = FALSE /\ grace = "off"
      /\ rapidFails = 0 /\ deaths = 0 /\ flowing = TRUE /\ pausedForQueue = FALSE
      /\ drainDue = FALSE /\ clientEnded = FALSE
      /\ times = [l \in Lines |-> 0] /\ replies = [l \in Answerable |-> <<>>]
  BY DEF RelayInit
<1>1. Said = {} /\ Range(queue) = {} /\ Range(written) = {}
  BY <1>0, EmptyRange DEF Said
<1>2. RelayShape
  <2>1. deaths \in 0..MaxDeaths /\ rapidFails \in 0..deaths
    BY <1>0, RelayAssumption
  <2>2. {initResponseSeen, awaitingReplay, flowing, pausedForQueue, drainDue, clientEnded}
          \subseteq BOOLEAN
    BY <1>0
  <2>3. inServer \cup outstanding \subseteq Answerable \cap Said
    BY <1>0
  <2>4. QED BY <1>0, <2>1, <2>2, <2>3 DEF RelayShape
<1>3. IsInjective(<<>>) /\ AsSaid(said, <<>>) /\ InOrder(said, <<>>) /\ <<>> \in Seq(Lines)
  BY DEF IsInjective, AsSaid, InOrder
<1>4. SaidInv /\ OrderInv
  BY <1>0, <1>1, <1>3 DEF SaidInv, OrderInv
<1>5. TimesInv
  BY <1>0, <1>1, LinesSplit DEF TimesInv
<1>6. AnswersInv
  <2>1. PICK e : e = <<>>
    OBVIOUS
  <2>2. e \in Seq({"reply", "error"}) /\ Len(e) = 0
    BY <2>1
  <2>3. replies = [l \in Answerable |-> e]
    BY <1>0, <2>1
  <2>4. /\ replies \in [Answerable -> Seq({"reply", "error"})]
        /\ \A l \in Answerable : replies[l] = e
    BY <2>2, <2>3
  <2>5. \A l \in Answerable : Len(replies[l]) <= 1
    BY <2>2, <2>4
  <2>6. QED BY <1>0, <1>1, <2>1, <2>4, <2>5, LinesSplit DEF AnswersInv
<1>7. QED BY <1>2, <1>4, <1>5, <1>6 DEF RelayInv

LEMMA RelayInvSafe == RelayInv => RelaySafe
<1> SUFFICES ASSUME RelayInv PROVE RelaySafe
  OBVIOUS
<1>0. RelayShape /\ SaidInv /\ TimesInv /\ AnswersInv /\ OrderInv
  BY DEF RelayInv
<1>1. RelayTypeOK
  <2>1. MaxDeaths \in Nat /\ deaths \in 0..MaxDeaths /\ rapidFails \in 0..deaths
    BY <1>0, RelayAssumption DEF RelayShape
  <2>2. rapidFails \in 0..MaxDeaths
    BY <2>1
  <2>3. ASSUME NEW l \in Lines PROVE times[l] \in 0..MaxDeaths + 1
    <3>1. times[l] \in Nat /\ times[l] <= deaths + 1
      BY <1>0 DEF TimesInv
    <3>2. QED BY <2>1, <3>1
  <2>4. times \in [Lines -> 0..MaxDeaths + 1]
    BY <1>0, <2>3 DEF TimesInv
  <2>5. Said \subseteq Lines
    BY <1>0 DEF SaidInv, Said, Range
  <2>6. replies \in [Answerable -> Seq({"reply", "error"})]
    BY <1>0 DEF AnswersInv
  <2>7. Range(queue) \cup Range(written) \subseteq Said
    BY <1>0 DEF SaidInv
  <2>8. QED BY <1>0, <2>1, <2>2, <2>4, <2>5, <2>6, <2>7 DEF RelayTypeOK, RelayShape
<1>2. NeverResent
  BY <1>0 DEF NeverResent, TimesInv, Ordinary
<1>3. OneReply
  BY <1>0 DEF OneReply, AnswersInv
<1>4. HandshakeFirst
  BY <1>0 DEF HandshakeFirst, OrderInv, InOrder
<1>5. QED BY <1>1, <1>2, <1>3, <1>4 DEF RelaySafe

LEMMA RelayInvStep == RelayInv /\ [RelayNext]_rvars => RelayInv'
BY RelayShapeStep, SaidStep, TimesStep, AnswersStep DEF RelayInv

\* However the socket dies, closes and comes back, and the client speaks, ends and is
\* paused: an ordinary line reaches one server at most, no request is answered twice,
\* and every server hears initialize first, each line once, and an ordinary line after
\* all it hears of what was said before (failOutstanding, replayMessages, flush).
THEOREM RelayIsSafe == RelaySpec => []RelaySafe
<1>1. QED BY RelayInitially, RelayInvStep, RelayInvSafe, PTL DEF RelaySpec

-----------------------------------------------------------------------------
\* A step and the requests that were failed, or that leave the queue.
StaysUnsent == \A l \in Requests : replies[l] # <<>> => times'[l] = times[l]
LeavesWell  == \A l \in Requests : l \in Range(queue) \ Range(queue')
                 => l \in Range(written') \/ replies'[l] # <<>>

LEMMA UnsentStep ==
  ASSUME RelayShape, SaidInv, OrderInv, TimesInv, AnswersInv, RelayNext
  PROVE  StaysUnsent
<1>0. times \in [Lines -> Nat] /\ Requests \subseteq Lines /\ Requests \subseteq Ordinary
  BY LinesSplit DEF TimesInv
<1>1. ASSUME NEW l \in Lines, Forward(l) PROVE StaysUnsent
  <2>1. /\ Speaks(l)
        /\ times' = [x \in Lines |-> IF x \in Range(<<l>>) THEN times[x] + 1 ELSE times[x]]
    BY <1>1 DEF Forward, ClientLine, Write
  <2>2. Range(<<l>>) = {l} /\ l \notin Said
    BY <2>1, SpeaksOnce, WrittenOne, <<>> \in Seq(Lines)
  <2>3. l \in Requests => replies[l] = <<>>
    BY <2>2 DEF AnswersInv
  <2>4. \A x \in Lines : x # l => times'[x] = times[x]
    BY <1>0, <2>1, <2>2
  <2>5. QED BY <1>0, <2>3, <2>4 DEF StaysUnsent
<1>2. CASE Reconnected
  <2>1. PICK w : w = Replayed \o Without(queue, Range(Replayed))
    OBVIOUS
  <2>2. \A l \in Ordinary : l \in Range(w) <=> l \in Range(queue)
    BY <2>1, SocketLines
  <2>3. times' = [l \in Lines |-> IF l \in Range(w) THEN times[l] + 1 ELSE times[l]]
    BY <1>2, <2>1 DEF Reconnected
  <2>4. ASSUME NEW l \in Requests, replies[l] # <<>> PROVE times'[l] = times[l]
    <3>1. l \notin Range(queue)
      BY <2>4 DEF AnswersInv
    <3>2. QED BY <1>0, <2>2, <2>3, <3>1
  <2>5. QED BY <2>4 DEF StaysUnsent
<1>3. ASSUME UNCHANGED times PROVE StaysUnsent
  BY <1>3 DEF StaysUnsent
<1>4. ASSUME NEW l \in Lines, Enqueue(l) \/ FailFast(l) \/ Reply(l) PROVE StaysUnsent
  BY <1>3, <1>4 DEF Enqueue, FailFast, Reply
<1>5. ASSUME \/ Drain \/ ReplayRejected \/ SocketDies \/ CloseEnded \/ SocketCloses
             \/ GraceExpires \/ ReconnectFails \/ ClientEnds
      PROVE  StaysUnsent
  BY <1>3, <1>5 DEF Drain, ReplayRejected, SocketDies, CloseEnded, SocketCloses,
                    GraceExpires, ReconnectFails, ClientEnds
<1>6. QED BY <1>1, <1>2, <1>4, <1>5 DEF RelayNext

LEMMA LeavesStep ==
  ASSUME RelayShape, SaidInv, OrderInv, AnswersInv, RelayNext
  PROVE  LeavesWell
<1>0. /\ sock # "down" => queue = <<>>
      /\ Range(<<>>) = {} /\ queue \in Seq(Lines)
      /\ \A l \in Requests : l \in Range(queue) => replies[l] = <<>>
      /\ Initialize \in Range(queue) => ~initResponseSeen
      /\ Requests \subseteq Ordinary
  BY LinesSplit, EmptyRange DEF RelayShape, SaidInv, AnswersInv
<1>1. ASSUME Range(queue) \subseteq Range(queue') PROVE LeavesWell
  BY <1>1 DEF LeavesWell
<1>2. ASSUME NEW l \in Lines, queue' = Append(queue, l) PROVE LeavesWell
  <2>1. Appended(Lines, queue, l, Append(queue, l))
    BY <1>0, RangeOfAppend
  <2>2. QED BY <1>1, <1>2, <2>1 DEF Appended
<1>3. ASSUME sock # "down" PROVE LeavesWell
  BY <1>0, <1>1, <1>3
\* What was in the queue is failed.
<1>4. ASSUME replies' = Failing(Range(queue)) PROVE LeavesWell
  <2>1. PICK S, r : S = Range(queue) /\ r = Failing(S)
    OBVIOUS
  <2>2. \A l \in S \cap Requests : r[l] # <<>>
    BY <1>0, <2>1, FailingAnswers
  <2>3. QED BY <1>4, <2>1, <2>2 DEF LeavesWell
<1>5. CASE Reconnected
  <2>1. PICK w : w = Replayed \o Without(queue, Range(Replayed))
    OBVIOUS
  <2>2. \A l \in Ordinary : l \in Range(w) <=> l \in Range(queue)
    BY <2>1, SocketLines
  <2>3. written' = w
    BY <1>5, <2>1 DEF Reconnected
  <2>4. QED BY <1>0, <2>2, <2>3 DEF LeavesWell
<1>6. ASSUME NEW l \in Lines, Forward(l) \/ Enqueue(l) \/ FailFast(l) \/ Reply(l) PROVE LeavesWell
  BY <1>1, <1>2, <1>6 DEF Forward, Enqueue, FailFast, Reply
<1>7. ASSUME \/ Drain \/ SocketDies \/ ReplayRejected \/ CloseEnded \/ SocketCloses
      PROVE  LeavesWell
  BY <1>3, <1>7 DEF Drain, SocketDies, ReplayRejected, CloseEnded, SocketCloses
<1>8. ASSUME GraceExpires \/ ReconnectFails PROVE LeavesWell
  BY <1>4, <1>8 DEF GraceExpires, ReconnectFails, Shutdown
<1>9. CASE ClientEnds
  BY <1>3, <1>4, <1>9 DEF ClientEnds, Shutdown
<1>10. QED BY <1>5, <1>6, <1>7, <1>8, <1>9 DEF RelayNext

\* A request that was failed is written to no server afterwards, and one leaves the
\* queue for a server or with an answer, on every path by which the queue is emptied
\* (failRequest, the grace timer, flush, shutdown).
THEOREM FailedIsKept == RelaySpec => FailedOrKept
<1>1. RelayInv /\ [RelayNext]_rvars => [StaysUnsent /\ LeavesWell]_rvars
  BY UnsentStep, LeavesStep DEF RelayInv
<1>2. RelaySpec => [][StaysUnsent /\ LeavesWell]_rvars
  BY RelayInitially, RelayInvStep, <1>1, PTL DEF RelaySpec
<1>3. [StaysUnsent /\ LeavesWell]_rvars
        => /\ [\A l \in Requests : replies[l] # <<>> => times'[l] = times[l]]_rvars
           /\ [\A l \in Requests : l \in Range(queue) \ Range(queue')
                 => l \in Range(written') \/ replies'[l] # <<>>]_rvars
  BY DEF StaysUnsent, LeavesWell
<1>4. QED BY <1>2, <1>3, PTL DEF FailedOrKept, FailedStaysUnsent, QueuedIsKept

-----------------------------------------------------------------------------
(***************************************************************************)
(* The file-system handler.  As long as no stop() met an unfinished build, *)
(* the build that ready() returns is the only one under way, the only one  *)
(* whose watcher runs unclosed, and the one stop() would close; and in     *)
(* LIVE mode ready() returns none.                                         *)
(***************************************************************************)
WatcherTypeOK ==
  /\ cached \in BOOLEAN
  /\ readyPromise \in Builds \cup {NoBuild} /\ watcher \in Builds \cup {NoBuild}
  /\ build \in [Builds -> BuildStages]
  /\ closing \subseteq running /\ running \subseteq Builds /\ raced \in BOOLEAN
  /\ \A g \in Builds : g \in running <=> build[g] \in {"starting", "done"}

PromiseOpen ==
  readyPromise # NoBuild => build[readyPromise] # "none" /\ readyPromise \notin closing

WatcherOpen ==
  /\ watcher # NoBuild => watcher \notin closing /\ build[watcher] = "done"
  /\ \A g \in closing : build[g] = "done"

OneBuild ==
  ~raced => /\ Unfinished \subseteq {readyPromise}
            /\ running \ closing \subseteq {readyPromise}
            /\ cached => readyPromise = NoBuild
            /\ readyPromise # NoBuild /\ build[readyPromise] = "done"
                 => watcher = readyPromise

WatcherInv == WatcherTypeOK /\ PromiseOpen /\ WatcherOpen /\ OneBuild

LEMMA WatcherInvInit == FailoverInit => WatcherInv
<1> SUFFICES ASSUME FailoverInit PROVE WatcherInv
  OBVIOUS
<1> USE BuildsAssumption DEF FailoverInit, PresenceInit, LiveInit, FsInit
<1>1. WatcherTypeOK
  BY DEF WatcherTypeOK, BuildStages
<1>2. PromiseOpen
  BY DEF PromiseOpen
<1>3. OneBuild
  BY DEF OneBuild, Unfinished
<1>4. WatcherOpen
  BY DEF WatcherOpen
<1>5. QED
  BY <1>1, <1>2, <1>3, <1>4 DEF WatcherInv

\* ready() is called in FS mode only, and then the invariant carries over.
LEMMA ReadyKeepsWatcherInv ==
  ASSUME WatcherInv, Ready, cached' \in BOOLEAN, ~cached'
  PROVE  WatcherInv'
<1> USE BuildsAssumption DEF fvars
<1>1. CASE UNCHANGED fvars
  BY <1>1 DEF WatcherInv, WatcherTypeOK, PromiseOpen, WatcherOpen, OneBuild, Unfinished
<1>2. CASE ~ UNCHANGED fvars
  <2>1. PICK g \in Builds : /\ readyPromise = NoBuild
                            /\ build[g] = "none"
                            /\ build' = [build EXCEPT ![g] = "indexing"]
                            /\ readyPromise' = g
                            /\ UNCHANGED <<watcher, running, closing, raced>>
    BY <1>2 DEF Ready
  <2>2. WatcherTypeOK'
    BY <2>1 DEF WatcherInv, WatcherTypeOK, BuildStages
  <2>3. PromiseOpen'
    BY <2>1 DEF WatcherInv, WatcherTypeOK, PromiseOpen
  <2>4. OneBuild'
    BY <2>1 DEF WatcherInv, WatcherTypeOK, OneBuild, Unfinished
  <2>5. WatcherOpen'
    BY <2>1 DEF WatcherInv, WatcherTypeOK, WatcherOpen
  <2>6. QED
    BY <2>2, <2>3, <2>4, <2>5 DEF WatcherInv
<1>3. QED
  BY <1>1, <1>2

LEMMA StopKeepsWatcherInv ==
  ASSUME WatcherInv, Stop, cached' \in BOOLEAN
  PROVE  WatcherInv'
<1> USE BuildsAssumption DEF Stop
<1>0. watcher # NoBuild => watcher \in running
  BY DEF WatcherInv, WatcherTypeOK, WatcherOpen
<1>1. WatcherTypeOK'
  BY <1>0 DEF WatcherInv, WatcherTypeOK
<1>2. PromiseOpen'
  BY DEF PromiseOpen
<1>3. WatcherOpen'
  BY DEF WatcherInv, WatcherOpen
<1>4. OneBuild'
  <2> SUFFICES ASSUME ~raced' PROVE Unfinished' = {} /\ running' \ closing' = {}
    BY DEF OneBuild
  <2>1. ~raced /\ Unfinished = {} /\ Unfinished' = {}
    BY DEF WatcherInv, WatcherTypeOK, Unfinished
  <2>2. ASSUME NEW g \in running \ closing PROVE g = watcher
    BY <2>1, <2>2 DEF WatcherInv, WatcherTypeOK, OneBuild, Unfinished
  <2>3. QED
    BY <2>1, <2>2 DEF WatcherInv, WatcherTypeOK
<1>5. QED
  BY <1>1, <1>2, <1>3, <1>4 DEF WatcherInv

\* Nothing else touches the promise; a poll that emits no event leaves isLive().
LEMMA OthersKeepWatcherInv ==
  ASSUME WatcherInv, UNCHANGED fvars, cached' = cached
  PROVE  WatcherInv'
BY DEF WatcherInv, WatcherTypeOK, PromiseOpen, WatcherOpen, OneBuild, Unfinished, fvars

LEMMA FsStepKeepsWatcherInv ==
  ASSUME WatcherInv, FsStep
  PROVE  WatcherInv'
<1> USE BuildsAssumption
<1>0. cached' = cached
  BY DEF FsStep, pvars
<1>1. ASSUME NEW g \in Builds, IndexBuilt(g) PROVE WatcherInv'
  <2> USE <1>0, <1>1 DEF IndexBuilt
  <2>1. WatcherTypeOK'
    BY DEF WatcherInv, WatcherTypeOK, BuildStages
  <2>2. PromiseOpen' /\ WatcherOpen'
    BY DEF WatcherInv, WatcherTypeOK, PromiseOpen, WatcherOpen
  <2>3. OneBuild'
    BY DEF WatcherInv, WatcherTypeOK, OneBuild, Unfinished
  <2>4. QED
    BY <2>1, <2>2, <2>3 DEF WatcherInv
<1>2. ASSUME NEW g \in Builds, WatcherReady(g) PROVE WatcherInv'
  <2> USE <1>0, <1>2 DEF WatcherReady
  <2>1. WatcherTypeOK'
    BY DEF WatcherInv, WatcherTypeOK, BuildStages
  <2>2. PromiseOpen' /\ WatcherOpen'
    BY DEF WatcherInv, WatcherTypeOK, PromiseOpen, WatcherOpen
  <2>3. OneBuild'
    BY DEF WatcherInv, WatcherTypeOK, OneBuild, Unfinished
  <2>4. QED
    BY <2>1, <2>2, <2>3 DEF WatcherInv
<1>3. ASSUME NEW g \in Builds, WatcherClosed(g) PROVE WatcherInv'
  <2> USE <1>0, <1>3 DEF WatcherClosed
  <2>1. WatcherTypeOK'
    BY DEF WatcherInv, WatcherTypeOK, BuildStages
  <2>2. PromiseOpen' /\ WatcherOpen'
    BY DEF WatcherInv, WatcherTypeOK, PromiseOpen, WatcherOpen
  <2>3. OneBuild'
    BY DEF WatcherInv, WatcherTypeOK, OneBuild, Unfinished
  <2>4. QED
    BY <2>1, <2>2, <2>3 DEF WatcherInv
<1>4. ASSUME NEW g \in Builds, BuildForgotten(g) PROVE WatcherInv'
  <2> USE <1>0, <1>4 DEF BuildForgotten
  <2>1. WatcherTypeOK'
    BY DEF WatcherInv, WatcherTypeOK, BuildStages
  <2>2. PromiseOpen' /\ WatcherOpen'
    BY DEF WatcherInv, WatcherTypeOK, PromiseOpen, WatcherOpen
  <2>3. OneBuild'
    BY DEF WatcherInv, WatcherTypeOK, OneBuild, Unfinished
  <2>4. QED
    BY <2>1, <2>2, <2>3 DEF WatcherInv
<1>5. QED
  BY <1>1, <1>2, <1>3, <1>4 DEF FsStep

LEMMA WatcherInvNext == WatcherInv /\ [FailoverNext]_frontVars => WatcherInv'
<1> SUFFICES ASSUME WatcherInv, [FailoverNext]_frontVars PROVE WatcherInv'
  OBVIOUS
<1>0. cached \in BOOLEAN
  BY DEF WatcherInv, WatcherTypeOK
<1>1. CASE PresenceStep
  <2>1. UNCHANGED fvars /\ cached' = cached
    BY <1>1 DEF PresenceStep, PluginMoves, ProbeConnects, ProbeFails
  <2>2. QED
    BY <2>1, OthersKeepWatcherInv
<1>2. CASE SessionStep
  BY <1>2, OthersKeepWatcherInv DEF SessionStep, pvars
<1>3. CASE FsStep
  BY <1>3, FsStepKeepsWatcherInv
<1>4. ASSUME NEW i \in Polls, Resolve(i) PROVE WatcherInv'
  <2>1. cached' \in BOOLEAN
    BY <1>0, <1>4 DEF Resolve, PollResolves, PollLive, PollGone, PollRefused
  <2>2. CASE EmitsDown /\ Ready
    BY <2>1, <2>2, ReadyKeepsWatcherInv DEF EmitsDown
  <2>3. CASE EmitsUp /\ Stop
    BY <2>1, <2>3, StopKeepsWatcherInv
  <2>4. CASE ~EmitsDown /\ ~EmitsUp /\ UNCHANGED fvars
    <3>1. cached' = cached
      BY <1>0, <2>1, <2>4 DEF EmitsDown, EmitsUp
    <3>2. QED
      BY <2>4, <3>1, OthersKeepWatcherInv
  <2>5. QED
    BY <1>4, <2>2, <2>3, <2>4 DEF Resolve
<1>5. ASSUME NEW b \in Backends, LiveRequest(b) PROVE WatcherInv'
  BY <1>5, OthersKeepWatcherInv DEF LiveRequest, pvars
<1>6. CASE FsRequest
  BY <1>0, <1>6, ReadyKeepsWatcherInv DEF FsRequest, pvars
<1>7. CASE UNCHANGED frontVars
  BY <1>7, OthersKeepWatcherInv DEF frontVars, pvars
<1>8. QED
  BY <1>1, <1>2, <1>3, <1>4, <1>5, <1>6, <1>7 DEF FailoverNext

THEOREM WatcherInvariance == FailoverSpec => []WatcherInv
<1>1. QED
  BY WatcherInvInit, WatcherInvNext, PTL DEF FailoverSpec

(***************************************************************************)
(* As long as stop() never met a build under way, no watcher runs in LIVE  *)
(* mode that is not being closed, and at most one does in FS mode.         *)
(***************************************************************************)
THEOREM WatcherOffInLiveMode == FailoverSpec => []WatcherQuiet
<1>1. WatcherInv => WatcherQuiet
  <2> SUFFICES ASSUME WatcherInv, ~raced
               PROVE  /\ cached => running \subseteq closing
                      /\ Cardinality(running \ closing) <= 1
    BY DEF WatcherQuiet
  <2>1. running \ closing \subseteq {readyPromise} /\ running \subseteq Builds
    BY DEF WatcherInv, WatcherTypeOK, OneBuild
  <2>2. cached => running \subseteq closing
    BY <2>1, BuildsAssumption DEF WatcherInv, OneBuild
  <2>3. running \ closing = {} \/ running \ closing = {readyPromise}
    BY <2>1
  <2>4. QED
    <3>1. Cardinality(running \ closing) = 0 \/ Cardinality(running \ closing) = 1
      BY <2>3, FS_EmptySet, FS_Singleton, Zenon
    <3>2. QED
      BY <2>2, <3>1
<1>2. QED
  BY <1>1, WatcherInvariance, PTL

(***************************************************************************)
(* FS mode never serves from an index whose watcher was stopped, with or   *)
(* without that race.                                                      *)
(***************************************************************************)
THEOREM FsModeIsWatched == FailoverSpec => []FsModeWatched
<1>1. WatcherInv => FsModeWatched
  BY DEF WatcherInv, WatcherTypeOK, PromiseOpen, FsModeWatched
<1>2. QED
  BY <1>1, WatcherInvariance, PTL

-----------------------------------------------------------------------------
(***************************************************************************)
(* The sessions.  The counter is at most the number of live backends, and  *)
(* less than that by at most the number of backends a teardownAll spared.  *)
(***************************************************************************)
SessionsInv ==
  /\ backend \in [Backends -> BackendStages]
  /\ liveBackends \in Nat /\ liveBackends <= MaxSessions
  /\ spared \subseteq Backends
  /\ liveBackends <= Cardinality(Alive)
  /\ Cardinality(Alive) <= liveBackends + Cardinality(spared)

LEMMA SetsFinite ==
  ASSUME SessionsInv
  PROVE  /\ IsFiniteSet(Alive) /\ Cardinality(Alive) \in Nat
         /\ IsFiniteSet(spared) /\ Cardinality(spared) \in Nat
BY SessionsAssumption, FS_Subset, FS_CardinalityType DEF SessionsInv, Alive

LEMMA SessionsInvInit == FailoverInit => SessionsInv
<1> SUFFICES ASSUME FailoverInit PROVE SessionsInv
  OBVIOUS
<1> USE DEF FailoverInit, LiveInit
<1>1. Alive = {}
  BY DEF Alive
<1>2. QED
  BY <1>1, SessionsAssumption, FS_EmptySet DEF SessionsInv, BackendStages

\* Steps that move no backend into or out of Alive, and leave the counter.
LEMMA StageKeepsSessionsInv ==
  ASSUME SessionsInv, UNCHANGED <<liveBackends, spared>>,
         backend' \in [Backends -> BackendStages], Alive' = Alive
  PROVE  SessionsInv'
BY DEF SessionsInv

LEMMA MakeSessionKeepsSessionsInv ==
  ASSUME SessionsInv, NEW b \in Backends, MakeSession(b)
  PROVE  SessionsInv'
<1> USE SetsFinite DEF MakeSession, SessionsInv
<1>1. b \notin Alive /\ Alive' = Alive \cup {b}
  BY DEF Alive
<1>2. Cardinality(Alive') = Cardinality(Alive) + 1
  BY <1>1, FS_AddElement
<1>3. backend' \in [Backends -> BackendStages]
  BY DEF BackendStages
<1>4. QED
  BY <1>2, <1>3, SessionsAssumption

LEMMA TeardownKeepsSessionsInv ==
  ASSUME SessionsInv, NEW b \in Backends, Teardown(b)
  PROVE  SessionsInv'
<1> USE SetsFinite DEF Teardown, SessionsInv
<1>1. b \in Alive /\ Alive' = Alive \ {b}
  BY DEF Alive
<1>2. Cardinality(Alive') = Cardinality(Alive) - 1
  BY <1>1, FS_RemoveElement
<1>3. Cardinality(Alive') \in Nat
  BY <1>1, FS_RemoveElement, FS_CardinalityType
<1>4. backend' \in [Backends -> BackendStages]
  BY DEF BackendStages
<1>5. QED
  BY <1>2, <1>3, <1>4, SessionsAssumption

LEMMA TeardownAllKeepsSessionsInv ==
  ASSUME SessionsInv, TeardownAll
  PROVE  SessionsInv'
<1> USE SetsFinite DEF TeardownAll, SessionsInv
<1>1. backend' \in [Backends -> BackendStages]
  BY DEF BackendStages
<1>2. spared' \subseteq Backends /\ Alive' \subseteq spared'
  BY DEF Alive, Registered
<1>3. IsFiniteSet(spared') /\ Cardinality(spared') \in Nat /\ Cardinality(Alive') \in Nat
  BY <1>2, SessionsAssumption, FS_Subset, FS_CardinalityType
<1>4. Cardinality(Alive') <= Cardinality(spared')
  BY <1>2, <1>3, FS_Subset
<1>5. QED
  BY <1>1, <1>2, <1>3, <1>4, SessionsAssumption

LEMMA SessionsInvNext == SessionsInv /\ [FailoverNext]_frontVars => SessionsInv'
<1> SUFFICES ASSUME SessionsInv, [FailoverNext]_frontVars PROVE SessionsInv'
  OBVIOUS
<1>0. CASE UNCHANGED lvars
  BY <1>0, StageKeepsSessionsInv DEF lvars, SessionsInv, Alive
<1>1. CASE PresenceStep
  BY <1>0, <1>1 DEF PresenceStep
<1>2. CASE SessionStep
  <2>1. ASSUME NEW b \in Backends, SessionInitialized(b) PROVE SessionsInv'
    BY <2>1, StageKeepsSessionsInv DEF SessionInitialized, SessionsInv, Alive, BackendStages
  <2>2. ASSUME NEW b \in Backends, InitializeFails(b) PROVE SessionsInv'
    BY <2>2, StageKeepsSessionsInv DEF InitializeFails, SessionsInv, Alive, BackendStages
  <2>3. ASSUME NEW b \in Backends, Teardown(b) PROVE SessionsInv'
    BY <2>3, TeardownKeepsSessionsInv
  <2>4. QED
    BY <1>2, <2>1, <2>2, <2>3 DEF SessionStep
<1>3. CASE FsStep
  BY <1>0, <1>3 DEF FsStep
<1>4. ASSUME NEW i \in Polls, Resolve(i) PROVE SessionsInv'
  BY <1>0, <1>4, TeardownAllKeepsSessionsInv DEF Resolve
<1>5. ASSUME NEW b \in Backends, LiveRequest(b) PROVE SessionsInv'
  BY <1>5, MakeSessionKeepsSessionsInv DEF LiveRequest
<1>6. CASE FsRequest
  BY <1>0, <1>6 DEF FsRequest
<1>7. CASE UNCHANGED frontVars
  BY <1>0, <1>7 DEF frontVars
<1>8. QED
  BY <1>1, <1>2, <1>3, <1>4, <1>5, <1>6, <1>7 DEF FailoverNext

THEOREM SessionsInvariance == FailoverSpec => []SessionsInv
<1>1. QED
  BY SessionsInvInit, SessionsInvNext, PTL DEF FailoverSpec

(***************************************************************************)
(* No place in the session count is ever lost: an initialize is refused    *)
(* only when that many backends really live.                               *)
(***************************************************************************)
THEOREM CountNeverOver == FailoverSpec => []NeverOvercounts
<1>1. SessionsInv => NeverOvercounts
  BY DEF SessionsInv, NeverOvercounts
<1>2. QED
  BY <1>1, SessionsInvariance, PTL

(***************************************************************************)
(* The processes that live at once exceed the cap by no more than the      *)
(* backends a teardownAll spared.                                          *)
(***************************************************************************)
THEOREM CapHoldsUpToSpared == FailoverSpec => []CapUpToSpared
<1>1. SessionsInv => CapUpToSpared
  BY SetsFinite, SessionsAssumption DEF SessionsInv, CapUpToSpared
<1>2. QED
  BY <1>1, SessionsInvariance, PTL

-----------------------------------------------------------------------------
\* The presence monitor's variables keep their types.
PresenceInv ==
  /\ plugin \in {"up", "refusing", "gone"} /\ moves \in 0..MaxMoves
  /\ cached \in BOOLEAN /\ failures \in 0..2
  /\ poll \in [Polls -> {"idle", "connected", "failed"}]
  /\ timeouts \in 0..MaxTimeouts

LEMMA PresenceInvNext == PresenceInv /\ [FailoverNext]_frontVars => PresenceInv'
<1> SUFFICES ASSUME PresenceInv, [FailoverNext]_frontVars PROVE PresenceInv'
  OBVIOUS
<1> USE PresenceAssumption DEF PresenceInv
<1>0. ASSUME UNCHANGED pvars PROVE PresenceInv'
  BY <1>0 DEF pvars
<1>1. CASE PresenceStep
  <2>1. ASSUME NEW s \in {"up", "refusing", "gone"}, PluginMoves(s) PROVE PresenceInv'
    BY <2>1 DEF PluginMoves
  <2>2. ASSUME NEW i \in Polls, ProbeConnects(i) PROVE PresenceInv'
    BY <2>2 DEF ProbeConnects
  <2>3. ASSUME NEW i \in Polls, ProbeFails(i) PROVE PresenceInv'
    BY <2>3 DEF ProbeFails
  <2>4. QED
    BY <1>1, <2>1, <2>2, <2>3 DEF PresenceStep
<1>2. ASSUME NEW i \in Polls, Resolve(i) PROVE PresenceInv'
  <2>1. CASE PollLive(i)
    BY <2>1 DEF PollLive
  <2>2. CASE PollGone(i)
    <3>1. failures' \in 0..2 /\ poll' \in [Polls -> {"idle", "connected", "failed"}]
      BY <2>2 DEF PollGone
    <3>2. cached' \in BOOLEAN /\ UNCHANGED <<plugin, moves, timeouts>>
      BY <2>2, Zenon DEF PollGone
    <3>3. QED
      BY <3>1, <3>2, Zenon
  <2>3. CASE PollRefused(i)
    <3>1. cached' \in BOOLEAN
      BY <2>3, Zenon DEF PollRefused
    <3>2. failures' \in 0..2 /\ poll' \in [Polls -> {"idle", "connected", "failed"}]
      BY <2>3 DEF PollRefused
    <3>3. QED
      BY <2>3, <3>1, <3>2 DEF PollRefused
  <2>4. QED
    BY <1>2, <2>1, <2>2, <2>3 DEF Resolve, PollResolves
<1>3. CASE SessionStep \/ FsStep \/ FsRequest \/ UNCHANGED frontVars
  BY <1>0, <1>3 DEF SessionStep, FsStep, FsRequest, frontVars
<1>4. ASSUME NEW b \in Backends, LiveRequest(b) PROVE PresenceInv'
  BY <1>0, <1>4 DEF LiveRequest
<1>5. QED
  BY <1>1, <1>2, <1>3, <1>4 DEF FailoverNext

LEMMA PresenceInvariance == FailoverSpec => []PresenceInv
<1>1. FailoverInit => PresenceInv
  <2> SUFFICES ASSUME PresenceInit PROVE PresenceInv
    BY DEF FailoverInit
  <2>1. plugin \in {"up", "refusing", "gone"} /\ cached \in BOOLEAN
    BY Zenon DEF PresenceInit
  <2>2. moves \in 0..MaxMoves /\ failures \in 0..2 /\ timeouts \in 0..MaxTimeouts
    BY PresenceAssumption DEF PresenceInit
  <2>3. poll \in [Polls -> {"idle", "connected", "failed"}]
    BY DEF PresenceInit
  <2>4. QED
    BY <2>1, <2>2, <2>3, Zenon DEF PresenceInv
<1>2. QED
  BY <1>1, PresenceInvNext, PTL DEF FailoverSpec

\* The front keeps its count and its cap, but for spared backends, and its watchers.
THEOREM FrontIsSafe == FailoverSpec => []FrontSafe
<1>1. PresenceInv /\ WatcherInv /\ SessionsInv => FailoverTypeOK
  BY SessionsAssumption DEF PresenceInv, WatcherInv, WatcherTypeOK, SessionsInv, FailoverTypeOK
<1>2. FailoverTypeOK /\ NeverOvercounts /\ CapUpToSpared /\ WatcherQuiet /\ FsModeWatched
        => FrontSafe
  BY DEF FrontSafe
<1>3. QED
  BY <1>1, <1>2, PresenceInvariance, WatcherInvariance, SessionsInvariance, CountNeverOver,
     CapHoldsUpToSpared, WatcherOffInLiveMode, FsModeIsWatched, PTL

=============================================================================
