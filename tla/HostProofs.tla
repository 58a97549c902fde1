----------------------------- MODULE HostProofs -----------------------------
(***************************************************************************)
(* Theorems about what the host keeps beside the write kernel.  The        *)
(* advisory locks: types, one claim of a holder and scope, both caps, and  *)
(* what the table of claims promises.  The journal: no line is lost but in *)
(* one race, and each instance's lines stand in order.  The registrations  *)
(* of other plugins, the adoption of an older install and the dispatch of  *)
(* a call: their safety.                                                   *)
(***************************************************************************)
EXTENDS LockStore, Journal, Publication, Adoption, Dispatch, FiniteSetTheorems,
        WellFoundedInduction, TLAPS

-----------------------------------------------------------------------------
\* The advisory locks.

\* A claim as the store holds it.
LockRecords == [id : 1..lockSeq, scope : Scopes, holder : Holders, expiresAt : 1..now + TtlMax]

\* LocksSafe, the finiteness its cardinalities rest on, and the bound of the clock.
LocksInv == LocksSafe /\ IsFiniteSet(locks) /\ now <= MaxNow

\* A lifetime is clamped into its range.
LEMMA ClampedInRange ==
  ASSUME NEW ttl \in Ttls
  PROVE  Clamped(ttl) \in TtlMin..TtlMax
BY LockAssumption DEF Clamped

\* What is left of the claims keeps within the caps: a subset of a set of claims that did.
LEMMA FewerClaims ==
  ASSUME LocksInv, NEW S \in SUBSET locks, now' \in Nat, now' >= now, locks' = S
  PROVE  Live' \subseteq Live /\ CapsKept' /\ IsFiniteSet(locks')
<1>1. Live' \subseteq Live
  BY DEF Live, LocksInv, LocksSafe, LockTypeOK
<1>2. IsFiniteSet(Live) /\ IsFiniteSet(locks')
  BY FS_Subset DEF Live, LocksInv
<1>3. Cardinality(Live') <= LockMax
  <2>1. Cardinality(Live') <= Cardinality(Live) /\ Cardinality(Live') \in Nat /\ Cardinality(Live) \in Nat
    BY <1>1, <1>2, FS_Subset, FS_CardinalityType
  <2>2. QED BY <2>1, LockAssumption DEF LocksInv, LocksSafe, CapsKept
<1>4. ASSUME NEW h \in Holders PROVE Cardinality(Of(h)') <= LockMaxPerHolder
  <2>1. Of(h)' \subseteq Of(h)
    BY <1>1 DEF Of
  <2>2. IsFiniteSet(Of(h))
    BY <1>2, FS_Subset DEF Of
  <2>3. Cardinality(Of(h)') <= Cardinality(Of(h)) /\ Cardinality(Of(h)') \in Nat
        /\ Cardinality(Of(h)) \in Nat
    BY <2>1, <2>2, FS_Subset, FS_CardinalityType
  <2>4. QED BY <2>3, LockAssumption DEF LocksInv, LocksSafe, CapsKept
<1>5. QED BY <1>1, <1>2, <1>3, <1>4 DEF CapsKept

LEMMA OneMore ==
  ASSUME NEW S, IsFiniteSet(S), NEW x
  PROVE  Cardinality(S \cup {x}) <= Cardinality(S) + 1 /\ Cardinality(S \cup {x}) \in Nat
<1>1. Cardinality(S) \in Nat
  BY FS_CardinalityType
<1>2. CASE x \in S
  <2>1. S \cup {x} = S
    BY <1>2
  <2>2. QED BY <1>1, <2>1
<1>3. CASE x \notin S
  <2>1. Cardinality(S \cup {x}) = Cardinality(S) + 1
    BY <1>3, FS_AddElement
  <2>2. QED BY <1>1, <2>1
<1>4. QED BY <1>2, <1>3

\* One element for another: the set has no more elements than before.
LEMMA OneForOne ==
  ASSUME NEW S, IsFiniteSet(S), NEW x \in S, NEW y
  PROVE  Cardinality((S \ {x}) \cup {y}) <= Cardinality(S) /\ Cardinality((S \ {x}) \cup {y}) \in Nat
<1>1. IsFiniteSet(S \ {x}) /\ Cardinality(S \ {x}) = Cardinality(S) - 1
  BY FS_RemoveElement
<1>2. Cardinality(S) \in Nat /\ Cardinality(S \ {x}) \in Nat
  BY <1>1, FS_CardinalityType
<1>3. CASE y \in S \ {x}
  <2>1. (S \ {x}) \cup {y} = S \ {x}
    BY <1>3
  <2>2. QED BY <1>1, <1>2, <2>1
<1>4. CASE y \notin S \ {x}
  <2>1. Cardinality((S \ {x}) \cup {y}) = Cardinality(S \ {x}) + 1
    BY <1>1, <1>4, FS_AddElement
  <2>2. QED BY <1>1, <1>2, <2>1
<1>5. QED BY <1>3, <1>4

\* A claim h makes, refreshes or renews: in place of one it held, or under both caps.
Replaces(gone, h) ==
  \/ gone = {} /\ Cardinality(Live) < LockMax /\ Cardinality(Of(h)) < LockMaxPerHolder
  \/ \E held \in Of(h) : gone = {held}

LEMMA ClaimPlaced ==
  ASSUME LocksInv, NEW gone, NEW l \in LockRecords', Replaces(gone, l.holder),
         l.expiresAt > now, now' = now, lockSeq' \in Nat, lockSeq' >= lockSeq, allowlist' = allowlist,
         \A m \in Live \ gone : m.id # l.id /\ (m.holder # l.holder \/ m.scope # l.scope),
         locks' = (Live \ gone) \cup {l}
  PROVE  LocksInv'
<1> DEFINE h == l.holder
<1>1. LockTypeOK'
  <2>1. Live \subseteq LockRecords'
    BY DEF LocksInv, LocksSafe, LockTypeOK, Live, LockRecords
  <2>2. QED BY <2>1 DEF LocksInv, LocksSafe, LockTypeOK, LockRecords
<1>2. OneClaim'
  BY DEF LocksInv, LocksSafe, OneClaim, Live
<1>3. IsFiniteSet(Live) /\ IsFiniteSet(locks') /\ IsFiniteSet(Of(h))
  <2>1. IsFiniteSet(Live) BY FS_Subset DEF Live, LocksInv
  <2>2. IsFiniteSet(Live \ gone) BY <2>1, FS_Difference
  <2>3. QED BY <2>1, <2>2, FS_AddElement, FS_Subset DEF Of
<1>4. Live' = (Live \ gone) \cup {l}
  BY DEF Live, LockRecords
<1>5. Cardinality(Live) \in Nat /\ Cardinality(Of(h)) \in Nat
  BY <1>3, FS_CardinalityType
<1>6. h \in Holders
  BY DEF LockRecords
<1>7. Cardinality(Live') <= LockMax
  <2>1. CASE gone = {}
    BY <1>3, <1>4, <1>5, <2>1, FS_AddElement, LockAssumption DEF Replaces, Of
  <2>2. ASSUME NEW held \in Of(h), gone = {held} PROVE Cardinality(Live') <= LockMax
    <3>1. held \in Live
      BY DEF Of
    <3>2. Cardinality((Live \ {held}) \cup {l}) <= Cardinality(Live)
          /\ Cardinality((Live \ {held}) \cup {l}) \in Nat
      BY <1>3, <3>1, OneForOne
    <3>3. QED BY <1>4, <1>5, <2>2, <3>2, LockAssumption DEF LocksInv, LocksSafe, CapsKept
  <2>3. QED BY <2>1, <2>2 DEF Replaces
<1>8. ASSUME NEW k \in Holders PROVE Cardinality(Of(k)') <= LockMaxPerHolder
  <2>1. CASE k # h
    <3>1. Of(k)' = Of(k)
      BY <1>4, <2>1 DEF Of, Replaces
    <3>2. QED BY <3>1 DEF LocksInv, LocksSafe, CapsKept
  <2>2. CASE k = h /\ gone = {}
    <3>1. Of(k)' = Of(h) \cup {l}
      BY <1>4, <2>2 DEF Of
    <3>2. Cardinality(Of(h)) < LockMaxPerHolder
      BY <2>2 DEF Replaces
    <3>3. Cardinality(Of(h) \cup {l}) <= Cardinality(Of(h)) + 1 /\ Cardinality(Of(h) \cup {l}) \in Nat
      BY <1>3, OneMore
    <3>4. QED BY <1>5, <2>2, <3>1, <3>2, <3>3, LockAssumption
  <2>3. ASSUME NEW held \in Of(h), gone = {held}, k = h PROVE Cardinality(Of(k)') <= LockMaxPerHolder
    <3>1. Cardinality((Of(h) \ {held}) \cup {l}) <= Cardinality(Of(h))
          /\ Cardinality((Of(h) \ {held}) \cup {l}) \in Nat
      BY <1>3, OneForOne
    <3>2. Of(k)' = (Of(h) \ {held}) \cup {l}
      BY <1>4, <2>3 DEF Of
    <3>3. Cardinality(Of(h)) <= LockMaxPerHolder
      BY <1>6 DEF LocksInv, LocksSafe, CapsKept
    <3>4. QED BY <1>5, <3>1, <3>2, <3>3, LockAssumption
  <2>4. QED BY <2>1, <2>2, <2>3 DEF Replaces
<1>9. QED BY <1>1, <1>2, <1>3, <1>7, <1>8 DEF LocksInv, LocksSafe, CapsKept

-----------------------------------------------------------------------------
\* The steps, each by what it does to the claims.
LEMMA LocksInvKept == ASSUME LocksInv, [LockNext]_lvars PROVE LocksInv'
<1> USE DEF LocksInv
<1>1. ASSUME NEW S \in SUBSET locks, locks' = S, now' \in Nat, now' >= now, now' <= MaxNow,
             lockSeq' = lockSeq, allowlist' \in Allowlists \cup {{}}
      PROVE  LocksInv'
  <2>1. LockTypeOK'
    BY <1>1, LockAssumption DEF LocksSafe, LockTypeOK
  <2>2. OneClaim'
    BY <1>1 DEF LocksSafe, OneClaim
  <2>3. QED BY <1>1, <2>1, <2>2, FewerClaims DEF LocksSafe
<1>2. Live \subseteq locks /\ now \in Nat /\ lockSeq \in Nat /\ allowlist \in Allowlists \cup {{}}
      /\ \A l \in Live : l \in LockRecords /\ l.expiresAt > now
  BY DEF Live, LocksSafe, LockTypeOK, LockRecords
<1>3. ASSUME NEW h \in Holders, NEW raw \in RawScopes, ClaimRefused(h, raw) PROVE LocksInv'
  BY <1>1, <1>2, <1>3 DEF ClaimRefused
<1>4. ASSUME NEW h \in Holders, NEW raw \in RawScopes, NEW ttl \in Ttls, Claim(h, raw, ttl)
      PROVE  LocksInv'
  <2> DEFINE l == [id |-> lockSeq + 1, scope |-> normalizeScope(raw), holder |-> h,
                   expiresAt |-> now + Clamped(ttl)]
  <2>1. l \in LockRecords' /\ l.expiresAt > now
    BY <1>2, <1>4, ClampedInRange, LockAssumption DEF Claim, LockRecords, Scopes
  <2>2. Replaces({}, l.holder)
    BY <1>4 DEF Claim, Replaces
  <2>3. \A m \in Live : m.id # l.id /\ (m.holder # l.holder \/ m.scope # l.scope)
    BY <1>2, <1>4 DEF Claim, Of, LockRecords
  <2>4. locks' = (Live \ {}) \cup {l} /\ lockSeq' = lockSeq + 1 /\ now' = now /\ allowlist' = allowlist
    BY <1>4 DEF Claim
  <2> HIDE DEF l
  <2>5. lockSeq' \in Nat /\ lockSeq' >= lockSeq
        /\ \A m \in Live \ {} : m.id # l.id /\ (m.holder # l.holder \/ m.scope # l.scope)
    BY <1>2, <2>3, <2>4
  <2>6. QED BY <2>1, <2>2, <2>4, <2>5, ClaimPlaced
\* A claim of h's, with a new time.
<1>5. ASSUME NEW h \in Holders, NEW held \in Of(h), NEW ttl \in Ttls,
             locks' = (Live \ {held}) \cup {[held EXCEPT !.expiresAt = now + Clamped(ttl)]},
             UNCHANGED <<now, lockSeq, allowlist, notices>>
      PROVE  LocksInv'
  <2> DEFINE l == [held EXCEPT !.expiresAt = now + Clamped(ttl)]
  <2>0. held \in Live /\ held.holder = h
    BY DEF Of
  <2>1. l \in LockRecords' /\ l.expiresAt > now /\ l.id = held.id /\ l.holder = held.holder
        /\ l.scope = held.scope
    BY <1>2, <1>5, <2>0, ClampedInRange, LockAssumption DEF LockRecords
  <2>2. Replaces({held}, l.holder)
    BY <2>0, <2>1 DEF Replaces
  <2>3. \A m \in Live \ {held} : m.id # l.id /\ (m.holder # l.holder \/ m.scope # l.scope)
    BY <1>2, <2>0, <2>1 DEF OneClaim, LocksSafe
  <2> HIDE DEF l
  <2>4. locks' = (Live \ {held}) \cup {l}
    BY <1>5 DEF l
  <2>5. now' = now /\ lockSeq' \in Nat /\ lockSeq' >= lockSeq /\ allowlist' = allowlist
    BY <1>2, <1>5
  <2>6. QED BY <2>1, <2>2, <2>3, <2>4, <2>5, ClaimPlaced, SMTT(60)
<1>6. ASSUME NEW h \in Holders, NEW raw \in RawScopes, NEW ttl \in Ttls, Refresh(h, raw, ttl)
      PROVE  LocksInv'
  BY <1>5, <1>6 DEF Refresh
<1>7. ASSUME NEW h \in Holders, NEW id \in 1..MaxIds, NEW ttl \in Ttls, Renew(h, id, ttl)
      PROVE  LocksInv'
  BY <1>5, <1>7 DEF Renew
<1>8. ASSUME NEW h \in Holders, NEW id \in 1..MaxIds, release(h, id) \/ Miss(h, id) PROVE LocksInv'
  BY <1>1, <1>2, <1>8 DEF release, Miss
<1>9. ASSUME NEW h \in Holders, NEW ps \in SUBSET Paths, WriteTold(h, ps) PROVE LocksInv'
  BY <1>1, <1>2, <1>9 DEF WriteTold
<1>10. CASE List \/ StoreReloads
  BY <1>1, <1>2, <1>10 DEF List, StoreReloads
<1>11. CASE Tick \/ SettingsChange \/ UNCHANGED lvars
  BY <1>1, <1>2, <1>11, LockAssumption DEF Tick, SettingsChange, lvars
<1>12. QED BY <1>3, <1>4, <1>6, <1>7, <1>8, <1>9, <1>10, <1>11 DEF LockNext

LEMMA LocksInvHolds == LockInit => LocksInv
<1>1. SUFFICES ASSUME LockInit PROVE LocksInv
  OBVIOUS
<1>2. Live = {} /\ \A h \in Holders : Of(h) = {}
  BY <1>1 DEF LockInit, Live, Of
<1>3. QED
  BY <1>1, <1>2, LockAssumption, FS_EmptySet
     DEF LockInit, LocksInv, LocksSafe, LockTypeOK, OneClaim, CapsKept

(***************************************************************************)
(* The store keeps one claim of a holder and scope, and both caps.         *)
(***************************************************************************)
THEOREM LocksAreSafe == LockSpec => []LocksSafe
<1>1. LocksInv => LocksSafe
  BY DEF LocksInv
<1>2. QED BY <1>1, LocksInvHolds, LocksInvKept, PTL DEF LockSpec

-----------------------------------------------------------------------------
\* What a step of the store is to the table of claims.  The claims that stand after it:
LEMMA StandingAfter ==
  ASSUME LocksInv, NEW h \in Holders, NEW held \in Of(h), NEW until,
         Live' = (Live \ {held}) \cup {[held EXCEPT !.expiresAt = until]}
  PROVE  Standing(Live') = Table!Without(h, held.scope)
                           \cup {[holder |-> h, scope |-> held.scope, until |-> until]}
<1>1. \A l \in Live : l \in LockRecords
  BY DEF LocksInv, LocksSafe, LockTypeOK, LockRecords, Live
<1>2. held \in Live /\ held.holder = h /\ held \in LockRecords
  BY <1>1 DEF Of
<1>3. \A l \in Live : l # held <=> ~(l.holder = h /\ l.scope = held.scope)
  BY <1>2 DEF LocksInv, LocksSafe, OneClaim, Live
<1>4. Standing(Live \ {held}) = Table!Without(h, held.scope)
  BY <1>3 DEF Standing, Table!Without
<1> DEFINE l == [held EXCEPT !.expiresAt = until]
<1>5. l.holder = h /\ l.scope = held.scope /\ l.expiresAt = until
  BY <1>2 DEF LockRecords
<1> HIDE DEF l
<1>6. Live' = (Live \ {held}) \cup {l}
  BY DEF l
<1>7. QED BY <1>4, <1>5, <1>6 DEF Standing

LEMMA LockStepIsTableStep ==
  ASSUME LocksInv, LocksInv', [LockNext]_lvars
  PROVE  [Table!TableNext]_(Table!tvars)
<1> DEFINE Untils == 1..MaxNow + TtlMax
<1>1. ASSUME Live' = Live, now' = now, notices' = notices PROVE UNCHANGED Table!tvars
  BY <1>1 DEF Table!tvars
<1>2. /\ now \in Nat /\ now <= MaxNow /\ \A l \in Live : l \in LockRecords /\ l.expiresAt > now
      /\ Live \subseteq locks
  BY DEF LocksInv, LocksSafe, LockTypeOK, LockRecords, Live
<1>3. ASSUME locks' = Live, now' = now PROVE Live' = Live
  BY <1>3 DEF Live
\* A claim with a new time.
<1>4. ASSUME NEW h \in Holders, NEW held \in Of(h), NEW ttl \in Ttls,
             locks' = (Live \ {held}) \cup {[held EXCEPT !.expiresAt = now + Clamped(ttl)]},
             UNCHANGED <<now, lockSeq, allowlist, notices>>
      PROVE  Table!TableNext
  <2> DEFINE until == now + Clamped(ttl)
  <2>1. until \in Untils /\ until > now
    BY <1>2, ClampedInRange, LockAssumption
  <2>2. held \in LockRecords /\ held.scope \in Scopes
    BY <1>2 DEF Of, LockRecords
  <2>3. Live' = (Live \ {held}) \cup {[held EXCEPT !.expiresAt = until]}
    BY <1>2, <1>4, <2>1, <2>2 DEF Live, LockRecords
  <2> HIDE DEF until
  <2>4. Table!Stand(h, held.scope, until)
    BY <1>4, <2>1, <2>3, StandingAfter DEF Table!Stand
  <2>5. QED BY <2>1, <2>2, <2>4 DEF Table!TableNext
<1>5. ASSUME NEW h \in Holders, NEW raw \in RawScopes, NEW ttl \in Ttls, Claim(h, raw, ttl)
      PROVE  Table!TableNext
  <2> DEFINE until == now + Clamped(ttl)
             s == normalizeScope(raw)
             l == [id |-> lockSeq + 1, scope |-> s, holder |-> h, expiresAt |-> until]
  <2>1. until \in Untils /\ until > now
    BY <1>2, ClampedInRange, LockAssumption
  <2>2. s \in Scopes /\ ~\E held \in Of(h) : held.scope = s
    BY <1>5 DEF Claim, Scopes
  <2>3. Live' = Live \cup {l}
    BY <1>2, <1>5, <2>1 DEF Claim, Live
  <2>4. Table!Without(h, s) = Standing(Live)
    BY <2>2 DEF Table!Without, Standing, Of
  <2>5. Standing(Live') = Standing(Live) \cup {[holder |-> h, scope |-> s, until |-> until]}
    <3>1. l.holder = h /\ l.scope = s /\ l.expiresAt = until
      OBVIOUS
    <3> HIDE DEF l, s, until
    <3>2. QED BY <2>3, <3>1 DEF Standing
  <2>6. UNCHANGED <<now, notices>>
    BY <1>5 DEF Claim
  <2> HIDE DEF until, s
  <2>7. Table!Stand(h, s, until)
    BY <2>1, <2>4, <2>5, <2>6 DEF Table!Stand
  <2>8. QED BY <2>1, <2>2, <2>7 DEF Table!TableNext
<1>6. ASSUME NEW h \in Holders, NEW id \in 1..MaxIds, release(h, id) PROVE Table!TableNext
  <2>1. PICK held \in Of(h) : locks' = Live \ {held}
    BY <1>6 DEF release
  <2>2. Live' = Live \ {held}
    BY <1>2, <1>6, <2>1 DEF Live, release
  <2>3. held \in Live /\ held.holder = h /\ held.scope \in Scopes
    BY <1>2 DEF Of, LockRecords
  <2>4. \A l \in Live : l # held <=> ~(l.holder = h /\ l.scope = held.scope)
    BY <1>2, <2>3 DEF LocksInv, LocksSafe, OneClaim
  <2>5. Standing(Live') = Table!Without(h, held.scope)
    BY <2>2, <2>4 DEF Standing, Table!Without
  <2>6. QED BY <1>6, <2>3, <2>5 DEF Table!TableNext, Table!Withdraw, release
<1>7. ASSUME NEW h \in Holders, NEW ps \in SUBSET Paths, WriteTold(h, ps) PROVE Table!TableNext
  <2>1. Live' = Live
    BY <1>3, <1>7 DEF WriteTold
  <2>2. Standing(notices') = {c \in Standing(Live) : c.holder # h /\ \E p \in ps : scopeCovers(c.scope, p)}
    BY <1>7 DEF WriteTold, Standing
  <2>3. Table!Told(h, ps)
    BY <1>7, <2>1, <2>2 DEF Table!Told, WriteTold
  <2>4. QED BY <2>3 DEF Table!TableNext
<1>8. CASE Tick
  <2>1. Live' = {l \in Live : l.expiresAt > now + 1}
    BY <1>2, <1>8 DEF Tick, Live, LocksInv, LocksSafe, LockTypeOK
  <2>2. Standing(Live') = {c \in Standing(Live) : c.until > now + 1}
    BY <2>1 DEF Standing
  <2>3. QED BY <1>8, <2>2 DEF Tick, Table!Pass, Table!TableNext
<1>9. CASE StoreReloads
  <2>1. Live' = {}
    BY <1>9 DEF StoreReloads, Live
  <2>2. QED BY <1>9, <2>1 DEF StoreReloads, Table!Forget, Table!TableNext, Standing
<1>10. ASSUME NEW h \in Holders, NEW raw \in RawScopes, ClaimRefused(h, raw) PROVE UNCHANGED Table!tvars
  BY <1>1, <1>3, <1>10 DEF ClaimRefused, Live
<1>11. CASE List \/ SettingsChange \/ UNCHANGED lvars \/ \E h \in Holders, id \in 1..MaxIds : Miss(h, id)
  BY <1>1, <1>3, <1>11 DEF List, SettingsChange, lvars, Miss, Live
<1>12. ASSUME NEW h \in Holders, NEW raw \in RawScopes, NEW ttl \in Ttls, Refresh(h, raw, ttl)
       PROVE  Table!TableNext
  BY <1>4, <1>12 DEF Refresh
<1>13. ASSUME NEW h \in Holders, NEW id \in 1..MaxIds, NEW ttl \in Ttls, Renew(h, id, ttl)
       PROVE  Table!TableNext
  BY <1>4, <1>13 DEF Renew
<1>14. QED
  BY <1>5, <1>6, <1>7, <1>8, <1>9, <1>10, <1>11, <1>12, <1>13 DEF LockNext

(***************************************************************************)
(* Refinement: whoever looks at the store, whose expired claims go when    *)
(* somebody looks, sees the table of claims that go on time.               *)
(***************************************************************************)
THEOREM LocksImplementTable == LockSpec => KeepsClaims
<1>1. LockInit => Table!TableInit
  BY DEF LockInit, Table!TableInit, Standing, Live
<1>2. QED
  BY <1>1, LocksInvHolds, LocksInvKept, LockStepIsTableStep, PTL DEF LockSpec, KeepsClaims, Table!TableSpec

-----------------------------------------------------------------------------
\* The journal.

\* The files, with the types of what they hold: a file that is not there has no lines, and
\* the lines of a file are tried lines of its own month.
FilesOK ==
  /\ file \in [1..Months -> [exists : BOOLEAN, lines : Seq(Line)]]
  /\ tried \subseteq Line
  /\ \A m \in 1..Months :
       /\ ~file[m].exists => file[m].lines = <<>>
       /\ \A i \in DOMAIN file[m].lines : file[m].lines[i] \in tried /\ file[m].lines[i].month = m

\* The chains: lines of their own instance, in the order they were appended, none written yet.
ChainsOK ==
  /\ chain \in [Journals -> Seq(Line)]
  /\ \A j \in Journals : \A i \in DOMAIN chain[j] :
       /\ chain[j][i].by = j /\ chain[j][i].no <= appended[j]
       /\ \A k \in DOMAIN chain[j] : i < k => chain[j][i].no < chain[j][k].no

\* What an instance wrote comes before what its chain holds.
WrittenBefore ==
  \A j \in Journals, m \in 1..Months : \A i \in DOMAIN file[m].lines :
    file[m].lines[i].by = j =>
      /\ file[m].lines[i].no <= appended[j]
      /\ \A k \in DOMAIN chain[j] : file[m].lines[i].no < chain[j][k].no

\* What an instance found when it looked for the file still holds, as far as it is its own.
LookedOK ==
  \A j \in Journals :
    /\ at[j] # "idle" => chain[j] # <<>>
    /\ at[j] = "append" => file[Head(chain[j]).month].exists
    /\ at[j] = "write" => \A i \in DOMAIN file[Head(chain[j]).month].lines :
                            file[Head(chain[j]).month].lines[i].by # j

JournalScalarsOK ==
  /\ dirMade \in BOOLEAN /\ month \in 1..Months /\ loaded \in Seq(Journals)
  /\ at \in [Journals -> {"idle", "mkdir", "file", "append", "write"}]
  /\ appended \in [Journals -> 0..MaxAppends]

JournalInv ==
  JournalScalarsOK /\ FilesOK /\ ChainsOK /\ WrittenBefore /\ LookedOK /\ OrderPerInstance

LEMMA JournalInvInit == JournalInit => JournalInv
<1>1. SUFFICES ASSUME JournalInit PROVE JournalInv
  OBVIOUS
<1>2. \A m \in 1..Months : file[m] = [exists |-> FALSE, lines |-> <<>>]
  BY <1>1 DEF JournalInit, NoFile
<1>3. JournalScalarsOK
  <2>1. loaded \in Seq(Journals)
    <3>1. PICK j \in Journals : loaded = <<j>>
      BY <1>1 DEF JournalInit
    <3>2. QED BY <3>1
  <2>2. 1 \in 1..Months /\ 0 \in 0..MaxAppends
    BY JournalAssumption
  <2>3. QED BY <1>1, <2>1, <2>2 DEF JournalInit, JournalScalarsOK
<1>4. FilesOK
  BY <1>1, <1>2 DEF JournalInit, FilesOK, NoFile
<1>5. ChainsOK
  BY <1>1 DEF JournalInit, ChainsOK
<1>6. WrittenBefore /\ OrderPerInstance
  BY <1>2 DEF WrittenBefore, OrderPerInstance
<1>7. LookedOK
  BY <1>1 DEF JournalInit, LookedOK
<1>8. QED BY <1>3, <1>4, <1>5, <1>6, <1>7 DEF JournalInv

\* The line at the head of j's chain is done with, and its file holds ls.
HeadDone(j, ls) ==
  LET l == Head(chain[j])
      m == Head(chain[j]).month
  IN  /\ chain[j] # <<>> /\ Settles(j)
      /\ file' \in [1..Months -> [exists : BOOLEAN, lines : Seq(Line)]]
      /\ \A n \in 1..Months : n # m => file'[n] = file[n]
      /\ file[m].exists => file'[m].exists
      /\ ls = <<>> \/ file'[m].exists
      /\ file'[m].lines = ls
      /\ ls \in {file[m].lines, Append(file[m].lines, l), <<l>>}

LEMMA HeadDoneKeeps ==
  ASSUME NEW j \in Journals, NEW ls
  PROVE  JournalInv /\ HeadDone(j, ls) => JournalInv'
<1>0. SUFFICES ASSUME JournalInv, HeadDone(j, ls) PROVE JournalInv'
  OBVIOUS
<1> DEFINE l == Head(chain[j])
           m == Head(chain[j]).month
           rest == Tail(chain[j])
<1>1. chain \in [Journals -> Seq(Line)] /\ chain[j] \in Seq(Line) /\ chain[j] # <<>>
  BY <1>0 DEF ChainsOK, HeadDone, JournalInv
<1>2. l \in Line /\ l = chain[j][1] /\ 1 \in DOMAIN chain[j] /\ rest \in Seq(Line)
  <2>1. PICK s : s = chain[j]
    OBVIOUS
  <2>2. s \in Seq(Line) /\ s # <<>>
    BY <1>1, <2>1
  <2>3. Head(s) \in Line /\ Head(s) = s[1] /\ 1 \in DOMAIN s /\ Tail(s) \in Seq(Line)
    BY <2>2
  <2>4. QED BY <2>1, <2>3
<1>3. \A i \in DOMAIN rest : rest[i] = chain[j][i + 1] /\ i + 1 \in DOMAIN chain[j] /\ 1 < i + 1
  <2>1. PICK s : s = chain[j]
    OBVIOUS
  <2>2. s \in Seq(Line) /\ s # <<>>
    BY <1>1, <2>1
  <2>3. \A i \in DOMAIN Tail(s) : Tail(s)[i] = s[i + 1] /\ i + 1 \in DOMAIN s /\ 1 < i + 1
    BY <2>2
  <2>4. QED BY <2>1, <2>3
<1>4. l.by = j /\ l.no <= appended[j] /\ \A i \in DOMAIN rest : l.no < rest[i].no
  BY <1>0, <1>2, <1>3 DEF ChainsOK, JournalInv
<1>5. m \in 1..Months /\ l.month = m
  BY <1>2 DEF Line
<1>6. /\ chain' = [chain EXCEPT ![j] = rest] /\ at' = [at EXCEPT ![j] = "idle"]
      /\ tried' = tried \cup {l} /\ UNCHANGED <<dirMade, month, loaded, appended>>
  BY <1>0 DEF Settles, HeadDone
<1>7. \A n \in 1..Months : file[n].lines \in Seq(Line) /\ file'[n].lines \in Seq(Line)
  BY <1>0 DEF JournalInv, FilesOK, HeadDone
<1>8. /\ \A n \in 1..Months : n # m => file'[n] = file[n]
      /\ file'[m].lines = ls /\ ls \in {file[m].lines, Append(file[m].lines, l), <<l>>}
      /\ file[m].exists => file'[m].exists
      /\ ls = <<>> \/ file'[m].exists
  BY <1>0 DEF HeadDone
<1> HIDE DEF l, m, rest
<1>9. \A k \in Journals : \A i \in DOMAIN chain'[k] :
        \E n \in DOMAIN chain[k] : chain'[k][i] = chain[k][n] /\ (k = j => n = i + 1) /\ (k # j => n = i)
  BY <1>1, <1>3, <1>6
<1>10. \A n \in 1..Months : \A i \in DOMAIN file'[n].lines :
         \/ file'[n].lines[i] = l /\ n = m
         \/ i \in DOMAIN file[n].lines /\ file'[n].lines[i] = file[n].lines[i]
  <2>1. ASSUME NEW n \in 1..Months, NEW i \in DOMAIN file'[n].lines
        PROVE  \/ file'[n].lines[i] = l /\ n = m
               \/ i \in DOMAIN file[n].lines /\ file'[n].lines[i] = file[n].lines[i]
    <3>1. CASE n # m \/ ls = file[m].lines
      BY <1>8, <2>1, <3>1
    <3>2. CASE n = m /\ ls = <<l>>
      BY <1>8, <2>1, <3>2
    <3>3. CASE n = m /\ ls = Append(file[m].lines, l)
      <4> DEFINE old == file[m].lines
      <4>1. old \in Seq(Line) /\ file'[n].lines = Append(old, l)
        BY <1>5, <1>7, <1>8, <3>3
      <4> HIDE DEF old
      <4>2. QED BY <1>2, <2>1, <3>3, <4>1 DEF old
    <3>4. QED BY <1>8, <3>1, <3>2, <3>3
  <2>2. QED BY <2>1
<1>11. JournalScalarsOK'
  BY <1>0, <1>6 DEF JournalScalarsOK, JournalInv
<1>12. FilesOK'
  <2>1. file' \in [1..Months -> [exists : BOOLEAN, lines : Seq(Line)]]
    BY <1>0 DEF HeadDone
  <2>2. \A n \in 1..Months : ~file'[n].exists => file'[n].lines = <<>>
    BY <1>0, <1>8 DEF FilesOK, JournalInv
  <2>3. tried' \subseteq Line /\ \A n \in 1..Months : \A i \in DOMAIN file'[n].lines :
                                  file'[n].lines[i] \in tried' /\ file'[n].lines[i].month = n
    <3>1. tried' \subseteq Line
      BY <1>0, <1>2, <1>6 DEF FilesOK, JournalInv
    <3>2. ASSUME NEW n \in 1..Months, NEW i \in DOMAIN file'[n].lines
          PROVE  file'[n].lines[i] \in tried' /\ file'[n].lines[i].month = n
      <4>1. \A x \in DOMAIN file[n].lines : file[n].lines[x] \in tried /\ file[n].lines[x].month = n
        BY <1>0 DEF FilesOK, JournalInv
      <4>2. QED BY <1>5, <1>6, <1>10, <3>2, <4>1
    <3>3. QED BY <3>1, <3>2
  <2>4. QED BY <2>1, <2>2, <2>3 DEF FilesOK
<1>13. ChainsOK'
  <2>1. chain' \in [Journals -> Seq(Line)]
    BY <1>1, <1>2, <1>6
  <2>2. ASSUME NEW k \in Journals, NEW i \in DOMAIN chain'[k]
        PROVE  /\ chain'[k][i].by = k /\ chain'[k][i].no <= appended'[k]
               /\ \A n \in DOMAIN chain'[k] : i < n => chain'[k][i].no < chain'[k][n].no
    <3>1. CASE k = j
      <4>1. chain'[k] = rest /\ appended'[k] = appended[j]
        BY <1>1, <1>6, <3>1
      <4>2. /\ \A x \in DOMAIN chain[j] : chain[j][x].by = j /\ chain[j][x].no <= appended[j]
            /\ \A x, y \in DOMAIN chain[j] : x < y => chain[j][x].no < chain[j][y].no
        BY <1>0 DEF ChainsOK, JournalInv
      <4>3. \A x, y \in DOMAIN rest : x < y => x + 1 < y + 1
        BY <1>2
      <4>4. \A x, y \in DOMAIN rest : /\ rest[x].by = j /\ rest[x].no <= appended[j]
                                      /\ x < y => rest[x].no < rest[y].no
        <5>1. ASSUME NEW x \in DOMAIN rest, NEW y \in DOMAIN rest
              PROVE  /\ rest[x].by = j /\ rest[x].no <= appended[j]
                     /\ x < y => rest[x].no < rest[y].no
          <6>1. /\ rest[x] = chain[j][x + 1] /\ x + 1 \in DOMAIN chain[j]
                /\ rest[y] = chain[j][y + 1] /\ y + 1 \in DOMAIN chain[j]
            BY <1>3
          <6>2. x < y => x + 1 < y + 1
            BY <4>3
          <6>3. /\ chain[j][x + 1].by = j /\ chain[j][x + 1].no <= appended[j]
                /\ x + 1 < y + 1 => chain[j][x + 1].no < chain[j][y + 1].no
            BY <4>2, <6>1
          <6>4. QED BY ONLY <6>1, <6>2, <6>3
        <5>2. QED BY <5>1
      <4>5. QED BY <2>2, <3>1, <4>1, <4>4
    <3>2. CASE k # j
      BY <1>0, <1>1, <1>6, <2>2, <3>2 DEF ChainsOK, JournalInv
    <3>3. QED BY <3>1, <3>2
  <2>3. QED BY <2>1, <2>2 DEF ChainsOK
<1>14. WrittenBefore'
  <2>1. ASSUME NEW k \in Journals, NEW n \in 1..Months, NEW i \in DOMAIN file'[n].lines,
               file'[n].lines[i].by = k
        PROVE  /\ file'[n].lines[i].no <= appended'[k]
               /\ \A x \in DOMAIN chain'[k] : file'[n].lines[i].no < chain'[k][x].no
    <3>1. CASE file'[n].lines[i] = l
      <4>1. k = j /\ chain'[k] = rest
        BY <1>1, <1>4, <1>6, <2>1, <3>1
      <4>2. QED BY <1>4, <1>6, <3>1, <4>1
    <3>2. CASE i \in DOMAIN file[n].lines /\ file'[n].lines[i] = file[n].lines[i]
      BY <1>0, <1>6, <1>9, <2>1, <3>2 DEF WrittenBefore, JournalInv
    <3>3. QED BY <1>10, <3>1, <3>2
  <2>2. QED BY <2>1 DEF WrittenBefore
<1>15. LookedOK'
  <2>1. ASSUME NEW k \in Journals
        PROVE  /\ at'[k] # "idle" => chain'[k] # <<>>
               /\ at'[k] = "append" => file'[Head(chain'[k]).month].exists
               /\ at'[k] = "write" => \A i \in DOMAIN file'[Head(chain'[k]).month].lines :
                                        file'[Head(chain'[k]).month].lines[i].by # k
    <3>1. CASE k = j
      BY <1>0, <1>6, <3>1 DEF JournalScalarsOK, JournalInv
    <3>2. CASE k # j
      <4>1. chain'[k] = chain[k] /\ at'[k] = at[k]
        BY <1>0, <1>1, <1>6, <3>2 DEF JournalScalarsOK, JournalInv
      <4>2. chain[k] # <<>> => Head(chain[k]) \in Line
        BY <1>1
      <4>3. chain[k] # <<>> => Head(chain[k]).month \in 1..Months
        BY <4>2 DEF Line
      <4>4. /\ at[k] # "idle" => chain[k] # <<>>
            /\ at[k] = "append" => file[Head(chain[k]).month].exists
            /\ at[k] = "write" => \A i \in DOMAIN file[Head(chain[k]).month].lines :
                                    file[Head(chain[k]).month].lines[i].by # k
        BY <1>0 DEF LookedOK, JournalInv
      <4>5. at[k] = "append" => file'[Head(chain[k]).month].exists
        BY <1>8, <4>3, <4>4
      <4>6. ASSUME at[k] = "write", NEW i \in DOMAIN file'[Head(chain[k]).month].lines
            PROVE  file'[Head(chain[k]).month].lines[i].by # k
        BY <1>4, <1>10, <3>2, <4>3, <4>4, <4>6
      <4>7. QED BY <4>1, <4>4, <4>5, <4>6
    <3>3. QED BY <3>1, <3>2
  <2>2. QED BY <2>1 DEF LookedOK
<1>16. OrderPerInstance'
  <2>1. ASSUME NEW n \in 1..Months, NEW i \in DOMAIN file'[n].lines, NEW k \in DOMAIN file'[n].lines,
               i < k, file'[n].lines[i].by = file'[n].lines[k].by
        PROVE  file'[n].lines[i].no < file'[n].lines[k].no
    <3>0. \A x \in 1..Months : \A y, z \in DOMAIN file[x].lines :
            y < z /\ file[x].lines[y].by = file[x].lines[z].by => file[x].lines[y].no < file[x].lines[z].no
      BY <1>0 DEF OrderPerInstance, JournalInv
    <3>1. CASE n # m \/ ls = file[m].lines
      BY <1>8, <2>1, <3>0, <3>1
    <3>2. CASE n = m /\ ls = <<l>>
      BY <1>8, <2>1, <3>2
    <3>3. CASE n = m /\ ls = Append(file[m].lines, l)
      <4> DEFINE old == file[m].lines
      <4>1. old \in Seq(Line) /\ file'[n].lines = Append(old, l)
        BY <1>5, <1>7, <1>8, <3>3
      <4> HIDE DEF old
      <4>2. i \in DOMAIN old /\ Append(old, l)[i] = old[i]
        BY <1>2, <2>1, <4>1
      <4>3. (k \in DOMAIN old /\ Append(old, l)[k] = old[k]) \/ Append(old, l)[k] = l
        BY <1>2, <2>1, <4>1
      <4>4. old[i].by = j => old[i].no < chain[j][1].no
        BY <1>0, <1>2, <1>5, <4>2 DEF WrittenBefore, JournalInv, old
      <4>5. CASE k \in DOMAIN old /\ Append(old, l)[k] = old[k]
        <5>1. old[i].by = old[k].by => old[i].no < old[k].no
          BY <1>5, <2>1, <3>0, <4>2, <4>5 DEF old
        <5>2. QED BY <2>1, <4>1, <4>2, <4>5, <5>1
      <4>6. CASE Append(old, l)[k] = l
        BY <1>2, <1>4, <2>1, <4>1, <4>2, <4>4, <4>6
      <4>7. QED BY <4>3, <4>5, <4>6
    <3>4. QED BY <1>8, <3>1, <3>2, <3>3
  <2>2. QED BY <2>1 DEF OrderPerInstance
<1>17. QED BY <1>11, <1>12, <1>13, <1>14, <1>15, <1>16 DEF JournalInv

LEMMA JournalInvKept == JournalInv /\ [JournalNext]_jvars => JournalInv'
<1>0. SUFFICES ASSUME JournalInv, [JournalNext]_jvars PROVE JournalInv'
  OBVIOUS
<1>1. /\ chain \in [Journals -> Seq(Line)] /\ appended \in [Journals -> 0..MaxAppends]
      /\ month \in 1..Months /\ loaded \in Seq(Journals)
      /\ at \in [Journals -> {"idle", "mkdir", "file", "append", "write"}]
      /\ file \in [1..Months -> [exists : BOOLEAN, lines : Seq(Line)]]
  BY <1>0 DEF JournalInv, JournalScalarsOK, ChainsOK, FilesOK
<1>2. \A j \in Journals : chain[j] # <<>> => Head(chain[j]) \in Line
  BY <1>1
<1>3. \A j \in Journals : chain[j] # <<>> => Head(chain[j]).month \in 1..Months
  BY <1>2 DEF Line
<1>4. \A m \in 1..Months : file[m] \in [exists : BOOLEAN, lines : Seq(Line)] /\ file[m].lines \in Seq(Line)
  <2>1. ASSUME NEW m \in 1..Months PROVE file[m] \in [exists : BOOLEAN, lines : Seq(Line)]
    BY <1>1
  <2>2. QED BY <2>1
\* A line joins the chain: it has a number above all before it.
<1>5. ASSUME NEW j \in Journals, AppendRecord(j) PROVE JournalInv'
  <2> DEFINE l == [by |-> j, no |-> appended[j] + 1, month |-> month]
  <2>1. /\ appended[j] < MaxAppends /\ appended' = [appended EXCEPT ![j] = appended[j] + 1]
        /\ chain' = [chain EXCEPT ![j] = Append(chain[j], l)]
        /\ UNCHANGED <<dirMade, file, month, loaded, at, tried>>
    BY <1>1, <1>5 DEF AppendRecord
  <2>2. l \in Line /\ l.by = j /\ l.no = appended[j] + 1
    BY <1>1, <2>1, JournalAssumption DEF Line
  <2> HIDE DEF l
  <2>3. JournalScalarsOK' /\ FilesOK' /\ OrderPerInstance'
    BY <1>0, <1>1, <2>1, JournalAssumption
       DEF JournalInv, JournalScalarsOK, FilesOK, OrderPerInstance
  <2>4. \A k \in Journals : \A i \in DOMAIN chain'[k] :
          \/ i \in DOMAIN chain[k] /\ chain'[k][i] = chain[k][i]
          \/ k = j /\ i = Len(chain[j]) + 1 /\ chain'[k][i] = l
    BY <1>1, <2>1, <2>2
  <2>5. ChainsOK'
    <3>1. chain' \in [Journals -> Seq(Line)]
      BY <1>1, <2>1, <2>2
    <3>2. ASSUME NEW k \in Journals, NEW i \in DOMAIN chain'[k]
          PROVE  /\ chain'[k][i].by = k /\ chain'[k][i].no <= appended'[k]
                 /\ \A n \in DOMAIN chain'[k] : i < n => chain'[k][i].no < chain'[k][n].no
      <4>1. /\ \A x \in DOMAIN chain[k] : chain[k][x].by = k /\ chain[k][x].no <= appended[k]
            /\ \A x, y \in DOMAIN chain[k] : x < y => chain[k][x].no < chain[k][y].no
        BY <1>0 DEF ChainsOK, JournalInv
      <4>2. \A x \in DOMAIN chain[k] : chain[k][x] \in Line /\ x <= Len(chain[k])
        BY <1>1
      <4>3. \A x \in DOMAIN chain[k] : chain[k][x].no \in Nat
        BY <4>2, JournalAssumption DEF Line
      <4>4. appended[k] \in Nat /\ appended'[k] \in Nat /\ appended[k] <= appended'[k]
        BY <1>1, <2>1, JournalAssumption
      <4>5. CASE k # j
        <5>1. chain'[k] = chain[k] /\ appended'[k] = appended[k]
          BY <1>1, <2>1, <4>5
        <5>2. QED BY <3>2, <4>1, <5>1
      <4>6. CASE k = j
        <5>1. chain'[k] = Append(chain[k], l) /\ chain[k] \in Seq(Line)
          BY <1>1, <2>1, <4>6
        <5>2. \A x \in DOMAIN chain'[k] :
                \/ x \in DOMAIN chain[k] /\ chain'[k][x] = chain[k][x]
                \/ x = Len(chain[k]) + 1 /\ chain'[k][x] = l
          BY <2>2, <5>1
        <5>3. \A x \in DOMAIN chain'[k] : x = Len(chain[k]) + 1 => \A y \in DOMAIN chain'[k] : ~(x < y)
          BY <2>2, <5>1
        <5>4. appended'[k] = appended[k] + 1
          BY <1>1, <2>1, <4>6
        <5>5. \A x \in DOMAIN chain[k] : chain[k][x].no < l.no
          <6>1. ASSUME NEW x \in DOMAIN chain[k] PROVE chain[k][x].no < l.no
            <7>1. chain[k][x].no <= appended[k] /\ chain[k][x].no \in Nat /\ l.no = appended[k] + 1
              BY <2>2, <4>1, <4>3, <4>6
            <7>2. QED BY <4>4, <7>1
          <6>2. QED BY <6>1
        <5>6. CASE i \in DOMAIN chain[k] /\ chain'[k][i] = chain[k][i]
          <6>0. chain[k][i].by = k /\ chain[k][i].no <= appended[k] /\ chain[k][i].no \in Nat
            BY <4>1, <4>3, <5>6
          <6>1. chain'[k][i].by = k /\ chain'[k][i].no <= appended'[k]
            BY <4>4, <5>6, <6>0
          <6>2. ASSUME NEW n \in DOMAIN chain'[k], i < n PROVE chain'[k][i].no < chain'[k][n].no
            <7>1. CASE n \in DOMAIN chain[k] /\ chain'[k][n] = chain[k][n]
              BY <4>1, <5>6, <6>2, <7>1
            <7>2. CASE chain'[k][n] = l
              BY <5>5, <5>6, <7>2
            <7>3. QED BY <5>2, <7>1, <7>2
          <6>3. QED BY <6>1, <6>2
        <5>7. CASE i = Len(chain[k]) + 1 /\ chain'[k][i] = l
          <6>1. chain'[k][i].by = k /\ chain'[k][i].no <= appended'[k]
            BY <2>2, <4>4, <4>6, <5>4, <5>7
          <6>2. QED BY <3>2, <5>3, <5>7, <6>1
        <5>8. QED BY <3>2, <5>2, <5>6, <5>7
      <4>7. QED BY <4>5, <4>6
    <3>3. QED BY <3>1, <3>2 DEF ChainsOK
  <2>6. WrittenBefore'
    <3>1. ASSUME NEW k \in Journals, NEW m \in 1..Months, NEW i \in DOMAIN file[m].lines,
                 file[m].lines[i].by = k
          PROVE  /\ file[m].lines[i].no <= appended'[k]
                 /\ \A x \in DOMAIN chain'[k] : file[m].lines[i].no < chain'[k][x].no
      <4>1. file[m].lines[i] \in Line
        BY <1>4
      <4>2. file[m].lines[i].no \in Nat
        BY <4>1, JournalAssumption DEF Line
      <4>3. file[m].lines[i].no <= appended[k]
            /\ \A x \in DOMAIN chain[k] : file[m].lines[i].no < chain[k][x].no
        BY <1>0, <3>1 DEF WrittenBefore, JournalInv
      <4>4. QED BY <1>1, <2>1, <2>2, <2>4, <4>2, <4>3
    <3>2. QED BY <2>1, <3>1 DEF WrittenBefore
  <2>7. LookedOK'
    <3>1. ASSUME NEW k \in Journals, chain[k] # <<>>
          PROVE  chain'[k] # <<>> /\ Head(chain'[k]) = Head(chain[k])
      <4>1. chain[k] \in Seq(Line) /\ chain'[k] \in {chain[k], Append(chain[k], l)}
        BY <1>1, <2>1
      <4>2. QED BY <2>2, <3>1, <4>1
    <3>2. QED BY <1>0, <2>1, <3>1 DEF LookedOK, JournalInv
  <2>8. QED BY <2>3, <2>5, <2>6, <2>7 DEF JournalInv
\* A step of writeLine before the write.
<1>6. ASSUME NEW j \in Journals, LooksForDir(j) \/ MakesDir(j) \/ LooksForFile(j) PROVE JournalInv'
  <2>1. /\ chain[j] # <<>> /\ UNCHANGED <<file, month, loaded, chain, appended, tried>>
        /\ dirMade' \in {dirMade, TRUE}
        /\ \E where \in {"mkdir", "file", "append", "write"} :
             /\ at' = [at EXCEPT ![j] = where]
             /\ where = "append" => file[Head(chain[j]).month].exists
             /\ where = "write" => ~file[Head(chain[j]).month].exists
    BY <1>6 DEF LooksForDir, MakesDir, LooksForFile, StepTo, Busy
  <2>2. JournalScalarsOK'
    BY <1>0, <1>1, <2>1 DEF JournalInv, JournalScalarsOK
  <2>3. FilesOK' /\ ChainsOK' /\ WrittenBefore' /\ OrderPerInstance'
    BY <1>0, <2>1 DEF JournalInv, FilesOK, ChainsOK, WrittenBefore, OrderPerInstance
  <2>4. ~file[Head(chain[j]).month].exists => file[Head(chain[j]).month].lines = <<>>
    BY <1>0, <1>3, <2>1 DEF JournalInv, FilesOK
  <2>5. LookedOK'
    <3>1. ASSUME NEW k \in Journals
          PROVE  /\ at'[k] # "idle" => chain[k] # <<>>
                 /\ at'[k] = "append" => file[Head(chain[k]).month].exists
                 /\ at'[k] = "write" => \A i \in DOMAIN file[Head(chain[k]).month].lines :
                                          file[Head(chain[k]).month].lines[i].by # k
      <4>1. CASE k = j
        BY <1>1, <2>1, <2>4, <4>1
      <4>2. CASE k # j
        BY <1>0, <1>1, <2>1, <4>2 DEF JournalInv, LookedOK
      <4>3. QED BY <4>1, <4>2
    <3>2. QED BY <2>1, <3>1 DEF LookedOK
  <2>6. QED BY <2>2, <2>3, <2>5 DEF JournalInv
<1>7. ASSUME NEW j \in Journals, Appends(j) PROVE JournalInv'
  <2> DEFINE l == Head(chain[j])
             m == Head(chain[j]).month
             ls == Append(file[m].lines, l)
  <2>1. chain[j] # <<>> /\ Settles(j) /\ file' = [file EXCEPT ![m].lines = ls] /\ at[j] = "append"
    BY <1>7 DEF Appends, Busy
  <2>2. m \in 1..Months /\ ls \in Seq(Line)
    BY <1>2, <1>3, <1>4, <2>1
  <2>3. file[m].exists
    BY <1>0, <2>1 DEF JournalInv, LookedOK
  <2>4. file'[m] = [file[m] EXCEPT !.lines = ls] /\ \A n \in 1..Months : n # m => file'[n] = file[n]
    BY <1>1, <2>1, <2>2
  <2>5. file'[m].exists /\ file'[m].lines = ls /\ file' \in [1..Months -> [exists : BOOLEAN, lines : Seq(Line)]]
    <3> HIDE DEF ls, m
    <3>1. QED BY <1>1, <1>4, <2>1, <2>2, <2>3, <2>4
  <2>6. HeadDone(j, ls)
    BY <2>1, <2>4, <2>5 DEF HeadDone
  <2>7. QED BY <1>0, <2>6, HeadDoneKeeps
<1>8. ASSUME NEW j \in Journals, Writes(j) PROVE JournalInv'
  <2> DEFINE l == Head(chain[j])
             m == Head(chain[j]).month
             ls == <<l>>
  <2>1. chain[j] # <<>> /\ Settles(j) /\ file' = [file EXCEPT ![m] = [exists |-> TRUE, lines |-> ls]]
    BY <1>8 DEF Writes, Busy
  <2>2. m \in 1..Months /\ ls \in Seq(Line)
    BY <1>2, <1>3, <2>1
  <2>3. file'[m].exists /\ file'[m].lines = ls /\ file' \in [1..Months -> [exists : BOOLEAN, lines : Seq(Line)]]
        /\ \A n \in 1..Months : n # m => file'[n] = file[n]
    <3> HIDE DEF ls, m
    <3>1. QED BY <1>1, <2>1, <2>2
  <2>4. HeadDone(j, ls)
    BY <2>1, <2>3 DEF HeadDone
  <2>5. QED BY <1>0, <2>4, HeadDoneKeeps
<1>9. ASSUME NEW j \in Journals, AppendFails(j) PROVE JournalInv'
  <2> DEFINE m == Head(chain[j]).month
  <2>1. chain[j] # <<>> /\ Settles(j) /\ file' = file
    BY <1>9 DEF AppendFails, Busy
  <2>2. m \in 1..Months
    BY <1>3, <2>1
  <2>3. file[m].lines = <<>> \/ file[m].exists
    BY <1>0, <2>2 DEF JournalInv, FilesOK
  <2>4. HeadDone(j, file[m].lines)
    BY <1>1, <2>1, <2>3 DEF HeadDone
  <2>5. QED BY <1>0, <2>4, HeadDoneKeeps
<1>10. CASE MonthTurns \/ JournalReloads \/ UNCHANGED jvars
  <2>1. /\ UNCHANGED <<dirMade, file, chain, at, appended, tried>>
        /\ month' \in 1..Months /\ loaded' \in Seq(Journals)
    <3>1. CASE MonthTurns
      BY <1>1, <3>1, JournalAssumption DEF MonthTurns
    <3>2. CASE JournalReloads
      BY <1>1, <3>2 DEF JournalReloads
    <3>3. QED BY <1>1, <1>10, <3>1, <3>2 DEF jvars
  <2>2. JournalScalarsOK'
    BY <1>0, <2>1 DEF JournalInv, JournalScalarsOK
  <2>3. FilesOK' /\ ChainsOK'
    BY <1>0, <2>1 DEF JournalInv, FilesOK, ChainsOK
  <2>4. WrittenBefore' /\ OrderPerInstance'
    BY <1>0, <2>1 DEF JournalInv, WrittenBefore, OrderPerInstance
  <2>5. LookedOK'
    BY <1>0, <2>1 DEF JournalInv, LookedOK
  <2>6. QED BY <2>2, <2>3, <2>4, <2>5 DEF JournalInv
<1>11. QED BY <1>0, <1>5, <1>6, <1>7, <1>8, <1>9, <1>10 DEF JournalNext, AdapterSettles

(***************************************************************************)
(* Every file lists each instance's lines in the order they were appended, *)
(* each once, whatever fails and whoever else appends.                     *)
(***************************************************************************)
THEOREM JournalInOrder == JournalSpec => []OrderPerInstance
<1>1. JournalInv => OrderPerInstance
  BY DEF JournalInv
<1>2. QED BY <1>1, JournalInvInit, JournalInvKept, PTL DEF JournalSpec

(***************************************************************************)
(* And every variable has its type: a file holds lines of its own month,   *)
(* whose write was tried.                                                  *)
(***************************************************************************)
THEOREM JournalIsSafe == JournalSpec => []JournalSafe
<1>1. JournalInv => JournalSafe
  <2> SUFFICES ASSUME JournalInv PROVE JournalTypeOK
    BY DEF JournalInv, JournalSafe
  <2>1. ToSet(loaded) \subseteq Journals /\ \A j \in Journals : ToSet(chain[j]) \subseteq Line
    BY DEF JournalInv, JournalScalarsOK, ChainsOK, ToSet
  <2>2. \A m \in 1..Months : /\ file[m].exists \in BOOLEAN
                             /\ ToSet(file[m].lines) \subseteq {l \in tried : l.month = m}
    BY DEF JournalInv, FilesOK, ToSet
  <2>3. QED BY <2>1, <2>2 DEF JournalInv, JournalScalarsOK, FilesOK, JournalTypeOK
<1>2. QED BY <1>1, JournalInvInit, JournalInvKept, PTL DEF JournalSpec

\* A step drops a line only where an instance writes the first line of a month beside another's.
LEMMA StepKeepsLines ==
  ASSUME JournalInv, [JournalNext]_jvars, NEW m \in 1..Months
  PROVE  \/ IsPrefix(file[m].lines, file'[m].lines)
         \/ \E j \in Journals : \E l \in ToSet(file[m].lines) :
              l.by # j /\ at[j] = "write" /\ Head(chain[j]).month = m /\ Writes(j)
<1>1. file[m].lines \in Seq(Line) /\ file \in [1..Months -> [exists : BOOLEAN, lines : Seq(Line)]]
  BY DEF JournalInv, FilesOK
<1>2. \A ls \in Seq(Line) : /\ IsPrefix(ls, ls) /\ IsPrefix(<<>>, ls)
                            /\ \A l \in Line : IsPrefix(ls, Append(ls, l))
  BY DEF IsPrefix
<1>3. \A j \in Journals : chain[j] # <<>> => Head(chain[j]) \in Line
  BY DEF JournalInv, ChainsOK
<1>4. ASSUME file'[m] = file[m] PROVE IsPrefix(file[m].lines, file'[m].lines)
  BY <1>1, <1>2, <1>4
<1>5. ASSUME NEW j \in Journals, Appends(j) PROVE IsPrefix(file[m].lines, file'[m].lines)
  <2> DEFINE l == Head(chain[j])
  <2>1. l \in Line /\ file' = [file EXCEPT ![l.month].lines = Append(@, l)]
    BY <1>3, <1>5 DEF Appends, Busy
  <2> HIDE DEF l
  <2>2. file'[m] = file[m] \/ file'[m].lines = Append(file[m].lines, l)
    BY <1>1, <2>1
  <2>3. QED BY <1>1, <1>2, <2>1, <2>2
<1>6. ASSUME NEW j \in Journals, Writes(j), Head(chain[j]).month = m, file[m].lines # <<>>
      PROVE  \E l \in ToSet(file[m].lines) :
               l.by # j /\ at[j] = "write" /\ Head(chain[j]).month = m /\ Writes(j)
  <2>1. at[j] = "write" /\ 1 \in DOMAIN file[m].lines
    BY <1>1, <1>6 DEF Writes, Busy
  <2>2. file[m].lines[1].by # j
    BY <1>6, <2>1 DEF JournalInv, LookedOK
  <2>3. QED BY <1>6, <2>1, <2>2 DEF ToSet
<1>7. ASSUME NEW j \in Journals, Writes(j), Head(chain[j]).month = m, file[m].lines = <<>>
      PROVE  IsPrefix(file[m].lines, file'[m].lines)
  <2>1. Head(chain[j]) \in Line /\ file'[m].lines = <<Head(chain[j])>>
    BY <1>1, <1>3, <1>7 DEF Writes, Busy
  <2>2. <<Head(chain[j])>> \in Seq(Line)
    BY <2>1
  <2>3. QED BY <1>2, <1>7, <2>1, <2>2
<1>8. ASSUME NEW j \in Journals, Writes(j), Head(chain[j]).month # m PROVE file'[m] = file[m]
  BY <1>1, <1>8 DEF Writes
<1>9. ASSUME NEW j \in Journals,
             AppendRecord(j) \/ LooksForDir(j) \/ MakesDir(j) \/ LooksForFile(j) \/ AppendFails(j)
      PROVE  file'[m] = file[m]
  BY <1>9 DEF AppendRecord, LooksForDir, MakesDir, LooksForFile, AppendFails
<1>10. CASE MonthTurns \/ JournalReloads \/ UNCHANGED jvars
  BY <1>4, <1>10 DEF MonthTurns, JournalReloads, jvars
<1>11. QED BY <1>4, <1>5, <1>6, <1>7, <1>8, <1>9, <1>10 DEF JournalNext, AdapterSettles

(***************************************************************************)
(* A month's file never loses a line, but in one race of two instances.    *)
(***************************************************************************)
THEOREM JournalKeepsLines == JournalSpec => LinesKept
<1>1. JournalInv /\ [JournalNext]_jvars =>
        [\A m \in 1..Months :
           \/ IsPrefix(file[m].lines, file'[m].lines)
           \/ \E j \in Journals : \E l \in ToSet(file[m].lines) :
                l.by # j /\ at[j] = "write" /\ Head(chain[j]).month = m /\ Writes(j)]_jvars
  BY StepKeepsLines
<1>2. QED BY <1>1, JournalInvInit, JournalInvKept, PTL DEF JournalSpec, LinesKept


-----------------------------------------------------------------------------
\* The registrations of other plugins.

Entries == [owner : Plugins, by : Nat, k : Nat]

\* What the registries and the publishers hold.
HoldingsOK ==
  /\ event \in 0..2 /\ unheard \subseteq Plugins /\ born \in Nat /\ live \in [Plugins -> 0..born]
  /\ tools \subseteq Entries /\ hookList \subseteq Entries /\ serial \in Nat
  /\ unregister \in [Plugins -> SUBSET Entries] /\ disposers \in [Plugins -> SUBSET Entries]

\* Each registered entry is its owner's, of the instance that is live, and the owner holds it.
OwnersOK ==
  /\ \A e \in tools : e.by # 0 /\ e.by = live[e.owner] /\ e \in unregister[e.owner]
  /\ \A e \in hookList : e.by # 0 /\ e.by = live[e.owner] /\ e \in disposers[e.owner]
  /\ \A p \in Plugins : /\ \A e \in unregister[p] : e.owner = p
                        /\ \A e \in disposers[p] : e.owner = p
                        /\ \A e, f \in disposers[p] : e = f
  /\ \A e, f \in tools : NameOf[e.owner] = NameOf[f.owner] => e = f

Registered(p) ==
  /\ p \in Providers => \E e \in hookList : e.owner = p
  /\ p \in crowded \/ \E e \in tools : e.owner = p

\* From the first event on, who is live and not about to hear the next is registered.
HeardOK ==
  /\ ~api => unheard = {} /\ tools = {} /\ hookList = {}
  /\ \A p \in unheard : live[p] # 0
  /\ api /\ event # 2 => \A p \in Plugins : live[p] # 0 /\ p \notin unheard => Registered(p)

\* A session knows each of its tools' owners as the instance that published it.
SessionOK == ghosts = {} /\ \A s \in session : s.owner = s.entry.by

PublicationInv == HoldingsOK /\ OwnersOK /\ HeardOK /\ SessionOK

\* A registration is the caller's own, and nobody else's is lost by it.
LEMMA RegisterKeeps ==
  ASSUME HoldingsOK, OwnersOK, NEW p \in Plugins, NEW i \in Nat \ {0}, RegisterAs(p, i),
         live'[p] = i, \A q \in Plugins : q # p => live'[q] = live[q],
         live[p] \in {0, i}
  PROVE  /\ tools' \subseteq Entries /\ hookList' \subseteq Entries /\ serial' \in Nat
         /\ unregister' \in [Plugins -> SUBSET Entries] /\ disposers' \in [Plugins -> SUBSET Entries]
         /\ OwnersOK'
         /\ Registered(p)'
         /\ \A q \in Plugins : q # p /\ Registered(q) => Registered(q)'
<1> DEFINE new == Entry(p, i)
           hooks == {new : q \in {p} \cap Providers}
<1>1. new \in Entries /\ new.owner = p /\ new.by = i
  BY DEF Entry, Entries, HoldingsOK
<1>2. hooks \subseteq {new} /\ (p \in Providers => hooks = {new})
  OBVIOUS
<1>3. /\ hookList' = (hookList \ disposers[p]) \cup hooks
      /\ disposers' = [disposers EXCEPT ![p] = hooks] /\ serial' = serial + 1
      /\ \/ /\ Clobbers(p) /\ UNCHANGED tools /\ unregister' = [unregister EXCEPT ![p] = {}]
            /\ crowded' = crowded \cup {p}
         \/ /\ ~Clobbers(p) /\ tools' = (tools \ SameName(p)) \cup {new} /\ crowded' = crowded \ {p}
            /\ unregister' = [unregister EXCEPT ![p] = {new}]
  BY DEF RegisterAs, Forgotten
<1> HIDE DEF new, hooks
<1>4. /\ tools' \subseteq Entries /\ hookList' \subseteq Entries /\ serial' \in Nat
      /\ unregister' \in [Plugins -> SUBSET Entries] /\ disposers' \in [Plugins -> SUBSET Entries]
  BY <1>1, <1>2, <1>3 DEF HoldingsOK
<1>5. \A e \in tools \cup hookList : e.owner \in Plugins
  BY DEF HoldingsOK, Entries
<1>6. /\ disposers'[p] = hooks /\ \A q \in Plugins : q # p => disposers'[q] = disposers[q]
      /\ \A q \in Plugins : q # p => unregister'[q] = unregister[q]
  BY <1>3 DEF HoldingsOK
<1>7. \A e \in hookList' : \/ e \in hookList /\ e.owner # p
                           \/ e = new /\ e \in hooks
  BY <1>2, <1>3, <1>5 DEF OwnersOK
<1>8. \A e \in tools' : \/ e \in tools /\ e.owner # p
                        \/ e = new /\ unregister'[p] = {new}
  <2>1. CASE Clobbers(p)
    <3>1. \A e \in tools : e.owner # p
      BY <2>1, <1>5 DEF Clobbers, SameName, OwnersOK
    <3>2. QED BY <1>3, <2>1, <3>1
  <2>2. CASE ~Clobbers(p)
    <3>1. \A e \in tools : e.owner = p => e \in SameName(p)
      BY DEF SameName
    <3>2. unregister'[p] = {new}
      BY <1>3, <2>2 DEF HoldingsOK
    <3>3. QED BY <1>3, <2>2, <3>1, <3>2
  <2>3. QED BY <2>1, <2>2
<1>9. \A e, f \in tools' : NameOf[e.owner] = NameOf[f.owner] => e = f
  <2>1. CASE Clobbers(p)
    BY <1>3, <2>1 DEF OwnersOK
  <2>2. CASE ~Clobbers(p)
    <3>1. tools' = (tools \ SameName(p)) \cup {new}
      BY <1>3, <2>2
    <3>2. \A e \in tools \ SameName(p) : NameOf[e.owner] # NameOf[p]
      BY DEF SameName
    <3>3. QED BY <1>1, <3>1, <3>2 DEF OwnersOK
  <2>3. QED BY <2>1, <2>2
<1>10. OwnersOK'
  <2>1. \A e \in tools' : e.by # 0 /\ e.by = live'[e.owner] /\ e \in unregister'[e.owner]
    BY <1>1, <1>5, <1>6, <1>8 DEF OwnersOK
  <2>2. \A e \in hookList' : e.by # 0 /\ e.by = live'[e.owner] /\ e \in disposers'[e.owner]
    BY <1>1, <1>5, <1>6, <1>7 DEF OwnersOK
  <2>3. \A q \in Plugins : \A e \in unregister'[q] : e.owner = q
    BY <1>1, <1>3, <1>6 DEF OwnersOK, HoldingsOK
  <2>4. \A q \in Plugins : \A e, f \in disposers'[q] : e.owner = q /\ e = f
    BY <1>1, <1>2, <1>6 DEF OwnersOK
  <2>5. QED BY <1>9, <2>1, <2>2, <2>3, <2>4 DEF OwnersOK
<1>11. Registered(p)'
  BY <1>1, <1>2, <1>3 DEF Registered
<1>12. ASSUME NEW q \in Plugins, q # p, Registered(q) PROVE Registered(q)'
  <2>1. \A e \in hookList : e.owner = q => e \in hookList'
    BY <1>3, <1>12 DEF OwnersOK
  <2>2. \A e \in tools : e.owner = q => e \in tools'
    BY <1>3, <1>12 DEF Clobbers
  <2>3. q \in crowded => q \in crowded'
    BY <1>3, <1>12
  <2>4. QED BY <1>12, <2>1, <2>2, <2>3 DEF Registered
<1>13. QED BY <1>4, <1>10, <1>11, <1>12

LEMMA PublicationInvInit == PublicationInit => PublicationInv
BY DEF PublicationInit, PublicationInv, HoldingsOK, OwnersOK, HeardOK, SessionOK

LEMMA PublicationStep == PublicationInv /\ [PublicationNext]_pvars => PublicationInv'
<1> SUFFICES ASSUME PublicationInv, [PublicationNext]_pvars PROVE PublicationInv'
  OBVIOUS
<1>0. HoldingsOK /\ OwnersOK /\ HeardOK /\ SessionOK
  BY DEF PublicationInv
<1>1. CASE HostLoads
  BY <1>0, <1>1 DEF HostLoads, PublicationInv, HoldingsOK, OwnersOK, HeardOK, SessionOK
<1>2. CASE Announce
  BY <1>0, <1>2 DEF Announce, PublicationInv, HoldingsOK, OwnersOK, HeardOK, SessionOK
<1>3. ASSUME NEW p \in Plugins, Hears(p) PROVE PublicationInv'
  <2>1. live[p] \in Nat \ {0} /\ api
    BY <1>0, <1>3 DEF Hears, HeardOK, HoldingsOK
  <2>2. /\ tools' \subseteq Entries /\ hookList' \subseteq Entries /\ serial' \in Nat
        /\ unregister' \in [Plugins -> SUBSET Entries] /\ disposers' \in [Plugins -> SUBSET Entries]
        /\ OwnersOK' /\ Registered(p)'
        /\ \A q \in Plugins : q # p /\ Registered(q) => Registered(q)'
    BY <1>0, <1>3, <2>1, RegisterKeeps DEF Hears
  <2>3. HoldingsOK'
    BY <1>0, <1>3, <2>2 DEF Hears, HoldingsOK
  <2>4. HeardOK'
    BY <1>0, <1>3, <2>1, <2>2 DEF Hears, HeardOK
  <2>5. QED BY <1>0, <1>3, <2>2, <2>3, <2>4 DEF Hears, SessionOK, PublicationInv
<1>4. CASE HostUnloads
  BY <1>0, <1>4 DEF HostUnloads, Quiet, PublicationInv, HoldingsOK, OwnersOK, HeardOK, SessionOK
<1>5. ASSUME NEW p \in Plugins, PluginLoads(p) PROVE PublicationInv'
  <2>1. /\ born' = born + 1 /\ born' \in Nat \ {0} /\ live[p] = 0 /\ Quiet
        /\ live'[p] = born' /\ \A q \in Plugins : q # p => live'[q] = live[q]
        /\ live' \in [Plugins -> 0..born'] /\ UNCHANGED <<api, event, unheard, session, ghosts>>
    BY <1>0, <1>5 DEF PluginLoads, HoldingsOK
  <2>2. CASE api
    <3>1. /\ tools' \subseteq Entries /\ hookList' \subseteq Entries /\ serial' \in Nat
          /\ unregister' \in [Plugins -> SUBSET Entries] /\ disposers' \in [Plugins -> SUBSET Entries]
          /\ OwnersOK' /\ Registered(p)'
          /\ \A q \in Plugins : q # p /\ Registered(q) => Registered(q)'
      BY <1>0, <1>5, <2>1, <2>2, RegisterKeeps DEF PluginLoads
    <3>2. HoldingsOK'
      BY <1>0, <2>1, <3>1 DEF HoldingsOK
    <3>3. HeardOK'
      BY <1>0, <2>1, <2>2, <3>1 DEF HeardOK, Quiet
    <3>4. QED BY <1>0, <2>1, <3>1, <3>2, <3>3 DEF SessionOK, PublicationInv
  <2>3. CASE ~api
    <3>1. tools = {} /\ hookList = {}
          /\ UNCHANGED <<tools, hookList, unregister, disposers, serial, crowded>>
      BY <1>0, <1>5, <2>3 DEF PluginLoads, HeardOK
    <3>2. HoldingsOK'
      BY <1>0, <2>1, <3>1 DEF HoldingsOK
    <3>3. OwnersOK'
      BY <1>0, <3>1 DEF OwnersOK
    <3>4. HeardOK'
      BY <1>0, <2>1, <2>3, <3>1 DEF HeardOK
    <3>5. QED BY <1>0, <2>1, <3>2, <3>3, <3>4 DEF SessionOK, PublicationInv
  <2>4. QED BY <2>2, <2>3
<1>6. ASSUME NEW p \in Plugins, PluginUnloads(p) PROVE PublicationInv'
  <2>1. /\ Quiet /\ live'[p] = 0 /\ \A q \in Plugins : q # p => live'[q] = live[q]
        /\ live' \in [Plugins -> 0..born]
        /\ tools' = tools \ unregister[p] /\ hookList' = hookList \ disposers[p]
        /\ unregister'[p] = {} /\ \A q \in Plugins : q # p => unregister'[q] = unregister[q]
        /\ disposers'[p] = {} /\ \A q \in Plugins : q # p => disposers'[q] = disposers[q]
        /\ unregister' \in [Plugins -> SUBSET Entries] /\ disposers' \in [Plugins -> SUBSET Entries]
        /\ UNCHANGED <<api, event, unheard, born, serial, session, crowded, ghosts>>
    BY <1>0, <1>6 DEF PluginUnloads, HoldingsOK
  <2>2. HoldingsOK'
    BY <1>0, <2>1 DEF HoldingsOK
  <2>3. \A e \in tools' \cup hookList' : e.owner \in Plugins \ {p}
    BY <1>0, <2>1 DEF HoldingsOK, Entries, OwnersOK
  <2>4. OwnersOK'
    BY <1>0, <2>1, <2>3 DEF OwnersOK
  <2>5. \A q \in Plugins : q # p /\ Registered(q) => Registered(q)'
    BY <1>0, <2>1 DEF Registered, OwnersOK
  <2>6. HeardOK'
    BY <1>0, <2>1, <2>5 DEF HeardOK, Quiet
  <2>7. QED BY <1>0, <2>1, <2>2, <2>4, <2>6 DEF SessionOK, PublicationInv
<1>7. CASE Connect
  <2>1. SessionOK'
    BY <1>0, <1>7 DEF Connect, SessionOK, OwnersOK
  <2>2. QED BY <1>0, <1>7, <2>1 DEF Connect, PublicationInv, HoldingsOK, OwnersOK, HeardOK, Registered
<1>8. ASSUME NEW s \in session, CallTool(s) PROVE PublicationInv'
  <2>1. SessionOK'
    BY <1>0, <1>8 DEF CallTool, Serves, SessionOK
  <2>2. QED BY <1>0, <1>8, <2>1 DEF CallTool, PublicationInv, HoldingsOK, OwnersOK, HeardOK, Registered
<1>9. CASE UNCHANGED pvars
  BY <1>0, <1>9 DEF pvars, PublicationInv, HoldingsOK, OwnersOK, HeardOK, SessionOK, Registered
<1>10. QED BY <1>1, <1>2, <1>3, <1>4, <1>5, <1>6, <1>7, <1>8, <1>9 DEF PublicationNext

LEMMA PublicationInvSafe == PublicationInv => PublicationSafe
<1> SUFFICES ASSUME PublicationInv PROVE PublicationSafe
  OBVIOUS
<1>1. ASSUME NEW n PROVE Cardinality({e \in tools : NameOf[e.owner] = n}) <= 1
  <2> DEFINE S == {e \in tools : NameOf[e.owner] = n}
  <2>1. ASSUME NEW x \in S PROVE S = {x}
    <3>1. \A e \in S : e = x
      BY <2>1 DEF PublicationInv, OwnersOK
    <3>2. QED BY <2>1, <3>1
  <2> HIDE DEF S
  <2>2. Cardinality(S) <= 1
    <3>1. CASE S = {}
      BY <3>1, FS_EmptySet
    <3>2. ASSUME NEW x \in S PROVE Cardinality(S) <= 1
      <4>1. S = {x}
        BY <2>1, <3>2
      <4>2. Cardinality({x}) = 1
        BY FS_Singleton
      <4>3. QED BY <4>1, <4>2
    <3>3. QED BY <3>1, <3>2
  <2>3. QED BY <2>2 DEF S
<1>2. PublicationTypeOK
  BY <1>1 DEF PublicationTypeOK, PublicationInv, HoldingsOK
<1>3. NoGhosts
  <2>1. \A e \in tools \cup hookList : e.by = live[e.owner]
    BY DEF PublicationInv, OwnersOK
  <2>2. \A e \in hookList : e.owner \in Plugins /\ e \in disposers[e.owner]
    BY DEF PublicationInv, OwnersOK, HoldingsOK, Entries
  <2>3. \A e, f \in hookList : e.owner = f.owner => e = f
    BY <2>2 DEF PublicationInv, OwnersOK
  <2>4. QED BY <2>1, <2>3 DEF NoGhosts
<1>4. AllRegistered
  BY DEF AllRegistered, PublicationInv, HeardOK, Registered, Quiet
<1>5. NoStaleHandler
  BY DEF PublicationInv, SessionOK, NoStaleHandler
<1>6. QED BY <1>2, <1>3, <1>4, <1>5 DEF PublicationSafe

(***************************************************************************)
(* In whatever order host and plugins load, reload and unload: no tool is  *)
(* offered and no hook consulted for a plugin that is gone, whoever is     *)
(* loaded is registered once the host has announced itself, and a session  *)
(* of before never runs the handler of an instance that was unloaded.      *)
(***************************************************************************)
THEOREM PublicationIsSafe == PublicationSpec => []PublicationSafe
BY PublicationInvInit, PublicationStep, PublicationInvSafe, PTL DEF PublicationSpec

-----------------------------------------------------------------------------
\* The adoption of an older install.

\* A directory's listing names each of its entries.
LEMMA ListingNamesAll ==
  ASSUME NEW S, IsFiniteSet(S)
  PROVE  SetToSeq(S) \in Seq(S) /\ ToSet(SetToSeq(S)) = S
<1> DEFINE n == Cardinality(S)
<1>1. n \in Nat /\ ExistsBijection(1..n, S)
  BY FS_CardinalityType
<1>2. PICK g \in Bijection(1..n, S) : TRUE
  BY <1>1 DEF ExistsBijection
<1>3. g \in [1..n -> S] /\ IsInjective(g)
  BY <1>2 DEF Bijection, Injection, IsInjective
<1>4. SetToSeq(S) \in [1..n -> S] /\ IsInjective(SetToSeq(S))
  BY <1>3 DEF SetToSeq
<1>5. PICK f : f = SetToSeq(S)
  OBVIOUS
<1>6. f \in Injection(1..n, S)
  BY <1>4, <1>5 DEF Injection, IsInjective
<1>7. f \in Surjection(1..n, S)
  <2>1. IsFiniteSet(1..n) /\ Cardinality(1..n) = n
    BY <1>1, FS_Interval
  <2>2. QED BY <1>6, <2>1, FS_Injection
<1>8. f \in Seq(S) /\ {f[i] : i \in DOMAIN f} = S
  <2>1. f \in [1..n -> S] /\ \A t \in S : \E s \in 1..n : f[s] = t
    BY <1>7 DEF Surjection
  <2>2. f \in Seq(S) /\ DOMAIN f = 1..n
    BY <1>1, <2>1
  <2>3. QED BY <2>1, <2>2
<1>9. QED BY <1>5, <1>8 DEF ToSet

ToAdopt == OldMonths \cup {Install}

AdoptionShape ==
  /\ source \in {"live", "none"} /\ step \in {"off", "copy", "settings", "load", "running"}
  /\ todo \in Seq(Files) /\ copied \in [Files -> {"none", "part", "all"}] /\ own \in [Files -> BOOLEAN]
  /\ data \in {"none", "adopted", "defaults"} /\ adopted \in BOOLEAN /\ record \in BOOLEAN
  /\ failed \in BOOLEAN /\ torn \in BOOLEAN /\ loads \in 0..MaxLoads

\* The latch: until the host has a data.json, nothing is its own.
LatchInv ==
  /\ (\E f \in Files : copied[f] = "part") => torn
  /\ (\E f \in Files : own[f]) \/ step = "running" => data # "none"
  /\ step \in {"copy", "settings"} => data = "none" /\ source = "live"

\* While it copies, what is not there is still in the plan.
PlanInv ==
  /\ step = "copy" => \A f \in ToAdopt : Exists(f) \/ f \in ToSet(todo)
  /\ record \/ step = "settings" => \A f \in ToAdopt : Exists(f)

\* What a load that was not cut short and in which nothing failed has adopted.
AdoptedInv ==
  /\ step = "settings" \/ adopted => record
  /\ step = "load" /\ data = "none" /\ source = "live" /\ ~failed => adopted
  /\ CleanAdoption

AdoptionInv == AdoptionShape /\ LatchInv /\ PlanInv /\ AdoptedInv

LEMMA NoPlan == <<>> \in Seq(Files)
OBVIOUS

LEMMA AdoptionInvInit == AdoptionInit => AdoptionInv
<1> SUFFICES ASSUME AdoptionInit PROVE AdoptionInv
  OBVIOUS
<1>1. AdoptionShape
  <2>1. todo \in Seq(Files) /\ loads \in 0..MaxLoads
    BY AdoptionAssumption, NoPlan DEF AdoptionInit
  <2>2. copied \in [Files -> {"none", "part", "all"}] /\ own \in [Files -> BOOLEAN]
    BY DEF AdoptionInit
  <2>3. {adopted, record, failed, torn} \subseteq BOOLEAN
    BY DEF AdoptionInit
  <2>4. QED BY <2>1, <2>2, <2>3 DEF AdoptionInit, AdoptionShape
<1>2. QED BY <1>1 DEF AdoptionInit, AdoptionInv, LatchInv, PlanInv, AdoptedInv, CleanAdoption

\* The plan of a load has everything that is not there.
LEMMA PlanIsWhole ==
  ASSUME AdoptionShape
  PROVE  Plan \in Seq(Files) /\ \A f \in ToAdopt : Exists(f) \/ f \in ToSet(Plan)
<1> DEFINE s == SetToSeq(OldMonths)
           t == IF Exists(Install) THEN <<>> ELSE <<Install>>
<1>1. s \in Seq(OldMonths) /\ {s[i] : i \in DOMAIN s} = OldMonths
  BY AdoptionAssumption, ListingNamesAll DEF ToSet
<1>2. t \in Seq({Install}) /\ (Exists(Install) \/ t = <<Install>>)
  <2>1. <<>> \in Seq({Install}) /\ <<Install>> \in Seq({Install})
    OBVIOUS
  <2>2. QED BY <2>1
<1>3. Plan = s \o t
  BY DEF Plan
<1> HIDE DEF s, t
<1>4. s \in Seq(Files) /\ t \in Seq(Files)
  BY <1>1, <1>2 DEF Files
<1>5. s \o t \in Seq(Files) /\ DOMAIN (s \o t) = 1..Len(s) + Len(t)
  BY <1>4
<1>6. ASSUME NEW f \in OldMonths PROVE f \in ToSet(s \o t)
  <2>1. PICK i \in DOMAIN s : s[i] = f
    BY <1>1, <1>6
  <2>2. i \in DOMAIN (s \o t) /\ (s \o t)[i] = f
    BY <1>4, <1>5, <2>1
  <2>3. QED BY <2>2 DEF ToSet
<1>7. ASSUME ~Exists(Install) PROVE Install \in ToSet(s \o t)
  <2>1. Len(t) = 1 /\ t[1] = Install
    BY <1>2, <1>7
  <2>2. Len(s) + 1 \in DOMAIN (s \o t) /\ (s \o t)[Len(s) + 1] = Install
    BY <1>4, <1>5, <2>1
  <2>3. QED BY <2>2 DEF ToSet
<1>8. QED BY <1>3, <1>5, <1>6, <1>7 DEF ToAdopt

LEMMA AdoptionStep == AdoptionInv /\ [AdoptionNext]_avars => AdoptionInv'
<1> SUFFICES ASSUME AdoptionInv, [AdoptionNext]_avars PROVE AdoptionInv'
  OBVIOUS
<1>0. AdoptionShape /\ LatchInv /\ PlanInv /\ AdoptedInv
  BY DEF AdoptionInv
<1>a. Install \in Files /\ ToAdopt \subseteq Files
  BY DEF Files, ToAdopt
<1> USE DEF AdoptionInv
<1>1. CASE LoadStarts
  <2>1. /\ step = "off" /\ UNCHANGED <<source, copied, own, data, adopted, record, failed, torn>>
        /\ loads' \in 0..MaxLoads
        /\ \/ (data # "none" \/ source = "none") /\ step' = "load" /\ todo' = todo
           \/ data = "none" /\ source = "live" /\ step' = "copy" /\ todo' = Plan
    BY <1>0, <1>1, AdoptionAssumption DEF LoadStarts, AdoptionShape
  <2>2. AdoptionShape'
    BY <1>0, <2>1, PlanIsWhole DEF AdoptionShape
  <2>3. PlanInv'
    BY <1>0, <2>1, PlanIsWhole DEF PlanInv, Exists
  <2>4. LatchInv' /\ AdoptedInv'
    BY <1>0, <2>1 DEF LatchInv, AdoptedInv, CleanAdoption
  <2>5. QED BY <2>2, <2>3, <2>4
<1>2. CASE Copies
  <2>1. PICK h : h = Head(todo) /\ h \in Files
    BY <1>0, <1>2 DEF Copies, AdoptionShape
  <2>2. /\ step = "copy" /\ todo' = Tail(todo) /\ todo' \in Seq(Files)
        /\ \A f \in Files : copied'[f] = copied[f] \/ (f = h /\ ~Exists(f) /\ copied'[f] = "all")
        /\ Exists(h)' /\ copied' \in [Files -> {"none", "part", "all"}]
        /\ UNCHANGED <<source, step, own, data, adopted, record, failed, torn, loads>>
    BY <1>0, <1>2, <2>1 DEF Copies, AdoptionShape, Exists
  <2>3. \A f \in ToSet(todo) : f = h \/ f \in ToSet(todo')
    <3>1. ASSUME NEW i \in DOMAIN todo PROVE todo[i] = h \/ todo[i] \in ToSet(Tail(todo))
      <4>1. todo \in Seq(Files) /\ todo # <<>> /\ i \in 1..Len(todo)
        BY <1>0, <1>2, <3>1 DEF AdoptionShape, Copies
      <4>2. CASE i = 1
        BY <2>1, <4>1, <4>2
      <4>3. CASE i # 1
        <5>1. i - 1 \in DOMAIN Tail(todo) /\ Tail(todo)[i - 1] = todo[i]
          BY <4>1, <4>3
        <5>2. QED BY <5>1 DEF ToSet
      <4>4. QED BY <4>2, <4>3
    <3>2. QED BY <2>2, <3>1 DEF ToSet
  <2>4. AdoptionShape'
    BY <1>0, <2>2 DEF AdoptionShape
  <2>5. \A f \in Files : Exists(f) => Exists(f)'
    BY <2>2 DEF Exists
  <2>6. PlanInv'
    BY <1>0, <1>a, <2>2, <2>3, <2>5 DEF PlanInv
  <2>7. LatchInv' /\ AdoptedInv'
    BY <1>0, <2>2 DEF LatchInv, AdoptedInv, CleanAdoption
  <2>8. QED BY <2>4, <2>6, <2>7
<1>3. CASE AdoptionFails
  BY <1>0, <1>3, NoPlan DEF AdoptionFails, AdoptionShape, LatchInv, PlanInv, AdoptedInv, CleanAdoption, Exists
<1>4. CASE Recorded
  <2>1. \A f \in ToAdopt : Exists(f) /\ Exists(f)'
    BY <1>0, <1>4 DEF Recorded, PlanInv, ToSet, Exists
  <2>2. QED BY <1>0, <1>4, <2>1 DEF Recorded, AdoptionShape, LatchInv, PlanInv, AdoptedInv, CleanAdoption
<1>5. CASE Parses
  <2>1. AdoptionShape'
    <3>1. failed' \in BOOLEAN
      BY <1>0, <1>5 DEF Parses, AdoptionShape
    <3>2. QED BY <1>0, <1>5, <3>1 DEF Parses, AdoptionShape
  <2>2. QED BY <1>0, <1>5, <2>1 DEF Parses, AdoptionShape, LatchInv, PlanInv, AdoptedInv, CleanAdoption, Exists
<1>6. CASE SettingsLoad
  <2>1. AdoptionShape' /\ LatchInv' /\ PlanInv'
    BY <1>0, <1>6 DEF SettingsLoad, AdoptionShape, LatchInv, PlanInv, Exists
  <2>2. ASSUME data = "none", source = "live", ~failed, ~torn
        PROVE  /\ data' = "adopted" /\ record
               /\ \A f \in ToAdopt : copied[f] = "all"
               /\ ~own[Install]
    <3>1. adopted /\ record /\ \A f \in ToAdopt : Exists(f)
      BY <1>0, <1>6, <2>2 DEF SettingsLoad, AdoptedInv, PlanInv
    <3>2. \A f \in Files : ~own[f] /\ copied[f] # "part"
      BY <1>0, <2>2 DEF LatchInv
    <3>3. QED BY <1>0, <1>6, <1>a, <2>2, <3>1, <3>2 DEF SettingsLoad, Exists, AdoptionShape
  <2>3. CleanAdoption'
    BY <1>0, <1>6, <2>2 DEF SettingsLoad, AdoptedInv, CleanAdoption, ToAdopt
  <2>4. QED BY <1>0, <1>6, <2>1, <2>3 DEF SettingsLoad, AdoptedInv
<1>7. ASSUME NEW f \in Files, HostWrites(f) PROVE AdoptionInv'
  <2>1. /\ step = "running" /\ own' \in [Files -> BOOLEAN] /\ own'[f]
        /\ \A g \in Files : g # f => own'[g] = own[g] /\ copied'[g] = copied[g]
        /\ f # Install => copied' = copied
        /\ f = Install => copied[f] # "all" /\ copied'[f] = "none"
        /\ copied' \in [Files -> {"none", "part", "all"}]
        /\ UNCHANGED <<source, step, todo, data, adopted, record, failed, torn, loads>>
    BY <1>0, <1>7 DEF HostWrites, AdoptionShape
  <2>2. AdoptionShape' /\ LatchInv'
    BY <1>0, <2>1 DEF AdoptionShape, LatchInv
  <2>3. \A g \in Files : Exists(g) => Exists(g)'
    BY <2>1 DEF Exists
  <2>4. PlanInv'
    BY <1>0, <1>a, <2>1, <2>3 DEF PlanInv
  <2>5. CleanAdoption'
    <3>1. data # "none"
      BY <1>0, <2>1 DEF LatchInv
    <3>2. ASSUME source = "live", ~failed, ~torn PROVE CleanAdoption'
      <4>1. copied[Install] = "all" /\ CleanAdoption
        BY <1>0, <3>1, <3>2 DEF AdoptedInv, CleanAdoption
      <4>2. f # Install
        BY <2>1, <4>1
      <4>3. QED BY <1>a, <2>1, <3>1, <4>1, <4>2 DEF CleanAdoption
    <3>3. QED BY <2>1, <3>2 DEF CleanAdoption
  <2>6. QED BY <1>0, <2>1, <2>2, <2>4, <2>5 DEF AdoptedInv
<1>8. CASE Dies
  BY <1>0, <1>8, NoPlan DEF Dies, AdoptionShape, LatchInv, PlanInv, AdoptedInv, CleanAdoption, Exists
<1>9. CASE DiesWriting
  <2>1. PICK h : h = Head(todo) /\ h \in Files
    BY <1>0, <1>9 DEF DiesWriting, AdoptionShape
  <2>2. /\ step = "copy" /\ step' = "off" /\ ~Exists(h) /\ torn' = TRUE /\ todo' = <<>> /\ adopted' = FALSE
        /\ \A f \in Files : f # h => copied'[f] = copied[f]
        /\ copied' \in [Files -> {"none", "part", "all"}] /\ copied'[h] = "part"
        /\ UNCHANGED <<source, own, data, record, failed, loads>>
    BY <1>0, <1>9, <2>1 DEF DiesWriting, AdoptionShape
  <2>3. AdoptionShape' /\ LatchInv'
    BY <1>0, <2>2, NoPlan DEF AdoptionShape, LatchInv
  <2>4. \A f \in Files : Exists(f) => Exists(f)'
    BY <2>2 DEF Exists
  <2>5. PlanInv'
    BY <1>0, <1>a, <2>2, <2>4 DEF PlanInv
  <2>6. QED BY <1>0, <2>2, <2>3, <2>5 DEF AdoptedInv, CleanAdoption
<1>10. CASE UNCHANGED avars
  BY <1>0, <1>10 DEF avars, AdoptionShape, LatchInv, PlanInv, AdoptedInv, CleanAdoption, Exists
<1>11. QED BY <1>1, <1>2, <1>3, <1>4, <1>5, <1>6, <1>7, <1>8, <1>9, <1>10 DEF AdoptionNext

LEMMA AdoptionInvSafe == AdoptionInv => AdoptionSafe
<1> SUFFICES ASSUME AdoptionInv PROVE AdoptionSafe
  OBVIOUS
<1>1. ToSet(todo) \subseteq Files
  BY DEF AdoptionInv, AdoptionShape, ToSet
<1>2. AdoptionTypeOK
  BY <1>1 DEF AdoptionInv, AdoptionShape, LatchInv, AdoptionTypeOK
<1>3. QED BY <1>2 DEF AdoptionInv, AdoptedInv, PlanInv, ToAdopt, RecordedComplete, AdoptionSafe

(***************************************************************************)
(* However loads are cut short and files fail or are torn: the record of   *)
(* an adoption stands only where every file landed, and a host in which    *)
(* nothing failed has adopted the whole install, its settings included.    *)
(***************************************************************************)
THEOREM AdoptionIsSafe == AdoptionSpec => []AdoptionSafe
BY AdoptionInvInit, AdoptionStep, AdoptionInvSafe, PTL DEF AdoptionSpec

-----------------------------------------------------------------------------
\* The dispatch of calls.

\* A hook leaves the list, and those after it move up one place.
LEMMA OthersMoveUp ==
  ASSUME NEW S, NEW s \in Seq(S), NEW k \in DOMAIN s
  PROVE  /\ RemoveAt(s, k) \in Seq(S) /\ Len(RemoveAt(s, k)) = Len(s) - 1
         /\ \A i \in 1..(Len(s) - 1) : RemoveAt(s, k)[i] = IF i < k THEN s[i] ELSE s[i + 1]
<1>1. k \in 1..Len(s) /\ Len(s) \in Nat
  OBVIOUS
<1>2. PICK a : a = SubSeq(s, 1, k - 1)
  OBVIOUS
<1>3. PICK b : b = SubSeq(s, k + 1, Len(s))
  OBVIOUS
<1>4. a \in Seq(S) /\ Len(a) = k - 1 /\ \A i \in 1..(k - 1) : a[i] = s[i]
  BY <1>1, <1>2
<1>5. b \in Seq(S) /\ Len(b) = Len(s) - k /\ \A i \in 1..(Len(s) - k) : b[i] = s[i + k]
  BY <1>1, <1>3
<1>6. RemoveAt(s, k) = a \o b
  BY <1>2, <1>3 DEF RemoveAt
<1>7. a \o b \in Seq(S) /\ Len(a \o b) = Len(s) - 1
  BY <1>1, <1>4, <1>5
<1>8. ASSUME NEW i \in 1..(Len(s) - 1) PROVE (a \o b)[i] = IF i < k THEN s[i] ELSE s[i + 1]
  <2>1. CASE i < k
    BY <1>1, <1>4, <1>5, <2>1
  <2>2. CASE ~(i < k)
    <3>1. (a \o b)[i] = b[i - (k - 1)]
      BY <1>1, <1>4, <1>5, <2>2, SMTT(60)
    <3>2. i - (k - 1) \in 1..(Len(s) - k) /\ (i - (k - 1)) + k = i + 1
      BY <1>1, <2>2
    <3>3. QED BY <1>5, <2>2, <3>1, <3>2
  <2>3. QED BY <2>1, <2>2
<1>9. QED BY <1>6, <1>7, <1>8

OperStates    == {"new", "open", "settled", "proposed", "closed"}
HandlerStates == {"idle", "waiting", "consulting", "running", "landed", "over"}
Outcomes == {"none", "completed", "partial", "refused", "conflict", "failed", "uncertain"}
Going    == {"open", "settled", "proposed"}

DispatchShape ==
  /\ \A c \in Calls : call[c].sort \in {"write", "edit", "read", "none"}
  /\ oper \in [Calls -> OperStates] /\ out \in [Calls -> Outcomes] /\ handler \in [Calls -> HandlerStates]
  /\ waitLine \in Seq(Calls) /\ box \subseteq Calls /\ reports \subseteq [of : Calls, as : Calls]
  /\ refusers \in Seq(Hooks) /\ \A i, j \in DOMAIN refusers : i # j => refusers[i] # refusers[j]
  /\ asking \in [Calls -> Nat \ {0}] /\ revoked \in BOOLEAN
  /\ faced \in [Calls -> SUBSET Hooks] /\ silent \in [Calls -> SUBSET Hooks]

\* Who is in the line, or holds the slot, is not settled.
LineInv ==
  /\ \A i \in DOMAIN waitLine : /\ oper[waitLine[i]] = "open"
                                /\ handler[waitLine[i]] \in {"waiting", "consulting", "running", "landed"}
                                /\ i > 1 => handler[waitLine[i]] = "waiting"
  /\ \A i, j \in DOMAIN waitLine : i # j => waitLine[i] # waitLine[j]
  /\ \A c \in Calls : /\ oper[c] = "new" => handler[c] = "idle"
                      /\ handler[c] = "waiting" => oper[c] = "open"

\* What a consult has asked so far, and what the list's shifts have kept from it.
Consults(c) ==
  /\ faced[c] \subseteq {refusers[i] : i \in DOMAIN refusers}
  /\ \A j \in DOMAIN refusers : j < asking[c] /\ refusers[j] \notin silent[c] =>
       \A i \in DOMAIN refusers : i >= j => refusers[i] \notin faced[c]
AskedSoFar(c) ==
  /\ handler[c] \in {"idle", "waiting"} => silent[c] = {} /\ asking[c] = 1
  /\ handler[c] = "consulting" => Consults(c)
  /\ Attempted(c) => faced[c] \subseteq silent[c]
  /\ c \in doomed => revoked /\ Governing \notin silent[c]
AskedInv == \A c \in Calls : AskedSoFar(c)

Alone(c) == \A d \in Calls : {c, d} \notin beside

\* The bytes in the mailbox, and the reports made of them.
BoxInv ==
  /\ \A v, w \in box : v = w
  /\ \A w \in box : /\ handler[w] \in {"landed", "over"} /\ (w \in late \/ oper[w] \in Going)
                    /\ \A r \in reports : r.of # w
  /\ \A r \in reports : handler[r.of] \in {"landed", "over"} /\ oper[r.as] \in {"proposed", "closed"}
  /\ ReportsTrue
\* Two operations under way at once know of each other.
BesideInv ==
  /\ \A c, d \in Calls : c # d /\ oper[c] \in Going /\ oper[d] \in Going => {c, d} \in beside
  /\ \A c \in Calls : oper[c] \in Going /\ Alone(c) => \A d \in Calls \ {c} : ~Underway(d)
\* The bytes of a write that has no other beside it stay where it put them.
LoneWrite(c) ==
  Alone(c) /\ call[c].sort = "write" =>
    /\ oper[c] = "open" /\ handler[c] = "landed" => box = {c}
    /\ oper[c] = "settled" /\ out[c] = "completed" => box = {c}
    /\ oper[c] \in {"proposed", "closed"} /\ out[c] = "completed" => [of |-> c, as |-> c] \in reports
LoneInv == \A c \in Calls : LoneWrite(c)

DispatchInv == DispatchShape /\ LineInv /\ AskedInv /\ BoxInv /\ BesideInv /\ LoneInv

-----------------------------------------------------------------------------
LEMMA DispatchInvInit == DispatchInit => DispatchInv
<1> SUFFICES ASSUME DispatchInit PROVE DispatchInv
  OBVIOUS
<1>1. PICK s \in Sessions : call = s.call /\ refusers = s.list
  BY DEF DispatchInit
<1>2. waitLine \in Seq(Calls) /\ DOMAIN waitLine = {}
  BY DEF DispatchInit
<1>3. DispatchShape
  <2>1. /\ \A c \in Calls : call[c].sort \in {"write", "edit", "read", "none"}
        /\ refusers \in Seq(Hooks) /\ \A i, j \in DOMAIN refusers : i # j => refusers[i] # refusers[j]
    BY <1>1, DispatchAssumption
  <2>2. oper \in [Calls -> OperStates] /\ out \in [Calls -> Outcomes] /\ handler \in [Calls -> HandlerStates]
    BY DEF DispatchInit, OperStates, Outcomes, HandlerStates
  <2>3. /\ asking \in [Calls -> Nat \ {0}] /\ faced \in [Calls -> SUBSET Hooks]
        /\ silent \in [Calls -> SUBSET Hooks] /\ revoked \in BOOLEAN
    <3>1. asking \in [Calls -> Nat \ {0}]
      BY DEF DispatchInit
    <3>2. faced \in [Calls -> SUBSET Hooks] /\ silent \in [Calls -> SUBSET Hooks]
      BY DEF DispatchInit
    <3>3. revoked \in BOOLEAN
      BY DEF DispatchInit
    <3>4. QED BY <3>1, <3>2, <3>3
  <2>4. QED BY <1>2, <2>1, <2>2, <2>3 DEF DispatchInit, DispatchShape
<1>4. LineInv
  BY <1>2 DEF DispatchInit, LineInv
<1>5. AskedInv
  BY DEF DispatchInit, AskedInv, AskedSoFar, Attempted
<1>6. BoxInv /\ BesideInv /\ LoneInv
  BY DEF DispatchInit, BoxInv, ReportsTrue, BesideInv, LoneInv, LoneWrite, Underway, Going
<1>7. QED BY <1>3, <1>4, <1>5, <1>6 DEF DispatchInv

\* What one call does, the others stay.
OthersSame(c) ==
  \A d \in Calls \ {c} : /\ oper'[d] = oper[d] /\ out'[d] = out[d] /\ handler'[d] = handler[d]
                         /\ asking'[d] = asking[d] /\ faced'[d] = faced[d] /\ silent'[d] = silent[d]

\* A call ends: it gives up the slot, and is settled if nobody has settled it.
LEMMA EndsIs ==
  ASSUME DispatchShape, NEW c \in Calls, NEW o \in Outcomes, Ends(c, o)
  PROVE  /\ handler' \in [Calls -> HandlerStates] /\ handler'[c] = "over"
         /\ oper' \in [Calls -> OperStates] /\ out' \in [Calls -> Outcomes]
         /\ \A d \in Calls \ {c} : handler'[d] = handler[d] /\ oper'[d] = oper[d] /\ out'[d] = out[d]
         /\ oper[c] = "open" => oper'[c] = "settled" /\ out'[c] = o
         /\ oper[c] # "open" => oper'[c] = oper[c] /\ out'[c] = out[c]
         /\ waitLine' = IF HasSlot(c) THEN Tail(waitLine) ELSE waitLine
BY ZenonT(60) DEF Ends, SettleOp, DispatchShape, OperStates, HandlerStates

\* The line loses its first, or nothing.
LEMMA LineShortens ==
  ASSUME DispatchShape, LineInv, NEW c \in Calls, HasSlot(c), waitLine' = Tail(waitLine)
  PROVE  /\ oper[c] = "open" /\ waitLine' \in Seq(Calls)
         /\ \A i \in DOMAIN waitLine' : i + 1 \in DOMAIN waitLine /\ waitLine'[i] = waitLine[i + 1]
                                        /\ waitLine'[i] # c
<1>1. waitLine \in Seq(Calls) /\ waitLine # <<>> /\ c = waitLine[1] /\ 1 \in DOMAIN waitLine
  BY DEF HasSlot, DispatchShape
<1>2. \A i \in DOMAIN waitLine' : i + 1 \in DOMAIN waitLine /\ waitLine'[i] = waitLine[i + 1] /\ i + 1 # 1
  BY <1>1
<1>3. QED BY <1>1, <1>2 DEF LineInv

\* What a call's step leaves of the line's invariant.
LEMMA LineEnds ==
  ASSUME DispatchShape, LineInv, NEW c \in Calls, OthersSame(c),
         oper'[c] # "new", handler'[c] # "waiting",
         \/ /\ waitLine' = waitLine /\ (HasSlot(c) \/ handler[c] # "waiting")
            /\ HasSlot(c) => oper'[c] = "open" /\ handler'[c] \in {"consulting", "running", "landed"}
         \/ HasSlot(c) /\ waitLine' = Tail(waitLine)
  PROVE  LineInv' /\ waitLine' \in Seq(Calls)
<1>1. waitLine \in Seq(Calls) /\ \A i \in DOMAIN waitLine : waitLine[i] \in Calls
  BY DEF DispatchShape
<1>2. \A d \in Calls \ {c} : oper'[d] = oper[d] /\ handler'[d] = handler[d]
  BY DEF OthersSame
<1>3. \A d \in Calls : /\ oper'[d] = "new" => handler'[d] = "idle"
                       /\ handler'[d] = "waiting" => oper'[d] = "open"
  BY <1>2 DEF LineInv
<1>4. CASE HasSlot(c) /\ waitLine' = Tail(waitLine)
  <2>1. /\ waitLine' \in Seq(Calls)
        /\ \A i \in DOMAIN waitLine' : i + 1 \in DOMAIN waitLine /\ waitLine'[i] = waitLine[i + 1]
                                       /\ waitLine'[i] # c
    BY <1>4, LineShortens
  <2>2. \A i, j \in DOMAIN waitLine' : i # j => i + 1 # j + 1
    BY <2>1
  <2>3. ASSUME NEW i \in DOMAIN waitLine'
        PROVE  /\ oper'[waitLine'[i]] = "open"
               /\ handler'[waitLine'[i]] \in {"waiting", "consulting", "running", "landed"}
               /\ i > 1 => handler'[waitLine'[i]] = "waiting"
    <3>1. i \in Nat \ {0} /\ i + 1 > 1
      BY <2>1
    <3>2. waitLine[i + 1] \in Calls \ {c} /\ waitLine'[i] = waitLine[i + 1] /\ i + 1 \in DOMAIN waitLine
      BY <1>1, <2>1
    <3>3. QED BY <1>2, <3>1, <3>2 DEF LineInv
  <2>4. ASSUME NEW i \in DOMAIN waitLine', NEW j \in DOMAIN waitLine', i # j PROVE waitLine'[i] # waitLine'[j]
    BY <2>1, <2>2, <2>4 DEF LineInv
  <2>5. QED BY <1>3, <2>1, <2>3, <2>4 DEF LineInv
<1>5. ASSUME waitLine' = waitLine, HasSlot(c) \/ handler[c] # "waiting",
             HasSlot(c) => oper'[c] = "open" /\ handler'[c] \in {"consulting", "running", "landed"}
      PROVE  LineInv' /\ waitLine' \in Seq(Calls)
  <2>1. ASSUME NEW i \in DOMAIN waitLine
        PROVE  /\ oper'[waitLine[i]] = "open"
               /\ handler'[waitLine[i]] \in {"waiting", "consulting", "running", "landed"}
               /\ i > 1 => handler'[waitLine[i]] = "waiting"
    <3>1. CASE waitLine[i] # c
      BY <1>1, <1>2, <3>1 DEF LineInv
    <3>2. CASE waitLine[i] = c
      <4>1. HasSlot(c) => i = 1
        <5>1. HasSlot(c) => 1 \in DOMAIN waitLine /\ waitLine[1] = c
          BY <1>1 DEF HasSlot
        <5>2. QED BY <3>2, <5>1 DEF LineInv
      <4>2. i = 1 => HasSlot(c)
        BY <1>1, <3>2 DEF HasSlot
      <4>3. i \in 1..Len(waitLine)
        BY <1>1
      <4>4. HasSlot(c) /\ i = 1
        BY <1>5, <3>2, <4>1, <4>2, <4>3 DEF LineInv
      <4>5. QED BY <1>5, <3>2, <4>4
    <3>3. QED BY <3>1, <3>2
  <2>2. QED BY <1>1, <1>3, <1>5, <2>1 DEF LineInv
<1>6. QED BY <1>4, <1>5

LEMMA AskedStays ==
  ASSUME NEW c \in Calls, AskedSoFar(c), refusers' = refusers, call' = call, revoked => revoked',
         c \in doomed' => c \in doomed, asking'[c] = asking[c], faced'[c] = faced[c],
         silent'[c] = silent[c], handler'[c] = handler[c]
  PROVE  AskedSoFar(c)'
BY DEF AskedSoFar, Consults, Attempted, Mutates

\* A step that leaves the mailbox and the reports.
LEMMA BoxStays ==
  ASSUME BoxInv, box' \subseteq box, reports' = reports, call' = call, late \subseteq late',
         beside \subseteq beside',
         \A w \in box' : (w \notin late => oper'[w] \in Going) /\ handler'[w] \in {"landed", "over"},
         \A r \in reports : /\ handler'[r.of] \in {"landed", "over"}
                            /\ oper'[r.as] \in {"proposed", "closed"} /\ out'[r.as] = out[r.as]
  PROVE  BoxInv'
BY DEF BoxInv, ReportsTrue, DidWork

LEMMA BesideStays ==
  ASSUME DispatchShape, BesideInv, NEW c \in Calls, OthersSame(c), beside' = beside,
         oper'[c] \in Going => oper[c] \in Going,
         Underway(c)' => Underway(c)
  PROVE  BesideInv'
<1>1. \A d \in Calls \ {c} : oper'[d] = oper[d] /\ handler'[d] = handler[d]
  BY DEF OthersSame
<1>2. \A d \in Calls : oper'[d] \in Going => oper[d] \in Going
  BY <1>1
<1>3. ASSUME NEW d \in Calls, NEW e \in Calls, d # e, oper'[d] \in Going, oper'[e] \in Going
      PROVE  {d, e} \in beside'
  BY <1>2, <1>3 DEF BesideInv
<1>4. ASSUME NEW d \in Calls, oper'[d] \in Going, Alone(d)', NEW e \in Calls \ {d}
      PROVE  ~Underway(e)'
  <2>1. Alone(d) /\ oper[d] \in Going
    BY <1>2, <1>4 DEF Alone
  <2>2. ~Underway(e)
    BY <2>1 DEF BesideInv
  <2>3. Underway(e)' => Underway(e)
    BY <1>1 DEF Underway
  <2>4. QED BY <2>2, <2>3
<1>5. QED BY <1>3, <1>4 DEF BesideInv

LEMMA LoneStays ==
  ASSUME NEW d \in Calls, LoneWrite(d), beside \subseteq beside', call' = call, oper'[d] = oper[d],
         out'[d] = out[d], handler'[d] = handler[d], reports \subseteq reports',
         box' = box \/ (Alone(d)' => oper[d] \notin Going)
  PROVE  LoneWrite(d)'
BY DEF LoneWrite, Alone, Going

-----------------------------------------------------------------------------
\* The steps of a call.
LEMMA ReceiveKeeps ==
  ASSUME DispatchInv, NEW c \in Calls, Receive(c)
  PROVE  DispatchInv'
<1>1. DispatchShape /\ LineInv /\ AskedInv /\ BoxInv /\ BesideInv /\ LoneInv
  BY DEF DispatchInv
<1>2. /\ oper[c] = "new" /\ handler[c] = "idle"
      /\ UNCHANGED <<call, seam, reports, late, consults>>
      /\ \A d \in Calls \ {c} : Underway(d) => {c, d} \in beside'
      /\ beside \subseteq beside'
  BY <1>1 DEF Receive, LineInv
<1>3. /\ oper' \in [Calls -> OperStates] /\ out' \in [Calls -> Outcomes] /\ handler' \in [Calls -> HandlerStates]
      /\ OthersSame(c)
      /\ \/ /\ oper'[c] = "closed" /\ out'[c] = "refused" /\ box' = {} /\ UNCHANGED <<handler, waitLine>>
         \/ /\ oper'[c] = "settled" /\ out'[c] = "refused" /\ UNCHANGED <<handler, waitLine, box>>
         \/ /\ oper'[c] = "open" /\ UNCHANGED <<out, box>>
            /\ \/ Mutates(c) /\ handler'[c] = "waiting" /\ waitLine' = Append(waitLine, c)
               \/ ~Mutates(c) /\ handler'[c] = "running" /\ waitLine' = waitLine
  <2>1. CASE ExecutorRefuses(c)
    BY <1>1, <1>2, <2>1 DEF ExecutorRefuses, OnClose, OthersSame, DispatchShape, OperStates, Outcomes, seam, consults
  <2>2. CASE GuardRefuses(c)
    BY <1>1, <1>2, <2>2 DEF GuardRefuses, SettleOp, OthersSame, DispatchShape, OperStates, Outcomes, seam, consults
  <2>3. CASE Begins(c)
    <3>1. PICK u : u \in BOOLEAN /\ u = Mutates(c)
      BY DEF Mutates
    <3>2. /\ oper' = [oper EXCEPT ![c] = "open"] /\ UNCHANGED <<out, box>>
          /\ handler' = [handler EXCEPT ![c] = IF u THEN "waiting" ELSE "running"]
          /\ waitLine' = IF u THEN Append(waitLine, c) ELSE waitLine
      BY <2>3, <3>1, Zenon DEF Begins
    <3>3. QED BY <1>1, <1>2, <3>1, <3>2 DEF OthersSame, DispatchShape, OperStates, HandlerStates, seam, consults
  <2>4. QED BY <2>1, <2>2, <2>3 DEF Receive
<1>4. /\ waitLine' \in Seq(Calls)
      /\ \A i \in DOMAIN waitLine' : \/ i \in DOMAIN waitLine /\ waitLine'[i] = waitLine[i]
                                     \/ /\ i = Len(waitLine) + 1 /\ waitLine'[i] = c /\ oper'[c] = "open"
                                        /\ handler'[c] = "waiting"
  <2>0. waitLine \in Seq(Calls)
    BY <1>1 DEF DispatchShape
  <2>1. CASE waitLine' = waitLine
    BY <2>0, <2>1
  <2>2. CASE waitLine' = Append(waitLine, c) /\ oper'[c] = "open" /\ handler'[c] = "waiting"
    BY <2>0, <2>2
  <2>3. QED BY <1>3, <2>1, <2>2
<1>5. DispatchShape'
  BY <1>1, <1>2, <1>3, <1>4 DEF DispatchShape, seam, consults
<1>6. LineInv'
  <2>1. \A i \in DOMAIN waitLine : waitLine[i] \in Calls /\ waitLine[i] # c
    BY <1>1, <1>2 DEF LineInv, DispatchShape
  <2>3. \A d \in Calls : /\ oper'[d] = "new" => handler'[d] = "idle"
                         /\ handler'[d] = "waiting" => oper'[d] = "open"
    BY <1>1, <1>2, <1>3 DEF LineInv, OthersSame
  <2>4. \A i \in DOMAIN waitLine' : /\ oper'[waitLine'[i]] = "open"
                                    /\ handler'[waitLine'[i]] \in {"waiting", "consulting", "running", "landed"}
                                    /\ i > 1 => handler'[waitLine'[i]] = "waiting"
    BY <1>1, <1>3, <1>4, <2>1 DEF LineInv, OthersSame
  <2>5. ASSUME NEW i \in DOMAIN waitLine', NEW j \in DOMAIN waitLine', i # j PROVE waitLine'[i] # waitLine'[j]
    BY <1>1, <1>4, <2>1, <2>5 DEF LineInv
  <2>6. \A i, j \in DOMAIN waitLine' : i # j => waitLine'[i] # waitLine'[j]
    BY <2>5
  <2>7. QED BY <2>3, <2>4, <2>6 DEF LineInv
<1>7. AskedInv'
  <2>1. ASSUME NEW d \in Calls, d # c PROVE AskedSoFar(d)'
    BY <1>1, <1>2, <1>3, <2>1, AskedStays DEF OthersSame, seam, consults, AskedInv
  <2>2. AskedSoFar(c)'
    <3>1. Attempted(c)' => FALSE
      BY <1>2, <1>3 DEF Attempted, Mutates
    <3>2. AskedSoFar(c)
      BY <1>1 DEF AskedInv
    <3>3. QED BY <1>2, <1>3, <3>1, <3>2 DEF AskedSoFar, seam, consults
  <2>3. QED BY <2>1, <2>2 DEF AskedInv
<1>8. BoxInv'
  <2>1. \A w \in box : w \in Calls \ {c}
    BY <1>1, <1>2 DEF BoxInv, DispatchShape
  <2>2. \A r \in reports : r.of \in Calls \ {c} /\ r.as \in Calls \ {c}
    BY <1>1, <1>2 DEF BoxInv, DispatchShape
  <2>3. /\ box' \subseteq box /\ reports' = reports /\ call' = call /\ late \subseteq late'
        /\ beside \subseteq beside'
    BY <1>2, <1>3
  <2>4. \A w \in box' : (w \notin late => oper'[w] \in Going) /\ handler'[w] \in {"landed", "over"}
    BY <1>1, <1>3, <2>1 DEF BoxInv, OthersSame
  <2>5. \A r \in reports : /\ handler'[r.of] \in {"landed", "over"}
                           /\ oper'[r.as] \in {"proposed", "closed"} /\ out'[r.as] = out[r.as]
    BY <1>1, <1>3, <2>2 DEF BoxInv, OthersSame
  <2>6. QED BY <1>1, <2>3, <2>4, <2>5, BoxStays
<1>9. \A d \in Calls \ {c} : (Underway(d)' => Underway(d)) /\ (oper'[d] \in Going => Underway(d))
  BY <1>3 DEF OthersSame, Underway, Going
<1>10. BesideInv'
  <2>1. ASSUME NEW d \in Calls, NEW e \in Calls, d # e, oper'[d] \in Going, oper'[e] \in Going
        PROVE  {d, e} \in beside'
    <3>1. CASE d # c /\ e # c
      BY <1>1, <1>2, <1>3, <2>1, <3>1 DEF OthersSame, BesideInv
    <3>2. CASE d = c
      BY <1>2, <1>9, <2>1, <3>2
    <3>3. CASE e = c
      <4>1. {c, d} \in beside' /\ {c, d} = {d, c}
        BY <1>2, <1>9, <2>1, <3>3
      <4>2. QED BY <3>3, <4>1
    <3>4. QED BY <3>1, <3>2, <3>3
  <2>2. ASSUME NEW d \in Calls, oper'[d] \in Going, Alone(d)', NEW e \in Calls \ {d} PROVE ~Underway(e)'
    <3>1. \A f \in Calls : {d, f} \notin beside' /\ {d, f} \notin beside
      BY <1>2, <2>2 DEF Alone
    <3>2. CASE d = c
      BY <1>2, <1>9, <2>2, <3>1, <3>2
    <3>3. CASE d # c
      <4>1. oper[d] \in Going /\ Alone(d)
        BY <1>3, <2>2, <3>1, <3>3 DEF OthersSame, Alone
      <4>2. {c, d} \in beside' /\ {c, d} = {d, c}
        BY <1>2, <1>9, <2>2, <3>3
      <4>3. QED BY <3>1, <4>2
    <3>4. QED BY <3>2, <3>3
  <2>3. QED BY <2>1, <2>2 DEF BesideInv
<1>11. LoneInv'
  <2>1. ASSUME NEW d \in Calls, d # c PROVE LoneWrite(d)'
    <3>1. Alone(d)' => oper[d] \notin Going
      <4>1. oper[d] \in Going => {c, d} \in beside' /\ {c, d} = {d, c}
        BY <1>2, <2>1 DEF Underway, Going
      <4>2. QED BY <4>1 DEF Alone
    <3>2. QED BY <1>1, <1>2, <1>3, <2>1, <3>1, LoneStays DEF OthersSame, LoneInv
  <2>2. LoneWrite(c)'
    <3>1. handler'[c] # "landed" /\ (oper'[c] = "open" \/ out'[c] = "refused")
      BY <1>2, <1>3
    <3>2. QED BY <3>1 DEF LoneWrite
  <2>3. QED BY <2>1, <2>2 DEF LoneInv
<1>12. QED BY <1>5, <1>6, <1>7, <1>8, <1>10, <1>11 DEF DispatchInv

\* A step that leaves the mailbox and the reports leaves what is said of them.
LEMMA QuietStep ==
  ASSUME DispatchInv, NEW c \in Calls, OthersSame(c), UNCHANGED <<call, box, written>>,
         handler[c] \in {"landed", "over"} => handler'[c] \in {"landed", "over"},
         oper[c] \in Going <=> oper'[c] \in Going,
         oper[c] \in {"proposed", "closed"} => oper'[c] = oper[c] /\ out'[c] = out[c],
         oper'[c] = "closed" => oper[c] = "closed", oper'[c] = "proposed" => oper[c] = "proposed",
         handler'[c] \in {"consulting", "running"} => Underway(c),
         oper'[c] = "open" /\ handler'[c] = "landed" => oper[c] = "open" /\ handler[c] = "landed",
         oper'[c] = "settled" /\ out'[c] = "completed" /\ call[c].sort = "write" =>
           \/ oper[c] = "open" /\ handler[c] = "landed"
           \/ oper[c] = "settled" /\ out[c] = "completed"
  PROVE  BoxInv' /\ BesideInv' /\ LoneInv'
<1>1. DispatchShape /\ BoxInv /\ BesideInv /\ LoneInv
  BY DEF DispatchInv
<1>2. UNCHANGED <<reports, beside, late>>
  BY DEF written
<1>3. BoxInv'
  <2>1. \A w \in box' : (w \notin late => oper'[w] \in Going) /\ handler'[w] \in {"landed", "over"}
    BY <1>1 DEF BoxInv, OthersSame, DispatchShape
  <2>2. \A r \in reports : /\ handler'[r.of] \in {"landed", "over"}
                           /\ oper'[r.as] \in {"proposed", "closed"} /\ out'[r.as] = out[r.as]
    BY <1>1 DEF BoxInv, OthersSame, DispatchShape
  <2>3. QED BY <1>1, <1>2, <2>1, <2>2, BoxStays
<1>4. BesideInv'
  <2>1. Underway(c)' => Underway(c)
    BY DEF Underway, Going
  <2>2. QED BY <1>1, <1>2, <2>1, BesideStays
<1>5. LoneInv'
  <2>1. ASSUME NEW d \in Calls, d # c PROVE LoneWrite(d)'
    BY <1>1, <1>2, <2>1, LoneStays DEF OthersSame, LoneInv
  <2>2. LoneWrite(c)'
    <3>1. LoneWrite(c)
      BY <1>1 DEF LoneInv
    <3>2. QED BY <1>2, <3>1 DEF LoneWrite, Alone
  <2>3. QED BY <2>1, <2>2 DEF LoneInv
<1>6. QED BY <1>3, <1>4, <1>5

\* The end of a call.
LEMMA EndsKeeps ==
  ASSUME DispatchInv, NEW c \in Calls, NEW o \in Outcomes, Ends(c, o),
         handler[c] \in {"waiting", "consulting", "running", "landed"},
         handler[c] = "waiting" => HasSlot(c),
         o = "completed" /\ call[c].sort = "write" => handler[c] = "landed",
         UNCHANGED <<call, box, written, seam, faced, silent>>,
         doomed' = doomed \/ (handler[c] = "waiting" /\ doomed' = doomed \cup {d \in {c} : revoked})
  PROVE  DispatchInv'
<1>1. DispatchShape /\ LineInv /\ AskedInv
  BY DEF DispatchInv
<1>2. UNCHANGED <<reports, refusers, asking, revoked>> /\ oper[c] # "new"
  BY <1>1 DEF written, seam, LineInv
<1>3. /\ handler' \in [Calls -> HandlerStates] /\ handler'[c] = "over"
      /\ oper' \in [Calls -> OperStates] /\ out' \in [Calls -> Outcomes]
      /\ \A d \in Calls \ {c} : handler'[d] = handler[d] /\ oper'[d] = oper[d] /\ out'[d] = out[d]
      /\ oper[c] = "open" => oper'[c] = "settled" /\ out'[c] = o
      /\ oper[c] # "open" => oper'[c] = oper[c] /\ out'[c] = out[c]
      /\ waitLine' = IF HasSlot(c) THEN Tail(waitLine) ELSE waitLine
  BY <1>1, EndsIs
<1>4. OthersSame(c)
  BY <1>2, <1>3 DEF OthersSame
<1>5. LineInv' /\ waitLine' \in Seq(Calls)
  BY <1>1, <1>2, <1>3, <1>4, LineEnds
<1>6. DispatchShape'
  BY <1>1, <1>2, <1>3, <1>5 DEF DispatchShape
<1>7. AskedInv'
  <2>1. ASSUME NEW d \in Calls, d # c PROVE AskedSoFar(d)'
    BY <1>1, <1>2, <1>4, <2>1, AskedStays DEF OthersSame, AskedInv
  <2>2. AskedSoFar(c)'
    BY <1>1, <1>2, <1>3 DEF AskedSoFar, AskedInv, Attempted
  <2>3. QED BY <2>1, <2>2 DEF AskedInv
<1>8. BoxInv' /\ BesideInv' /\ LoneInv'
  BY <1>2, <1>3, <1>4, QuietStep DEF Going
<1>9. QED BY <1>5, <1>6, <1>7, <1>8 DEF DispatchInv

LEMMA TakeTurnKeeps ==
  ASSUME DispatchInv, NEW c \in Calls, TakeTurn(c)
  PROVE  DispatchInv'
<1>1. DispatchShape /\ LineInv /\ AskedInv
  BY DEF DispatchInv
<1>2. /\ HasSlot(c) /\ handler[c] = "waiting" /\ oper[c] = "open"
      /\ doomed' = doomed \cup {d \in {c} : revoked}
      /\ UNCHANGED <<call, may, box, written, silent, seam, refusers, asking, revoked, expired>>
  BY <1>1 DEF TakeTurn, LineInv, seam
<1>3. ASSUME NEW o \in {"refused", "conflict"}, Ends(c, o), UNCHANGED faced PROVE DispatchInv'
  BY <1>2, <1>3, EndsKeeps DEF Outcomes
<1>4. ASSUME handler' = [handler EXCEPT ![c] = "consulting"], faced' = [faced EXCEPT ![c] = ToSet(refusers)],
             UNCHANGED <<oper, out, waitLine>>
      PROVE  DispatchInv'
  <2>1. ToSet(refusers) \subseteq Hooks /\ ToSet(refusers) = {refusers[i] : i \in DOMAIN refusers}
    BY <1>1 DEF ToSet, DispatchShape
  <2>2. OthersSame(c) /\ handler'[c] = "consulting" /\ faced'[c] = ToSet(refusers)
    BY <1>1, <1>2, <1>4 DEF OthersSame, DispatchShape
  <2>3. LineInv'
    BY <1>1, <1>2, <1>4, <2>2, LineEnds
  <2>4. DispatchShape'
    BY <1>1, <1>2, <1>4, <2>1 DEF DispatchShape, written, HandlerStates
  <2>5. AskedInv'
    <3>1. ASSUME NEW d \in Calls, d # c PROVE AskedSoFar(d)'
      BY <1>1, <1>2, <2>2, <3>1, AskedStays DEF OthersSame, AskedInv
    <3>2. AskedSoFar(c)'
      <4>1. silent[c] = {} /\ asking[c] = 1 /\ AskedSoFar(c)
        BY <1>1, <1>2 DEF AskedInv, AskedSoFar
      <4>2. Consults(c)'
        BY <1>1, <1>2, <2>1, <2>2, <4>1 DEF Consults, DispatchShape
      <4>3. QED BY <1>2, <2>2, <4>1, <4>2 DEF AskedSoFar, Attempted
    <3>3. QED BY <3>1, <3>2 DEF AskedInv
  <2>6. BoxInv' /\ BesideInv' /\ LoneInv'
    BY <1>2, <1>4, <2>2, QuietStep DEF Going, Underway
  <2>7. QED BY <2>3, <2>4, <2>5, <2>6 DEF DispatchInv
<1>5. QED BY <1>3, <1>4 DEF TakeTurn

LEMMA AskHookKeeps ==
  ASSUME DispatchInv, NEW c \in Calls, AskHook(c)
  PROVE  DispatchInv'
<1>1. DispatchShape /\ LineInv /\ AskedInv
  BY DEF DispatchInv
<1>2. /\ handler[c] = "consulting" /\ asking[c] \in DOMAIN refusers /\ asking[c] \in Nat
      /\ UNCHANGED <<call, box, refusers, revoked, expired, written, faced, doomed>>
  BY <1>1 DEF AskHook, DispatchShape
<1>3. ASSUME Ends(c, "refused"), UNCHANGED <<asking, silent>> PROVE DispatchInv'
  BY <1>2, <1>3, EndsKeeps DEF Outcomes, seam
<1>4. ASSUME NEW throws \in BOOLEAN, ~Refuses(refusers[asking[c]], throws),
             asking' = [asking EXCEPT ![c] = @ + 1],
             silent' = [silent EXCEPT ![c] = @ \cup {refusers[asking[c]] : t \in {throws} \ {TRUE}}],
             UNCHANGED <<oper, out, handler, waitLine>>
      PROVE  DispatchInv'
  <2>1. PICK g : g = refusers[asking[c]]
    OBVIOUS
  <2>2. g \in Hooks /\ ~throws /\ ~(g = Governing /\ revoked)
    BY <1>1, <1>2, <1>4, <2>1 DEF Refuses, DispatchShape
  <2>3. silent'[c] = silent[c] \cup {g} /\ asking'[c] = asking[c] + 1
    BY <1>1, <1>4, <2>1, <2>2 DEF DispatchShape
  <2>4. silent' \in [Calls -> SUBSET Hooks] /\ asking' \in [Calls -> Nat \ {0}] /\ OthersSame(c)
    <3>1. silent' = [silent EXCEPT ![c] = silent[c] \cup {g}]
      BY <1>4, <2>1, <2>2
    <3>2. asking' = [asking EXCEPT ![c] = asking[c] + 1]
      BY <1>4
    <3>3. silent' \in [Calls -> SUBSET Hooks] /\ \A d \in Calls \ {c} : silent'[d] = silent[d]
      BY <1>1, <2>2, <3>1 DEF DispatchShape
    <3>4. asking' \in [Calls -> Nat \ {0}] /\ \A d \in Calls \ {c} : asking'[d] = asking[d]
      BY <1>1, <3>2 DEF DispatchShape
    <3>5. QED BY <1>2, <1>4, <3>3, <3>4 DEF OthersSame
  <2>5. LineInv' /\ DispatchShape'
    <3>1. LineInv'
      BY <1>1, <1>4 DEF LineInv
    <3>2. DispatchShape'
      BY <1>1, <1>2, <1>4, <2>4 DEF DispatchShape, written
    <3>3. QED BY <3>1, <3>2
  <2>6. AskedInv'
    <3>1. ASSUME NEW d \in Calls, d # c PROVE AskedSoFar(d)'
      BY <1>1, <1>2, <1>4, <2>4, <3>1, AskedStays DEF OthersSame, AskedInv
    <3>2. AskedSoFar(c)'
      <4>1. Consults(c) /\ (c \in doomed => revoked /\ Governing \notin silent[c])
        BY <1>1, <1>2 DEF AskedInv, AskedSoFar
      <4>2. Consults(c)'
        <5>1. ASSUME NEW j \in DOMAIN refusers, j < asking[c] + 1, refusers[j] \notin silent[c] \cup {g}
              PROVE  j < asking[c]
          BY <1>1, <1>2, <2>1, <5>1 DEF DispatchShape
        <5>2. QED BY <1>2, <2>3, <4>1, <5>1 DEF Consults
      <4>3. QED BY <1>2, <1>4, <2>2, <2>3, <4>1, <4>2 DEF AskedSoFar, Attempted
    <3>3. QED BY <3>1, <3>2 DEF AskedInv
  <2>7. BoxInv' /\ BesideInv' /\ LoneInv'
    BY <1>2, <1>4, <2>4, QuietStep DEF Going, Underway
  <2>8. QED BY <2>5, <2>6, <2>7 DEF DispatchInv
<1>5. QED BY <1>3, <1>4 DEF AskHook

LEMMA AttemptKeeps ==
  ASSUME DispatchInv, NEW c \in Calls, Attempt(c)
  PROVE  DispatchInv'
<1>1. DispatchShape /\ LineInv /\ AskedInv
  BY DEF DispatchInv
<1>2. /\ handler[c] = "consulting" /\ asking[c] \in Nat /\ asking[c] > Len(refusers)
      /\ UNCHANGED <<call, may, box, seam, written, consults, refusers, asking, revoked, faced, silent, doomed>>
  BY <1>1 DEF Attempt, DispatchShape, seam, consults
<1>3. ASSUME Ends(c, "refused") PROVE DispatchInv'
  BY <1>2, <1>3, EndsKeeps DEF Outcomes
<1>4. ASSUME handler' = [handler EXCEPT ![c] = "running"], UNCHANGED <<oper, out, waitLine>>
      PROVE  DispatchInv'
  <2>1. /\ OthersSame(c) /\ handler'[c] = "running" /\ handler' \in [Calls -> HandlerStates]
        /\ oper[c] # "new"
    BY <1>1, <1>2, <1>4 DEF OthersSame, DispatchShape, HandlerStates, LineInv
  <2>2. LineInv'
    <3>1. HasSlot(c) => oper[c] = "open"
      <4>1. HasSlot(c) => 1 \in DOMAIN waitLine /\ waitLine[1] = c
        BY <1>1 DEF HasSlot, DispatchShape
      <4>2. QED BY <1>1, <4>1 DEF LineInv
    <3>2. QED BY <1>1, <1>2, <1>4, <2>1, <3>1, LineEnds
  <2>3. DispatchShape'
    BY <1>1, <1>2, <1>4, <2>1 DEF DispatchShape, written
  <2>4. AskedInv'
    <3>1. ASSUME NEW d \in Calls, d # c PROVE AskedSoFar(d)'
      BY <1>1, <1>2, <2>1, <3>1, AskedStays DEF OthersSame, AskedInv
    <3>2. AskedSoFar(c)'
      <4>1. Consults(c) /\ (c \in doomed => revoked /\ Governing \notin silent[c])
        BY <1>1, <1>2 DEF AskedInv, AskedSoFar
      <4>2. faced[c] \subseteq silent[c]
        <5>1. ASSUME NEW g \in faced[c], g \notin silent[c] PROVE FALSE
          <6>1. PICK i \in DOMAIN refusers : g = refusers[i]
            BY <4>1 DEF Consults
          <6>2. i < asking[c] /\ i >= i
            BY <1>1, <1>2 DEF DispatchShape
          <6>3. QED BY <4>1, <5>1, <6>1, <6>2 DEF Consults
        <5>2. QED BY <5>1
      <4>3. QED BY <1>2, <2>1, <4>1, <4>2 DEF AskedSoFar
    <3>3. QED BY <3>1, <3>2 DEF AskedInv
  <2>5. BoxInv' /\ BesideInv' /\ LoneInv'
    BY <1>2, <1>4, <2>1, QuietStep DEF Going, Underway
  <2>6. QED BY <2>2, <2>3, <2>4, <2>5 DEF DispatchInv
<1>5. QED BY <1>3, <1>4 DEF Attempt

LEMMA HandlerEndsKeeps ==
  ASSUME DispatchInv, NEW c \in Calls, HandlerEnds(c)
  PROVE  DispatchInv'
<1>1. PICK o \in Endings(c) : Ends(c, o)
  BY DEF HandlerEnds
<1>2. /\ o \in Outcomes /\ handler[c] \in {"running", "landed"}
      /\ o = "completed" /\ call[c].sort = "write" => handler[c] = "landed"
  BY <1>1 DEF Endings, Outcomes, Mutates
<1>3. UNCHANGED <<call, box, seam, written, faced, silent, doomed>>
  BY DEF HandlerEnds, consults
<1>4. QED BY <1>1, <1>2, <1>3, EndsKeeps

LEMMA AbandonKeeps ==
  ASSUME DispatchInv, NEW c \in Calls, Abandon(c)
  PROVE  DispatchInv'
<1>1. DispatchShape /\ LineInv /\ AskedInv
  BY DEF DispatchInv
<1>2. /\ HasSlot(c) /\ handler[c] \in {"consulting", "running", "landed"} /\ waitLine' = Tail(waitLine)
      /\ UNCHANGED <<call, may, handler, box, seam, written, consults, refusers, asking, revoked, faced,
                     silent, doomed>>
  BY DEF Abandon, seam, consults
<1>3. oper[c] = "open"
  BY <1>1, <1>2, LineShortens
<1>4. /\ OthersSame(c) /\ oper'[c] = "settled" /\ out'[c] = "uncertain"
      /\ oper' \in [Calls -> OperStates] /\ out' \in [Calls -> Outcomes]
  BY <1>1, <1>2 DEF Abandon, SettleOp, OthersSame, DispatchShape, OperStates, Outcomes
<1>5. LineInv' /\ waitLine' \in Seq(Calls)
  BY <1>1, <1>2, <1>4, LineEnds
<1>6. DispatchShape'
  BY <1>1, <1>2, <1>4, <1>5 DEF DispatchShape, written
<1>7. AskedInv'
  BY <1>1, <1>2, AskedStays DEF AskedInv
<1>8. BoxInv' /\ BesideInv' /\ LoneInv'
  BY <1>2, <1>3, <1>4, QuietStep DEF Going, Underway
<1>9. QED BY <1>5, <1>6, <1>7, <1>8 DEF DispatchInv

LEMMA LandChangeKeeps ==
  ASSUME DispatchInv, NEW c \in Calls, LandChange(c)
  PROVE  DispatchInv'
<1>1. DispatchShape /\ LineInv /\ AskedInv /\ BoxInv /\ BesideInv /\ LoneInv
  BY DEF DispatchInv
<1>2. /\ handler[c] = "running" /\ Mutates(c) /\ oper[c] # "new" /\ Underway(c)
      /\ box' = IF call[c].sort = "write" THEN {c} ELSE box
      /\ late' = late \cup {d \in {c} : oper[d] = "closed"}
      /\ UNCHANGED <<call, oper, out, waitLine, refusers, asking, revoked, faced, silent, doomed, reports, beside>>
  BY <1>1 DEF LandChange, seam, consults, LineInv, Underway
<1>3. OthersSame(c) /\ handler'[c] = "landed" /\ handler' \in [Calls -> HandlerStates]
  BY <1>1, <1>2 DEF LandChange, OthersSame, DispatchShape, HandlerStates
<1>4. LineInv'
  <2>1. HasSlot(c) => 1 \in DOMAIN waitLine /\ waitLine[1] = c
    BY <1>1 DEF HasSlot, DispatchShape
  <2>2. HasSlot(c) => oper[c] = "open"
    BY <1>1, <2>1 DEF LineInv
  <2>3. QED BY <1>1, <1>2, <1>3, <2>2, LineEnds
<1>5. DispatchShape'
  BY <1>1, <1>2, <1>3 DEF DispatchShape
<1>6. AskedInv'
  <2>1. ASSUME NEW d \in Calls, d # c PROVE AskedSoFar(d)'
    BY <1>1, <1>2, <1>3, <2>1, AskedStays DEF OthersSame, AskedInv
  <2>2. AskedSoFar(c)'
    BY <1>1, <1>2, <1>3 DEF AskedSoFar, AskedInv, Attempted
  <2>3. QED BY <2>1, <2>2 DEF AskedInv
<1>7. BoxInv'
  <2>1. ASSUME NEW d \in Calls, handler[d] \in {"landed", "over"} PROVE handler'[d] \in {"landed", "over"}
    BY <1>3, <2>1 DEF OthersSame
  <2>2. \A r \in reports : r.of \in Calls /\ r.as \in Calls
    BY <1>1 DEF DispatchShape
  <2>3. \A r \in reports : /\ handler'[r.of] \in {"landed", "over"} /\ r.of # c
                           /\ oper'[r.as] \in {"proposed", "closed"}
    BY <1>1, <1>2, <2>1, <2>2 DEF BoxInv
  <2>4. \A w \in box : w \in Calls /\ handler'[w] \in {"landed", "over"}
    BY <1>1, <2>1 DEF BoxInv, DispatchShape
  <2>5. CASE box' = box
    <3>1. \A w \in box' : (w \notin late => oper'[w] \in Going) /\ handler'[w] \in {"landed", "over"}
      BY <1>1, <1>2, <2>4, <2>5 DEF BoxInv
    <3>2. QED BY <1>1, <1>2, <2>3, <2>5, <3>1, BoxStays
  <2>6. CASE box' = {c}
    <3>1. c \in late' \/ oper'[c] \in Going
      BY <1>1, <1>2 DEF Going, DispatchShape, OperStates
    <3>2. ReportsTrue'
      BY <1>1, <1>2 DEF BoxInv, ReportsTrue, DidWork
    <3>3. QED BY <1>2, <1>3, <2>3, <2>6, <3>1, <3>2 DEF BoxInv
  <2>7. QED BY <1>2, <2>5, <2>6
<1>8. BesideInv'
  BY <1>1, <1>2, <1>3, BesideStays
<1>9. LoneInv'
  <2>1. ASSUME NEW d \in Calls, d # c PROVE LoneWrite(d)'
    <3>1. Alone(d)' => oper[d] \notin Going
      BY <1>1, <1>2, <2>1 DEF Alone, BesideInv
    <3>2. QED BY <1>1, <1>2, <1>3, <2>1, <3>1, LoneStays DEF OthersSame, LoneInv
  <2>2. LoneWrite(c)'
    BY <1>1, <1>2 DEF LoneInv, LoneWrite, Alone
  <2>3. QED BY <2>1, <2>2 DEF LoneInv
<1>10. QED BY <1>4, <1>5, <1>6, <1>7, <1>8, <1>9 DEF DispatchInv

LEMMA ProposeKeeps ==
  ASSUME DispatchInv, NEW c \in Calls, Propose(c)
  PROVE  DispatchInv'
<1>1. DispatchShape /\ LineInv /\ AskedInv /\ BoxInv /\ BesideInv /\ LoneInv
  BY DEF DispatchInv
<1>2. /\ oper[c] = "settled" /\ DidWork(out[c]) /\ box' = {} /\ Underway(c)
      /\ reports' = reports \cup {[of |-> w, as |-> c] : w \in Described(c)}
      /\ UNCHANGED <<call, out, handler, waitLine, refusers, asking, revoked, faced, silent, doomed, beside, late>>
  BY DEF Propose, Taken, seam, consults, Underway
<1>3. OthersSame(c) /\ oper'[c] = "proposed" /\ oper' \in [Calls -> OperStates]
  BY <1>1, <1>2 DEF Propose, OthersSame, DispatchShape, OperStates
<1>4. ~HasSlot(c) /\ handler[c] # "waiting"
  <2>1. HasSlot(c) => 1 \in DOMAIN waitLine /\ waitLine[1] = c
    BY <1>1 DEF HasSlot, DispatchShape
  <2>2. QED BY <1>1, <1>2, <2>1 DEF LineInv
<1>5. LineInv'
  BY <1>1, <1>2, <1>3, <1>4, LineEnds
<1>6. Described(c) \subseteq box /\ box \subseteq Calls
  BY <1>1 DEF Described, DispatchShape
<1>7. DispatchShape'
  <2>1. reports' \subseteq [of : Calls, as : Calls]
    BY <1>1, <1>2, <1>6 DEF DispatchShape
  <2>2. QED BY <1>1, <1>2, <1>3, <2>1 DEF DispatchShape
<1>8. AskedInv'
  BY <1>1, <1>2, AskedStays DEF AskedInv
<1>9. BoxInv'
  <2>1. \A r \in reports : r.of \in Calls /\ r.as \in Calls \ {c}
    BY <1>1, <1>2 DEF DispatchShape, BoxInv
  <2>2. \A r \in reports' : r \in reports \/ (r.as = c /\ r.of \in Described(c) /\ r = [of |-> r.of, as |-> c])
    BY <1>2
  <2>3. ASSUME NEW r \in reports' PROVE handler'[r.of] \in {"landed", "over"} /\ oper'[r.as] \in {"proposed", "closed"}
    <3>1. CASE r \in reports
      BY <1>1, <1>2, <1>3, <2>1, <3>1 DEF BoxInv, OthersSame
    <3>2. CASE r \notin reports
      BY <1>1, <1>2, <1>3, <1>6, <2>2, <3>2 DEF BoxInv
    <3>3. QED BY <3>1, <3>2
  <2>4. ASSUME NEW r \in reports', NEW s \in reports', r.of = s.of PROVE r = s
    <3>1. CASE r \in reports /\ s \in reports
      BY <1>1, <2>4, <3>1 DEF BoxInv, ReportsTrue
    <3>2. CASE r \notin reports /\ s \notin reports
      BY <2>2, <2>4, <3>2
    <3>3. CASE r \in reports /\ s \notin reports
      BY <1>1, <1>6, <2>2, <2>4, <3>3 DEF BoxInv
    <3>4. CASE r \notin reports /\ s \in reports
      BY <1>1, <1>6, <2>2, <2>4, <3>4 DEF BoxInv
    <3>5. QED BY <3>1, <3>2, <3>3, <3>4
  <2>5. ASSUME NEW r \in reports'
        PROVE  /\ call'[r.of].note = call'[r.as].note /\ DidWork(out'[r.as])
               /\ r.of = r.as \/ {r.of, r.as} \in beside' \/ r.of \in late'
    <3>1. CASE r \in reports
      BY <1>1, <1>2, <3>1 DEF BoxInv, ReportsTrue
    <3>2. CASE r \notin reports
      <4>1. r.as = c /\ r.of \in box /\ call[r.of].note = call[c].note
        BY <2>2, <3>2 DEF Described
      <4>2. r.of \in Calls /\ (r.of \in late \/ oper[r.of] \in Going)
        BY <1>1, <1>6, <4>1 DEF BoxInv
      <4>3. r.of # c /\ oper[r.of] \in Going => {r.of, c} \in beside
        BY <1>1, <1>2, <4>2 DEF BesideInv, Going
      <4>4. QED BY <1>2, <4>1, <4>2, <4>3
    <3>3. QED BY <3>1, <3>2
  <2>6. ReportsTrue'
    BY <2>4, <2>5 DEF ReportsTrue, DidWork
  <2>7. QED BY <1>2, <2>3, <2>6 DEF BoxInv
<1>10. BesideInv'
  <2>1. oper[c] \in Going
    BY <1>2 DEF Going
  <2>2. QED BY <1>1, <1>2, <1>3, <2>1, BesideStays
<1>11. LoneInv'
  <2>1. ASSUME NEW d \in Calls, d # c PROVE LoneWrite(d)'
    <3>1. Alone(d)' => oper[d] \notin Going
      BY <1>1, <1>2, <2>1 DEF Alone, BesideInv
    <3>2. QED BY <1>1, <1>2, <1>3, <2>1, <3>1, LoneStays DEF OthersSame, LoneInv
  <2>2. LoneWrite(c)'
    <3>1. LoneWrite(c)
      BY <1>1 DEF LoneInv
    <3>2. c \in box => [of |-> c, as |-> c] \in reports'
      BY <1>2 DEF Described
    <3>3. QED BY <1>2, <1>3, <3>1, <3>2 DEF LoneWrite, Alone
  <2>3. QED BY <2>1, <2>2 DEF LoneInv
<1>12. QED BY <1>5, <1>7, <1>8, <1>9, <1>10, <1>11 DEF DispatchInv

LEMMA CloseOpKeeps ==
  ASSUME DispatchInv, NEW c \in Calls, CloseOp(c)
  PROVE  DispatchInv'
<1>1. DispatchShape /\ LineInv /\ AskedInv /\ BoxInv /\ BesideInv /\ LoneInv
  BY DEF DispatchInv
<1>2. /\ oper[c] \in {"settled", "proposed"} /\ (oper[c] = "settled" => ~DidWork(out[c]))
      /\ box' = {} /\ Underway(c)
      /\ UNCHANGED <<call, out, handler, waitLine, refusers, asking, revoked, faced, silent, doomed,
                     reports, beside, late>>
  BY DEF CloseOp, OnClose, seam, written, consults, Underway
<1>3. OthersSame(c) /\ oper'[c] = "closed" /\ oper' \in [Calls -> OperStates]
  BY <1>1, <1>2 DEF CloseOp, OthersSame, DispatchShape, OperStates
<1>4. ~HasSlot(c) /\ handler[c] # "waiting"
  <2>1. HasSlot(c) => 1 \in DOMAIN waitLine /\ waitLine[1] = c
    BY <1>1 DEF HasSlot, DispatchShape
  <2>2. QED BY <1>1, <1>2, <2>1 DEF LineInv
<1>5. LineInv'
  BY <1>1, <1>2, <1>3, <1>4, LineEnds
<1>6. DispatchShape'
  BY <1>1, <1>2, <1>3 DEF DispatchShape
<1>7. AskedInv'
  BY <1>1, <1>2, AskedStays DEF AskedInv
<1>8. BoxInv'
  <2>1. \A r \in reports : r.of \in Calls /\ r.as \in Calls
    BY <1>1 DEF DispatchShape
  <2>2. \A r \in reports : /\ handler'[r.of] \in {"landed", "over"}
                           /\ oper'[r.as] \in {"proposed", "closed"} /\ out'[r.as] = out[r.as]
    BY <1>1, <1>2, <1>3, <2>1 DEF BoxInv, OthersSame
  <2>3. QED BY <1>1, <1>2, <2>2, BoxStays
<1>9. BesideInv'
  BY <1>1, <1>2, <1>3, BesideStays DEF Going
<1>10. LoneInv'
  <2>1. ASSUME NEW d \in Calls, d # c PROVE LoneWrite(d)'
    <3>1. Alone(d)' => oper[d] \notin Going
      BY <1>1, <1>2, <2>1 DEF Alone, BesideInv
    <3>2. QED BY <1>1, <1>2, <1>3, <2>1, <3>1, LoneStays DEF OthersSame, LoneInv
  <2>2. LoneWrite(c)'
    <3>1. LoneWrite(c)
      BY <1>1 DEF LoneInv
    <3>2. QED BY <1>2, <1>3, <3>1 DEF LoneWrite, Alone, DidWork
  <2>3. QED BY <2>1, <2>2 DEF LoneInv
<1>11. QED BY <1>5, <1>6, <1>7, <1>8, <1>9, <1>10 DEF DispatchInv

-----------------------------------------------------------------------------
\* What the providers and the human do.
LEMMA RevokedStays ==
  ASSUME DispatchInv, revoked' \in BOOLEAN, revoked => revoked',
         UNCHANGED <<call, oper, out, handler, waitLine, box, refusers, asking, written, consults>>
  PROVE  DispatchInv'
<1>1. DispatchShape /\ LineInv /\ AskedInv /\ BoxInv /\ BesideInv /\ LoneInv
  BY DEF DispatchInv
<1>2. UNCHANGED <<reports, beside, late, faced, silent, doomed>>
  BY DEF written, consults
<1>3. DispatchShape' /\ LineInv'
  BY <1>1, <1>2 DEF DispatchShape, LineInv
<1>4. AskedInv'
  BY <1>1, <1>2, AskedStays DEF AskedInv
<1>5. BoxInv'
  BY <1>1, <1>2 DEF BoxInv, ReportsTrue
<1>6. BesideInv' /\ LoneInv'
  BY <1>1, <1>2 DEF BesideInv, LoneInv, LoneWrite, Alone, Underway
<1>7. QED BY <1>3, <1>4, <1>5, <1>6 DEF DispatchInv

\* The list of hooks changes, and nothing else but what is faced.
LEMMA ListChanges ==
  ASSUME DispatchInv, UNCHANGED <<call, oper, out, handler, waitLine, box, asking, revoked, written,
                                  silent, doomed>>,
         refusers' \in Seq(Hooks), \A i, j \in DOMAIN refusers' : i # j => refusers'[i] # refusers'[j],
         faced' \in [Calls -> SUBSET Hooks], \A c \in Calls : faced'[c] \subseteq faced[c],
         \A c \in Calls : handler[c] = "consulting" => Consults(c)'
  PROVE  DispatchInv'
<1>1. DispatchShape /\ LineInv /\ AskedInv /\ BoxInv /\ BesideInv /\ LoneInv /\ UNCHANGED <<reports, beside, late>>
  BY DEF DispatchInv, written
<1>2. DispatchShape' /\ LineInv'
  BY <1>1 DEF DispatchShape, LineInv
<1>3. AskedInv'
  <2>1. ASSUME NEW c \in Calls PROVE AskedSoFar(c)'
    <3>1. AskedSoFar(c) /\ (handler[c] = "consulting" => Consults(c)') /\ faced'[c] \subseteq faced[c]
      BY <1>1 DEF AskedInv
    <3>2. QED BY <3>1 DEF AskedSoFar, Attempted, Mutates
  <2>2. QED BY <2>1 DEF AskedInv
<1>4. BoxInv'
  BY <1>1 DEF BoxInv, ReportsTrue
<1>5. BesideInv' /\ LoneInv'
  BY <1>1 DEF BesideInv, LoneInv, LoneWrite, Alone, Underway
<1>6. QED BY <1>2, <1>3, <1>4, <1>5 DEF DispatchInv

LEMMA RegisterHookKeeps ==
  ASSUME DispatchInv, NEW h \in Hooks, RegisterHook(h)
  PROVE  DispatchInv'
<1>1. DispatchShape /\ AskedInv
  BY DEF DispatchInv
<1>2. /\ refusers' = Append(refusers, h) /\ \A i \in DOMAIN refusers : refusers[i] # h
      /\ UNCHANGED <<call, oper, out, handler, waitLine, box, asking, revoked, written, silent, doomed, faced>>
  BY DEF RegisterHook, consults, ToSet
<1>3. /\ refusers' \in Seq(Hooks) /\ DOMAIN refusers' = 1..(Len(refusers) + 1) /\ Len(refusers) \in Nat
      /\ DOMAIN refusers = 1..Len(refusers)
      /\ refusers'[Len(refusers) + 1] = h /\ \A i \in DOMAIN refusers : refusers'[i] = refusers[i]
  BY <1>1, <1>2 DEF DispatchShape
<1>4. ASSUME NEW i \in DOMAIN refusers', NEW j \in DOMAIN refusers', i # j PROVE refusers'[i] # refusers'[j]
  <2>1. /\ i \in DOMAIN refusers \/ i = Len(refusers) + 1
        /\ j \in DOMAIN refusers \/ j = Len(refusers) + 1
    BY <1>3
  <2>2. QED BY <1>1, <1>2, <1>3, <1>4, <2>1 DEF DispatchShape
<1>5. ASSUME NEW c \in Calls, handler[c] = "consulting" PROVE Consults(c)'
  <2>1. Consults(c) /\ h \notin faced[c]
    BY <1>1, <1>2, <1>5 DEF AskedInv, AskedSoFar, Consults
  <2>2. faced'[c] \subseteq {refusers'[i] : i \in DOMAIN refusers'}
    BY <1>2, <1>3, <2>1 DEF Consults
  <2>3. ASSUME NEW j \in DOMAIN refusers', j < asking[c], refusers'[j] \notin silent[c],
               NEW i \in DOMAIN refusers', i >= j
        PROVE  refusers'[i] \notin faced[c]
    <3>1. CASE i = Len(refusers) + 1
      BY <1>3, <2>1, <3>1
    <3>2. CASE i \in DOMAIN refusers
      <4>1. j \in DOMAIN refusers
        BY <1>3, <2>3, <3>2
      <4>2. QED BY <1>3, <2>1, <2>3, <3>2, <4>1 DEF Consults
    <3>3. QED BY <1>3, <3>1, <3>2
  <2>4. QED BY <1>2, <2>2, <2>3 DEF Consults
<1>6. \A c \in Calls : faced'[c] \subseteq faced[c]
  BY <1>2
<1>7. faced' \in [Calls -> SUBSET Hooks]
  BY <1>1, <1>2 DEF DispatchShape
<1>8. QED BY <1>2, <1>3, <1>4, <1>5, <1>6, <1>7, ListChanges

LEMMA DisposeHookKeeps ==
  ASSUME DispatchInv, NEW h \in Hooks, DisposeHook(h)
  PROVE  DispatchInv'
<1>1. DispatchShape /\ AskedInv
  BY DEF DispatchInv
<1>2. PICK k \in DOMAIN refusers : refusers[k] = h /\ refusers' = RemoveAt(refusers, k)
  BY DEF DisposeHook
<1>3. /\ faced' = [c \in Calls |->
                    {g \in faced[c] \ {h} : h \in silent[c] =>
                       \E i, j \in DOMAIN refusers : refusers[i] = g /\ refusers[j] = h /\ i < j}]
      /\ UNCHANGED <<call, oper, out, handler, waitLine, box, asking, revoked, written, silent, doomed>>
  BY DEF DisposeHook
<1>4. /\ refusers' \in Seq(Hooks) /\ DOMAIN refusers' = 1..(Len(refusers) - 1) /\ Len(refusers) \in Nat
      /\ k \in 1..Len(refusers) /\ DOMAIN refusers = 1..Len(refusers)
      /\ \A i \in DOMAIN refusers' : refusers'[i] = IF i < k THEN refusers[i] ELSE refusers[i + 1]
  <2>1. refusers \in Seq(Hooks)
    BY <1>1 DEF DispatchShape
  <2>2. /\ RemoveAt(refusers, k) \in Seq(Hooks) /\ Len(RemoveAt(refusers, k)) = Len(refusers) - 1
        /\ \A i \in 1..(Len(refusers) - 1) :
             RemoveAt(refusers, k)[i] = IF i < k THEN refusers[i] ELSE refusers[i + 1]
    BY <2>1, OthersMoveUp
  <2>3. /\ refusers' \in Seq(Hooks) /\ Len(refusers') = Len(refusers) - 1
        /\ \A i \in 1..(Len(refusers) - 1) : refusers'[i] = IF i < k THEN refusers[i] ELSE refusers[i + 1]
    BY <1>2, <2>2
  <2>4. QED BY <2>1, <2>3
\* Where an entry that stays was before.
<1> DEFINE Was(i) == IF i < k THEN i ELSE i + 1
<1>5. \A i \in DOMAIN refusers' : /\ Was(i) \in DOMAIN refusers /\ Was(i) # k
                                  /\ refusers'[i] = refusers[Was(i)]
  BY <1>4
<1>6. \A i, j \in DOMAIN refusers' : /\ i # j => Was(i) # Was(j)
                                     /\ i >= j => Was(i) >= Was(j)
  BY <1>4
<1>7. \A i \in DOMAIN refusers \ {k} : \E e \in DOMAIN refusers' : Was(e) = i
  <2>1. ASSUME NEW i \in DOMAIN refusers, i # k PROVE \E e \in DOMAIN refusers' : Was(e) = i
    <3>1. CASE i < k
      <4>1. i \in DOMAIN refusers' /\ Was(i) = i
        BY <1>4, <2>1, <3>1
      <4>2. QED BY <4>1
    <3>2. CASE ~(i < k)
      <4>1. i - 1 \in DOMAIN refusers' /\ Was(i - 1) = i
        BY <1>4, <2>1, <3>2
      <4>2. QED BY <4>1
    <3>3. QED BY <3>1, <3>2
  <2>2. QED BY <2>1
<1>8. \A i, j \in DOMAIN refusers' : i # j => refusers'[i] # refusers'[j]
  BY <1>1, <1>5, <1>6 DEF DispatchShape
<1>9. faced' \in [Calls -> SUBSET Hooks] /\ \A c \in Calls : faced'[c] \subseteq faced[c]
  BY <1>1, <1>3 DEF DispatchShape
<1>10. ASSUME NEW c \in Calls, handler[c] = "consulting" PROVE Consults(c)'
  <2>1. Consults(c) /\ asking[c] \in Nat
    BY <1>1, <1>10 DEF AskedInv, AskedSoFar, DispatchShape
  <2>2. /\ faced'[c] \subseteq faced[c] \ {h}
        /\ h \in silent[c] => \A g \in faced'[c] :
             \E i, j \in DOMAIN refusers : refusers[i] = g /\ refusers[j] = h /\ i < j
    BY <1>3
  <2>3. faced'[c] \subseteq {refusers'[i] : i \in DOMAIN refusers'}
    <3>1. ASSUME NEW g \in faced'[c] PROVE \E e \in DOMAIN refusers' : refusers'[e] = g
      <4>1. PICK i \in DOMAIN refusers : refusers[i] = g /\ i # k
        BY <1>2, <2>1, <2>2 DEF Consults
      <4>2. QED BY <1>5, <1>7, <4>1
    <3>2. QED BY <3>1
  <2>4. ASSUME NEW j \in DOMAIN refusers', j < asking[c], refusers'[j] \notin silent[c],
               NEW i \in DOMAIN refusers', i >= j, refusers'[i] \in faced'[c]
        PROVE  FALSE
    <3>1. /\ Was(i) \in DOMAIN refusers /\ Was(j) \in DOMAIN refusers /\ Was(i) >= Was(j)
          /\ refusers'[i] = refusers[Was(i)] /\ refusers'[j] = refusers[Was(j)]
          /\ refusers[Was(i)] \in faced[c]
      BY <1>5, <1>6, <2>2, <2>4
    <3>2. CASE Was(j) < asking[c]
      BY <2>1, <2>4, <3>1, <3>2 DEF Consults
    <3>3. CASE ~(Was(j) < asking[c])
      <4>1. k < asking[c] /\ Was(i) > k
        BY <1>4, <2>1, <2>4, <3>1, <3>3
      <4>2. CASE h \notin silent[c]
        BY <1>2, <1>4, <2>1, <3>1, <4>1, <4>2 DEF Consults
      <4>3. CASE h \in silent[c]
        <5>1. PICK a \in DOMAIN refusers, b \in DOMAIN refusers :
                refusers[a] = refusers'[i] /\ refusers[b] = h /\ a < b
          BY <2>2, <2>4, <4>3
        <5>2. a = Was(i) /\ b = k
          BY <1>1, <1>2, <3>1, <5>1 DEF DispatchShape
        <5>3. QED BY <1>4, <4>1, <5>1, <5>2
      <4>4. QED BY <4>2, <4>3
    <3>4. QED BY <3>2, <3>3
  <2>5. QED BY <1>3, <2>3, <2>4 DEF Consults
<1>11. QED BY <1>3, <1>4, <1>8, <1>9, <1>10, ListChanges

LEMMA DispatchStep == DispatchInv /\ [DispatchNext]_dvars => DispatchInv'
<1> SUFFICES ASSUME DispatchInv, [DispatchNext]_dvars PROVE DispatchInv'
  OBVIOUS
<1>1. CASE UNCHANGED dvars
  BY <1>1, RevokedStays DEF dvars, seam, DispatchInv, DispatchShape
<1>2. ASSUME NEW c \in Calls,
             \/ Receive(c) \/ TakeTurn(c) \/ AskHook(c) \/ Attempt(c) \/ LandChange(c)
             \/ HandlerEnds(c) \/ Abandon(c) \/ Propose(c) \/ CloseOp(c)
      PROVE  DispatchInv'
  BY <1>2, ReceiveKeeps, TakeTurnKeeps, AskHookKeeps, AttemptKeeps, LandChangeKeeps, HandlerEndsKeeps,
     AbandonKeeps, ProposeKeeps, CloseOpKeeps
<1>3. CASE RevokeOrExpire
  BY <1>3, RevokedStays DEF RevokeOrExpire, DispatchInv, DispatchShape
<1>4. ASSUME NEW h \in Hooks, DisposeHook(h) \/ RegisterHook(h) PROVE DispatchInv'
  BY <1>4, DisposeHookKeeps, RegisterHookKeeps
<1>5. QED BY <1>1, <1>2, <1>3, <1>4 DEF DispatchNext

LEMMA DispatchInvSafe == DispatchInv => DispatchSafe
<1> SUFFICES ASSUME DispatchInv PROVE DispatchSafe
  OBVIOUS
<1>1. DispatchShape /\ AskedInv /\ BoxInv /\ LoneInv
  BY DEF DispatchInv
<1>2. DispatchTypeOK
  BY <1>1 DEF DispatchTypeOK, DispatchShape, ToSet, Outcomes
<1>3. AskedAll
  BY <1>1 DEF AskedAll, AskedInv, AskedSoFar
<1>4. ReportsTrue
  BY <1>1 DEF BoxInv
<1>5. ReportedAlone
  BY <1>1 DEF ReportedAlone, LoneInv, LoneWrite, Alone
<1>6. QED BY <1>2, <1>3, <1>4, <1>5 DEF DispatchSafe

\* A mutation is attempted only when every hook it had to face was asked and was silent,
\* and the bytes of a write are reported once at most, under a name that is true of them,
\* and when nothing ran beside it, under its own (executor.ts, guarded.ts, seam.ts, server.ts).
THEOREM DispatchIsSafe == DispatchSpec => []DispatchSafe
<1>1. QED BY DispatchInvInit, DispatchStep, DispatchInvSafe, PTL DEF DispatchSpec

=============================================================================
