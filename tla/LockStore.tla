------------------------------- MODULE LockStore -------------------------------
(***************************************************************************)
(* Advisory locks (packages/host/src/kernel/locks.ts and the tools over    *)
(* them, mcp/tools-locks.ts): the store of live claims, whose expiry is    *)
(* lazy (every method drops the expired claims first), whose caps refuse   *)
(* and never evict, and in which claiming a scope again refreshes the      *)
(* claim the holder has.  A scope is a path: the sequence of its segments, *)
(* the empty one for the whole vault.  Reasons are left out.               *)
(***************************************************************************)
EXTENDS Naturals, Sequences, FiniteSets, SequencesExt

CONSTANTS
  Holders,            \* client#connection
  RawScopes,          \* the scopes callers name, before they are normalized
  Paths,              \* the paths that writes name
  Allowlists,         \* the allowlists the settings may hold; {} is none
  Up, Here,           \* the segments ".." and "."
  TtlMin, TtlMax,     \* LOCK_TTL_MIN_MS, LOCK_TTL_MAX_MS
  Ttls,               \* the lifetimes callers ask for
  LockMax, LockMaxPerHolder,
  MaxNow, MaxIds      \* bounds: the clock and the claims ever made

ASSUME LockAssumption ==
  /\ TtlMin \in Nat /\ TtlMin > 0 /\ TtlMax \in Nat /\ TtlMin <= TtlMax
  /\ Ttls \subseteq Nat
  /\ LockMax \in Nat /\ LockMaxPerHolder \in Nat /\ MaxNow \in Nat /\ MaxIds \in Nat

VARIABLES
  locks,       \* the claims in the store: [id, scope, holder, expiresAt]
  now,         \* the clock
  lockSeq,     \* the ids handed out
  allowlist,   \* the settings' allowlist
  notices      \* the claims the last write was told of

lvars == <<locks, now, lockSeq, allowlist, notices>>

-----------------------------------------------------------------------------
(***************************************************************************)
(* normalizeScope: "." and ".." are resolved segment by segment; a scope   *)
(* that climbs out of the vault is an error.                               *)
(***************************************************************************)
Escaped == <<Up>>

Step(seg, done) ==
  IF seg = Here \/ done = Escaped THEN done
  ELSE IF seg # Up THEN Append(done, seg)
  ELSE IF done = <<>> THEN Escaped
  ELSE Front(done)

normalizeScope(s) == FoldLeft(LAMBDA done, seg : Step(seg, done), <<>>, s)

\* scopeCovers and scopesOverlap: prefixes, at a segment boundary.
scopeCovers(s, p) == IsPrefix(s, p)
scopesOverlap(a, b) == scopeCovers(a, b) \/ scopeCovers(b, a)

\* scopeRefusal: under an allowlist a claim lies inside it, and is not on the
\* whole vault.
Allowed(s) == allowlist # {} => s # <<>> /\ \E a \in allowlist : scopeCovers(a, s)

Scopes == {normalizeScope(r) : r \in RawScopes} \ {Escaped}

\* Mutant of Clamped: no ceiling.
ClampedUp(ttl) == IF ttl < TtlMin THEN TtlMin ELSE ttl

\* A lifetime is clamped into its range.
Clamped(ttl) == IF ttl < TtlMin THEN TtlMin ELSE IF ttl > TtlMax THEN TtlMax ELSE ttl

\* Mutant of Live: a claim is kept a tick too long.
LiveTooLong == {l \in locks : l.expiresAt >= now}

\* prune: the claims that have not expired.
Live == {l \in locks : l.expiresAt > now}

Of(h) == {l \in Live : l.holder = h}

LockInit ==
  /\ locks = {} /\ now = 0 /\ lockSeq = 0
  /\ allowlist = {} /\ notices = {}

\* claim, of a scope the holder has already: the claim keeps its id.
Refresh(h, raw, ttl) ==
  LET s == normalizeScope(raw)
  IN  /\ s # Escaped /\ Allowed(s)
      /\ \E held \in Of(h) :
           /\ held.scope = s
           /\ locks' = (Live \ {held}) \cup {[held EXCEPT !.expiresAt = now + Clamped(ttl)]}
      /\ UNCHANGED <<now, lockSeq, allowlist, notices>>

\* Mutants of Claim: at a cap the oldest claim makes room; a claim on a scope the
\* holder has adds a second one; the caps are off by one.
ClaimEvicting(h, raw, ttl) ==
  LET s == normalizeScope(raw)
  IN  /\ s # Escaped /\ Allowed(s) /\ lockSeq < MaxIds
      /\ ~\E held \in Of(h) : held.scope = s
      /\ \E gone \in SUBSET Live :
           /\ Cardinality(gone) = IF Cardinality(Live) < LockMax THEN 0 ELSE 1
           /\ locks' = (Live \ gone) \cup {[id |-> lockSeq + 1, scope |-> s, holder |-> h,
                                            expiresAt |-> now + Clamped(ttl)]}
      /\ lockSeq' = lockSeq + 1
      /\ UNCHANGED <<now, allowlist, notices>>

ClaimOverCap(h, raw, ttl) ==
  LET s == normalizeScope(raw)
  IN  /\ s # Escaped /\ Allowed(s) /\ lockSeq < MaxIds
      /\ ~\E held \in Of(h) : held.scope = s
      /\ Cardinality(Of(h)) <= LockMaxPerHolder /\ Cardinality(Live) <= LockMax
      /\ locks' = Live \cup {[id |-> lockSeq + 1, scope |-> s, holder |-> h,
                              expiresAt |-> now + Clamped(ttl)]}
      /\ lockSeq' = lockSeq + 1
      /\ UNCHANGED <<now, allowlist, notices>>

ClaimTwice(h, raw, ttl) ==
  LET s == normalizeScope(raw)
  IN  /\ s # Escaped /\ Allowed(s) /\ lockSeq < MaxIds
      /\ Cardinality(Of(h)) < LockMaxPerHolder /\ Cardinality(Live) < LockMax
      /\ locks' = Live \cup {[id |-> lockSeq + 1, scope |-> s, holder |-> h,
                              expiresAt |-> now + Clamped(ttl)]}
      /\ lockSeq' = lockSeq + 1
      /\ UNCHANGED <<now, allowlist, notices>>

\* claim, of a new scope.
Claim(h, raw, ttl) ==
  LET s == normalizeScope(raw)
  IN  /\ s # Escaped /\ Allowed(s) /\ lockSeq < MaxIds
      /\ ~\E held \in Of(h) : held.scope = s
      /\ Cardinality(Of(h)) < LockMaxPerHolder /\ Cardinality(Live) < LockMax
      /\ locks' = Live \cup {[id |-> lockSeq + 1, scope |-> s, holder |-> h,
                              expiresAt |-> now + Clamped(ttl)]}
      /\ lockSeq' = lockSeq + 1
      /\ UNCHANGED <<now, allowlist, notices>>

\* claim, refused: outside the allowlist before the store is asked, out of the
\* vault, or at a cap.
ClaimRefused(h, raw) ==
  LET s == normalizeScope(raw)
  IN  \/ /\ s = Escaped \/ ~Allowed(s)
         /\ locks' = IF allowlist = {} THEN Live ELSE locks
         /\ UNCHANGED <<now, lockSeq, allowlist, notices>>
      \/ /\ s # Escaped /\ Allowed(s) /\ ~\E held \in Of(h) : held.scope = s
         /\ Cardinality(Of(h)) >= LockMaxPerHolder \/ Cardinality(Live) >= LockMax
         /\ locks' = Live
         /\ UNCHANGED <<now, lockSeq, allowlist, notices>>

\* Mutant of Renew: anyone who knows the id renews, and takes the claim over.
RenewTakesOver(h, id, ttl) ==
  /\ \E held \in Live :
       /\ held.id = id
       /\ locks' = (Live \ {held}) \cup {[held EXCEPT !.expiresAt = now + Clamped(ttl),
                                                      !.holder = h]}
  /\ UNCHANGED <<now, lockSeq, allowlist, notices>>

\* renew: a holder's own live claim.
Renew(h, id, ttl) ==
  /\ \E held \in Of(h) :
       /\ held.id = id
       /\ locks' = (Live \ {held}) \cup {[held EXCEPT !.expiresAt = now + Clamped(ttl)]}
  /\ UNCHANGED <<now, lockSeq, allowlist, notices>>

release(h, id) ==
  /\ \E held \in Of(h) : held.id = id /\ locks' = Live \ {held}
  /\ UNCHANGED <<now, lockSeq, allowlist, notices>>

\* renew or release of a claim that expired, was released or is another's.
Miss(h, id) ==
  /\ ~\E held \in Of(h) : held.id = id
  /\ locks' = Live
  /\ UNCHANGED <<now, lockSeq, allowlist, notices>>

\* list: nothing but the pruning.
List ==
  /\ locks' = Live
  /\ UNCHANGED <<now, lockSeq, allowlist, notices>>

\* coveringAny: a write by h on paths ps, which is told and not stopped.
WriteTold(h, ps) ==
  /\ notices' = {l \in Live : l.holder # h /\ \E p \in ps : scopeCovers(l.scope, p)}
  /\ locks' = Live
  /\ UNCHANGED <<now, lockSeq, allowlist>>

Tick ==
  /\ now < MaxNow /\ now' = now + 1
  /\ UNCHANGED <<locks, lockSeq, allowlist, notices>>

\* A reload of the plugin: a store of its own, and nothing in it.
StoreReloads ==
  /\ locks' = {}
  /\ UNCHANGED <<now, lockSeq, allowlist, notices>>

SettingsChange ==
  /\ allowlist' \in Allowlists
  /\ UNCHANGED <<locks, now, lockSeq, notices>>

LockNext ==
  \/ \E h \in Holders, raw \in RawScopes :
       ClaimRefused(h, raw) \/ \E ttl \in Ttls : Claim(h, raw, ttl) \/ Refresh(h, raw, ttl)
  \/ \E h \in Holders, id \in 1..MaxIds :
       release(h, id) \/ Miss(h, id) \/ \E ttl \in Ttls : Renew(h, id, ttl)
  \/ \E h \in Holders, ps \in SUBSET Paths : WriteTold(h, ps)
  \/ List \/ Tick \/ StoreReloads \/ SettingsChange

LockSpec == LockInit /\ [][LockNext]_lvars

-----------------------------------------------------------------------------
\* Every variable has its type: ids are those handed out, and no claim lives past
\* the longest lifetime from now.
LockTypeOK ==
  /\ now \in Nat /\ lockSeq \in Nat
  /\ locks \subseteq [id : 1..lockSeq, scope : Scopes, holder : Holders,
                      expiresAt : 1..now + TtlMax]
  /\ allowlist \in Allowlists \cup {{}}

\* A holder has one claim per scope and an id names one claim: so a claim that was
\* refreshed any number of times is gone with one release (claim, LockStore.locks).
OneClaim ==
  \A a, b \in locks : a # b => a.id # b.id /\ (a.holder # b.holder \/ a.scope # b.scope)

\* The live claims keep within both caps through refreshes, renewals and expiry
\* (LockCapError).
CapsKept ==
  /\ Cardinality(Live) <= LockMax
  /\ \A h \in Holders : Cardinality(Of(h)) <= LockMaxPerHolder

-----------------------------------------------------------------------------
\* Lazy expiry cannot be told from a table that drops each claim on time.
Standing(S) == {[holder |-> l.holder, scope |-> l.scope, until |-> l.expiresAt] : l \in S}

Table == INSTANCE ClaimTable WITH
  ClaimHolders <- Holders, ClaimScopes <- Scopes, ClaimPaths <- Paths,
  Untils <- 1..MaxNow + TtlMax,
  CoversPath <- scopeCovers,
  standing <- Standing(Live), clock <- now, told <- Standing(notices)

\* The store does what the table of claims promises (every method of LockStore).
KeepsClaims == Table!TableSpec

\* What the store holds: one claim of a holder and scope, within both caps.
LocksSafe == LockTypeOK /\ OneClaim /\ CapsKept

=============================================================================
