------------------------------- MODULE Admission -------------------------------
(***************************************************************************)
(* Admission (packages/governor/src/kernel/admission/service.ts and        *)
(* wiring/admission-wiring.ts): a human's click on Admit, for one proposal *)
(* or for a frozen cohort, from the click to the answer it is given.       *)
(*                                                                         *)
(* A call is one click.  Its decision is the exact subject it covers: the  *)
(* digest of one proposal, or of a cohort.  A claim is named by the call   *)
(* that stored it.  The wiring is built afresh for every mount of the      *)
(* review pane, so each mount has its own serializing chain and its own    *)
(* cache of the claim store; the claim file, the standing ref, the         *)
(* settlement log and the proposal store are shared.                       *)
(***************************************************************************)
EXTENDS Naturals, Sequences

CONSTANTS
  Calls, Decisions, Proposals, Gestures,
  DecisionOf,  \* the decision a call asks for
  GestureOf,   \* the gesture reference a call presents
  MembersOf,   \* the proposals a decision covers
  Cohorts,     \* the decisions that are frozen cohorts
  MaxMounts,   \* how often the pane is mounted
  MaxFaults,   \* how many reads and writes fail
  Remounts,    \* whether the pane is mounted again while the process runs
  Crashes,     \* whether the process may crash
  SlowReads,   \* whether a cold read of the claim file may be overtaken
  Nil          \* no value: an unread head, a cold cache

ASSUME AdmissionAssumption ==
  /\ DecisionOf \in [Calls -> Decisions]
  /\ GestureOf \in [Calls -> Gestures]
  /\ MembersOf \in [Decisions -> SUBSET Proposals]
  /\ Cohorts \subseteq Decisions
  /\ MaxMounts \in Nat /\ MaxMounts > 0
  /\ MaxFaults \in Nat
  /\ Nil \notin Seq(Calls)

VARIABLES
  mount,     \* the pane mounted last
  oldest,    \* the oldest mount of this process
  chain,     \* chain[m]: the calls in mount m's admission chain, running first
  cache,     \* cache[m]: the claims mount m believes are stored, or Nil
  reading,   \* reading[m]: what an unfinished cold read of the claim file saw
  claims,    \* the claim file
  standing,  \* the standing ref: the chain of admission commits it names
  settled,   \* the claims with a settlement record
  proposal,  \* proposal[p]: its authority axis
  note,      \* note[p]: whether the note still holds the proposed bytes
  pc,        \* pc[c]: how far call c has come
  via,       \* via[c]: the mount it was made in
  preHead,   \* preHead[c]: standing as read at the click, or Nil
  fit,       \* fit[c]: its members were proposed, and unchanged, at the click
  expected,  \* expected[c]: the standing its compare-and-swap expects
  outcome,   \* outcome[c]: what the human is told
  faulty     \* the calls that met a failing read or write, in order

stores == <<claims, standing, settled, proposal, note>>
local  == <<mount, oldest, chain, cache, reading>>
call   == <<pc, via, preHead, fit, expected, outcome, faulty>>
vars   == <<stores, local, call>>

Stages   == {"idle", "clicked", "queued", "verified", "claiming", "claimed",
             "advanced", "stood", "threw", "done"}
Refusals == {"refused", "gesture_replayed", "already_admitted", "standing_moved"}
Outcomes == Refusals \cup {"none", "ok", "degraded", "error", "lost"}
InChain  == {"queued", "verified", "claiming", "claimed", "advanced"}
Mounts   == 1..MaxMounts

AdmissionInit ==
  /\ mount = 1
  /\ oldest = 1
  /\ chain = [m \in Mounts |-> <<>>]
  /\ cache = [m \in Mounts |-> Nil]
  /\ reading = [m \in Mounts |-> Nil]
  /\ claims = <<>>
  /\ standing = <<>>
  /\ settled = {}
  /\ proposal = [p \in Proposals |-> "proposed"]
  /\ note = [p \in Proposals |-> "proposed"]
  /\ pc = [c \in Calls |-> "idle"]
  /\ via = [c \in Calls |-> 1]
  /\ preHead = [c \in Calls |-> Nil]
  /\ fit = [c \in Calls |-> FALSE]
  /\ expected = [c \in Calls |-> <<>>]
  /\ outcome = [c \in Calls |-> "none"]
  /\ faulty = <<>>

-----------------------------------------------------------------------------
Elements(s) == {s[n] : n \in DOMAIN s}
Head1(s)    == IF s = <<>> THEN Nil ELSE s[Len(s)]   \* the claim a ref names
Members(c)  == MembersOf[DecisionOf[c]]
IsCohort(c) == DecisionOf[c] \in Cohorts

Stands(c)          == c \in Elements(standing)
DecisionStands(d)  == \E c \in Elements(standing) : DecisionOf[c] = d
Unchanged(c)       == \A p \in Members(c) : note[p] = "proposed"

\* The claim store of mount m: its cache, read from the file when cold.
View(m) == IF cache[m] = Nil THEN claims ELSE cache[m]
Warm(m) == cache' = [cache EXCEPT ![m] = View(m)]

\* Mutant of BySubject: a claim that shares a member answers for a decision.
BySubjectOverlap(m, d) ==
  {c \in Elements(View(m)) : MembersOf[DecisionOf[c]] \cap MembersOf[d] # {}}

BySubject(m, d) == {c \in Elements(View(m)) : DecisionOf[c] = d}

\* A read or write that fails, for call c.
Fault(c) == Len(faulty) < MaxFaults /\ faulty' = Append(faulty, c)

Running(c) == chain[via[c]] # <<>> /\ Head(chain[via[c]]) = c
Leaves(c)  == chain' = [chain EXCEPT ![via[c]] = Tail(@)]   \* of a running call
At(c, stage)     == pc' = [pc EXCEPT ![c] = stage]
Answer(c, what)  == At(c, "done") /\ outcome' = [outcome EXCEPT ![c] = what]

\* Mutant of Stamp: a cohort's first member alone is caught up.
StampFirst(c, S) ==
  proposal' = [p \in Proposals |->
                 IF S # {} /\ p = (CHOOSE q \in S : TRUE) /\ proposal[p] = "proposed"
                   THEN "admitted" ELSE proposal[p]]

\* Proposals that a projection update marks admitted: the transition functions
\* refuse one that is no longer proposed, and any single update may fail.
Stamp(c, S) ==
  proposal' = [p \in Proposals |->
                 IF p \in S /\ proposal[p] = "proposed" THEN "admitted" ELSE proposal[p]]
StampSome(c) ==
  \/ Stamp(c, Members(c)) /\ UNCHANGED faulty
  \/ Fault(c) /\ \E S \in SUBSET Members(c) : S # Members(c) /\ Stamp(c, S)

(***************************************************************************)
(* The wiring, before the service.  Click reads standing and the proposals;*)
(* Observe refuses what already stands, re-reads the note bytes, and hands *)
(* the call to the service.                                                *)
(***************************************************************************)
Click(c, m) ==
  /\ pc[c] = "idle"
  /\ m \in oldest..mount
  /\ via' = [via EXCEPT ![c] = m]
  /\ fit' = [fit EXCEPT ![c] = \A p \in Members(c) : proposal[p] = "proposed"]
  /\ \/ preHead' = [preHead EXCEPT ![c] = standing] /\ UNCHANGED faulty
     \/ Fault(c) /\ UNCHANGED preHead
  /\ At(c, "clicked")
  /\ UNCHANGED <<stores, local, expected, outcome>>

\* The claims that answer the click at once: for one proposal the claim
\* standing names, for a cohort any claim in the store.
Answering(c) ==
  {x \in BySubject(via[c], DecisionOf[c]) :
     IsCohort(c) \/ (preHead[c] # Nil /\ Head1(preHead[c]) = x)}

ObserveAnswered(c) ==
  /\ pc[c] = "clicked"
  /\ Answering(c) # {}
  /\ Warm(via[c])
  /\ StampSome(c)
  /\ Answer(c, "already_admitted")
  /\ UNCHANGED <<claims, standing, settled, note, mount, oldest, chain, reading,
                 via, preHead, fit, expected>>

ObserveDrifted(c) ==
  /\ pc[c] = "clicked"
  /\ Answering(c) = {}
  /\ IsCohort(c) /\ ~Unchanged(c)
  /\ Warm(via[c])
  /\ Answer(c, "refused")
  /\ UNCHANGED <<stores, mount, oldest, chain, reading, via, preHead, fit, expected, faulty>>

Observe(c) ==
  /\ pc[c] = "clicked"
  /\ Answering(c) = {}
  /\ IsCohort(c) => Unchanged(c)
  /\ fit' = [fit EXCEPT ![c] = @ /\ Unchanged(c)]
  /\ Warm(via[c])
  /\ chain' = [chain EXCEPT ![via[c]] = Append(@, c)]
  /\ At(c, "queued")
  /\ UNCHANGED <<stores, mount, oldest, reading, via, preHead, expected, outcome, faulty>>

(***************************************************************************)
(* The admission service, one call of a mount at a time.  A refusal and a  *)
(* failed compare-and-swap end the call; any other throw goes to the       *)
(* wiring's catch.  Either way the next call of the chain may run.         *)
(***************************************************************************)
\* Mutant of Throws: a call that threw keeps the chain.
ThrowsHolding(c) ==
  /\ pc[c] \in InChain
  /\ Running(c)
  /\ Fault(c)
  /\ At(c, "threw")
  /\ UNCHANGED <<stores, local, via, preHead, fit, expected, outcome>>

Throws(c) ==
  /\ pc[c] \in InChain
  /\ Running(c)
  /\ Fault(c)
  /\ At(c, "threw")
  /\ Leaves(c)
  /\ UNCHANGED <<stores, mount, oldest, cache, reading, via, preHead, fit, expected, outcome>>

VerifyRefused(c) ==
  /\ pc[c] = "queued"
  /\ Running(c)
  /\ ~(fit[c] /\ Unchanged(c))
  /\ Answer(c, "refused")
  /\ Leaves(c)
  /\ UNCHANGED <<stores, mount, oldest, cache, reading, via, preHead, fit, expected, faulty>>

Verify(c) ==
  /\ pc[c] = "queued"
  /\ Running(c)
  /\ fit[c] /\ Unchanged(c)
  /\ At(c, "verified")
  /\ UNCHANGED <<stores, local, via, preHead, fit, expected, outcome, faulty>>

\* The claim store is scanned for the gesture, standing is read, and the
\* store is scanned for the decision.
GestureUsed(c) == \E x \in Elements(View(via[c])) : GestureOf[x] = GestureOf[c]

ExpectRefused(c) ==
  /\ pc[c] = "verified"
  /\ Running(c)
  /\ \/ GestureUsed(c) /\ Answer(c, "gesture_replayed")
     \/ /\ ~GestureUsed(c)
        /\ BySubject(via[c], DecisionOf[c]) # {}
        /\ Answer(c, "already_admitted")
  /\ Warm(via[c])
  /\ Leaves(c)
  /\ UNCHANGED <<stores, mount, oldest, reading, via, preHead, fit, expected, faulty>>

\* Mutant of Expect: the gesture is not looked up.
ExpectAnyGesture(c) ==
  /\ pc[c] = "verified"
  /\ Running(c)
  /\ BySubject(via[c], DecisionOf[c]) = {}
  /\ Warm(via[c])
  /\ expected' = [expected EXCEPT ![c] = standing]
  /\ At(c, "claiming")
  /\ UNCHANGED <<stores, mount, oldest, chain, reading, via, preHead, fit, outcome, faulty>>

Expect(c) ==
  /\ pc[c] = "verified"
  /\ Running(c)
  /\ ~GestureUsed(c)
  /\ BySubject(via[c], DecisionOf[c]) = {}
  /\ Warm(via[c])
  /\ expected' = [expected EXCEPT ![c] = standing]
  /\ At(c, "claiming")
  /\ UNCHANGED <<stores, mount, oldest, chain, reading, via, preHead, fit, outcome, faulty>>

\* Mutant of StoreClaim: the claim reaches the cache but not the file.
StoreClaimCached(c) ==
  /\ pc[c] = "claiming"
  /\ Running(c)
  /\ cache' = [cache EXCEPT ![via[c]] = Append(View(via[c]), c)]
  /\ At(c, "claimed")
  /\ UNCHANGED <<stores, mount, oldest, chain, reading, via, preHead, fit, expected,
                 outcome, faulty>>

StoreClaim(c) ==
  /\ pc[c] = "claiming"
  /\ Running(c)
  /\ claims' = Append(claims, c)
  /\ cache' = [cache EXCEPT ![via[c]] = Append(View(via[c]), c)]
  /\ At(c, "claimed")
  /\ UNCHANGED <<standing, settled, proposal, note, mount, oldest, chain, reading, via,
                 preHead, fit, expected, outcome, faulty>>

\* Mutant of AdvanceMoved: a lost swap is taken for a won one.
AdvanceMovedIgnored(c) ==
  /\ pc[c] = "claimed"
  /\ Running(c)
  /\ Head1(standing) # Head1(expected[c])
  /\ At(c, "advanced")
  /\ UNCHANGED <<stores, local, via, preHead, fit, expected, outcome, faulty>>

\* The ref names its newest claim, and the swap compares what it names.
AdvanceMoved(c) ==
  /\ pc[c] = "claimed"
  /\ Running(c)
  /\ Head1(standing) # Head1(expected[c])
  /\ Answer(c, "standing_moved")
  /\ Leaves(c)
  /\ UNCHANGED <<stores, mount, oldest, cache, reading, via, preHead, fit, expected, faulty>>

\* Mutant of Advance: the ref is written without the comparison.
AdvanceForced(c) ==
  /\ pc[c] = "claimed"
  /\ Running(c)
  /\ standing' = Append(expected[c], c)
  /\ At(c, "advanced")
  /\ UNCHANGED <<claims, settled, proposal, note, local, via, preHead, fit, expected,
                 outcome, faulty>>

Advance(c) ==
  /\ pc[c] = "claimed"
  /\ Running(c)
  /\ Head1(standing) = Head1(expected[c])
  /\ standing' = Append(standing, c)
  /\ At(c, "advanced")
  /\ UNCHANGED <<claims, settled, proposal, note, local, via, preHead, fit, expected,
                 outcome, faulty>>

\* Mutant of Settle: a call that stood keeps the chain.
SettleHolding(c) ==
  /\ pc[c] = "advanced"
  /\ Running(c)
  /\ settled' = settled \cup {c}
  /\ At(c, "stood")
  /\ UNCHANGED <<claims, standing, proposal, note, local, via, preHead, fit, expected,
                 outcome, faulty>>

Settle(c) ==
  /\ pc[c] = "advanced"
  /\ Running(c)
  /\ settled' = settled \cup {c}
  /\ At(c, "stood")
  /\ Leaves(c)
  /\ UNCHANGED <<claims, standing, proposal, note, mount, oldest, cache, reading, via,
                 preHead, fit, expected, outcome, faulty>>

(***************************************************************************)
(* The wiring, after the service: the projections catch up, or, after a    *)
(* throw, standing is read again to tell a degraded success from a failure.*)
(***************************************************************************)
Project(c) ==
  /\ pc[c] = "stood"
  /\ StampSome(c)
  /\ Answer(c, "ok")
  /\ UNCHANGED <<claims, standing, settled, note, local, via, preHead, fit, expected>>

\* Standing moved during this call to a claim for the same decision.
MovedHere(c) ==
  /\ preHead[c] # Nil
  /\ standing # <<>>
  /\ Head1(standing) # Head1(preHead[c])
  /\ Head1(standing) \in BySubject(via[c], DecisionOf[c])

CatchDegraded(c) ==
  /\ pc[c] = "threw"
  /\ MovedHere(c)
  /\ Warm(via[c])
  /\ IF IsCohort(c) THEN StampSome(c) ELSE UNCHANGED <<proposal, faulty>>
  /\ Answer(c, "degraded")
  /\ UNCHANGED <<claims, standing, settled, note, mount, oldest, chain, reading, via,
                 preHead, fit, expected>>

CatchError(c) ==
  /\ pc[c] = "threw"
  /\ \/ ~MovedHere(c) /\ UNCHANGED faulty
     \/ Fault(c)
  /\ Answer(c, "error")
  /\ UNCHANGED <<stores, local, via, preHead, fit, expected>>

(***************************************************************************)
(* Around the calls: the note is edited, or reverted to the recorded base  *)
(* and its proposal superseded; the pane is mounted again; the process     *)
(* crashes; a cold read of the claim file by another reader is overtaken.  *)
(***************************************************************************)
Edit(p) ==
  /\ note[p] = "proposed"
  /\ note' = [note EXCEPT ![p] = "edited"]
  /\ UNCHANGED <<claims, standing, settled, proposal, local, call>>

RevertWrite(p) ==
  /\ proposal[p] = "proposed"
  /\ note[p] # "base"
  /\ note' = [note EXCEPT ![p] = "base"]
  /\ UNCHANGED <<claims, standing, settled, proposal, local, call>>

\* Mutant of RevertSupersede: an admitted proposal can be superseded.
RevertSupersedeAny(p) ==
  /\ note[p] = "base"
  /\ proposal[p] # "superseded"
  /\ proposal' = [proposal EXCEPT ![p] = "superseded"]
  /\ UNCHANGED <<claims, standing, settled, note, local, call>>

RevertSupersede(p) ==
  /\ note[p] = "base"
  /\ proposal[p] = "proposed"
  /\ proposal' = [proposal EXCEPT ![p] = "superseded"]
  /\ UNCHANGED <<claims, standing, settled, note, local, call>>

Remount ==
  /\ Remounts
  /\ mount < MaxMounts
  /\ mount' = mount + 1
  /\ UNCHANGED <<stores, oldest, chain, cache, reading, call>>

Crash ==
  /\ Crashes
  /\ mount < MaxMounts
  /\ mount' = mount + 1
  /\ oldest' = mount + 1
  /\ chain' = [m \in Mounts |-> <<>>]
  /\ reading' = [m \in Mounts |-> Nil]
  /\ pc' = [c \in Calls |-> IF pc[c] = "idle" THEN "idle" ELSE "done"]
  /\ outcome' = [c \in Calls |->
                   IF pc[c] \in {"idle", "done"} THEN outcome[c] ELSE "lost"]
  /\ UNCHANGED <<stores, cache, via, preHead, fit, expected, faulty>>

StartRead(m) ==
  /\ SlowReads
  /\ m \in oldest..mount
  /\ cache[m] = Nil /\ reading[m] = Nil
  /\ reading' = [reading EXCEPT ![m] = claims]
  /\ UNCHANGED <<stores, mount, oldest, chain, cache, call>>

FinishRead(m) ==
  /\ reading[m] # Nil
  /\ cache' = [cache EXCEPT ![m] = reading[m]]
  /\ reading' = [reading EXCEPT ![m] = Nil]
  /\ UNCHANGED <<stores, mount, oldest, chain, call>>

-----------------------------------------------------------------------------
Serve(c) ==
  \/ Throws(c) \/ VerifyRefused(c) \/ Verify(c) \/ ExpectRefused(c) \/ Expect(c)
  \/ StoreClaim(c) \/ AdvanceMoved(c) \/ Advance(c) \/ Settle(c)
Wire(c) ==
  \/ ObserveAnswered(c) \/ ObserveDrifted(c) \/ Observe(c)
  \/ Project(c) \/ CatchDegraded(c) \/ CatchError(c)

Environment ==
  \/ \E p \in Proposals : Edit(p) \/ RevertWrite(p) \/ RevertSupersede(p)
  \/ \E m \in Mounts : StartRead(m) \/ FinishRead(m)
  \/ Remount \/ Crash

Next ==
  \/ \E c \in Calls : Serve(c) \/ Wire(c) \/ \E m \in Mounts : Click(c, m)
  \/ Environment

AdmissionSpec == AdmissionInit /\ [][Next]_vars

\* Every await is resolved: a call that can take a step takes one.
FairAdmissionSpec == AdmissionSpec /\ \A c \in Calls : WF_vars(Serve(c) \/ Wire(c))

-----------------------------------------------------------------------------
\* Every variable has its type: a call in flight is in the chain of its mount.
AdmissionTypeOK ==
  /\ mount \in Mounts /\ oldest \in 1..mount
  /\ chain \in [Mounts -> Seq(Calls)]
  /\ \A f \in {cache, reading} : \A m \in Mounts : f[m] = Nil \/ f[m] \in Seq(Calls)
  /\ DOMAIN cache = Mounts /\ DOMAIN reading = Mounts
  /\ claims \in Seq(Calls) /\ standing \in Seq(Calls)
  /\ settled \subseteq Calls
  /\ proposal \in [Proposals -> {"proposed", "admitted", "superseded"}]
  /\ note \in [Proposals -> {"proposed", "edited", "base"}]
  /\ pc \in [Calls -> Stages] /\ via \in [Calls -> Mounts]
  /\ DOMAIN preHead = Calls
  /\ \A c \in Calls : preHead[c] = Nil \/ preHead[c] \in Seq(Calls)
  /\ fit \in [Calls -> BOOLEAN]
  /\ expected \in [Calls -> Seq(Calls)]
  /\ outcome \in [Calls -> Outcomes]
  /\ faulty \in Seq(Calls)
  /\ \A c \in Calls : pc[c] \in InChain <=> c \in Elements(chain[via[c]])

\* "No window leaves a ref pointing at evidence that does not exist": every
\* claim that stands, or has a settlement record, is in the claim file, and a
\* settlement record is only written for a claim that stands.
EvidenceFirst ==
  /\ Elements(standing) \subseteq Elements(claims)
  /\ settled \subseteq Elements(standing)

\* A human is told that a call was admitted only when its claim, or for a
\* degraded answer a claim for its decision, came to stand; a call that was
\* refused, or lost the swap, does not stand.
AnswersTrue ==
  \A c \in Calls :
    /\ outcome[c] = "ok" => Stands(c) /\ c \in settled
    /\ outcome[c] = "degraded" =>
         \E x \in Elements(standing) \ Elements(preHead[c]) : DecisionOf[x] = DecisionOf[c]
    /\ outcome[c] \in Refusals => ~Stands(c)

\* A decision stands at most once, and a gesture authorises at most one claim,
\* however many clicks name them and however the calls interleave.
StandsOnce ==
  /\ \A i, j \in DOMAIN standing :
       DecisionOf[standing[i]] = DecisionOf[standing[j]] => i = j
  /\ \A i, j \in DOMAIN claims :
       GestureOf[claims[i]] = GestureOf[claims[j]] => i = j

\* A superseded proposal is never offered again and an admitted one is never
\* reopened: no projection update undoes a settled authority axis.
AuthorityFinal ==
  [][\A p \in Proposals : proposal[p] # "proposed" => proposal'[p] = proposal[p]]_vars

AtRest == \A c \in Calls : pc[c] \in {"idle", "done"}

\* Once nothing is in flight, a proposal is marked admitted only under a claim
\* that stands: a projection is "never authority", and must not say that
\* something was admitted which was not.
AdmittedStands ==
  AtRest => \A p \in Proposals :
    proposal[p] = "admitted" => \E c \in Elements(standing) : p \in Members(c)

\* Once nothing is in flight, and no read or write failed, no member of a
\* decision that stands is offered for admission any more.
StandingNotOffered ==
  AtRest => \A c \in Elements(standing) : \A p \in Members(c) : proposal[p] # "proposed"

\* A claim whose admission did not complete is "unattached evidence:
\* retriable, harmless": no click is refused as already admitted when its
\* decision does not stand.
RefusedOnlyIfStands ==
  \A c \in Calls : outcome[c] = "already_admitted" => DecisionStands(DecisionOf[c])

\* Liveness: every click is answered.
ClicksAnswered == \A c \in Calls : pc[c] = "clicked" ~> pc[c] = "done"

Ledger == INSTANCE StandingLedger WITH
            Claims <- Calls, evidence <- Elements(claims)

\* Admission implements the standing ledger.
LedgerRefined == Ledger!LedgerSpec

\* The state is well formed, and no proposal stands by two claims (AdmissionService.admit).
AdmittedOnce == AdmissionTypeOK /\ StandsOnce

\* An admitted proposal stands, and one that stands is offered no more (renderProposals).
StandingSeen == AdmittedStands /\ StandingNotOffered

\* What stands is in the claim file, and what the human is told is what happened.
AnswersHonest == EvidenceFirst /\ AnswersTrue

=============================================================================
