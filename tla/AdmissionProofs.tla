---------------------------- MODULE AdmissionProofs ----------------------------
(***************************************************************************)
(* Theorems about admission, for any number of clicks, mounts, crashes,    *)
(* failing reads and writes and overtaken cold reads: the standing chain   *)
(* is a ledger that only grows and only by stored claims, and a human is   *)
(* never told the opposite of what happened.                               *)
(***************************************************************************)
EXTENDS Admission, TLAPS

AdmTypeOK ==
  /\ claims \in Seq(Calls) /\ standing \in Seq(Calls)
  /\ settled \subseteq Calls
  /\ pc \in [Calls -> Stages]
  /\ outcome \in [Calls -> Outcomes]
  /\ preHead \in [Calls -> Seq(Calls) \cup {Nil}]

\* How far call c is, against what is stored for it.
StageInv(c) ==
  /\ pc[c] \in {"claimed", "advanced", "stood"} => c \in Elements(claims)
  /\ pc[c] \in {"advanced", "stood"} => Stands(c)
  /\ pc[c] = "stood" => c \in settled
  /\ Stands(c) => pc[c] \in {"advanced", "stood", "threw", "done"}
  /\ outcome[c] # "none" => pc[c] = "done"

LedgerInv ==
  /\ AdmTypeOK
  /\ \A c \in Calls : StageInv(c)
  /\ EvidenceFirst

LEMMA Appending ==
  ASSUME NEW s \in Seq(Calls), NEW c \in Calls
  PROVE  /\ Append(s, c) \in Seq(Calls)
         /\ Elements(Append(s, c)) = Elements(s) \cup {c}
<1>1. /\ Append(s, c) \in Seq(Calls)
      /\ Len(Append(s, c)) = Len(s) + 1
      /\ \A n \in 1..Len(s) : Append(s, c)[n] = s[n]
      /\ Append(s, c)[Len(s) + 1] = c
  OBVIOUS
<1>2. /\ DOMAIN s = 1..Len(s)
      /\ DOMAIN Append(s, c) = 1..(Len(s) + 1)
      /\ Len(s) \in Nat
  BY <1>1
<1>3. 1..(Len(s) + 1) = 1..Len(s) \cup {Len(s) + 1}
  BY <1>2
<1>4. QED BY <1>1, <1>2, <1>3 DEF Elements

LEMMA LedgerInitially == AdmissionInit => LedgerInv /\ Ledger!LedgerInit
BY AdmissionAssumption
   DEF AdmissionInit, LedgerInv, AdmTypeOK, StageInv, EvidenceFirst, Elements, Stands,
       Stages, Outcomes, Ledger!LedgerInit

\* A step of call c that stores nothing and does not move standing: it goes on
\* to another stage, and may tell the human something.
Quiet(c) ==
  /\ pc[c] # "done"
  /\ UNCHANGED <<claims, standing, settled>>
  /\ \/ UNCHANGED preHead
     \/ pc[c] = "idle" /\ preHead' = [preHead EXCEPT ![c] = standing] /\ UNCHANGED outcome
  /\ \E stage \in Stages \ {"claimed", "advanced", "stood"} : \E what \in Outcomes :
       /\ pc' = [pc EXCEPT ![c] = stage]
       /\ outcome' = [outcome EXCEPT ![c] = what]
       /\ what # "none" => stage = "done"
       /\ Stands(c) => stage \in {"threw", "done"}

\* A step that leaves alone all that a claim depends on.
Frame == UNCHANGED <<claims, standing, settled, pc, outcome, preHead>>

LEMMA QuietSteps ==
  ASSUME LedgerInv, NEW c \in Calls,
         \/ \E m \in Mounts : Click(c, m)
         \/ Throws(c) \/ VerifyRefused(c) \/ Verify(c) \/ ExpectRefused(c) \/ Expect(c)
         \/ AdvanceMoved(c) \/ Wire(c)
  PROVE  Quiet(c)
<1> USE DEF LedgerInv, AdmTypeOK, StageInv, Stages, Outcomes, Refusals, InChain
<1>1. outcome = [outcome EXCEPT ![c] = outcome[c]] /\ outcome[c] \in Outcomes
  OBVIOUS
<1>2. ASSUME NEW m \in Mounts, Click(c, m) PROVE Quiet(c)
  BY <1>1, <1>2 DEF Click, Quiet, At, stores
<1>3. CASE Throws(c)
  BY <1>1, <1>3 DEF Throws, Quiet, At, stores
<1>4. CASE VerifyRefused(c) \/ ExpectRefused(c) \/ AdvanceMoved(c)
  BY <1>4 DEF VerifyRefused, ExpectRefused, AdvanceMoved, Quiet, Answer, At, stores
<1>5. CASE Verify(c) \/ Expect(c)
  BY <1>1, <1>5 DEF Verify, Expect, Quiet, At, stores
<1>6. CASE ObserveAnswered(c) \/ ObserveDrifted(c) \/ Project(c)
  BY <1>6 DEF ObserveAnswered, ObserveDrifted, Project, Quiet, Answer, At, stores
<1>7. CASE Observe(c)
  BY <1>1, <1>7 DEF Observe, Quiet, At, stores
<1>8. CASE CatchDegraded(c) \/ CatchError(c)
  BY <1>8 DEF CatchDegraded, CatchError, Quiet, Answer, At, stores
<1>9. QED BY <1>2, <1>3, <1>4, <1>5, <1>6, <1>7, <1>8 DEF Wire

LEMMA FrameSteps ==
  ASSUME \/ \E p \in Proposals : Edit(p) \/ RevertWrite(p) \/ RevertSupersede(p)
         \/ \E m \in Mounts : StartRead(m) \/ FinishRead(m)
         \/ Remount \/ UNCHANGED vars
  PROVE  Frame
BY DEF Edit, RevertWrite, RevertSupersede, StartRead, FinishRead, Remount, vars, Frame,
       stores, call

LEMMA LedgerInductive ==
  ASSUME LedgerInv, [Next]_vars
  PROVE  LedgerInv' /\ [Ledger!LedgerNext]_<<Elements(claims), standing>>
<1> USE DEF LedgerInv
<1>1. ASSUME NEW c \in Calls, Quiet(c)
      PROVE  LedgerInv' /\ [Ledger!LedgerNext]_<<Elements(claims), standing>>
  <2>1. AdmTypeOK'
    BY <1>1 DEF Quiet, AdmTypeOK
  <2>2. \A x \in Calls : StageInv(x)'
    BY <1>1 DEF Quiet, AdmTypeOK, StageInv, Stands, Elements
  <2>3. EvidenceFirst' /\ UNCHANGED <<Elements(claims), standing>>
    BY <1>1 DEF Quiet, EvidenceFirst, Elements
  <2>4. QED BY <2>1, <2>2, <2>3
<1>2. ASSUME NEW c \in Calls, StoreClaim(c)
      PROVE  LedgerInv' /\ [Ledger!LedgerNext]_<<Elements(claims), standing>>
  <2>1. claims' \in Seq(Calls) /\ Elements(claims') = Elements(claims) \cup {c}
    BY <1>2, Appending DEF StoreClaim, AdmTypeOK
  <2>2. AdmTypeOK'
    BY <1>2, <2>1 DEF StoreClaim, At, AdmTypeOK, Stages
  <2>3. \A x \in Calls : StageInv(x)'
    BY <1>2, <2>1, ZenonT(60) DEF StoreClaim, At, AdmTypeOK, StageInv, Stands, Elements
  <2>4. EvidenceFirst'
    BY <1>2, <2>1 DEF StoreClaim, EvidenceFirst
  <2>5. Ledger!Store(c)
    BY <1>2, <2>1 DEF StoreClaim, Ledger!Store
  <2>6. QED BY <2>2, <2>3, <2>4, <2>5 DEF Ledger!LedgerNext
<1>3. ASSUME NEW c \in Calls, Advance(c)
      PROVE  LedgerInv' /\ [Ledger!LedgerNext]_<<Elements(claims), standing>>
  <2>1. standing' \in Seq(Calls) /\ Elements(standing') = Elements(standing) \cup {c}
    BY <1>3, Appending DEF Advance, AdmTypeOK
  <2>2. c \in Elements(claims) /\ ~Stands(c)
    BY <1>3 DEF Advance, StageInv
  <2>3. AdmTypeOK'
    BY <1>3, <2>1 DEF Advance, At, AdmTypeOK, Stages
  <2>4. \A x \in Calls : StageInv(x)'
    BY <1>3, <2>1, <2>2 DEF Advance, At, AdmTypeOK, StageInv, Stands
  <2>5. EvidenceFirst'
    BY <1>3, <2>1, <2>2 DEF Advance, EvidenceFirst
  <2>6. Ledger!Stand(c)
    BY <1>3, <2>2 DEF Advance, Ledger!Stand, Ledger!Stands, Stands, Elements
  <2>7. QED BY <2>3, <2>4, <2>5, <2>6 DEF Ledger!LedgerNext
<1>4. ASSUME NEW c \in Calls, Settle(c)
      PROVE  LedgerInv' /\ [Ledger!LedgerNext]_<<Elements(claims), standing>>
  <2>1. AdmTypeOK'
    BY <1>4 DEF Settle, At, AdmTypeOK, Stages
  <2>2. \A x \in Calls : StageInv(x)'
    BY <1>4 DEF Settle, At, AdmTypeOK, StageInv, Stands, Elements
  <2>3. EvidenceFirst' /\ UNCHANGED <<Elements(claims), standing>>
    BY <1>4 DEF Settle, EvidenceFirst, StageInv, Stands, Elements
  <2>4. QED BY <2>1, <2>2, <2>3
<1>5. CASE Crash
  <2>1. AdmTypeOK'
    BY <1>5 DEF Crash, AdmTypeOK, Stages, Outcomes, stores
  <2>2. \A x \in Calls : StageInv(x)'
    BY <1>5 DEF Crash, AdmTypeOK, StageInv, Stands, Elements, stores
  <2>3. EvidenceFirst' /\ UNCHANGED <<Elements(claims), standing>>
    BY <1>5 DEF Crash, EvidenceFirst, Elements, stores
  <2>4. QED BY <2>1, <2>2, <2>3
<1>6. CASE Frame
  <2>1. AdmTypeOK'
    BY <1>6 DEF Frame, AdmTypeOK
  <2>2. \A x \in Calls : StageInv(x)'
    BY <1>6 DEF Frame, StageInv, Stands, Elements
  <2>3. EvidenceFirst' /\ UNCHANGED <<Elements(claims), standing>>
    BY <1>6 DEF Frame, EvidenceFirst, Elements
  <2>4. QED BY <2>1, <2>2, <2>3
<1>7. ASSUME NEW c \in Calls, Serve(c) \/ Wire(c) \/ \E m \in Mounts : Click(c, m)
      PROVE  LedgerInv' /\ [Ledger!LedgerNext]_<<Elements(claims), standing>>
  <2>1. CASE StoreClaim(c) \/ Advance(c) \/ Settle(c)
    BY <2>1, <1>2, <1>3, <1>4
  <2>2. CASE Wire(c) \/ \E m \in Mounts : Click(c, m)
    BY <2>2, <1>1, QuietSteps
  <2>3. CASE \/ Throws(c) \/ VerifyRefused(c) \/ Verify(c) \/ ExpectRefused(c)
             \/ Expect(c) \/ AdvanceMoved(c)
    BY <2>3, <1>1, QuietSteps
  <2>4. QED BY <1>7, <2>1, <2>2, <2>3 DEF Serve
<1>8. CASE Environment \/ UNCHANGED vars
  BY <1>5, <1>6, <1>8, FrameSteps DEF Environment
<1>9. QED
  BY <1>7, <1>8 DEF Next

(***************************************************************************)
(* Evidence first: whatever fails or crashes, a claim that stands or has a *)
(* settlement record is in the claim file.                                 *)
(***************************************************************************)
THEOREM AdmissionEvidence == AdmissionSpec => []EvidenceFirst
<1>1. LedgerInv => EvidenceFirst
  BY DEF LedgerInv
<1>2. QED
  BY <1>1, LedgerInitially, LedgerInductive, PTL DEF AdmissionSpec

(***************************************************************************)
(* Refinement: admission is a standing ledger.  Standing only grows, by    *)
(* one claim at a time, and a claim stands at most once.                   *)
(***************************************************************************)
THEOREM AdmissionImplementsLedger == AdmissionSpec => LedgerRefined
BY LedgerInitially, LedgerInductive, PTL
   DEF AdmissionSpec, LedgerRefined, Ledger!LedgerSpec

-----------------------------------------------------------------------------
(***************************************************************************)
(* What the human is told.  A degraded answer is given when standing has   *)
(* moved since the click to a claim for the decision; that such a claim is *)
(* new needs more: what was read at the click is still the beginning of    *)
(* the chain, and no claim is in it twice.                                 *)
(***************************************************************************)
ReadAtClick(c) ==
  preHead[c] # Nil => /\ Len(preHead[c]) <= Len(standing)
                      /\ \A n \in 1..Len(preHead[c]) : preHead[c][n] = standing[n]

NoRepeat == \A i, j \in 1..Len(standing) : standing[i] = standing[j] => i = j

Told(c, what) ==
  /\ what = "ok" => Stands(c) /\ c \in settled
  /\ what = "degraded" =>
       \E x \in Elements(standing) \ Elements(preHead[c]) : DecisionOf[x] = DecisionOf[c]
  /\ what \in Refusals => ~Stands(c)

AnswerInv ==
  /\ LedgerInv
  /\ NoRepeat
  /\ \A c \in Calls : ReadAtClick(c)
  /\ AnswersTrue

\* What a quiet step tells the human is true.
LEMMA TruthTold ==
  ASSUME AnswerInv, NEW c \in Calls,
         \/ \E m \in Mounts : Click(c, m)
         \/ Throws(c) \/ VerifyRefused(c) \/ Verify(c) \/ ExpectRefused(c) \/ Expect(c)
         \/ AdvanceMoved(c) \/ Wire(c)
  PROVE  Told(c, outcome'[c])
<1> USE DEF AnswerInv, LedgerInv, AdmTypeOK, StageInv, InChain
<1>1. pc[c] # "done" => outcome[c] = "none"
  OBVIOUS
<1>2. outcome' = outcome /\ pc[c] # "done" => Told(c, outcome'[c])
  BY <1>1 DEF Told, Refusals
<1>3. CASE (\E m \in Mounts : Click(c, m)) \/ Throws(c) \/ Verify(c) \/ Expect(c) \/ Observe(c)
  BY <1>2, <1>3 DEF Click, Throws, Verify, Expect, Observe
<1>4. CASE VerifyRefused(c) \/ ExpectRefused(c) \/ AdvanceMoved(c)
           \/ ObserveAnswered(c) \/ ObserveDrifted(c)
  BY <1>4 DEF VerifyRefused, ExpectRefused, AdvanceMoved, ObserveAnswered, ObserveDrifted,
              Answer, Told, Refusals
<1>5. CASE Project(c) \/ CatchError(c)
  BY <1>5 DEF Project, CatchError, Answer, Told, Refusals
<1>6. CASE CatchDegraded(c)
  <2> DEFINE x == standing[Len(standing)]
  <2>1. /\ preHead[c] \in Seq(Calls) /\ standing \in Seq(Calls) /\ standing # <<>>
        /\ Head1(standing) = x
        /\ Head1(preHead[c]) # x
        /\ DecisionOf[x] = DecisionOf[c]
        /\ outcome'[c] = "degraded"
    BY <1>6 DEF CatchDegraded, MovedHere, Head1, BySubject, Answer, Outcomes, Refusals
  <2>2. Len(standing) \in 1..Len(standing) /\ x \in Elements(standing)
    BY <2>1 DEF Elements
  <2>3. ASSUME x \in Elements(preHead[c]) PROVE FALSE
    <3>1. PICK n \in 1..Len(preHead[c]) : preHead[c][n] = x
      BY <2>1, <2>3 DEF Elements
    <3>2. preHead[c] # Nil /\ Len(preHead[c]) <= Len(standing) /\ standing[n] = x
      BY <2>1, <3>1, AdmissionAssumption DEF ReadAtClick
    <3>3. Len(preHead[c]) \in Nat /\ Len(standing) \in Nat /\ n \in 1..Len(standing)
      BY <2>1, <3>1, <3>2
    <3>4. n = Len(standing)
      BY <2>2, <3>2, <3>3 DEF NoRepeat
    <3>5. n = Len(preHead[c]) /\ preHead[c] # <<>>
      BY <2>1, <3>1, <3>2, <3>3, <3>4
    <3>6. QED BY <2>1, <3>1, <3>5 DEF Head1
  <2>4. QED BY <2>1, <2>2, <2>3 DEF Told, Refusals
<1>7. QED BY <1>3, <1>4, <1>5, <1>6 DEF Wire

LEMMA AnswerInitially == AdmissionInit => AnswerInv
<1>1. AdmissionInit => NoRepeat /\ (\A c \in Calls : ReadAtClick(c)) /\ AnswersTrue
  BY DEF AdmissionInit, NoRepeat, ReadAtClick, AnswersTrue, Refusals
<1>2. QED BY <1>1, LedgerInitially DEF AnswerInv

LEMMA AnswerInductive ==
  ASSUME AnswerInv, [Next]_vars
  PROVE  AnswerInv'
<1> USE DEF AnswerInv
<1>0. LedgerInv'
  BY LedgerInductive
<1>1. ASSUME NEW c \in Calls, Quiet(c), Told(c, outcome'[c])
      PROVE  NoRepeat' /\ (\A x \in Calls : ReadAtClick(x)') /\ AnswersTrue'
  <2>1. NoRepeat' /\ \A x \in Calls : ReadAtClick(x)'
    BY <1>1 DEF Quiet, LedgerInv, AdmTypeOK, NoRepeat, ReadAtClick
  <2>2. ASSUME NEW x \in Calls
        PROVE  /\ outcome'[x] = "ok" => Stands(x)' /\ x \in settled'
               /\ outcome'[x] = "degraded" =>
                    \E y \in Elements(standing)' \ Elements(preHead'[x]) :
                       DecisionOf[y] = DecisionOf[x]
               /\ outcome'[x] \in Refusals => ~Stands(x)'
    <3>1. CASE x # c
      BY <1>1, <3>1 DEF Quiet, LedgerInv, AdmTypeOK, AnswersTrue, Stands, Elements
    <3>2. CASE x = c
      <4>1. UNCHANGED <<Stands(c), settled, Elements(standing)>>
        BY <1>1 DEF Quiet, Stands, Elements
      <4>2. CASE UNCHANGED preHead
        BY <1>1, <3>2, <4>1, <4>2 DEF Told
      <4>3. CASE pc[c] = "idle" /\ UNCHANGED outcome
        <5>1. outcome'[c] = "none"
          BY <4>3 DEF LedgerInv, StageInv
        <5>2. QED BY <3>2, <5>1 DEF Refusals
      <4>4. QED BY <1>1, <4>2, <4>3 DEF Quiet
    <3>3. QED BY <3>1, <3>2
  <2>3. QED BY <2>1, <2>2 DEF AnswersTrue
<1>2. ASSUME NEW c \in Calls, Advance(c)
      PROVE  NoRepeat' /\ (\A x \in Calls : ReadAtClick(x)') /\ AnswersTrue'
  <2>1. /\ standing \in Seq(Calls) /\ standing' = Append(standing, c)
        /\ Elements(standing') = Elements(standing) \cup {c}
        /\ UNCHANGED <<preHead, outcome, settled>>
    BY <1>2, Appending DEF Advance, LedgerInv, AdmTypeOK
  <2>2. ~Stands(c) /\ outcome[c] = "none"
    BY <1>2 DEF Advance, LedgerInv, StageInv
  <2>3. /\ Len(standing) \in Nat /\ Len(standing') = Len(standing) + 1
        /\ \A n \in 1..Len(standing) : standing'[n] = standing[n] /\ standing[n] # c
        /\ standing'[Len(standing) + 1] = c
    BY <2>1, <2>2 DEF Stands, Elements
  <2>4. NoRepeat'
    BY <2>3 DEF NoRepeat
  <2>5. ASSUME NEW x \in Calls PROVE ReadAtClick(x)'
    <3>1. preHead[x] # Nil => preHead[x] \in Seq(Calls)
      BY DEF LedgerInv, AdmTypeOK
    <3>2. QED BY <2>1, <2>3, <3>1 DEF ReadAtClick
  <2>6. AnswersTrue'
    BY <2>1, <2>2 DEF AnswersTrue, Stands, Refusals
  <2>7. QED BY <2>4, <2>5, <2>6
<1>3. ASSUME NEW c \in Calls, StoreClaim(c) \/ Settle(c)
      PROVE  NoRepeat' /\ (\A x \in Calls : ReadAtClick(x)') /\ AnswersTrue'
  <2>1. UNCHANGED <<standing, preHead, outcome>> /\ settled \subseteq settled'
    BY <1>3 DEF StoreClaim, Settle
  <2>2. QED BY <2>1 DEF NoRepeat, ReadAtClick, AnswersTrue, Stands, Elements
<1>4. CASE Crash
  <2>1. UNCHANGED <<standing, preHead, settled>>
    BY <1>4 DEF Crash, stores
  <2>2. \A x \in Calls : outcome'[x] \in {outcome[x], "lost"}
    BY <1>4 DEF Crash
  <2>3. NoRepeat' /\ \A x \in Calls : ReadAtClick(x)'
    BY <2>1 DEF NoRepeat, ReadAtClick
  <2>4. UNCHANGED Elements(standing) /\ \A x \in Calls : UNCHANGED Elements(preHead[x])
    BY <2>1 DEF Elements
  <2>5. AnswersTrue'
    BY <2>1, <2>2, <2>4 DEF AnswersTrue, Stands, Refusals
  <2>6. QED BY <1>0, <2>3, <2>5
<1>5. CASE Frame
  <2>1. NoRepeat' /\ \A x \in Calls : ReadAtClick(x)'
    BY <1>5 DEF Frame, NoRepeat, ReadAtClick
  <2>2. /\ UNCHANGED <<Elements(standing), settled, outcome>>
        /\ \A x \in Calls : UNCHANGED Elements(preHead[x])
    BY <1>5 DEF Frame, Elements
  <2>3. AnswersTrue'
    BY <2>2 DEF AnswersTrue, Stands
  <2>4. QED BY <1>0, <2>1, <2>3
<1>6. ASSUME NEW c \in Calls, Serve(c) \/ Wire(c) \/ \E m \in Mounts : Click(c, m)
      PROVE  NoRepeat' /\ (\A x \in Calls : ReadAtClick(x)') /\ AnswersTrue'
  <2>1. CASE StoreClaim(c) \/ Advance(c) \/ Settle(c)
    BY <2>1, <1>2, <1>3
  <2>2. CASE Wire(c) \/ \E m \in Mounts : Click(c, m)
    BY <2>2, <1>1, QuietSteps, TruthTold
  <2>3. CASE \/ Throws(c) \/ VerifyRefused(c) \/ Verify(c) \/ ExpectRefused(c)
             \/ Expect(c) \/ AdvanceMoved(c)
    BY <2>3, <1>1, QuietSteps, TruthTold
  <2>4. QED BY <1>6, <2>1, <2>2, <2>3 DEF Serve
<1>7. CASE Environment \/ UNCHANGED vars
  BY <1>4, <1>5, <1>7, FrameSteps DEF Environment
<1>8. QED
  BY <1>0, <1>6, <1>7 DEF Next

(***************************************************************************)
(* A human told that a call was admitted was told the truth, and so was one*)
(* told that it was refused.                                               *)
(***************************************************************************)
THEOREM AdmissionAnswersTrue == AdmissionSpec => []AnswersTrue
<1>1. AnswerInv => AnswersTrue
  BY DEF AnswerInv
<1>2. QED
  BY <1>1, AnswerInitially, AnswerInductive, PTL DEF AdmissionSpec

\* What stands is in the claim file, and what the human is told is what happened.
THEOREM AdmissionAnswersHonest == AdmissionSpec => []AnswersHonest
<1>1. EvidenceFirst /\ AnswersTrue => AnswersHonest
  BY DEF AnswersHonest
<1>2. QED BY <1>1, AdmissionEvidence, AdmissionAnswersTrue, PTL

-----------------------------------------------------------------------------
(***************************************************************************)
(* The chains.  A call is in the chain of its mount from Observe until it  *)
(* is refused, throws or stands; it is there once, and all but the first   *)
(* of a chain are still queued.                                            *)
(***************************************************************************)
OnceIn(s) == \A i, j \in 1..Len(s) : s[i] = s[j] => i = j

ChainInv ==
  /\ mount \in Mounts /\ oldest \in 1..mount
  /\ pc \in [Calls -> Stages] /\ via \in [Calls -> Mounts]
  /\ chain \in [Mounts -> Seq(Calls)]
  /\ \A m \in Mounts : OnceIn(chain[m])
  /\ \A m \in Mounts : \A n \in 1..Len(chain[m]) :
       /\ via[chain[m][n]] = m
       /\ pc[chain[m][n]] \in InChain /\ (n # 1 => pc[chain[m][n]] = "queued")
  /\ \A c \in Calls : pc[c] \in InChain => \E n \in 1..Len(chain[via[c]]) : chain[via[c]][n] = c
  /\ \A c \in Calls : pc[c] \notin {"idle", "done"} => via[c] \in oldest..mount

\* t is the list s without its head c.
Behead(s, c, t) ==
  /\ t \in Seq(Calls) /\ OnceIn(t)
  /\ \A n \in 1..Len(t) : \E k \in 1..Len(s) : k # 1 /\ t[n] = s[k] /\ s[k] # c
  /\ \A n \in 1..Len(s) : s[n] # c => \E k \in 1..Len(t) : t[k] = s[n]

LEMMA TailOf ==
  ASSUME NEW s \in Seq(Calls), s # <<>>, OnceIn(s)
  PROVE  Behead(s, Head(s), Tail(s))
<1>0. PICK t : t = Tail(s)
  OBVIOUS
<1>1. /\ t \in Seq(Calls) /\ Len(t) = Len(s) - 1 /\ Len(s) \in Nat /\ Len(s) > 0
      /\ \A n \in 1..(Len(s) - 1) : t[n] = s[n + 1]
      /\ Head(s) = s[1] /\ 1 \in 1..Len(s)
  BY <1>0
<1>2. \A n \in 1..Len(t) : t[n] = s[n + 1] /\ n + 1 \in 1..Len(s) /\ n + 1 # 1 /\ n \in Nat
  BY <1>1
<1>3. \A n \in 1..Len(t) : \E k \in 1..Len(s) : k # 1 /\ t[n] = s[k] /\ s[k] # Head(s)
  BY <1>1, <1>2 DEF OnceIn
<1>4. OnceIn(t)
  BY <1>2 DEF OnceIn
<1>5. ASSUME NEW n \in 1..Len(s), s[n] # Head(s) PROVE \E k \in 1..Len(t) : t[k] = s[n]
  <2>1. n - 1 \in 1..(Len(s) - 1) /\ (n - 1) + 1 = n
    BY <1>1, <1>5
  <2>2. QED BY <1>1, <2>1
<1>6. QED BY <1>0, <1>1, <1>3, <1>4, <1>5 DEF Behead

\* A running call works: it stays in the chain.
LEMMA WorkKeepsChain ==
  ASSUME ChainInv, NEW c \in Calls, NEW stage \in InChain, pc[c] \in InChain, Running(c),
         At(c, stage), UNCHANGED <<chain, via, mount, oldest>>
  PROVE  ChainInv'
<1>1. /\ pc' = [pc EXCEPT ![c] = stage] /\ pc' \in [Calls -> Stages] /\ via[c] \in Mounts
      /\ chain[via[c]] # <<>> /\ chain[via[c]][1] = c /\ stage # "idle" /\ stage # "done"
  BY DEF ChainInv, At, Running, Stages, InChain
<1>2. ASSUME NEW m \in Mounts, NEW n \in 1..Len(chain[m])
      PROVE  /\ via[chain[m][n]] = m
             /\ pc'[chain[m][n]] \in InChain /\ (n # 1 => pc'[chain[m][n]] = "queued")
  <2>1. CASE chain[m][n] = c
    <3>1. m = via[c] /\ n = 1
      <4>1. chain[m] \in Seq(Calls) /\ 1 \in 1..Len(chain[m])
        BY <1>2 DEF ChainInv
      <4>2. QED BY <1>1, <1>2, <2>1, <4>1 DEF ChainInv, OnceIn
    <3>2. QED BY <1>1, <2>1, <3>1 DEF ChainInv
  <2>2. CASE chain[m][n] # c
    BY <1>1, <1>2, <2>2 DEF ChainInv
  <2>3. QED BY <2>1, <2>2
<1>3. \A x \in Calls : pc'[x] \in InChain => \E n \in 1..Len(chain[via[x]]) : chain[via[x]][n] = x
  BY <1>1 DEF ChainInv
<1>4. \A x \in Calls : pc'[x] \notin {"idle", "done"} => via[x] \in oldest..mount
  BY <1>1 DEF ChainInv, InChain
<1>5. QED BY <1>1, <1>2, <1>3, <1>4 DEF ChainInv

\* A running call leaves; the next one may run.
LEMMA LeavingKeepsChain ==
  ASSUME ChainInv, NEW c \in Calls, NEW stage \in Stages \ (InChain \cup {"idle"}),
         pc[c] \in InChain, Running(c), At(c, stage), Leaves(c), UNCHANGED <<via, mount, oldest>>
  PROVE  ChainInv'
<1>0. PICK q, s, t : q = via[c] /\ s = chain[q] /\ t = Tail(s)
  OBVIOUS
<1>1. /\ pc' = [pc EXCEPT ![c] = stage] /\ pc' \in [Calls -> Stages] /\ q \in Mounts
      /\ s \in Seq(Calls) /\ s # <<>> /\ Head(s) = c /\ OnceIn(s)
      /\ chain' = [chain EXCEPT ![q] = t] /\ stage \notin InChain
  BY <1>0 DEF ChainInv, At, Running, Leaves
<1>2. /\ t \in Seq(Calls) /\ OnceIn(t)
      /\ \A n \in 1..Len(t) : \E k \in 1..Len(s) : k # 1 /\ t[n] = s[k] /\ s[k] # c
      /\ \A n \in 1..Len(s) : s[n] # c => \E k \in 1..Len(t) : t[k] = s[n]
  <2>1. Behead(s, Head(s), Tail(s))
    BY <1>1, TailOf
  <2>2. Behead(s, c, t)
    BY <1>0, <1>1, <2>1
  <2>3. QED BY <2>2 DEF Behead
<1>3. /\ chain' \in [Mounts -> Seq(Calls)] /\ chain'[q] = t
      /\ \A m \in Mounts : m # q => chain'[m] = chain[m]
  BY <1>1, <1>2 DEF ChainInv
<1>4. \A m \in Mounts : OnceIn(chain'[m])
  BY <1>2, <1>3 DEF ChainInv
<1>5. ASSUME NEW m \in Mounts, NEW n \in 1..Len(chain'[m])
      PROVE  /\ via[chain'[m][n]] = m
             /\ pc'[chain'[m][n]] \in InChain /\ (n # 1 => pc'[chain'[m][n]] = "queued")
  <2>1. CASE m = q
    <3>1. n \in 1..Len(t) /\ chain'[m][n] = t[n]
      BY <1>3, <1>5, <2>1
    <3>2. PICK k \in 1..Len(s) : k # 1 /\ t[n] = s[k] /\ s[k] # c
      BY <1>2, <3>1
    <3>3. via[s[k]] = m /\ pc[s[k]] = "queued" /\ s[k] \in Calls
      BY <1>0, <1>1, <2>1, <3>2, SMTT(60) DEF ChainInv
    <3>4. pc'[s[k]] = "queued"
      BY <1>1, <3>2, <3>3 DEF ChainInv
    <3>5. QED BY <3>1, <3>2, <3>3, <3>4 DEF InChain
  <2>2. CASE m # q
    <3>1. chain'[m] = chain[m] /\ n \in 1..Len(chain[m])
      BY <1>3, <1>5, <2>2
    <3>2. via[chain[m][n]] = m /\ chain[m][n] # c /\ chain[m][n] \in Calls
      BY <1>0, <2>2, <3>1 DEF ChainInv
    <3>3. pc'[chain[m][n]] = pc[chain[m][n]]
      BY <1>1, <3>2 DEF ChainInv
    <3>4. QED BY <3>1, <3>2, <3>3 DEF ChainInv
  <2>3. QED BY <2>1, <2>2
<1>6. ASSUME NEW x \in Calls, pc'[x] \in InChain
      PROVE  \E n \in 1..Len(chain'[via[x]]) : chain'[via[x]][n] = x
  <2>1. PICK m : m = via[x]
    OBVIOUS
  <2>2. x # c /\ pc[x] \in InChain /\ m \in Mounts
    BY <1>1, <1>6, <2>1 DEF ChainInv
  <2>3. PICK n \in 1..Len(chain[m]) : chain[m][n] = x
    BY <2>1, <2>2 DEF ChainInv
  <2>4. CASE m = q
    <3>1. \E k \in 1..Len(t) : t[k] = x
      BY <1>0, <1>2, <2>2, <2>3, <2>4
    <3>2. QED BY <1>3, <2>1, <2>4, <3>1
  <2>5. CASE m # q
    BY <1>3, <2>1, <2>2, <2>3, <2>5
  <2>6. QED BY <2>4, <2>5
<1>7. \A x \in Calls : pc'[x] \notin {"idle", "done"} => via[x] \in oldest..mount
  BY <1>1 DEF ChainInv, InChain
<1>8. /\ mount' = mount /\ oldest' = oldest /\ via' = via
      /\ mount \in Mounts /\ oldest \in 1..mount /\ via \in [Calls -> Mounts]
  BY DEF ChainInv
<1>9. /\ (mount \in Mounts /\ oldest \in 1..mount)'
      /\ (pc \in [Calls -> Stages] /\ via \in [Calls -> Mounts])' /\ (chain \in [Mounts -> Seq(Calls)])'
  BY <1>1, <1>3, <1>8
<1>10. \A m \in Mounts : \A n \in 1..Len(chain'[m]) :
         /\ via'[chain'[m][n]] = m
         /\ pc'[chain'[m][n]] \in InChain /\ (n # 1 => pc'[chain'[m][n]] = "queued")
  BY <1>5, <1>8
<1>11. /\ \A x \in Calls : pc'[x] \in InChain =>
                               \E n \in 1..Len(chain'[via'[x]]) : chain'[via'[x]][n] = x
       /\ \A x \in Calls : pc'[x] \notin {"idle", "done"} => via'[x] \in oldest'..mount'
  BY <1>6, <1>7, <1>8
<1>12. QED BY <1>4, <1>9, <1>10, <1>11 DEF ChainInv

\* Observe: the call joins the chain of its mount.
LEMMA JoiningKeepsChain ==
  ASSUME ChainInv, NEW c \in Calls, Observe(c)
  PROVE  ChainInv'
<1>0. PICK q, s, t : q = via[c] /\ s = chain[q] /\ t = Append(s, c)
  OBVIOUS
<1>1. /\ pc[c] = "clicked" /\ pc' = [pc EXCEPT ![c] = "queued"] /\ pc' \in [Calls -> Stages]
      /\ q \in Mounts /\ s \in Seq(Calls) /\ OnceIn(s) /\ UNCHANGED <<via, mount, oldest>>
      /\ chain' = [chain EXCEPT ![q] = t]
  BY <1>0 DEF ChainInv, At, Observe, Stages
<1>2. "clicked" \notin InChain /\ "queued" \in InChain
  BY DEF InChain
<1>3. \A n \in 1..Len(s) : s[n] # c
  <2>1. ASSUME NEW n \in 1..Len(s) PROVE pc[s[n]] \in InChain
    BY <1>0, <1>1 DEF ChainInv
  <2>2. QED BY <1>1, <1>2, <2>1
<1>4. /\ t \in Seq(Calls) /\ Len(t) = Len(s) + 1 /\ Len(s) \in Nat /\ t[Len(s) + 1] = c
      /\ \A n \in 1..Len(s) : t[n] = s[n] /\ n \in 1..Len(t)
      /\ \A n \in 1..Len(t) : n # Len(s) + 1 => n \in 1..Len(s)
      /\ Len(s) + 1 \in 1..Len(t)
  BY <1>0, <1>1
<1>5. OnceIn(t)
  BY <1>1, <1>3, <1>4 DEF OnceIn
<1>6. /\ chain' \in [Mounts -> Seq(Calls)] /\ chain'[q] = t
      /\ \A m \in Mounts : m # q => chain'[m] = chain[m]
  BY <1>1, <1>4 DEF ChainInv
<1>7. ASSUME NEW m \in Mounts, NEW n \in 1..Len(chain'[m])
      PROVE  /\ via[chain'[m][n]] = m
             /\ pc'[chain'[m][n]] \in InChain /\ (n # 1 => pc'[chain'[m][n]] = "queued")
  <2>1. CASE m = q /\ n = Len(s) + 1
    BY <1>0, <1>1, <1>2, <1>4, <1>6, <2>1 DEF ChainInv
  <2>2. CASE m # q \/ n # Len(s) + 1
    <3>1. chain'[m][n] = chain[m][n] /\ n \in 1..Len(chain[m])
      BY <1>0, <1>4, <1>6, <1>7, <2>2
    <3>2. chain[m][n] # c
      BY <1>1, <1>2, <3>1 DEF ChainInv
    <3>3. QED BY <1>1, <3>1, <3>2 DEF ChainInv
  <2>3. QED BY <2>1, <2>2
<1>8. ASSUME NEW x \in Calls, pc'[x] \in InChain
      PROVE  \E n \in 1..Len(chain'[via[x]]) : chain'[via[x]][n] = x
  <2>0. PICK m : m = via[x]
    OBVIOUS
  <2>1. CASE x = c
    BY <1>0, <1>4, <1>6, <2>0, <2>1
  <2>2. CASE x # c
    <3>1. pc[x] \in InChain /\ m \in Mounts
      BY <1>1, <1>8, <2>0, <2>2 DEF ChainInv
    <3>2. PICK n \in 1..Len(chain[m]) : chain[m][n] = x
      BY <2>0, <3>1 DEF ChainInv
    <3>3. CASE m = q
      <4>1. n \in 1..Len(t) /\ t[n] = x
        BY <1>0, <1>4, <3>2, <3>3
      <4>2. QED BY <1>6, <2>0, <3>3, <4>1
    <3>4. CASE m # q
      BY <1>6, <2>0, <3>1, <3>2, <3>4
    <3>5. QED BY <3>3, <3>4
  <2>3. QED BY <2>1, <2>2
<1>9. \A x \in Calls : pc'[x] \notin {"idle", "done"} => via[x] \in oldest..mount
  BY <1>1 DEF ChainInv
<1>10. \A m \in Mounts : OnceIn(chain'[m])
  BY <1>5, <1>6 DEF ChainInv
<1>11. UNCHANGED <<via, mount, oldest>> /\ pc' \in [Calls -> Stages]
  BY <1>1
<1>12. chain' \in [Mounts -> Seq(Calls)]
  BY <1>6
<1>13. QED BY <1>7, <1>8, <1>9, <1>10, <1>11, <1>12 DEF ChainInv

\* A call outside the chains goes on outside them, or makes its click.
LEMMA OutsideKeepsChain ==
  ASSUME ChainInv, NEW c \in Calls, NEW stage \in Stages \ (InChain \cup {"idle"}),
         pc[c] \notin InChain, At(c, stage), UNCHANGED <<chain, mount, oldest>>,
         \/ via' = via /\ stage = "done"
         \/ pc[c] = "idle" /\ \E m \in (oldest..mount) \cap Mounts : via' = [via EXCEPT ![c] = m]
  PROVE  ChainInv'
<1>1. /\ pc' = [pc EXCEPT ![c] = stage] /\ pc' \in [Calls -> Stages] /\ via' \in [Calls -> Mounts]
      /\ \A x \in Calls : x # c => pc'[x] = pc[x] /\ via'[x] = via[x]
      /\ pc'[c] = stage /\ (stage # "done" => via'[c] \in oldest..mount)
  <2>0. pc' = [pc EXCEPT ![c] = stage] /\ pc \in [Calls -> Stages] /\ via \in [Calls -> Mounts]
    BY DEF ChainInv, At
  <2>1. CASE via' = via /\ stage = "done"
    BY <2>0, <2>1
  <2>2. CASE pc[c] = "idle" /\ \E m \in (oldest..mount) \cap Mounts : via' = [via EXCEPT ![c] = m]
    <3>1. PICK m \in (oldest..mount) \cap Mounts : via' = [via EXCEPT ![c] = m]
      BY <2>2
    <3>2. via'[c] = m /\ m \in oldest..mount /\ m \in Mounts
      BY <2>0, <3>1
    <3>3. QED BY <2>0, <3>1, <3>2
  <2>3. QED BY <2>1, <2>2
<1>2. ASSUME NEW m \in Mounts, NEW n \in 1..Len(chain[m])
      PROVE  /\ via'[chain[m][n]] = m
             /\ pc'[chain[m][n]] \in InChain /\ (n # 1 => pc'[chain[m][n]] = "queued")
  <2>1. chain[m][n] # c /\ chain[m][n] \in Calls
    BY <1>2 DEF ChainInv
  <2>2. QED BY <1>1, <2>1 DEF ChainInv
<1>3. ASSUME NEW x \in Calls, pc'[x] \in InChain
      PROVE  \E n \in 1..Len(chain[via'[x]]) : chain[via'[x]][n] = x
  <2>1. x # c
    BY <1>1, <1>3
  <2>2. pc[x] \in InChain /\ via'[x] = via[x]
    BY <1>1, <1>3, <2>1
  <2>3. QED BY <2>2 DEF ChainInv
<1>4. \A x \in Calls : pc'[x] \notin {"idle", "done"} => via'[x] \in oldest..mount
  BY <1>1 DEF ChainInv
<1>5. QED BY <1>1, <1>2, <1>3, <1>4 DEF ChainInv

LEMMA ChainStep ==
  ASSUME ChainInv, [Next]_vars
  PROVE  ChainInv'
<1>1. ASSUME NEW c \in Calls, Verify(c) \/ Expect(c) \/ StoreClaim(c) \/ Advance(c) PROVE ChainInv'
  <2>1. /\ Running(c) /\ pc[c] \in InChain /\ UNCHANGED <<chain, via, mount, oldest>>
        /\ \E stage \in InChain : At(c, stage)
    BY <1>1 DEF Verify, Expect, StoreClaim, Advance, InChain, local
  <2>2. QED BY <2>1, WorkKeepsChain
<1>2. ASSUME NEW c \in Calls,
             \/ Throws(c) \/ VerifyRefused(c) \/ ExpectRefused(c) \/ AdvanceMoved(c) \/ Settle(c)
      PROVE  ChainInv'
  <2>1. /\ Running(c) /\ pc[c] \in InChain /\ UNCHANGED <<via, mount, oldest>> /\ Leaves(c)
        /\ \E stage \in Stages \ (InChain \cup {"idle"}) : At(c, stage)
    BY <1>2 DEF Throws, VerifyRefused, ExpectRefused, AdvanceMoved, Settle, InChain, Stages, Answer
  <2>2. QED BY <2>1, LeavingKeepsChain
<1>3. ASSUME NEW c \in Calls,
             \/ ObserveAnswered(c) \/ ObserveDrifted(c) \/ Project(c) \/ CatchDegraded(c) \/ CatchError(c)
      PROVE  ChainInv'
  <2>1. /\ pc[c] \in {"clicked", "stood", "threw"} /\ UNCHANGED <<chain, via, mount, oldest>>
        /\ At(c, "done")
    BY <1>3 DEF ObserveAnswered, ObserveDrifted, Project, CatchDegraded, CatchError, Answer, local
  <2>2. pc[c] \notin InChain /\ "done" \in Stages \ (InChain \cup {"idle"})
    BY <2>1 DEF InChain, Stages
  <2>3. QED BY <2>1, <2>2, OutsideKeepsChain
<1>4. ASSUME NEW c \in Calls, NEW m \in Mounts, Click(c, m) PROVE ChainInv'
  <2>1. /\ pc[c] = "idle" /\ m \in oldest..mount /\ via' = [via EXCEPT ![c] = m]
        /\ UNCHANGED <<chain, mount, oldest>> /\ At(c, "clicked")
    BY <1>4 DEF Click, local
  <2>2. pc[c] \notin InChain /\ "clicked" \in Stages \ (InChain \cup {"idle"})
    BY <2>1 DEF InChain, Stages
  <2>3. QED BY <2>1, <2>2, OutsideKeepsChain
<1>5. CASE Crash
  <2>1. /\ mount \in Mounts /\ mount' = mount + 1 /\ oldest' = mount + 1 /\ mount < MaxMounts
        /\ chain' = [m \in Mounts |-> <<>>] /\ via' = via
        /\ pc' = [c \in Calls |-> IF pc[c] = "idle" THEN "idle" ELSE "done"]
    BY <1>5 DEF Crash, ChainInv
  <2>2. mount' \in Mounts /\ oldest' \in 1..mount'
    BY <2>1, AdmissionAssumption DEF Mounts
  <2>3. \A c \in Calls : pc'[c] \notin InChain /\ pc'[c] \in {"idle", "done"}
    BY <2>1 DEF InChain
  <2>4. pc' \in [Calls -> Stages]
    BY <2>1 DEF Stages
  <2>5. \A m \in Mounts : chain'[m] = <<>> /\ Len(chain'[m]) = 0
    BY <2>1
  <2>6. chain' \in [Mounts -> Seq(Calls)]
    BY <2>1
  <2>7. \A m \in Mounts : OnceIn(chain'[m])
    BY <2>5 DEF OnceIn
  <2>8. QED BY <2>1, <2>2, <2>3, <2>4, <2>5, <2>6, <2>7 DEF ChainInv
<1>6. CASE Remount
  <2>1. mount \in Mounts /\ mount' = mount + 1 /\ mount < MaxMounts /\ UNCHANGED <<oldest, chain, pc, via>>
    BY <1>6 DEF Remount, ChainInv, call
  <2>2. mount' \in Mounts /\ oldest \in 1..mount' /\ \A m \in oldest..mount : m \in oldest..mount'
    BY <2>1, AdmissionAssumption DEF Mounts, ChainInv
  <2>3. QED BY <2>1, <2>2 DEF ChainInv
<1>7. ASSUME UNCHANGED <<mount, oldest, chain, pc, via>> PROVE ChainInv'
  BY <1>7 DEF ChainInv
<1>8. ASSUME NEW p \in Proposals, Edit(p) \/ RevertWrite(p) \/ RevertSupersede(p) PROVE ChainInv'
  BY <1>7, <1>8 DEF Edit, RevertWrite, RevertSupersede, local, call
<1>9. ASSUME NEW m \in Mounts, StartRead(m) \/ FinishRead(m) PROVE ChainInv'
  BY <1>7, <1>9 DEF StartRead, FinishRead, call
<1>10. CASE UNCHANGED vars
  BY <1>7, <1>10 DEF vars, local, call
<1>11. QED
  BY <1>1, <1>2, <1>3, <1>4, <1>5, <1>6, <1>8, <1>9, <1>10, JoiningKeepsChain
     DEF Next, Serve, Wire, Environment

LEMMA ChainInitially == AdmissionInit => ChainInv
<1> SUFFICES ASSUME AdmissionInit PROVE ChainInv
  OBVIOUS
<1>1. 1 \in Mounts
  BY AdmissionAssumption DEF Mounts
<1>2. \A m \in Mounts : chain[m] = <<>> /\ Len(chain[m]) = 0
  BY DEF AdmissionInit
<1>3. QED BY <1>1, <1>2 DEF AdmissionInit, ChainInv, OnceIn, InChain, Stages

-----------------------------------------------------------------------------
(***************************************************************************)
(* Types, in every configuration.                                          *)
(***************************************************************************)
RestTypeOK ==
  /\ DOMAIN cache = Mounts /\ DOMAIN reading = Mounts
  /\ \A m \in Mounts : cache[m] = Nil \/ cache[m] \in Seq(Calls)
  /\ \A m \in Mounts : reading[m] = Nil \/ reading[m] \in Seq(Calls)
  /\ proposal \in [Proposals -> {"proposed", "admitted", "superseded"}]
  /\ note \in [Proposals -> {"proposed", "edited", "base"}]
  /\ fit \in [Calls -> BOOLEAN]
  /\ expected \in [Calls -> Seq(Calls)]
  /\ faulty \in Seq(Calls)

LEMMA FaultTypes ==
  ASSUME RestTypeOK, NEW c \in Calls, Fault(c)
  PROVE  faulty' \in Seq(Calls)
<1>1. faulty \in Seq(Calls) /\ faulty' = Append(faulty, c)
  BY DEF RestTypeOK, Fault
<1>2. QED BY <1>1

LEMMA StampTypes ==
  ASSUME RestTypeOK, NEW c \in Calls, StampSome(c)
  PROVE  /\ proposal' \in [Proposals -> {"proposed", "admitted", "superseded"}]
         /\ faulty' \in Seq(Calls)
<1>1. ASSUME NEW S, Stamp(c, S)
      PROVE  proposal' \in [Proposals -> {"proposed", "admitted", "superseded"}]
  <2>1. \A p \in Proposals : proposal[p] \in {"proposed", "admitted", "superseded"}
    BY DEF RestTypeOK
  <2>2. QED BY <1>1, <2>1 DEF Stamp
<1>2. CASE Stamp(c, Members(c)) /\ UNCHANGED faulty
  BY <1>1, <1>2 DEF RestTypeOK
<1>3. CASE Fault(c) /\ \E S \in SUBSET Members(c) : S # Members(c) /\ Stamp(c, S)
  BY <1>1, <1>3, FaultTypes
<1>4. QED BY <1>2, <1>3 DEF StampSome

LEMMA RestStep ==
  ASSUME LedgerInv, ChainInv, RestTypeOK, [Next]_vars
  PROVE  RestTypeOK'
<1> USE DEF RestTypeOK
<1>1. \A m \in Mounts : View(m) \in Seq(Calls)
  BY DEF View, LedgerInv, AdmTypeOK
<1>2. \A c \in Calls : via[c] \in Mounts /\ Append(View(via[c]), c) \in Seq(Calls)
  BY <1>1 DEF ChainInv
<1>3. ASSUME NEW c \in Calls, NEW m \in Mounts, Click(c, m) PROVE RestTypeOK'
  <2>1. /\ Fault(c) \/ UNCHANGED faulty
        /\ fit' = [fit EXCEPT ![c] = \A p \in Members(c) : proposal[p] = "proposed"]
        /\ UNCHANGED <<cache, reading, proposal, note, expected>>
    BY <1>3 DEF Click, stores, local
  <2>2. faulty' \in Seq(Calls)
    BY <2>1, FaultTypes
  <2>3. fit' \in [Calls -> BOOLEAN]
    BY <2>1
  <2>4. QED BY <2>1, <2>2, <2>3
<1>4. ASSUME NEW c \in Calls, ObserveAnswered(c) \/ CatchDegraded(c) \/ Project(c) PROVE RestTypeOK'
  <2>1. /\ Warm(via[c]) \/ UNCHANGED cache
        /\ StampSome(c) \/ UNCHANGED <<proposal, faulty>>
        /\ UNCHANGED <<reading, note, fit, expected>>
    BY <1>4 DEF ObserveAnswered, CatchDegraded, Project, local
  <2>2. DOMAIN cache' = Mounts /\ \A m \in Mounts : cache'[m] = Nil \/ cache'[m] \in Seq(Calls)
    <3>1. CASE Warm(via[c])
      BY <1>1, <1>2, <3>1 DEF Warm
    <3>2. CASE UNCHANGED cache
      BY <3>2
    <3>3. QED BY <2>1, <3>1, <3>2
  <2>3. /\ proposal' \in [Proposals -> {"proposed", "admitted", "superseded"}]
        /\ faulty' \in Seq(Calls)
    BY <2>1, StampTypes
  <2>4. QED BY <2>1, <2>2, <2>3
<1>5. ASSUME NEW c \in Calls, ObserveDrifted(c) \/ Observe(c) \/ ExpectRefused(c) \/ Expect(c)
      PROVE  RestTypeOK'
  <2>1. /\ Warm(via[c]) /\ UNCHANGED <<reading, note, proposal, faulty>>
        /\ UNCHANGED fit \/ fit' = [fit EXCEPT ![c] = @ /\ Unchanged(c)]
        /\ UNCHANGED expected \/ expected' = [expected EXCEPT ![c] = standing]
    BY <1>5 DEF ObserveDrifted, Observe, ExpectRefused, Expect, stores
  <2>2. DOMAIN cache' = Mounts /\ \A m \in Mounts : cache'[m] = Nil \/ cache'[m] \in Seq(Calls)
    BY <1>1, <1>2, <2>1 DEF Warm
  <2>3. fit' \in [Calls -> BOOLEAN]
    <3>1. (fit[c] /\ Unchanged(c)) \in BOOLEAN
      BY DEF Unchanged
    <3>2. QED BY <2>1, <3>1
  <2>4. expected' \in [Calls -> Seq(Calls)]
    BY <2>1 DEF LedgerInv, AdmTypeOK
  <2>5. QED BY <2>1, <2>2, <2>3, <2>4
<1>6. ASSUME NEW c \in Calls, StoreClaim(c) PROVE RestTypeOK'
  BY <1>2, <1>6 DEF StoreClaim
<1>7. ASSUME NEW c \in Calls, Throws(c) \/ CatchError(c) PROVE RestTypeOK'
  <2>1. /\ Fault(c) \/ UNCHANGED faulty
        /\ UNCHANGED <<cache, reading, proposal, note, fit, expected>>
    BY <1>7 DEF Throws, CatchError, stores, local
  <2>2. QED BY <2>1, FaultTypes
<1>8. ASSUME NEW c \in Calls,
             VerifyRefused(c) \/ Verify(c) \/ AdvanceMoved(c) \/ Advance(c) \/ Settle(c)
      PROVE  RestTypeOK'
  BY <1>8 DEF VerifyRefused, Verify, AdvanceMoved, Advance, Settle, stores, local
<1>9. ASSUME NEW p \in Proposals, Edit(p) \/ RevertWrite(p) \/ RevertSupersede(p) PROVE RestTypeOK'
  BY <1>9 DEF Edit, RevertWrite, RevertSupersede, local, call
<1>10. ASSUME NEW m \in Mounts, StartRead(m) \/ FinishRead(m) PROVE RestTypeOK'
  BY <1>10 DEF StartRead, FinishRead, call, stores, LedgerInv, AdmTypeOK
<1>11. CASE Remount \/ Crash \/ UNCHANGED vars
  BY <1>11 DEF Remount, Crash, vars, stores, local, call
<1>12. QED
  BY <1>3, <1>4, <1>5, <1>6, <1>7, <1>8, <1>9, <1>10, <1>11 DEF Next, Serve, Wire, Environment

TypeInv == LedgerInv /\ ChainInv /\ RestTypeOK

LEMMA TypesInitially == AdmissionInit => TypeInv
<1>1. AdmissionInit => RestTypeOK
  BY DEF AdmissionInit, RestTypeOK
<1>2. QED BY <1>1, LedgerInitially, ChainInitially DEF TypeInv

LEMMA TypesStep ==
  ASSUME TypeInv, [Next]_vars
  PROVE  TypeInv'
BY LedgerInductive, ChainStep, RestStep DEF TypeInv

LEMMA TypeOKFollows == TypeInv => AdmissionTypeOK
<1> SUFFICES ASSUME TypeInv PROVE AdmissionTypeOK
  OBVIOUS
<1>1. \A c \in Calls : pc[c] \in InChain <=> c \in Elements(chain[via[c]])
  <2>1. SUFFICES ASSUME NEW c \in Calls
                 PROVE  pc[c] \in InChain <=> c \in Elements(chain[via[c]])
    OBVIOUS
  <2>2. PICK q, s : q = via[c] /\ s = chain[q]
    OBVIOUS
  <2>3. q \in Mounts /\ s \in Seq(Calls) /\ DOMAIN s = 1..Len(s)
    BY <2>2 DEF TypeInv, ChainInv
  <2>4. pc[c] \in InChain => \E n \in 1..Len(s) : s[n] = c
    BY <2>2 DEF TypeInv, ChainInv
  <2>5. \A n \in 1..Len(s) : pc[s[n]] \in InChain
    BY <2>2, <2>3 DEF TypeInv, ChainInv
  <2>6. c \in Elements(s) <=> \E n \in 1..Len(s) : s[n] = c
    BY <2>3 DEF Elements
  <2>7. QED BY <2>2, <2>4, <2>5, <2>6
<1>2. \A f \in {cache, reading} : \A m \in Mounts : f[m] = Nil \/ f[m] \in Seq(Calls)
  BY DEF TypeInv, RestTypeOK
<1>3. QED BY <1>1, <1>2 DEF TypeInv, LedgerInv, AdmTypeOK, ChainInv, RestTypeOK, AdmissionTypeOK

\* The state is well formed, and the calls between Observe and their answer are those of
\* the chains: for any number of mounts, crashes, failures and overtaken reads.
THEOREM AdmissionTypeCorrect == AdmissionSpec => []AdmissionTypeOK
BY TypeOKFollows, TypesInitially, TypesStep, PTL DEF AdmissionSpec

\* A settled authority axis is never undone (the transition functions of proposal.ts).
THEOREM AuthorityIsFinal == AdmissionSpec => AuthorityFinal
<1>1. ASSUME TypeInv, [Next]_vars, NEW p \in Proposals, proposal[p] # "proposed"
      PROVE  proposal'[p] = proposal[p]
  <2>1. ASSUME NEW c \in Calls, StampSome(c) PROVE proposal'[p] = proposal[p]
    BY <1>1, <2>1 DEF StampSome, Stamp
  <2>2. ASSUME NEW c \in Calls, Wire(c) PROVE proposal'[p] = proposal[p]
    BY <2>1, <2>2 DEF Wire, ObserveAnswered, ObserveDrifted, Observe, Project, CatchDegraded, CatchError, stores
  <2>3. ASSUME NEW c \in Calls, Serve(c) PROVE proposal'[p] = proposal[p]
    BY <2>3 DEF Serve, Throws, VerifyRefused, Verify, ExpectRefused, Expect, StoreClaim,
                AdvanceMoved, Advance, Settle, stores
  <2>4. ASSUME NEW c \in Calls, NEW m \in Mounts, Click(c, m) PROVE proposal'[p] = proposal[p]
    BY <2>4 DEF Click, stores
  <2>5. CASE Environment
    BY <1>1, <2>5 DEF Environment, Edit, RevertWrite, RevertSupersede, StartRead, FinishRead,
                      Remount, Crash, stores, TypeInv, RestTypeOK
  <2>6. CASE UNCHANGED vars
    BY <2>6 DEF vars, stores
  <2>7. QED BY <1>1, <2>2, <2>3, <2>4, <2>5, <2>6 DEF Next
<1>2. TypeInv /\ [Next]_vars
        => [\A p \in Proposals : proposal[p] # "proposed" => proposal'[p] = proposal[p]]_vars
  BY <1>1
<1>3. QED BY <1>2, TypesInitially, TypesStep, PTL DEF AdmissionSpec, AuthorityFinal

-----------------------------------------------------------------------------
(***************************************************************************)
(* Once.  A pane mounted once has one chain and one cache.  The cache is   *)
(* the claim file, so what Expect looks up is what is stored; and only the *)
(* head of the chain is past "queued", so nothing is stored between the    *)
(* lookup and the claim it licenses.  A crash does not disturb this: the   *)
(* next mount has a cold cache.                                            *)
(***************************************************************************)
Apart(x, y) == DecisionOf[x] # DecisionOf[y] /\ GestureOf[x] # GestureOf[y]

\* The newest mount is the only one, and knows what is stored.
OneMount ==
  /\ oldest = mount
  /\ cache[mount] = Nil \/ cache[mount] = claims
  /\ \A m \in Mounts : m > mount => cache[m] = Nil
  /\ \A m \in Mounts : reading[m] = Nil

OnceInv ==
  /\ AnswerInv
  /\ TypeInv
  /\ OneMount
  /\ \A i, j \in 1..Len(claims) : i # j => Apart(claims[i], claims[j])
  /\ \A c \in Calls : pc[c] = "claiming" => \A x \in Elements(claims) : Apart(x, c)

\* Of two calls past "queued" in one chain, neither is behind the other.
LEMMA OneWorks ==
  ASSUME ChainInv, oldest = mount, NEW c \in Calls, NEW d \in Calls,
         pc[c] \in InChain \ {"queued"}, pc[d] \in InChain \ {"queued"}
  PROVE  c = d
<1>1. via[c] = mount /\ via[d] = mount
  BY DEF ChainInv, InChain
<1>2. PICK n \in 1..Len(chain[mount]) : chain[mount][n] = c
  BY <1>1 DEF ChainInv
<1>3. PICK k \in 1..Len(chain[mount]) : chain[mount][k] = d
  BY <1>1 DEF ChainInv
<1>4. n = 1 /\ k = 1
  BY <1>2, <1>3 DEF ChainInv
<1>5. QED BY <1>2, <1>3, <1>4

\* What a call of the one mount sees of the claim store is the claim file.
LEMMA SeesClaims ==
  ASSUME OnceInv, NEW c \in Calls, pc[c] \notin {"idle", "done"}
  PROVE  via[c] = mount /\ mount \in Mounts /\ View(via[c]) = claims
<1>1. via[c] = mount /\ mount \in Mounts
  BY DEF OnceInv, OneMount, TypeInv, ChainInv
<1>2. QED BY <1>1 DEF View, OnceInv, OneMount

LEMMA OnceInitially == AdmissionInit => OnceInv
<1> SUFFICES ASSUME AdmissionInit PROVE OnceInv
  OBVIOUS
<1>1. 1 \in Mounts
  BY AdmissionAssumption DEF Mounts
<1>2. OneMount
  BY <1>1 DEF AdmissionInit, OneMount
<1>3. Len(claims) = 0 /\ \A c \in Calls : pc[c] # "claiming"
  BY DEF AdmissionInit
<1>4. QED BY <1>2, <1>3, AnswerInitially, TypesInitially DEF OnceInv

\* A step that leaves the claim file alone, and at most warms a cache.
LEMMA OnceKept ==
  ASSUME OnceInv, UNCHANGED <<claims, mount, oldest, reading>>,
         UNCHANGED cache \/ \E c \in Calls : pc[c] \notin {"idle", "done"} /\ Warm(via[c]),
         \A c \in Calls : pc'[c] = "claiming"
           => pc[c] = "claiming" \/ \A x \in Elements(claims) : Apart(x, c)
  PROVE  /\ OneMount'
         /\ \A i, j \in 1..Len(claims') : i # j => Apart(claims'[i], claims'[j])
         /\ \A c \in Calls : pc'[c] = "claiming" => \A x \in Elements(claims') : Apart(x, c)
<1>1. OneMount'
  <2>1. CASE UNCHANGED cache
    BY <2>1 DEF OnceInv, OneMount
  <2>2. CASE \E c \in Calls : pc[c] \notin {"idle", "done"} /\ Warm(via[c])
    <3>1. PICK c \in Calls : pc[c] \notin {"idle", "done"} /\ Warm(via[c])
      BY <2>2
    <3>2. mount \in Mounts /\ cache' = [cache EXCEPT ![mount] = claims]
      BY <3>1, SeesClaims DEF Warm
    <3>3. mount \in Nat /\ DOMAIN cache = Mounts
      BY <3>2, AdmissionAssumption DEF Mounts, OnceInv, TypeInv, RestTypeOK
    <3>4. QED BY <3>2, <3>3 DEF OnceInv, OneMount
  <2>3. QED BY <2>1, <2>2
<1>2. \A i, j \in 1..Len(claims') : i # j => Apart(claims'[i], claims'[j])
  BY DEF OnceInv
<1>3. \A c \in Calls : pc'[c] = "claiming" => \A x \in Elements(claims') : Apart(x, c)
  BY DEF OnceInv, Elements
<1>4. QED BY <1>1, <1>2, <1>3

\* A claim is stored: it is apart from all that are.
LEMMA OnceStored ==
  ASSUME OnceInv, NEW c \in Calls, StoreClaim(c)
  PROVE  /\ OneMount'
         /\ \A i, j \in 1..Len(claims') : i # j => Apart(claims'[i], claims'[j])
         /\ \A d \in Calls : pc'[d] = "claiming" => \A x \in Elements(claims') : Apart(x, d)
<1>1. /\ pc[c] = "claiming" /\ pc' = [pc EXCEPT ![c] = "claimed"] /\ pc \in [Calls -> Stages]
      /\ claims \in Seq(Calls) /\ claims' = Append(claims, c)
      /\ UNCHANGED <<mount, oldest, reading>>
  BY DEF StoreClaim, At, OnceInv, TypeInv, ChainInv, LedgerInv, AdmTypeOK
<1>2. via[c] = mount /\ mount \in Mounts /\ View(via[c]) = claims
  BY <1>1, SeesClaims
<1>3. cache' = [cache EXCEPT ![mount] = claims']
  BY <1>1, <1>2 DEF StoreClaim
<1>4. mount \in Nat /\ DOMAIN cache = Mounts
  BY <1>2, AdmissionAssumption DEF Mounts, OnceInv, TypeInv, RestTypeOK
<1>5. OneMount'
  <2>1. cache'[mount] = claims'
    BY <1>2, <1>3, <1>4
  <2>2. ASSUME NEW m \in Mounts, m > mount PROVE cache'[m] = Nil
    BY <1>3, <1>4, <2>2 DEF OnceInv, OneMount
  <2>3. QED BY <1>1, <2>1, <2>2 DEF OnceInv, OneMount
<1>6. /\ Len(claims) \in Nat /\ Len(claims') = Len(claims) + 1
      /\ \A n \in 1..Len(claims) : claims'[n] = claims[n] /\ Apart(claims[n], c)
      /\ claims'[Len(claims) + 1] = c
  <2>1. \A n \in 1..Len(claims) : claims[n] \in Elements(claims)
    BY <1>1 DEF Elements
  <2>2. \A x \in Elements(claims) : Apart(x, c)
    BY <1>1 DEF OnceInv
  <2>3. QED BY <1>1, <2>1, <2>2
<1>7. ASSUME NEW i \in 1..Len(claims'), NEW j \in 1..Len(claims'), i # j
      PROVE  Apart(claims'[i], claims'[j])
  <2>1. CASE i \in 1..Len(claims) /\ j \in 1..Len(claims)
    BY <1>6, <1>7, <2>1 DEF OnceInv
  <2>2. CASE i = Len(claims) + 1 /\ j \in 1..Len(claims)
    BY <1>6, <1>7, <2>2 DEF Apart
  <2>3. CASE j = Len(claims) + 1 /\ i \in 1..Len(claims)
    BY <1>6, <1>7, <2>3 DEF Apart
  <2>4. QED BY <1>6, <1>7, <2>1, <2>2, <2>3
<1>8. ASSUME NEW d \in Calls, pc'[d] = "claiming" PROVE FALSE
  <2>1. d # c /\ pc[d] = "claiming"
    BY <1>1, <1>8
  <2>2. QED BY <1>1, <2>1, OneWorks DEF OnceInv, TypeInv, OneMount, InChain
<1>9. QED BY <1>5, <1>7, <1>8

LEMMA OnceStep ==
  ASSUME ~Remounts, ~SlowReads, OnceInv, [Next]_vars
  PROVE  OnceInv'
<1> DEFINE Kept == /\ OneMount'
                   /\ \A i, j \in 1..Len(claims') : i # j => Apart(claims'[i], claims'[j])
                   /\ \A d \in Calls : pc'[d] = "claiming" => \A x \in Elements(claims') : Apart(x, d)
<1>0. AnswerInv' /\ TypeInv'
  BY AnswerInductive, TypesStep DEF OnceInv
<1>p. pc \in [Calls -> Stages]
  BY DEF OnceInv, TypeInv, ChainInv
<1>1. ASSUME NEW c \in Calls, Expect(c) PROVE Kept
  <2>1. /\ pc[c] = "verified" /\ Warm(via[c]) /\ UNCHANGED <<claims, mount, oldest, reading>>
        /\ pc' = [pc EXCEPT ![c] = "claiming"]
        /\ ~GestureUsed(c) /\ BySubject(via[c], DecisionOf[c]) = {}
    BY <1>1 DEF Expect, At, stores
  <2>2. View(via[c]) = claims
    BY <2>1, SeesClaims
  <2>3. \A x \in Elements(claims) : Apart(x, c)
    BY <2>1, <2>2 DEF GestureUsed, BySubject, Apart
  <2>4. \A d \in Calls : pc'[d] = "claiming"
          => pc[d] = "claiming" \/ \A x \in Elements(claims) : Apart(x, d)
    BY <1>p, <2>1, <2>3
  <2>5. QED BY <2>1, <2>4, OnceKept
<1>2. ASSUME NEW c \in Calls,
             \/ Throws(c) \/ VerifyRefused(c) \/ Verify(c) \/ ExpectRefused(c)
             \/ AdvanceMoved(c) \/ Advance(c) \/ Settle(c) \/ Wire(c)
             \/ \E m \in Mounts : Click(c, m)
      PROVE  Kept
  <2>1. /\ UNCHANGED <<claims, mount, oldest, reading>>
        /\ UNCHANGED cache \/ (pc[c] \notin {"idle", "done"} /\ Warm(via[c]))
    BY <1>2 DEF Throws, VerifyRefused, Verify, ExpectRefused, AdvanceMoved, Advance, Settle, Wire,
                Click, ObserveAnswered, ObserveDrifted, Observe, Project, CatchDegraded, CatchError,
                stores, local
  <2>2. \E stage \in Stages \ {"claiming"} : At(c, stage)
    BY <1>2 DEF Throws, VerifyRefused, Verify, ExpectRefused, AdvanceMoved, Advance, Settle, Wire,
                Click, ObserveAnswered, ObserveDrifted, Observe, Project, CatchDegraded, CatchError,
                Answer, Stages
  <2>3. \A d \in Calls : pc'[d] = "claiming" => pc[d] = "claiming"
    BY <1>p, <2>2 DEF At
  <2>4. QED BY <2>1, <2>3, OnceKept
<1>3. ASSUME Crash PROVE Kept
  <2>1. /\ mount' = mount + 1 /\ oldest' = mount + 1 /\ mount < MaxMounts /\ mount \in Mounts
        /\ reading' = [m \in Mounts |-> Nil] /\ UNCHANGED <<cache, claims>>
        /\ pc' = [c \in Calls |-> IF pc[c] = "idle" THEN "idle" ELSE "done"]
    BY <1>3 DEF Crash, stores, OnceInv, TypeInv, ChainInv
  <2>2. mount \in Nat /\ mount' \in Mounts /\ mount' > mount /\ \A m \in Mounts : m > mount' => m > mount
    BY <2>1, AdmissionAssumption DEF Mounts
  <2>3. OneMount'
    BY <2>1, <2>2 DEF OnceInv, OneMount
  <2>4. \A d \in Calls : pc'[d] # "claiming"
    BY <2>1
  <2>5. QED BY <2>1, <2>3, <2>4 DEF OnceInv
<1>4. ASSUME UNCHANGED <<claims, mount, oldest, reading, cache, pc>> PROVE Kept
  BY <1>4, OnceKept
<1>5. ASSUME NEW p \in Proposals, Edit(p) \/ RevertWrite(p) \/ RevertSupersede(p) PROVE Kept
  BY <1>4, <1>5 DEF Edit, RevertWrite, RevertSupersede, local, call
<1>6. ASSUME NEW m \in Mounts PROVE ~StartRead(m) /\ ~FinishRead(m)
  BY <1>6 DEF StartRead, FinishRead, OnceInv, OneMount
<1>7. ASSUME UNCHANGED vars PROVE Kept
  BY <1>4, <1>7 DEF vars, stores, local, call
<1>8. ~Remount
  BY DEF Remount
<1>9. Kept
  BY <1>1, <1>2, <1>3, <1>5, <1>6, <1>7, <1>8, OnceStored DEF Next, Serve, Environment
<1>10. QED BY <1>0, <1>9 DEF OnceInv

\* In a pane mounted once a decision stands at most once and a gesture licenses at most
\* one claim, however many clicks name them and whatever fails or crashes; a second mount
\* (its own chain and cache) or an overtaken cold read breaks this, so both are assumed away.
THEOREM AdmissionOnce ==
  ASSUME ~Remounts, ~SlowReads
  PROVE  AdmissionSpec => []AdmittedOnce
<1>1. OnceInv => AdmittedOnce
  <2> SUFFICES ASSUME OnceInv PROVE AdmittedOnce
    OBVIOUS
  <2>1. AdmissionTypeOK
    BY TypeOKFollows DEF OnceInv
  <2>2. /\ claims \in Seq(Calls) /\ DOMAIN claims = 1..Len(claims)
        /\ standing \in Seq(Calls) /\ DOMAIN standing = 1..Len(standing)
    BY DEF OnceInv, TypeInv, LedgerInv, AdmTypeOK
  <2>3. ASSUME NEW i \in 1..Len(standing), NEW j \in 1..Len(standing),
               DecisionOf[standing[i]] = DecisionOf[standing[j]]
        PROVE  i = j
    <3>1. standing[i] \in Elements(claims) /\ standing[j] \in Elements(claims)
      BY <2>2, <2>3 DEF OnceInv, TypeInv, LedgerInv, EvidenceFirst, Elements
    <3>2. PICK a \in 1..Len(claims) : claims[a] = standing[i]
      BY <2>2, <3>1 DEF Elements
    <3>3. PICK b \in 1..Len(claims) : claims[b] = standing[j]
      BY <2>2, <3>1 DEF Elements
    <3>4. a = b
      BY <2>3, <3>2, <3>3 DEF OnceInv, Apart
    <3>5. QED BY <2>3, <3>2, <3>3, <3>4 DEF OnceInv, AnswerInv, NoRepeat
  <2>4. \A i, j \in 1..Len(claims) : GestureOf[claims[i]] = GestureOf[claims[j]] => i = j
    BY DEF OnceInv, Apart
  <2>5. QED BY <2>1, <2>2, <2>3, <2>4 DEF AdmittedOnce, StandsOnce
<1>2. OnceInv /\ [Next]_vars => OnceInv'
  BY OnceStep
<1>3. QED BY <1>1, <1>2, OnceInitially, PTL DEF AdmissionSpec

-----------------------------------------------------------------------------
(***************************************************************************)
(* Seen.  While nothing fails and the pane is mounted once, what is stored *)
(* comes to stand: only the head of the chain swaps standing, so its       *)
(* compare-and-swap cannot be lost.  A projection then follows: what       *)
(* stands is marked by the call that made it stand, and what is marked is  *)
(* covered by a stored claim.  This holds also when a cold read of the     *)
(* claim file is overtaken, and a decision stands twice.                   *)
(***************************************************************************)
Quietly == MaxFaults = 0 /\ ~Remounts /\ ~Crashes

Marked(p) == proposal[p] # "proposed"

\* Nobody believes in a claim that is not stored, and the swap of a call at work will be won.
StoreInv ==
  /\ oldest = mount
  /\ \A m \in Mounts : /\ cache[m] # Nil => Elements(cache[m]) \subseteq Elements(claims)
                       /\ reading[m] # Nil => Elements(reading[m]) \subseteq Elements(claims)
  /\ \A c \in Calls : pc[c] \in {"claiming", "claimed"} => expected[c] = standing

\* A stored claim stands or is about to; its members are marked or are about to be.
MarkInv ==
  /\ \A x \in Elements(claims) : Stands(x) \/ pc[x] = "claimed"
  /\ \A x \in Elements(standing) :
       pc[x] \in {"advanced", "stood"} \/ \A p \in Members(x) : Marked(p)
  /\ \A p \in Proposals : proposal[p] = "admitted" => \E x \in Elements(claims) : p \in Members(x)

SeenInv == TypeInv /\ StoreInv /\ MarkInv

LEMMA NoFault == MaxFaults = 0 /\ faulty \in Seq(Calls) => \A c \in Calls : ~Fault(c)
BY DEF Fault

LEMMA StampAll ==
  ASSUME MaxFaults = 0, faulty \in Seq(Calls), NEW c \in Calls, StampSome(c)
  PROVE  proposal' = [p \in Proposals |-> IF p \in Members(c) /\ proposal[p] = "proposed"
                                           THEN "admitted" ELSE proposal[p]]
BY NoFault DEF StampSome, Stamp

LEMMA SeenInitially == AdmissionInit => SeenInv
<1> SUFFICES ASSUME AdmissionInit PROVE SeenInv
  OBVIOUS
<1>1. Elements(claims) = {} /\ Elements(standing) = {}
  BY DEF AdmissionInit, Elements
<1>2. StoreInv
  BY DEF AdmissionInit, StoreInv
<1>3. MarkInv
  BY <1>1 DEF AdmissionInit, MarkInv
<1>4. QED BY <1>2, <1>3, TypesInitially DEF SeenInv

LEMMA SeenClaims ==
  ASSUME TypeInv, StoreInv, NEW m \in Mounts
  PROVE  View(m) \in Seq(Calls) /\ Elements(View(m)) \subseteq Elements(claims)
BY DEF View, TypeInv, LedgerInv, AdmTypeOK, RestTypeOK, StoreInv

LEMMA StoreStep ==
  ASSUME Quietly, SeenInv, [Next]_vars
  PROVE  StoreInv'
<1> DEFINE Believed(cc, rr, S) ==
      \A m \in Mounts : /\ cc[m] # Nil => Elements(cc[m]) \subseteq S
                        /\ rr[m] # Nil => Elements(rr[m]) \subseteq S
<1>0. /\ TypeInv /\ StoreInv /\ claims \in Seq(Calls) /\ faulty \in Seq(Calls)
      /\ pc \in [Calls -> Stages] /\ via \in [Calls -> Mounts] /\ oldest = mount
      /\ DOMAIN cache = Mounts /\ DOMAIN reading = Mounts
      /\ expected \in [Calls -> Seq(Calls)] /\ Believed(cache, reading, Elements(claims))
  BY DEF SeenInv, TypeInv, LedgerInv, AdmTypeOK, ChainInv, RestTypeOK, StoreInv
<1>1. \A c \in Calls : Warm(via[c]) => Believed(cache', reading, Elements(claims))
  <2> SUFFICES ASSUME NEW c \in Calls, Warm(via[c])
               PROVE  Believed(cache', reading, Elements(claims))
    OBVIOUS
  <2>1. Elements(View(via[c])) \subseteq Elements(claims)
    BY <1>0, SeenClaims
  <2>2. QED BY <1>0, <2>1 DEF Warm
<1>2. ASSUME UNCHANGED <<mount, oldest>>, Believed(cache', reading', Elements(claims')),
             \A c \in Calls : pc'[c] \in {"claiming", "claimed"} => expected'[c] = standing'
      PROVE  StoreInv'
  BY <1>0, <1>2 DEF StoreInv
<1>3. ASSUME NEW c \in Calls, Expect(c) PROVE StoreInv'
  <2>1. /\ Warm(via[c]) /\ UNCHANGED <<claims, standing, mount, oldest, reading>>
        /\ pc' = [pc EXCEPT ![c] = "claiming"] /\ expected' = [expected EXCEPT ![c] = standing]
    BY <1>3 DEF Expect, At, stores
  <2>2. \A d \in Calls : pc'[d] \in {"claiming", "claimed"} => expected'[d] = standing'
    BY <1>0, <2>1 DEF StoreInv
  <2>3. Believed(cache', reading', Elements(claims'))
    BY <1>1, <2>1
  <2>4. QED BY <1>2, <2>1, <2>2, <2>3
<1>4. ASSUME NEW c \in Calls, StoreClaim(c) PROVE StoreInv'
  <2>1. /\ pc[c] = "claiming" /\ claims' = Append(claims, c)
        /\ cache' = [cache EXCEPT ![via[c]] = Append(View(via[c]), c)]
        /\ pc' = [pc EXCEPT ![c] = "claimed"]
        /\ UNCHANGED <<standing, mount, oldest, reading, expected>>
    BY <1>4 DEF StoreClaim, At
  <2>2. Elements(claims') = Elements(claims) \cup {c}
    BY <1>0, <2>1, Appending
  <2>3. Elements(Append(View(via[c]), c)) \subseteq Elements(claims) \cup {c}
    <3>1. PICK s : s = View(via[c])
      OBVIOUS
    <3>2. s \in Seq(Calls) /\ Elements(s) \subseteq Elements(claims)
      BY <1>0, <3>1, SeenClaims
    <3>3. QED BY <3>1, <3>2, Appending
  <2>4. Believed(cache', reading', Elements(claims'))
    BY <1>0, <2>1, <2>2, <2>3
  <2>5. \A d \in Calls : pc'[d] \in {"claiming", "claimed"} => expected'[d] = standing'
    BY <1>0, <2>1 DEF StoreInv
  <2>6. QED BY <1>2, <2>1, <2>4, <2>5
<1>5. ASSUME NEW c \in Calls, Advance(c) PROVE StoreInv'
  <2>1. /\ pc[c] = "claimed" /\ pc' = [pc EXCEPT ![c] = "advanced"]
        /\ UNCHANGED <<claims, cache, mount, oldest, reading, expected>>
    BY <1>5 DEF Advance, At, local
  <2>2. \A d \in Calls : pc'[d] \notin {"claiming", "claimed"}
    BY <1>0, <2>1, OneWorks DEF TypeInv, InChain
  <2>3. QED BY <1>0, <1>2, <2>1, <2>2
<1>6. ASSUME NEW c \in Calls,
             \/ Throws(c) \/ VerifyRefused(c) \/ Verify(c) \/ ExpectRefused(c)
             \/ AdvanceMoved(c) \/ Settle(c) \/ Wire(c) \/ \E m \in Mounts : Click(c, m)
      PROVE  StoreInv'
  <2>1. /\ UNCHANGED <<claims, standing, mount, oldest, reading, expected>>
        /\ UNCHANGED cache \/ Warm(via[c])
    BY <1>6 DEF Throws, VerifyRefused, Verify, ExpectRefused, AdvanceMoved, Settle, Wire,
                Click, ObserveAnswered, ObserveDrifted, Observe, Project, CatchDegraded, CatchError,
                stores, local
  <2>2. \E stage \in Stages \ {"claiming", "claimed"} : At(c, stage)
    BY <1>6 DEF Throws, VerifyRefused, Verify, ExpectRefused, AdvanceMoved, Settle, Wire,
                Click, ObserveAnswered, ObserveDrifted, Observe, Project, CatchDegraded, CatchError,
                Answer, Stages
  <2>3. \A d \in Calls : pc'[d] \in {"claiming", "claimed"} => pc[d] \in {"claiming", "claimed"}
    BY <1>0, <2>2 DEF At
  <2>4. Believed(cache', reading', Elements(claims'))
    BY <1>0, <1>1, <2>1
  <2>5. \A d \in Calls : pc'[d] \in {"claiming", "claimed"} => expected'[d] = standing'
    BY <1>0, <2>1, <2>3 DEF StoreInv
  <2>6. QED BY <1>2, <2>1, <2>4, <2>5
<1>7. ASSUME NEW m \in Mounts, StartRead(m) \/ FinishRead(m) PROVE StoreInv'
  <2>1. UNCHANGED <<claims, standing, mount, oldest, expected, pc>>
    BY <1>7 DEF StartRead, FinishRead, stores, call
  <2>2. Believed(cache', reading', Elements(claims))
    BY <1>0, <1>7 DEF StartRead, FinishRead
  <2>3. \A d \in Calls : pc'[d] \in {"claiming", "claimed"} => expected'[d] = standing'
    BY <1>0, <2>1 DEF StoreInv
  <2>4. QED BY <1>2, <2>1, <2>2, <2>3
<1>8. ASSUME UNCHANGED <<claims, standing, mount, oldest, expected, pc, cache, reading>>
      PROVE  StoreInv'
  BY <1>0, <1>8 DEF StoreInv
<1>9. ASSUME NEW p \in Proposals, Edit(p) \/ RevertWrite(p) \/ RevertSupersede(p) PROVE StoreInv'
  BY <1>8, <1>9 DEF Edit, RevertWrite, RevertSupersede, local, call
<1>10. ASSUME UNCHANGED vars PROVE StoreInv'
  BY <1>8, <1>10 DEF vars, stores, local, call
<1>11. ~Remount /\ ~Crash
  BY DEF Remount, Crash, Quietly
<1>12. QED
  BY <1>3, <1>4, <1>5, <1>6, <1>7, <1>9, <1>10, <1>11 DEF Next, Serve, Environment

LEMMA MarkStep ==
  ASSUME Quietly, SeenInv, [Next]_vars
  PROVE  MarkInv'
<1>0. /\ TypeInv /\ StoreInv /\ MarkInv /\ claims \in Seq(Calls) /\ standing \in Seq(Calls)
      /\ faulty \in Seq(Calls) /\ pc \in [Calls -> Stages] /\ via \in [Calls -> Mounts]
      /\ proposal \in [Proposals -> {"proposed", "admitted", "superseded"}]
      /\ MaxFaults = 0 /\ Elements(claims) \subseteq Calls /\ Elements(standing) \subseteq Calls
  BY DEF SeenInv, TypeInv, LedgerInv, AdmTypeOK, ChainInv, RestTypeOK, Elements, Quietly
<1>1. \A c \in Calls : ~Fault(c)
  BY <1>0, NoFault
<1>2. \A c \in Calls : Members(c) \subseteq Proposals
  BY AdmissionAssumption DEF Members
\* The claims and standing stay, no call leaves "claimed", and marks are only added.
<1>3. ASSUME UNCHANGED <<claims, standing>>,
             \A x \in Calls : pc[x] = "claimed" => pc'[x] = "claimed",
             \A p \in Proposals : Marked(p) => proposal'[p] # "proposed",
             \A x \in Calls : pc[x] \in {"advanced", "stood"} =>
               \/ pc'[x] \in {"advanced", "stood"}
               \/ \A p \in Members(x) : proposal'[p] # "proposed",
             \A p \in Proposals : proposal'[p] = "admitted" =>
               \/ proposal[p] = "admitted"
               \/ \E x \in Elements(claims) : p \in Members(x)
      PROVE  MarkInv'
  <2>1. Elements(claims)' = Elements(claims) /\ Elements(standing)' = Elements(standing)
    BY <1>3 DEF Elements
  <2>2. \A x \in Elements(claims)' : x \in Elements(standing)' \/ pc'[x] = "claimed"
    BY <1>0, <1>3, <2>1 DEF MarkInv, Stands
  <2>3. \A x \in Elements(standing)' :
          pc'[x] \in {"advanced", "stood"} \/ \A p \in Members(x) : proposal'[p] # "proposed"
    BY <1>0, <1>2, <1>3, <2>1 DEF MarkInv, Marked
  <2>4. \A p \in Proposals : proposal'[p] = "admitted" => \E x \in Elements(claims)' : p \in Members(x)
    BY <1>0, <1>3, <2>1 DEF MarkInv
  <2>5. QED BY <2>2, <2>3, <2>4 DEF MarkInv, Stands, Marked
<1>4. ASSUME NEW c \in Calls, StoreClaim(c) PROVE MarkInv'
  <2>1. /\ pc[c] = "claiming" /\ claims' = Append(claims, c) /\ pc' = [pc EXCEPT ![c] = "claimed"]
        /\ UNCHANGED <<standing, proposal>>
    BY <1>4 DEF StoreClaim, At
  <2>2. Elements(claims)' = Elements(claims) \cup {c} /\ Elements(standing)' = Elements(standing)
    <3>1. Elements(claims') = Elements(claims) \cup {c}
      BY <1>0, <2>1, Appending
    <3>2. Elements(standing') = Elements(standing)
      BY <2>1
    <3>3. QED BY <3>1, <3>2
  <2>3. \A x \in Elements(claims)' : x \in Elements(standing)' \/ pc'[x] = "claimed"
    BY <1>0, <2>1, <2>2 DEF MarkInv, Stands
  <2>4. \A x \in Elements(standing)' :
          pc'[x] \in {"advanced", "stood"} \/ \A p \in Members(x) : proposal'[p] # "proposed"
    BY <1>0, <2>1, <2>2 DEF MarkInv, Marked
  <2>5. \A p \in Proposals : proposal'[p] = "admitted" => \E x \in Elements(claims)' : p \in Members(x)
    BY <1>0, <2>1, <2>2 DEF MarkInv
  <2>6. QED BY <2>3, <2>4, <2>5 DEF MarkInv, Stands, Marked
<1>5. ASSUME NEW c \in Calls, Advance(c) PROVE MarkInv'
  <2>1. /\ pc[c] = "claimed" /\ standing' = Append(standing, c) /\ pc' = [pc EXCEPT ![c] = "advanced"]
        /\ UNCHANGED <<claims, proposal>>
    BY <1>5 DEF Advance, At
  <2>2. Elements(standing)' = Elements(standing) \cup {c} /\ Elements(claims)' = Elements(claims)
    <3>1. Elements(standing') = Elements(standing) \cup {c}
      BY <1>0, <2>1, Appending
    <3>2. Elements(claims') = Elements(claims)
      BY <2>1
    <3>3. QED BY <3>1, <3>2
  <2>3. \A x \in Elements(claims)' : x \in Elements(standing)' \/ pc'[x] = "claimed"
    BY <1>0, <2>1, <2>2 DEF MarkInv, Stands
  <2>4. \A x \in Elements(standing)' :
          pc'[x] \in {"advanced", "stood"} \/ \A p \in Members(x) : proposal'[p] # "proposed"
    BY <1>0, <2>1, <2>2 DEF MarkInv, Marked
  <2>5. \A p \in Proposals : proposal'[p] = "admitted" => \E x \in Elements(claims)' : p \in Members(x)
    BY <1>0, <2>1, <2>2 DEF MarkInv
  <2>6. QED BY <2>3, <2>4, <2>5 DEF MarkInv, Stands, Marked
<1>6. ASSUME NEW c \in Calls, Settle(c) PROVE MarkInv'
  <2>1. /\ pc[c] = "advanced" /\ pc' = [pc EXCEPT ![c] = "stood"]
        /\ UNCHANGED <<claims, standing, proposal>>
    BY <1>6 DEF Settle, At
  <2>2. QED BY <1>0, <1>3, <2>1 DEF Marked
<1>7. ASSUME NEW c \in Calls, AdvanceMoved(c) PROVE FALSE
  BY <1>0, <1>7 DEF AdvanceMoved, StoreInv
<1>8. ASSUME NEW c \in Calls, Throws(c) PROVE FALSE
  BY <1>1, <1>8 DEF Throws
<1>9. ASSUME NEW c \in Calls,
             \/ VerifyRefused(c) \/ Verify(c) \/ ExpectRefused(c) \/ Expect(c)
             \/ ObserveDrifted(c) \/ Observe(c) \/ CatchError(c) \/ \E m \in Mounts : Click(c, m)
      PROVE  MarkInv'
  <2>1. /\ pc[c] \in {"idle", "clicked", "queued", "verified", "threw"}
        /\ \E stage \in Stages : At(c, stage)
        /\ UNCHANGED <<claims, standing, proposal>>
    BY <1>9 DEF VerifyRefused, Verify, ExpectRefused, Expect, ObserveDrifted, Observe, CatchError,
                Click, Answer, stores, Stages
  <2>2. \A x \in Calls : pc[x] \in {"claimed", "advanced", "stood"} => pc'[x] = pc[x]
    BY <1>0, <2>1 DEF At
  <2>3. QED BY <1>0, <1>3, <2>1, <2>2 DEF Marked
\* A projection marks the members of its decision, which a stored claim covers.
<1>10. ASSUME NEW c \in Calls, StampSome(c), At(c, "done"), pc[c] \in {"clicked", "stood", "threw"},
              UNCHANGED <<claims, standing>>,
              NEW x \in Elements(claims), DecisionOf[x] = DecisionOf[c]
       PROVE  MarkInv'
  <2>1. proposal' = [p \in Proposals |-> IF p \in Members(c) /\ proposal[p] = "proposed"
                                           THEN "admitted" ELSE proposal[p]]
    BY <1>0, <1>10, StampAll
  <2>2. \A p \in Proposals : Marked(p) => proposal'[p] # "proposed"
    BY <2>1 DEF Marked
  <2>3. \A p \in Members(c) : proposal'[p] # "proposed"
    BY <1>2, <2>1
  <2>4. Members(x) = Members(c)
    BY <1>10 DEF Members
  <2>5. \A p \in Proposals : proposal'[p] = "admitted" =>
          \/ proposal[p] = "admitted"
          \/ \E y \in Elements(claims) : p \in Members(y)
    BY <2>1, <2>4
  <2>6. \A y \in Calls : y # c => pc'[y] = pc[y]
    BY <1>0, <1>10 DEF At
  <2>7. \A y \in Calls : pc[y] = "claimed" => pc'[y] = "claimed"
    BY <1>10, <2>6
  <2>8. \A y \in Calls : pc[y] \in {"advanced", "stood"} =>
          \/ pc'[y] \in {"advanced", "stood"}
          \/ \A p \in Members(y) : proposal'[p] # "proposed"
    BY <2>3, <2>6
  <2>9. QED BY <1>3, <1>10, <2>2, <2>5, <2>7, <2>8
<1>11. ASSUME NEW c \in Calls, ObserveAnswered(c) PROVE MarkInv'
  <2>1. PICK x \in Elements(View(via[c])) : DecisionOf[x] = DecisionOf[c]
    BY <1>11 DEF ObserveAnswered, Answering, BySubject
  <2>2. x \in Elements(claims)
    BY <1>0, <2>1, SeenClaims
  <2>3. QED BY <1>10, <1>11, <2>1, <2>2 DEF ObserveAnswered, Answer
<1>12. ASSUME NEW c \in Calls, Project(c) PROVE MarkInv'
  <2>1. c \in Elements(claims)
    BY <1>0, <1>12 DEF Project, TypeInv, LedgerInv, StageInv
  <2>2. QED BY <1>10, <1>12, <2>1 DEF Project, Answer
<1>13. ASSUME NEW c \in Calls, CatchDegraded(c) PROVE MarkInv'
  <2>1. /\ pc[c] = "threw" /\ At(c, "done") /\ UNCHANGED <<claims, standing>>
        /\ StampSome(c) \/ UNCHANGED proposal
        /\ \E x \in Elements(View(via[c])) : DecisionOf[x] = DecisionOf[c]
    BY <1>13 DEF CatchDegraded, MovedHere, BySubject, Answer
  <2>2. CASE StampSome(c)
    BY <1>0, <1>10, <2>1, <2>2, SeenClaims
  <2>3. CASE UNCHANGED proposal
    <3>1. \A x \in Calls : pc[x] \in {"claimed", "advanced", "stood"} => pc'[x] = pc[x]
      BY <1>0, <2>1 DEF At
    <3>2. QED BY <1>0, <1>3, <2>1, <2>3, <3>1 DEF Marked
  <2>4. QED BY <2>1, <2>2, <2>3
<1>14. ASSUME NEW p \in Proposals, Edit(p) \/ RevertWrite(p) \/ RevertSupersede(p) PROVE MarkInv'
  <2>1. /\ UNCHANGED <<claims, standing, pc>>
        /\ UNCHANGED proposal \/ proposal' = [proposal EXCEPT ![p] = "superseded"]
    BY <1>14 DEF Edit, RevertWrite, RevertSupersede, call
  <2>2. QED BY <1>0, <1>3, <2>1 DEF Marked
<1>15. ASSUME UNCHANGED <<claims, standing, pc, proposal>> PROVE MarkInv'
  BY <1>0, <1>3, <1>15 DEF Marked
<1>16. ASSUME NEW m \in Mounts, StartRead(m) \/ FinishRead(m) PROVE MarkInv'
  BY <1>15, <1>16 DEF StartRead, FinishRead, stores, call
<1>17. ASSUME UNCHANGED vars PROVE MarkInv'
  BY <1>15, <1>17 DEF vars, stores, call
<1>18. ~Remount /\ ~Crash
  BY DEF Remount, Crash, Quietly
<1>19. QED
  BY <1>4, <1>5, <1>6, <1>7, <1>8, <1>9, <1>11, <1>12, <1>13, <1>14, <1>16, <1>17, <1>18
     DEF Next, Serve, Wire, Environment

\* While nothing fails and the pane is mounted once, then at rest a proposal is marked
\* admitted only under a claim that stands, and none that stands is offered (renderProposals).
THEOREM AdmissionSeen ==
  ASSUME Quietly
  PROVE  AdmissionSpec => []StandingSeen
<1>1. SeenInv => StandingSeen
  <2> SUFFICES ASSUME SeenInv, AtRest PROVE StandingSeen
    BY DEF StandingSeen, AdmittedStands, StandingNotOffered
  <2>1. Elements(claims) \subseteq Calls /\ Elements(standing) \subseteq Calls
    BY DEF SeenInv, TypeInv, LedgerInv, AdmTypeOK, Elements
  <2>2. \A x \in Elements(claims) : x \in Elements(standing)
    BY <2>1 DEF SeenInv, MarkInv, Stands, AtRest
  <2>3. AdmittedStands
    BY <2>2 DEF SeenInv, MarkInv, AdmittedStands
  <2>4. \A x \in Elements(standing) : \A p \in Members(x) : Marked(p)
    BY <2>1 DEF SeenInv, MarkInv, AtRest
  <2>5. StandingNotOffered
    BY <2>4 DEF StandingNotOffered, Marked
  <2>6. QED BY <2>3, <2>5 DEF StandingSeen
<1>2. SeenInv /\ [Next]_vars => SeenInv'
  BY StoreStep, MarkStep, TypesStep DEF SeenInv
<1>3. QED BY <1>1, <1>2, SeenInitially, PTL DEF AdmissionSpec

=============================================================================
