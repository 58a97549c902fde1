------------------------- MODULE WriteKernelProofs -------------------------
(***************************************************************************)
(* Theorems about the write queue, for every set of operations and every   *)
(* number of plugin instances, and about Kernel.runMutation: it drives the *)
(* queue only through the queue's own operations, so what is proved of the *)
(* queue holds of the kernel, and a call told that nothing was written     *)
(* wrote nothing.  Then of its idempotency keys and its journal: one       *)
(* outcome for the calls of a key, a key in one state, one record of a     *)
(* call, and when a second write under a key is possible at all.           *)
(***************************************************************************)
EXTENDS WriteKernel, WellFoundedInduction, TLAPS

Executing == {"dequeued", "running"}

\* The holder of a slot is executing, unanswered, and was submitted to that queue.
HolderOK(sl, hm, ph, an) ==
  \A q \in Queues : sl[q] # None =>
     hm[sl[q]] = q /\ an[sl[q]] = "none" /\ ph[sl[q]] \in Executing

\* The list s of queue q holds operations of q that wait for an answer, each once.
ListOK(q, s, hm, ph, an) ==
  /\ \A i \in 1..Len(s) : hm[s[i]] = q /\ ph[s[i]] = "waiting" /\ an[s[i]] = "none"
  /\ \A i, j \in 1..Len(s) : s[i] = s[j] => i = j
  /\ \A o \in Ops : hm[o] = q /\ ph[o] = "waiting" => \E i \in 1..Len(s) : s[i] = o

\* What the phase and the answer of a single operation say about each other.
OpOK(hm, ph, an) ==
  \A o \in Ops : /\ hm[o] = None => ph[o] = "waiting" /\ an[o] = "none"
                 /\ ph[o] = "over" => an[o] # "none"

QueueInv ==
  /\ QueueTypeOK
  /\ HolderOK(slot, home, phase, answer)
  /\ \A q \in Queues : ListOK(q, pending[q], home, phase, answer)
  /\ OpOK(home, phase, answer)
  /\ Serialized
  /\ \A q \in overdue : slot[q] # None
  /\ \A q \in closed : pending[q] = <<>>

-----------------------------------------------------------------------------
LEMMA InitQueueInv == QueueInit => QueueInv
<1> SUFFICES ASSUME QueueInit PROVE QueueInv
  OBVIOUS
<1> USE NoneAssumption DEF QueueInit
<1>1. QueueTypeOK
  BY DEF QueueTypeOK, Answers
<1>2. HolderOK(slot, home, phase, answer) /\ OpOK(home, phase, answer) /\ Serialized
  BY DEF HolderOK, OpOK, Serialized
<1>3. \A q \in Queues : ListOK(q, pending[q], home, phase, answer)
  BY DEF ListOK
<1>4. QED BY <1>1, <1>2, <1>3 DEF QueueInv

(***************************************************************************)
(* The heart of run(), nudge() and pump(): a nudge with the list s keeps   *)
(* the invariant if s is a legal list of q for the homes after the step.   *)
(***************************************************************************)
LEMMA NudgePreserves ==
  ASSUME QueueInv, NEW q \in Queues, NEW s \in Seq(Ops), NudgeWith(q, s),
         closed' = closed, q \in closed => s = <<>>,
         home' \in [Ops -> Queues \cup {None}],
         \A o \in Ops : home[o] # None => home'[o] = home[o],
         \A o \in Ops : home[o] = None => home'[o] \in {None, q},
         ListOK(q, s, home', phase, answer)
  PROVE  QueueInv'
<1> DEFINE expired == q \in overdue
           next    == s # <<>> /\ (slot[q] = None \/ expired)
<1> USE NoneAssumption DEF NudgeWith, Executing, Answers, Settlements, Returned, Thrown
<1>1. /\ expired => slot[q] \in Ops
      /\ next => Head(s) \in Ops /\ Head(s) = s[1] /\ 1 \in 1..Len(s)
      /\ next => Tail(s) \in Seq(Ops) /\ Len(Tail(s)) = Len(s) - 1
      /\ next => \A i \in 1..Len(Tail(s)) : Tail(s)[i] = s[i + 1]
  BY DEF QueueInv, QueueTypeOK
<1>2. QueueTypeOK'
  BY <1>1 DEF QueueInv, QueueTypeOK
<1>3. OpOK(home', phase', answer')
  BY <1>1 DEF QueueInv, QueueTypeOK, OpOK, ListOK, HolderOK
<1>4. HolderOK(slot', home', phase', answer')
  BY <1>1 DEF QueueInv, QueueTypeOK, OpOK, ListOK, HolderOK
<1>5. Serialized'
  BY <1>1, <1>4 DEF QueueInv, QueueTypeOK, OpOK, ListOK, HolderOK, Serialized, Holds
<1>6. ASSUME NEW r \in Queues PROVE ListOK(r, pending'[r], home', phase', answer')
  <2>1. CASE r # q
    BY <2>1, <1>1 DEF QueueInv, QueueTypeOK, OpOK, ListOK, HolderOK
  <2>2. CASE r = q
    <3>1. CASE ~next
      BY <2>2, <3>1, <1>1 DEF QueueInv, QueueTypeOK, OpOK, ListOK, HolderOK
    <3>2. CASE next
      <4> DEFINE t == Tail(s)
      <4>1. pending'[q] = t /\ phase' = [phase EXCEPT ![s[1]] = "dequeued"]
            /\ \A i \in 1..Len(t) : t[i] = s[i + 1] /\ i + 1 \in 1..Len(s)
        BY <3>2, <1>1 DEF QueueInv, QueueTypeOK
      <4>2. \A i \in 1..Len(s) : s[i] \in Ops /\ (i # 1 => s[i] # s[1])
        BY <1>1, <3>2 DEF ListOK
      <4>3. \A i \in 1..Len(s) : answer'[s[i]] = "none"
        BY <4>2, <1>1 DEF ListOK, HolderOK, QueueInv, QueueTypeOK
      <4>4. \A i \in 1..Len(t) : home'[t[i]] = q /\ phase'[t[i]] = "waiting" /\ answer'[t[i]] = "none"
        BY <4>1, <4>2, <4>3 DEF ListOK, QueueInv, QueueTypeOK
      <4>5. \A i, j \in 1..Len(t) : t[i] = t[j] => i = j
        BY <4>1, <1>1, <3>2 DEF ListOK
      <4>6. ASSUME NEW o \in Ops, home'[o] = q, phase'[o] = "waiting"
            PROVE  \E i \in 1..Len(t) : t[i] = o
        <5>1. phase[o] = "waiting" /\ o # s[1]
          BY <4>1, <4>6, <1>1, <3>2 DEF QueueInv, QueueTypeOK
        <5>2. PICK i \in 1..Len(s) : s[i] = o
          BY <5>1, <4>6 DEF ListOK
        <5>3. i # 1
          BY <5>1, <5>2
        <5>4. i - 1 \in 1..Len(t) /\ (i - 1) + 1 = i
          BY <5>3, <1>1, <3>2
        <5>5. t[i - 1] = s[i]
          BY <5>4, <4>1
        <5>6. QED BY <5>2, <5>4, <5>5
      <4> HIDE DEF t, NudgeWith
      <4>7. ListOK(q, t, home', phase', answer')
        BY <4>4, <4>5, <4>6 DEF ListOK
      <4>8. QED BY <2>2, <4>1, <4>7
    <3>3. QED BY <3>1, <3>2
  <2>3. QED BY <2>1, <2>2
<1>7. (\A r \in overdue : slot[r] # None)' /\ (\A r \in closed : pending[r] = <<>>)'
  BY <1>1 DEF QueueInv, QueueTypeOK
<1>8. QED BY <1>2, <1>3, <1>4, <1>5, <1>6, <1>7 DEF QueueInv

\* Appending an operation that has not been submitted keeps a list legal.
LEMMA AppendKeepsList ==
  ASSUME QueueInv, NEW q \in Queues, NEW o \in Ops, home[o] = None
  PROVE  ListOK(q, Append(pending[q], o), [home EXCEPT ![o] = q], phase, answer)
<1> DEFINE s == pending[q]
           t == Append(s, o)
           hm == [home EXCEPT ![o] = q]
<1> USE NoneAssumption
<1>1. /\ s \in Seq(Ops) /\ t \in Seq(Ops) /\ Len(t) = Len(s) + 1 /\ t[Len(s) + 1] = o
      /\ \A i \in 1..Len(s) : t[i] = s[i]
      /\ ListOK(q, s, home, phase, answer)
      /\ home \in [Ops -> Queues \cup {None}]
      /\ phase[o] = "waiting" /\ answer[o] = "none"
  BY DEF QueueInv, QueueTypeOK, OpOK
<1>2. \A i \in 1..Len(s) : s[i] \in Ops /\ s[i] # o
  BY <1>1 DEF ListOK
<1>3. \A i \in 1..Len(t) : hm[t[i]] = q /\ phase[t[i]] = "waiting" /\ answer[t[i]] = "none"
  <2> SUFFICES ASSUME NEW i \in 1..Len(t)
               PROVE  hm[t[i]] = q /\ phase[t[i]] = "waiting" /\ answer[t[i]] = "none"
    OBVIOUS
  <2>1. CASE i = Len(s) + 1
    BY <1>1, <2>1
  <2>2. CASE i # Len(s) + 1
    <3>1. i \in 1..Len(s)
      BY <1>1, <2>2
    <3>2. QED BY <3>1, <1>1, <1>2 DEF ListOK
  <2>3. QED BY <2>1, <2>2
<1>4. \A i, j \in 1..Len(t) : t[i] = t[j] => i = j
  BY <1>1, <1>2 DEF ListOK
<1>5. ASSUME NEW p \in Ops, hm[p] = q, phase[p] = "waiting"
      PROVE  \E i \in 1..Len(t) : t[i] = p
  <2>1. CASE p = o
    BY <2>1, <1>1
  <2>2. CASE p # o
    <3>1. PICK i \in 1..Len(s) : s[i] = p
      BY <1>1, <1>5, <2>2 DEF ListOK
    <3>2. i \in 1..Len(t) /\ t[i] = p
      BY <3>1, <1>1
    <3>3. QED BY <3>2
  <2>3. QED BY <2>1, <2>2
<1> HIDE DEF s, t, hm
<1>6. ListOK(q, t, hm, phase, answer)
  BY <1>3, <1>4, <1>5 DEF ListOK
<1>7. QED BY <1>6 DEF s, t, hm

LEMMA RunPreserves ==
  ASSUME QueueInv, NEW q \in Queues, NEW o \in Ops, Run(q, o)
  PROVE  QueueInv'
<1>1. CASE RunAccepted(q, o)
  <2>1. /\ home[o] = None /\ q \notin closed /\ closed' = closed
        /\ home' = [home EXCEPT ![o] = q]
        /\ NudgeWith(q, Append(pending[q], o))
    BY <1>1 DEF RunAccepted
  <2>2. ListOK(q, Append(pending[q], o), home', phase, answer)
    BY <2>1, AppendKeepsList
  <2>3. Append(pending[q], o) \in Seq(Ops) /\ home' \in [Ops -> Queues \cup {None}]
    BY <2>1 DEF QueueInv, QueueTypeOK
  <2>4. \A p \in Ops : /\ home[p] # None => home'[p] = home[p]
                      /\ home[p] = None => home'[p] \in {None, q}
    BY <2>1 DEF QueueInv, QueueTypeOK
  <2>5. QED BY <2>1, <2>2, <2>3, <2>4, NudgePreserves
<1>2. CASE RunRefused(q, o)
  <2> USE NoneAssumption, <1>2 DEF RunRefused
  <2>1. QueueTypeOK' /\ OpOK(home', phase', answer') /\ HolderOK(slot', home', phase', answer')
    BY DEF QueueInv, QueueTypeOK, OpOK, HolderOK, Executing, Answers
  <2>2. Serialized'
    BY DEF QueueInv, QueueTypeOK, Serialized, Holds
  <2>3. \A r \in Queues : ListOK(r, pending'[r], home', phase', answer')
    BY DEF QueueInv, QueueTypeOK, OpOK, ListOK
  <2>4. (\A r \in overdue : slot[r] # None)' /\ (\A r \in closed : pending[r] = <<>>)'
    BY DEF QueueInv
  <2>5. QED BY <2>1, <2>2, <2>3, <2>4 DEF QueueInv
<1>3. QED BY <1>1, <1>2 DEF Run

LEMMA NudgeAloneKeeps ==
  ASSUME QueueInv, NEW q \in Queues, NudgeWith(q, pending[q]), UNCHANGED <<closed, home>>
  PROVE  QueueInv'
<1>1. ListOK(q, pending[q], home', phase, answer)
  BY DEF QueueInv
<1>2. pending[q] \in Seq(Ops) /\ home' \in [Ops -> Queues \cup {None}]
      /\ (q \in closed => pending[q] = <<>>)
  BY DEF QueueInv, QueueTypeOK
<1>3. \A p \in Ops : /\ home[p] # None => home'[p] = home[p]
                    /\ home[p] = None => home'[p] \in {None, q}
  OBVIOUS
<1>4. QED BY <1>1, <1>2, <1>3, NudgePreserves

\* Steps that leave the lists alone.
LEMMA SlotStepsPreserve ==
  ASSUME QueueInv,
         \/ \E q \in Queues : TimerFires(q) \/ DeadlinePasses(q)
         \/ \E o \in Ops : OpStep(o)
  PROVE  QueueInv'
<1> USE NoneAssumption
<1>1. ASSUME NEW q \in Queues, TimerFires(q)
      PROVE  QueueInv'
  <2> USE <1>1 DEF TimerFires
  <2>1. slot[q] \in Ops /\ home[slot[q]] = q /\ phase[slot[q]] \in Executing
    BY DEF QueueInv, QueueTypeOK, HolderOK
  <2>2. QueueTypeOK' /\ OpOK(home', phase', answer') /\ HolderOK(slot', home', phase', answer')
    BY <2>1 DEF QueueInv, QueueTypeOK, OpOK, HolderOK, Executing, Answers
  <2>3. Serialized'
    BY <2>1 DEF QueueInv, QueueTypeOK, Serialized, Holds
  <2>4. \A r \in Queues : ListOK(r, pending'[r], home', phase', answer')
    BY <2>1 DEF QueueInv, QueueTypeOK, ListOK, Executing
  <2>5. (\A r \in overdue : slot[r] # None)' /\ (\A r \in closed : pending[r] = <<>>)'
    BY DEF QueueInv, QueueTypeOK
  <2>6. QED BY <2>2, <2>3, <2>4, <2>5 DEF QueueInv
<1>2. ASSUME NEW q \in Queues, DeadlinePasses(q)
      PROVE  QueueInv'
  BY <1>2 DEF DeadlinePasses, QueueInv, QueueTypeOK, OpOK, HolderOK, ListOK, Serialized, Holds
<1>3. ASSUME NEW o \in Ops, Start(o)
      PROVE  QueueInv'
  <2> USE <1>3 DEF Start
  <2>1. QueueTypeOK' /\ OpOK(home', phase', answer') /\ HolderOK(slot', home', phase', answer')
    BY DEF QueueInv, QueueTypeOK, OpOK, HolderOK, Executing
  <2>2. Serialized'
    BY DEF QueueInv, QueueTypeOK, Serialized, Holds
  <2>3. \A r \in Queues : ListOK(r, pending'[r], home', phase', answer')
    BY DEF QueueInv, QueueTypeOK, ListOK
  <2>4. QED BY <2>1, <2>2, <2>3 DEF QueueInv
<1>4. ASSUME NEW o \in Ops, NEW v \in Settlements \cup {"closed"},
             phase[o] \in Executing, phase' = [phase EXCEPT ![o] = "over"],
             Release(o, v), UNCHANGED <<pending, closed, home>>
      PROVE  QueueInv'
  <2> USE <1>4 DEF Release
  <2>1. v \in Answers /\ v # "none" /\ home[o] \in Queues
        /\ (Holds(o) \/ answer[o] = "timeout")
    BY DEF QueueInv, QueueTypeOK, OpOK, Serialized, Executing, Answers, Settlements,
           Returned, Thrown
  <2>2. \A r \in Queues : slot[r] = o => Holds(o) /\ r = home[o]
    BY DEF QueueInv, HolderOK, Holds
  <2>3. QueueTypeOK' /\ OpOK(home', phase', answer')
    <3>1. CASE Holds(o)
      <4>1. /\ slot' = [slot EXCEPT ![home[o]] = None] /\ overdue' = overdue \ {home[o]}
            /\ answer' = [answer EXCEPT ![o] = v] /\ phase' = [phase EXCEPT ![o] = "over"]
            /\ UNCHANGED <<pending, closed, home>>
        BY <3>1
      <4> HIDE <1>4 DEF Release
      <4>2. QueueTypeOK'
        BY <2>1, <4>1 DEF QueueInv, QueueTypeOK
      <4>3. OpOK(home', phase', answer')
        BY <2>1, <4>1 DEF QueueInv, QueueTypeOK, OpOK
      <4>4. QED BY <4>2, <4>3
    <3>2. CASE ~Holds(o)
      <4>1. answer[o] = "timeout" /\ UNCHANGED <<slot, overdue, answer>>
        BY <2>1, <3>2
      <4>2. QED BY <2>1, <4>1 DEF QueueInv, QueueTypeOK, OpOK
    <3>3. QED BY <3>1, <3>2
  <2>4. HolderOK(slot', home', phase', answer')
    BY <2>1, <2>2 DEF QueueInv, QueueTypeOK, HolderOK
  <2>5. Serialized'
    BY <2>1 DEF QueueInv, QueueTypeOK, Serialized, Holds
  <2>6. \A r \in Queues : ListOK(r, pending'[r], home', phase', answer')
    BY DEF QueueInv, QueueTypeOK, ListOK, Executing
  <2>7. (\A r \in overdue : slot[r] # None)' /\ (\A r \in closed : pending[r] = <<>>)'
    BY <2>1 DEF QueueInv, QueueTypeOK
  <2>8. QED BY <2>3, <2>4, <2>5, <2>6, <2>7 DEF QueueInv
<1>5. ASSUME NEW o \in Ops, OpStep(o)
      PROVE  QueueInv'
  BY <1>5, <1>3, <1>4 DEF OpStep, StartRefused, Settle, Executing
<1>6. QED BY <1>1, <1>2, <1>5

LEMMA ClosePreserves ==
  ASSUME QueueInv, NEW q \in Queues, Close(q)
  PROVE  QueueInv'
<1> USE NoneAssumption DEF Close
<1>1. \A o \in Ops : (o \in {pending[q][i] : i \in 1..Len(pending[q])})
                      <=> home[o] = q /\ phase[o] = "waiting"
  BY DEF QueueInv, ListOK
<1>2. /\ phase' = [o \in Ops |-> IF home[o] = q /\ phase[o] = "waiting" THEN "over" ELSE phase[o]]
      /\ answer' = [o \in Ops |-> IF home[o] = q /\ phase[o] = "waiting" THEN "closed" ELSE answer[o]]
      /\ pending' = [pending EXCEPT ![q] = <<>>] /\ closed' = closed \cup {q}
      /\ UNCHANGED <<slot, overdue, home>>
  BY <1>1
<1> HIDE DEF Close
<1>3. QueueTypeOK' /\ OpOK(home', phase', answer')
  BY <1>2 DEF QueueInv, QueueTypeOK, OpOK, Answers
<1>4. HolderOK(slot', home', phase', answer')
  BY <1>2 DEF QueueInv, QueueTypeOK, HolderOK, Executing
<1>5. Serialized'
  BY <1>2 DEF QueueInv, QueueTypeOK, Serialized, Holds
<1>6. \A r \in Queues : ListOK(r, pending'[r], home', phase', answer')
  BY <1>2 DEF QueueInv, QueueTypeOK, ListOK
<1>7. (\A r \in overdue : slot[r] # None)' /\ (\A r \in closed : pending[r] = <<>>)'
  BY <1>2 DEF QueueInv, QueueTypeOK
<1>8. QED BY <1>3, <1>4, <1>5, <1>6, <1>7 DEF QueueInv

LEMMA CrashPreserves ==
  ASSUME QueueInv, NEW opened \in SUBSET Queues, Crash(opened)
  PROVE  QueueInv'
<1> USE NoneAssumption DEF Crash
<1>1. QueueTypeOK' /\ OpOK(home', phase', answer') /\ HolderOK(slot', home', phase', answer')
  BY DEF QueueInv, QueueTypeOK, OpOK, HolderOK, Answers
<1>2. Serialized'
  BY DEF QueueInv, QueueTypeOK, Serialized, OpOK
<1>3. \A r \in Queues : ListOK(r, pending'[r], home', phase', answer')
  BY DEF QueueInv, QueueTypeOK, ListOK
<1>4. (\A r \in overdue : slot[r] # None)' /\ (\A r \in closed : pending[r] = <<>>)'
  BY DEF QueueInv, QueueTypeOK
<1>5. QED BY <1>1, <1>2, <1>3, <1>4 DEF QueueInv

-----------------------------------------------------------------------------
LEMMA QueueStepPreserves ==
  ASSUME QueueInv, [QueueNext]_qvars
  PROVE  QueueInv'
<1>1. ASSUME NEW q \in Queues, NEW o \in Ops, Run(q, o) PROVE QueueInv'
  BY <1>1, RunPreserves
<1>2. ASSUME NEW o \in Ops, OpStep(o) PROVE QueueInv'
  BY <1>2, SlotStepsPreserve
<1>3. ASSUME NEW q \in Queues, QueueStep(q) PROVE QueueInv'
  <2>1. CASE Nudge(q) \/ Pump(q)
    BY <2>1, NudgeAloneKeeps DEF Nudge, Pump
  <2>2. CASE TimerFires(q) \/ DeadlinePasses(q)
    BY <2>2, SlotStepsPreserve
  <2>3. CASE Close(q)
    BY <2>3, ClosePreserves
  <2>4. QED BY <1>3, <2>1, <2>2, <2>3 DEF QueueStep
<1>4. ASSUME NEW opened \in SUBSET Queues, Crash(opened) PROVE QueueInv'
  BY <1>4, CrashPreserves
<1>5. CASE UNCHANGED qvars
  BY <1>5 DEF qvars, QueueInv, QueueTypeOK, OpOK, HolderOK, ListOK, Serialized, Holds
<1>6. QED BY <1>1, <1>2, <1>3, <1>4, <1>5 DEF QueueNext

(***************************************************************************)
(* The queue's inductive invariant holds in every behavior.                *)
(***************************************************************************)
THEOREM QueueInvariance == QueueSpec => []QueueInv
BY InitQueueInv, QueueStepPreserves, PTL DEF QueueSpec

(***************************************************************************)
(* Type correctness, serialization and "nothing is lost", for every number *)
(* of operations and instances.                                            *)
(***************************************************************************)
THEOREM QueueTypeCorrect == QueueSpec => []QueueStateOK
<1>1. QueueInv => QueueStateOK
  BY DEF QueueInv, QueueStateOK
<1>2. QED BY <1>1, QueueInvariance, PTL

THEOREM QueueSerializes == QueueSpec => []Serialized
<1>1. QueueInv => Serialized
  BY DEF QueueInv
<1>2. QED BY <1>1, QueueInvariance, PTL

LEMMA PlacedOnce == QueueInv => NothingLost
<1> SUFFICES ASSUME QueueInv, NEW o \in Ops, home[o] # None, answer[o] = "none"
             PROVE  InPending(o) # Holds(o)
  BY DEF NothingLost
<1> USE NoneAssumption DEF QueueInv
<1>1. home[o] \in Queues /\ phase[o] \in {"waiting"} \cup Executing
  BY DEF QueueTypeOK, OpOK, Executing
<1>2. CASE phase[o] = "waiting"
  <2>1. InPending(o)
    BY <1>1, <1>2 DEF ListOK, InPending
  <2>2. ~Holds(o)
    BY <1>1, <1>2 DEF Holds, HolderOK, Executing
  <2>3. QED BY <2>1, <2>2
<1>3. CASE phase[o] \in Executing
  <2>1. ~InPending(o)
    BY <1>3 DEF ListOK, InPending, Executing
  <2>2. Holds(o)
    BY <1>3 DEF Serialized, Executing
  <2>3. QED BY <2>1, <2>2
<1>4. QED BY <1>1, <1>2, <1>3

THEOREM QueueLosesNothing == QueueSpec => []NothingLost
BY PlacedOnce, QueueInvariance, PTL

LEMMA StepAnswersOnce ==
  ASSUME QueueInv, [QueueNext]_qvars, NEW o \in Ops, answer[o] # "none"
  PROVE  answer'[o] = answer[o]
<1> USE NoneAssumption DEF QueueInv
<1>1. \A q \in Queues : slot[q] # o
  BY DEF HolderOK
<1>2. ASSUME NEW q \in Queues, NEW s, NudgeWith(q, s) PROVE answer'[o] = answer[o]
  BY <1>1, <1>2 DEF NudgeWith, QueueTypeOK
<1>3. ASSUME NEW q \in Queues, NEW p \in Ops, Run(q, p) PROVE answer'[o] = answer[o]
  BY <1>2, <1>3 DEF Run, RunAccepted, RunRefused, OpOK, QueueTypeOK
<1>4. ASSUME NEW p \in Ops, OpStep(p) PROVE answer'[o] = answer[o]
  BY <1>1, <1>4 DEF OpStep, StartRefused, Start, Settle, Release, Holds, QueueTypeOK
<1>5. ASSUME NEW q \in Queues, QueueStep(q) PROVE answer'[o] = answer[o]
  <2>1. CASE Close(q)
    BY <2>1 DEF Close, ListOK, QueueTypeOK
  <2>2. CASE TimerFires(q)
    BY <2>2, <1>1 DEF TimerFires, QueueTypeOK
  <2>3. QED BY <1>2, <1>5, <2>1, <2>2 DEF QueueStep, Nudge, Pump, DeadlinePasses
<1>6. ASSUME NEW opened \in SUBSET Queues, Crash(opened) PROVE answer'[o] = answer[o]
  BY <1>6 DEF Crash
<1>7. QED BY <1>3, <1>4, <1>5, <1>6 DEF QueueNext, qvars

(***************************************************************************)
(* The promise of run() is settled at most once.                           *)
(***************************************************************************)
THEOREM QueueAnswersOnce == QueueSpec => AnsweredOnce
<1>1. QueueInv /\ [QueueNext]_qvars
        => [\A o \in Ops : answer[o] # "none" => answer'[o] = answer[o]]_qvars
  BY StepAnswersOnce
<1>2. QED BY <1>1, QueueInvariance, PTL DEF QueueSpec, AnsweredOnce

\* The queue is well formed, runs one operation at a time and loses none.
THEOREM QueueIsSafe == QueueSpec => []QueueSafe
<1>1. QueueStateOK /\ Serialized /\ NothingLost => QueueSafe
  BY DEF QueueSafe
<1>2. QED BY <1>1, QueueTypeCorrect, QueueSerializes, QueueLosesNothing, PTL

\* FIFO (pump() in write-queue.ts): only the head of a list is dequeued, so nothing
\* overtakes what was enqueued before it.
THEOREM QueueIsFifo == QueueSpec => NoOvertaking
<1>1. ASSUME QueueInv, [QueueNext]_qvars, NEW q \in Queues,
             NEW i \in 1..Len(pending[q]), NEW j \in 1..Len(pending[q]), i < j,
             phase'[pending[q][j]] = "dequeued"
      PROVE  FALSE
  <2> DEFINE o == pending[q][j]
  <2>1. /\ pending[q] \in Seq(Ops) /\ o \in Ops /\ home[o] = q /\ phase[o] = "waiting" /\ o # None
        /\ o # pending[q][1] /\ pending[q] # <<>>
    BY <1>1, NoneAssumption DEF QueueInv, QueueTypeOK, ListOK
  <2> HIDE DEF o
  <2>2. ASSUME NEW r \in Queues, NEW s \in Seq(Ops), NudgeWith(r, s) PROVE s # <<>> /\ o = Head(s)
    BY <1>1, <2>1, <2>2 DEF NudgeWith, QueueInv, QueueTypeOK, o
  <2>3. ASSUME NEW r \in Queues, pending[r] # <<>> PROVE o # Head(pending[r])
    <3>1. CASE r = q
      BY <2>1, <3>1
    <3>2. CASE r # q
      <4>1. pending[r] \in Seq(Ops) /\ home[pending[r][1]] = r
        BY <1>1, <2>3 DEF QueueInv, QueueTypeOK, ListOK
      <4>2. QED BY <2>1, <2>3, <3>2, <4>1
    <3>3. QED BY <3>1, <3>2
  <2>4. ASSUME NEW r \in Queues, NudgeWith(r, pending[r]) PROVE FALSE
    BY <1>1, <2>2, <2>3, <2>4 DEF QueueInv, QueueTypeOK
  <2>5. ASSUME NEW r \in Queues, NEW c \in Ops, Run(r, c) PROVE FALSE
    <3>1. home[c] = None /\ c # o
      BY <2>1, <2>5, NoneAssumption DEF Run, RunRefused, RunAccepted
    <3>2. CASE RunRefused(r, c)
      BY <1>1, <2>1, <3>1, <3>2 DEF RunRefused, o
    <3>3. CASE RunAccepted(r, c)
      <4>1. pending[r] \in Seq(Ops) /\ Append(pending[r], c) \in Seq(Ops)
        BY <1>1 DEF QueueInv, QueueTypeOK
      <4>2. o = Head(Append(pending[r], c))
        BY <2>2, <3>3, <4>1 DEF RunAccepted
      <4>3. CASE pending[r] = <<>>
        BY <3>1, <4>1, <4>2, <4>3
      <4>4. CASE pending[r] # <<>>
        <5>1. Head(Append(pending[r], c)) = Head(pending[r])
          BY <4>1, <4>4
        <5>2. QED BY <2>3, <4>2, <4>4, <5>1
      <4>5. QED BY <4>3, <4>4
    <3>4. QED BY <2>5, <3>2, <3>3 DEF Run
  <2>6. ASSUME NEW c \in Ops, OpStep(c) PROVE FALSE
    <3>1. phase[c] # "waiting" /\ \E p \in {"running", "over"} : phase' = [phase EXCEPT ![c] = p]
      BY <2>6 DEF OpStep, StartRefused, Start, Settle
    <3>2. QED BY <1>1, <2>1, <3>1 DEF o
  <2>7. ASSUME NEW r \in Queues, TimerFires(r) \/ DeadlinePasses(r) \/ Close(r) PROVE FALSE
    BY <1>1, <2>1, <2>7 DEF TimerFires, DeadlinePasses, Close, o
  <2>8. ASSUME NEW opened \in SUBSET Queues, Crash(opened) PROVE FALSE
    BY <1>1, <2>1, <2>8 DEF Crash, o
  <2>9. CASE UNCHANGED qvars
    BY <1>1, <2>1, <2>9 DEF qvars, o
  <2>10. QED BY <1>1, <2>4, <2>5, <2>6, <2>7, <2>8, <2>9 DEF QueueNext, QueueStep, Nudge, Pump
<1>2. QueueInv /\ [QueueNext]_qvars
        => [\A q \in Queues : \A i, j \in 1..Len(pending[q]) :
              i < j /\ phase'[pending[q][j]] = "dequeued" => phase'[pending[q][i]] # "waiting"]_qvars
  BY <1>1
<1>3. QED BY <1>2, QueueInvariance, PTL DEF QueueSpec, NoOvertaking

-----------------------------------------------------------------------------
\* The kernel.

\* Every kernel step is a step of the queue, or leaves it alone.
LEMMA KernelStepIsQueueStep ==
  ASSUME instance \in Queues, [KernelNext]_vars
  PROVE  [QueueNext]_qvars
<1>1. ASSUME NEW c \in Ops, CallStep(c) PROVE [QueueNext]_qvars
  <2>1. ASSUME NEW i \in Queues, Submit(c, i) PROVE [QueueNext]_qvars
    BY <2>1 DEF Submit, SubmitMismatch, SubmitReplay, SubmitWait, SubmitRun, QueueNext
  <2>2. CASE Dequeue(c) \/ DequeueRefused(c) \/ \E v \in Settlements : HandlerSettles(c, v)
    BY <2>2 DEF Dequeue, DequeueRefused, HandlerSettles, QueueNext, OpStep
  <2>3. CASE Land(c) \/ Finalize(c) \/ Adopt(c)
    BY <2>3 DEF Land, Finalize, Adopt
  <2>4. QED BY <1>1, <2>1, <2>2, <2>3 DEF CallStep
<1>2. ASSUME NEW i \in Queues, Flush(i) \/ QueueTick(i) PROVE [QueueNext]_qvars
  BY <1>2 DEF Flush, QueueTick, QueueNext, QueueStep
<1>3. CASE Unload \/ OtherCall
  BY <1>3 DEF Unload, OtherCall, QueueNext, QueueStep
<1>4. CASE ProcessCrash
  <2>1. 1..instance \in SUBSET Queues
    BY KernelAssumption
  <2>2. QED BY <1>4, <2>1 DEF ProcessCrash, QueueNext
<1>5. CASE Load \/ WindowPasses \/ UNCHANGED vars
  BY <1>5 DEF Load, WindowPasses, vars
<1>6. QED BY <1>1, <1>2, <1>3, <1>4, <1>5 DEF KernelNext

LEMMA InstanceStays ==
  ASSUME instance \in Queues, [KernelNext]_vars
  PROVE  instance' \in Queues
BY DEF KernelNext, CallStep, Submit, SubmitMismatch, SubmitReplay, SubmitWait, SubmitRun,
       Arrives, Dequeue, DequeueRefused, Land, HandlerSettles, Finalize, Adopt, Flush,
       QueueTick, OtherCall, Unload, ProcessCrash, Load, WindowPasses, vars, kvars

(***************************************************************************)
(* Refinement: every behavior of the kernel is a behavior of the queue.    *)
(***************************************************************************)
THEOREM KernelImplementsQueue == KernelSpec => QueueSpec
<1>1. KernelInit => QueueInit /\ instance \in Queues
  BY KernelAssumption DEF KernelInit
<1>2. instance \in Queues /\ [KernelNext]_vars => (instance \in Queues)'
  BY InstanceStays
<1>3. instance \in Queues /\ [KernelNext]_vars => [QueueNext]_qvars
  BY KernelStepIsQueueStep
<1>4. QED
  BY <1>1, <1>2, <1>3, PTL DEF KernelSpec, QueueSpec

(***************************************************************************)
(* The kernel serializes what it runs: a call that is executing holds the  *)
(* slot of its instance's queue, unless it was abandoned.                  *)
(***************************************************************************)
THEOREM KernelSerializes == KernelSpec => []Serialized
BY KernelImplementsQueue, QueueSerializes

THEOREM KernelLosesNothing == KernelSpec => []NothingLost
BY KernelImplementsQueue, QueueLosesNothing

-----------------------------------------------------------------------------
(***************************************************************************)
(* The vault and the queue.  A call that wrote was dequeued, passed its    *)
(* if_rev check and is not answered as refused; a call in the queue came   *)
(* in, and one that adopts an outcome never enters it.                     *)
(***************************************************************************)
HistoryTypeOK ==
  /\ instance \in Queues
  /\ writes \in Seq(Ops)
  /\ via \in [Ops -> Queues \cup {None}]
  /\ revBefore \in [Ops -> Nat \cup {None}]
  /\ DOMAIN ifRev = Ops /\ DOMAIN told = Ops /\ DOMAIN adopts = Ops

Refusals == {"closed", "conflict", "mismatch"}

WritersOK ==
  \A n \in 1..Len(writes) : LET c == writes[n] IN
    /\ phase[c] \in {"running", "over"} /\ home[c] # None
    /\ answer[c] \notin Refusals
    /\ ~Conflicts(c) /\ revBefore[c] \in Nat

CallsOK ==
  \A c \in Ops :
    /\ home[c] # None => via[c] # None /\ adopts[c] = None
    /\ adopts[c] # None => via[c] # None
    /\ told[c] # "none" => via[c] # None
    /\ told[c] \in Refusals => home[c] = None \/ told[c] = answer[c]
    /\ phase[c] = "running" => revBefore[c] \in Nat

HistoryInv == HistoryTypeOK /\ WritersOK /\ CallsOK

LEMMA InitHistory == KernelInit => HistoryInv
BY KernelAssumption, NoneAssumption
   DEF KernelInit, HistoryInv, HistoryTypeOK, WritersOK, CallsOK, QueueInit, Refusals

\* A queue step in which no handler settles.
QuietStep ==
  \/ \E q \in Queues, p \in Ops : Run(q, p)
  \/ \E p \in Ops : Start(p) \/ StartRefused(p)
  \/ \E q \in Queues : QueueStep(q)
  \/ \E opened \in SUBSET Queues : Crash(opened)
  \/ UNCHANGED qvars

\* What it can do to an operation that has started.
LEMMA StartedOpStep ==
  ASSUME QueueInv, QuietStep, NEW o \in Ops, home[o] # None, phase[o] \in {"running", "over"}
  PROVE  /\ phase'[o] \in {"running", "over"} /\ home'[o] = home[o]
         /\ answer'[o] \in {answer[o], "timeout", "lost"}
<1> USE NoneAssumption DEF QueueInv
<1>1. ASSUME NEW q \in Queues, NEW s \in Seq(Ops), NudgeWith(q, s),
             s # <<>> => phase[Head(s)] = "waiting"
      PROVE  phase'[o] = phase[o] /\ answer'[o] \in {answer[o], "timeout"}
  BY <1>1 DEF NudgeWith, QueueTypeOK
<1>2. \A q \in Queues : pending[q] # <<>> => phase[Head(pending[q])] = "waiting"
  BY DEF ListOK, QueueTypeOK
<1>3. ASSUME NEW q \in Queues, NEW p \in Ops, Run(q, p)
      PROVE  phase'[o] = phase[o] /\ home'[o] = home[o] /\ answer'[o] \in {answer[o], "timeout"}
  <2>1. home[p] = None /\ p # o /\ home'[o] = home[o]
    BY <1>3 DEF Run, RunAccepted, RunRefused, QueueTypeOK
  <2>2. CASE RunRefused(q, p)
    BY <2>1, <2>2 DEF RunRefused, QueueTypeOK
  <2>3. CASE RunAccepted(q, p)
    <3> DEFINE s == Append(pending[q], p)
    <3>1. s \in Seq(Ops) /\ Head(s) \in {p} \cup {Head(pending[q])}
          /\ (pending[q] = <<>> => Head(s) = p) /\ (pending[q] # <<>> => Head(s) = Head(pending[q]))
      BY DEF QueueTypeOK
    <3>2. phase[p] = "waiting"
      BY <2>1 DEF OpOK
    <3>3. NudgeWith(q, s)
      BY <2>3 DEF RunAccepted
    <3> HIDE DEF s
    <3>4. QED BY <1>1, <1>2, <2>1, <3>1, <3>2, <3>3
  <2>4. QED BY <1>3, <2>2, <2>3 DEF Run
<1>4. ASSUME NEW p \in Ops, Start(p) \/ StartRefused(p)
      PROVE  phase'[o] = phase[o] /\ home'[o] = home[o] /\ answer'[o] = answer[o]
  BY <1>4 DEF StartRefused, Start, Release, QueueTypeOK
<1>5. ASSUME NEW q \in Queues, QueueStep(q)
      PROVE  phase'[o] = phase[o] /\ home'[o] = home[o] /\ answer'[o] \in {answer[o], "timeout"}
  <2>1. CASE Nudge(q) \/ Pump(q)
    BY <2>1, <1>1, <1>2 DEF Nudge, Pump, QueueTypeOK
  <2>2. CASE TimerFires(q) \/ DeadlinePasses(q)
    BY <2>2 DEF TimerFires, DeadlinePasses, QueueTypeOK
  <2>3. CASE Close(q)
    BY <2>3 DEF Close, ListOK, QueueTypeOK
  <2>4. QED BY <1>5, <2>1, <2>2, <2>3 DEF QueueStep
<1>6. ASSUME NEW opened \in SUBSET Queues, Crash(opened)
      PROVE  phase'[o] = "over" /\ home'[o] = home[o] /\ answer'[o] \in {answer[o], "lost"}
  BY <1>6 DEF Crash
<1>7. QED BY <1>3, <1>4, <1>5, <1>6 DEF QuietStep, qvars

\* Only Start makes an operation run, only Run submits it.
LEMMA StartsAndSubmits ==
  ASSUME QueueInv, [QueueNext]_qvars, NEW o \in Ops
  PROVE  /\ phase'[o] = "running" => phase[o] = "running" \/ Start(o)
         /\ home'[o] # home[o] => home[o] = None /\ \E q \in Queues : Run(q, o)
<1> USE NoneAssumption DEF QueueInv, QueueTypeOK
<1>1. ASSUME NEW q \in Queues, NEW s, NudgeWith(q, s)
      PROVE  phase'[o] = "running" => phase[o] = "running"
  BY <1>1 DEF NudgeWith
<1>2. ASSUME NEW q \in Queues, NEW p \in Ops, Run(q, p)
      PROVE  /\ phase'[o] = "running" => phase[o] = "running"
             /\ home'[o] # home[o] => home[o] = None /\ o = p
  BY <1>1, <1>2 DEF Run, RunAccepted, RunRefused
<1>3. ASSUME NEW p \in Ops, OpStep(p)
      PROVE  home' = home /\ (phase'[o] = "running" => phase[o] = "running" \/ Start(o))
  BY <1>3 DEF OpStep, StartRefused, Start, Settle
<1>4. ASSUME NEW q \in Queues, QueueStep(q)
      PROVE  home' = home /\ (phase'[o] = "running" => phase[o] = "running")
  BY <1>1, <1>4, SMTT(60) DEF QueueStep, Nudge, Pump, TimerFires, DeadlinePasses, Close
<1>5. ASSUME NEW opened \in SUBSET Queues, Crash(opened)
      PROVE  home' = home /\ (phase'[o] = "running" => phase[o] = "running")
  BY <1>5 DEF Crash
<1>6. QED BY <1>2, <1>3, <1>4, <1>5 DEF QueueNext, qvars

\* A kernel step is quiet, or it is the handler of one call that settles.
LEMMA QuietOrSettles ==
  ASSUME instance \in Queues, [KernelNext]_vars
  PROVE  QuietStep \/ \E c \in Ops, v \in Settlements : HandlerSettles(c, v)
<1>1. ASSUME NEW c \in Ops, CallStep(c)
      PROVE  QuietStep \/ \E v \in Settlements : HandlerSettles(c, v)
  <2>1. ASSUME NEW i \in Queues, Submit(c, i) PROVE QuietStep
    BY <2>1 DEF Submit, SubmitMismatch, SubmitReplay, SubmitWait, SubmitRun, QuietStep
  <2>2. CASE Dequeue(c) \/ DequeueRefused(c) \/ Land(c) \/ Finalize(c) \/ Adopt(c)
    BY <2>2 DEF Dequeue, DequeueRefused, Land, Finalize, Adopt, QuietStep
  <2>3. QED BY <1>1, <2>1, <2>2 DEF CallStep
<1>2. ASSUME NEW i \in Queues, Flush(i) \/ QueueTick(i) PROVE QuietStep
  BY <1>2 DEF Flush, QueueTick, QuietStep, QueueStep
<1>3. CASE Unload \/ OtherCall
  BY <1>3 DEF Unload, OtherCall, QuietStep, QueueStep
<1>4. CASE ProcessCrash
  <2>1. 1..instance \in SUBSET Queues
    BY KernelAssumption
  <2>2. QED BY <1>4, <2>1 DEF ProcessCrash, QuietStep
<1>5. CASE Load \/ WindowPasses \/ UNCHANGED vars
  BY <1>5 DEF Load, WindowPasses, vars, QuietStep
<1>6. QED BY <1>1, <1>2, <1>3, <1>4, <1>5 DEF KernelNext

\* What a step may do to the fixed facts of a call.
CallFrame ==
  /\ \A c \in Ops : via[c] # None => via'[c] = via[c] /\ ifRev'[c] = ifRev[c]
  /\ \A c \in Ops : revBefore'[c] = revBefore[c] \/ phase[c] = "dequeued"
  /\ \A c \in Ops : phase'[c] = "running" /\ phase[c] # "running"
                    => revBefore'[c] = Len(writes) /\ writes' = writes
  /\ \A c \in Ops : home'[c] # home[c] => via[c] = None /\ via'[c] # None

LEMMA SubmitFrame ==
  ASSUME QueueInv, HistoryInv, NEW c \in Ops, NEW i \in Queues, Submit(c, i)
  PROVE  HistoryTypeOK' /\ CallsOK' /\ CallFrame /\ writes' = writes
<1> USE NoneAssumption
<1>1. /\ via[c] = None /\ via' = [via EXCEPT ![c] = i]
      /\ \E r : ifRev' = [ifRev EXCEPT ![c] = r]
      /\ UNCHANGED <<instance, revBefore, writes>>
  BY DEF Submit, SubmitMismatch, SubmitReplay, SubmitWait, SubmitRun, Arrives
<1>2. home[c] = None /\ adopts[c] = None /\ told[c] = "none"
  BY <1>1 DEF HistoryInv, CallsOK
<1>3. CASE SubmitMismatch(c, i) \/ SubmitReplay(c, i) \/ SubmitWait(c, i)
  <2>1. /\ UNCHANGED qvars
        /\ adopts' = adopts \/ \E h : adopts' = [adopts EXCEPT ![c] = h]
        /\ told' = told \/ \E t : told' = [told EXCEPT ![c] = t]
    <3>1. CASE SubmitMismatch(c, i)
      BY <3>1 DEF SubmitMismatch
    <3>2. CASE SubmitReplay(c, i)
      BY <3>2 DEF SubmitReplay
    <3>3. CASE SubmitWait(c, i)
      BY <3>3 DEF SubmitWait
    <3>4. QED BY <1>3, <3>1, <3>2, <3>3
  <2>2. HistoryTypeOK'
    BY <1>1, <2>1 DEF HistoryInv, HistoryTypeOK
  <2>3. CallsOK'
    BY <1>1, <1>2, <2>1 DEF HistoryInv, HistoryTypeOK, CallsOK, qvars
  <2>4. CallFrame
    BY <1>1, <2>1 DEF HistoryInv, HistoryTypeOK, CallFrame, qvars
  <2>5. QED BY <1>1, <2>2, <2>3, <2>4
<1>4. CASE SubmitRun(c, i)
  <2>1. Run(i, c) /\ UNCHANGED <<adopts, told>>
    BY <1>4 DEF SubmitRun
  <2>2. \A o \in Ops : phase'[o] = "running" => phase[o] = "running"
    BY <2>1 DEF Run, RunAccepted, RunRefused, NudgeWith, QueueInv, QueueTypeOK
  <2>3. home' = [home EXCEPT ![c] = i] /\ home \in [Ops -> Queues \cup {None}]
    BY <2>1 DEF Run, RunAccepted, RunRefused, QueueInv, QueueTypeOK
  <2>4. \A o \in Ops : answer[o] # "none" => answer'[o] = answer[o]
    BY <2>1, StepAnswersOnce DEF QueueNext
  <2>5. HistoryTypeOK'
    BY <1>1, <2>1 DEF HistoryInv, HistoryTypeOK
  <2>6. CallsOK'
    BY <1>1, <1>2, <2>1, <2>2, <2>3, <2>4 DEF HistoryInv, HistoryTypeOK, CallsOK, Refusals
  <2>7. CallFrame
    BY <1>1, <1>2, <2>2, <2>3 DEF HistoryInv, HistoryTypeOK, CallFrame
  <2>8. QED BY <1>1, <2>5, <2>6, <2>7
<1>5. QED BY <1>3, <1>4 DEF Submit

LEMMA QueueStepFrame ==
  ASSUME QueueInv, \/ \E q \in Queues : QueueStep(q)
                   \/ \E p \in Ops : StartRefused(p)
                   \/ \E p \in Ops, v \in Settlements : Settle(p, v)
                   \/ \E opened \in SUBSET Queues : Crash(opened)
                   \/ UNCHANGED qvars
  PROVE  /\ home' = home
         /\ \A o \in Ops : phase'[o] = "running" => phase[o] = "running"
         /\ \A o \in Ops : answer[o] # "none" => answer'[o] = answer[o]
<1>1. home' = home
  BY DEF QueueStep, Nudge, Pump, TimerFires, DeadlinePasses, Close, StartRefused, Settle, Crash,
         qvars
<1>2. [QueueNext]_qvars
  BY DEF QueueNext, OpStep
<1>3. \A o \in Ops : phase'[o] = "running" => phase[o] = "running"
  BY DEF QueueInv, QueueTypeOK, QueueStep, Nudge, Pump, NudgeWith, TimerFires, DeadlinePasses,
         Close, StartRefused, Settle, Crash, qvars
<1>4. QED BY <1>1, <1>2, <1>3, StepAnswersOnce

\* Steps in which no call comes in and nothing is written to the vault.
LEMMA OtherFrame ==
  ASSUME QueueInv, HistoryInv, [KernelNext]_vars,
         ~ \E c \in Ops, i \in Queues : Submit(c, i)
  PROVE  HistoryTypeOK' /\ CallsOK' /\ CallFrame
         /\ (writes' = writes \/ \E c \in Ops : Land(c))
<1> USE NoneAssumption
<1>1. ASSUME NEW c \in Ops, Dequeue(c)
      PROVE  HistoryTypeOK' /\ CallsOK' /\ CallFrame /\ writes' = writes
  <2> USE <1>1 DEF Dequeue, Start, Rev
  <2>1. Len(writes) \in Nat /\ phase' = [phase EXCEPT ![c] = "running"] /\ phase[c] = "dequeued"
        /\ revBefore' = [revBefore EXCEPT ![c] = Len(writes)]
        /\ UNCHANGED <<home, answer, instance, via, ifRev, writes, adopts, told>>
    BY DEF HistoryInv, HistoryTypeOK
  <2> HIDE <1>1 DEF Dequeue
  <2>2. HistoryTypeOK'
    BY <2>1 DEF HistoryInv, HistoryTypeOK
  <2>3. CallsOK'
    BY <2>1 DEF HistoryInv, HistoryTypeOK, CallsOK, QueueInv, QueueTypeOK
  <2>4. CallFrame
    BY <2>1 DEF HistoryInv, HistoryTypeOK, CallFrame, QueueInv, QueueTypeOK
  <2>5. QED BY <2>1, <2>2, <2>3, <2>4
<1>2. ASSUME UNCHANGED <<via, ifRev, revBefore, adopts>>, instance' \in Queues, DOMAIN told' = Ops,
             home' = home,
             writes' = writes \/ \E c \in Ops : Land(c),
             \A o \in Ops : phase'[o] = "running" => phase[o] = "running",
             \A o \in Ops : answer[o] # "none" => answer'[o] = answer[o],
             \A o \in Ops : \/ told'[o] = told[o]
                            \/ via[o] # None /\ told'[o] \notin Refusals
                            \/ via[o] # None /\ home[o] = None
                            \/ via[o] # None /\ told'[o] = answer[o]
      PROVE  HistoryTypeOK' /\ CallsOK' /\ CallFrame
             /\ (writes' = writes \/ \E c \in Ops : Land(c))
  <2>1. writes' \in Seq(Ops)
    BY <1>2 DEF HistoryInv, HistoryTypeOK, Land
  <2>2. HistoryTypeOK'
    BY <1>2, <2>1 DEF HistoryInv, HistoryTypeOK
  <2>3. CallsOK'
    BY <1>2 DEF HistoryInv, CallsOK, Refusals
  <2>4. CallFrame
    BY <1>2 DEF CallFrame
  <2>5. QED BY <1>2, <2>2, <2>3, <2>4
<1>3. instance \in Queues /\ DOMAIN told = Ops
  BY DEF HistoryInv, HistoryTypeOK
<1>4. ASSUME NEW c \in Ops, DequeueRefused(c) \/ \E v \in Settlements : HandlerSettles(c, v)
      PROVE  HistoryTypeOK' /\ CallsOK' /\ CallFrame /\ writes' = writes
  <2>1. StartRefused(c) \/ \E v \in Settlements : Settle(c, v)
    BY <1>4 DEF DequeueRefused, HandlerSettles
  <2>2. UNCHANGED <<via, ifRev, revBefore, adopts, instance, told, writes>>
    BY <1>4 DEF DequeueRefused, HandlerSettles
  <2>3. QED BY <1>2, <1>3, <2>1, <2>2, QueueStepFrame
<1>5. ASSUME NEW c \in Ops, Land(c) \/ Finalize(c) \/ Adopt(c)
      PROVE  HistoryTypeOK' /\ CallsOK' /\ CallFrame
             /\ (writes' = writes \/ \E d \in Ops : Land(d))
  <2>1. UNCHANGED qvars
    BY <1>5 DEF Land, Finalize, Adopt
  <2>2. UNCHANGED <<via, ifRev, revBefore, adopts, instance>>
    BY <1>5 DEF Land, Finalize, Adopt
  <2>3. writes' = writes \/ \E d \in Ops : Land(d)
    BY <1>5 DEF Land, Finalize, Adopt
  <2>4. DOMAIN told' = Ops /\ \A o \in Ops :
          \/ told'[o] = told[o]
          \/ via[o] # None /\ home[o] = None
          \/ via[o] # None /\ told'[o] = answer[o]
    <3>1. CASE Land(c)
      BY <3>1, <1>3 DEF Land
    <3>2. CASE Finalize(c)
      BY <3>2, <1>3 DEF Finalize, QueueInv, OpOK, HistoryInv, CallsOK
    <3>3. CASE Adopt(c)
      BY <3>3, <1>3 DEF Adopt, HistoryInv, CallsOK
    <3>4. QED BY <1>5, <3>1, <3>2, <3>3
  <2>5. QED BY <1>2, <1>3, <2>1, <2>2, <2>3, <2>4, QueueStepFrame
<1>6. ASSUME NEW i \in Queues, Flush(i) \/ QueueTick(i) \/ Unload \/ OtherCall
      PROVE  HistoryTypeOK' /\ CallsOK' /\ CallFrame /\ writes' = writes
  <2>1. QueueStep(i) \/ QueueStep(instance)
    BY <1>6 DEF Flush, QueueTick, Unload, OtherCall, QueueStep
  <2>2. UNCHANGED <<via, ifRev, revBefore, adopts, instance, told, writes>>
    BY <1>6 DEF Flush, QueueTick, Unload, OtherCall, kvars
  <2>3. QED BY <1>2, <1>3, <2>1, <2>2, QueueStepFrame
<1>7. CASE ProcessCrash
  <2>1. Crash(1..instance) /\ 1..instance \in SUBSET Queues
    BY <1>3, <1>7, KernelAssumption DEF ProcessCrash
  <2>2. UNCHANGED <<via, ifRev, revBefore, adopts, instance, writes>>
    BY <1>7 DEF ProcessCrash
  <2>3. /\ DOMAIN told' = Ops
        /\ \A o \in Ops : \/ told'[o] = told[o]
                          \/ via[o] # None /\ told'[o] \notin Refusals
    BY <1>7 DEF ProcessCrash, Refusals
  <2>4. QED BY <1>2, <1>3, <2>1, <2>2, <2>3, QueueStepFrame
<1>8. CASE Load \/ WindowPasses \/ UNCHANGED vars
  <2>1. UNCHANGED qvars /\ UNCHANGED <<via, ifRev, revBefore, adopts, told, writes>> /\ instance' \in Queues
    BY <1>3, <1>8 DEF Load, WindowPasses, vars, kvars
  <2>2. QED BY <1>2, <1>3, <2>1, QueueStepFrame
<1>9. QED BY <1>1, <1>4, <1>5, <1>6, <1>7, <1>8, KernelAssumption DEF KernelNext, CallStep

LEMMA StepFrame ==
  ASSUME QueueInv, HistoryInv, [KernelNext]_vars
  PROVE  /\ HistoryTypeOK' /\ CallsOK' /\ CallFrame
         /\ writes' = writes \/ \E c \in Ops : Land(c)
BY SubmitFrame, OtherFrame

\* An operation that has started stays what it is, and is not refused later.
LEMMA StartedStays ==
  ASSUME QueueInv, HistoryInv, [KernelNext]_vars,
         NEW o \in Ops, home[o] # None, phase[o] \in {"running", "over"},
         answer[o] \notin Refusals, ~Conflicts(o)
  PROVE  /\ phase'[o] \in {"running", "over"} /\ home'[o] = home[o]
         /\ answer'[o] \notin Refusals
<1>1. CASE QuietStep
  BY <1>1, StartedOpStep DEF Refusals
<1>2. ASSUME NEW c \in Ops, NEW v \in Settlements, HandlerSettles(c, v)
      PROVE  /\ phase'[o] \in {"running", "over"} /\ home'[o] = home[o]
             /\ answer'[o] \notin Refusals
  <2>1. (v = "conflict" <=> Conflicts(c)) /\ v \notin {"closed", "mismatch"}
    BY <1>2 DEF HandlerSettles, Settlements, Returned, Thrown
  <2>2. /\ phase' = [phase EXCEPT ![c] = "over"] /\ home' = home
        /\ answer' = answer \/ answer' = [answer EXCEPT ![c] = v]
    BY <1>2 DEF HandlerSettles, Settle, Release
  <2>3. QED BY <2>1, <2>2 DEF QueueInv, QueueTypeOK, Refusals
<1>3. instance \in Queues
  BY DEF HistoryInv, HistoryTypeOK
<1>4. QED BY <1>1, <1>2, <1>3, QuietOrSettles

\* Landing: the writer holds its slot or was abandoned, and passed its check.
LEMMA Landing ==
  ASSUME QueueInv, HistoryInv, NEW c \in Ops, Land(c)
  PROVE  /\ phase[c] = "running" /\ home[c] # None /\ ~Conflicts(c) /\ revBefore[c] \in Nat
         /\ answer[c] \in {"none", "timeout"}
         /\ writes' = Append(writes, c) /\ \A n \in 1..Len(writes) : writes[n] # c
         /\ UNCHANGED <<qvars, ifRev, revBefore>>
<1>1. phase[c] = "running" /\ ~Conflicts(c) /\ UNCHANGED <<qvars, ifRev, revBefore>>
      /\ writes' = Append(writes, c) /\ \A n \in 1..Len(writes) : writes[n] # c
  BY DEF Land, Wrote
<1>2. home[c] # None
  BY <1>1 DEF QueueInv, OpOK
<1>3. answer[c] \in {"none", "timeout"}
  <2>1. home[c] \in Queues
    BY <1>2 DEF QueueInv, QueueTypeOK
  <2>2. CASE Holds(c)
    BY <2>1, <2>2, NoneAssumption DEF QueueInv, HolderOK, Holds
  <2>3. QED BY <1>1, <2>2 DEF QueueInv, Serialized
<1>4. revBefore[c] \in Nat
  BY <1>1 DEF HistoryInv, CallsOK
<1>5. QED BY <1>1, <1>2, <1>3, <1>4

LEMMA HistoryStep ==
  ASSUME QueueInv, HistoryInv, [KernelNext]_vars
  PROVE  HistoryInv'
<1>1. HistoryTypeOK' /\ CallsOK' /\ CallFrame /\ writes \in Seq(Ops)
  BY StepFrame DEF HistoryInv, HistoryTypeOK
<1>2. ASSUME NEW n \in 1..Len(writes)
      PROVE  LET c == writes[n] IN
               /\ phase'[c] \in {"running", "over"} /\ home'[c] # None
               /\ answer'[c] \notin Refusals
               /\ ifRev'[c] = None \/ revBefore'[c] = ifRev'[c]
               /\ revBefore'[c] \in Nat
  <2> DEFINE c == writes[n]
  <2>1. c \in Ops /\ phase[c] \in {"running", "over"} /\ home[c] # None
        /\ answer[c] \notin Refusals /\ ~Conflicts(c) /\ revBefore[c] \in Nat
    BY <1>1 DEF HistoryInv, WritersOK
  <2>2. revBefore'[c] = revBefore[c] /\ ifRev'[c] = ifRev[c]
    BY <1>1, <2>1 DEF CallFrame, HistoryInv, CallsOK
  <2> HIDE DEF c
  <2>3. ifRev'[c] = None \/ revBefore'[c] = ifRev'[c]
    BY <2>1, <2>2 DEF Conflicts
  <2>4. /\ phase'[c] \in {"running", "over"} /\ home'[c] = home[c]
        /\ answer'[c] \notin Refusals
    BY <2>1, StartedStays
  <2>5. QED BY <2>1, <2>2, <2>3, <2>4 DEF c
<1>3. CASE writes' = writes
  BY <1>1, <1>2, <1>3 DEF HistoryInv, WritersOK, Conflicts
<1>4. ASSUME NEW c \in Ops, Land(c)
      PROVE  WritersOK'
  <2>1. /\ phase'[c] \in {"running", "over"} /\ home'[c] # None
        /\ answer'[c] \notin Refusals /\ revBefore'[c] \in Nat
        /\ ifRev'[c] = None \/ revBefore'[c] = ifRev'[c]
    BY <1>4, Landing DEF qvars, Refusals, Conflicts
  <2>2. writes' = Append(writes, c)
    BY <1>4, Landing
  <2>3. \A n \in 1..Len(writes') : writes'[n] = c \/ (n \in 1..Len(writes) /\ writes'[n] = writes[n])
    BY <1>1, <2>2
  <2>4. QED BY <1>2, <2>1, <2>3 DEF WritersOK, Conflicts
<1>5. QED BY <1>1, <1>3, <1>4, StepFrame DEF HistoryInv

-----------------------------------------------------------------------------
(***************************************************************************)
(* if_rev.  What makes NoLostUpdate inductive: since a call that runs and  *)
(* is not abandoned probed the revision, only itself, abandoned calls and  *)
(* calls of another instance wrote.                                        *)
(***************************************************************************)
ProbeStands ==
  \A c \in Ops : phase[c] = "running" /\ answer[c] = "none" =>
    \A m \in 1..Len(writes) : m > revBefore[c]
      => \/ writes[m] = c
         \/ answer[writes[m]] = "timeout"
         \/ home[writes[m]] # home[c]

KernelInv == QueueInv /\ HistoryInv /\ ProbeStands /\ NoLostUpdate

LEMMA UpdateStep ==
  ASSUME KernelInv, [KernelNext]_vars
  PROVE  ProbeStands' /\ NoLostUpdate'
<1>1. /\ QueueInv /\ HistoryInv /\ ProbeStands /\ NoLostUpdate
      /\ writes \in Seq(Ops) /\ instance \in Queues /\ CallFrame
  BY StepFrame DEF KernelInv, HistoryInv, HistoryTypeOK
<1>2. \A o \in Ops : answer[o] # "none" => answer'[o] = answer[o]
  BY <1>1, KernelStepIsQueueStep, StepAnswersOnce
<1>3. \A n \in 1..Len(writes) : LET c == writes[n] IN
        c \in Ops /\ home'[c] = home[c] /\ revBefore'[c] = revBefore[c] /\ revBefore[c] \in Nat
  BY <1>1, StartedStays DEF HistoryInv, WritersOK, CallFrame
<1>4. CASE writes' = writes
  <2>1. NoLostUpdate'
    <3> SUFFICES ASSUME NEW n \in 1..Len(writes), NEW m \in (revBefore'[writes[n]] + 1)..(n - 1)
                 PROVE  \/ answer'[writes[m]] = "timeout" \/ answer'[writes[n]] = "timeout"
                        \/ home'[writes[m]] # home'[writes[n]]
      BY <1>4 DEF NoLostUpdate
    <3>1. m \in 1..Len(writes) /\ m \in (revBefore[writes[n]] + 1)..(n - 1)
      BY <1>1, <1>3
    <3>2. \/ answer[writes[m]] = "timeout" \/ answer[writes[n]] = "timeout"
          \/ home[writes[m]] # home[writes[n]]
      BY <1>1, <3>1 DEF NoLostUpdate
    <3>3. QED BY <1>2, <1>3, <3>1, <3>2
  <2>2. ASSUME NEW c \in Ops, phase'[c] = "running", answer'[c] = "none",
               NEW m \in 1..Len(writes), m > revBefore'[c]
        PROVE  writes[m] = c \/ answer'[writes[m]] = "timeout" \/ home'[writes[m]] # home'[c]
    <3>1. answer[c] = "none"
      BY <1>2, <2>2
    <3>2. CASE phase[c] # "running"
      BY <1>1, <2>2, <3>2 DEF CallFrame
    <3>3. CASE phase[c] = "running"
      <4>1. revBefore'[c] = revBefore[c] /\ home[c] # None
        BY <1>1, <3>3 DEF CallFrame, QueueInv, OpOK
      <4>2. home'[c] = home[c]
        BY <1>1, <4>1 DEF CallFrame, HistoryInv, CallsOK
      <4>3. QED BY <1>1, <1>2, <1>3, <2>2, <3>1, <3>3, <4>1, <4>2 DEF ProbeStands
    <3>4. QED BY <3>2, <3>3
  <2>3. QED BY <1>4, <2>1, <2>2 DEF ProbeStands
<1>5. ASSUME NEW d \in Ops, Land(d)
      PROVE  ProbeStands' /\ NoLostUpdate'
  <2>1. /\ phase[d] = "running" /\ home[d] # None /\ revBefore[d] \in Nat
        /\ answer[d] \in {"none", "timeout"}
        /\ \A n \in 1..Len(writes) : writes[n] # d
        /\ UNCHANGED <<phase, answer, home, slot, revBefore>>
    BY <1>1, <1>5, Landing DEF qvars
  <2>2. /\ writes' = Append(writes, d) /\ Len(writes') = Len(writes) + 1
        /\ Len(writes) \in Nat /\ writes'[Len(writes) + 1] = d
        /\ \A n \in 1..Len(writes) : writes'[n] = writes[n]
    BY <1>1, <1>5, Landing
  <2>3. ProbeStands'
    <3> SUFFICES ASSUME NEW c \in Ops, phase[c] = "running", answer[c] = "none",
                        NEW m \in 1..Len(writes'), m > revBefore[c]
                 PROVE  \/ writes'[m] = c \/ answer[writes'[m]] = "timeout"
                        \/ home[writes'[m]] # home[c]
      BY <2>1 DEF ProbeStands
    <3>1. CASE m \in 1..Len(writes)
      BY <1>1, <2>2, <3>1 DEF ProbeStands
    <3>2. CASE m = Len(writes) + 1
      BY <1>1, <2>1, <2>2, <3>2 DEF QueueInv, Serialized, Holds
    <3>3. QED BY <2>2, <3>1, <3>2
  <2>4. NoLostUpdate'
    <3> SUFFICES ASSUME NEW n \in 1..Len(writes'), NEW m \in (revBefore[writes'[n]] + 1)..(n - 1)
                 PROVE  \/ answer[writes'[m]] = "timeout" \/ answer[writes'[n]] = "timeout"
                        \/ home[writes'[m]] # home[writes'[n]]
      BY <2>1 DEF NoLostUpdate
    <3>1. CASE n \in 1..Len(writes)
      <4>1. m \in 1..Len(writes) /\ revBefore[writes[n]] \in Nat
        BY <1>3, <2>2, <3>1
      <4>2. QED BY <1>1, <2>2, <3>1, <4>1 DEF NoLostUpdate
    <3>2. CASE n = Len(writes) + 1
      <4>1. m \in 1..Len(writes) /\ m > revBefore[d] /\ writes'[m] # d /\ writes'[n] = d
        BY <2>1, <2>2, <3>2
      <4>2. QED BY <1>1, <2>1, <2>2, <4>1 DEF ProbeStands
    <3>3. n \in 1..Len(writes) \/ n = Len(writes) + 1
      BY <2>2
    <3>4. QED BY <3>1, <3>2, <3>3
  <2>5. QED BY <2>3, <2>4
<1>6. QED BY <1>1, <1>4, <1>5, StepFrame

LEMMA InitKernelInv == KernelInit => KernelInv
BY InitQueueInv, InitHistory, NoneAssumption
   DEF KernelInit, KernelInv, ProbeStands, NoLostUpdate, QueueInit

LEMMA KernelStep ==
  ASSUME KernelInv, [KernelNext]_vars
  PROVE  KernelInv'
<1>1. QueueInv /\ HistoryInv /\ instance \in Queues
  BY DEF KernelInv, HistoryInv, HistoryTypeOK
<1>2. QueueInv'
  BY <1>1, KernelStepIsQueueStep, QueueStepPreserves
<1>3. HistoryInv'
  BY <1>1, HistoryStep
<1>4. QED BY <1>2, <1>3, UpdateStep DEF KernelInv

THEOREM KernelInvariance == KernelSpec => []KernelInv
BY InitKernelInv, KernelStep, PTL DEF KernelSpec

(***************************************************************************)
(* A call told "closed", "conflict" or "mismatch" never wrote.             *)
(***************************************************************************)
THEOREM RefusedCallsNeverWrite == KernelSpec => []RefusedNeverWrites
<1>1. KernelInv => RefusedNeverWrites
  BY DEF KernelInv, HistoryInv, HistoryTypeOK, WritersOK, CallsOK, RefusedNeverWrites, Wrote, Refusals
<1>2. QED BY <1>1, KernelInvariance, PTL

(***************************************************************************)
(* No lost update: nobody of the same instance that was not abandoned      *)
(* writes between a call's revision probe and its own write.               *)
(***************************************************************************)
THEOREM KernelLosesNoUpdate == KernelSpec => []NoLostUpdate
<1>1. KernelInv => NoLostUpdate
  BY DEF KernelInv
<1>2. QED BY <1>1, KernelInvariance, PTL

-----------------------------------------------------------------------------
(***************************************************************************)
(* Numbers.  Every set of them has a least element, so a fact may be       *)
(* carried along the natural numbers.                                      *)
(***************************************************************************)
LEMMA LeastNumber ==
  ASSUME NEW S \in SUBSET Nat, S # {}
  PROVE  \E n \in S : \A m \in S : n <= m
<1>1. IsWellFoundedOn(OpToRel(<, Nat), Nat)
  BY NatLessThanWellFounded
<1>2. PICK n \in S : \A m \in S : ~(<<m, n>> \in OpToRel(<, Nat))
  BY <1>1, WFMin
<1>3. ASSUME NEW m \in S PROVE n <= m
  <2>1. m \in Nat /\ n \in Nat
    OBVIOUS
  <2>2. ~(m < n)
    BY <1>2, <2>1 DEF OpToRel
  <2>3. QED BY <2>1, <2>2
<1>4. QED BY <1>3

-----------------------------------------------------------------------------
(***************************************************************************)
(* The store: its map, its recency order and its cap agree.                *)
(***************************************************************************)
NoRepeats(s) == \A m, n \in 1..Len(s) : s[m] = s[n] => m = n

StoreOK(st) ==
  /\ st \in [entry : [Keys -> Ops \cup {None}], recent : Seq(Keys), evicted : SUBSET Keys]
  /\ Len(st.recent) <= StoreMax /\ NoRepeats(st.recent)
  /\ \A k \in Keys : st.entry[k] # None <=> \E n \in 1..Len(st.recent) : st.recent[n] = k

\* An entry that has not lapsed stands in st, or a full store dropped it.
Stands(st, k, old) == k \in st.evicted \/ st.entry[k] \notin old \cup {None}

LEMMA WithoutOne ==
  ASSUME NEW s \in Seq(Keys), NEW k, NoRepeats(s)
  PROVE  /\ Without(s, k) \in Seq(Keys) /\ NoRepeats(Without(s, k))
         /\ Len(Without(s, k)) <= Len(s)
         /\ (\E n \in 1..Len(s) : s[n] = k) => Len(Without(s, k)) = Len(s) - 1
         /\ \A j : (\E n \in 1..Len(Without(s, k)) : Without(s, k)[n] = j)
                     <=> j # k /\ \E n \in 1..Len(s) : s[n] = j
<1>1. CASE ~\E n \in 1..Len(s) : s[n] = k
  BY <1>1 DEF Without
<1>2. CASE \E n \in 1..Len(s) : s[n] = k
  <2> DEFINE p == PlaceOf(s, k)
             w == [n \in 1..(Len(s) - 1) |-> IF n < p THEN s[n] ELSE s[n + 1]]
  <2>1. p \in 1..Len(s) /\ s[p] = k /\ Len(s) \in Nat
    BY <1>2 DEF PlaceOf
  <2>2. Without(s, k) = w
    BY <1>2 DEF Without
  <2> HIDE DEF p
  <2>3. w \in Seq(Keys) /\ Len(w) = Len(s) - 1
    BY <2>1
  <2>4. \A n \in 1..Len(w) : w[n] = IF n < p THEN s[n] ELSE s[n + 1]
    BY <2>1, <2>3
  <2> HIDE DEF w
  <2>5. NoRepeats(w)
    BY <2>1, <2>3, <2>4, SMTT(60) DEF NoRepeats
  <2>6. ASSUME NEW j, NEW n \in 1..Len(w), w[n] = j PROVE j # k /\ \E m \in 1..Len(s) : s[m] = j
    <3>1. CASE n < p
      BY <2>1, <2>3, <2>4, <2>6, <3>1 DEF NoRepeats
    <3>2. CASE ~(n < p)
      <4>1. n + 1 \in 1..Len(s) /\ n + 1 # p /\ s[n + 1] = j
        BY <2>1, <2>3, <2>4, <2>6, <3>2
      <4>2. QED BY <2>1, <4>1 DEF NoRepeats
    <3>3. QED BY <3>1, <3>2
  <2>7. ASSUME NEW j, j # k, NEW m \in 1..Len(s), s[m] = j PROVE \E n \in 1..Len(w) : w[n] = j
    <3>1. CASE m < p
      BY <2>1, <2>3, <2>4, <2>7, <3>1
    <3>2. CASE ~(m < p)
      <4>1. m - 1 \in 1..Len(w) /\ ~(m - 1 < p) /\ (m - 1) + 1 = m
        BY <2>1, <2>3, <2>7, <3>2
      <4>2. QED BY <2>4, <2>7, <4>1
    <3>3. QED BY <3>1, <3>2
  <2>8. \A j : (\E n \in 1..Len(w) : w[n] = j) <=> j # k /\ \E n \in 1..Len(s) : s[n] = j
    BY <2>6, <2>7
  <2>9. Len(w) <= Len(s)
    BY <2>1, <2>3
  <2>10. QED BY <2>2, <2>3, <2>5, <2>8, <2>9
<1>3. QED BY <1>1, <1>2

\* What get() of one key does to a store.
LEMMA GetKeeps ==
  ASSUME NEW st, StoreOK(st), NEW k \in Keys, NEW old
  PROVE  /\ StoreOK(Get(st, k, old)) /\ Get(st, k, old).evicted = st.evicted
         /\ \A j \in Keys : Get(st, k, old).entry[j] =
              IF j = k /\ st.entry[k] \in old THEN None ELSE st.entry[j]
<1> DEFINE s == st.recent
           w == Without(st.recent, k)
<1>1. /\ st \in [entry : [Keys -> Ops \cup {None}], recent : Seq(Keys), evicted : SUBSET Keys]
      /\ s \in Seq(Keys) /\ Len(s) <= StoreMax /\ NoRepeats(s)
      /\ \A j \in Keys : st.entry[j] # None <=> \E n \in 1..Len(s) : s[n] = j
  BY DEF StoreOK
<1>2. /\ w \in Seq(Keys) /\ NoRepeats(w) /\ Len(w) <= Len(s) /\ Len(s) \in Nat /\ Len(w) \in Nat
      /\ (\E n \in 1..Len(s) : s[n] = k) => Len(w) = Len(s) - 1
      /\ \A j : (\E n \in 1..Len(w) : w[n] = j) <=> j # k /\ \E n \in 1..Len(s) : s[n] = j
  <2>1. st.recent \in Seq(Keys) /\ NoRepeats(st.recent)
    BY <1>1
  <2>2. /\ w \in Seq(Keys) /\ NoRepeats(w) /\ Len(w) <= Len(s)
        /\ (\E n \in 1..Len(s) : s[n] = k) => Len(w) = Len(s) - 1
        /\ \A j : (\E n \in 1..Len(w) : w[n] = j) <=> j # k /\ \E n \in 1..Len(s) : s[n] = j
    BY <2>1, WithoutOne, ZenonT(60)
  <2>3. QED BY <1>1, <2>2
<1> HIDE DEF s, w
<1>3. CASE st.entry[k] = None
  BY <1>1, <1>3 DEF Get
<1>4. CASE st.entry[k] # None /\ st.entry[k] \in old
  <2>1. Get(st, k, old) = [st EXCEPT !.entry[k] = None, !.recent = w]
    BY <1>4 DEF Get, w
  <2> DEFINE g == [st EXCEPT !.entry[k] = None, !.recent = w]
  <2>2. /\ g \in [entry : [Keys -> Ops \cup {None}], recent : Seq(Keys), evicted : SUBSET Keys]
        /\ g.recent = w /\ g.evicted = st.evicted /\ g.entry = [st.entry EXCEPT ![k] = None]
    BY <1>1, <1>2
  <2> HIDE DEF g
  <2>3. \A j \in Keys : g.entry[j] = IF j = k THEN None ELSE st.entry[j]
    BY <1>1, <2>2
  <2>4. \A j \in Keys : g.entry[j] # None <=> \E n \in 1..Len(w) : w[n] = j
    BY <1>1, <1>2, <2>3
  <2>5. Len(w) <= StoreMax
    BY <1>1, <1>2, KernelAssumption
  <2>6. StoreOK(g)
    BY <1>2, <2>2, <2>4, <2>5 DEF StoreOK
  <2>7. QED BY <1>4, <2>1, <2>2, <2>3, <2>6 DEF g
<1>5. CASE st.entry[k] # None /\ st.entry[k] \notin old
  <2>1. Get(st, k, old) = [st EXCEPT !.recent = Append(w, k)]
    BY <1>5 DEF Get, w
  <2> DEFINE g == [st EXCEPT !.recent = Append(w, k)]
  <2>2. /\ g \in [entry : [Keys -> Ops \cup {None}], recent : Seq(Keys), evicted : SUBSET Keys]
        /\ g.recent = Append(w, k) /\ g.evicted = st.evicted /\ g.entry = st.entry
    <3>1. Append(w, k) \in Seq(Keys)
      BY <1>2
    <3>2. QED BY <1>1, <3>1
  <2> HIDE DEF g
  <2>3. /\ Len(Append(w, k)) = Len(w) + 1 /\ Append(w, k)[Len(w) + 1] = k
        /\ \A n \in 1..Len(w) : Append(w, k)[n] = w[n] /\ w[n] # k
    BY <1>2
  <2>4. NoRepeats(Append(w, k))
    BY <1>2, <2>3 DEF NoRepeats
  <2>5. Len(Append(w, k)) <= StoreMax
    BY <1>1, <1>2, <1>5, <2>3, KernelAssumption
  <2>6. \A j : (\E n \in 1..Len(Append(w, k)) : Append(w, k)[n] = j)
               <=> j = k \/ \E n \in 1..Len(w) : w[n] = j
    BY <1>2, <2>3
  <2>7. \A j \in Keys : st.entry[j] # None <=> \E n \in 1..Len(Append(w, k)) : Append(w, k)[n] = j
    BY <1>1, <1>2, <1>5, <2>6
  <2>8. StoreOK(g)
    BY <2>2, <2>4, <2>5, <2>7 DEF StoreOK
  <2>9. QED BY <1>5, <2>1, <2>2, <2>8 DEF g
<1>6. QED BY <1>3, <1>4, <1>5

\* What set() of one key does.
LEMMA PutKeeps ==
  ASSUME NEW st, StoreOK(st), NEW k \in Keys, NEW c \in Ops
  PROVE  /\ StoreOK(Put(st, k, c)) /\ Put(st, k, c).entry[k] = c
         /\ st.evicted \subseteq Put(st, k, c).evicted
         /\ \A j \in Keys : j # k =>
              \/ Put(st, k, c).entry[j] = st.entry[j]
              \/ Put(st, k, c).entry[j] = None /\ j \in Put(st, k, c).evicted
<1> DEFINE s == st.recent
           w == Without(st.recent, k)
           order == Append(w, k)
           added == [st EXCEPT !.entry[k] = c, !.recent = order]
<1>1. /\ st \in [entry : [Keys -> Ops \cup {None}], recent : Seq(Keys), evicted : SUBSET Keys]
      /\ s \in Seq(Keys) /\ Len(s) <= StoreMax /\ NoRepeats(s)
      /\ \A j \in Keys : st.entry[j] # None <=> \E n \in 1..Len(s) : s[n] = j
  BY DEF StoreOK
<1>2. /\ w \in Seq(Keys) /\ NoRepeats(w) /\ Len(w) <= Len(s) /\ Len(s) \in Nat /\ Len(w) \in Nat
      /\ \A j : (\E n \in 1..Len(w) : w[n] = j) <=> j # k /\ \E n \in 1..Len(s) : s[n] = j
  <2>1. st.recent \in Seq(Keys) /\ NoRepeats(st.recent)
    BY <1>1
  <2>2. /\ w \in Seq(Keys) /\ NoRepeats(w) /\ Len(w) <= Len(s)
        /\ \A j : (\E n \in 1..Len(w) : w[n] = j) <=> j # k /\ \E n \in 1..Len(s) : s[n] = j
    BY <2>1, WithoutOne, ZenonT(60)
  <2>3. QED BY <1>1, <2>2
<1>3. Put(st, k, c) = IF Len(order) > StoreMax
                      THEN [added EXCEPT !.entry[Head(order)] = None, !.recent = Tail(order),
                                         !.evicted = @ \cup {Head(order)}]
                      ELSE added
  BY DEF Put
<1> HIDE DEF s, w
<1>4. /\ order \in Seq(Keys) /\ Len(order) = Len(w) + 1 /\ order[Len(w) + 1] = k
      /\ \A n \in 1..Len(w) : order[n] = w[n] /\ w[n] # k
  BY <1>2
<1> HIDE DEF order
<1>5. /\ added \in [entry : [Keys -> Ops \cup {None}], recent : Seq(Keys), evicted : SUBSET Keys]
      /\ added.recent = order /\ added.evicted = st.evicted /\ added.entry = [st.entry EXCEPT ![k] = c]
  BY <1>1, <1>4
<1> HIDE DEF added
<1>6. \A j \in Keys : added.entry[j] = IF j = k THEN c ELSE st.entry[j]
  BY <1>1, <1>5
<1>7. NoRepeats(order)
  BY <1>2, <1>4 DEF NoRepeats
<1>8. \A j : (\E n \in 1..Len(order) : order[n] = j) <=> j = k \/ \E n \in 1..Len(w) : w[n] = j
  BY <1>2, <1>4
<1>9. \A j \in Keys : added.entry[j] # None <=> \E n \in 1..Len(order) : order[n] = j
  BY <1>1, <1>2, <1>6, <1>8, NoneAssumption, ZenonT(60)
<1>10. CASE Len(order) <= StoreMax
  <2>1. Put(st, k, c) = added
    BY <1>2, <1>3, <1>4, <1>10, KernelAssumption
  <2>2. StoreOK(added)
    BY <1>5, <1>7, <1>9, <1>10 DEF StoreOK
  <2>3. QED BY <1>5, <1>6, <2>1, <2>2
<1>11. CASE Len(order) > StoreMax
  <2> DEFINE h == Head(order)
             t == Tail(order)
             p == [added EXCEPT !.entry[h] = None, !.recent = t, !.evicted = @ \cup {h}]
  <2>1. Put(st, k, c) = p
    BY <1>3, <1>11
  <2>2. h \in Keys /\ h = order[1] /\ t \in Seq(Keys) /\ Len(t) = Len(w)
        /\ \A n \in 1..Len(t) : t[n] = order[n + 1]
    BY <1>2, <1>4
  <2>3. 1 \in 1..Len(w) /\ h # k /\ Len(t) <= StoreMax
    BY <1>1, <1>2, <1>4, <1>11, <2>2, KernelAssumption
  <2> HIDE DEF h, t
  <2>4. /\ p \in [entry : [Keys -> Ops \cup {None}], recent : Seq(Keys), evicted : SUBSET Keys]
        /\ p.recent = t /\ p.evicted = st.evicted \cup {h} /\ p.entry = [added.entry EXCEPT ![h] = None]
    BY <1>5, <2>2
  <2> HIDE DEF p
  <2>5. \A j \in Keys : p.entry[j] = IF j = h THEN None ELSE added.entry[j]
    BY <1>5, <2>4
  <2>6. NoRepeats(t)
    BY <1>2, <1>4, <1>7, <2>2, SMTT(60) DEF NoRepeats
  <2>7. \A j \in Keys : (\E n \in 1..Len(t) : t[n] = j) <=> j # h /\ \E n \in 1..Len(order) : order[n] = j
    <3>1. ASSUME NEW j \in Keys, NEW n \in 1..Len(t), t[n] = j
          PROVE  j # h /\ \E m \in 1..Len(order) : order[m] = j
      <4>1. n + 1 \in 1..Len(order) /\ 1 \in 1..Len(order) /\ n + 1 # 1 /\ order[n + 1] = j
        BY <1>2, <1>4, <2>2, <3>1
      <4>2. QED BY <1>7, <2>2, <4>1 DEF NoRepeats
    <3>2. ASSUME NEW j \in Keys, j # h, NEW m \in 1..Len(order), order[m] = j
          PROVE  \E n \in 1..Len(t) : t[n] = j
      <4>1. m - 1 \in 1..Len(t) /\ (m - 1) + 1 = m
        BY <1>2, <1>4, <2>2, <3>2
      <4>2. QED BY <2>2, <3>2, <4>1
    <3>3. QED BY <3>1, <3>2
  <2>8. \A j \in Keys : p.entry[j] # None <=> \E n \in 1..Len(t) : t[n] = j
    BY <1>9, <2>5, <2>7
  <2>9. StoreOK(p)
    BY <2>3, <2>4, <2>6, <2>8 DEF StoreOK
  <2>10. p.entry[k] = c
    BY <1>6, <2>3, <2>5
  <2>11. \A j \in Keys : j # k => p.entry[j] = st.entry[j] \/ (p.entry[j] = None /\ j \in p.evicted)
    BY <1>6, <2>4, <2>5
  <2>12. QED BY <2>1, <2>4, <2>9, <2>10, <2>11
<1>12. Len(order) \in Nat /\ StoreMax \in Nat
  BY <1>4, KernelAssumption
<1>13. QED BY <1>10, <1>11, <1>12

\* What one record of the journal does to the store.
LEMMA SeedOneKeeps ==
  ASSUME NEW st, StoreOK(st), NEW c \in Ops \cup {None}, c # None => Keyed(c), NEW busy, NEW old
  PROVE  LET st2 == SeedOne(st, c, KeyOf, busy, old)
         IN  /\ StoreOK(st2) /\ st.evicted \subseteq st2.evicted
             /\ \A j \in Keys : \/ st2.entry[j] \in {None, st.entry[j]}
                                \/ st2.entry[j] = c /\ c # None /\ j = KeyOf[c] /\ j \notin busy
             /\ \A j \in Keys : st.entry[j] \notin old \cup {None} => Stands(st2, j, old)
             /\ c # None /\ KeyOf[c] \notin busy /\ c \notin old => Stands(st2, KeyOf[c], old)
<1> DEFINE k == KeyOf[c]
           g == Get(st, k, old)
           st2 == SeedOne(st, c, KeyOf, busy, old)
<1>1. CASE c = None \/ k \in busy
  <2>1. st2 = st
    BY <1>1 DEF SeedOne
  <2> HIDE DEF st2
  <2>2. StoreOK(st2) /\ \A j \in Keys : st2.entry[j] \in {None, st.entry[j]}
    BY <2>1
  <2>3. \A j \in Keys : st.entry[j] \notin old \cup {None} => Stands(st2, j, old)
    BY <2>1 DEF Stands
  <2>4. QED BY <1>1, <2>1, <2>2, <2>3 DEF st2
<1>2. CASE c # None /\ k \notin busy
  <2>1. c \in Ops /\ k \in Keys
    BY <1>2, KernelAssumption DEF Keyed
  <2>2. /\ StoreOK(g) /\ g.evicted = st.evicted
        /\ \A j \in Keys : g.entry[j] = IF j = k /\ st.entry[k] \in old THEN None ELSE st.entry[j]
    BY <2>1, GetKeeps
  <2>3. st2 = IF g.entry[k] # None \/ c \in old THEN g ELSE Put(g, k, c)
    BY <1>2 DEF SeedOne
  <2> HIDE DEF g
  <2>4. CASE g.entry[k] # None \/ c \in old
    <3>1. st2 = g
      BY <2>3, <2>4
    <3> HIDE DEF st2
    <3>2. /\ \A j \in Keys : st2.entry[j] \in {None, st.entry[j]}
          /\ \A j \in Keys : st.entry[j] \notin old \cup {None} => Stands(st2, j, old)
          /\ c \notin old => Stands(st2, k, old)
      BY <2>1, <2>2, <2>4, <3>1 DEF Stands
    <3> HIDE DEF k
    <3>3. QED BY <1>2, <2>2, <3>1, <3>2 DEF st2, k
  <2>5. CASE ~(g.entry[k] # None \/ c \in old)
    <3>1. st2 = Put(g, k, c)
      BY <2>3, <2>5
    <3>2. /\ StoreOK(Put(g, k, c)) /\ Put(g, k, c).entry[k] = c /\ g.evicted \subseteq Put(g, k, c).evicted
          /\ \A j \in Keys : j # k =>
               \/ Put(g, k, c).entry[j] = g.entry[j]
               \/ Put(g, k, c).entry[j] = None /\ j \in Put(g, k, c).evicted
      BY <2>1, <2>2, PutKeeps
    <3> HIDE DEF st2, k
    <3>3. /\ StoreOK(st2) /\ st2.entry[k] = c /\ st.evicted \subseteq st2.evicted
          /\ \A j \in Keys : j # k =>
               \/ st2.entry[j] = g.entry[j]
               \/ st2.entry[j] = None /\ j \in st2.evicted
      BY <2>2, <3>1, <3>2
    <3>4. \A j \in Keys : \/ st2.entry[j] \in {None, st.entry[j]}
                          \/ st2.entry[j] = c /\ c # None /\ j = k /\ j \notin busy
      BY <1>2, <2>2, <3>3
    <3>5. Stands(st2, k, old)
      BY <1>2, <2>5, <3>3 DEF Stands
    <3>6. \A j \in Keys : st.entry[j] \notin old \cup {None} => Stands(st2, j, old)
      BY <2>2, <3>3, <3>5 DEF Stands
    <3>7. QED BY <3>3, <3>4, <3>5, <3>6 DEF st2, k
  <2>6. QED BY <2>4, <2>5
<1>3. QED BY <1>1, <1>2

\* The store after n records, by the store after n - 1 of them.
LEMMA SeedingSteps ==
  ASSUME NEW st, NEW done, Len(done) \in Nat, NEW busy, NEW old
  PROVE  /\ Seeding(st, done, KeyOf, busy, old)[0] = st
         /\ \A n \in 1..Len(done) :
              Seeding(st, done, KeyOf, busy, old)[n]
                = SeedOne(Seeding(st, done, KeyOf, busy, old)[n - 1], done[n], KeyOf, busy, old)
<1> DEFINE Fits(f, m) ==
             f = [n \in 0..m |-> IF n = 0 THEN st ELSE SeedOne(f[n - 1], done[n], KeyOf, busy, old)]
           Bad == {m \in 0..Len(done) : ~\E f : Fits(f, m)}
<1>1. Bad = {}
  <2>1. SUFFICES ASSUME Bad # {} PROVE FALSE
    OBVIOUS
  <2>2. PICK m \in Bad : \A n \in Bad : m <= n
    <3>1. Bad \in SUBSET Nat
      OBVIOUS
    <3> HIDE DEF Bad
    <3>2. QED BY <2>1, <3>1, LeastNumber
  <2>3. CASE m = 0
    <3> DEFINE f == [n \in 0..0 |-> st]
    <3>1. Fits(f, 0)
      OBVIOUS
    <3>2. QED BY <2>2, <2>3, <3>1
  <2>4. CASE m # 0
    <3>1. m \in 1..Len(done) /\ m - 1 \notin Bad /\ m - 1 \in 0..Len(done)
      BY <2>2, <2>4
    <3>2. PICK f : Fits(f, m - 1)
      BY <3>1
    <3> DEFINE g == [n \in 0..m |-> IF n = m THEN SeedOne(f[m - 1], done[m], KeyOf, busy, old) ELSE f[n]]
    <3>3. \A n \in 0..m : g[n] = IF n = 0 THEN st ELSE SeedOne(g[n - 1], done[n], KeyOf, busy, old)
      BY <3>1, <3>2
    <3>4. Fits(g, m)
      BY <3>3
    <3>5. QED BY <2>2, <3>4
  <2>5. QED BY <2>3, <2>4
<1>2. \E f : Fits(f, Len(done))
  BY <1>1
<1>3. Fits(Seeding(st, done, KeyOf, busy, old), Len(done))
  BY <1>2 DEF Seeding
<1> DEFINE s == Seeding(st, done, KeyOf, busy, old)
<1>4. s = [n \in 0..Len(done) |-> IF n = 0 THEN st ELSE SeedOne(s[n - 1], done[n], KeyOf, busy, old)]
  BY <1>3
<1> HIDE DEF s
<1>5. \A n \in 0..Len(done) : s[n] = IF n = 0 THEN st ELSE SeedOne(s[n - 1], done[n], KeyOf, busy, old)
  BY <1>4
<1>6. QED BY <1>5 DEF s

(***************************************************************************)
(* Seeding loses no entry but to a full store, stores only calls that the  *)
(* journal says are done, none under a key in flight, and every such call  *)
(* that is not too old finds its key held.                                 *)
(***************************************************************************)
LEMMA SeedKeeps ==
  ASSUME NEW st, StoreOK(st), NEW busy, NEW old, NEW done \in Seq(Ops \cup {None}),
         \A n \in 1..Len(done) : done[n] # None => Keyed(done[n])
  PROVE  LET st2 == Seed(st, done, KeyOf, busy, old)
         IN  /\ StoreOK(st2) /\ st.evicted \subseteq st2.evicted
             /\ \A j \in Keys :
                  \/ st2.entry[j] \in {None, st.entry[j]}
                  \/ j \notin busy /\ \E n \in 1..Len(done) :
                                        st2.entry[j] = done[n] /\ done[n] # None /\ j = KeyOf[done[n]]
             /\ \A j \in Keys : st.entry[j] \notin old \cup {None} => Stands(st2, j, old)
             /\ \A n \in 1..Len(done) : done[n] # None /\ KeyOf[done[n]] \notin busy /\ done[n] \notin old
                                        => Stands(st2, KeyOf[done[n]], old)
<1> DEFINE s == Seeding(st, done, KeyOf, busy, old)
           Good(m) == /\ StoreOK(s[m]) /\ st.evicted \subseteq s[m].evicted
                      /\ \A j \in Keys :
                           \/ s[m].entry[j] \in {None, st.entry[j]}
                           \/ j \notin busy /\ \E n \in 1..m :
                                s[m].entry[j] = done[n] /\ done[n] # None /\ j = KeyOf[done[n]]
                      /\ \A j \in Keys : st.entry[j] \notin old \cup {None} => Stands(s[m], j, old)
                      /\ \A n \in 1..m : done[n] # None /\ KeyOf[done[n]] \notin busy /\ done[n] \notin old
                                         => Stands(s[m], KeyOf[done[n]], old)
           Bad == {m \in 0..Len(done) : ~Good(m)}
<1> HIDE DEF Good, Bad
<1>1. /\ s[0] = st /\ Len(done) \in Nat
      /\ \A n \in 1..Len(done) : s[n] = SeedOne(s[n - 1], done[n], KeyOf, busy, old)
  <2>1. Len(done) \in Nat
    OBVIOUS
  <2>2. QED BY <2>1, SeedingSteps DEF s
<1> HIDE DEF s
<1> USE DEF Good, Bad
<1>2. Good(0)
  BY <1>1 DEF Stands
<1>3. ASSUME NEW m \in 1..Len(done), Good(m - 1) PROVE Good(m)
  <2> DEFINE a == s[m - 1]
             b == s[m]
             c == done[m]
  <2>1. c \in Ops \cup {None} /\ (c # None => Keyed(c)) /\ b = SeedOne(a, c, KeyOf, busy, old) /\ StoreOK(a)
    BY <1>1, <1>3
  <2> HIDE DEF Good, Bad, a, c
  <2>2. /\ StoreOK(b) /\ a.evicted \subseteq b.evicted
        /\ \A j \in Keys : \/ b.entry[j] \in {None, a.entry[j]}
                           \/ b.entry[j] = c /\ c # None /\ j = KeyOf[c] /\ j \notin busy
        /\ \A j \in Keys : a.entry[j] \notin old \cup {None} => Stands(b, j, old)
        /\ c # None /\ KeyOf[c] \notin busy /\ c \notin old => Stands(b, KeyOf[c], old)
    <3> HIDE DEF b
    <3> DEFINE d == SeedOne(a, c, KeyOf, busy, old)
    <3>1. /\ StoreOK(d) /\ a.evicted \subseteq d.evicted
          /\ \A j \in Keys : \/ d.entry[j] \in {None, a.entry[j]}
                             \/ d.entry[j] = c /\ c # None /\ j = KeyOf[c] /\ j \notin busy
          /\ \A j \in Keys : a.entry[j] \notin old \cup {None} => Stands(d, j, old)
          /\ c # None /\ KeyOf[c] \notin busy /\ c \notin old => Stands(d, KeyOf[c], old)
      <4>1. c \in Ops \cup {None} /\ (c # None => Keyed(c)) /\ StoreOK(a)
        BY <2>1
      <4>2. QED BY <4>1, SeedOneKeeps
    <3> HIDE DEF d
    <3>2. b = d
      BY <2>1 DEF d
    <3>3. QED BY <3>1, <3>2
  <2> USE DEF Good, Bad, a, c
  <2>3. /\ st.evicted \subseteq a.evicted
        /\ \A j \in Keys :
             \/ a.entry[j] \in {None, st.entry[j]}
             \/ j \notin busy /\ \E n \in 1..(m - 1) :
                  a.entry[j] = done[n] /\ done[n] # None /\ j = KeyOf[done[n]]
        /\ \A j \in Keys : st.entry[j] \notin old \cup {None} => Stands(a, j, old)
        /\ \A n \in 1..(m - 1) : done[n] # None /\ KeyOf[done[n]] \notin busy /\ done[n] \notin old
                                 => Stands(a, KeyOf[done[n]], old)
    BY <1>3
  <2>4. \A n \in 1..m : n \in 1..(m - 1) \/ n = m
    BY <1>1
  <2>5. \A n \in 1..(m - 1) : n \in 1..m
    BY <1>1
  <2> HIDE DEF a, b
  <2>6. \A j \in Keys : Stands(a, j, old) => Stands(b, j, old)
    BY <2>2 DEF Stands
  <2>7. \A n \in 1..m : done[n] # None => KeyOf[done[n]] \in Keys
    BY <1>3, KernelAssumption DEF Keyed
  <2>8. \A j \in Keys :
          \/ b.entry[j] \in {None, st.entry[j]}
          \/ j \notin busy /\ \E n \in 1..m : b.entry[j] = done[n] /\ done[n] # None /\ j = KeyOf[done[n]]
    BY <1>3, <2>2, <2>3, <2>5
  <2>9. \A j \in Keys : st.entry[j] \notin old \cup {None} => Stands(b, j, old)
    BY <2>3, <2>6
  <2>10. \A n \in 1..m : done[n] # None /\ KeyOf[done[n]] \notin busy /\ done[n] \notin old
                         => Stands(b, KeyOf[done[n]], old)
    BY <2>2, <2>3, <2>4, <2>6, <2>7
  <2>11. st.evicted \subseteq b.evicted /\ StoreOK(b)
    BY <2>2, <2>3
  <2>12. QED BY <2>8, <2>9, <2>10, <2>11 DEF b
<1>4. Bad = {}
  <2>1. SUFFICES ASSUME Bad # {} PROVE FALSE
    OBVIOUS
  <2>2. Bad \in SUBSET Nat
    OBVIOUS
  <2> HIDE DEF Good
  <2>3. PICK m \in Bad : \A n \in Bad : m <= n
    <3> HIDE DEF Bad
    <3>1. QED BY <2>1, <2>2, LeastNumber
  <2>4. m # 0
    BY <1>2
  <2>5. m \in 1..Len(done) /\ m - 1 \notin Bad /\ m - 1 \in 0..Len(done)
    BY <1>1, <2>3, <2>4
  <2>6. QED BY <1>3, <2>3, <2>5
<1>5. Good(Len(done)) /\ Seed(st, done, KeyOf, busy, old) = s[Len(done)]
  <2>1. Good(Len(done))
    <3> HIDE DEF Good
    <3>1. QED BY <1>1, <1>4
  <2>2. QED BY <2>1 DEF Seed, s
<1>6. QED BY <1>5

KeyTypes ==
  /\ ifRev \in [Ops -> Nat \cup {None}] /\ adopts \in [Ops -> Ops \cup {None}]
  /\ told \in [Ops -> Answers \cup {"mismatch"}]
  /\ aged \in SUBSET Ops /\ windows \in Nat /\ unread \in SUBSET Ops

\* What the kernel knows of a call that it took.
CallFacts ==
  \A c \in Ops :
    /\ via[c] # None => via[c] \in 1..instance
    /\ via[c] # None /\ told[c] = "none" => home[c] # None \/ adopts[c] # None
    /\ home[c] # None => home[c] = via[c] /\ told[c] \in {"none", "lost", answer[c]}
    /\ home[c] # None /\ told[c] = "lost" => phase[c] = "over"
    /\ told[c] = "mismatch" => home[c] = None
    /\ answer[c] = "ok" => c \in Wrote

\* A call that entered the queue with a key owns it until it has ended, and no other does.
ReservedOK ==
  /\ reserved \in [Keys -> Ops \cup {None}]
  /\ \A k \in Keys : reserved[k] # None =>
       KeyOf[reserved[k]] = k /\ told[reserved[k]] = "none" /\ home[reserved[k]] # None
  /\ \A c \in Ops : Keyed(c) /\ home[c] # None /\ told[c] = "none" => reserved[KeyOf[c]] = c

\* The calls whose outcome may be replayed: an envelope was returned, or the write landed late.
Replayable(h) == home[h] # None /\ (told[h] \in Returned \/ (answer[h] = "timeout" /\ h \in Wrote))

StoredOK ==
  /\ StoreOK(store)
  /\ \A k \in Keys : store.entry[k] # None =>
       KeyOf[store.entry[k]] = k /\ Replayable(store.entry[k])

\* What an adopted outcome is.
AdoptsOK ==
  \A c \in Ops : LET h == adopts[c] IN
    h # None =>
      /\ h \in Ops /\ home[h] # None
      /\ ReqOf[c] = ReqOf[h] /\ ifRev[c] = ifRev[h] /\ KeyOf[c] = KeyOf[h]
      /\ told[c] \notin {"none", "lost"}
           => /\ told[c] = "ok" => h \in Wrote
              /\ told[c] = told[h] \/ told[h] \in {"timeout", "lost"}

\* A crash leaves nothing of its process.
DeadOK ==
  /\ dead \subseteq 1..instance
  /\ \A i \in dead : 1..i \subseteq dead
  /\ instance \in dead =>
       /\ \A k \in Keys : reserved[k] = None /\ store.entry[k] = None
       /\ \A i \in Queues : tail[i] = <<>>
       /\ \A c \in Ops : via[c] # None => told[c] # "none"
       /\ \A c \in Ops : home[c] # None => phase[c] = "over"

KeyInv == KeyTypes /\ CallFacts /\ ReservedOK /\ StoredOK /\ AdoptsOK /\ DeadOK /\ KeyInOneState

\* What a record says of its call is so.
RecordFits(i, r) ==
  /\ r \in Records
  /\ i # 0 => via[r.by] = i
  /\ IF IsLate(r)
     THEN answer[r.by] = "timeout" /\ phase[r.by] = "over" /\ (r.outcome = "late-ok" => r.by \in Wrote)
     ELSE /\ told[r.by] # "none"
          /\ r.outcome = "deduped" => adopts[r.by] = r.of
          /\ r.outcome \notin {"mismatch", "deduped"} => home[r.by] # None /\ told[r.by] = r.outcome

RecordsOK ==
  /\ disk \in Seq(Records) /\ tail \in [Queues -> Seq(Records)]
  /\ \A p \in Places : RecordFits(p[1], RecordAt(p))

\* Some record of c, written or on its way.
Noted(c) == \E p \in Places : RecordAt(p).by = c

\* A deduped record on its way in list i comes after one of the call it names.
TailFollows(i) ==
  \A n \in 1..Len(tail[i]) :
    LET r == tail[i][n]
    IN  r.outcome = "deduped" /\ via[r.by] = via[r.of]
          => \/ \E m \in 1..(n - 1) : tail[i][m].by = r.of
             \/ \E m \in 1..Len(disk) : disk[m].by = r.of

\* The record of a call that may be replayed, or that has ended before its waiter
\* has, is on its way before the waiter's is.
FollowsOK ==
  ~JournalFails =>
    /\ \A k \in Keys : store.entry[k] # None => Noted(store.entry[k])
    /\ \A c \in Ops : adopts[c] # None /\ told[c] = "none" /\ told[adopts[c]] # "none"
                      => Noted(adopts[c])
    /\ \A i \in Queues : TailFollows(i)

JournalInv == RecordsOK /\ OneRecordPerCall /\ FollowsOK /\ DedupeFollows

\* A call whose key must still be held: nothing excuses a second write.
Living(c) ==
  /\ Keyed(c) /\ home[c] # None /\ told[c] \in Returned
  /\ c \notin aged \cup unread /\ KeyOf[c] \notin store.evicted /\ OnRecord(c)

LivingHeld ==
  \A c \in Ops : Living(c) => instance \in dead \/ store.entry[KeyOf[c]] \notin aged \cup {None}

\* NoDuplicateWrite, with the end of the first call: its excuse is there to stay.
Excused(c, d) ==
  \/ answer[c] = "timeout" \/ answer[d] = "timeout"
  \/ told[c] # "none" /\ ~Living(c)

PairsOK ==
  \A c, d \in Ops : \A m, n \in 1..Len(writes) :
    m < n /\ writes[m] = c /\ writes[n] = d /\ Keyed(c) /\ KeyOf[c] = KeyOf[d] => Excused(c, d)

AgedOK == \A c \in aged : told[c] # "none"

FullInv == KernelInv /\ KeyInv /\ JournalInv /\ LivingHeld /\ PairsOK /\ AgedOK

-----------------------------------------------------------------------------
(***************************************************************************)
(* Calls.  What any step leaves of what was already settled.               *)
(***************************************************************************)
LEMMA AnsweredIsOver ==
  ASSUME QueueInv, NEW o \in Ops, answer[o] \notin {"none", "timeout"}
  PROVE  phase[o] = "over" /\ home[o] # None
<1> USE NoneAssumption DEF QueueInv, QueueTypeOK
<1>1. home[o] # None /\ home[o] \in Queues
  BY DEF OpOK
<1>2. phase[o] # "waiting"
  BY <1>1 DEF ListOK
<1>3. phase[o] \notin Executing
  BY <1>1 DEF Serialized, Holds, HolderOK, Executing
<1>4. QED BY <1>1, <1>2, <1>3 DEF Executing

LEMMA QuietAnswers ==
  ASSUME QueueInv, QuietStep, NEW o \in Ops
  PROVE  /\ answer'[o] \in {answer[o], "timeout", "closed", "lost"}
         /\ phase[o] = "over" => phase'[o] = "over"
<1> DEFINE Quiet == answer'[o] \in {answer[o], "timeout", "closed", "lost"}
<1>1. ASSUME NEW q \in Queues, NEW s, NudgeWith(q, s) PROVE Quiet
  BY <1>1 DEF NudgeWith, QueueInv, QueueTypeOK
<1>2. ASSUME NEW q \in Queues, NEW p \in Ops, Run(q, p) PROVE Quiet
  BY <1>1, <1>2 DEF Run, RunAccepted, RunRefused, QueueInv, QueueTypeOK
<1>3. ASSUME NEW p \in Ops, Start(p) \/ StartRefused(p) PROVE Quiet
  BY <1>3 DEF Start, StartRefused, Release, QueueInv, QueueTypeOK
<1>4. ASSUME NEW q \in Queues, QueueStep(q) PROVE Quiet
  BY <1>1, <1>4 DEF QueueStep, Nudge, Pump, TimerFires, DeadlinePasses, Close, QueueInv, QueueTypeOK
<1>5. ASSUME NEW opened \in SUBSET Queues, Crash(opened) PROVE Quiet
  BY <1>5 DEF Crash
<1>6. Quiet
  BY <1>2, <1>3, <1>4, <1>5 DEF QuietStep, qvars
<1>7. ASSUME phase[o] = "over" PROVE phase'[o] = "over"
  <2>1. home[o] # None
    BY <1>7 DEF QueueInv, OpOK
  <2>2. phase'[o] \in {"running", "over"}
    BY <1>7, <2>1, StartedOpStep
  <2>3. [QueueNext]_qvars
    BY DEF QuietStep, QueueNext, OpStep
  <2>4. phase'[o] # "running"
    BY <1>7, <2>3, StartsAndSubmits DEF Start
  <2>5. QED BY <2>2, <2>4
<1>8. QED BY <1>6, <1>7

\* What was once settled of a call stays so.
Settled ==
  \A o \in Ops :
    /\ answer[o] # "none" => answer'[o] = answer[o]
    /\ phase[o] = "over" => phase'[o] = "over"
    /\ o \in Wrote => o \in Wrote'
    /\ home[o] # None => home'[o] = home[o]
    /\ via[o] # None => via'[o] = via[o] /\ ifRev'[o] = ifRev[o]
    /\ adopts[o] # None => adopts'[o] = adopts[o]
    /\ told[o] # "none" => told'[o] = told[o]
    /\ answer'[o] = "ok" => o \in Wrote'

LEMMA StepSettles ==
  ASSUME KernelInv, CallFacts, [KernelNext]_vars
  PROVE  Settled
<1>1. QueueInv /\ HistoryInv /\ instance \in Queues /\ writes \in Seq(Ops) /\ CallsOK
  BY DEF KernelInv, HistoryInv, HistoryTypeOK
<1>2. CallFrame /\ (writes' = writes \/ \E c \in Ops : Land(c))
  BY <1>1, StepFrame
<1>3. \A o \in Ops : o \in Wrote => o \in Wrote'
  <2>1. CASE writes' = writes
    BY <2>1 DEF Wrote
  <2>2. ASSUME NEW c \in Ops, Land(c) PROVE \A o \in Ops : o \in Wrote => o \in Wrote'
    <3>1. Len(writes') = Len(writes) + 1 /\ Len(writes) \in Nat
          /\ \A n \in 1..Len(writes) : writes'[n] = writes[n]
      BY <1>1, <2>2 DEF Land
    <3>2. \A n \in 1..Len(writes) : n \in 1..Len(writes')
      BY <3>1
    <3>3. QED BY <3>1, <3>2 DEF Wrote
  <2>3. QED BY <1>2, <2>1, <2>2
<1>4. \A o \in Ops : answer[o] # "none" => answer'[o] = answer[o]
  BY <1>1, KernelStepIsQueueStep, StepAnswersOnce
<1>5. \A o \in Ops : /\ phase[o] = "over" => phase'[o] = "over"
                     /\ answer'[o] = "ok" => o \in Wrote'
  <2>1. CASE QuietStep
    BY <1>1, <1>3, <2>1, QuietAnswers DEF CallFacts
  <2>2. ASSUME NEW c \in Ops, NEW v \in Settlements, HandlerSettles(c, v), NEW o \in Ops
        PROVE  /\ phase[o] = "over" => phase'[o] = "over"
               /\ answer'[o] = "ok" => o \in Wrote'
    <3>1. /\ phase' = [phase EXCEPT ![c] = "over"] /\ (v = "ok" => c \in Wrote) /\ writes' = writes
          /\ answer' = answer \/ answer' = [answer EXCEPT ![c] = v]
      BY <2>2 DEF HandlerSettles, Settle, Release
    <3>2. Wrote' = Wrote
      BY <3>1 DEF Wrote
    <3>3. QED BY <1>1, <3>1, <3>2 DEF CallFacts, QueueInv, QueueTypeOK
  <2>3. QED BY <1>1, <2>1, <2>2, QuietOrSettles
<1>6. \A o \in Ops : /\ home[o] # None => home'[o] = home[o]
                     /\ via[o] # None => via'[o] = via[o] /\ ifRev'[o] = ifRev[o]
  BY <1>1, <1>2 DEF CallFrame, CallsOK
<1>7. \A o \in Ops : /\ adopts[o] # None => adopts'[o] = adopts[o]
                     /\ told[o] # "none" => told'[o] = told[o]
  <2> USE <1>1 DEF HistoryInv, HistoryTypeOK, CallsOK
  <2>1. ASSUME NEW c \in Ops, NEW i \in Queues, Submit(c, i), NEW o \in Ops
        PROVE  /\ adopts[o] # None => adopts'[o] = adopts[o]
               /\ told[o] # "none" => told'[o] = told[o]
    BY <2>1 DEF Submit, SubmitMismatch, SubmitReplay, SubmitWait, SubmitRun, Arrives
  <2>2. ASSUME NEW c \in Ops, NEW o \in Ops, Finalize(c) \/ Adopt(c)
        PROVE  adopts' = adopts /\ (told[o] # "none" => told'[o] = told[o])
    BY <2>2 DEF Finalize, Adopt, Finalized
  <2>3. CASE ProcessCrash
    BY <2>3 DEF ProcessCrash, Finalized
  <2>4. ASSUME NEW c \in Ops,
               Dequeue(c) \/ DequeueRefused(c) \/ Land(c) \/ \E v \in Settlements : HandlerSettles(c, v)
        PROVE  UNCHANGED <<adopts, told>>
    BY <2>4 DEF Dequeue, DequeueRefused, Land, HandlerSettles
  <2>5. ASSUME NEW i \in Queues, Flush(i) \/ QueueTick(i)
        PROVE  UNCHANGED <<adopts, told>>
    BY <2>5 DEF Flush, QueueTick, kvars
  <2>6. CASE OtherCall \/ Unload \/ Load \/ WindowPasses \/ UNCHANGED vars
    BY <2>6 DEF OtherCall, Unload, Load, WindowPasses, vars, kvars
  <2>7. QED BY <2>1, <2>2, <2>3, <2>4, <2>5, <2>6 DEF KernelNext, CallStep
<1>8. QED BY <1>3, <1>4, <1>5, <1>6, <1>7 DEF Settled

(***************************************************************************)
(* Keys.  Every step keeps KeyInv: first the steps that leave the keys     *)
(* and the answers alone, then each of the others.                         *)
(***************************************************************************)
LEMMA KeysUnmoved ==
  ASSUME KernelInv, KeyInv, Settled, aged' \in SUBSET Ops, aged \subseteq aged', windows' \in Nat,
         unread' = unread, UNCHANGED <<instance, dead, via, ifRev, reserved, store, adopts, told, home>>,
         instance \in dead => tail' = tail
  PROVE  KeyInv'
<1>1. KeyTypes' /\ KeyInOneState'
  BY DEF KeyInv, KeyTypes, KeyInOneState
<1>2. CallFacts'
  BY DEF KeyInv, CallFacts, Settled
<1>3. ReservedOK'
  BY DEF KeyInv, ReservedOK
<1>4. \A h \in Ops : Replayable(h) => Replayable(h)'
  BY DEF Settled, Replayable
<1>5. StoredOK'
  BY <1>4, NoneAssumption DEF KeyInv, StoredOK, StoreOK
<1>6. AdoptsOK'
  BY DEF KeyInv, AdoptsOK, Settled
<1>7. DeadOK'
  BY DEF KeyInv, DeadOK, Settled
<1>8. QED BY <1>1, <1>2, <1>3, <1>5, <1>6, <1>7 DEF KeyInv

LEMMA QueueWorkKeeps ==
  ASSUME KernelInv, KeyInv, Settled,
         \/ \E c \in Ops : \/ Dequeue(c) \/ DequeueRefused(c) \/ Land(c)
                           \/ \E v \in Settlements : HandlerSettles(c, v)
         \/ \E i \in Queues : Flush(i) \/ QueueTick(i)
         \/ OtherCall \/ Unload \/ WindowPasses \/ UNCHANGED vars
  PROVE  KeyInv'
<1>1. UNCHANGED <<instance, dead, via, ifRev, reserved, store, adopts, told, home>>
  BY DEF Dequeue, Start, DequeueRefused, StartRefused, Land, HandlerSettles, Settle, Flush, Nudge,
         QueueTick, Pump, TimerFires, DeadlinePasses, OtherCall, Unload, Close, WindowPasses, vars,
         kvars, qvars
<1>2. aged' \in SUBSET Ops /\ aged \subseteq aged' /\ windows' \in Nat /\ unread' = unread
  BY DEF KeyInv, KeyTypes, Dequeue, DequeueRefused, Land, HandlerSettles, Flush, QueueTick, OtherCall,
         Unload, WindowPasses, vars, kvars
<1>3. instance \in dead => tail' = tail
  <2> SUFFICES ASSUME instance \in dead PROVE tail' = tail
    OBVIOUS
  <2>1. \A c \in Ops : phase[c] \notin {"dequeued", "running"}
    BY DEF KeyInv, DeadOK, KernelInv, QueueInv, OpOK
  <2>2. \A i \in Queues : tail[i] = <<>>
    BY DEF KeyInv, DeadOK
  <2>3. QED BY <2>1, <2>2 DEF Dequeue, Start, DequeueRefused, StartRefused, Land, HandlerSettles, Settle,
         Flush, QueueTick, OtherCall, Unload, WindowPasses, vars, kvars
<1>4. QED BY <1>1, <1>2, <1>3, KeysUnmoved

\* What a call finds of its key.
LEMMA LookedKeeps ==
  ASSUME StoredOK, NEW c \in Ops, Keyed(c)
  PROVE  /\ StoreOK(Looked(c)) /\ Looked(c).evicted = store.evicted
         /\ \A j \in Keys : Looked(c).entry[j] =
              IF j = KeyOf[c] /\ reserved[j] = None /\ store.entry[j] \in aged THEN None ELSE store.entry[j]
<1>1. KeyOf[c] \in Keys /\ StoreOK(store)
  BY KernelAssumption DEF Keyed, StoredOK
<1>2. CASE reserved[KeyOf[c]] # None
  BY <1>1, <1>2 DEF Looked
<1>3. CASE reserved[KeyOf[c]] = None
  <2> DEFINE k == KeyOf[c]
             g == Get(store, k, aged)
  <2>1. /\ StoreOK(g) /\ g.evicted = store.evicted
        /\ \A j \in Keys : g.entry[j] = IF j = k /\ store.entry[k] \in aged THEN None ELSE store.entry[j]
    BY <1>1, GetKeeps
  <2>2. Looked(c) = g
    BY <1>3 DEF Looked
  <2>3. QED BY <1>3, <2>1, <2>2
<1>4. QED BY <1>2, <1>3

\* What holds after any call came in: its key is neither reserved nor stored for it yet.
LEMMA ArrivalKeeps ==
  ASSUME KernelInv, KeyInv, NEW c \in Ops, NEW i \in Queues, Submit(c, i)
  PROVE  /\ via[c] = None /\ home[c] = None /\ adopts[c] = None /\ told[c] = "none"
         /\ via' = [via EXCEPT ![c] = i] /\ i \in 1..instance
         /\ ifRev' \in [Ops -> Nat \cup {None}]
         /\ \A o \in Ops : o # c => via'[o] = via[o] /\ ifRev'[o] = ifRev[o]
         /\ UNCHANGED <<instance, dead, aged, windows, unread, writes, disk>>
         /\ instance \notin dead
<1>1. Arrives(c, i)
  BY DEF Submit, SubmitMismatch, SubmitReplay, SubmitWait, SubmitRun
<1>2. /\ via[c] = None /\ via' = [via EXCEPT ![c] = i] /\ i \in 1..instance /\ i \notin dead
      /\ \E r \in Nat \cup {None} : ifRev' = [ifRev EXCEPT ![c] = r]
      /\ UNCHANGED <<instance, dead, aged, windows, unread, writes, disk>>
  <2>1. Len(writes) \in Nat
    BY DEF KernelInv, HistoryInv, HistoryTypeOK
  <2>2. 0..Rev \subseteq Nat
    BY <2>1 DEF Rev
  <2>3. QED BY <1>1, <2>2 DEF Arrives
<1>3. home[c] = None /\ adopts[c] = None /\ told[c] = "none"
  BY <1>2 DEF KernelInv, HistoryInv, CallsOK
<1>4. instance \notin dead
  BY <1>2 DEF KeyInv, DeadOK
<1>5. QED BY <1>2, <1>3, <1>4 DEF KeyInv, KeyTypes, KernelInv, HistoryInv, HistoryTypeOK

LEMMA SubmitKeepsStored ==
  ASSUME KernelInv, KeyInv, Settled, NEW c \in Ops, NEW i \in Queues, Submit(c, i)
  PROVE  /\ StoredOK'
         /\ \A j \in Keys : store'.entry[j] \in {None, store.entry[j]}
<1>1. via[c] = None /\ home[c] = None
  BY ArrivalKeeps
<1>2. \A h \in Ops : Replayable(h) => Replayable(h)'
  BY DEF Settled, Replayable, Returned
<1>3. /\ StoreOK(store')
      /\ \A j \in Keys : store'.entry[j] \in {None, store.entry[j]}
  <2>1. CASE Keyed(c) /\ store' = Looked(c)
    BY <2>1, LookedKeeps DEF KeyInv
  <2>2. CASE store' = store
    BY <2>2 DEF KeyInv, StoredOK
  <2>3. QED BY <2>1, <2>2 DEF Submit, SubmitMismatch, SubmitReplay, SubmitWait, SubmitRun
<1>4. \A k \in Keys : store.entry[k] # None => store.entry[k] \in Ops
  BY DEF KeyInv, StoredOK, StoreOK
<1>5. (\A k \in Keys : store.entry[k] # None =>
          KeyOf[store.entry[k]] = k /\ Replayable(store.entry[k]))'
  <2> SUFFICES ASSUME NEW k \in Keys, store'.entry[k] # None
               PROVE  (KeyOf[store.entry[k]] = k /\ Replayable(store.entry[k]))'
    OBVIOUS
  <2> DEFINE h == store.entry[k]
  <2>1. h \in Ops /\ h # None /\ store'.entry[k] = h
    BY <1>3, <1>4
  <2>2. KeyOf[h] = k /\ Replayable(h)
    BY <2>1 DEF KeyInv, StoredOK
  <2>3. home'[h] # None /\ (told'[h] \in Returned \/ (answer'[h] = "timeout" /\ h \in Wrote'))
    BY <1>2, <2>1, <2>2 DEF Replayable
  <2> HIDE DEF h
  <2>4. QED BY <2>1, <2>2, <2>3 DEF Replayable
<1>6. StoreOK(store)'
  BY <1>3 DEF StoreOK
<1>7. QED BY <1>3, <1>5, <1>6 DEF StoredOK

LEMMA SubmitKeeps ==
  ASSUME KernelInv, KeyInv, Settled, NEW c \in Ops, NEW i \in Queues, Submit(c, i)
  PROVE  KeyInv'
<1>1. /\ via[c] = None /\ home[c] = None /\ adopts[c] = None /\ told[c] = "none"
      /\ via' = [via EXCEPT ![c] = i] /\ i \in 1..instance
      /\ ifRev' \in [Ops -> Nat \cup {None}]
      /\ \A o \in Ops : o # c => via'[o] = via[o] /\ ifRev'[o] = ifRev[o]
      /\ UNCHANGED <<instance, dead, aged, windows, unread, writes, disk>>
      /\ instance \notin dead
  BY ArrivalKeeps
<1>2. StoredOK' /\ \A j \in Keys : store'.entry[j] \in {None, store.entry[j]}
  BY SubmitKeepsStored
<1>3. DeadOK'
  BY <1>1 DEF KeyInv, DeadOK
<1>4. via \in [Ops -> Queues \cup {None}] /\ i # None
  BY NoneAssumption DEF KernelInv, HistoryInv, HistoryTypeOK
<1>5. \A o \in Ops : home[o] # None => o # c
  BY <1>1
<1>6. CASE SubmitMismatch(c, i)
  <2>1. UNCHANGED <<home, phase, answer, reserved, adopts>> /\ told' = [told EXCEPT ![c] = "mismatch"]
    BY <1>6 DEF SubmitMismatch, qvars
  <2>2. KeyTypes'
    BY <1>1, <2>1 DEF KeyInv, KeyTypes
  <2>3. CallFacts'
    BY <1>1, <1>4, <2>1 DEF KeyInv, KeyTypes, CallFacts, Wrote
  <2>4. ReservedOK' /\ KeyInOneState'
    BY <1>1, <1>2, <2>1, NoneAssumption DEF KeyInv, KeyTypes, ReservedOK, KeyInOneState
  <2>5. AdoptsOK'
    BY <1>1, <2>1 DEF KeyInv, KeyTypes, AdoptsOK, Wrote
  <2>6. QED BY <1>2, <1>3, <2>2, <2>3, <2>4, <2>5 DEF KeyInv
<1>7. CASE SubmitReplay(c, i)
  <2> DEFINE k == KeyOf[c]
             h == store.entry[k]
  <2>1. /\ UNCHANGED <<home, phase, answer, reserved>> /\ k \in Keys /\ reserved[k] = None
        /\ Holder(k) # None /\ Same(c, Holder(k)) /\ adopts' = [adopts EXCEPT ![c] = Holder(k)]
        /\ told' = [told EXCEPT ![c] = Replayed(Holder(k))]
    BY <1>7, KernelAssumption DEF SubmitReplay, qvars, Keyed
  <2>2. Holder(k) = h /\ h # None
    BY <2>1 DEF Holder
  <2>3. h \in Ops /\ KeyOf[h] = k /\ Replayable(h)
    BY <2>1, <2>2 DEF KeyInv, StoredOK, StoreOK
  <2>4. adopts' = [adopts EXCEPT ![c] = h] /\ told' = [told EXCEPT ![c] = Replayed(h)] /\ Same(c, h)
    BY <2>1, <2>2
  <2>5. /\ home[h] # None /\ told[h] # "none" /\ Replayed(h) \in Returned
        /\ told[h] \in {"none", "lost", answer[h]}
        /\ Replayed(h) = "ok" => h \in Wrote
        /\ Replayed(h) = told[h] \/ told[h] \in {"timeout", "lost"}
    <3>1. home[h] # None /\ told[h] \in {"none", "lost", answer[h]}
      BY <2>3 DEF KeyInv, CallFacts, Replayable
    <3>2. told[h] # "none"
      BY <2>1, <2>3, <3>1, NoneAssumption, KernelAssumption DEF KeyInv, ReservedOK, Keyed
    <3>3. QED BY <2>3, <3>1, <3>2 DEF Replayed, Replayable, Returned, KeyInv, CallFacts
  <2> HIDE DEF k, h
  <2>6. KeyTypes'
    BY <1>1, <2>1, <2>3, <2>4, <2>5 DEF KeyInv, KeyTypes, Returned, Answers, Settlements
  <2>7. CallFacts'
    BY <1>1, <1>4, <2>1, <2>4, <2>5 DEF KeyInv, KeyTypes, CallFacts, Wrote, Returned
  <2>8. ReservedOK' /\ KeyInOneState'
    BY <1>1, <1>2, <2>1, <2>4, <2>5, NoneAssumption
       DEF KeyInv, KeyTypes, ReservedOK, KeyInOneState, Returned
  <2>9. AdoptsOK'
    <3>1. ReqOf[c] = ReqOf[h] /\ ifRev'[c] = ifRev'[h] /\ KeyOf[c] = KeyOf[h]
      BY <2>3, <2>4 DEF Same, k
    <3>2. adopts'[c] = h /\ told'[c] = Replayed(h) /\ told'[h] = told[h]
          /\ \A o \in Ops : o # c => adopts'[o] = adopts[o] /\ told'[o] = told[o]
      BY <1>1, <2>3, <2>4, <2>5 DEF KeyInv, KeyTypes
    <3>3. \A o \in Ops : o \in Wrote => o \in Wrote'
      BY DEF Settled
    <3>4. QED BY <1>1, <2>1, <2>3, <2>5, <3>1, <3>2, <3>3 DEF KeyInv, AdoptsOK
  <2>10. QED BY <1>2, <1>3, <2>6, <2>7, <2>8, <2>9 DEF KeyInv
<1>8. CASE SubmitWait(c, i)
  <2> DEFINE h == reserved[KeyOf[c]]
  <2>1. /\ UNCHANGED <<home, phase, answer, reserved, told>> /\ KeyOf[c] \in Keys
        /\ h # None /\ Same(c, h) /\ adopts' = [adopts EXCEPT ![c] = h]
    BY <1>8, KernelAssumption DEF SubmitWait, qvars, Keyed
  <2>2. h \in Ops /\ KeyOf[h] = KeyOf[c] /\ told[h] = "none" /\ home[h] # None
    BY <2>1 DEF KeyInv, ReservedOK
  <2> HIDE DEF h
  <2>3. KeyTypes'
    BY <1>1, <2>1, <2>2 DEF KeyInv, KeyTypes
  <2>4. CallFacts'
    BY <1>1, <1>4, <2>1, <2>2 DEF KeyInv, KeyTypes, CallFacts, Wrote
  <2>5. ReservedOK' /\ KeyInOneState'
    BY <1>1, <1>2, <2>1, NoneAssumption DEF KeyInv, KeyTypes, ReservedOK, KeyInOneState
  <2>6. AdoptsOK'
    <3>1. ReqOf[c] = ReqOf[h] /\ ifRev'[c] = ifRev'[h]
      BY <2>1 DEF Same
    <3>2. \A o \in Ops : o # c => adopts'[o] = adopts[o]
      BY <2>1 DEF KeyInv, KeyTypes
    <3>3. adopts'[c] = h
      BY <2>1 DEF KeyInv, KeyTypes
    <3>4. \A o \in Ops : o \in Wrote => o \in Wrote'
      BY DEF Settled
    <3>5. QED BY <1>1, <2>1, <2>2, <3>1, <3>2, <3>3, <3>4 DEF KeyInv, AdoptsOK
  <2>7. QED BY <1>2, <1>3, <2>3, <2>4, <2>5, <2>6 DEF KeyInv
<1>9. CASE SubmitRun(c, i)
  <2>1. Run(i, c) /\ UNCHANGED <<adopts, told>>
    BY <1>9 DEF SubmitRun
  <2>2. home' = [home EXCEPT ![c] = i] /\ home \in [Ops -> Queues \cup {None}]
    BY <2>1 DEF Run, RunAccepted, RunRefused, KernelInv, QueueInv, QueueTypeOK
  <2>3. KeyTypes'
    BY <1>1, <2>1 DEF KeyInv, KeyTypes
  <2>4. CallFacts'
    <3>1. ASSUME NEW o \in Ops PROVE
            /\ via'[o] # None => via'[o] \in 1..instance'
            /\ via'[o] # None /\ told'[o] = "none" => home'[o] # None \/ adopts'[o] # None
            /\ home'[o] # None => home'[o] = via'[o] /\ told'[o] \in {"none", "lost", answer'[o]}
            /\ home'[o] # None /\ told'[o] = "lost" => phase'[o] = "over"
            /\ told'[o] = "mismatch" => home'[o] = None
            /\ answer'[o] = "ok" => o \in Wrote'
      <4>1. CASE o = c
        BY <1>1, <1>4, <2>1, <2>2, <4>1 DEF Settled
      <4>2. CASE o # c
        BY <1>1, <1>4, <2>1, <2>2, <4>2 DEF KeyInv, CallFacts, Settled
      <4>3. QED BY <4>1, <4>2
    <3>2. QED BY <3>1 DEF CallFacts
  <2>5. ReservedOK' /\ KeyInOneState'
    <3>1. CASE ~Keyed(c)
      <4>1. reserved' = reserved /\ store' = store
        BY <1>9, <3>1 DEF SubmitRun
      <4>2. QED BY <1>1, <1>4, <2>1, <2>2, <3>1, <4>1, NoneAssumption
                DEF KeyInv, KeyTypes, ReservedOK, KeyInOneState, Keyed
    <3>2. CASE Keyed(c)
      <4> DEFINE k == KeyOf[c]
      <4>1. k \in Keys /\ Holder(k) = None /\ reserved' = [reserved EXCEPT ![k] = c] /\ store' = Looked(c)
        BY <1>9, <3>2, KernelAssumption DEF SubmitRun, Keyed
      <4>2. reserved[k] = None /\ (store.entry[k] \in aged \/ store.entry[k] = None)
        BY <4>1, NoneAssumption DEF Holder, KeyInv, KeyTypes
      <4>3. reserved'[k] = c /\ \A j \in Keys : j # k => reserved'[j] = reserved[j]
        BY <4>1 DEF KeyInv, ReservedOK
      <4>4. store'.entry[k] = None
        BY <3>2, <4>1, <4>2, LookedKeeps DEF KeyInv
      <4> HIDE DEF k
      <4>5. KeyInOneState'
        BY <1>1, <1>2, <4>3, <4>4 DEF KeyInv, KeyInOneState
      <4>6. reserved' \in [Keys -> Ops \cup {None}]
        BY <4>1 DEF KeyInv, ReservedOK
      <4>7. ASSUME NEW j \in Keys, reserved'[j] # None
            PROVE  KeyOf[reserved'[j]] = j /\ told'[reserved'[j]] = "none" /\ home'[reserved'[j]] # None
        <5>1. CASE j = k
          BY <1>1, <1>4, <2>1, <2>2, <4>3, <5>1 DEF k
        <5>2. CASE j # k
          <6>1. reserved'[j] = reserved[j] /\ reserved[j] \in Ops
            BY <4>3, <4>7, <5>2 DEF KeyInv, ReservedOK
          <6>2. QED BY <2>1, <4>7, <6>1 DEF KeyInv, ReservedOK, Settled
        <5>3. QED BY <5>1, <5>2
      <4>8. ASSUME NEW o \in Ops, Keyed(o), home'[o] # None, told'[o] = "none"
            PROVE  reserved'[KeyOf[o]] = o
        <5>1. CASE o = c
          BY <4>3, <5>1 DEF k
        <5>2. CASE o # c
          <6>1. home[o] # None /\ told[o] = "none" /\ KeyOf[o] \in Keys
            BY <2>1, <2>2, <4>8, <5>2, KernelAssumption DEF Keyed
          <6>2. reserved[KeyOf[o]] = o
            BY <4>8, <6>1 DEF KeyInv, ReservedOK
          <6>3. KeyOf[o] # k
            BY <4>2, <6>2, NoneAssumption
          <6>4. QED BY <4>3, <6>1, <6>2, <6>3
        <5>3. QED BY <5>1, <5>2
      <4>9. QED BY <4>5, <4>6, <4>7, <4>8 DEF ReservedOK, Keyed
    <3>3. QED BY <3>1, <3>2
  <2>6. AdoptsOK'
    <3>1. \A o \in Ops : o \in Wrote => o \in Wrote'
      BY DEF Settled
    <3>2. \A o \in Ops : home[o] # None => home'[o] # None
      BY <1>1, <2>2
    <3>3. QED BY <1>1, <2>1, <3>1, <3>2 DEF KeyInv, AdoptsOK
  <2>7. QED BY <1>2, <1>3, <2>3, <2>4, <2>5, <2>6 DEF KeyInv
<1>10. QED BY <1>6, <1>7, <1>8, <1>9 DEF Submit

LEMMA FinalizeKeeps ==
  ASSUME KernelInv, KeyInv, Settled, NEW c \in Ops, Finalize(c)
  PROVE  /\ KeyInv'
         /\ \A j \in Keys : \/ store'.entry[j] \in {None, store.entry[j]}
                            \/ store'.entry[j] = c /\ j = KeyOf[c]
<1>1. /\ answer[c] \notin {"none", "lost"} /\ told[c] = "none" /\ told' = [told EXCEPT ![c] = answer[c]]
      /\ UNCHANGED <<home, phase, answer, instance, dead, via, ifRev, writes, adopts, aged, windows, unread>>
  BY DEF Finalize, Finalized, qvars
<1>2. home[c] # None /\ via[c] # None /\ instance \notin dead
  BY <1>1 DEF KernelInv, QueueInv, OpOK, HistoryInv, CallsOK, KeyInv, DeadOK
<1>3. Keyed(c) => KeyOf[c] \in Keys /\ reserved[KeyOf[c]] = c
  BY <1>1, <1>2, KernelAssumption DEF KeyInv, ReservedOK, Keyed
<1>4. Keyed(c) => /\ reserved' = [reserved EXCEPT ![KeyOf[c]] = None]
                  /\ store' = IF answer[c] \in Returned THEN Put(store, KeyOf[c], c) ELSE store
  BY <1>3 DEF Finalize
<1>5. ~Keyed(c) => UNCHANGED <<reserved, store>>
  BY DEF Finalize
<1>6. KeyTypes'
  BY <1>1 DEF KeyInv, KeyTypes, KernelInv, QueueInv, QueueTypeOK
<1>7. CallFacts'
  <2>1. told'[c] = answer[c] /\ \A o \in Ops : o # c => told'[o] = told[o]
    BY <1>1 DEF KeyInv, KeyTypes
  <2>2. answer[c] # "mismatch"
    BY DEF KernelInv, QueueInv, QueueTypeOK, Answers, Settlements, Returned, Thrown
  <2>3. ASSUME NEW o \in Ops
        PROVE  /\ via'[o] # None => via'[o] \in 1..instance'
               /\ via'[o] # None /\ told'[o] = "none" => home'[o] # None \/ adopts'[o] # None
               /\ home'[o] # None => home'[o] = via'[o] /\ told'[o] \in {"none", "lost", answer'[o]}
               /\ home'[o] # None /\ told'[o] = "lost" => phase'[o] = "over"
               /\ told'[o] = "mismatch" => home'[o] = None
               /\ answer'[o] = "ok" => o \in Wrote'
    <3>1. CASE o = c
      BY <1>1, <1>2, <2>1, <2>2, <3>1 DEF KeyInv, CallFacts, Wrote
    <3>2. CASE o # c
      BY <1>1, <2>1, <3>2 DEF KeyInv, CallFacts, Wrote
    <3>3. QED BY <3>1, <3>2
  <2>4. QED BY <2>3 DEF CallFacts
<1>8. ReservedOK'
  <2>1. \A k \in Keys : reserved[k] = c => k = KeyOf[c]
    BY NoneAssumption DEF KeyInv, ReservedOK
  <2>2. reserved' \in [Keys -> Ops \cup {None}]
        /\ \A k \in Keys : reserved'[k] = IF reserved[k] = c THEN None ELSE reserved[k]
    <3>1. CASE Keyed(c)
      BY <1>3, <1>4, <2>1, <3>1 DEF KeyInv, ReservedOK
    <3>2. CASE ~Keyed(c)
      <4>1. \A k \in Keys : reserved[k] # c
        BY <2>1, <3>2, KernelAssumption DEF Keyed
      <4>2. QED BY <1>5, <3>2, <4>1 DEF KeyInv, ReservedOK
    <3>3. QED BY <3>1, <3>2
  <2>3. told'[c] # "none" /\ \A o \in Ops : o # c => told'[o] = told[o]
    BY <1>1 DEF KeyInv, KeyTypes
  <2>4. \A o \in Ops : Keyed(o) => KeyOf[o] \in Keys
    BY KernelAssumption DEF Keyed
  <2>5. \A k \in Keys : reserved'[k] # None => reserved'[k] = reserved[k] /\ reserved[k] \in Ops /\ reserved[k] # c
    BY <2>2 DEF KeyInv, ReservedOK
  <2>6. \A k \in Keys : reserved'[k] # None =>
          KeyOf[reserved'[k]] = k /\ told'[reserved'[k]] = "none" /\ home'[reserved'[k]] # None
    BY <1>1, <2>3, <2>5 DEF KeyInv, ReservedOK
  <2>7. \A o \in Ops : Keyed(o) /\ home'[o] # None /\ told'[o] = "none" => reserved'[KeyOf[o]] = o
    BY <1>1, <2>2, <2>3, <2>4 DEF KeyInv, ReservedOK
  <2>8. QED BY <2>2, <2>6, <2>7 DEF ReservedOK, Keyed
<1>9. /\ StoreOK(store')
      /\ \A j \in Keys : \/ store'.entry[j] \in {None, store.entry[j]}
                         \/ store'.entry[j] = c /\ j = KeyOf[c] /\ answer[c] \in Returned
  <2>1. CASE Keyed(c) /\ answer[c] \in Returned
    <3> DEFINE k == KeyOf[c]
               p == Put(store, k, c)
    <3>1. k \in Keys /\ StoreOK(store)
      BY <1>3, <2>1 DEF KeyInv, StoredOK
    <3>2. /\ StoreOK(p) /\ p.entry[k] = c
          /\ \A j \in Keys : j # k =>
               p.entry[j] = store.entry[j] \/ (p.entry[j] = None /\ j \in p.evicted)
      BY <3>1, PutKeeps
    <3>3. store' = p
      BY <1>4, <2>1
    <3> HIDE DEF p
    <3>4. QED BY <2>1, <3>2, <3>3
  <2>2. CASE ~(Keyed(c) /\ answer[c] \in Returned)
    BY <1>4, <1>5, <2>2 DEF KeyInv, StoredOK
  <2>3. QED BY <2>1, <2>2
<1>10. StoredOK'
  <2>1. ASSUME NEW k \in Keys, store'.entry[k] # None
        PROVE  (KeyOf[store.entry[k]] = k /\ Replayable(store.entry[k]))'
    <3>1. CASE store'.entry[k] = store.entry[k]
      <4> DEFINE h == store.entry[k]
      <4>1. h \in Ops /\ h # None /\ store'.entry[k] = h
        BY <2>1, <3>1 DEF KeyInv, StoredOK, StoreOK
      <4>2. KeyOf[h] = k /\ Replayable(h)
        BY <4>1 DEF KeyInv, StoredOK
      <4> HIDE DEF h
      <4>3. home'[h] # None /\ (told'[h] \in Returned \/ (answer'[h] = "timeout" /\ h \in Wrote'))
        BY <4>1, <4>2 DEF Replayable, Settled, Returned
      <4>4. QED BY <4>1, <4>2, <4>3 DEF Replayable
    <3>2. CASE store'.entry[k] = c /\ k = KeyOf[c] /\ answer[c] \in Returned
      <4>1. home'[c] # None /\ told'[c] \in Returned
        BY <1>1, <1>2, <3>2 DEF KeyInv, KeyTypes
      <4>2. QED BY <3>2, <4>1 DEF Replayable
    <3>3. QED BY <1>9, <2>1, <3>1, <3>2
  <2>2. StoreOK(store)'
    BY <1>9 DEF StoreOK
  <2>3. QED BY <2>1, <2>2 DEF StoredOK
<1>11. KeyInOneState'
  <2>1. \A k \in Keys : reserved'[k] # None => reserved[k] # None /\ (Keyed(c) => k # KeyOf[c])
    BY <1>3, <1>4, <1>5 DEF KeyInv, ReservedOK
  <2>2. \A k \in Keys : ~Keyed(c) => k # KeyOf[c]
    BY KernelAssumption DEF Keyed
  <2>3. QED BY <1>1, <1>9, <2>1, <2>2 DEF KeyInv, KeyInOneState
<1>12. AdoptsOK'
  <2>1. \A o \in Ops : adopts[o] # None => o # c
    BY <1>2 DEF KernelInv, HistoryInv, CallsOK
  <2>2. \A o \in Ops : told[o] # "none" => told'[o] = told[o]
    BY DEF Settled
  <2>3. \A o \in Ops : o # c => told'[o] = told[o]
    BY <1>1 DEF KeyInv, KeyTypes
  <2>4. \A o \in Ops : adopts[o] # None /\ told[o] \notin {"none", "lost"} => told[adopts[o]] # "none"
    BY DEF KeyInv, AdoptsOK
  <2>5. \A o \in Ops : o \in Wrote => o \in Wrote'
    BY DEF Settled
  <2>6. QED BY <1>1, <2>1, <2>2, <2>3, <2>4, <2>5 DEF KeyInv, AdoptsOK
<1>13. DeadOK'
  BY <1>1, <1>2 DEF KeyInv, DeadOK
<1>14. QED BY <1>6, <1>7, <1>8, <1>9, <1>10, <1>11, <1>12, <1>13 DEF KeyInv

LEMMA AdoptKeeps ==
  ASSUME KernelInv, KeyInv, Settled, NEW c \in Ops, Adopt(c)
  PROVE  KeyInv'
<1> DEFINE h == adopts[c]
<1>1. /\ h # None /\ told[c] = "none" /\ told[h] # "none" /\ told' = [told EXCEPT ![c] = told[h]]
      /\ UNCHANGED <<home, phase, answer, instance, dead, via, ifRev, writes, reserved, store,
                     adopts, aged, windows, unread>>
  BY DEF Adopt, Finalized, qvars
<1>2. /\ h \in Ops /\ home[h] # None /\ via[c] # None /\ home[c] = None /\ instance \notin dead
      /\ told[h] \in {"lost", answer[h]}
      /\ ReqOf[c] = ReqOf[h] /\ ifRev[c] = ifRev[h] /\ KeyOf[c] = KeyOf[h]
  BY <1>1 DEF KernelInv, HistoryInv, CallsOK, KeyInv, AdoptsOK, DeadOK, CallFacts
<1> HIDE DEF h
<1>3. KeyTypes'
  BY <1>1, <1>2 DEF KeyInv, KeyTypes
<1>4. CallFacts'
  BY <1>1, <1>2 DEF KeyInv, KeyTypes, CallFacts, Wrote
<1>5. ReservedOK' /\ KeyInOneState'
  BY <1>1, <1>2, NoneAssumption DEF KeyInv, KeyTypes, ReservedOK, KeyInOneState
<1>6. \A o \in Ops : Replayable(o) => Replayable(o)'
  BY DEF Settled, Replayable, Returned
<1>7. StoredOK'
  BY <1>1, <1>6 DEF KeyInv, StoredOK, StoreOK
<1>8. AdoptsOK'
  <2>1. told'[c] = told[h] /\ \A o \in Ops : o # c => told'[o] = told[o]
    BY <1>1 DEF KeyInv, KeyTypes
  <2>2. told'[h] = told[h] /\ adopts[c] = h /\ Wrote' = Wrote
    BY <1>1, <1>2 DEF Settled, Wrote, h
  <2>3. told[h] = "ok" => h \in Wrote
    BY <1>2 DEF KeyInv, CallFacts
  <2>4. \A o \in Ops : adopts[o] # None => home[adopts[o]] # None /\ adopts[o] # c
    BY <1>2 DEF KeyInv, AdoptsOK
  <2>5. ASSUME NEW o \in Ops, adopts'[o] # None
        PROVE  LET g == adopts'[o] IN
                 /\ g \in Ops /\ home'[g] # None
                 /\ ReqOf[o] = ReqOf[g] /\ ifRev'[o] = ifRev'[g] /\ KeyOf[o] = KeyOf[g]
                 /\ told'[o] \notin {"none", "lost"}
                      => /\ told'[o] = "ok" => g \in Wrote'
                         /\ told'[o] = told'[g] \/ told'[g] \in {"timeout", "lost"}
    <3>1. CASE o = c
      BY <1>1, <1>2, <2>1, <2>2, <2>3, <3>1
    <3>2. CASE o # c
      BY <1>1, <2>1, <2>2, <2>4, <2>5, <3>2 DEF KeyInv, AdoptsOK
    <3>3. QED BY <3>1, <3>2
  <2>6. QED BY <2>5 DEF AdoptsOK
<1>9. DeadOK'
  BY <1>1, <1>2 DEF KeyInv, DeadOK
<1>10. QED BY <1>3, <1>4, <1>5, <1>7, <1>8, <1>9 DEF KeyInv

LEMMA CrashKeeps ==
  ASSUME KernelInv, KeyInv, Settled, ProcessCrash
  PROVE  KeyInv'
<1>1. /\ home' = home /\ dead' = 1..instance /\ reserved' = [k \in Keys |-> None]
      /\ store' = Restarted(store) /\ tail' = [i \in Queues |-> <<>>]
      /\ told' = [c \in Ops |-> IF via[c] # None /\ told[c] = "none" THEN "lost" ELSE told[c]]
      /\ phase' = [o \in Ops |-> IF home[o] # None /\ phase[o] # "over" THEN "over" ELSE phase[o]]
      /\ UNCHANGED <<instance, via, ifRev, writes, adopts, aged, windows, unread>>
  BY DEF ProcessCrash, Crash, Finalized
<1>2. instance \in Nat /\ instance > 0
  BY KernelAssumption DEF KernelInv, HistoryInv, HistoryTypeOK
<1>3. \A o \in Ops : home[o] # None => via[o] # None
  BY DEF KernelInv, HistoryInv, CallsOK
<1>4. \A o \in Ops : told[o] # "none" => told'[o] = told[o]
  BY DEF Settled
<1>5. KeyTypes'
  BY <1>1 DEF KeyInv, KeyTypes, Answers
<1>6. CallFacts'
  BY <1>1, <1>3 DEF KeyInv, KeyTypes, CallFacts, Settled
<1>7. ReservedOK' /\ KeyInOneState'
  BY <1>1, <1>3 DEF KeyInv, KeyTypes, ReservedOK, KeyInOneState
<1>8. StoredOK'
  <2>1. store.evicted \subseteq Keys
    BY DEF KeyInv, StoredOK, StoreOK
  <2>2. store' = [entry |-> [k \in Keys |-> None], recent |-> <<>>, evicted |-> store.evicted]
    BY <1>1 DEF Restarted, EmptyStore
  <2>3. StoreOK(store)' /\ \A k \in Keys : store'.entry[k] = None
    BY <2>1, <2>2, KernelAssumption DEF StoreOK, NoRepeats
  <2>4. QED BY <2>3 DEF StoredOK
<1>9. AdoptsOK'
  <2>1. \A o \in Ops : told'[o] \notin {"none", "lost"} => told[o] = told'[o]
    BY <1>1
  <2>2. \A o \in Ops : adopts[o] # None /\ told[o] \notin {"none", "lost"} => told[adopts[o]] # "none"
    BY DEF KeyInv, AdoptsOK
  <2>3. Wrote' = Wrote
    BY <1>1 DEF Wrote
  <2>4. QED BY <1>1, <1>4, <2>1, <2>2, <2>3 DEF KeyInv, AdoptsOK
<1>10. DeadOK'
  BY <1>1, <1>2 DEF DeadOK, Restarted, EmptyStore
<1>11. QED BY <1>5, <1>6, <1>7, <1>8, <1>9, <1>10 DEF KeyInv

LEMMA RecordFields ==
  /\ \A r \in Records : r.by \in Ops /\ r.outcome \in JournalOutcomes /\ r.of \in Ops
  /\ \A c, h \in Ops : \A v \in JournalOutcomes :
       /\ Record(c, v, h) \in Records /\ Record(c, v, h).by = c
       /\ Record(c, v, h).outcome = v /\ Record(c, v, h).of = h
BY DEF Records, Record

\* A call that the journal says is done may be replayed.
LEMMA DoneIsReplayable ==
  ASSUME KernelInv, KeyInv, RecordsOK
  PROVE  /\ DoneCalls \in Seq(Ops \cup {None}) /\ Len(DoneCalls) = Len(disk)
         /\ \A n \in 1..Len(DoneCalls) :
              DoneCalls[n] = IF SaysDone(disk[n]) THEN disk[n].by ELSE None
         /\ \A n \in 1..Len(DoneCalls) : DoneCalls[n] # None =>
              DoneCalls[n] \in Ops /\ Keyed(DoneCalls[n]) /\ Replayable(DoneCalls[n])
<1>1. disk \in Seq(Records) /\ Len(disk) \in Nat
  BY DEF RecordsOK
<1>2. \A n \in 1..Len(disk) : disk[n] \in Records /\ disk[n].by \in Ops
  BY <1>1, RecordFields
<1>3. DoneCalls \in Seq(Ops \cup {None}) /\ Len(DoneCalls) = Len(disk)
  BY <1>1, <1>2 DEF DoneCalls
<1>4. \A n \in 1..Len(DoneCalls) : DoneCalls[n] = IF SaysDone(disk[n]) THEN disk[n].by ELSE None
  BY <1>3 DEF DoneCalls
<1>5. \A n \in 1..Len(disk) : RecordFits(0, disk[n])
  <2> SUFFICES ASSUME NEW n \in 1..Len(disk) PROVE RecordFits(0, disk[n])
    OBVIOUS
  <2>1. <<0, n>> \in {0} \X (1..Len(disk))
    OBVIOUS
  <2>2. <<0, n>> \in Places /\ RecordAt(<<0, n>>) = disk[n]
    BY <2>1 DEF Places, JournalOf, RecordAt
  <2>3. QED BY <2>2 DEF RecordsOK
<1>6. ASSUME NEW n \in 1..Len(disk), SaysDone(disk[n]) PROVE Replayable(disk[n].by)
  <2>1. RecordFits(0, disk[n]) /\ disk[n].by \in Ops
    BY <1>2, <1>5
  <2>2. CASE disk[n].outcome = "late-ok"
    <3>1. answer[disk[n].by] = "timeout" /\ disk[n].by \in Wrote
      BY <2>1, <2>2 DEF RecordFits, IsLate
    <3>2. home[disk[n].by] # None
      BY <2>1, <3>1 DEF KernelInv, QueueInv, OpOK
    <3>3. QED BY <3>1, <3>2 DEF Replayable
  <2>3. CASE disk[n].outcome \in Returned
    BY <2>1, <2>3 DEF RecordFits, IsLate, Replayable, Returned
  <2>4. QED BY <1>6, <2>2, <2>3 DEF SaysDone
<1>7. QED BY <1>2, <1>3, <1>4, <1>6, NoneAssumption DEF SaysDone

\* A load that reads the journal.
LEMMA SeededKeeps ==
  ASSUME KernelInv, KeyInv, RecordsOK, Settled, Load, unread' = unread,
         store' = Seed(store, DoneCalls, KeyOf, {k \in Keys : reserved[k] # None}, aged)
  PROVE  /\ KeyInv'
         /\ \A j \in Keys :
              \/ store'.entry[j] \in {None, store.entry[j]}
              \/ \E n \in 1..Len(disk) : SaysDone(disk[n]) /\ store'.entry[j] = disk[n].by
         /\ store.evicted \subseteq store'.evicted
         /\ \A j \in Keys : store.entry[j] \notin aged \cup {None} => Stands(store', j, aged)
         /\ \A n \in 1..Len(disk) :
              SaysDone(disk[n]) /\ disk[n].by \notin aged /\ reserved[KeyOf[disk[n].by]] = None
                => Stands(store', KeyOf[disk[n].by], aged)
<1> DEFINE busy == {k \in Keys : reserved[k] # None}
<1>1. /\ UNCHANGED <<home, phase, answer, dead, via, ifRev, writes, reserved, adopts, told, aged,
                     windows, unread>>
      /\ instance' = instance + 1 /\ instance + 1 \in Queues
      /\ store' = Seed(store, DoneCalls, KeyOf, busy, aged)
  BY DEF Load, qvars
<1>2. instance \in Nat /\ instance > 0
  BY KernelAssumption DEF KernelInv, HistoryInv, HistoryTypeOK
<1>3. /\ DoneCalls \in Seq(Ops \cup {None}) /\ Len(DoneCalls) = Len(disk)
      /\ \A n \in 1..Len(DoneCalls) : DoneCalls[n] = IF SaysDone(disk[n]) THEN disk[n].by ELSE None
      /\ \A n \in 1..Len(DoneCalls) : DoneCalls[n] # None =>
           DoneCalls[n] \in Ops /\ Keyed(DoneCalls[n]) /\ Replayable(DoneCalls[n])
  BY DoneIsReplayable
<1> HIDE DEF busy
<1>4. /\ StoreOK(store') /\ store.evicted \subseteq store'.evicted
      /\ \A j \in Keys :
           \/ store'.entry[j] \in {None, store.entry[j]}
           \/ j \notin busy /\ \E n \in 1..Len(DoneCalls) :
                store'.entry[j] = DoneCalls[n] /\ DoneCalls[n] # None /\ j = KeyOf[DoneCalls[n]]
      /\ \A j \in Keys : store.entry[j] \notin aged \cup {None} => Stands(store', j, aged)
      /\ \A n \in 1..Len(DoneCalls) :
           DoneCalls[n] # None /\ KeyOf[DoneCalls[n]] \notin busy /\ DoneCalls[n] \notin aged
             => Stands(store', KeyOf[DoneCalls[n]], aged)
  <2> DEFINE st2 == Seed(store, DoneCalls, KeyOf, busy, aged)
  <2>1. StoreOK(store) /\ \A n \in 1..Len(DoneCalls) : DoneCalls[n] # None => Keyed(DoneCalls[n])
    BY <1>3 DEF KeyInv, StoredOK
  <2>2. /\ StoreOK(st2) /\ store.evicted \subseteq st2.evicted
        /\ \A j \in Keys :
             \/ st2.entry[j] \in {None, store.entry[j]}
             \/ j \notin busy /\ \E n \in 1..Len(DoneCalls) :
                  st2.entry[j] = DoneCalls[n] /\ DoneCalls[n] # None /\ j = KeyOf[DoneCalls[n]]
        /\ \A j \in Keys : store.entry[j] \notin aged \cup {None} => Stands(st2, j, aged)
        /\ \A n \in 1..Len(DoneCalls) :
             DoneCalls[n] # None /\ KeyOf[DoneCalls[n]] \notin busy /\ DoneCalls[n] \notin aged
               => Stands(st2, KeyOf[DoneCalls[n]], aged)
    BY <1>3, <2>1, SeedKeeps
  <2>3. store' = st2
    BY <1>1
  <2> HIDE DEF st2
  <2>4. QED BY <2>2, <2>3
<1>5. KeyTypes' /\ ReservedOK' /\ AdoptsOK'
  BY <1>1 DEF KeyInv, KeyTypes, ReservedOK, AdoptsOK, Wrote
<1>6. CallFacts'
  BY <1>1, <1>2 DEF KeyInv, CallFacts, Wrote
<1>7. KeyInOneState'
  BY <1>1, <1>4 DEF KeyInv, KeyInOneState, busy
<1>8. DeadOK'
  BY <1>1, <1>2 DEF KeyInv, DeadOK
<1>9. StoredOK'
  <2>1. ASSUME NEW k \in Keys, store'.entry[k] # None
        PROVE  (KeyOf[store.entry[k]] = k /\ Replayable(store.entry[k]))'
    <3> DEFINE h == store'.entry[k]
    <3>1. h \in Ops /\ KeyOf[h] = k /\ Replayable(h)
      <4>1. CASE h = store.entry[k]
        BY <2>1, <4>1 DEF KeyInv, StoredOK, StoreOK
      <4>2. CASE \E n \in 1..Len(DoneCalls) : h = DoneCalls[n] /\ DoneCalls[n] # None /\ k = KeyOf[DoneCalls[n]]
        BY <1>3, <4>2
      <4>3. QED BY <1>4, <2>1, <4>1, <4>2
    <3> HIDE DEF h
    <3>2. home'[h] # None /\ (told'[h] \in Returned \/ (answer'[h] = "timeout" /\ h \in Wrote'))
      BY <1>1, <3>1 DEF Replayable, Wrote
    <3>3. QED BY <3>1, <3>2 DEF Replayable, h
  <2>2. StoreOK(store)'
    BY <1>4 DEF StoreOK
  <2>3. QED BY <2>1, <2>2 DEF StoredOK
<1>10. KeyInv'
  BY <1>5, <1>6, <1>7, <1>8, <1>9 DEF KeyInv
<1>11. \A n \in 1..Len(disk) : SaysDone(disk[n]) => DoneCalls[n] = disk[n].by /\ DoneCalls[n] # None
  <2>1. \A n \in 1..Len(disk) : disk[n].by \in Ops
    BY RecordFields DEF RecordsOK
  <2>2. QED BY <1>3, <2>1, NoneAssumption
<1>12. \A j \in Keys :
         \/ store'.entry[j] \in {None, store.entry[j]}
         \/ \E n \in 1..Len(disk) : SaysDone(disk[n]) /\ store'.entry[j] = disk[n].by
  BY <1>3, <1>4
<1>13. \A n \in 1..Len(disk) :
         SaysDone(disk[n]) /\ disk[n].by \notin aged /\ reserved[KeyOf[disk[n].by]] = None
           => Stands(store', KeyOf[disk[n].by], aged)
  BY <1>3, <1>4, <1>11 DEF busy
<1>14. QED BY <1>4, <1>10, <1>12, <1>13

\* A load that cannot read it: what only the journal could give back is unread.
LEMMA UnseededKeeps ==
  ASSUME KernelInv, KeyInv, RecordsOK, Settled, Load, store' = store, unread' = unread \cup OnlyOnDisk
  PROVE  /\ KeyInv'
         /\ \A n \in 1..Len(disk) :
              SaysDone(disk[n]) /\ disk[n].by \notin aged /\ disk[n].by \notin unread'
                => Stands(store', KeyOf[disk[n].by], aged)
<1>1. /\ UNCHANGED <<home, phase, answer, dead, via, ifRev, writes, reserved, store, adopts, told,
                     aged, windows>>
      /\ instance' = instance + 1 /\ instance + 1 \in Queues
  BY DEF Load, qvars
<1>2. instance \in Nat /\ instance > 0
  BY KernelAssumption DEF KernelInv, HistoryInv, HistoryTypeOK
<1>3. unread' \in SUBSET Ops
  BY DEF OnlyOnDisk, KeyInv, KeyTypes
<1>4. KeyTypes' /\ ReservedOK' /\ AdoptsOK' /\ KeyInOneState'
  BY <1>1, <1>3 DEF KeyInv, KeyTypes, ReservedOK, AdoptsOK, KeyInOneState, Wrote
<1>5. CallFacts' /\ DeadOK'
  BY <1>1, <1>2 DEF KeyInv, CallFacts, DeadOK, Wrote
<1>6. StoredOK'
  BY <1>1 DEF KeyInv, StoredOK, StoreOK, Replayable, Wrote
<1>7. ASSUME NEW n \in 1..Len(disk), SaysDone(disk[n]), disk[n].by \notin aged,
             disk[n].by \notin unread'
      PROVE  Stands(store', KeyOf[disk[n].by], aged)
  <2> DEFINE c == disk[n].by
  <2>1. c \in Ops /\ c # None
    BY RecordFields, NoneAssumption DEF RecordsOK
  <2>2. n \in 1..Len(DoneCalls) /\ DoneCalls[n] = c
    BY <1>7, DoneIsReplayable
  <2>3. store.entry[KeyOf[c]] = c
    BY <1>7, <2>1, <2>2 DEF OnlyOnDisk
  <2>4. QED BY <1>1, <1>7, <2>1, <2>3 DEF Stands
<1>8. QED BY <1>4, <1>5, <1>6, <1>7 DEF KeyInv

LEMMA LoadKeeps ==
  ASSUME KernelInv, KeyInv, RecordsOK, Settled, Load
  PROVE  /\ KeyInv'
         /\ \A j \in Keys :
              \/ store'.entry[j] \in {None, store.entry[j]}
              \/ \E n \in 1..Len(disk) : SaysDone(disk[n]) /\ store'.entry[j] = disk[n].by
         /\ store.evicted \subseteq store'.evicted /\ unread \subseteq unread'
         /\ \A j \in Keys : store.entry[j] \notin aged \cup {None} => Stands(store', j, aged)
         /\ \A n \in 1..Len(disk) :
              SaysDone(disk[n]) /\ disk[n].by \notin aged \cup unread'
                /\ reserved[KeyOf[disk[n].by]] = None
                => Stands(store', KeyOf[disk[n].by], aged)
<1>1. CASE unread' = unread
             /\ store' = Seed(store, DoneCalls, KeyOf, {k \in Keys : reserved[k] # None}, aged)
  BY <1>1, SeededKeeps
<1>2. CASE store' = store /\ unread' = unread \cup OnlyOnDisk
  BY <1>2, UnseededKeeps DEF Stands
<1>3. QED BY <1>1, <1>2 DEF Load

LEMMA KeyStep ==
  ASSUME KernelInv, KeyInv, RecordsOK, Settled, [KernelNext]_vars
  PROVE  KeyInv'
<1>1. ASSUME NEW c \in Ops, CallStep(c) PROVE KeyInv'
  BY <1>1, SubmitKeeps, QueueWorkKeeps, FinalizeKeeps, AdoptKeeps DEF CallStep
<1>2. ASSUME NEW i \in Queues, Flush(i) \/ QueueTick(i) PROVE KeyInv'
  BY <1>2, QueueWorkKeeps
<1>3. CASE OtherCall \/ Unload \/ WindowPasses \/ UNCHANGED vars
  BY <1>3, QueueWorkKeeps
<1>4. CASE ProcessCrash \/ Load
  BY <1>4, CrashKeeps, LoadKeeps
<1>5. QED BY <1>1, <1>2, <1>3, <1>4 DEF KernelNext

LEMMA InitKeyInv == KernelInit => KeyInv
<1> SUFFICES ASSUME KernelInit PROVE KeyInv
  OBVIOUS
<1> USE NoneAssumption, KernelAssumption DEF KernelInit, QueueInit
<1>1. KeyTypes /\ CallFacts /\ AdoptsOK /\ DeadOK
  BY DEF KeyTypes, CallFacts, AdoptsOK, DeadOK, Answers, EmptyStore
<1>2. ReservedOK /\ KeyInOneState
  BY DEF ReservedOK, KeyInOneState
<1>3. StoredOK
  BY DEF StoredOK, StoreOK, NoRepeats, EmptyStore
<1>4. QED BY <1>1, <1>2, <1>3 DEF KeyInv

-----------------------------------------------------------------------------
(***************************************************************************)
(* The journal.  A step leaves it alone, adds one record to the list of an *)
(* instance, moves the oldest record of such a list to the file (or loses  *)
(* it), or, in a crash, empties the lists.                                 *)
(***************************************************************************)
LEMMA PlaceFacts ==
  ASSUME RecordsOK
  PROVE  /\ \A n \in 1..Len(disk) : <<0, n>> \in Places /\ RecordAt(<<0, n>>) = disk[n] /\ disk[n] \in Records
         /\ \A i \in Queues : \A n \in 1..Len(tail[i]) :
              <<i, n>> \in Places /\ RecordAt(<<i, n>>) = tail[i][n] /\ tail[i][n] \in Records
         /\ \A p \in Places :
              \/ \E n \in 1..Len(disk) : p = <<0, n>>
              \/ \E i \in Queues : \E n \in 1..Len(tail[i]) : p = <<i, n>>
         /\ 0 \notin Queues /\ \A i \in Queues : tail[i] \in Seq(Records)
<1>1. 0 \notin Queues /\ disk \in Seq(Records) /\ \A i \in Queues : tail[i] \in Seq(Records)
  BY KernelAssumption DEF RecordsOK
<1>2. \A n \in 1..Len(disk) : <<0, n>> \in Places /\ RecordAt(<<0, n>>) = disk[n]
  BY DEF Places, JournalOf, RecordAt
<1>3. ASSUME NEW i \in Queues, NEW n \in 1..Len(tail[i])
      PROVE  <<i, n>> \in Places /\ RecordAt(<<i, n>>) = tail[i][n]
  <2>1. i \in {0} \cup Queues /\ JournalOf(i) = tail[i]
    BY <1>1 DEF JournalOf
  <2>2. <<i, n>> \in {i} \X (1..Len(JournalOf(i)))
    BY <2>1
  <2>3. QED BY <2>1, <2>2 DEF Places, RecordAt
<1>4. ASSUME NEW p \in Places
      PROVE  \/ \E n \in 1..Len(disk) : p = <<0, n>>
             \/ \E i \in Queues : \E n \in 1..Len(tail[i]) : p = <<i, n>>
  <2>1. PICK i \in {0} \cup Queues : p \in {i} \X (1..Len(JournalOf(i)))
    BY DEF Places
  <2>2. PICK n \in 1..Len(JournalOf(i)) : p = <<i, n>>
    BY <2>1
  <2>3. CASE i = 0
    BY <2>2, <2>3 DEF JournalOf
  <2>4. CASE i # 0
    BY <2>2, <2>4 DEF JournalOf
  <2>5. QED BY <2>3, <2>4
<1>5. QED BY <1>1, <1>2, <1>3, <1>4

\* What a record says stays true.
LEMMA RecordsLast ==
  ASSUME KernelInv, Settled, NEW i \in {0} \cup Queues, NEW r, RecordFits(i, r)
  PROVE  RecordFits(i, r)' /\ RecordFits(0, r)'
<1>1. r.by \in Ops /\ r.of \in Ops
  BY RecordFields DEF RecordFits
<1>2. i # 0 => via'[r.by] = i
  BY <1>1, NoneAssumption DEF RecordFits, Settled
<1>3. IsLate(r) => answer'[r.by] = "timeout" /\ phase'[r.by] = "over"
                   /\ (r.outcome = "late-ok" => r.by \in Wrote')
  BY <1>1 DEF RecordFits, Settled
<1>4. ~IsLate(r) => /\ told'[r.by] # "none"
                    /\ r.outcome = "deduped" => adopts'[r.by] = r.of
                    /\ r.outcome \notin {"mismatch", "deduped"} => home'[r.by] # None /\ told'[r.by] = r.outcome
  BY <1>1, NoneAssumption DEF RecordFits, Settled
<1>5. r \in Records
  BY DEF RecordFits
<1>6. QED BY <1>2, <1>3, <1>4, <1>5 DEF RecordFits, IsLate

\* The calls named by a deduped record came in, so where they came in is settled.
LEMMA DedupedCameIn ==
  ASSUME KernelInv, KeyInv, Settled, NEW i, NEW r, RecordFits(i, r), r.outcome = "deduped"
  PROVE  /\ r.by \in Ops /\ r.of \in Ops /\ home[r.of] # None
         /\ via'[r.by] = via[r.by] /\ via'[r.of] = via[r.of]
<1>1. r.by \in Ops /\ r.of \in Ops /\ ~IsLate(r)
  BY RecordFields DEF RecordFits, IsLate
<1>2. adopts[r.by] = r.of /\ told[r.by] # "none"
  BY <1>1 DEF RecordFits
<1>3. home[r.of] # None /\ via[r.of] # None /\ via[r.by] # None
  BY <1>1, <1>2, NoneAssumption DEF KeyInv, AdoptsOK, KernelInv, HistoryInv, CallsOK
<1>4. QED BY <1>1, <1>3 DEF Settled

LEMMA StillKeeps ==
  ASSUME KernelInv, KeyInv, JournalInv, Settled, UNCHANGED <<tail, disk, told>>,
         ~JournalFails => \A k \in Keys : store'.entry[k] # None => Noted(store'.entry[k]),
         \A c \in Ops : adopts'[c] # adopts[c] => told[adopts'[c]] = "none"
  PROVE  JournalInv'
<1>1. RecordsOK /\ OneRecordPerCall /\ FollowsOK /\ DedupeFollows
  BY DEF JournalInv
<1>2. Places' = Places /\ \A p : RecordAt(p)' = RecordAt(p)
  BY DEF Places, JournalOf, RecordAt
<1>3. RecordsOK'
  <2>1. ASSUME NEW p \in Places PROVE RecordFits(p[1], RecordAt(p))'
    <3>1. PICK i, r : i = p[1] /\ r = RecordAt(p)
      OBVIOUS
    <3>2. i \in {0} \cup Queues /\ RecordFits(i, r)
      BY <1>1, <3>1, PlaceFacts DEF RecordsOK
    <3>3. RecordFits(i, r)'
      BY <3>2, RecordsLast
    <3>4. RecordAt(p)' = r
      BY <1>2, <3>1
    <3>5. QED BY <3>1, <3>3, <3>4
  <2>2. QED BY <1>1, <1>2, <2>1 DEF RecordsOK
<1>4. OneRecordPerCall'
  BY <1>1, <1>2 DEF OneRecordPerCall, PlacesOf, Settled, IsLate
<1>5. \A c : Noted(c) => Noted(c)'
  BY <1>2 DEF Noted
<1>6. FollowsOK'
  <2> SUFFICES ASSUME ~JournalFails PROVE FollowsOK'
    BY DEF FollowsOK
  <2>1. \A k \in Keys : store'.entry[k] # None => Noted(store'.entry[k])
    OBVIOUS
  <2>2. (\A k \in Keys : store.entry[k] # None => Noted(store.entry[k]))'
    BY <2>1, <1>2 DEF Noted
  <2>3. (\A c \in Ops : adopts[c] # None /\ told[c] = "none" /\ told[adopts[c]] # "none" => Noted(adopts[c]))'
    <3>1. \A c \in Ops : adopts'[c] # None /\ told[c] = "none" /\ told[adopts'[c]] # "none"
                         => adopts'[c] = adopts[c] /\ Noted(adopts[c])
      BY <1>1 DEF FollowsOK
    <3>2. QED BY <1>2, <3>1 DEF Noted
  <2>4. ASSUME NEW i \in Queues PROVE TailFollows(i)'
    <3> SUFFICES ASSUME NEW n \in 1..Len(tail[i]), tail[i][n].outcome = "deduped",
                        via'[tail[i][n].by] = via'[tail[i][n].of]
                 PROVE  \/ \E m \in 1..(n - 1) : tail[i][m].by = tail[i][n].of
                        \/ \E m \in 1..Len(disk) : disk[m].by = tail[i][n].of
      BY DEF TailFollows
    <3>1. RecordFits(i, tail[i][n])
      <4>1. <<i, n>> \in Places /\ RecordAt(<<i, n>>) = tail[i][n]
        BY <1>1, PlaceFacts
      <4>2. QED BY <1>1, <4>1 DEF RecordsOK
    <3>2. QED BY <1>1, <3>1, DedupedCameIn DEF FollowsOK, TailFollows
  <2>5. QED BY <2>2, <2>3, <2>4 DEF FollowsOK
<1>7. DedupeFollows'
  <2> SUFFICES ASSUME NEW n \in 1..Len(disk), disk[n].outcome = "deduped",
                      via'[disk[n].by] = via'[disk[n].of], ~JournalFails
               PROVE  \E m \in 1..(n - 1) : disk[m].by = disk[n].of
    BY DEF DedupeFollows
  <2>1. RecordFits(0, disk[n])
    <3>1. <<0, n>> \in Places /\ RecordAt(<<0, n>>) = disk[n]
      BY <1>1, PlaceFacts
    <3>2. QED BY <1>1, <3>1 DEF RecordsOK
  <2>2. QED BY <1>1, <2>1, DedupedCameIn DEF DedupeFollows
<1>8. QED BY <1>3, <1>4, <1>6, <1>7 DEF JournalInv

LEMMA InPlaces ==
  \A p : p \in Places <=> \E j \in {0} \cup Queues : \E n \in 1..Len(JournalOf(j)) : p = <<j, n>>
<1>1. ASSUME NEW p \in Places
      PROVE  \E j \in {0} \cup Queues : \E n \in 1..Len(JournalOf(j)) : p = <<j, n>>
  <2>1. PICK j \in {0} \cup Queues : p \in {j} \X (1..Len(JournalOf(j)))
    BY DEF Places
  <2>2. QED BY <2>1
<1>2. ASSUME NEW j \in {0} \cup Queues, NEW n \in 1..Len(JournalOf(j))
      PROVE  <<j, n>> \in Places
  <2>1. <<j, n>> \in {j} \X (1..Len(JournalOf(j)))
    OBVIOUS
  <2>2. QED BY <2>1 DEF Places
<1>3. QED BY <1>1, <1>2

LEMMA InPlacesAfter ==
  (\A p : p \in Places <=> \E j \in {0} \cup Queues : \E n \in 1..Len(JournalOf(j)) : p = <<j, n>>)'
BY InPlaces, PTL

LEMMA AddedPlace ==
  ASSUME RecordsOK, NEW i \in Queues, NEW r \in Records,
         tail' = [tail EXCEPT ![i] = Append(@, r)], disk' = disk
  PROVE  /\ disk' \in Seq(Records) /\ tail' \in [Queues -> Seq(Records)]
         /\ \E z : /\ z \in Places' /\ z \notin Places /\ z[1] = i /\ RecordAt(z)' = r
                   /\ Places' = Places \cup {z}
         /\ \A p \in Places : RecordAt(p)' = RecordAt(p)
<1>1. /\ tail \in [Queues -> Seq(Records)] /\ disk \in Seq(Records) /\ 0 \notin Queues
      /\ \A p \in Places :
           \/ \E n \in 1..Len(disk) : p = <<0, n>>
           \/ \E j \in Queues : \E n \in 1..Len(tail[j]) : p = <<j, n>>
  BY PlaceFacts DEF RecordsOK
<1> DEFINE s == tail[i]
<1>0. PICK z : z = <<i, Len(s) + 1>>
  OBVIOUS
<1>2. /\ s \in Seq(Records) /\ Len(s) \in Nat /\ tail'[i] = Append(s, r)
      /\ \A j \in Queues : j # i => tail'[j] = tail[j]
  BY <1>1
<1>3. /\ Append(s, r) \in Seq(Records) /\ Len(Append(s, r)) = Len(s) + 1 /\ Append(s, r)[Len(s) + 1] = r
      /\ \A n \in 1..Len(s) : Append(s, r)[n] = s[n]
  BY <1>2
<1>4. disk' \in Seq(Records) /\ tail' \in [Queues -> Seq(Records)]
  BY <1>1, <1>3
<1>5. RecordsOK => \A p \in Places : RecordAt(p)' = RecordAt(p)
  <2>1. ASSUME NEW j \in Queues, NEW n \in 1..Len(tail[j]) PROVE RecordAt(<<j, n>>)' = RecordAt(<<j, n>>)
    <3>1. RecordAt(<<j, n>>)' = tail'[j][n] /\ RecordAt(<<j, n>>) = tail[j][n]
      BY <1>1 DEF RecordAt, JournalOf
    <3>2. CASE j = i
      BY <1>2, <1>3, <2>1, <3>1, <3>2
    <3>3. CASE j # i
      BY <1>2, <3>1, <3>3
    <3>4. QED BY <3>2, <3>3
  <2>2. ASSUME NEW n \in 1..Len(disk) PROVE RecordAt(<<0, n>>)' = RecordAt(<<0, n>>)
    BY DEF RecordAt, JournalOf
  <2>3. QED BY <1>1, <2>1, <2>2
<1> DEFINE After(j) == IF j = 0 THEN disk' ELSE tail'[j]
<1>6. \A j \in {0} \cup Queues : j # i => After(j) = JournalOf(j)
  BY <1>2 DEF JournalOf
<1>7. After(i) = Append(s, r) /\ JournalOf(i) = s
  BY <1>1, <1>2 DEF JournalOf
<1>8. \A p : p \in Places <=> \E j \in {0} \cup Queues : \E n \in 1..Len(JournalOf(j)) : p = <<j, n>>
  BY InPlaces
<1>9. \A p : p \in Places' <=> \E j \in {0} \cup Queues : \E n \in 1..Len(After(j)) : p = <<j, n>>
  <2>1. (\A p : p \in Places <=> \E j \in {0} \cup Queues : \E n \in 1..Len(JournalOf(j)) : p = <<j, n>>)'
    BY InPlacesAfter
  <2>2. QED BY <2>1 DEF JournalOf
<1> HIDE DEF After
<1>10. \A n : n \in 1..Len(Append(s, r)) <=> n \in 1..Len(s) \/ n = Len(s) + 1
  BY <1>2, <1>3
<1>11. z \notin Places
  <2>1. Len(s) + 1 \notin 1..Len(s)
    BY <1>2
  <2>2. QED BY <1>0, <1>7, <1>8, <2>1
<1>12. Places' = Places \cup {z}
  <2>1. ASSUME NEW p \in Places' PROVE p \in Places \cup {z}
    <3>1. PICK j \in {0} \cup Queues : \E n \in 1..Len(After(j)) : p = <<j, n>>
      BY <1>9, <2>1
    <3>2. CASE j = i
      BY <1>0, <1>7, <1>8, <1>10, <3>1, <3>2
    <3>3. CASE j # i
      BY <1>6, <1>8, <3>1, <3>3
    <3>4. QED BY <3>2, <3>3
  <2>2. ASSUME NEW p \in Places PROVE p \in Places'
    <3>1. PICK j \in {0} \cup Queues : \E n \in 1..Len(JournalOf(j)) : p = <<j, n>>
      BY <1>8, <2>2
    <3>2. CASE j = i
      BY <1>7, <1>9, <1>10, <3>1, <3>2
    <3>3. CASE j # i
      BY <1>6, <1>9, <3>1, <3>3
    <3>4. QED BY <3>2, <3>3
  <2>3. z \in Places'
    BY <1>0, <1>7, <1>9, <1>10
  <2>4. QED BY <2>1, <2>2, <2>3
<1>13. RecordAt(z)' = r
  <2>1. RecordAt(z)' = tail'[i][Len(s) + 1]
    BY <1>0, <1>1 DEF RecordAt, JournalOf
  <2>2. QED BY <1>2, <1>3, <2>1
<1>14. z \in Places' /\ z[1] = i
  BY <1>0, <1>12
<1>15. \E y : /\ y \in Places' /\ y \notin Places /\ y[1] = i /\ RecordAt(y)' = r
              /\ Places' = Places \cup {y}
  BY <1>11, <1>12, <1>13, <1>14
<1>16. QED BY <1>4, <1>5, <1>15

LEMMA AddedKeeps ==
  ASSUME KernelInv, KeyInv, JournalInv, Settled, NEW i \in Queues, NEW r \in Records,
         tail' = [tail EXCEPT ![i] = Append(@, r)], disk' = disk, RecordFits(i, r)',
         IF IsLate(r) THEN phase[r.by] # "over" ELSE told[r.by] = "none",
         \A c \in Ops : c # r.by => told'[c] = told[c],
         IsLate(r) => told' = told,
         r.outcome = "deduped" /\ ~JournalFails => Noted(r.of),
         ~JournalFails => \A k \in Keys : store'.entry[k] # None
                            => store'.entry[k] = r.by \/ Noted(store'.entry[k]),
         \A c \in Ops : adopts'[c] # None /\ told'[c] = "none" => adopts'[c] = adopts[c]
  PROVE  JournalInv'
<1>1. RecordsOK /\ OneRecordPerCall /\ FollowsOK /\ DedupeFollows
  BY DEF JournalInv
<1>2. PICK z : /\ z \in Places' /\ z \notin Places /\ z[1] = i /\ RecordAt(z)' = r
               /\ Places' = Places \cup {z}
  BY <1>1, AddedPlace
<1>3. /\ disk' \in Seq(Records) /\ tail' \in [Queues -> Seq(Records)]
      /\ \A p \in Places : RecordAt(p)' = RecordAt(p)
  BY <1>1, AddedPlace
<1>4. r.by \in Ops /\ r.of \in Ops
  BY RecordFields
<1>5. RecordsOK'
  <2>1. ASSUME NEW p \in Places PROVE RecordFits(p[1], RecordAt(p))'
    <3>1. PICK j, t : j = p[1] /\ t = RecordAt(p)
      OBVIOUS
    <3>2. j \in {0} \cup Queues /\ RecordFits(j, t)
      BY <1>1, <3>1, PlaceFacts DEF RecordsOK
    <3>3. RecordFits(j, t)'
      BY <3>2, RecordsLast
    <3>4. RecordAt(p)' = t
      BY <1>3, <3>1
    <3>5. QED BY <3>1, <3>3, <3>4
  <2>2. RecordFits(z[1], RecordAt(z))'
    BY <1>2
  <2>3. QED BY <1>2, <1>3, <2>1, <2>2 DEF RecordsOK
<1>6. \A p \in Places : RecordAt(p).by = r.by => IsLate(RecordAt(p)) # IsLate(r)
  <2>1. \A p \in Places : RecordFits(p[1], RecordAt(p))
    BY <1>1 DEF RecordsOK
  <2>2. QED BY <2>1 DEF RecordFits
<1>7. OneRecordPerCall'
  <2>1. ASSUME NEW c \in Ops, NEW p \in Places', NEW q \in Places',
               RecordAt(p)'.by = c, RecordAt(q)'.by = c, IsLate(RecordAt(p))' = IsLate(RecordAt(q))'
        PROVE  p = q
    <3>1. CASE p \in Places /\ q \in Places
      BY <1>1, <1>3, <2>1, <3>1 DEF OneRecordPerCall, PlacesOf, IsLate
    <3>2. CASE p \in Places /\ q = z
      BY <1>2, <1>3, <1>6, <2>1, <3>2 DEF IsLate
    <3>3. CASE p = z /\ q \in Places
      BY <1>2, <1>3, <1>6, <2>1, <3>3 DEF IsLate
    <3>4. QED BY <1>2, <3>1, <3>2, <3>3
  <2>2. ASSUME NEW c \in Ops, told'[c] \notin {"none", "lost"}, ~Crashes, ~JournalFails
        PROVE  \E p \in Places' : RecordAt(p)'.by = c /\ ~IsLate(RecordAt(p))'
    <3>1. CASE told'[c] = told[c]
      <4>1. PICK p \in Places : RecordAt(p).by = c /\ ~IsLate(RecordAt(p))
        BY <1>1, <2>2, <3>1 DEF OneRecordPerCall, PlacesOf
      <4>2. QED BY <1>2, <1>3, <4>1 DEF IsLate
    <3>2. CASE told'[c] # told[c]
      BY <1>2, <2>2, <3>2 DEF IsLate
    <3>3. QED BY <3>1, <3>2
  <2>3. ASSUME NEW c \in Ops, NEW p \in Places', RecordAt(p)'.by = c, IsLate(RecordAt(p))'
        PROVE  answer'[c] = "timeout" /\ phase'[c] = "over"
    BY <1>5, <2>3 DEF RecordsOK, RecordFits
  <2>4. QED BY <2>1, <2>2, <2>3 DEF OneRecordPerCall, PlacesOf
<1>8. \A c : Noted(c) => Noted(c)'
  BY <1>2, <1>3 DEF Noted
<1>9. Noted(r.by)'
  BY <1>2 DEF Noted
<1>10. FollowsOK'
  <2> SUFFICES ASSUME ~JournalFails PROVE FollowsOK'
    BY DEF FollowsOK
  <2>1. (\A k \in Keys : store.entry[k] # None => Noted(store.entry[k]))'
    <3> SUFFICES ASSUME NEW k \in Keys, store'.entry[k] # None PROVE Noted(store.entry[k])'
      OBVIOUS
    <3>1. PICK h : h = store'.entry[k]
      OBVIOUS
    <3>2. h = r.by \/ Noted(h)
      BY <3>1
    <3>3. Noted(h)'
      BY <1>8, <1>9, <3>2
    <3>4. QED BY <3>1, <3>3
  <2>2. (\A c \in Ops : adopts[c] # None /\ told[c] = "none" /\ told[adopts[c]] # "none" => Noted(adopts[c]))'
    <3> SUFFICES ASSUME NEW c \in Ops, adopts'[c] # None, told'[c] = "none", told'[adopts'[c]] # "none"
                 PROVE  Noted(adopts[c])'
      OBVIOUS
    <3>1. PICK h : h = adopts'[c]
      OBVIOUS
    <3>2. h = adopts[c] /\ h \in Ops /\ told[c] = "none"
      BY <3>1, NoneAssumption DEF KeyInv, AdoptsOK, Settled
    <3>3. CASE h = r.by
      BY <1>9, <3>1, <3>3
    <3>4. CASE h # r.by
      <4>1. told[h] # "none"
        BY <3>1, <3>2, <3>4
      <4>2. Noted(h)
        BY <1>1, <3>1, <3>2, <4>1 DEF FollowsOK
      <4>3. QED BY <1>8, <3>1, <4>2
    <3>5. QED BY <3>3, <3>4
  <2>3. ASSUME NEW j \in Queues PROVE TailFollows(j)'
    <3>1. TailFollows(j) /\ tail[j] \in Seq(Records) /\ tail[i] \in Seq(Records)
      BY <1>1 DEF FollowsOK, RecordsOK
    <3>2. ASSUME NEW n \in 1..Len(tail[j]), tail[j][n].outcome = "deduped",
                 via'[tail[j][n].by] = via'[tail[j][n].of]
          PROVE  \/ \E m \in 1..(n - 1) : tail[j][m].by = tail[j][n].of
                 \/ \E m \in 1..Len(disk) : disk[m].by = tail[j][n].of
      <4>1. RecordFits(j, tail[j][n])
        <5>1. <<j, n>> \in Places /\ RecordAt(<<j, n>>) = tail[j][n]
          BY <1>1, PlaceFacts
        <5>2. QED BY <1>1, <5>1 DEF RecordsOK
      <4>2. QED BY <3>1, <3>2, <4>1, DedupedCameIn DEF TailFollows
    <3>3. CASE j # i
      <4>1. tail'[j] = tail[j]
        BY <1>1, <3>3 DEF RecordsOK
      <4>2. ASSUME NEW n \in 1..Len(tail'[j]), tail'[j][n].outcome = "deduped",
                   via'[tail'[j][n].by] = via'[tail'[j][n].of]
            PROVE  \/ \E m \in 1..(n - 1) : tail'[j][m].by = tail'[j][n].of
                   \/ \E m \in 1..Len(disk') : disk'[m].by = tail'[j][n].of
        BY <3>2, <4>1, <4>2, ZenonT(60)
      <4>3. QED BY <4>2 DEF TailFollows
    <3>4. CASE j = i
      <4> DEFINE s == tail[i]
                 w == Append(s, r)
      <4>1. tail'[j] = w
        BY <1>1, <3>4 DEF RecordsOK
      <4>2. Len(s) \in Nat /\ Len(w) = Len(s) + 1 /\ w[Len(s) + 1] = r /\ \A n \in 1..Len(s) : w[n] = s[n]
        BY <3>1
      <4>3. ASSUME r.outcome = "deduped", via'[r.by] = via'[r.of]
            PROVE  \/ \E m \in 1..Len(s) : s[m].by = r.of
                   \/ \E m \in 1..Len(disk) : disk[m].by = r.of
        <5>1. PICK p \in Places : RecordAt(p).by = r.of
          BY <4>3 DEF Noted
        <5>2. CASE \E n \in 1..Len(disk) : p = <<0, n>>
          BY <1>1, <5>1, <5>2, PlaceFacts
        <5>3. ASSUME NEW k \in Queues, NEW n \in 1..Len(tail[k]), p = <<k, n>>
              PROVE  \E m \in 1..Len(s) : s[m].by = r.of
          <6>1. RecordAt(p) = tail[k][n] /\ RecordFits(k, RecordAt(p)) /\ k # 0
            BY <1>1, <5>3, PlaceFacts DEF RecordsOK
          <6>2. via[r.of] = k
            BY <5>1, <6>1 DEF RecordFits
          <6>3. via'[r.of] = k
            BY <1>4, <6>2, NoneAssumption DEF Settled
          <6>4. via'[r.by] = i
            BY KernelAssumption DEF RecordFits
          <6>5. k = i
            BY <4>3, <6>3, <6>4
          <6>6. QED BY <5>1, <5>3, <6>1, <6>5
        <5>4. QED BY <1>1, <5>2, <5>3, PlaceFacts
      <4> HIDE DEF w
      <4>4. ASSUME NEW n \in 1..Len(w), w[n].outcome = "deduped", via'[w[n].by] = via'[w[n].of]
            PROVE  \/ \E m \in 1..(n - 1) : w[m].by = w[n].of
                   \/ \E m \in 1..Len(disk) : disk[m].by = w[n].of
        <5>1. CASE n \in 1..Len(s)
          <6>1. \A m \in 1..(n - 1) : w[m] = s[m]
            BY <4>2, <5>1
          <6>2. w[n] = s[n] /\ n \in 1..Len(tail[j])
            BY <3>4, <4>2, <5>1
          <6>3. QED BY <3>2, <3>4, <4>4, <6>1, <6>2
        <5>2. CASE n = Len(s) + 1
          <6>1. n - 1 = Len(s) /\ w[n] = r
            BY <4>2, <5>2
          <6>2. QED BY <4>2, <4>3, <4>4, <6>1
        <5>3. QED BY <4>2, <5>1, <5>2
      <4>5. QED BY <4>1, <4>4, ZenonT(60) DEF TailFollows
    <3>5. QED BY <3>3, <3>4
  <2>4. QED BY <2>1, <2>2, <2>3 DEF FollowsOK
<1>11. DedupeFollows'
  <2> SUFFICES ASSUME NEW n \in 1..Len(disk), disk[n].outcome = "deduped",
                      via'[disk[n].by] = via'[disk[n].of], ~JournalFails
               PROVE  \E m \in 1..(n - 1) : disk[m].by = disk[n].of
    BY DEF DedupeFollows
  <2>1. RecordFits(0, disk[n])
    <3>1. <<0, n>> \in Places /\ RecordAt(<<0, n>>) = disk[n]
      BY <1>1, PlaceFacts
    <3>2. QED BY <1>1, <3>1 DEF RecordsOK
  <2>2. QED BY <1>1, <2>1, DedupedCameIn DEF DedupeFollows
<1>12. QED BY <1>5, <1>7, <1>10, <1>11 DEF JournalInv

\* Where the record at a place after the oldest one of list i went to the file was before.
LEMMA MovedPlaces ==
  ASSUME RecordsOK, NEW i \in Queues, tail[i] # <<>>, tail' = [tail EXCEPT ![i] = Tail(@)],
         disk' = Append(disk, Head(tail[i])) \/ (JournalFails /\ disk' = disk)
  PROVE  /\ disk' \in Seq(Records) /\ tail' \in [Queues -> Seq(Records)]
         /\ \E B : /\ \A p \in Places' : /\ B[p] \in Places /\ RecordAt(p)' = RecordAt(B[p])
                                         /\ p[1] = 0 \/ p[1] = B[p][1]
                   /\ \A p, q \in Places' : B[p] = B[q] => p = q
                   /\ ~JournalFails => \A q \in Places : \E p \in Places' : B[p] = q
<1> DEFINE s == tail[i]
           d == Len(disk)
<1>1. /\ tail \in [Queues -> Seq(Records)] /\ disk \in Seq(Records) /\ 0 \notin Queues
  BY PlaceFacts DEF RecordsOK
<1>2. /\ s \in Seq(Records) /\ s # <<>> /\ Len(s) \in Nat /\ Len(s) >= 1 /\ tail'[i] = Tail(s)
      /\ \A j \in Queues : j # i => tail'[j] = tail[j]
  BY <1>1
<1>3. /\ Tail(s) \in Seq(Records) /\ Len(Tail(s)) = Len(s) - 1 /\ Head(s) = s[1] /\ s[1] \in Records
      /\ \A n \in 1..Len(Tail(s)) : Tail(s)[n] = s[n + 1]
  BY <1>2
<1>4. disk' \in Seq(Records) /\ tail' \in [Queues -> Seq(Records)]
  <2>1. Head(s) \in Records /\ tail' = [tail EXCEPT ![i] = Tail(s)]
    BY <1>3
  <2>2. disk' \in Seq(Records)
    <3>1. \A r \in Records : Append(disk, r) \in Seq(Records)
      BY <1>1
    <3>2. QED BY <1>1, <2>1, <3>1
  <2>3. tail' \in [Queues -> Seq(Records)]
    BY <1>1, <1>3, <2>1
  <2>4. QED BY <2>2, <2>3
<1>5. /\ d \in Nat
      /\ \/ Len(disk') = d + 1 /\ disk'[d + 1] = s[1]
         \/ JournalFails /\ Len(disk') = d
      /\ \A n \in 1..d : disk'[n] = disk[n] /\ n \in 1..Len(disk')
  BY <1>1, <1>3
<1>6. /\ \A n \in 1..Len(disk') : <<0, n>> \in Places'
      /\ \A j \in Queues : \A n \in 1..Len(tail'[j]) : <<j, n>> \in Places'
      /\ \A p \in Places' :
           \/ \E n \in 1..Len(disk') : p = <<0, n>>
           \/ \E j \in Queues : \E n \in 1..Len(tail'[j]) : p = <<j, n>>
  <2>1. (\A p : p \in Places <=> \E j \in {0} \cup Queues : \E n \in 1..Len(JournalOf(j)) : p = <<j, n>>)'
    BY InPlacesAfter
  <2> DEFINE After(j) == IF j = 0 THEN disk' ELSE tail'[j]
  <2>2. \A p : p \in Places' <=> \E j \in {0} \cup Queues : \E n \in 1..Len(After(j)) : p = <<j, n>>
    BY <2>1 DEF JournalOf
  <2>3. After(0) = disk' /\ \A j \in Queues : After(j) = tail'[j]
    BY <1>1
  <2> HIDE DEF After
  <2>4. ASSUME NEW n \in 1..Len(disk') PROVE <<0, n>> \in Places'
    BY <2>2, <2>3
  <2>5. ASSUME NEW j \in Queues, NEW n \in 1..Len(tail'[j]) PROVE <<j, n>> \in Places'
    BY <2>2, <2>3
  <2>6. ASSUME NEW p \in Places'
        PROVE  \/ \E n \in 1..Len(disk') : p = <<0, n>>
               \/ \E j \in Queues : \E n \in 1..Len(tail'[j]) : p = <<j, n>>
    <3>1. PICK j \in {0} \cup Queues : \E n \in 1..Len(After(j)) : p = <<j, n>>
      BY <2>2
    <3>2. QED BY <2>3, <3>1
  <2>7. QED BY <2>4, <2>5, <2>6
<1>7. /\ \A n \in 1..d : <<0, n>> \in Places /\ RecordAt(<<0, n>>) = disk[n]
      /\ \A j \in Queues : \A n \in 1..Len(tail[j]) :
           <<j, n>> \in Places /\ RecordAt(<<j, n>>) = tail[j][n]
      /\ \A p \in Places :
           \/ \E n \in 1..d : p = <<0, n>>
           \/ \E j \in Queues : \E n \in 1..Len(tail[j]) : p = <<j, n>>
  BY PlaceFacts
<1>8. /\ \A n : RecordAt(<<0, n>>)' = disk'[n]
      /\ \A j \in Queues : \A n : RecordAt(<<j, n>>)' = tail'[j][n]
  BY <1>1 DEF RecordAt, JournalOf
<1> DEFINE B == [p \in Places' |-> IF p[1] = i THEN <<i, p[2] + 1>>
                                  ELSE IF p = <<0, d + 1>> THEN <<i, 1>> ELSE p]
<1>9. /\ \A n \in 1..d : B[<<0, n>>] = <<0, n>>
      /\ \A n \in 1..Len(Tail(s)) : B[<<i, n>>] = <<i, n + 1>>
      /\ \A j \in Queues : j # i => \A n \in 1..Len(tail[j]) : B[<<j, n>>] = <<j, n>>
      /\ Len(disk') = d + 1 => B[<<0, d + 1>>] = <<i, 1>>
  <2>1. ASSUME NEW n \in 1..d PROVE B[<<0, n>>] = <<0, n>>
    <3>1. <<0, n>> \in Places' /\ n # d + 1 /\ i # 0
      BY <1>1, <1>5, <1>6
    <3>2. QED BY <3>1
  <2>2. ASSUME NEW n \in 1..Len(Tail(s)) PROVE B[<<i, n>>] = <<i, n + 1>>
    <3>1. <<i, n>> \in Places'
      BY <1>2, <1>6
    <3>2. QED BY <3>1
  <2>3. ASSUME NEW j \in Queues, j # i, NEW n \in 1..Len(tail[j]) PROVE B[<<j, n>>] = <<j, n>>
    <3>1. <<j, n>> \in Places' /\ j # 0
      BY <1>1, <1>2, <1>6, <2>3
    <3>2. QED BY <2>3, <3>1
  <2>4. ASSUME Len(disk') = d + 1 PROVE B[<<0, d + 1>>] = <<i, 1>>
    <3>1. <<0, d + 1>> \in Places' /\ i # 0
      BY <1>1, <1>5, <1>6, <2>4
    <3>2. QED BY <3>1
  <2>5. QED BY <2>1, <2>2, <2>3, <2>4
<1> HIDE DEF B
<1>10. \A p \in Places' :
         \/ \E n \in 1..d : p = <<0, n>> /\ B[p] = <<0, n>>
         \/ Len(disk') = d + 1 /\ p = <<0, d + 1>> /\ B[p] = <<i, 1>>
         \/ \E n \in 1..Len(Tail(s)) : p = <<i, n>> /\ B[p] = <<i, n + 1>>
         \/ \E j \in Queues \ {i} : \E n \in 1..Len(tail[j]) : p = <<j, n>> /\ B[p] = <<j, n>>
  <2> SUFFICES ASSUME NEW p \in Places'
               PROVE  \/ \E n \in 1..d : p = <<0, n>> /\ B[p] = <<0, n>>
                      \/ Len(disk') = d + 1 /\ p = <<0, d + 1>> /\ B[p] = <<i, 1>>
                      \/ \E n \in 1..Len(Tail(s)) : p = <<i, n>> /\ B[p] = <<i, n + 1>>
                      \/ \E j \in Queues \ {i} : \E n \in 1..Len(tail[j]) : p = <<j, n>> /\ B[p] = <<j, n>>
    OBVIOUS
  <2>1. ASSUME NEW n \in 1..Len(disk'), p = <<0, n>>
        PROVE  \/ \E m \in 1..d : p = <<0, m>> /\ B[p] = <<0, m>>
               \/ Len(disk') = d + 1 /\ p = <<0, d + 1>> /\ B[p] = <<i, 1>>
    <3>1. n \in 1..d \/ (n = d + 1 /\ Len(disk') = d + 1)
      BY <1>5
    <3>2. QED BY <1>9, <2>1, <3>1
  <2>2. ASSUME NEW j \in Queues, NEW n \in 1..Len(tail'[j]), p = <<j, n>>
        PROVE  \/ \E m \in 1..Len(Tail(s)) : p = <<i, m>> /\ B[p] = <<i, m + 1>>
               \/ \E k \in Queues \ {i} : \E m \in 1..Len(tail[k]) : p = <<k, m>> /\ B[p] = <<k, m>>
    <3>1. CASE j = i
      BY <1>2, <1>9, <2>2, <3>1, ZenonT(60)
    <3>2. CASE j # i
      BY <1>2, <1>9, <2>2, <3>2
    <3>3. QED BY <3>1, <3>2
  <2>3. QED BY <1>6, <2>1, <2>2
<1>11. ASSUME NEW p \in Places'
       PROVE  /\ B[p] \in Places /\ RecordAt(p)' = RecordAt(B[p])
              /\ p[1] = 0 \/ p[1] = B[p][1]
  <2>1. CASE \E n \in 1..d : p = <<0, n>> /\ B[p] = <<0, n>>
    BY <1>5, <1>7, <1>8, <2>1
  <2>2. CASE Len(disk') = d + 1 /\ p = <<0, d + 1>> /\ B[p] = <<i, 1>>
    <3>1. disk'[d + 1] = s[1] /\ 1 \in 1..Len(s)
      BY <1>2, <1>5, <2>2
    <3>2. QED BY <1>7, <1>8, <2>2, <3>1, SMTT(60)
  <2>3. ASSUME NEW n \in 1..Len(Tail(s)), p = <<i, n>>, B[p] = <<i, n + 1>>
        PROVE  /\ B[p] \in Places /\ RecordAt(p)' = RecordAt(B[p]) /\ p[1] = B[p][1]
    <3>1. n + 1 \in 1..Len(s) /\ tail'[i][n] = s[n + 1]
      <4>1. Tail(s)[n] = s[n + 1]
        BY <1>3
      <4>2. n + 1 \in 1..Len(s)
        BY <1>2, <1>3
      <4>3. QED BY <1>2, <4>1, <4>2
    <3>2. QED BY <1>7, <1>8, <2>3, <3>1
  <2>4. CASE \E j \in Queues \ {i} : \E n \in 1..Len(tail[j]) : p = <<j, n>> /\ B[p] = <<j, n>>
    BY <1>2, <1>7, <1>8, <2>4, SMTT(60)
  <2>5. QED BY <1>10, <2>1, <2>2, <2>3, <2>4
<1>12. ASSUME NEW p \in Places', NEW q \in Places', B[p] = B[q] PROVE p = q
  <2>1. i # 0 /\ \A n \in 1..Len(Tail(s)) : n + 1 # 1
    BY <1>1, <1>3
  <2>2. \A m, n \in 1..Len(Tail(s)) : m + 1 = n + 1 => m = n
    BY <1>3
  <2>3. CASE B[p][1] = 0
    <3>1. \E n \in 1..d : p = <<0, n>> /\ B[p] = <<0, n>>
      BY <1>1, <1>10, <2>3
    <3>2. \E n \in 1..d : q = <<0, n>> /\ B[q] = <<0, n>>
      BY <1>1, <1>10, <1>12, <2>3
    <3>3. QED BY <1>12, <3>1, <3>2
  <2>4. CASE B[p][1] # 0 /\ B[p][1] # i
    BY <1>1, <1>10, <1>12, <2>4, SMTT(60)
  <2>5. CASE B[p][1] = i
    <3>1. \/ p = <<0, d + 1>> /\ B[p] = <<i, 1>>
          \/ \E n \in 1..Len(Tail(s)) : p = <<i, n>> /\ B[p] = <<i, n + 1>>
      BY <1>10, <2>1, <2>5
    <3>2. \/ q = <<0, d + 1>> /\ B[q] = <<i, 1>>
          \/ \E n \in 1..Len(Tail(s)) : q = <<i, n>> /\ B[q] = <<i, n + 1>>
      BY <1>10, <1>12, <2>1, <2>5
    <3>3. QED BY <1>12, <2>1, <2>2, <3>1, <3>2
  <2>6. QED BY <2>3, <2>4, <2>5
<1>13. ASSUME ~JournalFails, NEW q \in Places PROVE \E p \in Places' : B[p] = q
  <2>1. CASE \E n \in 1..d : q = <<0, n>>
    BY <1>5, <1>6, <1>9, <2>1, SMTT(60)
  <2>2. ASSUME NEW j \in Queues, NEW n \in 1..Len(tail[j]), q = <<j, n>>
        PROVE  \E p \in Places' : B[p] = q
    <3>1. CASE j # i
      BY <1>2, <1>6, <1>9, <2>2, <3>1, SMTT(60)
    <3>2. CASE j = i /\ n = 1
      <4>1. Len(disk') = d + 1 /\ d + 1 \in 1..Len(disk')
        BY <1>5, <1>13
      <4>2. QED BY <1>6, <1>9, <2>2, <3>2, <4>1
    <3>3. CASE j = i /\ n # 1
      <4>1. n - 1 \in 1..Len(Tail(s)) /\ (n - 1) + 1 = n
        BY <1>2, <1>3, <2>2, <3>3
      <4>2. <<i, n - 1>> \in Places' /\ B[<<i, n - 1>>] = <<i, n>>
        BY <1>2, <1>6, <1>9, <4>1
      <4>3. QED BY <2>2, <3>3, <4>2
    <3>4. QED BY <3>1, <3>2, <3>3
  <2>3. QED BY <1>7, <2>1, <2>2
<1>14. QED BY <1>4, <1>11, <1>12, <1>13

LEMMA FlushKeeps ==
  ASSUME KernelInv, KeyInv, JournalInv, Settled, NEW i \in Queues, Flush(i)
  PROVE  JournalInv'
<1> DEFINE s == tail[i]
<1>1. RecordsOK /\ OneRecordPerCall /\ FollowsOK /\ DedupeFollows
  BY DEF JournalInv
<1>2. /\ s # <<>> /\ tail' = [tail EXCEPT ![i] = Tail(@)]
      /\ disk' = Append(disk, Head(s)) \/ (JournalFails /\ disk' = disk)
      /\ UNCHANGED <<store, adopts, told>>
  BY DEF Flush
<1>3. /\ disk' \in Seq(Records) /\ tail' \in [Queues -> Seq(Records)]
      /\ \E B : /\ \A p \in Places' : /\ B[p] \in Places /\ RecordAt(p)' = RecordAt(B[p])
                                      /\ p[1] = 0 \/ p[1] = B[p][1]
                /\ \A p, q \in Places' : B[p] = B[q] => p = q
                /\ ~JournalFails => \A q \in Places : \E p \in Places' : B[p] = q
  BY <1>1, <1>2, MovedPlaces
<1>4. PICK B : /\ \A p \in Places' : /\ B[p] \in Places /\ RecordAt(p)' = RecordAt(B[p])
                                     /\ p[1] = 0 \/ p[1] = B[p][1]
               /\ \A p, q \in Places' : B[p] = B[q] => p = q
               /\ ~JournalFails => \A q \in Places : \E p \in Places' : B[p] = q
  BY <1>3
<1>5. RecordsOK'
  <2>1. ASSUME NEW p \in Places' PROVE RecordFits(p[1], RecordAt(p))'
    <3>1. PICK j, r : j = B[p][1] /\ r = RecordAt(B[p])
      OBVIOUS
    <3>2. j \in {0} \cup Queues /\ RecordFits(j, r)
      BY <1>1, <1>4, <3>1, PlaceFacts DEF RecordsOK
    <3>3. RecordFits(j, r)' /\ RecordFits(0, r)'
      BY <3>2, RecordsLast
    <3>4. RecordAt(p)' = r /\ (p[1] = 0 \/ p[1] = j)
      BY <1>4, <3>1
    <3>5. QED BY <3>3, <3>4
  <2>2. QED BY <1>3, <2>1 DEF RecordsOK
<1>6. OneRecordPerCall'
  <2>1. ASSUME NEW c \in Ops, NEW p \in Places', NEW q \in Places',
               RecordAt(p)'.by = c, RecordAt(q)'.by = c, IsLate(RecordAt(p))' = IsLate(RecordAt(q))'
        PROVE  p = q
    <3>1. B[p] \in Places /\ B[q] \in Places
          /\ RecordAt(p)' = RecordAt(B[p]) /\ RecordAt(q)' = RecordAt(B[q])
      BY <1>4
    <3>2. B[p] = B[q]
      BY <1>1, <2>1, <3>1 DEF OneRecordPerCall, PlacesOf, IsLate
    <3>3. QED BY <1>4, <3>2
  <2>2. ASSUME NEW c \in Ops, told'[c] \notin {"none", "lost"}, ~Crashes, ~JournalFails
        PROVE  \E p \in Places' : RecordAt(p)'.by = c /\ ~IsLate(RecordAt(p))'
    <3>1. PICK q \in Places : RecordAt(q).by = c /\ ~IsLate(RecordAt(q))
      BY <1>1, <1>2, <2>2 DEF OneRecordPerCall, PlacesOf
    <3>2. PICK p \in Places' : B[p] = q
      BY <1>4, <2>2
    <3>3. RecordAt(p)' = RecordAt(q)
      BY <1>4, <3>2
    <3>4. QED BY <3>1, <3>3 DEF IsLate
  <2>3. ASSUME NEW c \in Ops, NEW p \in Places', RecordAt(p)'.by = c, IsLate(RecordAt(p))'
        PROVE  answer'[c] = "timeout" /\ phase'[c] = "over"
    BY <1>5, <2>3 DEF RecordsOK, RecordFits
  <2>4. QED BY <2>1, <2>2, <2>3 DEF OneRecordPerCall, PlacesOf
<1>7. ASSUME ~JournalFails, NEW c, Noted(c) PROVE Noted(c)'
  BY <1>4, <1>7 DEF Noted
<1>8. s \in Seq(Records) /\ disk \in Seq(Records)
  BY <1>1 DEF RecordsOK
<1>9. FollowsOK'
  <2> SUFFICES ASSUME ~JournalFails PROVE FollowsOK'
    BY DEF FollowsOK
  <2>1. (\A k \in Keys : store.entry[k] # None => Noted(store.entry[k]))'
    <3> SUFFICES ASSUME NEW k \in Keys, store'.entry[k] # None PROVE Noted(store.entry[k])'
      OBVIOUS
    <3>1. PICK h : h = store.entry[k]
      OBVIOUS
    <3>2. Noted(h) /\ h = store'.entry[k]
      BY <1>1, <1>2, <3>1 DEF FollowsOK
    <3>3. Noted(h)'
      BY <1>7, <3>2
    <3>4. QED BY <3>2, <3>3
  <2>2. (\A c \in Ops : adopts[c] # None /\ told[c] = "none" /\ told[adopts[c]] # "none" => Noted(adopts[c]))'
    <3> SUFFICES ASSUME NEW c \in Ops, adopts'[c] # None, told'[c] = "none", told'[adopts'[c]] # "none"
                 PROVE  Noted(adopts[c])'
      OBVIOUS
    <3>1. PICK h : h = adopts[c]
      OBVIOUS
    <3>2. Noted(h) /\ h = adopts'[c]
      BY <1>1, <1>2, <3>1 DEF FollowsOK
    <3>3. Noted(h)'
      BY <1>7, <3>2
    <3>4. QED BY <3>2, <3>3
  <2>3. ASSUME NEW j \in Queues PROVE TailFollows(j)'
    <3> DEFINE w == tail'[j]
    <3>1. TailFollows(j) /\ tail[j] \in Seq(Records)
      BY <1>1 DEF FollowsOK, RecordsOK
    <3>2. disk' = Append(disk, s[1])
      BY <1>2, <1>8
    <3>3. Len(disk) \in Nat /\ Len(disk') = Len(disk) + 1 /\ disk'[Len(disk) + 1] = s[1]
          /\ \A n \in 1..Len(disk) : disk'[n] = disk[n] /\ n \in 1..Len(disk')
      BY <1>8, <3>2
    <3>4. ASSUME NEW n \in 1..Len(tail[j]), tail[j][n].outcome = "deduped",
                 via'[tail[j][n].by] = via'[tail[j][n].of]
          PROVE  \/ \E m \in 1..(n - 1) : tail[j][m].by = tail[j][n].of
                 \/ \E m \in 1..Len(disk') : disk'[m].by = tail[j][n].of
      <4>1. RecordFits(j, tail[j][n])
        <5>1. <<j, n>> \in Places /\ RecordAt(<<j, n>>) = tail[j][n]
          BY <1>1, PlaceFacts
        <5>2. QED BY <1>1, <5>1 DEF RecordsOK
      <4>2. \/ \E m \in 1..(n - 1) : tail[j][m].by = tail[j][n].of
            \/ \E m \in 1..Len(disk) : disk[m].by = tail[j][n].of
        BY <3>1, <3>4, <4>1, DedupedCameIn DEF TailFollows
      <4>3. QED BY <3>3, <4>2
    <3>5. CASE j # i
      <4>1. w = tail[j]
        BY <1>1, <1>2, <3>5 DEF RecordsOK
      <4> HIDE DEF w
      <4>2. ASSUME NEW n \in 1..Len(w), w[n].outcome = "deduped", via'[w[n].by] = via'[w[n].of]
            PROVE  \/ \E m \in 1..(n - 1) : w[m].by = w[n].of
                   \/ \E m \in 1..Len(disk') : disk'[m].by = w[n].of
        BY <3>4, <4>1, <4>2
      <4>3. QED BY <4>2 DEF TailFollows, w
    <3>6. CASE j = i
      <4>1. w = Tail(s)
        BY <1>1, <1>2, <3>6 DEF RecordsOK
      <4> HIDE DEF w
      <4>2. Len(s) \in Nat /\ Len(w) = Len(s) - 1 /\ \A n \in 1..Len(w) : w[n] = s[n + 1]
        <5>1. s \in Seq(Records) /\ s # <<>>
          BY <1>2, <1>8
        <5> HIDE DEF s
        <5>2. QED BY <4>1, <5>1
      <4>3. ASSUME NEW n \in 1..Len(w), w[n].outcome = "deduped", via'[w[n].by] = via'[w[n].of]
            PROVE  \/ \E m \in 1..(n - 1) : w[m].by = w[n].of
                   \/ \E m \in 1..Len(disk') : disk'[m].by = w[n].of
        <5>1. n + 1 \in 1..Len(tail[j]) /\ w[n] = tail[j][n + 1]
          BY <3>6, <4>2
        <5>2. \/ \E m \in 1..((n + 1) - 1) : tail[j][m].by = w[n].of
              \/ \E m \in 1..Len(disk') : disk'[m].by = w[n].of
          BY <3>4, <4>3, <5>1
        <5>3. ASSUME NEW m \in 1..((n + 1) - 1), tail[j][m].by = w[n].of
              PROVE  \/ \E k \in 1..(n - 1) : w[k].by = w[n].of
                     \/ \E k \in 1..Len(disk') : disk'[k].by = w[n].of
          <6>1. CASE m = 1
            <7>1. Len(disk) + 1 \in 1..Len(disk') /\ disk'[Len(disk) + 1] = tail[j][m]
              BY <3>3, <3>6, <6>1
            <7>2. QED BY <5>3, <7>1
          <6>2. CASE m # 1
            <7>1. m - 1 \in 1..(n - 1) /\ m - 1 \in 1..Len(w) /\ (m - 1) + 1 = m
              BY <4>2, <6>2
            <7>2. w[m - 1] = s[m]
              BY <4>2, <7>1
            <7>3. QED BY <3>6, <5>3, <7>1, <7>2
          <6>3. QED BY <6>1, <6>2
        <5>4. QED BY <5>2, <5>3
      <4>4. QED BY <4>3 DEF TailFollows, w
    <3>7. QED BY <3>5, <3>6
  <2>4. QED BY <2>1, <2>2, <2>3 DEF FollowsOK
<1>10. DedupeFollows'
  <2> SUFFICES ASSUME NEW n \in 1..Len(disk'), disk'[n].outcome = "deduped",
                      via'[disk'[n].by] = via'[disk'[n].of], ~JournalFails
               PROVE  \E m \in 1..(n - 1) : disk'[m].by = disk'[n].of
    BY DEF DedupeFollows
  <2>1. disk' = Append(disk, s[1]) /\ 1 \in 1..Len(s)
    BY <1>2, <1>8
  <2>2. Len(disk) \in Nat /\ Len(disk') = Len(disk) + 1 /\ disk'[Len(disk) + 1] = s[1]
        /\ \A m \in 1..Len(disk) : disk'[m] = disk[m]
    BY <1>8, <2>1
  <2>3. CASE n \in 1..Len(disk)
    <3>1. RecordFits(0, disk[n])
      <4>1. <<0, n>> \in Places /\ RecordAt(<<0, n>>) = disk[n]
        BY <1>1, <2>3, PlaceFacts
      <4>2. QED BY <1>1, <4>1 DEF RecordsOK
    <3>2. \E m \in 1..(n - 1) : disk[m].by = disk[n].of
      BY <1>1, <2>2, <2>3, <3>1, DedupedCameIn DEF DedupeFollows
    <3>3. \A m \in 1..(n - 1) : m \in 1..Len(disk)
      BY <2>2, <2>3
    <3>4. QED BY <2>2, <2>3, <3>2, <3>3
  <2>4. CASE n = Len(disk) + 1
    <3>1. disk'[n] = s[1] /\ n - 1 = Len(disk)
      BY <2>2, <2>4
    <3>2. RecordFits(i, s[1])
      <4>1. <<i, 1>> \in Places /\ RecordAt(<<i, 1>>) = s[1]
        BY <1>1, <2>1, PlaceFacts
      <4>2. QED BY <1>1, <4>1 DEF RecordsOK
    <3>3. \/ \E m \in 1..(1 - 1) : s[m].by = s[1].of
          \/ \E m \in 1..Len(disk) : disk[m].by = s[1].of
      BY <1>1, <2>1, <3>1, <3>2, DedupedCameIn DEF FollowsOK, TailFollows
    <3>4. QED BY <2>2, <3>1, <3>3
  <2>5. QED BY <2>2, <2>3, <2>4
<1>11. QED BY <1>5, <1>6, <1>9, <1>10 DEF JournalInv

LEMMA CrashKeepsJournal ==
  ASSUME KernelInv, KeyInv, JournalInv, Settled, ProcessCrash
  PROVE  JournalInv'
<1>1. RecordsOK /\ OneRecordPerCall /\ DedupeFollows
  BY DEF JournalInv
<1>2. /\ Crashes /\ disk' = disk /\ tail' = [i \in Queues |-> <<>>] /\ store' = Restarted(store)
      /\ told' = [c \in Ops |-> IF via[c] # None /\ told[c] = "none" THEN "lost" ELSE told[c]]
      /\ UNCHANGED <<adopts, via>>
  BY DEF ProcessCrash, Finalized
<1>3. \A p \in Places' : p \in Places /\ p[1] = 0 /\ RecordAt(p)' = RecordAt(p)
  <2>1. (\A p : p \in Places <=> \E j \in {0} \cup Queues : \E n \in 1..Len(JournalOf(j)) : p = <<j, n>>)'
    BY InPlacesAfter
  <2>2. \A j \in Queues : JournalOf(j)' = <<>> /\ j # 0
    BY <1>2, KernelAssumption DEF JournalOf
  <2>3. \A p \in Places' : \E n \in 1..Len(JournalOf(0)') : p = <<0, n>>
    BY <2>1, <2>2
  <2>4. JournalOf(0)' = disk
    BY <1>2 DEF JournalOf
  <2>5. \A p \in Places' : \E n \in 1..Len(disk) : p = <<0, n>>
    BY <2>3, <2>4
  <2>6. \A n \in 1..Len(disk) : <<0, n>> \in Places /\ RecordAt(<<0, n>>)' = RecordAt(<<0, n>>)
    BY <1>1, <1>2, PlaceFacts DEF RecordAt, JournalOf
  <2>7. QED BY <2>5, <2>6
<1>4. RecordsOK'
  <2>1. ASSUME NEW p \in Places' PROVE RecordFits(p[1], RecordAt(p))'
    <3>1. PICK r : r = RecordAt(p)
      OBVIOUS
    <3>2. RecordFits(0, r)
      BY <1>1, <1>3, <3>1 DEF RecordsOK
    <3>3. RecordFits(0, r)'
      BY <3>2, RecordsLast
    <3>4. RecordAt(p)' = r /\ p[1] = 0
      BY <1>3, <3>1
    <3>5. QED BY <3>3, <3>4
  <2>2. QED BY <1>1, <1>2, <2>1 DEF RecordsOK
<1>5. OneRecordPerCall'
  <2>1. ASSUME NEW c \in Ops, NEW p \in Places', NEW q \in Places',
               RecordAt(p)'.by = c, RecordAt(q)'.by = c, IsLate(RecordAt(p))' = IsLate(RecordAt(q))'
        PROVE  p = q
    BY <1>1, <1>3, <2>1 DEF OneRecordPerCall, PlacesOf, IsLate
  <2>2. ASSUME NEW c \in Ops, NEW p \in Places', RecordAt(p)'.by = c, IsLate(RecordAt(p))'
        PROVE  answer'[c] = "timeout" /\ phase'[c] = "over"
    BY <1>4, <2>2 DEF RecordsOK, RecordFits
  <2>3. QED BY <1>2, <2>1, <2>2 DEF OneRecordPerCall, PlacesOf
<1>6. FollowsOK'
  <2>1. \A k \in Keys : store'.entry[k] = None
    BY <1>2 DEF Restarted, EmptyStore
  <2>2. \A c \in Ops : adopts'[c] # None => told'[c] # "none"
    BY <1>2 DEF KernelInv, HistoryInv, CallsOK
  <2>3. \A i \in Queues : TailFollows(i)'
    BY <1>2 DEF TailFollows
  <2>4. QED BY <2>1, <2>2, <2>3 DEF FollowsOK
<1>7. DedupeFollows'
  BY <1>1, <1>2 DEF DedupeFollows
<1>8. QED BY <1>4, <1>5, <1>6, <1>7 DEF JournalInv

LEMMA SubmitKeepsJournal ==
  ASSUME KernelInv, KeyInv, JournalInv, Settled, NEW c \in Ops, NEW i \in Queues, Submit(c, i)
  PROVE  JournalInv'
<1>1. /\ via[c] = None /\ home[c] = None /\ adopts[c] = None /\ told[c] = "none"
      /\ via' = [via EXCEPT ![c] = i] /\ disk' = disk
  BY ArrivalKeeps
<1>2. \A k \in Keys : store'.entry[k] \in {None, store.entry[k]}
  BY SubmitKeepsStored
<1>3. ~JournalFails => \A k \in Keys : store'.entry[k] # None => Noted(store'.entry[k])
  BY <1>2 DEF JournalInv, FollowsOK
<1>4. via'[c] = i
  BY <1>1 DEF KernelInv, HistoryInv, HistoryTypeOK
<1>5. CASE SubmitMismatch(c, i)
  <2>1. PICK r : r = Record(c, "mismatch", c)
    OBVIOUS
  <2>2. r \in Records /\ r.by = c /\ r.outcome = "mismatch" /\ ~IsLate(r)
    BY <2>1, RecordFields DEF JournalOutcomes, IsLate
  <2>3. /\ tail' = [tail EXCEPT ![i] = Append(@, r)] /\ told' = [told EXCEPT ![c] = "mismatch"]
        /\ adopts' = adopts
    BY <1>5, <2>1 DEF SubmitMismatch, Journaled
  <2>4. told'[c] = "mismatch" /\ \A o \in Ops : o # c => told'[o] = told[o]
    BY <2>3 DEF KeyInv, KeyTypes
  <2>5. RecordFits(i, r)'
    BY <1>4, <2>2, <2>4 DEF RecordFits, IsLate
  <2>6. QED BY <1>1, <1>3, <2>2, <2>3, <2>4, <2>5, AddedKeeps
<1>6. CASE SubmitReplay(c, i)
  <2>1. PICK h : h = Holder(KeyOf[c])
    OBVIOUS
  <2>2. /\ h # None /\ reserved[KeyOf[c]] = None /\ KeyOf[c] \in Keys
        /\ adopts' = [adopts EXCEPT ![c] = h] /\ told' = [told EXCEPT ![c] = Replayed(h)]
        /\ Journaled(i, Record(c, "deduped", h))
    BY <1>6, <2>1, KernelAssumption DEF SubmitReplay, Keyed
  <2>3. h = store.entry[KeyOf[c]] /\ h \in Ops
    BY <2>1, <2>2 DEF Holder, KeyInv, StoredOK, StoreOK
  <2>4. ~JournalFails => Noted(h)
    BY <2>2, <2>3 DEF JournalInv, FollowsOK
  <2>5. PICK r : r = Record(c, "deduped", h)
    OBVIOUS
  <2>6. r \in Records /\ r.by = c /\ r.of = h /\ r.outcome = "deduped" /\ ~IsLate(r)
    BY <2>3, <2>5, RecordFields DEF JournalOutcomes, IsLate
  <2>7. tail' = [tail EXCEPT ![i] = Append(@, r)]
    BY <2>2, <2>5 DEF Journaled
  <2>8. told'[c] # "none" /\ adopts'[c] = h
        /\ \A o \in Ops : o # c => told'[o] = told[o] /\ adopts'[o] = adopts[o]
    BY <2>2 DEF KeyInv, KeyTypes, Replayed, Returned
  <2>9. RecordFits(i, r)'
    BY <1>4, <2>6, <2>8 DEF RecordFits, IsLate
  <2>10. QED BY <1>1, <1>3, <2>4, <2>6, <2>7, <2>8, <2>9, AddedKeeps
<1>7. CASE SubmitWait(c, i)
  <2>1. PICK h : h = reserved[KeyOf[c]]
    OBVIOUS
  <2>2. h # None /\ KeyOf[c] \in Keys /\ adopts' = [adopts EXCEPT ![c] = h] /\ UNCHANGED <<tail, told>>
    BY <1>7, <2>1, KernelAssumption DEF SubmitWait, Keyed
  <2>3. told[h] = "none"
    BY <2>1, <2>2 DEF KeyInv, ReservedOK
  <2>4. \A o \in Ops : adopts'[o] # adopts[o] => adopts'[o] = h
    BY <2>2 DEF KeyInv, KeyTypes
  <2>5. QED BY <1>1, <1>3, <2>2, <2>3, <2>4, StillKeeps
<1>8. CASE SubmitRun(c, i)
  <2>1. UNCHANGED <<tail, told, adopts>>
    BY <1>8 DEF SubmitRun
  <2>2. QED BY <1>1, <1>3, <2>1, StillKeeps
<1>9. QED BY <1>5, <1>6, <1>7, <1>8 DEF Submit

\* A late settlement adds a record, unless its caller still waits.
LEMMA SettlingKeepsJournal ==
  ASSUME KernelInv, KeyInv, JournalInv, Settled, NEW c \in Ops,
         DequeueRefused(c) \/ \E v \in Settlements : HandlerSettles(c, v)
  PROVE  JournalInv'
<1>1. PICK v : /\ LateRecord(c, v) /\ (v = "ok" => c \in Wrote)
               /\ phase[c] \in {"dequeued", "running"} /\ phase' = [phase EXCEPT ![c] = "over"]
               /\ UNCHANGED <<disk, store, told, adopts, via, home, writes>>
  <2>1. CASE DequeueRefused(c)
    BY <2>1 DEF DequeueRefused, StartRefused
  <2>2. CASE \E v \in Settlements : HandlerSettles(c, v)
    BY <2>2 DEF HandlerSettles, Settle
  <2>3. QED BY <2>1, <2>2
<1>2. ~JournalFails => \A k \in Keys : store'.entry[k] # None => Noted(store'.entry[k])
  BY <1>1 DEF JournalInv, FollowsOK
<1>3. CASE answer[c] # "timeout"
  <2>1. tail' = tail
    BY <1>1, <1>3 DEF LateRecord
  <2>2. QED BY <1>1, <1>2, <2>1, StillKeeps
<1>4. CASE answer[c] = "timeout"
  <2>1. PICK i, r : i = home[c] /\ r = Record(c, IF v = "ok" THEN "late-ok" ELSE "late-error", c)
    OBVIOUS
  <2>2. r \in Records /\ r.by = c /\ IsLate(r) /\ (r.outcome = "late-ok" => v = "ok") /\ r.outcome # "deduped"
    BY <2>1, RecordFields DEF JournalOutcomes, IsLate
  <2>3. i # None /\ i \in Queues /\ via[c] = i
    BY <1>4, <2>1 DEF KernelInv, QueueInv, QueueTypeOK, OpOK, KeyInv, CallFacts
  <2>4. tail' = [tail EXCEPT ![i] = Append(@, r)]
    BY <1>1, <1>4, <2>1 DEF LateRecord, Journaled
  <2>5. answer'[c] = "timeout" /\ phase'[c] = "over" /\ via'[c] = i /\ (v = "ok" => c \in Wrote')
    BY <1>1, <1>4, <2>3 DEF Settled, KernelInv, QueueInv, QueueTypeOK
  <2>6. RecordFits(i, r)'
    BY <2>2, <2>5 DEF RecordFits, IsLate
  <2>7. QED BY <1>1, <1>2, <2>2, <2>3, <2>4, <2>6, AddedKeeps
<1>5. QED BY <1>3, <1>4

LEMMA FinalizeKeepsJournal ==
  ASSUME KernelInv, KeyInv, JournalInv, Settled, NEW c \in Ops, Finalize(c)
  PROVE  JournalInv'
<1>1. /\ answer[c] \notin {"none", "lost"} /\ told[c] = "none" /\ told' = [told EXCEPT ![c] = answer[c]]
      /\ Journaled(home[c], Record(c, answer[c], c)) /\ UNCHANGED <<disk, adopts, home, via>>
  BY DEF Finalize, Finalized, qvars
<1>2. PICK i, r : i = home[c] /\ r = Record(c, answer[c], c)
  OBVIOUS
<1>3. /\ r \in Records /\ r.by = c /\ r.outcome = answer[c] /\ ~IsLate(r)
      /\ r.outcome \notin {"mismatch", "deduped"}
  <2>1. answer[c] \in Answers
    BY DEF KernelInv, QueueInv, QueueTypeOK
  <2>2. answer[c] \in JournalOutcomes /\ answer[c] \notin {"mismatch", "deduped", "late-ok", "late-error"}
    BY <1>1, <2>1 DEF JournalOutcomes, Answers, Settlements, Returned, Thrown
  <2>3. QED BY <1>2, <2>2, RecordFields DEF IsLate
<1>4. i # None /\ i \in Queues /\ via[c] = i
  BY <1>1, <1>2 DEF KernelInv, QueueInv, QueueTypeOK, OpOK, KeyInv, CallFacts
<1>5. tail' = [tail EXCEPT ![i] = Append(@, r)]
  BY <1>1, <1>2 DEF Journaled
<1>6. told'[c] = answer[c] /\ \A o \in Ops : o # c => told'[o] = told[o]
  BY <1>1 DEF KeyInv, KeyTypes
<1>7. RecordFits(i, r)'
  BY <1>1, <1>2, <1>3, <1>4, <1>6 DEF RecordFits, IsLate
<1>8. ~JournalFails => \A k \in Keys : store'.entry[k] # None
                         => store'.entry[k] = r.by \/ Noted(store'.entry[k])
  <2>1. \A k \in Keys : store'.entry[k] \in {None, store.entry[k]} \/ store'.entry[k] = c
    BY FinalizeKeeps
  <2>2. QED BY <1>3, <2>1 DEF JournalInv, FollowsOK
<1>9. QED BY <1>1, <1>3, <1>4, <1>5, <1>6, <1>7, <1>8, AddedKeeps

LEMMA AdoptKeepsJournal ==
  ASSUME KernelInv, KeyInv, JournalInv, Settled, NEW c \in Ops, Adopt(c)
  PROVE  JournalInv'
<1>1. PICK h, i, r : h = adopts[c] /\ i = via[c] /\ r = Record(c, "deduped", h)
  OBVIOUS
<1>2. /\ h # None /\ told[c] = "none" /\ told[h] # "none" /\ told' = [told EXCEPT ![c] = told[h]]
      /\ Journaled(i, r) /\ UNCHANGED <<disk, adopts, via, store>>
  BY <1>1 DEF Adopt, Finalized
<1>3. h \in Ops /\ i \in Queues
  BY <1>1, <1>2 DEF KeyInv, AdoptsOK, KernelInv, HistoryInv, HistoryTypeOK, CallsOK
<1>4. r \in Records /\ r.by = c /\ r.of = h /\ r.outcome = "deduped" /\ ~IsLate(r)
  BY <1>1, <1>3, RecordFields DEF JournalOutcomes, IsLate
<1>5. tail' = [tail EXCEPT ![i] = Append(@, r)]
  BY <1>2 DEF Journaled
<1>6. told'[c] # "none" /\ \A o \in Ops : o # c => told'[o] = told[o]
  BY <1>2 DEF KeyInv, KeyTypes
<1>7. RecordFits(i, r)'
  BY <1>1, <1>2, <1>4, <1>6 DEF RecordFits, IsLate
<1>8. ~JournalFails => Noted(h) /\ \A k \in Keys : store'.entry[k] # None => Noted(store'.entry[k])
  BY <1>1, <1>2 DEF JournalInv, FollowsOK
<1>9. QED BY <1>2, <1>3, <1>4, <1>5, <1>6, <1>7, <1>8, AddedKeeps

LEMMA JournalStep ==
  ASSUME KernelInv, KeyInv, JournalInv, Settled, [KernelNext]_vars
  PROVE  JournalInv'
<1>1. ASSUME UNCHANGED <<tail, disk, told, adopts, store>> PROVE JournalInv'
  <2>1. ~JournalFails => \A k \in Keys : store'.entry[k] # None => Noted(store'.entry[k])
    BY <1>1 DEF JournalInv, FollowsOK
  <2>2. QED BY <1>1, <2>1, StillKeeps
<1>2. ASSUME NEW c \in Ops, CallStep(c) PROVE JournalInv'
  <2>1. CASE Dequeue(c) \/ Land(c)
    BY <1>1, <2>1 DEF Dequeue, Land
  <2>2. QED BY <1>2, <2>1, SubmitKeepsJournal, SettlingKeepsJournal, FinalizeKeepsJournal, AdoptKeepsJournal
            DEF CallStep
<1>3. ASSUME NEW i \in Queues, Flush(i) \/ QueueTick(i) PROVE JournalInv'
  <2>1. CASE QueueTick(i)
    BY <1>1, <2>1 DEF QueueTick, kvars
  <2>2. QED BY <1>3, <2>1, FlushKeeps
<1>4. CASE OtherCall \/ Unload \/ WindowPasses \/ UNCHANGED vars
  BY <1>1, <1>4 DEF OtherCall, Unload, WindowPasses, vars, kvars
<1>5. CASE Load
  <2>1. UNCHANGED <<tail, disk, told, adopts>>
    BY <1>5 DEF Load
  <2>2. \A n \in 1..Len(disk) : Noted(disk[n].by)
    BY PlaceFacts DEF JournalInv, Noted
  <2>3. \A j \in Keys : \/ store'.entry[j] \in {None, store.entry[j]}
                        \/ \E n \in 1..Len(disk) : store'.entry[j] = disk[n].by
    BY <1>5, LoadKeeps DEF JournalInv
  <2>4. ~JournalFails => \A k \in Keys : store'.entry[k] # None => Noted(store'.entry[k])
    BY <2>2, <2>3 DEF JournalInv, FollowsOK
  <2>5. QED BY <2>1, <2>4, StillKeeps
<1>6. QED BY <1>2, <1>3, <1>4, <1>5, CrashKeepsJournal DEF KernelNext

LEMMA InitJournalInv == KernelInit => JournalInv
<1> SUFFICES ASSUME KernelInit PROVE JournalInv
  OBVIOUS
<1>1. /\ disk = <<>> /\ tail = [i \in Queues |-> <<>>] /\ told = [c \in Ops |-> "none"]
      /\ adopts = [c \in Ops |-> None] /\ \A k \in Keys : store.entry[k] = None
  BY DEF KernelInit, EmptyStore
<1>2. RecordsOK
  <2>1. \A p : p \notin Places
    <3>1. \A j \in {0} \cup Queues : Len(JournalOf(j)) = 0
      BY <1>1 DEF JournalOf
    <3>2. QED BY <3>1, InPlaces
  <2>2. disk \in Seq(Records) /\ tail \in [Queues -> Seq(Records)]
    BY <1>1
  <2>3. QED BY <2>1, <2>2 DEF RecordsOK
<1>3. Places = {}
  <2>1. \A j \in {0} \cup Queues : Len(JournalOf(j)) = 0
    BY <1>1 DEF JournalOf
  <2>2. QED BY <2>1, InPlaces
<1>4. OneRecordPerCall /\ DedupeFollows
  BY <1>1, <1>3 DEF OneRecordPerCall, PlacesOf, DedupeFollows
<1>5. FollowsOK
  BY <1>1 DEF FollowsOK, TailFollows
<1>6. QED BY <1>2, <1>4, <1>5 DEF JournalInv

-----------------------------------------------------------------------------
(***************************************************************************)
(* Writes.  Of two calls of a key that both wrote, the first had ended     *)
(* when the second one's write landed, and its key was no longer held: so  *)
(* the excuse NoDuplicateWrite asks for was there, and it stays.           *)
(***************************************************************************)
\* The list s says that c's write happened.
DoneIn(c, s) == \E n \in 1..Len(s) : s[n].by = c /\ SaysDone(s[n])

LEMMA OnRecordIsDoneIn ==
  \A c : OnRecord(c) <=> DoneIn(c, disk) \/ \E i \in Queues : DoneIn(c, tail[i])
<1>1. 0 \notin Queues
  BY KernelAssumption
<1>2. ASSUME NEW c, OnRecord(c) PROVE DoneIn(c, disk) \/ \E i \in Queues : DoneIn(c, tail[i])
  <2>1. PICK p \in Places : RecordAt(p).by = c /\ SaysDone(RecordAt(p))
    BY <1>2 DEF OnRecord, PlacesOf
  <2>2. PICK j \in {0} \cup Queues : \E n \in 1..Len(JournalOf(j)) : p = <<j, n>>
    BY <2>1, InPlaces
  <2>3. PICK n \in 1..Len(JournalOf(j)) : p = <<j, n>>
    BY <2>2
  <2>4. RecordAt(p) = JournalOf(j)[n]
    BY <2>3 DEF RecordAt
  <2>5. DoneIn(c, JournalOf(j))
    BY <2>1, <2>4 DEF DoneIn
  <2>6. QED BY <1>1, <2>5 DEF JournalOf
<1>3. ASSUME NEW c, NEW j \in {0} \cup Queues, DoneIn(c, JournalOf(j)) PROVE OnRecord(c)
  <2>1. PICK n \in 1..Len(JournalOf(j)) : JournalOf(j)[n].by = c /\ SaysDone(JournalOf(j)[n])
    BY <1>3 DEF DoneIn
  <2>2. PICK p : p = <<j, n>>
    OBVIOUS
  <2>3. p \in Places /\ RecordAt(p) = JournalOf(j)[n]
    BY <2>2, InPlaces DEF RecordAt
  <2>4. QED BY <2>1, <2>3 DEF OnRecord, PlacesOf
<1>4. JournalOf(0) = disk /\ \A i \in Queues : JournalOf(i) = tail[i]
  BY <1>1 DEF JournalOf
<1>5. QED BY <1>2, <1>3, <1>4

LEMMA OnRecordAfter ==
  (\A c : OnRecord(c) <=> DoneIn(c, disk) \/ \E i \in Queues : DoneIn(c, tail[i]))'
BY OnRecordIsDoneIn, PTL

LEMMA DoneInLists ==
  ASSUME NEW s \in Seq(Records), NEW c
  PROVE  /\ ~DoneIn(c, <<>>)
         /\ \A r \in Records : DoneIn(c, Append(s, r)) <=> DoneIn(c, s) \/ (r.by = c /\ SaysDone(r))
         /\ s # <<>> => /\ DoneIn(c, Tail(s)) => DoneIn(c, s)
                        /\ Head(s).by = c /\ SaysDone(Head(s)) => DoneIn(c, s)
<1>1. ~DoneIn(c, <<>>)
  BY DEF DoneIn
<1>2. ASSUME NEW r \in Records
      PROVE  DoneIn(c, Append(s, r)) <=> DoneIn(c, s) \/ (r.by = c /\ SaysDone(r))
  <2> DEFINE t == Append(s, r)
  <2>1. Len(t) = Len(s) + 1 /\ Len(s) \in Nat /\ t[Len(s) + 1] = r /\ \A n \in 1..Len(s) : t[n] = s[n]
    OBVIOUS
  <2> HIDE DEF t
  <2>2. DoneIn(c, t) <=> DoneIn(c, s) \/ (r.by = c /\ SaysDone(r))
    BY <2>1 DEF DoneIn
  <2>3. QED BY <2>2 DEF t
<1>3. ASSUME s # <<>>
      PROVE  /\ DoneIn(c, Tail(s)) => DoneIn(c, s)
             /\ Head(s).by = c /\ SaysDone(Head(s)) => DoneIn(c, s)
  <2> DEFINE t == Tail(s)
  <2>1. /\ Len(t) = Len(s) - 1 /\ Len(s) \in Nat /\ Len(s) > 0
        /\ Head(s) = s[1] /\ \A n \in 1..Len(t) : t[n] = s[n + 1]
    BY <1>3
  <2> HIDE DEF t
  <2>2. 1 \in 1..Len(s) /\ \A n \in 1..Len(t) : n + 1 \in 1..Len(s)
    BY <2>1
  <2>3. DoneIn(c, t) => DoneIn(c, s)
    BY <2>1, <2>2 DEF DoneIn
  <2>4. Head(s).by = c /\ SaysDone(Head(s)) => DoneIn(c, s)
    BY <2>1, <2>2 DEF DoneIn
  <2>5. QED BY <2>3, <2>4 DEF t
<1>4. QED BY <1>1, <1>2, <1>3

\* A call that has ended with an envelope gains no record of its write later.
LEMMA NoNewRecord ==
  ASSUME KernelInv, KeyInv, JournalInv, [KernelNext]_vars,
         NEW c \in Ops, home[c] # None, told[c] \in Returned, OnRecord(c)'
  PROVE  OnRecord(c)
<1>1. disk \in Seq(Records) /\ tail \in [Queues -> Seq(Records)]
  BY DEF JournalInv, RecordsOK
<1>2. DoneIn(c, disk)' \/ \E i \in Queues : DoneIn(c, tail[i])'
  BY OnRecordAfter
<1>3. ASSUME UNCHANGED <<tail, disk>> PROVE OnRecord(c)
  BY <1>2, <1>3, OnRecordIsDoneIn DEF DoneIn
<1>4. ASSUME NEW i \in Queues, NEW r \in Records, ~(r.by = c /\ SaysDone(r)),
             tail' = [tail EXCEPT ![i] = Append(@, r)], disk' = disk
      PROVE  OnRecord(c)
  <2>1. DoneIn(c, disk') => DoneIn(c, disk)
    BY <1>4
  <2>2. ASSUME NEW j \in Queues, DoneIn(c, tail'[j]) PROVE DoneIn(c, tail[j])
    <3>1. tail'[j] = IF j = i THEN Append(tail[j], r) ELSE tail[j]
      BY <1>1, <1>4
    <3>2. tail[j] \in Seq(Records)
      BY <1>1
    <3>3. QED BY <1>4, <2>2, <3>1, <3>2, DoneInLists
  <2>3. DoneIn(c, disk') \/ \E j \in Queues : DoneIn(c, tail'[j])
    BY <1>2 DEF DoneIn
  <2>4. QED BY <2>1, <2>2, <2>3, OnRecordIsDoneIn
<1>5. told[c] = answer[c] /\ answer[c] # "timeout"
  BY DEF KeyInv, CallFacts, Returned
<1>6. ASSUME NEW o \in Ops, NEW i \in Queues, Submit(o, i) PROVE OnRecord(c)
  <2>1. CASE SubmitWait(o, i) \/ SubmitRun(o, i)
    BY <1>3, <2>1 DEF SubmitWait, SubmitRun, Arrives
  <2>2. CASE SubmitMismatch(o, i)
    <3>1. PICK r : r = Record(o, "mismatch", o)
      OBVIOUS
    <3>2. r \in Records /\ ~SaysDone(r)
      BY <3>1 DEF Records, Record, JournalOutcomes, SaysDone, Returned
    <3>3. tail' = [tail EXCEPT ![i] = Append(@, r)] /\ disk' = disk
      BY <2>2, <3>1 DEF SubmitMismatch, Journaled, Arrives
    <3>4. QED BY <1>4, <3>2, <3>3
  <2>3. CASE SubmitReplay(o, i)
    <3>1. PICK h, r : r = Record(o, "deduped", h) /\ h = Holder(KeyOf[o])
      OBVIOUS
    <3>2. tail' = [tail EXCEPT ![i] = Append(@, r)] /\ disk' = disk /\ h # None /\ Keyed(o)
      BY <2>3, <3>1 DEF SubmitReplay, Journaled, Arrives
    <3>3. KeyOf[o] \in Keys
      BY <3>2, KernelAssumption DEF Keyed
    <3>4. h \in Ops
      BY <3>1, <3>2, <3>3 DEF Holder, KeyInv, ReservedOK, StoredOK, StoreOK
    <3>5. r \in Records /\ ~SaysDone(r)
      BY <3>1, <3>4 DEF Records, Record, JournalOutcomes, SaysDone, Returned
    <3>6. QED BY <1>4, <3>2, <3>5
  <2>4. QED BY <1>6, <2>1, <2>2, <2>3 DEF Submit
<1>7. ASSUME NEW o \in Ops, DequeueRefused(o) \/ \E v \in Settlements : HandlerSettles(o, v)
      PROVE  OnRecord(c)
  <2>1. PICK v : LateRecord(o, v) /\ disk' = disk /\ phase[o] \in {"dequeued", "running"}
    BY <1>7 DEF DequeueRefused, StartRefused, HandlerSettles, Settle
  <2>2. CASE answer[o] # "timeout"
    BY <1>3, <2>1, <2>2 DEF LateRecord
  <2>3. CASE answer[o] = "timeout"
    <3>1. PICK i, r : i = home[o] /\ r = Record(o, IF v = "ok" THEN "late-ok" ELSE "late-error", o)
      OBVIOUS
    <3>2. tail' = [tail EXCEPT ![i] = Append(@, r)]
      BY <2>1, <2>3, <3>1 DEF LateRecord, Journaled
    <3>3. r \in Records /\ r.by = o
      BY <3>1 DEF Records, Record, JournalOutcomes
    <3>4. i \in Queues
      BY <2>1, <3>1 DEF KernelInv, QueueInv, QueueTypeOK, OpOK
    <3>5. o # c
      BY <1>5, <2>3
    <3>6. QED BY <1>4, <2>1, <3>2, <3>3, <3>4, <3>5
  <2>4. QED BY <2>2, <2>3
<1>8. ASSUME NEW o \in Ops, Finalize(o) PROVE OnRecord(c)
  <2>1. PICK i, r : i = home[o] /\ r = Record(o, answer[o], o)
    OBVIOUS
  <2>2. /\ tail' = [tail EXCEPT ![i] = Append(@, r)] /\ disk' = disk
        /\ answer[o] \notin {"none", "lost"} /\ told[o] = "none"
    BY <1>8, <2>1 DEF Finalize, Finalized, Journaled
  <2>3. answer[o] \in Answers /\ i \in Queues
    BY <2>1, <2>2 DEF KernelInv, QueueInv, QueueTypeOK, OpOK
  <2>4. r \in Records /\ r.by = o /\ o # c
    BY <2>1, <2>2, <2>3 DEF Records, Record, JournalOutcomes, Returned
  <2>5. QED BY <1>4, <2>2, <2>3, <2>4
<1>9. ASSUME NEW o \in Ops, Adopt(o) PROVE OnRecord(c)
  <2>1. PICK i, r : i = via[o] /\ r = Record(o, "deduped", adopts[o])
    OBVIOUS
  <2>2. tail' = [tail EXCEPT ![i] = Append(@, r)] /\ disk' = disk /\ adopts[o] # None
    BY <1>9, <2>1 DEF Adopt, Journaled
  <2>3. i \in Queues /\ adopts[o] \in Ops
    BY <2>1, <2>2 DEF KernelInv, HistoryInv, HistoryTypeOK, CallsOK, KeyInv, AdoptsOK
  <2>4. r \in Records /\ ~SaysDone(r)
    BY <2>1, <2>3 DEF Records, Record, JournalOutcomes, SaysDone, Returned
  <2>5. QED BY <1>4, <2>2, <2>3, <2>4
<1>10. ASSUME NEW i \in Queues, Flush(i) PROVE OnRecord(c)
  <2>1. /\ tail[i] # <<>> /\ tail' = [tail EXCEPT ![i] = Tail(@)]
        /\ disk' = Append(disk, Head(tail[i])) \/ disk' = disk
    BY <1>10 DEF Flush
  <2>2. tail[i] \in Seq(Records)
    BY <1>1
  <2>3. Head(tail[i]) \in Records
    BY <2>1, <2>2
  <2>4. DoneIn(c, disk') => DoneIn(c, disk) \/ DoneIn(c, tail[i])
    <3>1. PICK r \in Records : r = Head(tail[i])
      BY <2>3
    <3>2. DoneIn(c, Append(disk, r)) <=> DoneIn(c, disk) \/ (r.by = c /\ SaysDone(r))
      BY <1>1, DoneInLists
    <3>3. r.by = c /\ SaysDone(r) => DoneIn(c, tail[i])
      BY <2>1, <2>2, <3>1, DoneInLists
    <3>4. disk' = Append(disk, r) \/ disk' = disk
      BY <2>1, <3>1
    <3>5. CASE disk' = Append(disk, r)
      BY <3>2, <3>3, <3>5
    <3>6. CASE disk' = disk
      BY <3>6
    <3>7. QED BY <3>4, <3>5, <3>6
  <2>5. ASSUME NEW j \in Queues, DoneIn(c, tail'[j]) PROVE DoneIn(c, tail[j])
    <3>1. tail'[j] = IF j = i THEN Tail(tail[j]) ELSE tail[j]
      BY <1>1, <2>1
    <3>2. QED BY <2>1, <2>2, <2>5, <3>1, DoneInLists
  <2>6. DoneIn(c, disk') \/ \E j \in Queues : DoneIn(c, tail'[j])
    BY <1>2 DEF DoneIn
  <2>7. QED BY <2>4, <2>5, <2>6, OnRecordIsDoneIn
<1>11. CASE ProcessCrash
  <2>1. disk' = disk /\ \A i \in Queues : tail'[i] = <<>>
    BY <1>11 DEF ProcessCrash
  <2>2. \A i \in Queues : ~DoneIn(c, tail'[i])
    BY <2>1 DEF DoneIn
  <2>3. DoneIn(c, disk') \/ \E j \in Queues : DoneIn(c, tail'[j])
    BY <1>2 DEF DoneIn
  <2>4. QED BY <2>1, <2>2, <2>3, OnRecordIsDoneIn
<1>12. CASE UNCHANGED <<tail, disk>>
  BY <1>3, <1>12
<1>13. UNCHANGED <<tail, disk>>
         \/ (\E o \in Ops : \/ \E i \in Queues : Submit(o, i)
                            \/ DequeueRefused(o) \/ (\E v \in Settlements : HandlerSettles(o, v))
                            \/ Finalize(o) \/ Adopt(o))
         \/ (\E i \in Queues : Flush(i)) \/ ProcessCrash
  <2>1. ASSUME NEW o \in Ops, Dequeue(o) \/ Land(o) PROVE UNCHANGED <<tail, disk>>
    BY <2>1 DEF Dequeue, Land
  <2>2. ASSUME NEW i \in Queues, QueueTick(i) PROVE UNCHANGED <<tail, disk>>
    BY <2>2 DEF QueueTick, kvars
  <2>3. CASE OtherCall \/ Unload \/ Load \/ WindowPasses \/ UNCHANGED vars
    BY <2>3 DEF OtherCall, Unload, Load, WindowPasses, vars, kvars
  <2>4. QED BY <2>1, <2>2, <2>3 DEF KernelNext, CallStep
<1>14. QED BY <1>6, <1>7, <1>8, <1>9, <1>10, <1>11, <1>12, <1>13

\* A call that must be held after a step was so before it, if it had ended then.
LEMMA LivingBefore ==
  ASSUME KernelInv, KeyInv, JournalInv, Settled, [KernelNext]_vars, store.evicted \subseteq store'.evicted,
         aged \subseteq aged', unread \subseteq unread', NEW c \in Ops, told[c] # "none", Living(c)'
  PROVE  Living(c)
<1>1. /\ Keyed(c) /\ home'[c] # None /\ told'[c] \in Returned
      /\ c \notin aged' \cup unread' /\ KeyOf[c] \notin store'.evicted /\ OnRecord(c)'
  BY DEF Living, Keyed
<1>2. told'[c] = told[c]
  BY DEF Settled
<1>3. via[c] # None /\ CallFrame
  BY StepFrame DEF KernelInv, HistoryInv, CallsOK
<1>4. home[c] # None
  BY <1>1, <1>3 DEF CallFrame
<1>5. OnRecord(c)
  BY <1>1, <1>2, <1>4, NoNewRecord
<1>6. QED BY <1>1, <1>2, <1>4, <1>5 DEF Living

\* The window, the evictions and the unread records only grow.
LEMMA OnlyGrow ==
  ASSUME KernelInv, KeyInv, JournalInv, Settled, [KernelNext]_vars
  PROVE  store.evicted \subseteq store'.evicted /\ aged \subseteq aged' /\ unread \subseteq unread'
<1>1. ASSUME NEW c \in Ops, NEW i \in Queues, Submit(c, i)
      PROVE  store.evicted \subseteq store'.evicted /\ aged \subseteq aged' /\ unread \subseteq unread'
  <2>1. aged' = aged /\ unread' = unread /\ (store' = store \/ (Keyed(c) /\ store' = Looked(c)))
    BY <1>1 DEF Submit, SubmitMismatch, SubmitReplay, SubmitWait, SubmitRun, Arrives
  <2>2. QED BY <2>1, LookedKeeps DEF KeyInv
<1>2. ASSUME NEW c \in Ops, Finalize(c)
      PROVE  store.evicted \subseteq store'.evicted /\ aged \subseteq aged' /\ unread \subseteq unread'
  <2>1. aged' = aged /\ unread' = unread /\ (store' = store \/ (Keyed(c) /\ store' = Put(store, KeyOf[c], c)))
    BY <1>2 DEF Finalize
  <2>2. Keyed(c) => KeyOf[c] \in Keys
    BY KernelAssumption DEF Keyed
  <2>3. StoreOK(store)
    BY DEF KeyInv, StoredOK
  <2>4. QED BY <2>1, <2>2, <2>3, PutKeeps
<1>3. CASE ProcessCrash
  BY <1>3 DEF ProcessCrash, Restarted, EmptyStore
<1>4. CASE Load
  <2>1. aged' = aged
    BY <1>4 DEF Load
  <2>2. QED BY <1>4, <2>1, LoadKeeps DEF JournalInv
<1>5. CASE WindowPasses
  BY <1>5 DEF WindowPasses
<1>6. ASSUME NEW c \in Ops, \/ Dequeue(c) \/ DequeueRefused(c) \/ Land(c) \/ Adopt(c)
                            \/ \E v \in Settlements : HandlerSettles(c, v)
      PROVE  UNCHANGED <<store, aged, unread>>
  BY <1>6 DEF Dequeue, DequeueRefused, Land, Adopt, HandlerSettles
<1>7. ASSUME NEW i \in Queues, Flush(i) \/ QueueTick(i) PROVE UNCHANGED <<store, aged, unread>>
  BY <1>7 DEF Flush, QueueTick, kvars
<1>8. CASE OtherCall \/ Unload \/ UNCHANGED vars
  BY <1>8 DEF OtherCall, Unload, vars, kvars
<1>9. QED BY <1>1, <1>2, <1>3, <1>4, <1>5, <1>6, <1>7, <1>8 DEF KernelNext, CallStep

LEMMA AgedStep ==
  ASSUME KeyInv, Settled, AgedOK, [KernelNext]_vars
  PROVE  AgedOK'
<1>1. CASE WindowPasses
  <2>1. aged' \subseteq aged \cup {c \in Ops : told[c] # "none"}
    BY <1>1 DEF WindowPasses, Finalized
  <2>2. QED BY <2>1 DEF AgedOK, Settled, KeyInv, KeyTypes
<1>2. CASE aged' = aged
  BY <1>2 DEF AgedOK, Settled, KeyInv, KeyTypes
<1>3. WindowPasses \/ aged' = aged
  <2>1. ASSUME NEW c \in Ops, CallStep(c) PROVE aged' = aged
    BY <2>1 DEF CallStep, Submit, SubmitMismatch, SubmitReplay, SubmitWait, SubmitRun, Arrives,
                Dequeue, DequeueRefused, Land, HandlerSettles, Finalize, Adopt
  <2>2. ASSUME NEW i \in Queues, Flush(i) \/ QueueTick(i) PROVE aged' = aged
    BY <2>2 DEF Flush, QueueTick, kvars
  <2>3. CASE OtherCall \/ Unload \/ ProcessCrash \/ Load \/ UNCHANGED vars
    BY <2>3 DEF OtherCall, Unload, ProcessCrash, Load, vars, kvars
  <2>4. QED BY <2>1, <2>2, <2>3 DEF KernelNext
<1>4. QED BY <1>1, <1>2, <1>3

\* A call that ends with an envelope and has its key held did so in its own finally.
LEMMA EndsInFinally ==
  ASSUME KernelInv, KeyInv, Settled, [KernelNext]_vars, NEW c \in Ops,
         told[c] = "none", told'[c] \in Returned, home'[c] # None
  PROVE  Finalize(c)
<1>1. \A o \in Ops, i \in Queues : Submit(o, i) => ~(told[c] = "none" /\ told'[c] \in Returned /\ home'[c] # None)
  <2> SUFFICES ASSUME NEW o \in Ops, NEW i \in Queues, Submit(o, i), told'[c] \in Returned, home'[c] # None
               PROVE  FALSE
    OBVIOUS
  <2>1. home[o] = None
    BY ArrivalKeeps
  <2>2. told \in [Ops -> Answers \cup {"mismatch"}]
    BY DEF KeyInv, KeyTypes
  <2>3. CASE SubmitMismatch(o, i)
    BY <2>2, <2>3 DEF SubmitMismatch, Returned
  <2>4. CASE SubmitReplay(o, i)
    <3>1. home' = home /\ o = c
      BY <2>2, <2>4 DEF SubmitReplay, qvars, Returned
    <3>2. QED BY <2>1, <3>1
  <2>5. CASE SubmitWait(o, i) \/ SubmitRun(o, i)
    BY <2>5 DEF SubmitWait, SubmitRun, Returned
  <2>6. QED BY <2>3, <2>4, <2>5 DEF Submit
<1>2. ASSUME NEW o \in Ops, Adopt(o) PROVE told'[c] \notin Returned \/ home'[c] = None
  <2>1. told' = [told EXCEPT ![o] = told[adopts[o]]] /\ home' = home /\ adopts[o] # None
    BY <1>2 DEF Adopt, qvars
  <2>2. home[o] = None
    BY <2>1 DEF KernelInv, HistoryInv, CallsOK
  <2>3. QED BY <2>1, <2>2 DEF KeyInv, KeyTypes, Returned
<1>3. ASSUME NEW o \in Ops, Finalize(o) PROVE o = c
  BY <1>3 DEF Finalize, KeyInv, KeyTypes, Returned
<1>4. CASE ProcessCrash
  BY <1>4 DEF ProcessCrash, Returned
<1>5. ASSUME NEW o \in Ops, \/ Dequeue(o) \/ DequeueRefused(o) \/ Land(o)
                            \/ \E v \in Settlements : HandlerSettles(o, v)
      PROVE  told' = told
  BY <1>5 DEF Dequeue, DequeueRefused, Land, HandlerSettles
<1>6. ASSUME NEW i \in Queues, Flush(i) \/ QueueTick(i) PROVE told' = told
  BY <1>6 DEF Flush, QueueTick, kvars
<1>7. CASE OtherCall \/ Unload \/ Load \/ WindowPasses \/ UNCHANGED vars
  BY <1>7 DEF OtherCall, Unload, Load, WindowPasses, vars, kvars, Returned
<1>8. "none" \notin Returned
  BY DEF Returned
<1>9. QED BY <1>1, <1>2, <1>3, <1>4, <1>5, <1>6, <1>7, <1>8 DEF KernelNext, CallStep

\* The key of a call whose end must be remembered stays held.
LEMMA HeldStep ==
  ASSUME KernelInv, KeyInv, JournalInv, LivingHeld, AgedOK, Settled, [KernelNext]_vars
  PROVE  LivingHeld'
<1>1. store.evicted \subseteq store'.evicted /\ aged \subseteq aged' /\ unread \subseteq unread'
  BY OnlyGrow
<1> SUFFICES ASSUME NEW c \in Ops, Living(c)'
             PROVE  (instance \in dead \/ store.entry[KeyOf[c]] \notin aged \cup {None})'
  BY DEF LivingHeld
<1> DEFINE Held == instance' \in dead' \/ store'.entry[KeyOf[c]] \notin aged' \cup {None}
<1>2. /\ Keyed(c) /\ home'[c] # None /\ told'[c] \in Returned
      /\ c \notin aged' \cup unread' /\ KeyOf[c] \notin store'.evicted
  BY DEF Living, Keyed
<1>3. KeyOf[c] \in Keys /\ StoreOK(store) /\ c # None
  BY <1>2, KernelAssumption, NoneAssumption DEF Keyed, KeyInv, StoredOK
<1>4. CASE told[c] = "none"
  <2>1. Finalize(c)
    BY <1>2, <1>4, EndsInFinally
  <2>2. told' = [told EXCEPT ![c] = answer[c]] /\ aged' = aged /\ home' = home
    BY <2>1 DEF Finalize, qvars
  <2>3. reserved[KeyOf[c]] = c
    BY <1>2, <1>4, <2>2 DEF KeyInv, ReservedOK
  <2>4. answer[c] \in Returned
    BY <1>2, <2>2 DEF KeyInv, KeyTypes
  <2>5. store' = Put(store, KeyOf[c], c)
    BY <1>2, <2>1, <2>3, <2>4 DEF Finalize
  <2>6. store'.entry[KeyOf[c]] = c
    BY <1>3, <2>5, PutKeeps
  <2>7. QED BY <1>2, <1>3, <2>6
<1>5. CASE told[c] # "none"
  <2>1. Living(c)
    BY <1>1, <1>5, LivingBefore
  <2>2. instance \in dead \/ store.entry[KeyOf[c]] \notin aged \cup {None}
    BY <2>1 DEF LivingHeld
  <2>3. ASSUME UNCHANGED <<instance, dead, aged, store>> PROVE Held
    BY <2>2, <2>3
  <2>4. ASSUME NEW o \in Ops, NEW i \in Queues, Submit(o, i) PROVE Held
    <3>1. UNCHANGED <<instance, dead, aged>>
      BY <2>4, ArrivalKeeps
    <3>2. CASE store' = store
      BY <2>3, <3>1, <3>2
    <3>3. CASE Keyed(o) /\ store' = Looked(o)
      <4>1. store'.entry[KeyOf[c]] =
              IF KeyOf[c] = KeyOf[o] /\ reserved[KeyOf[c]] = None /\ store.entry[KeyOf[c]] \in aged
              THEN None ELSE store.entry[KeyOf[c]]
        BY <1>3, <3>3, LookedKeeps DEF KeyInv
      <4>2. QED BY <2>2, <3>1, <4>1
    <3>4. QED BY <2>4, <3>2, <3>3 DEF Submit, SubmitMismatch, SubmitReplay, SubmitWait, SubmitRun
  <2>5. ASSUME NEW o \in Ops, Finalize(o) PROVE Held
    <3>1. UNCHANGED <<instance, dead, aged>> /\ told[o] = "none"
      BY <2>5 DEF Finalize, Finalized
    <3>2. CASE store' = store
      BY <2>3, <3>1, <3>2
    <3>3. CASE Keyed(o) /\ store' = Put(store, KeyOf[o], o)
      <4>1. KeyOf[o] \in Keys /\ o # None /\ o \notin aged
        BY <3>1, <3>3, KernelAssumption, NoneAssumption DEF Keyed, AgedOK
      <4>2. \/ store'.entry[KeyOf[c]] = o
            \/ store'.entry[KeyOf[c]] = store.entry[KeyOf[c]]
            \/ KeyOf[c] \in store'.evicted
        BY <1>3, <3>3, <4>1, PutKeeps
      <4>3. QED BY <1>2, <2>2, <3>1, <4>1, <4>2
    <3>4. QED BY <2>5, <3>2, <3>3 DEF Finalize
  <2>6. CASE ProcessCrash
    <3>1. instance' = instance /\ dead' = 1..instance
      BY <2>6 DEF ProcessCrash
    <3>2. instance \in 1..instance
      BY KernelAssumption DEF KernelInv, HistoryInv, HistoryTypeOK
    <3>3. QED BY <3>1, <3>2
  <2>7. CASE Load
    <3>1. Stands(store', KeyOf[c], aged)
      <4>1. CASE store.entry[KeyOf[c]] \notin aged \cup {None}
        BY <1>3, <2>7, <4>1, LoadKeeps DEF JournalInv
      <4>2. CASE instance \in dead
        <5>1. reserved[KeyOf[c]] = None /\ \A i \in Queues : tail[i] = <<>>
          BY <1>3, <4>2 DEF KeyInv, DeadOK
        <5>2. \A i \in Queues : ~DoneIn(c, tail[i])
          BY <5>1 DEF DoneIn
        <5>3. OnRecord(c) /\ c \notin aged
          BY <2>1 DEF Living
        <5>4. DoneIn(c, disk)
          BY <5>2, <5>3, OnRecordIsDoneIn
        <5>5. PICK n \in 1..Len(disk) : disk[n].by = c /\ SaysDone(disk[n])
          BY <5>4 DEF DoneIn
        <5>6. QED BY <1>2, <2>7, <5>1, <5>3, <5>5, LoadKeeps DEF JournalInv
      <4>3. QED BY <2>2, <4>1, <4>2
    <3>2. aged' = aged
      BY <2>7 DEF Load
    <3>3. QED BY <1>2, <3>1, <3>2 DEF Stands
  <2>8. ~WindowPasses
    <3>1. home[c] # None /\ told[c] \in Returned
      BY <2>1 DEF Living
    <3>2. answer[c] \in Returned
      BY <3>1 DEF KeyInv, CallFacts, Returned
    <3>3. phase[c] = "over"
      BY <3>2, AnsweredIsOver DEF KernelInv, Returned
    <3>4. QED BY <1>2, <1>5, <3>3 DEF WindowPasses, Finalized
  <2>9. ASSUME NEW o \in Ops, \/ Dequeue(o) \/ DequeueRefused(o) \/ Land(o) \/ Adopt(o)
                              \/ \E v \in Settlements : HandlerSettles(o, v)
        PROVE  Held
    BY <2>3, <2>9 DEF Dequeue, DequeueRefused, Land, Adopt, HandlerSettles
  <2>10. ASSUME NEW i \in Queues, Flush(i) \/ QueueTick(i) PROVE Held
    BY <2>3, <2>10 DEF Flush, QueueTick, kvars
  <2>11. CASE OtherCall \/ Unload \/ UNCHANGED vars
    BY <2>3, <2>11 DEF OtherCall, Unload, vars, kvars
  <2>12. QED BY <2>4, <2>5, <2>6, <2>7, <2>8, <2>9, <2>10, <2>11 DEF KernelNext, CallStep
<1>6. QED BY <1>4, <1>5

\* A second write under a key lands only when the first call had ended and its key was
\* no longer held.
LEMMA PairsStep ==
  ASSUME KernelInv, KeyInv, JournalInv, LivingHeld, PairsOK, Settled, [KernelNext]_vars
  PROVE  PairsOK'
<1>1. writes \in Seq(Ops) /\ (writes' = writes \/ \E c \in Ops : Land(c))
  BY StepFrame DEF KernelInv, HistoryInv, HistoryTypeOK
<1>2. store.evicted \subseteq store'.evicted /\ aged \subseteq aged' /\ unread \subseteq unread'
  BY OnlyGrow
<1> SUFFICES ASSUME NEW c \in Ops, NEW d \in Ops, Keyed(c), KeyOf[c] = KeyOf[d],
                    NEW m \in 1..Len(writes'), NEW n \in 1..Len(writes'),
                    m < n, writes'[m] = c, writes'[n] = d
             PROVE  Excused(c, d)'
  BY DEF PairsOK, Keyed
<1>3. ASSUME n \in 1..Len(writes), writes[m] = c, writes[n] = d PROVE Excused(c, d)'
  <2>1. m \in 1..Len(writes)
    BY <1>1, <1>3
  <2>2. Excused(c, d)
    BY <1>3, <2>1 DEF PairsOK
  <2>3. told[c] # "none" /\ ~Living(c) => told'[c] # "none" /\ ~Living(c)'
    BY <1>2, LivingBefore DEF Settled
  <2>4. QED BY <2>2, <2>3 DEF Excused, Settled
<1>4. CASE writes' = writes
  BY <1>3, <1>4
<1>5. ASSUME NEW e \in Ops, Land(e) PROVE Excused(c, d)'
  <2>1. /\ phase[e] = "running" /\ home[e] # None /\ answer[e] \in {"none", "timeout"}
        /\ writes' = Append(writes, e) /\ \A j \in 1..Len(writes) : writes[j] # e
    BY <1>5, Landing DEF KernelInv
  <2>2. /\ UNCHANGED <<instance, dead, reserved, store, told, tail, disk, aged, unread, home, answer>>
    BY <1>5 DEF Land, qvars
  <2>3. Len(writes') = Len(writes) + 1 /\ Len(writes) \in Nat /\ writes'[Len(writes) + 1] = e
        /\ \A j \in 1..Len(writes) : writes'[j] = writes[j]
    BY <1>1, <2>1
  <2>4. m \in 1..Len(writes) /\ writes[m] = c
    BY <2>3
  <2>5. CASE n \in 1..Len(writes)
    BY <1>3, <2>3, <2>4, <2>5
  <2>6. CASE n = Len(writes) + 1 /\ answer[d] = "timeout"
    BY <2>2, <2>6 DEF Excused
  <2>7. CASE n = Len(writes) + 1 /\ answer[d] # "timeout"
    <3>1. d = e /\ c # d /\ answer[d] = "none" /\ home[c] # None
      BY <2>1, <2>3, <2>4, <2>7 DEF KernelInv, HistoryInv, WritersOK
    <3>2. told[d] = "none" /\ Keyed(d)
      BY <2>1, <3>1 DEF KeyInv, CallFacts, Keyed
    <3>3. reserved[KeyOf[c]] = d /\ KeyOf[c] \in Keys /\ d # None
      BY <2>1, <3>1, <3>2, KernelAssumption, NoneAssumption DEF KeyInv, ReservedOK, Keyed
    <3>4. told[c] # "none"
      BY <3>1, <3>3 DEF KeyInv, ReservedOK
    <3>5. ~Living(c)
      BY <3>3 DEF LivingHeld, KeyInv, DeadOK, KeyInOneState
    <3>6. ~Living(c)'
      BY <1>2, <3>4, <3>5, LivingBefore
    <3>7. QED BY <2>2, <3>4, <3>6 DEF Excused
  <2>8. QED BY <2>3, <2>5, <2>6, <2>7
<1>6. QED BY <1>1, <1>4, <1>5

LEMMA InitFullInv == KernelInit => LivingHeld /\ PairsOK /\ AgedOK
<1> SUFFICES ASSUME KernelInit PROVE LivingHeld /\ PairsOK /\ AgedOK
  OBVIOUS
<1>1. \A c \in Ops : ~Living(c)
  BY DEF KernelInit, QueueInit, Living
<1>2. writes = <<>> /\ aged = {}
  BY DEF KernelInit
<1>3. QED BY <1>1, <1>2 DEF LivingHeld, PairsOK, AgedOK

\* The whole invariant of the kernel.
THEOREM FullInvariance == KernelSpec => []FullInv
<1>1. KernelInit => FullInv
  BY InitKernelInv, InitKeyInv, InitJournalInv, InitFullInv DEF FullInv
<1>2. FullInv /\ [KernelNext]_vars => FullInv'
  <2> SUFFICES ASSUME KernelInv, KeyInv, JournalInv, LivingHeld, PairsOK, AgedOK, [KernelNext]_vars
               PROVE  FullInv'
    BY DEF FullInv
  <2>1. Settled
    BY StepSettles DEF KeyInv
  <2>2. KernelInv' /\ KeyInv' /\ JournalInv'
    BY <2>1, KernelStep, KeyStep, JournalStep DEF JournalInv
  <2>3. LivingHeld' /\ PairsOK' /\ AgedOK'
    BY <2>1, HeldStep, PairsStep, AgedStep
  <2>4. QED BY <2>2, <2>3 DEF FullInv
<1>3. QED BY <1>1, <1>2, PTL DEF KernelSpec

(***************************************************************************)
(* Keys are safe (Kernel.runMutation with IdempotencyStore): state is well *)
(* formed, the calls of a key have one outcome, a refused call writes      *)
(* nothing, and a key is in flight or completed, never both.               *)
(***************************************************************************)
THEOREM KeysAreSafe == KernelSpec => []KeysSafe
<1>1. FullInv => KeysSafe
  <2> SUFFICES ASSUME KernelInv, KeyInv, JournalInv
               PROVE  KeysSafe
    BY DEF FullInv
  <2>1. OneOutcome
    BY DEF KeyInv, AdoptsOK, OneOutcome
  <2>2. RefusedNeverWrites
    BY DEF KernelInv, HistoryInv, HistoryTypeOK, WritersOK, CallsOK, RefusedNeverWrites, Wrote, Refusals
  <2>3. KeyInOneState
    BY DEF KeyInv
  <2>4. KernelTypeOK
    <3>1. QueueTypeOK
      BY DEF KernelInv, QueueInv
    <3>2. /\ instance \in Queues /\ via \in [Ops -> Queues \cup {None}]
          /\ revBefore \in [Ops -> Nat \cup {None}] /\ writes \in Seq(Ops)
      BY DEF KernelInv, HistoryInv, HistoryTypeOK
    <3>3. dead \in SUBSET Queues
      BY <3>2, KernelAssumption DEF KeyInv, DeadOK
    <3>4. /\ ifRev \in [Ops -> Nat \cup {None}] /\ adopts \in [Ops -> Ops \cup {None}]
          /\ told \in [Ops -> Answers \cup {"mismatch"}] /\ aged \in SUBSET Ops /\ windows \in Nat
          /\ unread \in SUBSET Ops
      BY DEF KeyInv, KeyTypes
    <3>5. /\ reserved \in [Keys -> Ops \cup {None}]
          /\ \A k \in Keys : reserved[k] # None => KeyOf[reserved[k]] = k /\ ~Finalized(reserved[k])
      BY DEF KeyInv, ReservedOK, Finalized
    <3>6. /\ store.entry \in [Keys -> Ops \cup {None}] /\ store.recent \in Seq(Keys)
          /\ Len(store.recent) <= StoreMax
          /\ \A m, n \in 1..Len(store.recent) : store.recent[m] = store.recent[n] => m = n
          /\ \A k \in Keys : store.entry[k] # None <=> \E n \in 1..Len(store.recent) : store.recent[n] = k
      BY DEF KeyInv, StoredOK, StoreOK, NoRepeats
    <3>7. tail \in [Queues -> Seq(Records)] /\ disk \in Seq(Records)
      BY DEF JournalInv, RecordsOK
    <3>8. QED BY <3>1, <3>2, <3>3, <3>4, <3>5, <3>6, <3>7 DEF KernelTypeOK
  <2>5. QED BY <2>1, <2>2, <2>3, <2>4 DEF KeysSafe
<1>2. QED BY <1>1, FullInvariance, PTL

(***************************************************************************)
(* The journal is true (the finally of runMutation and the onLate record): *)
(* one record of a call's outcome, at most one correction, and a "deduped" *)
(* record of one instance only after the record it names.                  *)
(***************************************************************************)
THEOREM RecordsAreTrue == KernelSpec => []RecordsTrue
<1>1. FullInv => RecordsTrue
  BY DEF FullInv, JournalInv, RecordsTrue
<1>2. QED BY <1>1, FullInvariance, PTL

(***************************************************************************)
(* Idempotency (runMutation with claim, put and seedFromJournal): of two   *)
(* calls of a key that both wrote, one was abandoned, or the first did not *)
(* end with a returned envelope, or its window passed, or a full store     *)
(* dropped the key, or a crash took its record, or a load could not read   *)
(* it.                                                                     *)
(***************************************************************************)
THEOREM KeysWriteOnce == KernelSpec => []NoDuplicateWrite
<1>1. FullInv => NoDuplicateWrite
  <2> SUFFICES ASSUME FullInv, NEW m \in 1..Len(writes), NEW n \in 1..Len(writes), m < n,
                      Keyed(writes[m]), KeyOf[writes[m]] = KeyOf[writes[n]]
               PROVE  \/ answer[writes[m]] = "timeout" \/ answer[writes[n]] = "timeout"
                      \/ told[writes[m]] \in {"threw", "lost"}
                      \/ writes[m] \in aged
                      \/ KeyOf[writes[m]] \in store.evicted
                      \/ ~OnRecord(writes[m])
                      \/ writes[m] \in unread
    BY DEF NoDuplicateWrite
  <2>1. writes \in Seq(Ops)
    BY DEF FullInv, KernelInv, HistoryInv, HistoryTypeOK
  <2>2. PICK c \in Ops, d \in Ops : c = writes[m] /\ d = writes[n]
    BY <2>1
  <2>3. Excused(c, d) /\ Keyed(c)
    BY <2>2 DEF FullInv, PairsOK
  <2>4. home[c] # None /\ answer[c] \notin Refusals
    BY <2>2 DEF FullInv, KernelInv, HistoryInv, WritersOK
  <2>5. told[c] \in {"none", "lost", answer[c]} /\ answer[c] \in Answers
    BY <2>4 DEF FullInv, KeyInv, CallFacts, KernelInv, QueueInv, QueueTypeOK
  <2>6. told[c] \in Returned \cup {"none", "lost", "threw", "timeout"}
    BY <2>4, <2>5 DEF Refusals, Answers, Settlements, Returned, Thrown
  <2>7. told[c] = "timeout" => answer[c] = "timeout"
    BY <2>5
  <2>8. QED BY <2>2, <2>3, <2>4, <2>6, <2>7 DEF Excused, Living
<1>2. QED BY <1>1, FullInvariance, PTL

=============================================================================
