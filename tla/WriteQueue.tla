----------------------------- MODULE WriteQueue -----------------------------
(***************************************************************************)
(* The serialized write queue of the host kernel                           *)
(* (packages/host/src/kernel/write-queue.ts).                              *)
(*                                                                         *)
(* One FIFO queue per plugin instance.  An operation is enqueued by run(), *)
(* becomes the holder of the queue's single slot when pump() dequeues it,  *)
(* starts one microtask later, and settles when its handler does.  A       *)
(* holder whose wall-clock budget is spent is ABANDONED: the caller is     *)
(* told "timeout", the slot is released, and the handler keeps running,    *)
(* because Obsidian has no cancellation.  A reload closes the queue and    *)
(* opens the next one; a crash ends every operation of the process.        *)
(*                                                                         *)
(* Wall-clock time is the set "overdue" of queues whose holder has spent   *)
(* its budget: the deadline may pass at any moment, and what matters is    *)
(* which events notice it (the timer, an enqueue, a nudge).                *)
(***************************************************************************)
EXTENDS Naturals, Sequences

CONSTANTS Ops,     \* the calls of run()
          Queues,  \* one queue per plugin instance
          None     \* no operation, no queue, no value

ASSUME NoneAssumption == None \notin Ops \cup Queues

VARIABLES
  pending,  \* pending[q]: operations waiting behind the holder, oldest first
  slot,     \* slot[q]: the operation holding queue q, or None
  closed,   \* the queues close() was called on
  overdue,  \* the queues whose holder has spent its wall-clock budget
  home,     \* home[o]: the queue run(o) was called on, or None before that
  phase,    \* phase[o]: how far the operation's own execution is
  answer    \* answer[o]: how the promise run() returned was settled

qvars == <<pending, slot, closed, overdue, home, phase, answer>>

\* A settled handler returned an envelope ("ok", or the isError "failed") or threw.
Returned    == {"ok", "failed"}
Thrown      == {"threw", "conflict"}
Settlements == Returned \cup Thrown
Answers     == Settlements \cup {"none", "timeout", "closed", "lost"}

QueueTypeOK ==
  /\ pending \in [Queues -> Seq(Ops)]
  /\ slot \in [Queues -> Ops \cup {None}]
  /\ closed \in SUBSET Queues
  /\ overdue \in SUBSET Queues
  /\ home \in [Ops -> Queues \cup {None}]
  /\ phase \in [Ops -> {"waiting", "dequeued", "running", "over"}]
  /\ answer \in [Ops -> Answers]

QueueInit ==
  /\ pending = [q \in Queues |-> <<>>]
  /\ slot = [q \in Queues |-> None]
  /\ closed = {}
  /\ overdue = {}
  /\ home = [o \in Ops |-> None]
  /\ phase = [o \in Ops |-> "waiting"]
  /\ answer = [o \in Ops |-> "none"]

-----------------------------------------------------------------------------
Holds(o) == home[o] # None /\ slot[home[o]] = o

\* Abandoned: the caller has its timeout, the handler is not over.
Abandoned(o) == answer[o] = "timeout" /\ phase[o] \in {"dequeued", "running"}

\* Mutants of NudgeWith: the wall clock is not consulted; a busy slot is not
\* respected; the newest waiter goes first.
NudgeWithoutClock(q, s) ==
  LET next == s # <<>> /\ slot[q] = None
  IN  /\ pending' = [pending EXCEPT ![q] = IF next THEN Tail(s) ELSE s]
      /\ slot' = [slot EXCEPT ![q] = IF next THEN Head(s) ELSE @]
      /\ phase' = IF next THEN [phase EXCEPT ![Head(s)] = "dequeued"] ELSE phase
      /\ UNCHANGED <<overdue, answer>>

NudgeIntoBusySlot(q, s) ==
  /\ pending' = [pending EXCEPT ![q] = IF s # <<>> THEN Tail(s) ELSE s]
  /\ slot' = [slot EXCEPT ![q] = IF s # <<>> THEN Head(s) ELSE @]
  /\ overdue' = overdue \ {q}
  /\ phase' = IF s # <<>> THEN [phase EXCEPT ![Head(s)] = "dequeued"] ELSE phase
  /\ UNCHANGED answer

NudgeNewestFirst(q, s) ==
  LET next == s # <<>> /\ slot[q] = None
      last == Len(s)
  IN  /\ pending' = [pending EXCEPT ![q] = IF next THEN SubSeq(s, 1, last - 1) ELSE s]
      /\ slot' = [slot EXCEPT ![q] = IF next THEN s[last] ELSE @]
      /\ phase' = IF next THEN [phase EXCEPT ![s[last]] = "dequeued"] ELSE phase
      /\ UNCHANGED <<overdue, answer>>

(***************************************************************************)
(* nudge() with the pending list s: abandon a holder whose budget is       *)
(* spent, then give a free slot to the oldest waiter.                      *)
(***************************************************************************)
NudgeWith(q, s) ==
  LET expired == q \in overdue
      next    == s # <<>> /\ (slot[q] = None \/ expired)
  IN  /\ pending' = [pending EXCEPT ![q] = IF next THEN Tail(s) ELSE s]
      /\ slot' = [slot EXCEPT ![q] = IF next THEN Head(s)
                                     ELSE IF expired THEN None ELSE @]
      /\ overdue' = overdue \ {q}
      /\ phase' = IF next THEN [phase EXCEPT ![Head(s)] = "dequeued"] ELSE phase
      /\ answer' = IF expired THEN [answer EXCEPT ![slot[q]] = "timeout"] ELSE answer

\* run(): refused by a closed queue, otherwise pushed and the queue nudged.
RunRefused(q, o) ==
  /\ home[o] = None
  /\ q \in closed
  /\ home' = [home EXCEPT ![o] = q]
  /\ phase' = [phase EXCEPT ![o] = "over"]
  /\ answer' = [answer EXCEPT ![o] = "closed"]
  /\ UNCHANGED <<pending, slot, closed, overdue>>

RunAccepted(q, o) ==
  /\ home[o] = None
  /\ q \notin closed
  /\ home' = [home EXCEPT ![o] = q]
  /\ NudgeWith(q, Append(pending[q], o))
  /\ UNCHANGED closed

Run(q, o) == RunRefused(q, o) \/ RunAccepted(q, o)

\* An external nudge: main.ts calls it after every journal append.
Nudge(q) == NudgeWith(q, pending[q]) /\ UNCHANGED <<closed, home>>

\* The pump a released slot schedules as a microtask.
Pump(q) ==
  /\ slot[q] = None
  /\ pending[q] # <<>>
  /\ NudgeWith(q, pending[q])
  /\ UNCHANGED <<closed, home>>

\* The per-operation timer: best effort, suspended in an occluded window.
TimerFires(q) ==
  /\ q \in overdue
  /\ slot' = [slot EXCEPT ![q] = None]
  /\ overdue' = overdue \ {q}
  /\ answer' = [answer EXCEPT ![slot[q]] = "timeout"]
  /\ UNCHANGED <<pending, closed, home, phase>>

\* The wall clock passes the holder's deadline.
DeadlinePasses(q) ==
  /\ slot[q] # None
  /\ q \notin overdue
  /\ overdue' = overdue \cup {q}
  /\ UNCHANGED <<pending, slot, closed, home, phase, answer>>

\* Mutants of Release: an abandoned operation answers too; the clock is left on.
ReleaseAlways(o, v) ==
  /\ slot' = [slot EXCEPT ![home[o]] = None]
  /\ overdue' = overdue \ {home[o]}
  /\ answer' = [answer EXCEPT ![o] = v]

ReleaseClockRunning(o, v) ==
  IF Holds(o)
  THEN /\ slot' = [slot EXCEPT ![home[o]] = None]
       /\ answer' = [answer EXCEPT ![o] = v]
       /\ UNCHANGED overdue
  ELSE UNCHANGED <<slot, overdue, answer>>

\* The caller learns o's settlement v only if o still holds the slot.
Release(o, v) ==
  IF Holds(o)
  THEN /\ slot' = [slot EXCEPT ![home[o]] = None]
       /\ overdue' = overdue \ {home[o]}
       /\ answer' = [answer EXCEPT ![o] = v]
  ELSE UNCHANGED <<slot, overdue, answer>>

\* The microtask after the dequeue: a queue closed in between refuses the operation.
StartRefused(o) ==
  /\ phase[o] = "dequeued"
  /\ home[o] \in closed
  /\ phase' = [phase EXCEPT ![o] = "over"]
  /\ Release(o, "closed")
  /\ UNCHANGED <<pending, closed, home>>

Start(o) ==
  /\ phase[o] = "dequeued"
  /\ home[o] \notin closed
  /\ phase' = [phase EXCEPT ![o] = "running"]
  /\ UNCHANGED <<pending, slot, closed, overdue, home, answer>>

\* The handler settles; an abandoned one settles late and nobody is answered.
Settle(o, v) ==
  /\ phase[o] = "running"
  /\ phase' = [phase EXCEPT ![o] = "over"]
  /\ Release(o, v)
  /\ UNCHANGED <<pending, closed, home>>

\* Mutant of Close: the waiters are dropped, their promises never settled.
CloseDropsWaiters(q) ==
  /\ q \notin closed
  /\ closed' = closed \cup {q}
  /\ pending' = [pending EXCEPT ![q] = <<>>]
  /\ UNCHANGED <<slot, overdue, home, phase, answer>>

\* close() at plugin unload: refuse every waiter, leave the holder to finish.
Close(q) ==
  LET waiting == {pending[q][i] : i \in 1..Len(pending[q])}
  IN  /\ q \notin closed
      /\ closed' = closed \cup {q}
      /\ pending' = [pending EXCEPT ![q] = <<>>]
      /\ phase' = [o \in Ops |-> IF o \in waiting THEN "over" ELSE phase[o]]
      /\ answer' = [o \in Ops |-> IF o \in waiting THEN "closed" ELSE answer[o]]
      /\ UNCHANGED <<slot, overdue, home>>

\* The process dies: every queue opened so far is gone, with all it was running.
Crash(opened) ==
  LET dead == {o \in Ops : home[o] # None /\ phase[o] # "over"}
  IN  /\ \A o \in Ops : home[o] # None => home[o] \in opened
      /\ closed' = closed \cup opened
      /\ pending' = [q \in Queues |-> <<>>]
      /\ slot' = [q \in Queues |-> None]
      /\ overdue' = {}
      /\ phase' = [o \in Ops |-> IF o \in dead THEN "over" ELSE phase[o]]
      /\ answer' = [o \in Ops |-> IF o \in dead /\ answer[o] = "none"
                                  THEN "lost" ELSE answer[o]]
      /\ UNCHANGED home

-----------------------------------------------------------------------------
OpStep(o) ==
  \/ StartRefused(o)
  \/ Start(o)
  \/ \E v \in Settlements : Settle(o, v)

QueueStep(q) ==
  \/ Nudge(q)
  \/ Pump(q)
  \/ TimerFires(q)
  \/ DeadlinePasses(q)
  \/ Close(q)

QueueNext ==
  \/ \E q \in Queues, o \in Ops : Run(q, o)
  \/ \E o \in Ops : OpStep(o)
  \/ \E q \in Queues : QueueStep(q)
  \/ \E opened \in SUBSET Queues : Crash(opened)

QueueSpec == QueueInit /\ [][QueueNext]_qvars

(***************************************************************************)
(* Fairness.  Microtasks always run (Pump, Start, StartRefused) and the    *)
(* clock always advances (DeadlinePasses).  An open queue keeps being      *)
(* nudged, because callers are still trying to write; nothing nudges the   *)
(* queue of an unloaded instance.  Neither the timer nor any handler is    *)
(* fair: a timer is suspended with its window, a handler may never settle. *)
(***************************************************************************)
QueueFairness ==
  /\ \A q \in Queues : /\ WF_qvars(Pump(q))
                       /\ WF_qvars(DeadlinePasses(q))
                       /\ WF_qvars(q \notin closed /\ Nudge(q))
  /\ \A o \in Ops : WF_qvars(Start(o)) /\ WF_qvars(StartRefused(o))

FairQueueSpec == QueueSpec /\ QueueFairness

-----------------------------------------------------------------------------
(***************************************************************************)
(* Types; a budget runs only while someone holds the slot, and a closed    *)
(* queue has no waiters.                                                   *)
(***************************************************************************)
QueueStateOK ==
  /\ QueueTypeOK
  /\ \A q \in overdue : slot[q] # None
  /\ \A q \in closed : pending[q] = <<>>

InPending(o) == \E q \in Queues : \E i \in 1..Len(pending[q]) : pending[q][i] = o

(***************************************************************************)
(* Serialization: an operation that is executing holds its queue's slot,   *)
(* unless its caller was already told that it timed out.  So at most one   *)
(* operation of a queue that is not abandoned executes at a time.          *)
(***************************************************************************)
Serialized ==
  \A o \in Ops : phase[o] \in {"dequeued", "running"}
                  => Holds(o) \/ answer[o] = "timeout"

(***************************************************************************)
(* No operation is lost: one that was submitted and has no answer is       *)
(* waiting in its queue or holds the slot, and it is there only once.      *)
(***************************************************************************)
NothingLost ==
  \A o \in Ops : home[o] # None /\ answer[o] = "none" => InPending(o) # Holds(o)

(***************************************************************************)
(* The promise of run() is settled once: whichever of the handler, the     *)
(* timer, a nudge and close() comes first owns the outcome.                *)
(***************************************************************************)
AnsweredOnce ==
  [][\A o \in Ops : answer[o] # "none" => answer'[o] = answer[o]]_qvars

(***************************************************************************)
(* FIFO: an operation is never dequeued while one enqueued before it on    *)
(* the same queue goes on waiting.                                         *)
(***************************************************************************)
NoOvertaking ==
  [][\A q \in Queues : \A i, j \in 1..Len(pending[q]) :
       i < j /\ phase'[pending[q][j]] = "dequeued" => phase'[pending[q][i]] # "waiting"]_qvars

(***************************************************************************)
(* The queue never wedges: with no timer and no handler that ever settles, *)
(* every operation is answered, except a holder left behind by an unload   *)
(* (its queue is closed and gets no more events).                          *)
(***************************************************************************)
NeverWedged ==
  \A o \in Ops : home[o] # None
                  ~> answer[o] # "none" \/ (home[o] \in closed /\ Holds(o))

\* What the queue promises of its state: it is well formed, one operation runs at a
\* time, and none is lost (WriteQueue).
QueueSafe == QueueStateOK /\ Serialized /\ NothingLost

=============================================================================
