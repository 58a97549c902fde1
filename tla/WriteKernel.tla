----------------------------- MODULE WriteKernel -----------------------------
(***************************************************************************)
(* Kernel.runMutation (packages/host/src/kernel/index.ts): the write queue *)
(* (WriteQueue), the idempotency keys (IdempotencyStore and the            *)
(* reservations kept here), the if_rev precondition and the write journal, *)
(* over successive plugin instances of one process and across a crash.     *)
(*                                                                         *)
(* An operation is one call of runMutation.  What it asks for (ReqOf) and  *)
(* the key it presents (KeyOf) are fixed; whether it is conditional is     *)
(* too, and the revision it names is one the note had at some earlier      *)
(* time.  The vault is the sequence of writes that landed on the note, so  *)
(* the note's revision is its length.                                      *)
(***************************************************************************)
EXTENDS WriteQueue

CONSTANTS Keys, StoreMax,
          KeyOf,         \* the idempotency key of a call, or None
          ReqOf,         \* its operation and arguments
          Conditional,   \* the calls that carry if_rev
          Crashes,       \* whether the process may crash
          JournalFails,  \* whether an append may be lost, or the file unreadable at a load
          MaxWindows     \* how often the replay window may pass

INSTANCE IdempotencyStore

ASSUME KernelAssumption ==
  /\ None \notin Keys
  /\ KeyOf \in [Ops -> Keys \cup {None}]
  /\ Conditional \subseteq Ops
  /\ StoreMax \in Nat /\ StoreMax > 0
  /\ 1 \in Queues
  /\ \A q \in Queues : q \in Nat /\ q > 0 /\ 1..q \subseteq Queues

VARIABLES
  instance,  \* the plugin instance loaded last; its queue has the same number
  dead,      \* the instances that ended with a crash
  via,       \* via[c]: the instance call c came in through, or None
  ifRev,     \* ifRev[c]: the revision call c requires, or None
  revBefore, \* revBefore[c]: the revision probed at dequeue, or None
  writes,    \* the calls whose write landed in the vault, in that order
  reserved,  \* reserved[k]: the call that owns key k while in flight, or None
  store,     \* the completed entries (IdempotencyStore)
  adopts,    \* adopts[c]: the call whose outcome c is given instead of running
  told,      \* told[c]: what call c ended with
  tail,      \* tail[i]: instance i's journal records not yet written
  disk,      \* the journal file
  aged,      \* the calls whose replay window has passed
  windows,   \* how often it has passed
  unread     \* the calls whose record a load could not read, and the store did not hold

kvars == <<instance, dead, via, ifRev, revBefore, writes, reserved, store,
           adopts, told, tail, disk, aged, windows, unread>>
vars  == <<qvars, kvars>>

JournalOutcomes == (Answers \ {"none", "lost"})
                     \cup {"mismatch", "deduped", "late-ok", "late-error"}
Records == [by : Ops, outcome : JournalOutcomes, of : Ops]
Record(c, outcome, of) == [by |-> c, outcome |-> outcome, of |-> of]

KernelInit ==
  /\ QueueInit
  /\ instance = 1
  /\ dead = {}
  /\ via = [c \in Ops |-> None]
  /\ ifRev = [c \in Ops |-> None]
  /\ revBefore = [c \in Ops |-> None]
  /\ writes = <<>>
  /\ reserved = [k \in Keys |-> None]
  /\ store = EmptyStore
  /\ adopts = [c \in Ops |-> None]
  /\ told = [c \in Ops |-> "none"]
  /\ tail = [i \in Queues |-> <<>>]
  /\ disk = <<>>
  /\ aged = {}
  /\ windows = 0
  /\ unread = {}

-----------------------------------------------------------------------------
Rev     == Len(writes)
Wrote   == {writes[n] : n \in 1..Len(writes)}
Keyed(c) == KeyOf[c] # None

\* The call whose request a key stands for now: in flight first, then completed.
Holder(k) ==
  IF reserved[k] # None THEN reserved[k]
  ELSE IF store.entry[k] \notin aged THEN store.entry[k] ELSE None

\* Mutant of Same: the if_rev is left out of the argument digest.
SameArguments(c, h) == ReqOf[c] = ReqOf[h]

Same(c, h) == ReqOf[c] = ReqOf[h] /\ ifRev'[c] = ifRev'[h]

\* A stored envelope; a write known only from the journal replays as done.
Replayed(h) == IF told[h] \in Returned THEN told[h] ELSE "ok"

Journaled(i, r) == tail' = [tail EXCEPT ![i] = Append(@, r)]

(***************************************************************************)
(* A call comes in through instance i, which a crash did not end, with an  *)
(* if_rev its caller has read.  Each disjunct below is one outcome of      *)
(* IdempotencyStore.claim and what runMutation does with it before it      *)
(* first waits.                                                            *)
(***************************************************************************)
Arrives(c, i) ==
  /\ via[c] = None
  /\ i \in 1..instance
  /\ i \notin dead
  /\ via' = [via EXCEPT ![c] = i]
  /\ \E r \in (IF c \in Conditional THEN 0..Rev ELSE {None}) :
       ifRev' = [ifRev EXCEPT ![c] = r]
  /\ UNCHANGED <<instance, dead, revBefore, writes, disk, aged, windows, unread>>

Looked(c) == IF reserved[KeyOf[c]] # None THEN store ELSE Get(store, KeyOf[c], aged)

SubmitMismatch(c, i) ==
  /\ Arrives(c, i)
  /\ Keyed(c)
  /\ LET h == Holder(KeyOf[c]) IN h # None /\ ~Same(c, h)
  /\ store' = Looked(c)
  /\ told' = [told EXCEPT ![c] = "mismatch"]
  /\ Journaled(i, Record(c, "mismatch", c))
  /\ UNCHANGED <<qvars, reserved, adopts>>

SubmitReplay(c, i) ==
  /\ Arrives(c, i)
  /\ Keyed(c)
  /\ reserved[KeyOf[c]] = None
  /\ LET h == Holder(KeyOf[c])
     IN  /\ h # None
         /\ Same(c, h)
         /\ adopts' = [adopts EXCEPT ![c] = h]
         /\ told' = [told EXCEPT ![c] = Replayed(h)]
         /\ Journaled(i, Record(c, "deduped", h))
  /\ store' = Looked(c)
  /\ UNCHANGED <<qvars, reserved>>

SubmitWait(c, i) ==
  /\ Arrives(c, i)
  /\ Keyed(c)
  /\ LET h == reserved[KeyOf[c]]
     IN  h # None /\ Same(c, h) /\ adopts' = [adopts EXCEPT ![c] = h]
  /\ UNCHANGED <<qvars, reserved, store, told, tail>>

SubmitRun(c, i) ==
  /\ Arrives(c, i)
  /\ IF Keyed(c)
     THEN /\ Holder(KeyOf[c]) = None
          /\ reserved' = [reserved EXCEPT ![KeyOf[c]] = c]
          /\ store' = Looked(c)
     ELSE UNCHANGED <<reserved, store>>
  /\ Run(i, c)
  /\ UNCHANGED <<adopts, told, tail>>

Submit(c, i) ==
  SubmitMismatch(c, i) \/ SubmitReplay(c, i) \/ SubmitWait(c, i) \/ SubmitRun(c, i)

(***************************************************************************)
(* The queued closure.  It starts after the microtasks of the operation    *)
(* that held the slot before it; it probes the revision, refuses a failed  *)
(* if_rev, and otherwise runs the handler, whose write lands later.        *)
(***************************************************************************)
Finalized(p) == told[p] # "none"
SlotHandedOver(q) ==
  \A p \in Ops : home[p] = q /\ answer[p] \in Settlements \cup {"timeout"} => Finalized(p)

\* Mutant of Dequeue: the caller's if_rev is taken for the current revision.
DequeueTrusting(c) ==
  /\ Start(c)
  /\ SlotHandedOver(home[c])
  /\ revBefore' = [revBefore EXCEPT ![c] = IF c \in Conditional THEN ifRev[c] ELSE Rev]
  /\ UNCHANGED <<instance, dead, via, ifRev, writes, reserved, store, adopts, told,
                 tail, disk, aged, windows, unread>>

Dequeue(c) ==
  /\ Start(c)
  /\ SlotHandedOver(home[c])
  /\ revBefore' = [revBefore EXCEPT ![c] = Rev]
  /\ UNCHANGED <<instance, dead, via, ifRev, writes, reserved, store, adopts, told,
                 tail, disk, aged, windows, unread>>

Conflicts(c) == ifRev[c] # None /\ revBefore[c] # ifRev[c]

\* Mutant of Land: the handler runs before its if_rev is compared.
LandUnchecked(c) ==
  /\ phase[c] = "running"
  /\ c \notin Wrote
  /\ writes' = Append(writes, c)
  /\ UNCHANGED <<qvars, instance, dead, via, ifRev, revBefore, reserved, store,
                 adopts, told, tail, disk, aged, windows, unread>>

Land(c) ==
  /\ phase[c] = "running"
  /\ ~Conflicts(c)
  /\ c \notin Wrote
  /\ writes' = Append(writes, c)
  /\ UNCHANGED <<qvars, instance, dead, via, ifRev, revBefore, reserved, store,
                 adopts, told, tail, disk, aged, windows, unread>>

\* Mutant of LateRecord: every settlement is journaled as late.
LateRecordAlways(c, v) ==
  Journaled(home[c], Record(c, IF v = "ok" THEN "late-ok" ELSE "late-error", c))

\* onLate: an abandoned call that settles adds a corrective record.
LateRecord(c, v) ==
  IF answer[c] = "timeout"
  THEN Journaled(home[c], Record(c, IF v = "ok" THEN "late-ok" ELSE "late-error", c))
  ELSE UNCHANGED tail

HandlerSettles(c, v) ==
  /\ v = "conflict" <=> Conflicts(c)
  /\ v = "ok" => c \in Wrote
  /\ Settle(c, v)
  /\ LateRecord(c, v)
  /\ UNCHANGED <<instance, dead, via, ifRev, revBefore, writes, reserved, store,
                 adopts, told, disk, aged, windows, unread>>

DequeueRefused(c) ==
  /\ StartRefused(c)
  /\ LateRecord(c, "closed")
  /\ UNCHANGED <<instance, dead, via, ifRev, revBefore, writes, reserved, store,
                 adopts, told, disk, aged, windows, unread>>

(***************************************************************************)
(* The finally of runMutation: one journal record, then the key is         *)
(* released, and kept for replay if an envelope was returned.              *)
(***************************************************************************)
Finalize(c) ==
  /\ answer[c] \notin {"none", "lost"}
  /\ ~Finalized(c)
  /\ told' = [told EXCEPT ![c] = answer[c]]
  /\ Journaled(home[c], Record(c, answer[c], c))
  /\ IF Keyed(c) /\ reserved[KeyOf[c]] = c
     THEN /\ reserved' = [reserved EXCEPT ![KeyOf[c]] = None]
          /\ store' = IF answer[c] \in Returned THEN Put(store, KeyOf[c], c) ELSE store
     ELSE UNCHANGED <<reserved, store>>
  /\ UNCHANGED <<qvars, instance, dead, via, ifRev, revBefore, writes, adopts, disk,
                 aged, windows, unread>>

\* Mutants of Adopt: a waiter is woken before its owner's record is appended;
\* a waiter is woken only by a returned envelope.
AdoptEarly(c) ==
  /\ adopts[c] # None
  /\ ~Finalized(c)
  /\ answer[adopts[c]] # "none"
  /\ told' = [told EXCEPT ![c] = answer[adopts[c]]]
  /\ Journaled(via[c], Record(c, "deduped", adopts[c]))
  /\ UNCHANGED <<qvars, instance, dead, via, ifRev, revBefore, writes, reserved, store,
                 adopts, disk, aged, windows, unread>>

AdoptReturned(c) ==
  /\ adopts[c] # None
  /\ ~Finalized(c)
  /\ told[adopts[c]] \in Returned
  /\ told' = [told EXCEPT ![c] = told[adopts[c]]]
  /\ Journaled(via[c], Record(c, "deduped", adopts[c]))
  /\ UNCHANGED <<qvars, instance, dead, via, ifRev, revBefore, writes, reserved, store,
                 adopts, disk, aged, windows, unread>>

\* A waiter wakes and adopts its owner's outcome, a throw included.
Adopt(c) ==
  /\ adopts[c] # None
  /\ ~Finalized(c)
  /\ Finalized(adopts[c])
  /\ told' = [told EXCEPT ![c] = told[adopts[c]]]
  /\ Journaled(via[c], Record(c, "deduped", adopts[c]))
  /\ UNCHANGED <<qvars, instance, dead, via, ifRev, revBefore, writes, reserved, store,
                 adopts, disk, aged, windows, unread>>

(***************************************************************************)
(* The journal: an instance's records are written one after the other; a   *)
(* failed write is logged and dropped.  Each append nudges the queue of    *)
(* the same instance.                                                      *)
(***************************************************************************)
Flush(i) ==
  /\ tail[i] # <<>>
  /\ tail' = [tail EXCEPT ![i] = Tail(@)]
  /\ \/ disk' = Append(disk, Head(tail[i]))
     \/ JournalFails /\ disk' = disk
  /\ Nudge(i)
  /\ UNCHANGED <<instance, dead, via, ifRev, revBefore, writes, reserved, store,
                 adopts, told, aged, windows, unread>>

\* The queue's own steps: pump microtask, timer, clock.
QueueTick(q) ==
  /\ Pump(q) \/ TimerFires(q) \/ DeadlinePasses(q)
  /\ UNCHANGED kvars

\* Calls beyond the ones followed here nudge the loaded instance's queue too.
OtherCall ==
  /\ instance \notin closed
  /\ Nudge(instance)
  /\ UNCHANGED kvars

-----------------------------------------------------------------------------
\* Mutant of Unload: the queue is marked closed, its waiters are not refused.
UnloadKeepsWaiters ==
  /\ instance \notin closed
  /\ closed' = closed \cup {instance}
  /\ UNCHANGED <<pending, slot, overdue, home, phase, answer, kvars>>

\* onunload: the running instance's queue closes; key store and handlers live on.
Unload ==
  /\ Close(instance)
  /\ UNCHANGED kvars

(***************************************************************************)
(* The Obsidian process dies: memory is lost, the vault and the journal    *)
(* file stay.                                                              *)
(***************************************************************************)
ProcessCrash ==
  /\ Crashes
  /\ instance \notin dead
  /\ Crash(1..instance)
  /\ dead' = 1..instance
  /\ reserved' = [k \in Keys |-> None]
  /\ store' = Restarted(store)
  /\ told' = [c \in Ops |-> IF via[c] # None /\ ~Finalized(c) THEN "lost" ELSE told[c]]
  /\ tail' = [i \in Queues |-> <<>>]
  /\ UNCHANGED <<instance, via, ifRev, revBefore, writes, adopts, disk, aged, windows, unread>>

\* The keyed records that say the write happened, or that an envelope was returned.
SaysDone(r) == Keyed(r.by) /\ r.outcome \in Returned \cup {"late-ok"}
DoneCalls == [n \in 1..Len(disk) |-> IF SaysDone(disk[n]) THEN disk[n].by ELSE None]

\* Mutant of Load: the store is not seeded from the journal.
LoadUnseeded ==
  /\ instance \in closed
  /\ instance + 1 \in Queues
  /\ instance' = instance + 1
  /\ UNCHANGED <<qvars, dead, via, ifRev, revBefore, writes, reserved, store, adopts,
                 told, tail, disk, aged, windows, unread>>

\* The done calls whose entry only the journal can give back.
OnlyOnDisk ==
  {c \in Ops : (\E n \in 1..Len(disk) : DoneCalls[n] = c) /\ store.entry[KeyOf[c]] # c}

\* The next instance loads: its store is the process's own, seeded from the journal.
\* A journal that cannot be read seeds nothing, and the load goes on.
Load ==
  /\ instance \in closed
  /\ instance + 1 \in Queues
  /\ instance' = instance + 1
  /\ \/ /\ store' = Seed(store, DoneCalls, KeyOf, {k \in Keys : reserved[k] # None}, aged)
        /\ UNCHANGED unread
     \/ /\ JournalFails
        /\ unread' = unread \cup OnlyOnDisk
        /\ UNCHANGED store
  /\ UNCHANGED <<qvars, dead, via, ifRev, revBefore, writes, reserved, adopts, told,
                 tail, disk, aged, windows>>

\* Ten minutes pass: every call that is over is now older than the replay window.
WindowPasses ==
  /\ windows < MaxWindows
  /\ windows' = windows + 1
  /\ aged' = aged \cup {c \in Ops : Finalized(c) /\ phase[c] \notin {"dequeued", "running"}}
  /\ UNCHANGED <<qvars, instance, dead, via, ifRev, revBefore, writes, reserved, store,
                 adopts, told, tail, disk, unread>>

CallStep(c) ==
  \/ \E i \in Queues : Submit(c, i)
  \/ Dequeue(c)
  \/ DequeueRefused(c)
  \/ Land(c)
  \/ \E v \in Settlements : HandlerSettles(c, v)
  \/ Finalize(c)
  \/ Adopt(c)

KernelNext ==
  \/ \E c \in Ops : CallStep(c)
  \/ \E i \in Queues : Flush(i) \/ QueueTick(i)
  \/ OtherCall
  \/ Unload
  \/ ProcessCrash
  \/ Load
  \/ WindowPasses

KernelSpec == KernelInit /\ [][KernelNext]_vars

-----------------------------------------------------------------------------
(***************************************************************************)
(* Fairness: other calls keep coming to the loaded instance.  Nothing      *)
(* promises that a timer fires or a handler settles, save that a refused   *)
(* if_rev throws at once.  The rest are microtasks, the clock, and the     *)
(* chained file writes of the journal.                                     *)
(***************************************************************************)
KernelFairness ==
  /\ \A c \in Ops : /\ WF_vars(Dequeue(c)) /\ WF_vars(DequeueRefused(c))
                    /\ WF_vars(HandlerSettles(c, "conflict"))
                    /\ WF_vars(Finalize(c)) /\ WF_vars(Adopt(c))
  /\ \A i \in Queues : /\ WF_vars(Pump(i) /\ UNCHANGED kvars)
                       /\ WF_vars(DeadlinePasses(i) /\ UNCHANGED kvars)
                       /\ WF_vars(Flush(i))
  /\ WF_vars(OtherCall)

FairKernelSpec == KernelSpec /\ KernelFairness

-----------------------------------------------------------------------------
\* Types; the store's map, its recency order and its cap agree; a reserved key
\* belongs to a call that has not ended.
KernelTypeOK ==
  /\ QueueTypeOK
  /\ instance \in Queues /\ dead \in SUBSET Queues
  /\ via \in [Ops -> Queues \cup {None}]
  /\ ifRev \in [Ops -> Nat \cup {None}] /\ revBefore \in [Ops -> Nat \cup {None}]
  /\ writes \in Seq(Ops)
  /\ reserved \in [Keys -> Ops \cup {None}]
  /\ store.entry \in [Keys -> Ops \cup {None}] /\ store.recent \in Seq(Keys)
  /\ adopts \in [Ops -> Ops \cup {None}]
  /\ told \in [Ops -> Answers \cup {"mismatch"}]
  /\ tail \in [Queues -> Seq(Records)] /\ disk \in Seq(Records)
  /\ aged \in SUBSET Ops /\ windows \in Nat /\ unread \in SUBSET Ops
  /\ Len(store.recent) <= StoreMax
  /\ \A m, n \in 1..Len(store.recent) : store.recent[m] = store.recent[n] => m = n
  /\ \A k \in Keys : store.entry[k] # None <=> \E n \in 1..Len(store.recent) : store.recent[n] = k
  /\ \A k \in Keys : reserved[k] # None => KeyOf[reserved[k]] = k /\ ~Finalized(reserved[k])

\* The journal: the records written (list 0) and, of each instance, those on their way.
JournalOf(i) == IF i = 0 THEN disk ELSE tail[i]
Places       == UNION {{i} \X (1..Len(JournalOf(i))) : i \in {0} \cup Queues}
RecordAt(p)  == JournalOf(p[1])[p[2]]
PlacesOf(c)  == {p \in Places : RecordAt(p).by = c}
IsLate(r)    == r.outcome \in {"late-ok", "late-error"}

\* Some record, written or on its way, says that c's write happened.
OnRecord(c) == \E p \in PlacesOf(c) : SaysDone(RecordAt(p))

(***************************************************************************)
(* Idempotency: two calls with one key both write only if one of them was  *)
(* abandoned, or the first did not end with a returned envelope (its key   *)
(* was freed by a throw, or the process died under it), or its window      *)
(* passed, or a full store dropped the key, or a crash took its journal    *)
(* record with it, or a load after one could not read the journal          *)
(* (main.ts:676-691: such a load seeds nothing and goes on).               *)
(***************************************************************************)
NoDuplicateWrite ==
  \A m, n \in 1..Len(writes) :
    m < n /\ Keyed(writes[m]) /\ KeyOf[writes[m]] = KeyOf[writes[n]]
      => \/ answer[writes[m]] = "timeout" \/ answer[writes[n]] = "timeout"
         \/ told[writes[m]] \in {"threw", "lost"}
         \/ writes[m] \in aged
         \/ KeyOf[writes[m]] \in store.evicted
         \/ ~OnRecord(writes[m])
         \/ writes[m] \in unread

(***************************************************************************)
(* One key, one logical request: a call that was given another call's      *)
(* outcome asked for the same thing under the same precondition, and when  *)
(* it is told "ok", that other call did write.                             *)
(***************************************************************************)
OneOutcome ==
  \A c \in Ops : LET h == adopts[c] IN
    h # None /\ told[c] \notin {"none", "lost"}
      => /\ ReqOf[c] = ReqOf[h] /\ ifRev[c] = ifRev[h] /\ KeyOf[c] = KeyOf[h]
         /\ told[c] = "ok" => h \in Wrote
         /\ told[c] = told[h] \/ told[h] \in {"timeout", "lost"}

(***************************************************************************)
(* A call told that nothing was written wrote nothing, and never will: it  *)
(* was refused by a closed queue, by a failed if_rev, or for its key.      *)
(***************************************************************************)
RefusedNeverWrites ==
  \A c \in Ops : told[c] \in {"closed", "conflict", "mismatch"} => c \notin Wrote

(***************************************************************************)
(* if_rev: between the check at dequeue and the call's own write, nobody   *)
(* else writes the note but a call the queue abandoned, or one left        *)
(* running by another plugin instance.                                     *)
(***************************************************************************)
NoLostUpdate ==
  \A n \in 1..Len(writes) : LET c == writes[n] IN
    \A m \in (revBefore[c] + 1)..(n - 1) :
       answer[writes[m]] = "timeout" \/ answer[c] = "timeout" \/ home[writes[m]] # home[c]

(***************************************************************************)
(* The journal holds exactly one record per finished call, unless a crash  *)
(* or a failed append lost it, and at most one correction, only for a call *)
(* the queue abandoned.                                                    *)
(***************************************************************************)
OneRecordPerCall ==
  \A c \in Ops :
    /\ \A p, q \in PlacesOf(c) : IsLate(RecordAt(p)) = IsLate(RecordAt(q)) => p = q
    /\ told[c] \notin {"none", "lost"} /\ ~Crashes /\ ~JournalFails
         => \E p \in PlacesOf(c) : ~IsLate(RecordAt(p))
    /\ \A p \in PlacesOf(c) : IsLate(RecordAt(p)) => answer[c] = "timeout" /\ phase[c] = "over"

(***************************************************************************)
(* A key is never in flight and completed at once, also when a reload      *)
(* seeds the store from the journal under a call still running.            *)
(***************************************************************************)
KeyInOneState ==
  \A k \in Keys : reserved[k] # None => store.entry[k] \in aged \cup {None}

(***************************************************************************)
(* The finally of runMutation (index.ts:591-594): the record of a call     *)
(* precedes the "deduped" records that name it, where both came in through *)
(* one instance and no append fails.                                       *)
(***************************************************************************)
DedupeFollows ==
  \A n \in 1..Len(disk) :
    LET r == disk[n]
    IN  r.outcome = "deduped" /\ via[r.by] = via[r.of] /\ ~JournalFails
          => \E m \in 1..(n - 1) : disk[m].by = r.of

(***************************************************************************)
(* README.md:94: a call that fails or times out and is retried with the    *)
(* same key writes once.                                                   *)
(***************************************************************************)
RetryWritesOnce ==
  \A m, n \in 1..Len(writes) :
    m < n /\ Keyed(writes[m]) /\ KeyOf[writes[m]] = KeyOf[writes[n]]
      => writes[m] \in aged \/ KeyOf[writes[m]] \in store.evicted

\* The call that does the work of c: c itself, or the one it waits for.
Runner(c) == IF adopts[c] = None THEN c ELSE adopts[c]

(***************************************************************************)
(* Every call is answered, though no handler need ever settle and no timer *)
(* need ever fire, unless what it depends on was left holding the queue of *)
(* an unloaded instance.                                                   *)
(***************************************************************************)
CallsAnswered ==
  \A c \in Ops : via[c] # None
    ~> told[c] # "none" \/ (home[Runner(c)] \in closed /\ Holds(Runner(c)))

\* What the kernel promises of a key: well-formed state, one outcome for the calls of
\* a key, no write by a refused call, and a key reserved or stored but never both.
KeysSafe == KernelTypeOK /\ OneOutcome /\ RefusedNeverWrites /\ KeyInOneState

\* What the journal says of a call: one record of its outcome, and a deduped record only
\* after the record it points at.
RecordsTrue == OneRecordPerCall /\ DedupeFollows

=============================================================================
