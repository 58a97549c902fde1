------------------------------ MODULE Mandates ------------------------------
(***************************************************************************)
(* Bounded delegation in the governor: drafts, grants, revocations and     *)
(* charges are events of one log, and what holds is their fold             *)
(* (kernel/mandates/lifecycle.ts).  The agents draft, the pane grants and  *)
(* revokes (wiring/mandate-wiring.ts), the write observer stamps proposals *)
(* with the session's mandate and charges it (wiring/write-observer.ts).   *)
(* They share the store's cache of the log's lines, and wait for the disk  *)
(* between what they read and what they append.                            *)
(***************************************************************************)
EXTENDS Naturals, Sequences, FiniteSets, SequencesExt

CONSTANTS
  Drafts,      \* numbers of drafts, in the order of the negotiation
  CounterOf,   \* CounterOf[d]: the draft that d narrows, 0 if none
  Cap,         \* proposals that a mandate's budget allows
  Verbs,       \* numbers of calls; an activation's mandate has its number
  OldGrants,   \* numbers of mandates of earlier runs
  Starts,      \* where it may begin: the lines of earlier runs, the mandate that the
               \* session's record names, what each call will ask for (verb, number)
  MaxRefusals  \* bound: appends that the disk refuses

ASSUME MandateAssumption ==
  /\ Drafts \cup Verbs \cup OldGrants \subseteq Nat \ {0} /\ Verbs \cap OldGrants = {}
  /\ IsFiniteSet(Verbs)
  /\ CounterOf \in [Drafts -> Drafts \cup {0}] /\ \A d \in Drafts : CounterOf[d] < d
  /\ Cap \in Nat \ {0} /\ MaxRefusals \in Nat

MandateIds == Verbs \cup OldGrants

\* Events: `of` is the number of a draft or a mandate, `over` what a grant replaces.
Event(k, of)       == [kind |-> k, of |-> of, draft |-> 0, over |-> 0]
Activated(m, d, o) == [kind |-> "activated", of |-> m, draft |-> d, over |-> o]

VARIABLES
  mandateLog,  \* what the lines of mandates.jsonl fold to
  lines,       \* what the cached lines fold to, in a set; {} before the first read
  arrays,      \* how many arrays the cache has been: each first read makes one
  verbs,       \* verbs[c]: what call c does and how far it is
  sending,     \* calls whose line waits in the chain of appends
  governing,   \* the mandate that the session's record names, 0 if none
  lapsed,      \* mandates whose time is up
  refusals     \* calls whose append the disk refused

mvars == <<mandateLog, lines, arrays, verbs, sending, governing, lapsed, refusals>>

\* `gone`, `beside` and `rivals` are history: see Stamp and LookUp.
FreshVerb == [verb |-> "none", at |-> "idle", on |-> 0, ev |-> Event("none", 0), array |-> 0,
          seen |-> {}, gone |-> FALSE, beside |-> 0, rivals |-> {}]

NoMandates == [draft |-> [d \in Drafts |-> "none"], used |-> [m \in MandateIds |-> 0],
          grant |-> [m \in MandateIds |-> [status |-> "none", draft |-> 0]]]

CloseDraft(s, d, to) == IF d # 0 /\ s.draft[d] = "open" THEN [s EXCEPT !.draft[d] = to] ELSE s

\* Mutant of End: the mandate that is replaced keeps its status.
EndKeepsOld(s, m, to) ==
  IF to # "superseded" /\ s.grant[m].status = "active"
  THEN [s EXCEPT !.grant[m].status = to] ELSE s

\* Mutant of End: whatever the mandate was.
EndAny(s, m, to) == IF m # 0 THEN [s EXCEPT !.grant[m].status = to] ELSE s

End(s, m, to) ==
  IF m # 0 /\ s.grant[m].status = "active" THEN [s EXCEPT !.grant[m].status = to] ELSE s

\* One line of foldMandateEvents; a line that collides with the state changes nothing.
Apply(s, e) ==
  CASE e.kind = "drafted" /\ s.draft[e.of] = "none" ->
         CloseDraft([s EXCEPT !.draft[e.of] = "open"], CounterOf[e.of], "superseded")
    [] e.kind = "declined" -> CloseDraft(s, e.of, "declined")
    [] e.kind = "activated" /\ s.grant[e.of].status = "none" ->
         End(CloseDraft([s EXCEPT !.grant[e.of] = [status |-> "active", draft |-> e.draft]],
                   e.draft, "activated"), e.over, "superseded")
    [] e.kind = "usage" /\ s.grant[e.of].status # "none" -> [s EXCEPT !.used[e.of] = @ + 1]
    [] e.kind = "revoked" /\ s.grant[e.of].status # "none" ->
         [s EXCEPT !.grant[e.of].status = "revoked"]
    [] e.kind = "exhausted" -> End(s, e.of, "exhausted")
    [] OTHER -> s

Fold(s) == FoldLeft(Apply, NoMandates, s)

\* What lines fold to: of each draft its status, of each mandate its charges and its grant.
Folds == [draft : [Drafts -> {"none", "open", "declined", "superseded", "activated"}],
          used  : [MandateIds -> Nat],
          grant : [MandateIds -> [status : {"none", "active", "superseded", "revoked", "exhausted"},
                                  draft  : Drafts \cup {0}]]]

\* The drafts that d narrows, over all the rounds of the negotiation.
Narrowed ==
  [d \in Drafts |->
     {e \in Drafts : \A T \in SUBSET Drafts :
        CounterOf[d] \in T \cup {0} /\ (\A x \in T : CounterOf[x] \in T \cup {0}) => e \in T}]

\* Of one negotiation.
Related(d, e) == d = e \/ d \in Narrowed[e] \/ e \in Narrowed[d]

\* A draft is drafted after what it narrows, which is then no longer open; a grant
\* closes its draft, and what was never granted was never charged.
Orderly(s) ==
  /\ \A d \in Drafts : s.draft[d] # "none" /\ CounterOf[d] # 0 => s.draft[CounterOf[d]] \notin {"none", "open"}
  /\ \A m \in MandateIds :
       IF s.grant[m].status = "none" THEN s.used[m] = 0
       ELSE s.grant[m].draft \in Drafts /\ s.draft[s.grant[m].draft] \notin {"none", "open"}

\* Nothing of the earlier runs raced: one grant of a negotiation, and no budget spent.
Unraced(s) ==
  LET active == {m \in MandateIds : s.grant[m].status = "active"}
  IN /\ \A m, n \in active : m # n => ~Related(s.grant[m].draft, s.grant[n].draft)
     /\ \A m \in MandateIds : s.used[m] <= Cap /\ (m \in active => s.used[m] < Cap)

ASSUME StartAssumption ==
  \A s \in Starts :
    /\ Fold(s.log) \in Folds /\ Orderly(Fold(s.log)) /\ Unraced(Fold(s.log))
    /\ s.bound \in MandateIds \cup {0}
    /\ \A c \in Verbs : \/ s.ask[c][1] \in {"draft", "decline", "activate"} /\ s.ask[c][2] \in Drafts
                        \/ s.ask[c][1] = "revoke" /\ s.ask[c][2] \in MandateIds
                        \/ s.ask[c][1] = "write" /\ s.ask[c][2] = 0

MandatesInit ==
  /\ \E s \in Starts :
       /\ mandateLog = Fold(s.log) /\ governing = s.bound
       /\ verbs = [c \in Verbs |-> [FreshVerb EXCEPT !.verb = s.ask[c][1], !.on = s.ask[c][2]]]
  /\ lines = {} /\ arrays = 0 /\ sending = <<>> /\ lapsed = {} /\ refusals = {}

-----------------------------------------------------------------------------
Seen == CHOOSE s \in lines : TRUE

Grants(s, d) == {m \in MandateIds : s.grant[m] = [status |-> "active", draft |-> d]}

\* Mutant of Replaced: only the draft that d narrows itself is looked at.
ReplacedNear(s, d) ==
  LET near == IF CounterOf[d] = 0 THEN {} ELSE Grants(s, CounterOf[d])
  IN IF near = {} THEN 0 ELSE CHOOSE m \in near : TRUE

\* The grant that the activation of d replaces: an active one, the nearest up the chain.
Nearest(s, d) ==
  {m \in MandateIds : \E e \in Narrowed[d] :
     m \in Grants(s, e) /\ \A x \in Narrowed[d] : Grants(s, x) # {} => x <= e}

Replaced(s, d) == IF Nearest(s, d) = {} THEN 0 ELSE CHOOSE m \in Nearest(s, d) : TRUE

-----------------------------------------------------------------------------
StoreSame == UNCHANGED <<mandateLog, lines, arrays, governing, lapsed, refusals>>
GoTo(c, at) == verbs' = [verbs EXCEPT ![c].at = at] /\ StoreSame /\ UNCHANGED sending

\* append: the line is handed to the chain; it will be pushed to the array that is the cache now.
Enqueue(c, ev) ==
  /\ sending' = Append(sending, c) /\ StoreSame
  /\ verbs' = [verbs EXCEPT ![c].at = "queued", ![c].ev = ev, ![c].array = arrays]

\* A call begins; before the cache is filled it must read the file.
BeginCall(c) == verbs[c].at = "idle" /\ GoTo(c, IF lines = {} THEN "cold" ELSE "look")

ReadFile(c) ==
  /\ verbs[c].at = "cold"
  /\ verbs' = [verbs EXCEPT ![c].at = "read", ![c].seen = {mandateLog}]
  /\ StoreSame /\ UNCHANGED sending

\* allLines: what was read becomes the cache, also where another call has filled it meanwhile.
FillCache(c) ==
  /\ verbs[c].at = "read" /\ lines' = verbs[c].seen /\ arrays' = arrays + 1
  /\ verbs' = [verbs EXCEPT ![c].at = "look", ![c].seen = {}]
  /\ UNCHANGED <<mandateLog, sending, governing, lapsed, refusals>>

\* The verbs of the store that read, decide and append.
AppendEvent(c) ==
  /\ verbs[c].at = "look"
  /\ LET on == verbs[c].on
     IN \/ /\ verbs[c].verb = "draft"
           /\ IF Seen.draft[on] = "none" /\ (CounterOf[on] # 0 => Seen.draft[CounterOf[on]] # "none")
              THEN Enqueue(c, Event("drafted", on)) ELSE GoTo(c, "refused")
        \/ /\ verbs[c].verb = "decline"
           /\ IF Seen.draft[on] = "open" THEN Enqueue(c, Event("declined", on)) ELSE GoTo(c, "refused")
        \/ /\ verbs[c].verb = "revoke"
           /\ IF Seen.grant[on].status # "none"
              THEN Enqueue(c, Event("revoked", on)) ELSE GoTo(c, "refused")

\* The pane's activate: the terms, and which grant this one replaces.
LookUp(c) ==
  /\ verbs[c].at = "look" /\ verbs[c].verb = "activate"
  /\ IF Seen.draft[verbs[c].on] # "open" THEN GoTo(c, "refused")
     ELSE /\ verbs' = [verbs EXCEPT
               ![c].at = "grant", ![c].ev = Activated(c, verbs[c].on, Replaced(Seen, verbs[c].on)),
               ![c].rivals = {b \in Verbs : /\ verbs[b].verb = "activate" /\ verbs[b].at \in {"grant", "queued", "landed"}
                                           /\ Related(verbs[c].on, verbs[b].on)}]
          /\ StoreSame /\ UNCHANGED sending

\* The store's activate: the draft must still be open, in the cache.
Grant(c) ==
  /\ verbs[c].at = "grant"
  /\ IF Seen.draft[verbs[c].on] = "open" THEN Enqueue(c, verbs[c].ev) ELSE GoTo(c, "refused")

\* Mutant of Fits: the budget is left to the charge.
FitsAnyBudget(s, m) == m # 0 /\ s.grant[m].status = "active" /\ m \notin lapsed

Fits(s, m) == m # 0 /\ s.grant[m].status = "active" /\ m \notin lapsed /\ s.used[m] < Cap

\* observeWrite: the session's mandate, if the write fits it, is named on the proposal.
\* history: whether it was known to be revoked, and how many stamps were not yet charged.
Stamp(c) ==
  /\ verbs[c].at = "look" /\ verbs[c].verb = "write"
  /\ IF ~Fits(Seen, governing) THEN GoTo(c, "refused")
     ELSE /\ verbs' = [verbs EXCEPT
               ![c].at = "stamped", ![c].on = governing,
               ![c].gone = \E r \in Verbs : verbs[r].verb = "revoke" /\ verbs[r].on = governing
                                           /\ verbs[r].at = "done",
               ![c].beside = Cardinality({b \in Verbs : verbs[b].verb = "write" /\ verbs[b].on = governing
                                            /\ verbs[b].at \in {"stamped", "queued", "landed"}})]
          /\ StoreSame /\ UNCHANGED sending

\* The snapshots or the proposal could not be recorded: nothing is charged.
Unrecorded(c) == verbs[c].at = "stamped" /\ GoTo(c, "refused")

\* The stamped proposal is open: its mandate is charged, if it is still active.
Charge(c) ==
  /\ verbs[c].at = "stamped"
  /\ IF Seen.grant[verbs[c].on].status = "active"
     THEN Enqueue(c, Event("usage", verbs[c].on)) ELSE GoTo(c, "uncharged")

\* Mutant of Observe: the breach is looked for past the cap.
ObservePast(c) ==
  /\ verbs[c].at = "observe"
  /\ IF Seen.grant[verbs[c].on].status = "active" /\ Seen.used[verbs[c].on] > Cap
     THEN Enqueue(c, Event("exhausted", verbs[c].on)) ELSE GoTo(c, "done")

\* chargeAndObserve: a budget that is spent, or whose time is up, is recorded as its end.
Observe(c) ==
  /\ verbs[c].at = "observe"
  /\ LET m == verbs[c].on
     IN IF Seen.grant[m].status = "active" /\ (Seen.used[m] >= Cap \/ m \in lapsed)
        THEN Enqueue(c, Event("exhausted", m)) ELSE GoTo(c, "done")

-----------------------------------------------------------------------------
\* The chain's next line reaches the file; the call goes on before the next one does.
LineLands ==
  /\ sending # <<>> /\ \A b \in Verbs : verbs[b].at # "landed"
  /\ LET c == Head(sending)
     IN /\ mandateLog' = Apply(mandateLog, verbs[c].ev) /\ sending' = Tail(sending)
        /\ verbs' = [verbs EXCEPT ![c].at = "landed"]
  /\ UNCHANGED <<lines, arrays, governing, lapsed, refusals>>

LineFails ==
  /\ sending # <<>> /\ Cardinality(refusals) < MaxRefusals
  /\ LET c == Head(sending)
     IN /\ sending' = Tail(sending) /\ refusals' = refusals \cup {c}
        /\ verbs' = [verbs EXCEPT ![c].at = "failed"]
  /\ UNCHANGED <<mandateLog, lines, arrays, governing, lapsed>>

NextStage(c) ==
  CASE verbs[c].verb = "activate" -> "attach"
    [] verbs[c].ev.kind = "usage" -> "observe"
    [] OTHER -> "done"

\* Mutant of PushLine: the line is added once by the call and once by its reader.
PushLineTwice(c) ==
  /\ verbs[c].at = "landed"
  /\ lines' = {Apply(Apply(Seen, verbs[c].ev), verbs[c].ev)}
  /\ verbs' = [verbs EXCEPT ![c].at = NextStage(c)]
  /\ UNCHANGED <<mandateLog, arrays, sending, governing, lapsed, refusals>>

\* The line joins the array that the call was given, which may not be the cache any more.
PushLine(c) ==
  /\ verbs[c].at = "landed"
  /\ lines' = IF verbs[c].array = arrays THEN {Apply(Seen, verbs[c].ev)} ELSE lines
  /\ verbs' = [verbs EXCEPT ![c].at = NextStage(c)]
  /\ UNCHANGED <<mandateLog, arrays, sending, governing, lapsed, refusals>>

\* The session's record takes the first mandate and refuses every later one; it may fail.
Attach(c) ==
  /\ verbs[c].at = "attach" /\ governing' \in {governing, IF governing = 0 THEN c ELSE governing}
  /\ verbs' = [verbs EXCEPT ![c].at = "done"]
  /\ UNCHANGED <<mandateLog, lines, arrays, sending, lapsed, refusals>>

Lapse ==
  /\ lapsed = {} /\ lapsed' = {m \in MandateIds : mandateLog.grant[m].status = "active"} /\ lapsed' # {}
  /\ UNCHANGED <<mandateLog, lines, arrays, verbs, sending, governing, refusals>>

MandatesNext ==
  \/ \E c \in Verbs :
       \/ BeginCall(c) \/ ReadFile(c) \/ FillCache(c) \/ AppendEvent(c) \/ LookUp(c)
       \/ Grant(c) \/ Stamp(c) \/ Unrecorded(c) \/ Charge(c) \/ Observe(c) \/ PushLine(c) \/ Attach(c)
  \/ LineLands \/ LineFails \/ Lapse

MandatesSpec == MandatesInit /\ [][MandatesNext]_mvars

-----------------------------------------------------------------------------
MandatesTypeOK ==
  /\ lines = {} \/ Cardinality(lines) = 1
  /\ \A c \in Verbs : verbs[c].at = "queued" <=> \E i \in DOMAIN sending : sending[i] = c
  /\ mandateLog \in Folds /\ governing \in MandateIds \cup {0} /\ lapsed \subseteq MandateIds /\ refusals \subseteq Verbs

\* What the pane and the observer read is what a restart would read, save the
\* line whose append has not returned, unless two first reads overlapped.
CacheIsFile ==
  arrays = 1 => \/ mandateLog = Seen
                \/ \E c \in Verbs : verbs[c].at = "landed" /\ mandateLog = Apply(Seen, verbs[c].ev)

\* Once a revocation was confirmed, no proposal is stamped with its mandate.
RevokedStampsNothing == \A c \in Verbs : verbs[c].gone => arrays > 1

\* Where two grants of one negotiation are active, the one on the older terms was
\* given beside another: neither of those saw the other, and a later one replaces one.
Beside(m) == m \in Verbs /\ (verbs[m].rivals # {} \/ \E b \in Verbs : m \in verbs[b].rivals)

OneGrant ==
  LET s == mandateLog
  IN \A m, n \in MandateIds :
       /\ m # n /\ s.grant[m].status = "active" /\ s.grant[n].status = "active"
       /\ s.grant[n].draft \in Narrowed[s.grant[m].draft] \cup {s.grant[m].draft}
       => arrays > 1 \/ Beside(n)

\* A mandate is charged past its budget only for what was stamped beside the
\* last stamp, and a spent one is ended when the calls are over.
BudgetHeld ==
  LET s == mandateLog
      overlap(m) == {verbs[c].beside : c \in {b \in Verbs : verbs[b].verb = "write" /\ verbs[b].on = m}}
  IN arrays = 1 => \A m \in MandateIds :
       /\ s.used[m] > Cap => \E k \in overlap(m) : s.used[m] <= Cap + k
       /\ s.used[m] >= Cap /\ s.grant[m].status = "active"
          => \/ refusals # {}
             \/ \E c \in Verbs : verbs[c].on = m /\ verbs[c].at \in {"landed", "observe", "queued"}

MandatesSafe ==
  MandatesTypeOK /\ CacheIsFile /\ RevokedStampsNothing /\ OneGrant /\ BudgetHeld

\* No event brings a mandate back: what has ended is never active again, and
\* what was revoked stays revoked, in the file and in what the pane is shown.
EndsForGood ==
  [][\A m \in MandateIds :
       LET one(s, t) == /\ s.grant[m].status \notin {"none", "active"}
                        => t.grant[m].status \in {s.grant[m].status, "revoked"}
       IN one(mandateLog, mandateLog') /\ (lines # {} /\ arrays' = arrays => one(Seen, Seen'))]_mvars
=============================================================================
