---------------------------- MODULE ReviewQueue ----------------------------
(***************************************************************************)
(* The governor's review queue for one note (wiring/wiring.ts with the     *)
(* kernel's accept.ts, classify.ts, queue.ts, journal-reader.ts).  The     *)
(* note's baseline is the text that a human stands behind; what differs    *)
(* from it and was written by an agent is listed for review.  The clicks   *)
(* of the pane, the debounced reconcile of each modification and the poll  *)
(* of the write journal move the baseline and publish the list, each       *)
(* waiting for the disk between what it reads and what it does.            *)
(***************************************************************************)
EXTENDS Naturals, FiniteSets

CONSTANTS
  AgentEdits, HumanEdits,
  OtherEdits,   \* edits by sync or a script: no journal line, no input event
  Mechanical,   \* agent edits of the classes that auto-accept allows
  ValuesOnly,   \* agent edits of the value of a property: the fold check is blind to them
  Proposing,    \* agent edits that set acceptance-status: proposed
  Guarded,      \* others' edits of a declared protected property
  Plays         \* where it may begin (the baseline and the note, what it has more is under
                \* review) and what may come: edits, clicks, "retire", "unmount", "failure"

Edits    == AgentEdits \cup HumanEdits \cup OtherEdits
Statuses == {"none", "proposed", "revising", "accepted"}
Doings   == {"accept", "adopt", "revert", "revising", "proposed", "retire", "unmount", "failure"}

ASSUME ReviewAssumption ==
  /\ Mechanical \cup ValuesOnly \cup Proposing \subseteq AgentEdits /\ Guarded \subseteq OtherEdits
  /\ AgentEdits \cap (HumanEdits \cup OtherEdits) = {} /\ Edits \cap Doings = {}
  /\ \A p \in Plays :
       /\ {p.note, p.base.text} \subseteq [has : SUBSET Edits, status : Statuses]
       /\ p.base = [text |-> p.base.text, since |-> p.base.since, real |-> p.base.real]
       /\ p.base.since \subseteq AgentEdits /\ p.base.real \in BOOLEAN
       /\ p.base.text.has \subseteq p.note.has \cap (HumanEdits \cup Mechanical)
       /\ p.note.has \ p.base.text.has \subseteq AgentEdits
       /\ p.note # p.base.text => (p.note.has \cap AgentEdits) \ p.base.since # {}
       /\ p.coming \subseteq (Edits \ p.note.has) \cup Doings

VARIABLES
  note,      \* the file: the edits in it and its acceptance-status
  base,      \* the baseline: edits, status, the journal lines that its acceptedAt covers
  stage,     \* stage[e]: "none", "written"; an agent's: "dated", "line" (in the journal), "aged"
  fresh,     \* the human's input in this note is on record (HUMAN_INPUT_WINDOW_MS)
  due,       \* the reconcile timer is set
  ask,       \* the coalesced refresh is asked for
  work,      \* work[o]: the reconcile ("event") and the poll ("poll")
  act,       \* the click that is being performed
  view,      \* view[r]: a refresh in flight: the note as it read it, what it publishes, and the
             \* history "outrun": a later one has published.  The coalesced ones ("event", "more") may overlap
  newest,    \* the refresh that started last: it has the current generation
  listed,    \* the note is in the cached queue
  index,     \* the published index: {}, {TRUE} or {FALSE}
  sig,       \* the journal lines that the last poll saw
  mounted, retired,
  coming,      \* what may still come from outside
  lost,    \* a refresh, or its write of the index, has failed
  trail      \* history: see Trail

rvars == <<note, base, stage, fresh, due, ask, work, act, view, newest, listed, index, sig,
           mounted, retired, coming, lost, trail>>

Blank  == [has |-> {}, status |-> "none"]
NoBase == [text |-> Blank, since |-> {}, real |-> FALSE]
IdleWork == [at |-> "idle", cur |-> Blank, old |-> NoBase, put |-> NoBase]
IdleAct  == [at |-> "idle", kind |-> "none", pre |-> Blank, cur |-> Blank, put |-> NoBase]
IdleView == [at |-> "idle", seen |-> Blank, put |-> FALSE, outrun |-> FALSE]

\* approved: in what an accept or adopt read; excused: see Classify and Verify; kept: in the quarantine; trampled: see WriteBack; typed: input since the last disposition;
\* rode: a silent advance without it; residual: an index write was in flight at the unmount;
\* reversed: of the index writes that overlapped, the newest did not land last.
Trail == [approved |-> {}, excused |-> {}, kept |-> {}, trampled |-> {},
          typed |-> FALSE, rode |-> FALSE, residual |-> FALSE, reversed |-> FALSE]

ReviewInit ==
  /\ \E p \in Plays :
       /\ base = p.base /\ note = p.note /\ coming = p.coming
       /\ stage = [e \in Edits |-> IF e \in p.note.has THEN "aged" ELSE "none"]
       /\ sig = p.note.has \cap AgentEdits /\ listed = (p.note # p.base.text) /\ index = {listed}
  /\ fresh = FALSE /\ due = FALSE /\ ask = FALSE
  /\ work = [o \in {"event", "poll"} |-> IdleWork] /\ act = IdleAct
  /\ view = [r \in {"event", "more", "poll", "click"} |-> IdleView] /\ newest = "event"
  /\ mounted = TRUE /\ retired = FALSE /\ lost = FALSE /\ trail = Trail

Lines  == {w \in AgentEdits : stage[w] \in {"line", "aged"}}
Dated  == {w \in AgentEdits : stage[w] \in {"dated", "line", "aged"}}
Recent == {w \in AgentEdits : stage[w] = "line"}

\* setBaseline: the text as it was read, accepted now.
Accepted(text, covered) == [text |-> text, since |-> covered, real |-> TRUE]

Desk == <<work, act, view, newest, listed, index, sig, mounted, retired, lost>>
Comes(e) == e \in coming /\ coming' = coming \ {e}

-----------------------------------------------------------------------------
\* The note's text changes; the modify event sets the reconcile timer.
Modify(text) == note' = text /\ due' = mounted
With(e) == [note EXCEPT !.has = @ \cup {e}, !.status = IF e \in Proposing THEN "proposed" ELSE @]

\* A call of an agent: the write queue admits one at a time; the line follows the write.
AgentWrites(w) ==
  /\ Comes(w) /\ \A v \in AgentEdits : stage[v] \notin {"written", "dated"}
  /\ stage' = [stage EXCEPT ![w] = "written"] /\ Modify(With(w))
  /\ UNCHANGED <<base, fresh, ask, trail>> /\ UNCHANGED Desk

LineMoves(w, from, to) ==
  /\ stage[w] = from /\ stage' = [stage EXCEPT ![w] = to]
  /\ UNCHANGED <<note, base, fresh, due, ask, coming, trail>> /\ UNCHANGED Desk

\* RECENT_WRITE_WINDOW_MS passes: later than the input's, which is the shorter.
LineAges(w) == ~fresh /\ LineMoves(w, "line", "aged")

HumanTypes(h) ==
  /\ Comes(h) /\ stage' = [stage EXCEPT ![h] = "written"] /\ Modify(With(h))
  /\ fresh' = TRUE /\ trail' = [trail EXCEPT !.typed = TRUE]
  /\ UNCHANGED <<base, ask>> /\ UNCHANGED Desk

OtherWrites(x) ==
  /\ Comes(x) /\ stage' = [stage EXCEPT ![x] = "written"] /\ Modify(With(x))
  /\ UNCHANGED <<base, fresh, ask, trail>> /\ UNCHANGED Desk

InputAges ==
  /\ fresh /\ fresh' = FALSE
  /\ UNCHANGED <<note, base, stage, due, ask, coming, trail>> /\ UNCHANGED Desk

-----------------------------------------------------------------------------
\* The reconcile of a modification.
RestOfWork == UNCHANGED <<note, stage, fresh, act, view, newest, listed, index, mounted, retired,
                          coming, lost>>

ReadModified ==
  /\ due /\ work["event"].at = "idle" /\ due' = FALSE
  /\ IF base.real /\ note = base.text THEN ask' = TRUE /\ UNCHANGED work
     ELSE /\ work' = [work EXCEPT !["event"] = [IdleWork EXCEPT !.at = "read", !.cur = note]]
          /\ UNCHANGED ask
  /\ UNCHANGED <<base, sig, trail>> /\ RestOfWork

\* Mutant of ModifyClass: what no agent wrote is taken for the human's.
NoAgentIsHuman == IF Recent # {} THEN "agent" ELSE "human"

ModifyClass == IF Recent # {} THEN "agent" ELSE IF fresh THEN "human" ELSE "ambiguous"

\* history: where the human's input is on record and no line is recent, all that was
\* read is taken for the human's, an agent's older or not yet recorded edit included.
Classify ==
  /\ work["event"].at = "read"
  /\ LET cur == work["event"].cur
         go(to) == work' = [work EXCEPT !["event"].at = to]
     IN \/ /\ ModifyClass = "human" /\ ~retired /\ UNCHANGED ask
           /\ work' = [work EXCEPT !["event"].at = "put", !["event"].put = Accepted(cur, Dated)]
           /\ trail' = [trail EXCEPT !.rode = @ \/ ~trail.typed,
                          !.excused = @ \cup IF fresh /\ Recent = {} THEN cur.has ELSE {}]
        \/ ModifyClass = "human" /\ retired /\ go("idle") /\ ask' = TRUE /\ UNCHANGED trail
        \/ ModifyClass = "agent" /\ go("begin") /\ UNCHANGED <<ask, trail>>
        \/ ModifyClass = "ambiguous" /\ go("idle") /\ ask' = TRUE /\ UNCHANGED trail
  /\ UNCHANGED <<base, due, sig>> /\ RestOfWork

\* maybeAutoAccept, for the reconcile or for the sweep of the poll.
Finish(o, won) ==
  /\ work' = [work EXCEPT ![o] = IF o = "poll" /\ won THEN [IdleWork EXCEPT !.at = "again"]
                                 ELSE IdleWork]
  /\ ask' = (ask \/ o = "event")

BeginAuto(o) ==
  /\ work[o].at = "begin"
  /\ IF base.real THEN work' = [work EXCEPT ![o].at = "old", ![o].old = base] /\ UNCHANGED ask
     ELSE Finish(o, FALSE)
  /\ UNCHANGED <<base, due, sig, trail>> /\ RestOfWork

ReadAuto(o) ==
  /\ work[o].at = "old"
  /\ IF note = work[o].old.text THEN Finish(o, FALSE)
     ELSE work' = [work EXCEPT ![o].at = "both", ![o].cur = note] /\ UNCHANGED ask
  /\ UNCHANGED <<base, due, sig, trail>> /\ RestOfWork

\* Mutant of Eligible: one mechanical edit carries the rest.
EligibleInPart(old, cur) == \E e \in cur.has \ old.has : e \in Mechanical

\* evaluate: the whole difference is of the allowed classes.
Eligible(old, cur) ==
  /\ old.has \subseteq cur.has /\ cur.has \ old.has \subseteq Mechanical /\ old.status = cur.status

DecideAuto(o) ==
  /\ work[o].at = "both"
  /\ IF Lines \ work[o].old.since # {} /\ Eligible(work[o].old.text, work[o].cur) /\ ~retired
     THEN /\ work' = [work EXCEPT ![o].at = "put", ![o].put = Accepted(work[o].cur, Dated)]
          /\ UNCHANGED ask
     ELSE Finish(o, FALSE)
  /\ UNCHANGED <<base, due, sig, trail>> /\ RestOfWork

\* The baseline's file is written and the cache follows.
LandWork(o) ==
  /\ work[o].at = "put" /\ base' = work[o].put /\ Finish(o, TRUE)
  /\ UNCHANGED <<due, sig, trail>> /\ RestOfWork

-----------------------------------------------------------------------------
\* computeQueue, for this note.
Listed(text, known) ==
  /\ text # base.text
  /\ \/ known \ base.since # {}
     \/ base.real /\ (text.has \ base.text.has) \cap Guarded # {}

PollTick ==
  /\ mounted /\ work["poll"].at = "idle" /\ sig # Lines /\ sig' = Lines
  /\ work' = [work EXCEPT !["poll"].at = "refresh"]
  /\ UNCHANGED <<base, due, ask, trail>> /\ RestOfWork

Wanted(r) ==
  CASE r = "event" -> ask
    [] r = "more"  -> ask /\ view["event"].at # "idle"
    [] r = "poll"  -> work["poll"].at \in {"refresh", "again"}
    [] r = "click" -> act.at = "refresh"

RestOfView == UNCHANGED <<note, base, stage, fresh, due, sig, mounted, retired, coming>>

StartRefresh(r) ==
  /\ Wanted(r) /\ view[r].at = "idle" /\ newest' = r
  /\ view' = [view EXCEPT ![r] = [IdleView EXCEPT !.at = "read", !.seen = note]]
  /\ ask' = (ask /\ r \in {"poll", "click"})
  /\ UNCHANGED <<work, act, listed, index, lost, trail>> /\ RestOfView

\* What the caller of a refresh does when it ends: the poll sweeps what is listed.
EndRefresh(r, sweep) ==
  /\ view' = [view EXCEPT ![r] = IdleView] /\ UNCHANGED <<newest, ask>>
  /\ act' = IF r = "click" THEN IdleAct ELSE act
  /\ work' = IF r # "poll" THEN work
             ELSE [work EXCEPT !["poll"].at =
                     IF @ = "refresh" /\ sweep /\ ~retired THEN "begin" ELSE "idle"]

\* Mutant of Issue: the list is serialized before this refresh's takes its place.
IssueEarly(r) ==
  IF mounted
  THEN /\ view' = [x \in DOMAIN view |->
                     IF x = r THEN [IdleView EXCEPT !.at = "write", !.put = listed]
                     ELSE [view[x] EXCEPT !.outrun = @ \/ view[x].at = "write"]]
       /\ UNCHANGED <<newest, ask, act, work>>
  ELSE EndRefresh(r, listed')

\* The cached queue is set; while mounted, the index is written from the list this refresh made.
Issue(r) ==
  IF mounted
  THEN /\ view' = [x \in DOMAIN view |->
                     IF x = r THEN [IdleView EXCEPT !.at = "write", !.put = listed']
                     ELSE [view[x] EXCEPT !.outrun = @ \/ view[x].at = "write"]]
       /\ UNCHANGED <<newest, ask, act, work>>
  ELSE EndRefresh(r, listed')

\* Mutant of Publish: whichever refresh ends last publishes.
PublishAny(r) ==
  /\ view[r].at = "read" /\ listed' = Listed(view[r].seen, Lines) /\ Issue(r)
  /\ UNCHANGED <<index, lost, trail>> /\ RestOfView

Publish(r) ==
  /\ view[r].at = "read"
  /\ IF newest # r THEN EndRefresh(r, listed) /\ UNCHANGED listed
     ELSE listed' = Listed(view[r].seen, Lines) /\ Issue(r)
  /\ UNCHANGED <<index, lost, trail>> /\ RestOfView

\* A refresh that published later has written the index already.
Overtaken(r) == view[r].outrun /\ \A x \in DOMAIN view : view[x].at = "write" => view[x].outrun

\* The writes land in any order, each with the list that its refresh made.
WriteIndex(r) ==
  /\ view[r].at = "write" /\ index' = {view[r].put} /\ EndRefresh(r, listed)
  /\ trail' = [trail EXCEPT !.reversed = IF view[r].outrun THEN @ \/ Overtaken(r) ELSE FALSE]
  /\ UNCHANGED <<listed, lost>> /\ RestOfView

\* A refresh throws; an index that cannot be written is logged, and the refresh goes on.
RefreshFails(r) ==
  /\ Comes("failure") /\ lost' = TRUE
  /\ \/ view[r].at = "read" /\ EndRefresh(r, FALSE)
     \/ view[r].at = "write" /\ EndRefresh(r, listed)
  /\ UNCHANGED <<note, base, stage, fresh, due, listed, index, sig, mounted, retired, trail>>

-----------------------------------------------------------------------------
RestOfClick == UNCHANGED <<stage, ask, work, view, newest, listed, index, sig, mounted, retired, lost>>
Click(k) == Comes(k) /\ mounted /\ act.at = "idle"

\* performAccept: the note is read anew; whatever the pane showed.
Accept ==
  /\ Click("accept") /\ ~retired /\ (listed \/ note.status = "proposed") /\ fresh' = FALSE
  /\ act' = [IdleAct EXCEPT !.kind = "accept", !.pre = note, !.cur = note,
                !.at = IF note.status = "proposed" THEN "stamp" ELSE "ready"]
  /\ trail' = [trail EXCEPT !.approved = @ \cup note.has, !.typed = FALSE]
  /\ UNCHANGED <<note, base, due>> /\ RestOfClick

StampNote ==
  /\ act.at = "stamp" /\ Modify([note EXCEPT !.status = "accepted"])
  /\ act' = [act EXCEPT !.at = "verify"]
  /\ UNCHANGED <<base, fresh, coming, trail>> /\ RestOfClick

\* Mutant of Folded: the text read after the stamp is taken as it is.
FoldedUnread(pre, post) == post.status = "accepted"

\* The stamp is all that happened, as far as the body and the property names tell.
Folded(pre, post) == post.status = "accepted" /\ post.has \ ValuesOnly = pre.has \ ValuesOnly

Verify ==
  /\ act.at = "verify"
  /\ act' = IF Folded(act.pre, note) THEN [act EXCEPT !.at = "ready", !.cur = note]
            ELSE [act EXCEPT !.at = "finally"]
  /\ trail' = [trail EXCEPT !.excused = @ \cup ((note.has \ act.pre.has) \cap ValuesOnly)]
  /\ UNCHANGED <<note, base, fresh, due, coming>> /\ RestOfClick

\* setBaseline asks the cutover guard, and the time is taken here; adopt took it at its start.
PutAccepted ==
  /\ act.at = "ready"
  /\ act' = IF retired THEN [act EXCEPT !.at = "finally"]
            ELSE [act EXCEPT !.at = "put",
                   !.put = Accepted(act.cur, IF act.kind = "adopt" THEN act.put.since ELSE Dated)]
  /\ UNCHANGED <<note, base, fresh, due, coming, trail>> /\ RestOfClick

LandAccepted ==
  /\ act.at = "put" /\ base' = act.put /\ act' = [act EXCEPT !.at = "finally"]
  /\ UNCHANGED <<note, fresh, due, coming, trail>> /\ RestOfClick

\* Mutant of Finally: the record of the human's input stays.
FinallyKeeps ==
  /\ act.at = "finally" /\ act' = [act EXCEPT !.at = "refresh"]
  /\ trail' = [trail EXCEPT !.typed = trail.typed /\ act.kind = "adopt"]
  /\ UNCHANGED <<note, base, fresh, due, coming>> /\ RestOfClick

\* The accept and the dispositions forget the human's input; adopt leaves it.
Finally ==
  /\ act.at = "finally" /\ act' = [act EXCEPT !.at = "refresh"]
  /\ fresh' = (fresh /\ act.kind = "adopt")
  /\ trail' = [trail EXCEPT !.typed = trail.typed /\ act.kind = "adopt"]
  /\ UNCHANGED <<note, base, due, coming>> /\ RestOfClick

AdoptAll ==
  /\ Click("adopt")
  /\ act' = [IdleAct EXCEPT !.kind = "adopt", !.at = "adopt", !.put = Accepted(Blank, Dated)]
  /\ UNCHANGED <<note, base, fresh, due, trail>> /\ RestOfClick

ReadAdopted ==
  /\ act.at = "adopt" /\ act' = [act EXCEPT !.at = "ready", !.cur = note]
  /\ trail' = [trail EXCEPT !.approved = @ \cup note.has]
  /\ UNCHANGED <<note, base, fresh, due, coming>> /\ RestOfClick

Revert ==
  /\ Click("revert") /\ ~retired /\ listed /\ base.real
  /\ act' = [IdleAct EXCEPT !.kind = "revert", !.at = "quarantine", !.pre = base.text, !.cur = note]
  /\ UNCHANGED <<note, base, fresh, due, trail>> /\ RestOfClick

Quarantine ==
  /\ act.at = "quarantine" /\ act' = [act EXCEPT !.at = "restore"]
  /\ trail' = [trail EXCEPT !.kept = @ \cup act.cur.has]
  /\ UNCHANGED <<note, base, fresh, due, coming>> /\ RestOfClick

\* history: what was written since the note was read is in neither.
WriteBack ==
  /\ act.at = "restore" /\ Modify(act.pre) /\ act' = [act EXCEPT !.at = "refresh"]
  /\ trail' = [trail EXCEPT !.trampled = @ \cup (note.has \ act.cur.has)]
  /\ UNCHANGED <<base, fresh, coming>> /\ RestOfClick

\* request-changes and withdraw: the callout and the status, then the input is forgotten.
Dispose(to) ==
  /\ Click(to) /\ note.status # to /\ Modify([note EXCEPT !.status = to])
  /\ act' = [IdleAct EXCEPT !.kind = "dispose", !.at = "finally"]
  /\ UNCHANGED <<base, fresh, trail>> /\ RestOfClick

-----------------------------------------------------------------------------
\* The cutover: the guard of the legacy writers answers no from here on.
Retire ==
  /\ Comes("retire") /\ retired' = TRUE
  /\ UNCHANGED <<note, base, stage, fresh, due, ask, work, act, view, newest, listed, index, sig,
                 mounted, lost, trail>>

\* The timers are cleared and the index is removed; the coalesced refresh is not cancelled.
Unmount ==
  /\ Comes("unmount") /\ mounted' = FALSE /\ due' = FALSE /\ index' = {}
  /\ trail' = [trail EXCEPT !.residual = \E r \in DOMAIN view : view[r].at = "write"]
  /\ UNCHANGED <<note, base, stage, fresh, ask, work, act, view, newest, listed, sig, retired,
                 lost>>

ReviewNext ==
  \/ \E w \in AgentEdits : \/ AgentWrites(w) \/ LineMoves(w, "written", "dated")
                           \/ LineMoves(w, "dated", "line") \/ LineAges(w)
  \/ \E h \in HumanEdits : HumanTypes(h)
  \/ \E x \in OtherEdits : OtherWrites(x)
  \/ InputAges \/ ReadModified \/ Classify \/ PollTick \/ Retire \/ Unmount
  \/ \E o \in DOMAIN work : BeginAuto(o) \/ ReadAuto(o) \/ DecideAuto(o) \/ LandWork(o)
  \/ \E r \in DOMAIN view : StartRefresh(r) \/ Publish(r) \/ WriteIndex(r) \/ RefreshFails(r)
  \/ Accept \/ StampNote \/ Verify \/ PutAccepted \/ LandAccepted \/ Finally
  \/ AdoptAll \/ ReadAdopted \/ Revert \/ Quarantine \/ WriteBack
  \/ \E to \in {"revising", "proposed"} : Dispose(to)

ReviewSpec == ReviewInit /\ [][ReviewNext]_rvars

-----------------------------------------------------------------------------
ReviewTypeOK ==
  /\ note.has \cup base.text.has \subseteq {e \in Edits : stage[e] # "none"}
  /\ note.status \in Statuses
  /\ index \subseteq BOOLEAN /\ Cardinality(index) <= 1

\* No text of an agent or of a script is in the baseline that was
\* not in what an accept or adopt read, save what the mechanical classes cover,
\* a value that changed under the stamp, and what was in the note when the
\* human's own edit was taken for all of it.
BaselineReviewed ==
  base.text.has \subseteq HumanEdits \cup Mechanical \cup trail.approved \cup trail.excused

\* A silent advance rests on input that came after the last disposition.
NothingRides == ~trail.rode

\* When nothing is under way and no refresh failed, an agent's edit that the
\* baseline does not hold is listed, unless its line is not later than the
\* acceptance: what was written while the baseline was being set is not shown.
\* And what is listed does differ from the baseline; and the index says what the
\* cached queue says, save where an older refresh's write of it landed last.
Settled ==
  /\ mounted /\ ~lost /\ ~due /\ ~ask /\ act.at = "idle" /\ sig = Lines
  /\ \A o \in DOMAIN work : work[o].at = "idle"
  /\ \A r \in DOMAIN view : view[r].at = "idle"
  /\ \A w \in AgentEdits : stage[w] \notin {"written", "dated"}

NothingHidden ==
  Settled => /\ (note.has \ base.text.has) \cap (AgentEdits \ base.since) # {} => listed
             /\ listed => note # base.text
             /\ index = {listed} \/ trail.reversed

\* A revert destroys nothing, save what was written between its read and its write.
NothingDestroyed ==
  {e \in Edits : stage[e] # "none"} \subseteq note.has \cup trail.kept \cup trail.trampled

\* No index outlives the mount, save by a write that was in flight.
Retracted == ~mounted /\ index # {} => trail.residual

ReviewSafe ==
  ReviewTypeOK /\ BaselineReviewed /\ NothingRides /\ NothingHidden /\ NothingDestroyed /\ Retracted
=============================================================================
