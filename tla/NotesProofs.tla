---------------------------- MODULE NotesProofs -----------------------------
(***************************************************************************)
(* Theorems about what the tools do to notes, on the vault that people and *)
(* plugins go on editing: the writes of the file server, the moves of      *)
(* notes and the repair of their links, the tools that write many notes in *)
(* one call, and those that give, change and move addresses.               *)
(***************************************************************************)
EXTENDS FsWriteKernel, Move, BatchWrite, Scheme, FiniteSetTheorems, WellFoundedInduction, TLAPS

-----------------------------------------------------------------------------
(***************************************************************************)
(* Writes by the file server.  FsReady is what the call that runs has seen *)
(* and what the guard allowed it; FsTurns and FsRecorded are the order in  *)
(* which calls run and are recorded.                                       *)
(***************************************************************************)
FsSteps == {"begun", "guarded", "looked", "cleared", "settled"}

\* A record of a call.
FsRecord(s) ==
  s = [call |-> s.call, at |-> s.at, seen |-> s.seen, held |-> s.held, outcome |-> s.outcome]

\* One call runs, and asked for one thing; a note that is not there is blank.
FsOneRuns ==
  /\ changes \in Nat /\ line \in Seq(FsCalls) /\ \A i \in 1..Len(line) : asked[line[i]] # {}
  /\ ~fsNote.there => fsNote = Absent
  /\ asked \in [FsCalls -> SUBSET Asks] /\ \A c \in FsCalls : \A q, p \in asked[c] : q = p
  /\ \A r, s \in run : r = s
  /\ \A r \in run :
       /\ r.call \in FsCalls /\ asked[r.call] # {} /\ r.at \in FsSteps
       /\ r.at # "settled" => r.outcome = "none"
       /\ FsRecord(r)

\* What is looked for before the write: text of another call is in what was read.
FsSeesCalls(r, q) ==
  r.at \in {"looked", "cleared"} /\ q.op \in {"create", "append", "patch", "setfield"}
    => fsNote.marks \cap FsCalls \subseteq r.seen.marks

\* And the guard allowed the result, over the record it read.
FsAllowed(r, q) ==
  /\ r.at = "guarded" => q.op \in {"create", "replace"}
  /\ r.at = "looked" => q.op \in {"append", "patch"}
  /\ q.op = "create" /\ r.at = "cleared" => r.seen = Absent
  /\ q.op # "delete" /\ r.at \in {"guarded", "cleared"} =>
       LET result == IF r.at = "guarded" THEN q.fm ELSE Result(q, r.seen)
       IN MayWrite(r.held, result) \/ MaySet(r.held, result)

FsReady(r) == \A q \in asked[r.call] : FsSeesCalls(r, q) /\ FsAllowed(r, q)

FsInv == FsOneRuns /\ \A r \in run : FsReady(r)

\* Text of the calls leaves the file in no step of others.
LEMMA OthersAddTheirs ==
  ASSUME FsOneRuns, NEW n \in Others, changes < MaxChanges
  PROVE  n.marks \cap FsCalls \subseteq fsNote.marks
<1>1. CASE n = Absent
  BY <1>1 DEF Absent
<1>2. CASE n \in [there : {TRUE}, fm : Fms, marks : {fsNote.marks \cup {changes + 1}, {changes + 1}}]
  <2>1. changes + 1 \in 0..MaxChanges
    BY FsAssumption DEF FsOneRuns
  <2>2. changes + 1 \notin FsCalls
    BY <2>1, FsAssumption
  <2>3. n.marks = fsNote.marks \cup {changes + 1} \/ n.marks = {changes + 1}
    BY <1>2
  <2>4. QED BY <2>2, <2>3
<1>3. QED BY <1>1, <1>2 DEF Others

\* What the guard allows adds nothing to the record, and takes nothing of it that stays.
LEMMA AllowedGrantsNothing ==
  ASSUME NEW b, NEW a, MayWrite(b, a) \/ MaySet(b, a)
  PROVE  Granted(a) \subseteq Granted(b) /\ Kept(b) \subseteq Granted(a)
<1> DEFINE Same == /\ a.accepted = b.accepted \/ a.accepted = "none"
                   /\ a.verified = b.verified \/ (a.verified = "none" /\ b.verified = "blank")
                   /\ a.status = "accepted" => b.status = "accepted"
                   /\ a.declared = b.declared
           None == /\ a.accepted = "none" /\ a.verified = "none" /\ a.declared = "none"
                   /\ a.status # "accepted" /\ b.verified = "none" /\ b.declared = "none"
<1>1. Same \/ None
  BY DEF MayWrite, MaySet, Transition, Parsed, Unmarked
<1>2. CASE Same
  BY <1>2 DEF Granted, Kept
<1>3. CASE None
  BY <1>3 DEF Granted, Kept
<1>4. QED BY <1>1, <1>2, <1>3

\* A step of the call that runs leaves it ready, or settled.
LEMMA FsGoesOn ==
  ASSUME FsInv, NEW r \in run, NEW s, FsRecord(s), Goes(r, s), s.call = r.call, s.at \in FsSteps,
         s.at # "settled" => s.outcome = "none" /\ FsReady(s)',
         UNCHANGED <<asked, line, changes>>, ~fsNote'.there => fsNote' = Absent
  PROVE  FsInv'
<1>1. run' = {s}
  BY DEF FsInv, FsOneRuns, Goes
<1>2. FsOneRuns'
  BY <1>1 DEF FsInv, FsOneRuns, FsRecord
<1>3. s.at = "settled" => FsReady(s)'
  BY DEF FsReady, FsSeesCalls, FsAllowed
<1>4. QED BY <1>1, <1>2, <1>3 DEF FsInv

\* A call that is settled has no more to be ready for.
LEMMA FsSettles ==
  ASSUME FsInv, NEW r \in run, NEW outcome,
         Goes(r, [r EXCEPT !.at = "settled", !.outcome = outcome]),
         UNCHANGED <<asked, line, changes>>, ~fsNote'.there => fsNote' = Absent
  PROVE  FsInv'
<1>1. PICK s : s = [r EXCEPT !.at = "settled", !.outcome = outcome]
  OBVIOUS
<1>2. s = [call |-> r.call, at |-> "settled", seen |-> r.seen, held |-> r.held, outcome |-> outcome]
  <2>1. FsRecord(r)
    BY DEF FsInv, FsOneRuns
  <2>2. QED BY <1>1, <2>1 DEF FsRecord
<1>3. QED BY <1>1, <1>2, FsGoesOn DEF FsSteps, FsRecord

\* What a call sees when it looks is what is there.
LEMMA LookReads ==
  ASSUME FsInv, NEW r \in run, NEW q \in asked[r.call], Look(r, q)
  PROVE  FsInv'
<1>1. /\ UNCHANGED <<fsNote, asked, line, changes>> /\ (~fsNote.there => fsNote = Absent)
      /\ r.call \in FsCalls /\ r.outcome = "none" /\ FsRecord(r)
      /\ q \in Asks /\ \A p \in asked[r.call] : p = q
  BY DEF Look, Idle, FsInv, FsOneRuns, FsSteps, FsRecord
<1>2. q.op \in Kinds \ {"delete"}
  BY <1>1 DEF Asks, Kinds, Look
<1>3. r.at = (IF q.op \in {"create", "replace"} THEN "guarded" ELSE "begun") /\ FsAllowed(r, q)
  BY DEF Look, FsInv, FsReady
<1>4. ASSUME NEW upTo, NEW held, upTo \in FsSteps \ {"settled"},
             Goes(r, [r EXCEPT !.at = upTo, !.seen = fsNote, !.held = held]),
             \A s : s.at = upTo /\ s.held = held /\ s.seen = fsNote => FsSeesCalls(s, q) /\ FsAllowed(s, q)
      PROVE  FsInv'
  <2>1. PICK s : s = [r EXCEPT !.at = upTo, !.seen = fsNote, !.held = held]
    OBVIOUS
  <2>2. s = [call |-> r.call, at |-> upTo, seen |-> fsNote, held |-> held, outcome |-> "none"]
    BY <1>1, <2>1 DEF FsRecord
  <2>3. FsSeesCalls(s, q) /\ FsAllowed(s, q)
    BY <1>4, <2>2
  <2>4. FsReady(s)'
    BY <1>1, <2>2, <2>3 DEF FsReady, FsSeesCalls, FsAllowed
  <2>5. QED BY <1>1, <1>4, <2>1, <2>2, <2>4, FsGoesOn DEF FsRecord
<1>5. \/ Fails(r)
      \/ Goes(r, [r EXCEPT !.at = "settled", !.outcome = "ok"])
      \/ q.op = "setfield" /\ MaySet(fsNote.fm, Result(q, fsNote))
         /\ Goes(r, [r EXCEPT !.at = "cleared", !.seen = fsNote, !.held = fsNote.fm])
      \/ q.op \in {"create", "replace"} /\ (q.op = "create" => ~fsNote.there)
         /\ Goes(r, [r EXCEPT !.at = "cleared", !.seen = fsNote])
      \/ q.op \in {"append", "patch"} /\ Goes(r, [r EXCEPT !.at = "looked", !.seen = fsNote])
  <2>1. CASE q.op = "create"
    BY <2>1 DEF Look
  <2>2. CASE q.op = "replace"
    BY <2>2 DEF Look
  <2>3. CASE q.op = "append"
    BY <2>3 DEF Look
  <2>4. CASE q.op = "patch"
    BY <2>4 DEF Look
  <2>5. CASE q.op = "setfield"
    BY <2>5 DEF Look
  <2>6. QED BY <1>2, <2>1, <2>2, <2>3, <2>4, <2>5 DEF Kinds
<1>6. CASE Fails(r)
  BY <1>1, <1>6, FsSettles DEF Fails
<1>7. CASE Goes(r, [r EXCEPT !.at = "settled", !.outcome = "ok"])
  BY <1>1, <1>7, FsSettles
<1>8. CASE q.op = "setfield" /\ MaySet(fsNote.fm, Result(q, fsNote))
           /\ Goes(r, [r EXCEPT !.at = "cleared", !.seen = fsNote, !.held = fsNote.fm])
  <2>1. PICK held : held = fsNote.fm
    OBVIOUS
  <2>2. \A s : s.at = "cleared" /\ s.held = held /\ s.seen = fsNote
               => FsSeesCalls(s, q) /\ FsAllowed(s, q)
    BY <1>8, <2>1 DEF FsSeesCalls, FsAllowed
  <2>3. Goes(r, [r EXCEPT !.at = "cleared", !.seen = fsNote, !.held = held])
    BY <1>8, <2>1
  <2>4. QED BY <1>4, <2>2, <2>3 DEF FsSteps
<1>9. CASE q.op \in {"create", "replace"} /\ (q.op = "create" => ~fsNote.there)
           /\ Goes(r, [r EXCEPT !.at = "cleared", !.seen = fsNote])
  <2>1. [r EXCEPT !.at = "cleared", !.seen = fsNote]
          = [r EXCEPT !.at = "cleared", !.seen = fsNote, !.held = r.held]
    BY <1>1 DEF FsRecord
  <2>2. (MayWrite(r.held, q.fm) \/ MaySet(r.held, q.fm)) /\ Result(q, fsNote) = q.fm
    BY <1>3, <1>9 DEF FsAllowed, Result
  <2>3. q.op = "create" => fsNote = Absent
    BY <1>9, <1>1
  <2>4. \A s : s.at = "cleared" /\ s.held = r.held /\ s.seen = fsNote
               => FsSeesCalls(s, q) /\ FsAllowed(s, q)
    BY <1>9, <2>2, <2>3 DEF FsSeesCalls, FsAllowed
  <2>5. QED BY <1>4, <1>9, <2>1, <2>4 DEF FsSteps
<1>10. CASE q.op \in {"append", "patch"} /\ Goes(r, [r EXCEPT !.at = "looked", !.seen = fsNote])
  <2>1. [r EXCEPT !.at = "looked", !.seen = fsNote]
          = [r EXCEPT !.at = "looked", !.seen = fsNote, !.held = r.held]
    BY <1>1 DEF FsRecord
  <2>2. \A s : s.at = "looked" /\ s.held = r.held /\ s.seen = fsNote
               => FsSeesCalls(s, q) /\ FsAllowed(s, q)
    BY <1>10 DEF FsSeesCalls, FsAllowed
  <2>3. QED BY <1>4, <1>10, <2>1, <2>2 DEF FsSteps
<1>11. QED BY <1>5, <1>6, <1>7, <1>8, <1>9, <1>10

\* The guard allows what it read.
LEMMA GuardAllows ==
  ASSUME FsInv, NEW r \in run, NEW q \in asked[r.call], Guard(r, q)
  PROVE  FsInv'
<1>1. /\ UNCHANGED <<fsNote, asked, line, changes>> /\ (~fsNote.there => fsNote = Absent)
      /\ r.call \in FsCalls /\ r.outcome = "none" /\ FsRecord(r)
      /\ q \in Asks /\ \A p \in asked[r.call] : p = q
  BY DEF Guard, Idle, FsInv, FsOneRuns, FsSteps, FsRecord
<1>2. FsSeesCalls(r, q) /\ FsAllowed(r, q)
  BY DEF FsInv, FsReady
<1>3. CASE Fails(r)
  BY <1>1, <1>3, FsSettles DEF Fails
<1>4. CASE MayWrite(fsNote.fm, Result(q, r.seen))
           /\ Goes(r, [r EXCEPT !.at = IF @ = "begun" THEN "guarded" ELSE "cleared", !.held = fsNote.fm])
  <2>1. PICK s : s = [r EXCEPT !.at = IF @ = "begun" THEN "guarded" ELSE "cleared", !.held = fsNote.fm]
    OBVIOUS
  <2>2. /\ FsRecord(s) /\ s.call = r.call /\ s.seen = r.seen /\ s.held = fsNote.fm
        /\ s.outcome = "none" /\ s.at = IF r.at = "begun" THEN "guarded" ELSE "cleared"
    BY <1>1, <2>1 DEF FsRecord
  <2>3. CASE r.at = "begun" /\ q.op \in {"create", "replace"}
    <3>1. Result(q, r.seen) = q.fm
      BY <2>3 DEF Result
    <3>2. FsSeesCalls(s, q) /\ FsAllowed(s, q)
      BY <1>4, <2>2, <2>3, <3>1 DEF FsSeesCalls, FsAllowed
    <3>3. FsReady(s)'
      BY <1>1, <2>2, <3>2 DEF FsReady, FsSeesCalls, FsAllowed
    <3>4. QED BY <1>1, <1>4, <2>1, <2>2, <2>3, <3>3, FsGoesOn DEF FsSteps
  <2>4. CASE r.at = "looked"
    <3>1. q.op \in {"append", "patch"} /\ fsNote.marks \cap FsCalls \subseteq r.seen.marks
      BY <1>2, <2>4 DEF FsSeesCalls, FsAllowed
    <3>2. FsSeesCalls(s, q) /\ FsAllowed(s, q)
      BY <1>4, <2>2, <2>4, <3>1 DEF FsSeesCalls, FsAllowed
    <3>3. FsReady(s)'
      BY <1>1, <2>2, <3>2 DEF FsReady, FsSeesCalls, FsAllowed
    <3>4. QED BY <1>1, <1>4, <2>1, <2>2, <2>4, <3>3, FsGoesOn DEF FsSteps
  <2>5. QED BY <2>3, <2>4 DEF Guard
<1>5. QED BY <1>3, <1>4 DEF Guard

\* A step of the kernel keeps it.
LEMMA FsKernelKeeps ==
  ASSUME FsInv, NEW c \in FsCalls, Runs(c)
  PROVE  FsInv'
<1>1. PICK r \in run, q \in asked[c] :
        r.call = c /\ (Look(r, q) \/ Guard(r, q) \/ Write(r, q) \/ WriteFails(r, q)
                       \/ Unlink(r, q) \/ FsSettle(r, q))
  BY DEF Runs
<1>2. CASE Look(r, q)
  BY <1>1, <1>2, LookReads
<1>3. CASE Guard(r, q)
  BY <1>1, <1>3, GuardAllows
<1>4. CASE Write(r, q)
  <2>1. fsNote'.there
    BY <1>4 DEF Write, Written
  <2>2. QED BY <1>4, <2>1, FsSettles DEF Write, Idle
<1>5. CASE WriteFails(r, q)
  <2>1. ~fsNote'.there => fsNote' = Absent
    BY <1>5 DEF WriteFails, FsInv, FsOneRuns
  <2>2. QED BY <1>5, <2>1, FsSettles DEF WriteFails, Idle, Fails
<1>6. CASE Unlink(r, q)
  <2>1. fsNote' = Absent
    BY <1>6 DEF Unlink
  <2>2. QED BY <1>6, <2>1, FsSettles DEF Unlink, Idle, Fails
<1>7. CASE FsSettle(r, q)
  <2>1. run' = {}
    BY <1>7 DEF FsSettle, FsInv, FsOneRuns
  <2>2. QED BY <1>7, <2>1 DEF FsSettle, FsInv, FsOneRuns
<1>8. QED BY <1>1, <1>2, <1>3, <1>4, <1>5, <1>6, <1>7

LEMMA FsInvariance == FsWriteSpec => []FsInv
<1>1. FsWriteInit => FsInv
  BY FsAssumption DEF FsWriteInit, FsInv, FsOneRuns, Absent
<1>2. FsInv /\ [FsWriteNext]_fsvars => FsInv'
  <2> SUFFICES ASSUME FsInv, [FsWriteNext]_fsvars PROVE FsInv'
    OBVIOUS
  <2>1. ASSUME NEW c \in FsCalls, NEW q \in Asks, FsSubmit(c, q) PROVE FsInv'
    <3>1. asked[c] = {} /\ asked' = [asked EXCEPT ![c] = {q}] /\ line' = Append(line, c)
          /\ UNCHANGED <<fsNote, run, changes>>
      BY <2>1 DEF FsSubmit
    <3>2. line' \in Seq(FsCalls) /\ \A i \in 1..Len(line') : asked'[line'[i]] # {}
      <4>1. \A b \in FsCalls : asked[b] # {} \/ b = c => asked'[b] # {}
        BY <3>1 DEF FsInv, FsOneRuns
      <4>2. /\ line' \in Seq(FsCalls) /\ Len(line') = Len(line) + 1
            /\ \A i \in 1..Len(line') : line'[i] = IF i = Len(line) + 1 THEN c ELSE line[i]
        BY <3>1 DEF FsInv, FsOneRuns
      <4>3. QED BY <4>1, <4>2 DEF FsInv, FsOneRuns
    <3>3. FsOneRuns'
      BY <3>1, <3>2 DEF FsInv, FsOneRuns
    <3>4. \A r \in run : asked'[r.call] = asked[r.call]
      BY <3>1 DEF FsInv, FsOneRuns
    <3>5. QED BY <3>1, <3>3, <3>4 DEF FsInv, FsReady, FsSeesCalls, FsAllowed
  <2>2. CASE FsDequeue
    <3>1. /\ Head(line) \in FsCalls /\ asked[Head(line)] # {}
          /\ Tail(line) \in Seq(FsCalls) /\ \A i \in 1..Len(Tail(line)) : asked[Tail(line)[i]] # {}
      BY <2>2 DEF FsDequeue, FsInv, FsOneRuns
    <3>2. FsOneRuns'
      BY <2>2, <3>1 DEF FsDequeue, FsInv, FsOneRuns, FsSteps, FsRecord
    <3>3. \A r \in run' : r.at = "begun"
      BY <2>2 DEF FsDequeue
    <3>4. QED BY <3>2, <3>3 DEF FsInv, FsReady, FsSeesCalls, FsAllowed
  <2>3. ASSUME NEW c \in FsCalls, Runs(c) PROVE FsInv'
    BY <2>3, FsKernelKeeps
  <2>4. ASSUME NEW n \in Others, Changes(n) PROVE FsInv'
    <3>1. n.marks \cap FsCalls \subseteq fsNote.marks /\ (~n.there => n = Absent)
      BY <2>4, OthersAddTheirs DEF Changes, FsInv, Others
    <3>2. FsOneRuns'
      BY <2>4, <3>1 DEF Changes, FsInv, FsOneRuns
    <3>3. \A r \in run : \A q \in asked[r.call] : FsSeesCalls(r, q) => FsSeesCalls(r, q)'
      BY <2>4, <3>1 DEF Changes, FsSeesCalls
    <3>4. QED BY <2>4, <3>2, <3>3 DEF Changes, FsInv, FsReady, FsAllowed
  <2>5. CASE UNCHANGED fsvars
    BY <2>5 DEF fsvars, FsInv, FsOneRuns, FsReady, FsSeesCalls, FsAllowed
  <2>6. QED BY <2>1, <2>2, <2>3, <2>4, <2>5 DEF FsWriteNext
<1>3. QED BY <1>1, <1>2, PTL DEF FsWriteSpec

\* The write of a call that was cleared: no text of another call is lost, and text of
\* others only if it came after the call had read the note.
LEMMA WrittenLosesRaced ==
  ASSUME FsInv, NEW r \in run, NEW q \in asked[r.call], Write(r, q), q.op \notin {"replace", "delete"}
  PROVE  /\ fsNote.marks \ fsNote'.marks \subseteq fsNote.marks \ r.seen.marks
         /\ (fsNote.marks \ fsNote'.marks) \cap FsCalls = {}
<1>1. q.op \in {"create", "append", "patch", "setfield"} /\ r.at = "cleared" /\ fsNote' = Written(r, q)
  BY DEF Write, FsInv, FsOneRuns, Asks
<1>2. fsNote.marks \cap FsCalls \subseteq r.seen.marks /\ (q.op = "create" => r.seen.marks = {})
  BY <1>1 DEF FsInv, FsReady, FsSeesCalls, FsAllowed, Absent
<1>3. CASE q.op = "create"
  BY <1>2, <1>3
<1>4. CASE q.op = "append"
  BY <1>1, <1>4 DEF Written
<1>5. CASE q.op \in {"patch", "setfield"}
  <2>1. r.seen.marks \subseteq fsNote'.marks
    BY <1>1, <1>5 DEF Written
  <2>2. QED BY <1>2, <2>1
<1>6. QED BY <1>1, <1>3, <1>4, <1>5

\* It grants nothing to the note whose record the guard read.
LEMMA WrittenGrantsNothing ==
  ASSUME FsInv, NEW r \in run, NEW q \in asked[r.call], Write(r, q), q.op # "delete", fsNote.fm = r.held
  PROVE  /\ Granted(fsNote'.fm) \subseteq Granted(fsNote.fm)
         /\ Kept(fsNote.fm) \subseteq Granted(fsNote'.fm) \/ ~fsNote.there
<1>1. r.at = "cleared" /\ fsNote' = Written(r, q) /\ q.op \in Kinds \ {"delete"}
  BY DEF Write, FsInv, FsOneRuns, Asks, Kinds
<1>2. Granted(Result(q, r.seen)) \subseteq Granted(fsNote.fm) /\ Kept(fsNote.fm) \subseteq Granted(Result(q, r.seen))
  BY <1>1, AllowedGrantsNothing DEF FsInv, FsReady, FsAllowed
<1>3. CASE q.op # "append"
  <2>1. fsNote'.fm = Result(q, r.seen)
    BY <1>1, <1>3 DEF Written, Result, Kinds
  <2>2. QED BY <1>2, <2>1
<1>4. CASE q.op = "append" /\ fsNote.there
  <2>1. fsNote'.fm = fsNote.fm
    BY <1>1, <1>4 DEF Written
  <2>2. QED BY <2>1 DEF Kept
<1>5. CASE q.op = "append" /\ ~fsNote.there
  <2>1. fsNote'.fm = IF r.seen.there THEN Unmarked ELSE Result(q, r.seen)
    BY <1>1, <1>5 DEF Written, Result
  <2>2. Granted(Unmarked) = {}
    BY DEF Granted, Unmarked
  <2>3. QED BY <1>2, <1>5, <2>1, <2>2
<1>6. QED BY <1>3, <1>4, <1>5

\* A call ends well in its write alone, or in a patch that found nothing to change.
LEMMA FsEndsByWriting ==
  ASSUME FsInv, [FsWriteNext]_fsvars, NEW r \in run, NEW s \in run', NEW q \in asked[r.call],
         s.call = r.call, r.outcome = "none", s.outcome = "ok", q.op # "delete"
  PROVE  Write(r, q) \/ fsNote' = fsNote
<1>1. run = {r} /\ s # r /\ run' # run
  BY DEF FsInv, FsOneRuns
<1>2. ASSUME NEW c \in FsCalls, Runs(c) PROVE Write(r, q) \/ fsNote' = fsNote
  <2>1. PICK t \in run, p \in asked[c] :
          t.call = c /\ (Look(t, p) \/ Guard(t, p) \/ Write(t, p) \/ WriteFails(t, p)
                         \/ Unlink(t, p) \/ FsSettle(t, p))
    BY <1>2 DEF Runs
  <2>2. t = r /\ p = q /\ run = {r} /\ FsRecord(r)
    BY <2>1 DEF FsInv, FsOneRuns
  <2>3. CASE WriteFails(r, q)
    <3>1. run' = {[r EXCEPT !.at = "settled", !.outcome = "error"]}
      BY <2>2, <2>3 DEF WriteFails, Fails, Goes
    <3>2. QED BY <2>2, <3>1 DEF FsRecord
  <2>4. QED BY <2>1, <2>2, <2>3 DEF Look, Guard, Unlink, FsSettle
<1>3. QED BY <1>1, <1>2 DEF FsWriteNext, FsSubmit, FsDequeue, Changes, fsvars

(***************************************************************************)
(* No write of a call loses text it did not race, or gives a note a human  *)
(* record, or takes from it what stays, if the guard read the record it    *)
(* writes over.                                                            *)
(***************************************************************************)
THEOREM FilesAreKept == FsWriteSpec => FilesKept
<1> DEFINE Lost(r, s, q) ==
      (s.call = r.call /\ r.outcome = "none" /\ s.outcome = "ok" /\ q.op \notin {"replace", "delete"}) =>
         /\ fsNote.marks \ fsNote'.marks \subseteq fsNote.marks \ r.seen.marks
         /\ (fsNote.marks \ fsNote'.marks) \cap FsCalls = {}
    Grants(r, s, q) ==
      (s.call = r.call /\ r.outcome = "none" /\ s.outcome = "ok" /\ q.op # "delete" /\ fsNote.fm = r.held) =>
         /\ Granted(fsNote'.fm) \subseteq Granted(fsNote.fm)
         /\ Kept(fsNote.fm) \subseteq Granted(fsNote'.fm) \/ ~fsNote.there
<1>1. FsInv /\ [FsWriteNext]_fsvars
        => \A r \in run, s \in run' : \A q \in asked[r.call] : Lost(r, s, q) /\ Grants(r, s, q)
  <2> SUFFICES ASSUME FsInv, [FsWriteNext]_fsvars, NEW r \in run, NEW s \in run', NEW q \in asked[r.call]
               PROVE  Lost(r, s, q) /\ Grants(r, s, q)
    OBVIOUS
  <2>1. CASE Write(r, q)
    BY <2>1, WrittenLosesRaced, WrittenGrantsNothing
  <2>2. CASE fsNote' = fsNote
    BY <2>2 DEF Kept
  <2>3. QED BY <2>1, <2>2, FsEndsByWriting
<1>2. FsInv /\ [FsWriteNext]_fsvars
        => [\A r \in run, s \in run' : \A q \in asked[r.call] : Lost(r, s, q)]_fsvars
           /\ [\A r \in run, s \in run' : \A q \in asked[r.call] : Grants(r, s, q)]_fsvars
  BY <1>1
<1>3. QED BY <1>2, FsInvariance, PTL DEF FsWriteSpec, FilesKept, OnlyRacedTextLost, GrantsNothing

\* The turns of the calls: each waits, runs or was told, in the order of their numbers.
Waits(c)   == \E i \in 1..Len(line) : line[i] = c
RunsNow(c) == \E r \in run : r.call = c
WasTold(c) == fsTold[c] # "none"

FsTurns ==
  /\ fsTold \in [FsCalls -> {"none", "ok", "error"}]
  /\ \A r \in run : r.outcome \in {"none", "ok", "error"} /\ (r.at = "settled" => r.outcome # "none")
  /\ \A c \in FsCalls : asked[c] # {} <=> Waits(c) \/ RunsNow(c) \/ WasTold(c)
  /\ \A b, c \in FsCalls :
       /\ RunsNow(b) /\ Waits(c) => b < c
       /\ WasTold(b) /\ (Waits(c) \/ RunsNow(c)) => b < c
       /\ b < c /\ asked[c] # {} => asked[b] # {}
  /\ \A i, j \in 1..Len(line) : i < j => line[i] < line[j]

\* The records: of the calls that were told, in the order of their numbers.
FsRecorded ==
  /\ journal \in Seq(FsCalls) /\ unrecorded \subseteq FsCalls
  /\ \A c \in FsCalls : c \in unrecorded => WasTold(c)
  /\ \A c \in FsCalls : (\E i \in 1..Len(journal) : journal[i] = c) <=> WasTold(c) /\ c \notin unrecorded
  /\ \A i, j \in 1..Len(journal) : i < j => journal[i] < journal[j]

FsOrderInv == FsInv /\ FsTurns /\ FsRecorded

\* While the call that runs goes on, the calls have their turns as they were.
LEMMA GoingOnKeepsTurns ==
  ASSUME FsOrderInv, NEW r \in run, NEW s, Goes(r, s), s.call = r.call, Idle,
         s.outcome \in {"none", "ok", "error"}, s.at = "settled" => s.outcome # "none"
  PROVE  (FsTurns /\ FsRecorded)'
<1>1. run = {r} /\ run' = {s}
  BY DEF FsOrderInv, FsInv, FsOneRuns, Goes
<1>2. \A c \in FsCalls : (RunsNow(c)' <=> RunsNow(c)) /\ (Waits(c)' <=> Waits(c)) /\ (WasTold(c)' <=> WasTold(c))
  BY <1>1 DEF RunsNow, Waits, WasTold, Idle
<1>3. FsTurns'
  BY <1>1, <1>2 DEF FsOrderInv, FsTurns, Idle
<1>4. QED BY <1>2, <1>3 DEF FsOrderInv, FsRecorded, Idle

\* The step of a call is one of those that go on, or its last.
LEMMA RunsGoOn ==
  ASSUME FsOrderInv, NEW c \in FsCalls, Runs(c)
  PROVE  \E r \in run : /\ r.call = c /\ run = {r} /\ FsRecord(r)
                        /\ \/ \E q \in asked[c] : FsSettle(r, q)
                           \/ /\ Idle
                              /\ \E s : /\ Goes(r, s) /\ s.call = r.call /\ s.seen \in {r.seen, fsNote}
                                        /\ s.outcome \in {"none", "ok", "error"}
                                        /\ s.at = "settled" => s.outcome # "none"
<1>1. PICK r \in run, q \in asked[c] :
        r.call = c /\ (Look(r, q) \/ Guard(r, q) \/ Write(r, q) \/ WriteFails(r, q)
                       \/ Unlink(r, q) \/ FsSettle(r, q))
  BY DEF Runs
<1>2. run = {r} /\ FsRecord(r) /\ r.outcome \in {"none", "ok", "error"}
  BY DEF FsOrderInv, FsInv, FsOneRuns, FsTurns
<1> DEFINE Proper(s) == /\ s.call = r.call /\ s.seen \in {r.seen, fsNote}
                        /\ s.outcome \in {"none", "ok", "error"}
                        /\ s.at = "settled" => s.outcome # "none"
<1>3. ASSUME NEW outcome \in {"ok", "error"}
      PROVE  Proper([r EXCEPT !.at = "settled", !.outcome = outcome])
  BY <1>2 DEF FsRecord
<1>4. CASE Look(r, q) \/ Guard(r, q)
  <2>1. ASSUME NEW upTo \in FsSteps \ {"settled"}, NEW held
        PROVE  /\ Proper([r EXCEPT !.at = upTo, !.seen = fsNote, !.held = held])
               /\ Proper([r EXCEPT !.at = upTo, !.seen = fsNote])
               /\ Proper([r EXCEPT !.at = upTo, !.held = held])
    BY <1>2 DEF FsRecord, FsSteps
  <2>2. CASE Look(r, q)
    <3>1. Idle /\ (\/ Fails(r)
                   \/ Goes(r, [r EXCEPT !.at = "settled", !.outcome = "ok"])
                   \/ Goes(r, [r EXCEPT !.at = "cleared", !.seen = fsNote, !.held = fsNote.fm])
                   \/ Goes(r, [r EXCEPT !.at = "cleared", !.seen = fsNote])
                   \/ Goes(r, [r EXCEPT !.at = "looked", !.seen = fsNote]))
      BY <2>2 DEF Look
    <3>2. \E s : Goes(r, s) /\ Proper(s)
      BY <3>1, <2>1, <1>3 DEF Fails, FsSteps
    <3>3. QED BY <1>1, <1>2, <3>1, <3>2
  <2>3. CASE Guard(r, q)
    <3>1. Idle /\ (\/ Fails(r)
                   \/ Goes(r, [r EXCEPT !.at = "guarded", !.held = fsNote.fm])
                   \/ Goes(r, [r EXCEPT !.at = "cleared", !.held = fsNote.fm]))
      BY <2>3 DEF Guard
    <3>2. \E s : Goes(r, s) /\ Proper(s)
      BY <3>1, <2>1, <1>3 DEF Fails, FsSteps
    <3>3. QED BY <1>1, <1>2, <3>1, <3>2
  <2>4. QED BY <1>4, <2>2, <2>3
<1>5. CASE Write(r, q) \/ WriteFails(r, q) \/ Unlink(r, q)
  <2>1. Idle /\ (Fails(r) \/ Goes(r, [r EXCEPT !.at = "settled", !.outcome = "ok"]))
    BY <1>5 DEF Write, WriteFails, Unlink
  <2>2. \E s : Goes(r, s) /\ Proper(s)
    BY <2>1, <1>3 DEF Fails
  <2>3. QED BY <1>1, <1>2, <2>1, <2>2
<1>6. QED BY <1>1, <1>2, <1>4, <1>5

\* The record of the call that ends follows those of the calls told before it.
LEMMA SettlingKeepsTurns ==
  ASSUME FsOrderInv, NEW r \in run, NEW q, FsSettle(r, q)
  PROVE  (FsTurns /\ FsRecorded)'
<1>0. PICK c \in FsCalls : c = r.call
  BY DEF FsOrderInv, FsInv, FsOneRuns
<1>1. /\ run = {r} /\ run' = {} /\ FsCalls \subseteq Nat
      /\ r.outcome \in {"ok", "error"} /\ asked[c] # {} /\ UNCHANGED <<asked, line>>
      /\ fsTold' = [fsTold EXCEPT ![c] = r.outcome]
  BY <1>0, FsAssumption DEF FsSettle, FsOrderInv, FsInv, FsOneRuns, FsTurns
<1>2. \A b \in FsCalls : /\ Waits(b)' <=> Waits(b)
                         /\ ~RunsNow(b)' /\ (RunsNow(b) <=> b = c)
                         /\ WasTold(b)' <=> WasTold(b) \/ b = c
  BY <1>0, <1>1 DEF Waits, RunsNow, WasTold, FsOrderInv, FsTurns
<1>3. FsTurns'
  <2>1. \A b \in FsCalls : asked'[b] # {} <=> (Waits(b) \/ RunsNow(b) \/ WasTold(b))'
    BY <1>1, <1>2 DEF FsOrderInv, FsTurns
  <2>2. \A a, b \in FsCalls :
          /\ ~RunsNow(a)'
          /\ WasTold(a)' /\ (Waits(b) \/ RunsNow(b))' => a < b
          /\ a < b /\ asked'[b] # {} => asked'[a] # {}
    BY <1>1, <1>2 DEF FsOrderInv, FsTurns
  <2>3. fsTold' \in [FsCalls -> {"none", "ok", "error"}]
    BY <1>1 DEF FsOrderInv, FsTurns
  <2>4. QED BY <1>1, <2>1, <2>2, <2>3 DEF FsOrderInv, FsTurns
<1>4. \A b \in FsCalls : WasTold(b) => b < c
  BY <1>1, <1>2 DEF FsOrderInv, FsTurns
<1>5. FsRecorded'
  <2>1. CASE unrecorded' = unrecorded \cup {c} /\ journal' = journal
    <3>1. \A i \in 1..Len(journal) : journal[i] \in FsCalls /\ journal[i] # c
      <4>1. \A i \in 1..Len(journal) : journal[i] \in FsCalls
        BY DEF FsOrderInv, FsRecorded
      <4>2. ~(c < c)
        BY <1>1
      <4>3. \A i \in 1..Len(journal) : WasTold(journal[i])
        BY <4>1 DEF FsOrderInv, FsRecorded
      <4>4. QED BY <1>4, <4>1, <4>2, <4>3
    <3>2. \A b \in FsCalls : (\E i \in 1..Len(journal) : journal[i] = b)
                               <=> (WasTold(b) /\ b \notin unrecorded)'
      BY <1>2, <2>1, <3>1 DEF FsOrderInv, FsRecorded
    <3>3. \A b \in FsCalls : b \in unrecorded' => WasTold(b)'
      BY <1>2, <2>1 DEF FsOrderInv, FsRecorded
    <3>4. QED BY <2>1, <3>2, <3>3 DEF FsOrderInv, FsRecorded
  <2>2. CASE journal' = Append(journal, c) /\ unrecorded' = unrecorded
    <3>1. /\ journal' \in Seq(FsCalls) /\ Len(journal') = Len(journal) + 1 /\ Len(journal) \in Nat
          /\ \A i \in 1..Len(journal') : journal'[i] = IF i = Len(journal) + 1 THEN c ELSE journal[i]
      BY <1>1, <2>2 DEF FsOrderInv, FsRecorded
    <3>2. \A i \in 1..Len(journal) : journal[i] \in FsCalls /\ journal[i] < c
      <4>1. \A i \in 1..Len(journal) : journal[i] \in FsCalls
        BY DEF FsOrderInv, FsRecorded
      <4>2. \A i \in 1..Len(journal) : WasTold(journal[i])
        BY <4>1 DEF FsOrderInv, FsRecorded
      <4>3. QED BY <1>4, <4>1, <4>2
    <3>3. \A i, j \in 1..Len(journal') : i < j => journal'[i] < journal'[j]
      <4>1. \A i, j \in 1..Len(journal) : i < j => journal[i] < journal[j]
        BY DEF FsOrderInv, FsRecorded
      <4>2. \A i, j \in 1..Len(journal') : i < j => i \in 1..Len(journal) /\ (j \in 1..Len(journal) \/ j = Len(journal) + 1)
        BY <3>1
      <4>3. QED BY <3>1, <3>2, <4>1, <4>2
    <3>4. ASSUME NEW b \in FsCalls
          PROVE  (\E i \in 1..Len(journal') : journal'[i] = b) <=> (WasTold(b) /\ b \notin unrecorded)'
      <4>1. (\E i \in 1..Len(journal') : journal'[i] = b) <=> b = c \/ \E i \in 1..Len(journal) : journal[i] = b
        <5>1. 1 <= Len(journal) + 1 /\ \A i \in 1..Len(journal) : i \in 1..Len(journal') /\ i # Len(journal) + 1
          BY <3>1
        <5>2. QED BY <3>1, <5>1
      <4>2. ~(c < c)
        BY <1>1
      <4>3. c \notin unrecorded
        BY <1>1, <1>4, <4>2 DEF FsOrderInv, FsRecorded
      <4>4. QED BY <4>1, <4>3, <1>2, <2>2 DEF FsOrderInv, FsRecorded
    <3>5. \A b \in FsCalls : b \in unrecorded' => WasTold(b)'
      BY <1>2, <2>2 DEF FsOrderInv, FsRecorded
    <3>6. QED BY <2>2, <3>1, <3>3, <3>4, <3>5 DEF FsOrderInv, FsRecorded
  <2>3. QED BY <1>0, <2>1, <2>2 DEF FsSettle
<1>6. QED BY <1>3, <1>5

LEMMA FsTurnsInvariance == FsWriteSpec => []FsOrderInv
<1>1. FsWriteInit => FsOrderInv
  <2> SUFFICES ASSUME FsWriteInit PROVE FsOrderInv
    OBVIOUS
  <2>1. FsInv
    BY FsAssumption DEF FsWriteInit, FsInv, FsOneRuns, Absent
  <2>2. \A c \in FsCalls : ~Waits(c) /\ ~RunsNow(c) /\ ~WasTold(c) /\ asked[c] = {}
    BY DEF FsWriteInit, Waits, RunsNow, WasTold
  <2>3. FsTurns
    BY <2>2 DEF FsWriteInit, FsTurns
  <2>4. QED BY <2>1, <2>2, <2>3 DEF FsWriteInit, FsOrderInv, FsRecorded
<1>2. FsOrderInv /\ FsInv' /\ [FsWriteNext]_fsvars => FsOrderInv'
  <2> SUFFICES ASSUME FsOrderInv, FsInv', [FsWriteNext]_fsvars PROVE (FsTurns /\ FsRecorded)'
    BY DEF FsOrderInv
  <2>0. FsCalls \subseteq Nat
    BY FsAssumption
  <2>1. ASSUME NEW c \in FsCalls, NEW q \in Asks, FsSubmit(c, q) PROVE (FsTurns /\ FsRecorded)'
    <3>1. /\ asked[c] = {} /\ (\A b \in FsCalls : b < c => asked[b] # {})
          /\ asked' = [asked EXCEPT ![c] = {q}] /\ line' = Append(line, c)
          /\ UNCHANGED <<run, journal, fsTold, unrecorded>> /\ line \in Seq(FsCalls)
          /\ asked \in [FsCalls -> SUBSET Asks]
      BY <2>1 DEF FsSubmit, FsOrderInv, FsInv, FsOneRuns
    <3>2. /\ Len(line') = Len(line) + 1 /\ Len(line) \in Nat
          /\ \A i \in 1..Len(line') : line'[i] = IF i = Len(line) + 1 THEN c ELSE line[i]
      BY <3>1
    <3>3. \A b \in FsCalls : /\ Waits(b)' <=> Waits(b) \/ b = c
                             /\ RunsNow(b)' <=> RunsNow(b)
                             /\ WasTold(b)' <=> WasTold(b)
                             /\ asked'[b] # {} <=> asked[b] # {} \/ b = c
      <4>1. ASSUME NEW b \in FsCalls PROVE Waits(b)' <=> Waits(b) \/ b = c
        <5>1. 1 <= Len(line) + 1 /\ \A i \in 1..Len(line) : i \in 1..Len(line') /\ i # Len(line) + 1
          BY <3>2
        <5>2. QED BY <3>2, <5>1 DEF Waits
      <4>2. QED BY <4>1, <3>1 DEF RunsNow, WasTold
    <3>4. \A b \in FsCalls : asked[b] # {} => b < c
      <4>1. \A b \in FsCalls : b < c \/ b = c \/ c < b
        BY <2>0
      <4>2. QED BY <4>1, <3>1 DEF FsOrderInv, FsTurns
    <3>5. \A i, j \in 1..Len(line') : i < j => line'[i] < line'[j]
      <4>1. \A i \in 1..Len(line) : line[i] \in FsCalls /\ line[i] < c
        BY <3>1, <3>4 DEF FsOrderInv, FsTurns, Waits
      <4>2. \A i, j \in 1..Len(line) : i < j => line[i] < line[j]
        BY DEF FsOrderInv, FsTurns
      <4>3. \A i, j \in 1..Len(line') : i < j => i \in 1..Len(line) /\ (j \in 1..Len(line) \/ j = Len(line) + 1)
        BY <3>2
      <4>4. QED BY <3>2, <4>1, <4>2, <4>3
    <3>6. \A a, b \in FsCalls :
            /\ RunsNow(a)' /\ Waits(b)' => a < b
            /\ WasTold(a)' /\ (Waits(b) \/ RunsNow(b))' => a < b
            /\ a < b /\ asked'[b] # {} => asked'[a] # {}
      BY <3>1, <3>3, <3>4 DEF FsOrderInv, FsTurns
    <3>7. FsTurns'
      BY <3>1, <3>3, <3>5, <3>6 DEF FsOrderInv, FsTurns
    <3>8. QED BY <3>1, <3>3, <3>7 DEF FsOrderInv, FsRecorded
  <2>2. CASE FsDequeue
    <3>1. /\ run = {} /\ line # <<>> /\ line \in Seq(FsCalls) /\ line' = Tail(line)
          /\ UNCHANGED <<asked, journal, fsTold, unrecorded>>
      BY <2>2 DEF FsDequeue, FsOrderInv, FsInv, FsOneRuns
    <3>2. PICK h \in FsCalls : h = line[1] /\ h = Head(line)
      BY <3>1
    <3>3. /\ Len(line) \in Nat \ {0} /\ Len(line') = Len(line) - 1
          /\ \A i \in 1..Len(line') : line'[i] = line[i + 1] /\ i + 1 \in 1..Len(line)
          /\ \A i \in 1..Len(line) : i # 1 => i - 1 \in 1..Len(line') /\ line[i] = line'[i - 1]
      BY <3>1
    <3>4. \A b \in FsCalls : /\ Waits(b) <=> Waits(b)' \/ b = h
                             /\ Waits(b)' => h < b
                             /\ RunsNow(b)' <=> b = h
                             /\ ~RunsNow(b)
                             /\ WasTold(b)' <=> WasTold(b)
      <4>1. ASSUME NEW b \in FsCalls PROVE (Waits(b) <=> Waits(b)' \/ b = h) /\ (Waits(b)' => h < b)
        <5>1. 1 \in 1..Len(line) /\ \A i \in 1..Len(line') : 1 < i + 1
          BY <3>3
        <5>2. QED BY <3>2, <3>3, <5>1 DEF Waits, FsOrderInv, FsTurns
      <4>2. QED BY <4>1, <2>2, <3>1, <3>2 DEF RunsNow, WasTold, FsDequeue
    <3>5. \A i, j \in 1..Len(line') : i < j => line'[i] < line'[j]
      BY <3>3 DEF FsOrderInv, FsTurns
    <3>6. \A r \in run' : r.outcome = "none" /\ r.at = "begun"
      BY <2>2 DEF FsDequeue
    <3>7. FsTurns'
      BY <3>1, <3>4, <3>5, <3>6 DEF FsOrderInv, FsTurns
    <3>8. QED BY <3>1, <3>4, <3>7 DEF FsOrderInv, FsRecorded
  <2>3. ASSUME NEW c \in FsCalls, Runs(c) PROVE (FsTurns /\ FsRecorded)'
    BY <2>3, RunsGoOn, GoingOnKeepsTurns, SettlingKeepsTurns
  <2>4. ASSUME UNCHANGED <<asked, line, run, journal, fsTold, unrecorded>> PROVE (FsTurns /\ FsRecorded)'
    BY <2>4 DEF FsOrderInv, FsTurns, FsRecorded, Waits, RunsNow, WasTold
  <2>5. QED BY <2>1, <2>2, <2>3, <2>4 DEF FsWriteNext, Changes, fsvars
<1>3. QED BY <1>1, <1>2, FsInvariance, PTL DEF FsWriteSpec

\* What the file holds and the call that runs has seen are notes.
FsNotes == [there : BOOLEAN, marks : SUBSET (FsCalls \cup 0..MaxChanges), fm : Frontmatter]

FsNoteInv ==
  /\ FsOrderInv /\ fsNote \in FsNotes /\ changes \in 0..MaxChanges
  /\ \A r \in run : r.seen \in FsNotes

LEMMA UnmarkedIsFrontmatter == Unmarked \in Frontmatter /\ Absent \in FsNotes
<1>1. Unmarked \in Frontmatter
  BY DEF Unmarked, Frontmatter, Values
<1>2. QED BY <1>1 DEF Absent, FsNotes

\* What is asked for leaves a frontmatter.
LEMMA ResultIsFrontmatter ==
  ASSUME NEW q \in Asks, NEW seen \in FsNotes
  PROVE  Result(q, seen) \in Frontmatter
<1>1. q.fm \in Frontmatter /\ seen.fm \in Frontmatter
  BY FsAssumption, UnmarkedIsFrontmatter DEF Asks, FsNotes
<1>2. q.op = "setfield" => q.field \in Fields
  BY DEF Asks
<1>3. q.op = "setfield" => [seen.fm EXCEPT ![q.field[1]] = q.field[2]] \in Frontmatter
  BY <1>1, <1>2, FsAssumption
<1>4. QED BY <1>1, <1>3, UnmarkedIsFrontmatter DEF Result, Asks, Kinds

LEMMA WrittenIsANote ==
  ASSUME FsNoteInv, NEW r \in run, NEW q \in asked[r.call]
  PROVE  Written(r, q) \in FsNotes
<1>1. q \in Asks /\ r.call \in FsCalls /\ r.seen \in FsNotes /\ fsNote \in FsNotes
  BY DEF FsNoteInv, FsOrderInv, FsInv, FsOneRuns
<1>2. Result(q, r.seen) \in Frontmatter /\ q.fm \in Frontmatter /\ Unmarked \in Frontmatter
  BY <1>1, ResultIsFrontmatter, UnmarkedIsFrontmatter, FsAssumption DEF Asks
<1>3. r.seen.marks \cup {r.call} \in SUBSET (FsCalls \cup 0..MaxChanges) /\ fsNote.fm \in Frontmatter
      /\ fsNote.marks \cup {r.call} \in SUBSET (FsCalls \cup 0..MaxChanges)
      /\ {r.call} \in SUBSET (FsCalls \cup 0..MaxChanges)
      /\ r.seen.marks \in SUBSET (FsCalls \cup 0..MaxChanges)
  BY <1>1 DEF FsNotes
<1>4. QED BY <1>2, <1>3 DEF Written, FsNotes

LEMMA FsNoteInvariance == FsWriteSpec => []FsNoteInv
<1>1. FsWriteInit /\ FsOrderInv => FsNoteInv
  <2> SUFFICES ASSUME FsWriteInit, FsOrderInv PROVE FsNoteInv
    OBVIOUS
  <2>1. 0 \in 0..MaxChanges
    BY FsAssumption
  <2>2. fsNote \in FsNotes
    <3>1. \A f \in Fms : [there |-> TRUE, marks |-> {0}, fm |-> f] \in FsNotes
      BY <2>1, FsAssumption DEF FsNotes
    <3>2. QED BY <3>1, UnmarkedIsFrontmatter DEF FsWriteInit
  <2>3. QED BY <2>1, <2>2 DEF FsWriteInit, FsNoteInv
<1>2. FsNoteInv /\ FsOrderInv' /\ [FsWriteNext]_fsvars => FsNoteInv'
  <2> SUFFICES ASSUME FsNoteInv, FsOrderInv', [FsWriteNext]_fsvars
               PROVE  fsNote' \in FsNotes /\ changes' \in 0..MaxChanges /\ \A r \in run' : r.seen \in FsNotes
    BY DEF FsNoteInv
  <2>1. CASE FsDequeue
    BY <2>1, UnmarkedIsFrontmatter DEF FsDequeue, FsNoteInv
  <2>2. ASSUME NEW c \in FsCalls, Runs(c)
        PROVE  fsNote' \in FsNotes /\ changes' = changes /\ \A r \in run' : r.seen \in FsNotes
    <3>1. PICK r \in run, q \in asked[c] :
            r.call = c /\ (Look(r, q) \/ Guard(r, q) \/ Write(r, q) \/ WriteFails(r, q)
                           \/ Unlink(r, q) \/ FsSettle(r, q))
      BY <2>2 DEF Runs
    <3>2. run = {r} /\ FsRecord(r) /\ r.seen \in FsNotes /\ fsNote \in FsNotes /\ changes' = changes
      BY <3>1 DEF FsNoteInv, FsOrderInv, FsInv, FsOneRuns, Look, Guard, Write, WriteFails, Unlink, FsSettle, Idle
    <3>3. fsNote' \in FsNotes
      <4>1. Write(r, q) => fsNote' \in FsNotes
        BY <3>1, WrittenIsANote DEF Write
      <4>2. WriteFails(r, q) => fsNote' \in FsNotes
        <5>1. [there |-> TRUE, marks |-> {}, fm |-> Unmarked] \in FsNotes
          BY UnmarkedIsFrontmatter DEF FsNotes
        <5>2. QED BY <3>2, <5>1 DEF WriteFails
      <4>3. Unlink(r, q) => fsNote' \in FsNotes
        BY UnmarkedIsFrontmatter DEF Unlink
      <4>4. Look(r, q) \/ Guard(r, q) \/ FsSettle(r, q) => fsNote' = fsNote
        BY DEF Look, Guard, FsSettle
      <4>5. QED BY <3>1, <3>2, <4>1, <4>2, <4>3, <4>4
    <3>4. run' = {} \/ \E s : run' = {s} /\ s.seen \in {r.seen, fsNote}
      BY <2>2, <3>2, RunsGoOn DEF FsSettle, Goes, FsNoteInv
    <3>5. QED BY <3>2, <3>3, <3>4
  <2>3. ASSUME NEW n \in Others, Changes(n)
        PROVE  fsNote' \in FsNotes /\ changes' \in 0..MaxChanges /\ run' = run
    <3>1. changes + 1 \in 0..MaxChanges /\ fsNote' = n /\ changes' = changes + 1 /\ run' = run
      BY <2>3, FsAssumption DEF Changes, FsNoteInv
    <3>2. n \in FsNotes
      BY <3>1, FsAssumption, UnmarkedIsFrontmatter DEF Others, FsNotes, FsNoteInv
    <3>3. QED BY <3>1, <3>2
  <2>4. QED BY <2>1, <2>2, <2>3 DEF FsWriteNext, FsSubmit, fsvars, FsNoteInv
<1>3. QED BY <1>1, <1>2, FsTurnsInvariance, PTL DEF FsWriteSpec

(***************************************************************************)
(* The calls are told in the order they were queued, one runs at a time,   *)
(* and the journal has a record of each, in that order, but for those      *)
(* whose write failed.                                                     *)
(***************************************************************************)
THEOREM FsKernelIsSafe == FsWriteSpec => []FsKernelSafe
<1>1. FsNoteInv => FsKernelSafe
  <2> SUFFICES ASSUME FsNoteInv PROVE FsKernelSafe
    OBVIOUS
  <2>1. line \in Seq(FsCalls) /\ journal \in Seq(FsCalls) /\ FsCalls \subseteq Nat
    BY FsAssumption DEF FsNoteInv, FsOrderInv, FsInv, FsOneRuns, FsRecorded
  <2>2. \A c \in FsCalls : (c \in ToSet(line) <=> Waits(c))
                           /\ (c \in ToSet(journal) <=> WasTold(c) /\ c \notin unrecorded)
    <3>1. \A c : c \in ToSet(line) <=> \E i \in 1..Len(line) : line[i] = c
      BY <2>1 DEF ToSet
    <3>2. \A c : c \in ToSet(journal) <=> \E i \in 1..Len(journal) : journal[i] = c
      BY <2>1 DEF ToSet
    <3>3. FsRecorded
      BY DEF FsNoteInv, FsOrderInv
    <3>4. \A c \in FsCalls : (\E i \in 1..Len(journal) : journal[i] = c)
                              <=> WasTold(c) /\ c \notin unrecorded
      BY <3>3 DEF FsRecorded
    <3>5. QED BY <3>1, <3>2, <3>4 DEF Waits
  <2>3. \A S : (\A a, b \in S : a = b) => IF S = {} THEN Cardinality(S) = 0 ELSE Cardinality(S) = 1
    <3>1. ASSUME NEW S, \A a, b \in S : a = b, S # {} PROVE Cardinality(S) = 1
      <4>1. PICK a : S = {a}
        BY <3>1
      <4>2. QED BY <4>1, FS_Singleton
    <3>2. QED BY <3>1, FS_EmptySet
  <2>4. Cardinality(run) <= 1 /\ \A c \in FsCalls : Cardinality(asked[c]) <= 1
    BY <2>3 DEF FsNoteInv, FsOrderInv, FsInv, FsOneRuns
  <2>5. ASSUME NEW c \in FsCalls
        PROVE  Cardinality({r \in run : r.call = c}) + (IF c \in ToSet(line) THEN 1 ELSE 0)
                 + (IF fsTold[c] # "none" THEN 1 ELSE 0) = Cardinality(asked[c])
    <3>1. Cardinality({r \in run : r.call = c}) = IF RunsNow(c) THEN 1 ELSE 0
      <4>1. {r \in run : r.call = c} = {} <=> ~RunsNow(c)
        BY DEF RunsNow
      <4>2. \A a, b \in {r \in run : r.call = c} : a = b
        BY DEF FsNoteInv, FsOrderInv, FsInv, FsOneRuns
      <4>3. QED BY <4>1, <4>2, <2>3
    <3>2. Cardinality(asked[c]) = IF asked[c] = {} THEN 0 ELSE 1
      BY <2>3 DEF FsNoteInv, FsOrderInv, FsInv, FsOneRuns
    <3>3. ~(c < c)
      BY <2>1
    <3>4. ~(RunsNow(c) /\ Waits(c)) /\ ~(WasTold(c) /\ Waits(c)) /\ ~(WasTold(c) /\ RunsNow(c))
          /\ (asked[c] # {} <=> Waits(c) \/ RunsNow(c) \/ WasTold(c))
      BY <3>3 DEF FsNoteInv, FsOrderInv, FsTurns
    <3>5. (c \in ToSet(line) <=> Waits(c)) /\ (fsTold[c] # "none" <=> WasTold(c))
      BY <2>2 DEF WasTold
    <3>6. QED BY <3>1, <3>2, <3>4, <3>5
  <2>6. \A b, c \in FsCalls : b < c /\ fsTold[c] # "none" => fsTold[b] # "none"
    <3>1. \A b, c \in FsCalls : ~(b < c /\ c < b)
      BY <2>1
    <3>2. QED BY <3>1 DEF FsNoteInv, FsOrderInv, FsTurns, WasTold
  <2>7. ToSet(journal) = {c \in FsCalls : fsTold[c] # "none"} \ unrecorded
    <3>1. ToSet(journal) \subseteq FsCalls
      BY <2>1 DEF ToSet
    <3>2. QED BY <2>2, <3>1 DEF WasTold
  <2>8. \A i, j \in DOMAIN journal : i < j => journal[i] < journal[j]
    BY <2>1 DEF FsNoteInv, FsOrderInv, FsRecorded
  <2>9. FsTypeOK
    BY <2>4, <2>5 DEF FsTypeOK, FsNotes, FsNoteInv, FsOrderInv, FsTurns
  <2>10. QED BY <2>6, <2>7, <2>8, <2>9 DEF FsKernelSafe, FsRecordsInOrder
<1>2. QED BY <1>1, FsNoteInvariance, PTL
-----------------------------------------------------------------------------
(***************************************************************************)
(* A note that moves.                                                      *)
(***************************************************************************)
MoveShape ==
  /\ outing \in Outings /\ arriving \subseteq outing.coming
  /\ body \in [MoveNotes -> LinkText] /\ planned \in [MoveNotes -> LinkText]
  /\ moved \in BOOLEAN /\ squatter \in BOOLEAN /\ reindexed \in BOOLEAN /\ takenLate \in BOOLEAN
  /\ dest \in {"free", "held", "trashed", "replaced"} /\ verdict \in {"none", "ok", "damage", "failed"}
  /\ mstep \in {"asked", "find", "rename", "rewrite", "write", "check", "done"}
  /\ ahead \subseteq MoveNotes /\ plans \subseteq MoveNotes /\ records \subseteq MoveNotes
  /\ since \subseteq MoveNotes /\ plans \cap records = {}
  /\ inHand = {} \/ \E n \in MoveNotes, t \in LinkText : inHand = {<<n, t>>}

\* What the answer lists.
LinkChecks  == [failed : SUBSET MoveNotes, damaged : SUBSET MoveNotes,
                indexOnly : SUBSET MoveNotes, left : SUBSET MoveNotes]
ReportShape == report \in LinkChecks

\* How far either road has come.
RoadInv ==
  /\ verdict = "none" <=> mstep # "done"
  /\ mstep \in {"find", "check"} => outing.road = "obsidian"
  /\ mstep \in {"rename", "write"} => outing.road = "files"
  /\ outing.road = "obsidian" => inHand = {} /\ raced = {}
  /\ mstep \in {"asked", "find", "rename"} => ~moved
  /\ mstep \in {"rewrite", "write", "check"} => moved
  /\ mstep \in {"asked", "rename"} => plans = {} /\ records = {}
  /\ mstep = "asked" => scarred = {} /\ dest \in {"free", "held"}
  /\ mstep = "find" => ahead \subseteq Linkers \ (plans \cup records)
  /\ mstep \in {"rewrite", "write", "check"} => ahead \subseteq plans
  /\ inHand # {} => mstep = "write"
  /\ moved \/ \A n \in MoveNotes : body[n].new = {}

\* Where the note goes, and what was there.
DestInv ==
  /\ dest = "replaced" \/ (mstep = "rename" /\ dest = "held") => outing.over \/ takenLate
  /\ dest = "replaced" => outing.road = "files"
  /\ dest = "trashed" => outing.over
  /\ outing.road = "obsidian" /\ verdict = "failed" =>
       (~moved \/ ~body[Moved].here) /\ scarred \subseteq {Moved} \ records

\* What others wrote stands, and what is in hand has it.
OthersInv ==
  /\ \A n \in MoveNotes \ raced :
       /\ <<"word", n>> \in outing.coming \ arriving => body[n].word
       /\ <<"delete", n>> \in outing.coming \ arriving => ~body[n].here
  /\ \A g \in inHand : g[1] \notin raced => g[2].word = body[g[1]].word /\ g[2].here = body[g[1]].here

\* Inside Obsidian: who has been read, and what was read is the note's still.
Unprocessed == IF mstep = "find" THEN plans ELSE IF mstep = "rewrite" THEN plans \cap ahead ELSE {}
ReadInv ==
  outing.road = "obsidian" /\ mstep # "asked" /\ verdict # "failed" =>
    /\ \A n \in MoveNotes : \/ n \in plans \cup records \/ planned[n].old = {} \/ ~body[n].here
                            \/ mstep = "find" /\ n \in ahead
    /\ \A n \in (records \cup Unprocessed) \ since : body[n].here => body[n].old = planned[n].old
    /\ scarred \subseteq {Moved} \ records

Fewer(n) == Cardinality(Reaching(body[n])) < Cardinality(planned[n].old)
CheckInv ==
  /\ mstep = "check" =>
       \A n \in plans \ (ahead \cup since \cup report.damaged) : body[n].here => ~Fewer(n)
  /\ NamedInTheAnswer

\* Over the files: what was rewritten has no link left.
FilesInv ==
  outing.road = "files" =>
    /\ \A g \in inHand : g[2].old = {}
    /\ mstep \in {"rewrite", "write"} \/ verdict = "ok" =>
         (reindexed \/ \A n \in plans \ (since \cup ahead \cup {g[1] : g \in inHand}) :
                         body[n].here => body[n].old = {})
    /\ verdict = "ok" => ahead = {} /\ inHand = {}

MoveInv == MoveShape /\ RoadInv /\ DestInv /\ OthersInv /\ ReadInv /\ CheckInv /\ FilesInv

\* Sets of links can be counted, and a note as it was read that all links reach lost none.
LEMMA LinksCount ==
  ASSUME NEW t \in LinkText
  PROVE  /\ IsFiniteSet(t.old) /\ Cardinality(t.old) \in Nat
         /\ IsFiniteSet(Reaching(t)) /\ Cardinality(Reaching(t)) \in Nat
<1>1. IsFiniteSet(LinkForms)
  <2>1. IsFiniteSet({"path"}) /\ IsFiniteSet({"rel"}) /\ IsFiniteSet({"name"})
    BY FS_Singleton
  <2>2. IsFiniteSet({"path"} \cup {"rel"})
    BY <2>1, FS_Union
  <2>3. IsFiniteSet(({"path"} \cup {"rel"}) \cup {"name"})
    BY <2>1, <2>2, FS_Union
  <2>4. LinkForms = ({"path"} \cup {"rel"}) \cup {"name"}
    BY DEF LinkForms
  <2>5. QED BY <2>3, <2>4
<1>2. t.old \subseteq LinkForms /\ t.new \subseteq LinkForms
  BY DEF LinkText
<1>3. Reaching(t) \subseteq LinkForms
  BY <1>2 DEF Reaching
<1>4. QED BY <1>1, <1>2, <1>3, FS_Subset, FS_CardinalityType

LEMMA NotFewer ==
  ASSUME MoveShape, NEW n \in MoveNotes,
         \/ planned[n].old = {}
         \/ body[n].old = planned[n].old /\ \A f \in planned[n].old : Reaches(f)
  PROVE  ~Fewer(n)
<1>1. body[n] \in LinkText /\ planned[n] \in LinkText
  BY DEF MoveShape
<1>2. /\ IsFiniteSet(planned[n].old) /\ Cardinality(planned[n].old) \in Nat
      /\ IsFiniteSet(Reaching(body[n])) /\ Cardinality(Reaching(body[n])) \in Nat
  BY <1>1, LinksCount
<1>3. planned[n].old \subseteq Reaching(body[n])
  BY DEF Reaching
<1>4. Cardinality(planned[n].old) <= Cardinality(Reaching(body[n]))
  BY <1>2, <1>3, FS_Subset
<1>5. QED BY <1>2, <1>4 DEF Fewer

LEMMA MoveInvInit == ASSUME MoveInit PROVE MoveInv
<1>1. /\ outing \in Outings /\ body = outing.body /\ dest = outing.dest /\ arriving = outing.coming
      /\ moved = FALSE /\ squatter = FALSE /\ mstep = "asked" /\ ahead = {}
      /\ planned = outing.body /\ plans = {} /\ records = {} /\ inHand = {}
      /\ verdict = "none" /\ since = {} /\ raced = {} /\ scarred = {} /\ reindexed = FALSE /\ takenLate = FALSE
  BY DEF MoveInit
<1>2. /\ outing.body \in [MoveNotes -> LinkText] /\ outing.dest \in {"free", "held"}
      /\ \A n \in MoveNotes : outing.body[n].new = {}
  BY <1>1, MoveAssumption
<1>3. MoveShape
  BY <1>1, <1>2 DEF MoveShape
<1>4. RoadInv /\ DestInv
  BY <1>1, <1>2 DEF RoadInv, DestInv
<1>5. OthersInv /\ ReadInv /\ FilesInv
  BY <1>1 DEF OthersInv, ReadInv, FilesInv
<1>6. CheckInv
  BY <1>1 DEF CheckInv, NamedInTheAnswer
<1>7. QED BY <1>3, <1>4, <1>5, <1>6 DEF MoveInv

LEMMA BeginMoveKeeps == ASSUME MoveInv, BeginMove PROVE MoveInv'
<1>1. MoveShape /\ RoadInv /\ DestInv /\ OthersInv /\ ReadInv /\ CheckInv /\ FilesInv
  BY DEF MoveInv
<1>2. /\ mstep = "asked" /\ since' = since \ {Moved}
      /\ UNCHANGED <<outing, body, moved, squatter, inHand, report, arriving, raced, scarred, reindexed, takenLate>>
  BY DEF BeginMove
<1>3. plans = {} /\ records = {} /\ scarred = {} /\ moved = FALSE /\ verdict = "none" /\ inHand = {}
      /\ dest # "replaced"
  BY <1>1, <1>2, MoveAssumption DEF RoadInv, DestInv, MoveShape
<1>4. Moved \in MoveNotes /\ Linkers \subseteq MoveNotes /\ Moved \notin Linkers
      /\ MoveNotes = Linkers \cup {Moved}
  BY MoveAssumption DEF MoveNotes
<1>5. outing.road \in {"obsidian", "files"}
  BY <1>1, MoveAssumption DEF MoveShape
<1>6. CASE dest = "held" /\ ~outing.over
  <2>1. verdict' = "failed" /\ mstep' = "done" /\ UNCHANGED <<dest, ahead, planned, plans, records>>
    BY <1>6 DEF BeginMove, Concludes
  <2>2. MoveShape' /\ RoadInv'
    BY <1>1, <1>2, <1>3, <1>6, <2>1 DEF MoveShape, RoadInv
  <2>3. DestInv'
    BY <1>1, <1>2, <1>3, <1>6, <2>1 DEF DestInv, RoadInv, ReadInv
  <2>4. OthersInv' /\ ReadInv' /\ CheckInv' /\ FilesInv'
    BY <1>1, <1>2, <1>3, <2>1 DEF OthersInv, ReadInv, CheckInv, NamedInTheAnswer, FilesInv
  <2>5. QED BY <2>2, <2>3, <2>4 DEF MoveInv
<1>7. CASE ~(dest = "held" /\ ~outing.over) /\ outing.road = "files"
  <2>1. mstep' = "rename" /\ UNCHANGED <<verdict, dest, ahead, planned, plans, records>>
    BY <1>7 DEF BeginMove
  <2>2. MoveShape'
    BY <1>1, <1>2, <1>3, <2>1 DEF MoveShape
  <2>3. RoadInv' /\ DestInv'
    BY <1>1, <1>2, <1>3, <1>7, <2>1 DEF RoadInv, DestInv
  <2>4. OthersInv' /\ ReadInv' /\ CheckInv' /\ FilesInv'
    BY <1>1, <1>2, <1>3, <1>7, <2>1 DEF OthersInv, ReadInv, CheckInv, NamedInTheAnswer, FilesInv
  <2>5. QED BY <2>2, <2>3, <2>4 DEF MoveInv
<1>8. CASE ~(dest = "held" /\ ~outing.over) /\ outing.road = "obsidian"
  <2>1. /\ dest' = (IF dest = "held" THEN "trashed" ELSE dest) /\ UNCHANGED verdict
        /\ mstep' = "find" /\ ahead' = {n \in Linkers : body[n].here}
        /\ planned' = [planned EXCEPT ![Moved] = body[Moved]]
        /\ plans' = {n \in {Moved} : ~body[n].mark}
        /\ records' = {Moved} \ plans'
    BY <1>8 DEF BeginMove
  <2>2. planned' \in [MoveNotes -> LinkText] /\ planned'[Moved] = body[Moved]
        /\ \A n \in Linkers : planned'[n] = planned[n]
    BY <1>1, <1>4, <2>1 DEF MoveShape
  <2>3. MoveShape'
    BY <1>1, <1>2, <1>3, <1>4, <2>1, <2>2 DEF MoveShape
  <2>4. RoadInv' /\ DestInv'
    BY <1>1, <1>2, <1>3, <1>4, <1>8, <2>1 DEF RoadInv, DestInv
  <2>5. OthersInv' /\ FilesInv' /\ CheckInv'
    BY <1>1, <1>2, <1>3, <1>8, <2>1 DEF OthersInv, CheckInv, NamedInTheAnswer, FilesInv
  <2>6. plans' \cup records' = {Moved}
    BY <2>1
  <2>7. ASSUME NEW n \in MoveNotes
        PROVE  n \in plans' \cup records' \/ ~body'[n].here \/ n \in ahead'
    BY <1>2, <1>4, <2>1, <2>6
  <2>8. ReadInv'
    BY <1>2, <1>3, <2>1, <2>2, <2>6, <2>7 DEF ReadInv, Unprocessed
  <2>9. QED BY <2>3, <2>4, <2>5, <2>8 DEF MoveInv
<1>9. QED BY <1>5, <1>6, <1>7, <1>8

LEMMA FindKeeps == ASSUME MoveInv, Find PROVE MoveInv'
<1>1. MoveShape /\ RoadInv /\ DestInv /\ OthersInv /\ ReadInv /\ CheckInv /\ FilesInv
  BY DEF MoveInv
<1>2. PICK n \in ahead :
       IF ~body[n].here
       THEN Concludes("failed") /\ UNCHANGED <<ahead, made, since>>
       ELSE /\ ahead' = ahead \ {n}
            /\ planned' = [planned EXCEPT ![n] = body[n]]
            /\ plans' = plans \cup {l \in {n} : Shows(n) /\ ~body[n].mark}
            /\ records' = records \cup {l \in {n} : Shows(n) /\ body[n].mark}
            /\ since' = since \ {n}
            /\ UNCHANGED <<mstep, report, verdict>>
  BY DEF Find
<1>3. /\ mstep = "find" /\ UNCHANGED <<outing, body, moved, squatter, dest, inHand, arriving, raced, scarred,
                                       reindexed, takenLate>>
  BY DEF Find
<1>4. /\ outing.road = "obsidian" /\ ~moved /\ verdict = "none" /\ inHand = {} /\ raced = {}
      /\ ahead \subseteq Linkers \ (plans \cup records) /\ n \in MoveNotes
      /\ n \notin plans /\ n \notin records /\ n # Moved
  BY <1>1, <1>2, <1>3, MoveAssumption DEF RoadInv, MoveShape
<1>5. CASE ~body[n].here
  <2>1. verdict' = "failed" /\ mstep' = "done" /\ UNCHANGED <<ahead, planned, plans, records, report, since>>
    BY <1>2, <1>5 DEF Concludes, made
  <2>2. MoveShape' /\ RoadInv'
    BY <1>1, <1>3, <1>4, <2>1 DEF MoveShape, RoadInv
  <2>3. DestInv'
    BY <1>1, <1>3, <1>4, <2>1 DEF DestInv, RoadInv, ReadInv
  <2>4. OthersInv' /\ ReadInv' /\ CheckInv' /\ FilesInv'
    BY <1>1, <1>3, <1>4, <2>1 DEF OthersInv, ReadInv, CheckInv, NamedInTheAnswer, FilesInv
  <2>5. QED BY <2>2, <2>3, <2>4 DEF MoveInv
<1>6. CASE body[n].here
  <2>1. /\ ahead' = ahead \ {n} /\ planned' = [planned EXCEPT ![n] = body[n]]
        /\ plans' = plans \cup {l \in {n} : Shows(n) /\ ~body[n].mark}
        /\ records' = records \cup {l \in {n} : Shows(n) /\ body[n].mark}
        /\ since' = since \ {n} /\ UNCHANGED <<mstep, report, verdict>>
    BY <1>2, <1>6
  <2>2. planned' \in [MoveNotes -> LinkText] /\ planned'[n] = body[n]
        /\ \A m \in MoveNotes \ {n} : planned'[m] = planned[m]
    BY <1>1, <1>4, <2>1 DEF MoveShape
  <2>3. MoveShape'
    BY <1>1, <1>3, <1>4, <2>1, <2>2 DEF MoveShape
  <2>4. RoadInv' /\ DestInv'
    BY <1>1, <1>3, <1>4, <2>1 DEF RoadInv, DestInv
  <2>5. OthersInv' /\ FilesInv' /\ CheckInv'
    BY <1>1, <1>3, <1>4, <2>1 DEF OthersInv, CheckInv, NamedInTheAnswer, FilesInv
  <2>6. ReadInv'
    <3>1. /\ \A m \in MoveNotes : \/ m \in plans \cup records \/ planned[m].old = {} \/ ~body[m].here
                                  \/ m \in ahead
          /\ \A m \in (records \cup plans) \ since : body[m].here => body[m].old = planned[m].old
          /\ scarred \subseteq {Moved} \ records
      BY <1>1, <1>3, <1>4 DEF ReadInv, Unprocessed
    <3>2. n \in plans' \cup records' \/ planned'[n].old = {}
      BY <1>6, <2>1, <2>2 DEF Shows
    <3>3. \A m \in MoveNotes : \/ m \in plans' \cup records' \/ planned'[m].old = {} \/ ~body'[m].here
                               \/ m \in ahead'
      BY <1>3, <2>1, <2>2, <3>1, <3>2
    <3>4. \A m \in (records' \cup plans') \ since' : body'[m].here => body'[m].old = planned'[m].old
      BY <1>1, <1>3, <1>4, <2>1, <2>2, <3>1 DEF MoveShape
    <3>5. scarred' \subseteq {Moved} \ records'
      BY <1>3, <1>4, <2>1, <3>1
    <3>6. QED BY <1>3, <2>1, <3>3, <3>4, <3>5 DEF ReadInv, Unprocessed
  <2>7. QED BY <2>3, <2>4, <2>5, <2>6 DEF MoveInv
<1>7. QED BY <1>5, <1>6

LEMMA RenameNoteKeeps == ASSUME MoveInv, RenameNote PROVE MoveInv'
<1>1. MoveShape /\ RoadInv /\ DestInv /\ OthersInv /\ ReadInv /\ CheckInv /\ FilesInv
  BY DEF MoveInv
<1>2. /\ mstep = "find" /\ ahead = {} /\ ~moved
      /\ UNCHANGED <<outing, body, squatter, dest, planned, plans, records, inHand, arriving, since, raced, reindexed,
                     takenLate, scarred>>
  BY DEF RenameNote, others
<1>3. outing.road = "obsidian" /\ verdict = "none" /\ inHand = {} /\ raced = {}
  BY <1>1, <1>2 DEF RoadInv
<1>4. CASE dest = "held" \/ ~body[Moved].here
  <2>1. verdict' = "failed" /\ mstep' = "done" /\ UNCHANGED <<moved, ahead>>
    BY <1>4 DEF RenameNote, Concludes
  <2>2. MoveShape' /\ RoadInv'
    BY <1>1, <1>2, <1>3, <2>1 DEF MoveShape, RoadInv
  <2>3. DestInv'
    BY <1>1, <1>2, <1>3, <2>1 DEF DestInv, RoadInv, ReadInv
  <2>4. OthersInv' /\ ReadInv' /\ CheckInv' /\ FilesInv'
    BY <1>1, <1>2, <1>3, <2>1 DEF OthersInv, ReadInv, CheckInv, NamedInTheAnswer, FilesInv
  <2>5. QED BY <2>2, <2>3, <2>4 DEF MoveInv
<1>5. CASE ~(dest = "held" \/ ~body[Moved].here)
  <2>1. moved' = TRUE /\ mstep' = "rewrite" /\ ahead' = plans /\ UNCHANGED verdict
    BY <1>5 DEF RenameNote
  <2>2. MoveShape' /\ RoadInv' /\ DestInv'
    BY <1>1, <1>2, <1>3, <2>1 DEF MoveShape, RoadInv, DestInv
  <2>3. OthersInv' /\ CheckInv' /\ FilesInv'
    BY <1>1, <1>2, <1>3, <2>1 DEF OthersInv, CheckInv, NamedInTheAnswer, FilesInv
  <2>4. ReadInv'
    BY <1>1, <1>2, <1>3, <2>1 DEF ReadInv, Unprocessed
  <2>5. QED BY <2>2, <2>3, <2>4 DEF MoveInv
<1>6. QED BY <1>4, <1>5

LEMMA RewrittenIsText ==
  ASSUME NEW t \in LinkText, NEW fs \in SUBSET t.old
  PROVE  /\ Rewritten(t, fs) \in LinkText
         /\ Rewritten(t, fs).old = t.old \ fs /\ Rewritten(t, fs).here = t.here
         /\ Rewritten(t, fs).mark = t.mark /\ Rewritten(t, fs).word = t.word
<1>1. fs \subseteq LinkForms
  BY DEF LinkText
<1>2. Rewritten(t, fs) = [t EXCEPT !.old = t.old \ fs, !.new = t.new \cup fs]
  BY DEF Rewritten
<1>3. QED BY <1>1, <1>2 DEF LinkText

LEMMA ProcessNoteKeeps == ASSUME MoveInv, ProcessNote PROVE MoveInv'
<1>1. MoveShape /\ RoadInv /\ DestInv /\ OthersInv /\ ReadInv /\ CheckInv /\ FilesInv
  BY DEF MoveInv
<1>2. /\ mstep = "rewrite" /\ outing.road = "obsidian"
      /\ UNCHANGED <<outing, moved, squatter, dest, planned, inHand, verdict, arriving, raced, reindexed, takenLate>>
  BY DEF ProcessNote
<1>3. moved /\ verdict = "none" /\ inHand = {} /\ raced = {} /\ ahead \subseteq plans
  BY <1>1, <1>2 DEF RoadInv
<1>4. CASE ahead = {}
  <2>1. mstep' = "check" /\ ahead' = plans /\ UNCHANGED <<body, plans, records, report, since, scarred>>
    BY <1>4 DEF ProcessNote
  <2>2. MoveShape' /\ RoadInv' /\ DestInv'
    BY <1>1, <1>2, <1>3, <2>1 DEF MoveShape, RoadInv, DestInv
  <2>3. OthersInv' /\ FilesInv'
    BY <1>1, <1>2, <1>3, <2>1 DEF OthersInv, FilesInv
  <2>4. CheckInv'
    BY <1>2, <1>3, <2>1 DEF CheckInv, NamedInTheAnswer
  <2>5. ReadInv'
    BY <1>1, <1>2, <1>3, <2>1 DEF ReadInv, Unprocessed
  <2>6. QED BY <2>2, <2>3, <2>4, <2>5 DEF MoveInv
<1>5. CASE ahead # {}
  <2>1. PICK n \in ahead :
       /\ ahead' = ahead \ {n} /\ UNCHANGED mstep
       /\ IF ~body[n].here
          THEN /\ report' = [report EXCEPT !.failed = @ \cup {n}]
               /\ UNCHANGED <<body, plans, records, since, scarred>>
          ELSE IF LeftAsWritten(n)
          THEN /\ plans' = plans \ {n} /\ records' = records \cup {n}
               /\ UNCHANGED <<body, report, since, scarred>>
          ELSE /\ body' = [body EXCEPT ![n] = Saved(n)]
               /\ scarred' = scarred \cup {l \in {n} : body[n].mark /\ ToRewrite(n) # {}}
               /\ since' = since \ {n}
               /\ UNCHANGED <<plans, records, report>>
    BY <1>5 DEF ProcessNote
  <2>2. n \in plans /\ n \in MoveNotes /\ n \notin records
    BY <1>1, <1>3 DEF MoveShape
  <2>3. CheckInv'
    BY <1>2, <1>3, <2>1 DEF CheckInv, NamedInTheAnswer
  <2>4. FilesInv'
    BY <1>2 DEF FilesInv
  <2>5. /\ \A m \in MoveNotes : m \in plans \cup records \/ planned[m].old = {} \/ ~body[m].here
        /\ \A m \in (records \cup (plans \cap ahead)) \ since : body[m].here => body[m].old = planned[m].old
        /\ scarred \subseteq {Moved} \ records
    BY <1>1, <1>2, <1>3 DEF ReadInv, Unprocessed
  <2>6. CASE ~body[n].here
    <3>1. ahead' = ahead \ {n} /\ UNCHANGED <<mstep, body, plans, records, since, scarred>>
      BY <2>1, <2>6
    <3>2. MoveShape' /\ RoadInv' /\ DestInv' /\ OthersInv'
      BY <1>1, <1>2, <1>3, <3>1 DEF MoveShape, RoadInv, DestInv, OthersInv
    <3>3. ReadInv'
      BY <1>2, <1>3, <2>5, <3>1 DEF ReadInv, Unprocessed
    <3>4. QED BY <2>3, <2>4, <3>2, <3>3 DEF MoveInv
  <2>7. CASE body[n].here /\ LeftAsWritten(n)
    <3>1. /\ ahead' = ahead \ {n} /\ plans' = plans \ {n} /\ records' = records \cup {n}
          /\ UNCHANGED <<mstep, body, since, scarred>>
      BY <2>1, <2>7
    <3>2. n # Moved
      BY <2>7 DEF LeftAsWritten
    <3>3. MoveShape'
      BY <1>1, <1>2, <2>2, <3>1 DEF MoveShape
    <3>4. RoadInv' /\ DestInv' /\ OthersInv'
      BY <1>1, <1>2, <1>3, <3>1 DEF RoadInv, DestInv, OthersInv
    <3>5. \A m \in (records' \cup (plans' \cap ahead')) \ since' : body'[m].here => body'[m].old = planned'[m].old
      BY <1>2, <2>2, <2>5, <3>1
    <3>6. scarred' \subseteq {Moved} \ records'
      BY <2>5, <3>1, <3>2
    <3>7. \A m \in MoveNotes : m \in plans' \cup records' \/ planned'[m].old = {} \/ ~body'[m].here
      BY <1>2, <2>5, <3>1
    <3>8. ReadInv'
      BY <1>2, <3>1, <3>5, <3>6, <3>7 DEF ReadInv, Unprocessed
    <3>9. QED BY <2>3, <2>4, <3>3, <3>4, <3>8 DEF MoveInv
  <2>8. CASE body[n].here /\ ~LeftAsWritten(n)
    <3>1. /\ ahead' = ahead \ {n} /\ body' = [body EXCEPT ![n] = Saved(n)]
          /\ scarred' = scarred \cup {l \in {n} : body[n].mark /\ ToRewrite(n) # {}}
          /\ since' = since \ {n} /\ UNCHANGED <<mstep, plans, records>>
      BY <2>1, <2>8
    <3>2. body[n] \in LinkText /\ ToRewrite(n) \subseteq body[n].old
      BY <1>1, <2>2 DEF MoveShape, ToRewrite
    <3>3. Saved(n) \in LinkText /\ Saved(n).here = body[n].here /\ Saved(n).word = body[n].word
      BY <3>2, RewrittenIsText DEF Saved
    <3>4. /\ body' \in [MoveNotes -> LinkText] /\ body'[n] = Saved(n)
          /\ \A m \in MoveNotes \ {n} : body'[m] = body[m]
      BY <1>1, <2>2, <3>1, <3>3 DEF MoveShape
    <3>5. \A m \in MoveNotes : body'[m].here = body[m].here /\ body'[m].word = body[m].word
      BY <3>3, <3>4
    <3>6. MoveShape'
      BY <1>1, <1>2, <3>1, <3>4 DEF MoveShape
    <3>7. RoadInv'
      BY <1>1, <1>2, <1>3, <3>1 DEF RoadInv
    <3>8. DestInv'
      BY <1>1, <1>2, <1>3, <3>1 DEF DestInv
    <3>9. OthersInv'
      BY <1>1, <1>2, <1>3, <3>5 DEF OthersInv
    <3>10. \A m \in (records' \cup (plans' \cap ahead')) \ since' : body'[m].here => body'[m].old = planned'[m].old
      BY <1>1, <1>2, <2>2, <2>5, <3>1, <3>4 DEF MoveShape
    <3>11. body[n].mark => n = Moved
      BY <2>8 DEF LeftAsWritten
    <3>12. scarred' \subseteq {Moved} \ records'
      BY <2>2, <2>5, <3>1, <3>11
    <3>13. \A m \in MoveNotes : m \in plans' \cup records' \/ planned'[m].old = {} \/ ~body'[m].here
      BY <1>2, <2>5, <3>1, <3>5
    <3>14. ReadInv'
      BY <1>2, <3>1, <3>10, <3>12, <3>13 DEF ReadInv, Unprocessed
    <3>15. QED BY <2>3, <2>4, <3>6, <3>7, <3>8, <3>9, <3>14 DEF MoveInv
  <2>9. QED BY <2>6, <2>7, <2>8
<1>6. QED BY <1>4, <1>5

LEMMA CheckKeeps == ASSUME MoveInv, ReportShape, Check PROVE MoveInv'
<1>1. MoveShape /\ RoadInv /\ DestInv /\ OthersInv /\ ReadInv /\ CheckInv /\ FilesInv
  BY DEF MoveInv
<1>2. /\ mstep = "check"
      /\ UNCHANGED <<outing, body, moved, squatter, dest, planned, plans, records, inHand, arriving, raced,
                     scarred, reindexed, takenLate>>
  BY DEF Check
<1>3. moved /\ verdict = "none" /\ inHand = {} /\ raced = {} /\ ahead \subseteq plans /\ outing.road = "obsidian"
  BY <1>1, <1>2 DEF RoadInv
<1>4. \A m \in plans \ (ahead \cup since \cup report.damaged) : body[m].here => ~Fewer(m)
  BY <1>1, <1>2 DEF CheckInv
<1>5. OthersInv' /\ FilesInv'
  BY <1>1, <1>2, <1>3 DEF OthersInv, FilesInv
<1>6. CASE ahead # {}
  <2>1. PICK n \in ahead :
       /\ ahead' = ahead \ {n}
       /\ IF n = Moved /\ ~body[n].here /\ planned[n].old # {}
          THEN Concludes("failed") /\ UNCHANGED <<report, since>>
          ELSE /\ report' = [report EXCEPT !.damaged = @ \cup {l \in {n} : body[n].here /\ Damaged(n)}]
               /\ since' = since \ {n}
               /\ UNCHANGED <<mstep, verdict>>
    BY <1>6 DEF Check
  <2>2. CASE n = Moved /\ ~body[n].here /\ planned[n].old # {}
    <3>1. ahead' = ahead \ {n} /\ verdict' = "failed" /\ mstep' = "done" /\ UNCHANGED <<report, since>>
      BY <2>1, <2>2 DEF Concludes
    <3>2. MoveShape' /\ RoadInv'
      BY <1>1, <1>2, <1>3, <2>2, <3>1 DEF MoveShape, RoadInv
    <3>3. DestInv'
      BY <1>1, <1>2, <1>3, <2>2, <3>1 DEF DestInv, RoadInv, ReadInv
    <3>4. ReadInv' /\ CheckInv'
      BY <3>1 DEF ReadInv, CheckInv, NamedInTheAnswer
    <3>5. QED BY <1>5, <3>2, <3>3, <3>4 DEF MoveInv
  <2>3. CASE ~(n = Moved /\ ~body[n].here /\ planned[n].old # {})
    <3>1. /\ ahead' = ahead \ {n} /\ since' = since \ {n} /\ UNCHANGED <<mstep, verdict>>
          /\ report' = [report EXCEPT !.damaged = report.damaged \cup {l \in {n} : body[n].here /\ Damaged(n)}]
      BY <2>1, <2>3
    <3>2. MoveShape' /\ RoadInv' /\ DestInv'
      BY <1>1, <1>2, <1>3, <3>1 DEF MoveShape, RoadInv, DestInv
    <3>3. ReadInv'
      <4>1. n \in plans /\ n \notin records
        BY <1>1, <1>3 DEF MoveShape
      <4>2. QED BY <1>1, <1>2, <1>3, <3>1, <4>1 DEF ReadInv, Unprocessed
    <3>4. Fewer(n) => Damaged(n)
      BY DEF Fewer, Damaged
    <3>5. \A m \in MoveNotes : Fewer(m)' <=> Fewer(m)
      BY <1>2 DEF Fewer, Reaching, Reaches
    <3>6. CheckInv'
      <4>1. ASSUME NEW m \in plans, m \notin ahead', m \notin since', m \notin report'.damaged, body[m].here
            PROVE  ~Fewer(m)
        <5>1. report'.damaged = report.damaged \cup {l \in {n} : body[n].here /\ Damaged(n)}
          BY <3>1 DEF ReportShape, LinkChecks
        <5>2. m \notin report.damaged /\ (m = n => ~Damaged(n))
          BY <4>1, <5>1
        <5>3. QED BY <1>4, <3>1, <3>4, <4>1, <5>2
      <4>2. \A m \in plans : m \in MoveNotes
        BY <1>1 DEF MoveShape
      <4>3. \A m \in (plans \ (ahead \cup since \cup report.damaged))' : body'[m].here => ~Fewer(m)'
        BY <1>2, <3>5, <4>1, <4>2
      <4>4. QED BY <1>2, <1>3, <3>1, <4>3 DEF CheckInv, NamedInTheAnswer
    <3>7. QED BY <1>5, <3>2, <3>3, <3>6 DEF MoveInv
  <2>4. QED BY <2>2, <2>3
<1>7. CASE ahead = {}
  <2>1. /\ report' = [report EXCEPT !.left = report.left \cup LeftDangling]
        /\ mstep' = "done" /\ verdict' \in {"ok", "damage"} /\ UNCHANGED <<ahead, since>>
    BY <1>7 DEF Check, Concludes
  <2>2. MoveShape' /\ RoadInv' /\ DestInv'
    BY <1>1, <1>2, <1>3, <2>1 DEF MoveShape, RoadInv, DestInv
  <2>3. /\ \A m \in MoveNotes : m \in plans \cup records \/ planned[m].old = {} \/ ~body[m].here
        /\ \A m \in records \ since : body[m].here => body[m].old = planned[m].old
        /\ scarred \subseteq {Moved} \ records
    BY <1>1, <1>2, <1>3 DEF ReadInv, Unprocessed
  <2>4. ReadInv'
    BY <1>2, <1>3, <2>1, <2>3 DEF ReadInv, Unprocessed
  <2>5. ASSUME NEW m \in MoveNotes, body[m].here, Fewer(m)
        PROVE  m \in report.damaged \cup LeftDangling \cup since
    <3>1. CASE planned[m].old = {}
      BY <1>1, <2>5, <3>1, NotFewer
    <3>2. CASE m \in plans
      BY <1>4, <1>7, <2>5, <3>2
    <3>3. CASE m \in records /\ m \notin since
      <4>1. body[m].old = planned[m].old
        BY <2>3, <2>5, <3>3
      <4>2. \E f \in planned[m].old : ~Reaches(f)
        BY <1>1, <2>5, <4>1, NotFewer
      <4>3. QED BY <3>3, <4>2 DEF LeftDangling
    <3>4. QED BY <2>3, <2>5, <3>1, <3>2, <3>3
  <2>6. \A m \in MoveNotes : Fewer(m)' <=> Fewer(m)
    BY <1>2 DEF Fewer, Reaching, Reaches
  <2>7. ASSUME NEW m \in MoveNotes, body[m].here, Fewer(m)
        PROVE  m \in report'.failed \cup report'.damaged \cup report'.left \cup since
    <3>1. report'.damaged = report.damaged /\ report'.left = report.left \cup LeftDangling
      BY <2>1 DEF ReportShape, LinkChecks
    <3>2. QED BY <2>5, <2>7, <3>1
  <2>8. NamedInTheAnswer'
    BY <1>2, <2>1, <2>6, <2>7 DEF NamedInTheAnswer, Fewer
  <2>9. QED BY <1>5, <2>1, <2>2, <2>4, <2>8 DEF MoveInv, CheckInv
<1>8. QED BY <1>6, <1>7

LEMMA FilesRenameKeeps == ASSUME MoveInv, FilesRename PROVE MoveInv'
<1>1. MoveShape /\ RoadInv /\ DestInv /\ OthersInv /\ ReadInv /\ CheckInv /\ FilesInv
  BY DEF MoveInv
<1>2. /\ mstep = "rename" /\ moved' = TRUE /\ mstep' = "rewrite"
      /\ dest' = (IF dest = "held" THEN "replaced" ELSE dest)
      /\ ahead' = plans' /\ since' = since \ plans'
      /\ UNCHANGED <<outing, body, squatter, planned, records, inHand, report, verdict, arriving, raced,
                     scarred, reindexed, takenLate>>
  BY DEF FilesRename
<1>3. plans' \subseteq Linkers /\ Linkers \subseteq MoveNotes
  BY DEF FilesRename, MoveNotes
<1>4. outing.road = "files" /\ verdict = "none" /\ records = {} /\ inHand = {}
  BY <1>1, <1>2 DEF RoadInv
<1>5. MoveShape'
  BY <1>1, <1>2, <1>3, <1>4 DEF MoveShape
<1>6. RoadInv' /\ DestInv'
  BY <1>1, <1>2, <1>3, <1>4 DEF RoadInv, DestInv
<1>7. OthersInv' /\ ReadInv' /\ CheckInv' /\ FilesInv'
  BY <1>1, <1>2, <1>4 DEF OthersInv, ReadInv, CheckInv, NamedInTheAnswer, FilesInv
<1>8. QED BY <1>5, <1>6, <1>7 DEF MoveInv

LEMMA FilesReadKeeps == ASSUME MoveInv, FilesRead PROVE MoveInv'
<1>1. MoveShape /\ RoadInv /\ DestInv /\ OthersInv /\ ReadInv /\ CheckInv /\ FilesInv
  BY DEF MoveInv
<1>2. /\ mstep = "rewrite" /\ outing.road = "files"
      /\ UNCHANGED <<outing, body, moved, squatter, dest, planned, plans, records, report, arriving, raced,
                     scarred, reindexed, takenLate>>
  BY DEF FilesRead, made
<1>3. moved /\ verdict = "none" /\ inHand = {} /\ ahead \subseteq plans
  BY <1>1, <1>2 DEF RoadInv
<1>4. reindexed \/ \A m \in plans \ (since \cup ahead) : body[m].here => body[m].old = {}
  BY <1>1, <1>2, <1>3 DEF FilesInv
<1>5. ReadInv' /\ NamedInTheAnswer'
  BY <1>2 DEF ReadInv, NamedInTheAnswer
<1>6. CASE ahead = {}
  <2>1. verdict' = "ok" /\ mstep' = "done" /\ UNCHANGED <<ahead, inHand, since>>
    BY <1>6 DEF FilesRead, Concludes
  <2>2. MoveShape' /\ RoadInv' /\ DestInv' /\ OthersInv'
    BY <1>1, <1>2, <1>3, <2>1 DEF MoveShape, RoadInv, DestInv, OthersInv
  <2>3. CheckInv'
    BY <1>5, <2>1 DEF CheckInv
  <2>4. FilesInv'
    BY <1>1, <1>2, <1>3, <1>4, <1>6, <2>1 DEF FilesInv
  <2>5. QED BY <1>5, <2>2, <2>3, <2>4 DEF MoveInv
<1>7. CASE ahead # {}
  <2>1. PICK n \in ahead :
       /\ ahead' = ahead \ {n} /\ since' = since \ {n} /\ UNCHANGED verdict
       /\ IF body[n].here /\ body[n].old # {} /\ ~reindexed
          THEN mstep' = "write" /\ inHand' = {<<n, Rewritten(body[n], body[n].old)>>}
          ELSE UNCHANGED <<mstep, inHand>>
    BY <1>7 DEF FilesRead
  <2>2. n \in plans /\ n \in MoveNotes /\ body[n] \in LinkText
    BY <1>1, <1>3 DEF MoveShape
  <2>3. CASE body[n].here /\ body[n].old # {} /\ ~reindexed
    <3>1. PICK t : t = Rewritten(body[n], body[n].old)
      OBVIOUS
    <3>2. mstep' = "write" /\ inHand' = {<<n, t>>}
      BY <2>1, <2>3, <3>1
    <3>3. t \in LinkText /\ t.old = {} /\ t.here = body[n].here /\ t.word = body[n].word
      BY <2>2, <3>1, RewrittenIsText
    <3>4. MoveShape'
      BY <1>1, <1>2, <2>1, <2>2, <3>2, <3>3 DEF MoveShape
    <3>5. RoadInv' /\ DestInv'
      BY <1>1, <1>2, <1>3, <2>1, <3>2 DEF RoadInv, DestInv
    <3>6. OthersInv'
      BY <1>1, <1>2, <1>3, <3>2, <3>3 DEF OthersInv
    <3>7. {g[1] : g \in inHand'} = {n} /\ \A g \in inHand' : g[2].old = {}
      BY <3>2, <3>3
    <3>8. FilesInv'
      BY <1>2, <1>3, <1>4, <2>1, <3>7 DEF FilesInv
    <3>9. CheckInv'
      BY <1>5, <3>2 DEF CheckInv
    <3>10. QED BY <1>5, <3>4, <3>5, <3>6, <3>8, <3>9 DEF MoveInv
  <2>4. CASE ~(body[n].here /\ body[n].old # {} /\ ~reindexed)
    <3>1. UNCHANGED <<mstep, inHand>>
      BY <2>1, <2>4
    <3>2. MoveShape' /\ RoadInv' /\ DestInv' /\ OthersInv'
      BY <1>1, <1>2, <1>3, <2>1, <3>1 DEF MoveShape, RoadInv, DestInv, OthersInv
    <3>3. FilesInv'
      BY <1>1, <1>2, <1>3, <1>4, <2>1, <2>4, <3>1 DEF FilesInv
    <3>4. CheckInv'
      BY <1>2, <1>5, <3>1 DEF CheckInv
    <3>5. QED BY <1>5, <3>2, <3>3, <3>4 DEF MoveInv
  <2>5. QED BY <2>3, <2>4
<1>8. QED BY <1>6, <1>7

LEMMA FilesWriteKeeps == ASSUME MoveInv, FilesWrite PROVE MoveInv'
<1>1. MoveShape /\ RoadInv /\ DestInv /\ OthersInv /\ ReadInv /\ CheckInv /\ FilesInv
  BY DEF MoveInv
<1>2. /\ mstep = "write" /\ inHand' = {}
      /\ UNCHANGED <<outing, moved, squatter, dest, ahead, planned, plans, records, report, arriving, since, raced,
                     reindexed, takenLate>>
  BY DEF FilesWrite, made, others
<1>3. PICK h \in inHand :
       IF h[1] \in outing.refuses
       THEN Concludes("failed") /\ UNCHANGED <<body, scarred>>
       ELSE /\ body' = [body EXCEPT ![h[1]] = h[2]] /\ mstep' = "rewrite" /\ UNCHANGED verdict
            /\ scarred' = scarred \cup {n \in {h[1]} : h[2].mark}
  BY DEF FilesWrite
<1>4. PICK n \in MoveNotes, t \in LinkText : inHand = {<<n, t>>}
  BY <1>1, <1>3 DEF MoveShape
<1>5. h = <<n, t>> /\ h[1] = n /\ h[2] = t
  BY <1>3, <1>4
<1>6. moved /\ verdict = "none" /\ outing.road = "files"
  BY <1>1, <1>2 DEF RoadInv
<1>7. ReadInv' /\ NamedInTheAnswer'
  BY <1>2, <1>6 DEF ReadInv, NamedInTheAnswer
<1>8. CASE n \in outing.refuses
  <2>1. verdict' = "failed" /\ mstep' = "done" /\ UNCHANGED <<body, scarred>>
    BY <1>3, <1>5, <1>8 DEF Concludes
  <2>2. MoveShape' /\ RoadInv' /\ DestInv' /\ OthersInv'
    BY <1>1, <1>2, <1>6, <2>1 DEF MoveShape, RoadInv, DestInv, OthersInv
  <2>3. FilesInv' /\ CheckInv'
    BY <1>2, <1>7, <2>1 DEF FilesInv, CheckInv
  <2>4. QED BY <1>7, <2>2, <2>3 DEF MoveInv
<1>9. CASE n \notin outing.refuses
  <2>1. body' = [body EXCEPT ![n] = t] /\ mstep' = "rewrite" /\ UNCHANGED verdict
    BY <1>3, <1>5, <1>9
  <2>2. /\ body' \in [MoveNotes -> LinkText] /\ body'[n] = t
        /\ \A m \in MoveNotes \ {n} : body'[m] = body[m]
    BY <1>1, <1>4, <2>1 DEF MoveShape
  <2>3. MoveShape'
    BY <1>1, <1>2, <2>1, <2>2 DEF MoveShape
  <2>4. RoadInv'
    BY <1>1, <1>2, <1>6, <2>1 DEF RoadInv
  <2>5. DestInv'
    BY <1>1, <1>2, <1>6, <2>1 DEF DestInv
  <2>6. t.old = {} /\ (n \notin raced => t.word = body[n].word /\ t.here = body[n].here)
    BY <1>1, <1>4, <1>5, <1>6 DEF FilesInv, OthersInv
  <2>7. \A m \in MoveNotes \ raced : body'[m].word = body[m].word /\ body'[m].here = body[m].here
    BY <2>2, <2>6
  <2>8. OthersInv'
    BY <1>1, <1>2, <1>6, <2>7 DEF OthersInv
  <2>9. {g[1] : g \in inHand} = {n}
    BY <1>4, <1>5
  <2>10. reindexed \/ \A m \in plans \ (since \cup ahead \cup {n}) : body[m].here => body[m].old = {}
    BY <1>1, <1>2, <1>6, <2>9 DEF FilesInv
  <2>11. reindexed \/ \A m \in plans \ (since \cup ahead) : body'[m].here => body'[m].old = {}
    BY <1>1, <2>2, <2>6, <2>10 DEF MoveShape
  <2>12. FilesInv'
    BY <1>2, <1>6, <2>1, <2>11 DEF FilesInv
  <2>13. CheckInv'
    BY <1>7, <2>1 DEF CheckInv
  <2>14. QED BY <1>7, <2>3, <2>4, <2>5, <2>8, <2>12, <2>13 DEF MoveInv
<1>10. QED BY <1>8, <1>9

\* What others may do to the notes: links they change are in "since", and a note in hand is raced.
OthersMoved ==
  /\ body' \in [MoveNotes -> LinkText] /\ since' \subseteq MoveNotes
  /\ squatter' \in BOOLEAN /\ reindexed' \in BOOLEAN /\ takenLate' \in BOOLEAN
  /\ since \subseteq since' /\ raced \subseteq raced' /\ (reindexed => reindexed')
  /\ \A m \in MoveNotes \ since' :
       body'[m].old = body[m].old /\ body'[m].new = body[m].new /\ squatter' = squatter
  /\ \A m \in MoveNotes :
       /\ body'[m].here => body[m].here
       /\ body'[m].new \subseteq body[m].new
       /\ body[m].word => body'[m].word
       /\ m \notin raced' => m \notin raced /\ (body'[m] = body[m] \/ (\A g \in inHand : g[1] # m))
  /\ inHand = {} => raced' = raced
  /\ \/ UNCHANGED <<dest, takenLate>>
     \/ dest \in {"free", "trashed"} /\ dest' = "held" /\ takenLate' = (mstep # "asked") /\ ~moved

LEMMA EditMoves ==
  ASSUME MoveShape, NEW n \in MoveNotes, NEW t \in LinkText, NEW links \in BOOLEAN, EditNote(n, t, links),
         t.here => body[n].here, t.new \subseteq body[n].new, body[n].word => t.word,
         links \/ (t.old = body[n].old /\ t.new = body[n].new), UNCHANGED inHand
  PROVE  /\ OthersMoved /\ body'[n] = t /\ body[n].here
         /\ \A m \in MoveNotes \ {n} : body'[m] = body[m]
<1>1. /\ body[n].here /\ body' = [body EXCEPT ![n] = t]
      /\ since' = IF links THEN since \cup {n} ELSE since
      /\ raced' = raced \cup {h[1] : h \in {g \in inHand : g[1] = n}}
      /\ UNCHANGED <<squatter, dest, reindexed, takenLate>>
  BY DEF EditNote
<1>2. /\ body \in [MoveNotes -> LinkText] /\ since \subseteq MoveNotes
      /\ squatter \in BOOLEAN /\ reindexed \in BOOLEAN /\ takenLate \in BOOLEAN
  BY DEF MoveShape
<1>3. /\ body' \in [MoveNotes -> LinkText] /\ body'[n] = t
      /\ \A m \in MoveNotes \ {n} : body'[m] = body[m]
  BY <1>1, <1>2
<1>4. since \subseteq since' /\ since' \subseteq MoveNotes /\ (links => n \in since')
  BY <1>1, <1>2
<1>5. raced \subseteq raced' /\ (n \in raced' \/ \A g \in inHand : g[1] # n)
  BY <1>1
<1>6. inHand = {} => raced' = raced
  BY <1>1
<1>7. \A m \in MoveNotes \ since' : body'[m].old = body[m].old /\ body'[m].new = body[m].new
  BY <1>3, <1>4
<1>8. ASSUME NEW m \in MoveNotes
      PROVE  /\ body'[m].here => body[m].here
             /\ body'[m].new \subseteq body[m].new
             /\ body[m].word => body'[m].word
             /\ m \notin raced' => m \notin raced /\ (body'[m] = body[m] \/ \A g \in inHand : g[1] # m)
  BY <1>1, <1>3, <1>5
<1>9. OthersMoved
  BY <1>1, <1>2, <1>3, <1>4, <1>5, <1>6, <1>7, <1>8 DEF OthersMoved
<1>10. QED BY <1>1, <1>3, <1>9

\* What is gone from "arriving" has come about.
CameAbout ==
  \A m \in MoveNotes :
    /\ <<"word", m>> \in arriving \ arriving' => body'[m].word
    /\ <<"delete", m>> \in arriving \ arriving' => ~body'[m].here

LEMMA MeanwhileMoves == ASSUME MoveShape, Meanwhile PROVE OthersMoved /\ CameAbout /\ arriving' \subseteq arriving
<1>1. PICK e \in arriving : Interferes(e) /\ arriving' = arriving \ {e}
  BY DEF Meanwhile
<1>2. /\ \/ e[1] \in {"link", "unlink", "mark", "word", "delete"} /\ e[2] \in MoveNotes
         \/ e[1] \in {"take", "retake", "reindex"}
  BY <1>1, MoveAssumption DEF MoveShape
<1>3. UNCHANGED inHand /\ arriving' \subseteq arriving
  BY <1>1 DEF Meanwhile
<1>4. ASSUME e[1] \notin {"word", "delete"} PROVE CameAbout
  <2>1. \A m \in MoveNotes : e # <<"word", m>> /\ e # <<"delete", m>>
    BY <1>4
  <2>2. QED BY <1>1, <2>1 DEF CameAbout
<1>5. CASE e[1] \in {"link", "unlink", "mark", "word", "delete"}
  <2>1. PICK n \in MoveNotes : n = e[2]
    BY <1>2, <1>5
  <2>2. PICK w : w = body[n]
    OBVIOUS
  <2>3. w \in LinkText /\ body[n] = w
    BY <2>2 DEF MoveShape
  <2>4. CASE e[1] = "link"
    <3>1. PICK t : t = [w EXCEPT !.old = w.old \cup {"path"}]
      OBVIOUS
    <3>2. t \in LinkText /\ t.here = w.here /\ t.new = w.new /\ t.word = w.word
      BY <2>3, <3>1 DEF LinkText, LinkForms
    <3>3. EditNote(n, t, TRUE)
      BY <1>1, <2>1, <2>2, <2>4, <3>1 DEF Interferes
    <3>4. OthersMoved
      BY <1>3, <2>3, <3>2, <3>3, EditMoves
    <3>5. QED BY <1>3, <1>4, <2>4, <3>4
  <2>5. CASE e[1] = "unlink"
    <3>1. PICK t : t = [w EXCEPT !.old = {}, !.new = {}]
      OBVIOUS
    <3>2. t \in LinkText /\ t.here = w.here /\ t.new = {} /\ t.word = w.word
      BY <2>3, <3>1 DEF LinkText
    <3>3. EditNote(n, t, TRUE)
      BY <1>1, <2>1, <2>2, <2>5, <3>1 DEF Interferes
    <3>4. OthersMoved
      BY <1>3, <2>3, <3>2, <3>3, EditMoves
    <3>5. QED BY <1>3, <1>4, <2>5, <3>4
  <2>6. CASE e[1] = "mark"
    <3>1. PICK t : t = [w EXCEPT !.mark = TRUE]
      OBVIOUS
    <3>2. t \in LinkText /\ t.here = w.here /\ t.new = w.new /\ t.old = w.old /\ t.word = w.word
      BY <2>3, <3>1 DEF LinkText
    <3>3. EditNote(n, t, FALSE)
      BY <1>1, <2>1, <2>2, <2>6, <3>1 DEF Interferes
    <3>4. OthersMoved
      BY <1>3, <2>3, <3>2, <3>3, EditMoves
    <3>5. QED BY <1>3, <1>4, <2>6, <3>4
  <2>7. CASE e[1] = "word"
    <3>1. PICK t : t = [w EXCEPT !.word = TRUE]
      OBVIOUS
    <3>2. t \in LinkText /\ t.here = w.here /\ t.new = w.new /\ t.old = w.old /\ t.word = TRUE
      BY <2>3, <3>1 DEF LinkText
    <3>3. EditNote(n, t, FALSE)
      BY <1>1, <2>1, <2>2, <2>7, <3>1 DEF Interferes
    <3>4. OthersMoved /\ body'[n] = t
      BY <1>3, <2>3, <3>2, <3>3, EditMoves
    <3>5. ASSUME NEW m \in MoveNotes
          PROVE  e # <<"delete", m>> /\ (e = <<"word", m>> => m = n)
      BY <2>1, <2>7
    <3>6. CameAbout
      BY <1>1, <3>2, <3>4, <3>5 DEF CameAbout
    <3>7. QED BY <1>3, <3>4, <3>6
  <2>8. CASE e[1] = "delete"
    <3>1. PICK t : t = [w EXCEPT !.here = FALSE]
      OBVIOUS
    <3>2. t \in LinkText /\ t.here = FALSE /\ t.new = w.new /\ t.old = w.old /\ t.word = w.word
      BY <2>3, <3>1 DEF LinkText
    <3>3. EditNote(n, t, TRUE)
      BY <1>1, <2>1, <2>2, <2>8, <3>1 DEF Interferes
    <3>4. OthersMoved /\ body'[n] = t
      BY <1>3, <2>3, <3>2, <3>3, EditMoves
    <3>5. ASSUME NEW m \in MoveNotes
          PROVE  e # <<"word", m>> /\ (e = <<"delete", m>> => m = n)
      BY <2>1, <2>8
    <3>6. CameAbout
      BY <1>1, <3>2, <3>4, <3>5 DEF CameAbout
    <3>7. QED BY <1>3, <3>4, <3>6
  <2>9. QED BY <1>5, <2>4, <2>5, <2>6, <2>7, <2>8
<1>6. CASE e[1] = "take"
  <2>1. /\ ~moved /\ dest \in {"free", "trashed"} /\ dest' = "held" /\ takenLate' = (mstep # "asked")
        /\ UNCHANGED <<body, squatter, since, raced, reindexed>>
    BY <1>1, <1>6 DEF Interferes
  <2>2. OthersMoved
    BY <1>3, <2>1 DEF OthersMoved, MoveShape
  <2>3. QED BY <1>3, <1>4, <1>6, <2>2
<1>7. CASE e[1] = "retake"
  <2>1. squatter' = TRUE /\ since' = MoveNotes /\ UNCHANGED <<body, dest, raced, reindexed, takenLate>>
    BY <1>1, <1>7 DEF Interferes
  <2>2. OthersMoved
    BY <1>3, <2>1 DEF OthersMoved, MoveShape
  <2>3. QED BY <1>3, <1>4, <1>7, <2>2
<1>8. CASE e[1] = "reindex"
  <2>1. reindexed' = TRUE /\ UNCHANGED <<body, squatter, dest, since, raced, takenLate>>
    BY <1>1, <1>8 DEF Interferes
  <2>2. OthersMoved
    BY <1>3, <2>1 DEF OthersMoved, MoveShape
  <2>3. QED BY <1>3, <1>4, <1>8, <2>2
<1>9. QED BY <1>2, <1>5, <1>6, <1>7, <1>8

LEMMA MeanwhileKeeps == ASSUME MoveInv, Meanwhile PROVE MoveInv'
<1>1. MoveShape /\ RoadInv /\ DestInv /\ OthersInv /\ ReadInv /\ CheckInv /\ FilesInv
  BY DEF MoveInv
<1>2. /\ mstep # "done"
      /\ UNCHANGED <<outing, moved, mstep, ahead, planned, plans, records, report, inHand, verdict, scarred>>
  BY DEF Meanwhile, made
<1>3. OthersMoved /\ CameAbout /\ arriving' \subseteq arriving
  BY <1>1, MeanwhileMoves
<1>4. verdict = "none" /\ (mstep = "check" => outing.road = "obsidian")
  BY <1>1, <1>2 DEF RoadInv
<1>5. MoveShape'
  <2>1. dest' \in {"free", "held", "trashed", "replaced"}
    BY <1>1, <1>3 DEF MoveShape, OthersMoved
  <2>2. QED BY <1>1, <1>2, <1>3, <2>1 DEF MoveShape, OthersMoved
<1>6. RoadInv'
  <2>1. moved' \/ \A n \in MoveNotes : body'[n].new = {}
    BY <1>1, <1>2, <1>3 DEF RoadInv, OthersMoved
  <2>2. inHand = {} => raced' = raced
    BY <1>3 DEF OthersMoved
  <2>3. mstep = "asked" => dest' \in {"free", "held"}
    BY <1>1, <1>3 DEF OthersMoved, RoadInv
  <2>4. QED BY <1>1, <1>2, <2>1, <2>2, <2>3 DEF RoadInv
<1>7. DestInv'
  <2>1. \/ UNCHANGED <<dest, takenLate>>
        \/ dest' = "held" /\ takenLate' = (mstep # "asked") /\ ~moved
    BY <1>3 DEF OthersMoved
  <2>2. QED BY <1>1, <1>2, <1>4, <2>1 DEF DestInv
<1>8. OthersInv'
  <2>1. ASSUME NEW n \in MoveNotes, n \notin raced'
        PROVE  /\ <<"word", n>> \in outing.coming \ arriving' => body'[n].word
               /\ <<"delete", n>> \in outing.coming \ arriving' => ~body'[n].here
    <3>1. /\ n \notin raced /\ (body[n].word => body'[n].word) /\ (body'[n].here => body[n].here)
      BY <1>3, <2>1 DEF OthersMoved
    <3>2. /\ <<"word", n>> \in outing.coming \ arriving => body[n].word
          /\ <<"delete", n>> \in outing.coming \ arriving => ~body[n].here
      BY <1>1, <2>1, <3>1 DEF OthersInv
    <3>3. /\ <<"word", n>> \in arriving \ arriving' => body'[n].word
          /\ <<"delete", n>> \in arriving \ arriving' => ~body'[n].here
      BY <1>3 DEF CameAbout
    <3>4. QED BY <3>1, <3>2, <3>3
  <2>2. ASSUME NEW g \in inHand, g[1] \notin raced'
        PROVE  g[2].word = body'[g[1]].word /\ g[2].here = body'[g[1]].here
    <3>1. g[1] \in MoveNotes
      BY <1>1 DEF MoveShape
    <3>2. g[1] \notin raced /\ (body'[g[1]] = body[g[1]] \/ \A h \in inHand : h[1] # g[1])
      BY <1>3, <2>2, <3>1 DEF OthersMoved
    <3>3. body'[g[1]] = body[g[1]]
      BY <3>2
    <3>4. QED BY <1>1, <3>2, <3>3 DEF OthersInv
  <2>3. QED BY <1>2, <2>1, <2>2 DEF OthersInv
<1>9. ReadInv'
  <2>1. SUFFICES ASSUME outing.road = "obsidian" /\ mstep # "asked"
        PROVE  ReadInv'
    BY <1>2 DEF ReadInv
  <2>2. /\ \A n \in MoveNotes : \/ n \in plans \cup records \/ planned[n].old = {} \/ ~body[n].here
                                \/ mstep = "find" /\ n \in ahead
        /\ \A n \in (records \cup Unprocessed) \ since : body[n].here => body[n].old = planned[n].old
        /\ scarred \subseteq {Moved} \ records
    BY <1>1, <1>4, <2>1 DEF ReadInv
  <2>3. Unprocessed' = Unprocessed /\ records \cup Unprocessed \subseteq MoveNotes
    BY <1>1, <1>2 DEF Unprocessed, MoveShape
  <2>4. \A n \in MoveNotes : /\ body'[n].here => body[n].here
                             /\ n \notin since' => n \notin since /\ body'[n].old = body[n].old
    BY <1>3 DEF OthersMoved
  <2>5. \A n \in (records \cup Unprocessed) \ since' : body'[n].here => body'[n].old = planned[n].old
    BY <2>2, <2>3, <2>4
  <2>6. \A n \in MoveNotes : \/ n \in plans \cup records \/ planned[n].old = {} \/ ~body'[n].here
                             \/ mstep = "find" /\ n \in ahead
    BY <2>2, <2>4
  <2>7. QED BY <1>2, <2>2, <2>3, <2>5, <2>6 DEF ReadInv
<1>10. CheckInv'
  <2>1. NamedInTheAnswer'
    BY <1>2, <1>4 DEF NamedInTheAnswer
  <2>2. ASSUME NEW n \in MoveNotes, n \notin since', body'[n].here
        PROVE  n \notin since /\ body[n].here /\ (Fewer(n)' => Fewer(n))
    <3>1. /\ n \notin since /\ body[n].here /\ body'[n].old = body[n].old /\ body'[n].new = body[n].new
          /\ squatter' = squatter
      BY <1>3, <2>2 DEF OthersMoved
    <3>2. Reaching(body[n])' = Reaching(body[n])
      BY <1>2, <3>1 DEF Reaching, Reaches
    <3>3. QED BY <1>2, <3>1, <3>2 DEF Fewer
  <2>3. plans \subseteq MoveNotes
    BY <1>1 DEF MoveShape
  <2>4. mstep = "check" => \A n \in plans \ (ahead \cup since \cup report.damaged) : body[n].here => ~Fewer(n)
    BY <1>1 DEF CheckInv
  <2>5. mstep' = "check" =>
          \A n \in (plans \ (ahead \cup since \cup report.damaged))' : body'[n].here => ~Fewer(n)'
    BY <1>2, <2>2, <2>3, <2>4
  <2>6. QED BY <2>1, <2>5 DEF CheckInv
<1>11. FilesInv'
  <2>1. ASSUME NEW n \in MoveNotes, n \notin since', body'[n].here
        PROVE  n \notin since /\ body[n].here /\ body'[n].old = body[n].old
    BY <1>3, <2>1 DEF OthersMoved
  <2>2. plans \subseteq MoveNotes /\ (reindexed => reindexed')
    BY <1>1, <1>3 DEF MoveShape, OthersMoved
  <2>3. QED BY <1>1, <1>2, <1>4, <2>1, <2>2 DEF FilesInv
<1>12. QED BY <1>5, <1>6, <1>7, <1>8, <1>9, <1>10, <1>11 DEF MoveInv

LEMMA ReportKeeps == ASSUME MoveShape, ReportShape, MoveNext PROVE ReportShape'
<1>1. report \in LinkChecks /\ ahead \subseteq MoveNotes /\ records \subseteq MoveNotes
  BY DEF ReportShape, MoveShape
<1>2. CASE BeginMove \/ Find \/ FilesRename \/ FilesRead \/ FilesWrite \/ Meanwhile
  <2>1. report' = report
    BY <1>2 DEF BeginMove, Find, FilesRename, FilesRead, FilesWrite, Meanwhile, made
  <2>2. QED BY <2>1 DEF ReportShape, LinkChecks
<1>3. CASE RenameNote
  <2>1. PICK current : report' = [report EXCEPT !.indexOnly = Unplanned(current)
                                                    \ {n \in Unplanned(current) \ plans : body[n].here /\ body[n].mark},
                                                !.left = {n \in Unplanned(current) \ plans : body[n].here /\ body[n].mark}]
    BY <1>3 DEF RenameNote
  <2>2. PICK x, y : x = Unplanned(current) /\ y = {n \in Unplanned(current) \ plans : body[n].here /\ body[n].mark}
    OBVIOUS
  <2>3. report' = [report EXCEPT !.indexOnly = x \ y, !.left = y] /\ x \subseteq Linkers /\ y \subseteq x
    BY <2>1, <2>2 DEF Unplanned
  <2>4. x \subseteq MoveNotes
    BY <2>3 DEF MoveNotes
  <2>5. QED BY <1>1, <2>3, <2>4 DEF ReportShape, LinkChecks
<1>4. CASE ProcessNote
  <2>1. report' = report \/ \E n \in ahead : report' = [report EXCEPT !.failed = @ \cup {n}]
    BY <1>4 DEF ProcessNote
  <2>2. QED BY <1>1, <2>1 DEF ReportShape, LinkChecks
<1>5. CASE Check
  <2>1. \/ report' = report
        \/ report' = [report EXCEPT !.left = report.left \cup LeftDangling]
        \/ \E x \in SUBSET ahead : report' = [report EXCEPT !.damaged = report.damaged \cup x]
    <3>1. ASSUME NEW n \in ahead,
                 report' = [report EXCEPT !.damaged = @ \cup {l \in {n} : body[n].here /\ Damaged(n)}]
          PROVE  \E x \in SUBSET ahead : report' = [report EXCEPT !.damaged = report.damaged \cup x]
      <4>1. {l \in {n} : body[n].here /\ Damaged(n)} \in SUBSET ahead
        OBVIOUS
      <4>2. QED BY <3>1, <4>1
    <3>2. QED BY <1>5, <3>1 DEF Check
  <2>2. LeftDangling \subseteq MoveNotes
    BY <1>1 DEF LeftDangling
  <2>3. QED BY <1>1, <2>1, <2>2 DEF ReportShape, LinkChecks
<1>6. QED BY <1>2, <1>3, <1>4, <1>5 DEF MoveNext

LEMMA MoveStep == ASSUME MoveInv, ReportShape, [MoveNext]_mvvars PROVE MoveInv' /\ ReportShape'
<1>1. CASE UNCHANGED mvvars
  <2>1. UNCHANGED <<outing, body, moved, squatter, dest, mstep, ahead, planned, plans, records, inHand,
                    report, verdict, arriving, since, raced, scarred, reindexed, takenLate>>
    BY <1>1 DEF mvvars
  <2>2. MoveShape' /\ RoadInv' /\ DestInv' /\ OthersInv'
    BY <2>1 DEF MoveInv, MoveShape, RoadInv, DestInv, OthersInv
  <2>3. ReadInv' /\ FilesInv' /\ ReportShape'
    BY <2>1 DEF MoveInv, ReadInv, Unprocessed, FilesInv, ReportShape
  <2>4. CheckInv'
    BY <2>1 DEF MoveInv, CheckInv, NamedInTheAnswer, Fewer, Reaching, Reaches
  <2>5. QED BY <2>2, <2>3, <2>4 DEF MoveInv
<1>2. CASE MoveNext
  <2>1. ReportShape'
    BY <1>2, ReportKeeps DEF MoveInv
  <2>2. MoveInv'
    BY <1>2, BeginMoveKeeps, FindKeeps, RenameNoteKeeps, ProcessNoteKeeps, CheckKeeps, FilesRenameKeeps,
       FilesReadKeeps, FilesWriteKeeps, MeanwhileKeeps DEF MoveNext
  <2>3. QED BY <2>1, <2>2
<1>3. QED BY <1>1, <1>2

LEMMA MoveInvSafe == ASSUME MoveInv PROVE MoveSafe
<1>1. MoveShape /\ RoadInv /\ DestInv /\ OthersInv /\ ReadInv /\ CheckInv /\ FilesInv
  BY DEF MoveInv
<1>2. MoveTypeOK
  <2>1. Cardinality(inHand) <= 1
    <3>1. inHand = {} \/ \E x : inHand = {x}
      BY <1>1 DEF MoveShape
    <3>2. CASE inHand = {}
      <4>1. Cardinality(inHand) = 0
        BY <3>2, FS_EmptySet
      <4>2. QED BY <4>1
    <3>3. CASE \E x : inHand = {x}
      <4>1. PICK x : inHand = {x}
        BY <3>3
      <4>2. Cardinality({x}) = 1
        BY FS_Singleton
      <4>3. QED BY <4>1, <4>2
    <3>4. QED BY <3>1, <3>2, <3>3
  <2>2. QED BY <1>1, <2>1 DEF MoveShape, MoveTypeOK
<1>3. NamedInTheAnswer
  BY <1>1 DEF CheckInv
<1>4. IndexedRewritten
  <2>1. SUFFICES ASSUME outing.road = "files", verdict = "ok", ~reindexed
        PROVE  \A n \in plans \ since : body[n].here => body[n].old = {}
    BY DEF IndexedRewritten
  <2>2. ahead = {} /\ {g[1] : g \in inHand} = {}
    BY <1>1, <2>1 DEF FilesInv
  <2>3. QED BY <1>1, <2>1, <2>2 DEF FilesInv
<1>5. OthersTextStays
  BY <1>1 DEF OthersInv, RoadInv, OthersTextStays
<1>6. RecordsStay
  <2>1. SUFFICES ASSUME outing.road = "obsidian" PROVE scarred \subseteq {Moved} \ records
    BY DEF RecordsStay
  <2>2. mstep # "asked" => scarred \subseteq {Moved} \ records
    BY <1>1, <2>1 DEF ReadInv, DestInv
  <2>3. QED BY <1>1, <2>2 DEF RoadInv
<1>7. NoNoteDestroyed
  BY <1>1, MoveAssumption DEF DestInv, RoadInv, NoNoteDestroyed
<1>8. QED BY <1>2, <1>3, <1>4, <1>5, <1>6, <1>7 DEF MoveSafe

\* However the two roads of a move interleave with others' edits: every note that lost a link is
\* named in the answer, what others wrote stays, no record is rewritten and no note destroyed.
THEOREM MoveIsSafe == MoveSpec => []MoveSafe
<1>1. MoveInit => MoveInv /\ ReportShape
  <2>1. MoveInit => ReportShape
    BY DEF MoveInit, NoReport, ReportShape, LinkChecks
  <2>2. QED BY <2>1, MoveInvInit
<1>2. MoveInv /\ ReportShape /\ [MoveNext]_mvvars => (MoveInv /\ ReportShape)'
  BY MoveStep
<1>3. MoveInv => MoveSafe
  BY MoveInvSafe
<1>4. QED BY <1>1, <1>2, <1>3, PTL DEF MoveSpec
-----------------------------------------------------------------------------
(***************************************************************************)
(* A batch of writes.                                                      *)
(***************************************************************************)
Compositions == [uid : Nat, fm : Frontmatter, modified : Nat]
Sayings == {"none", "ok", "out of reach", "accept_forbidden", "idempotency_mismatch", "rev_conflict",
            "protection_required", "exists", "error", "write_timeout"}
AnswerRecs == [is : Sayings, rev : Nat, text : Compositions]
BatchStages  == {"asked", "queued", "guard", "look", "create", "modify", "returned"}
WriterRecs == [item : Nat, at : BatchStages, held : Frontmatter, over : PageStates, stale : BOOLEAN]

PageShape ==
  /\ batch \in Batches /\ mayBe \subseteq batch.coming
  /\ page \in PageStates /\ known \in [uid : Nat, fm : Frontmatter] /\ second \in Nat
  /\ misdeeds = {}
QueueShape ==
  /\ item \in 1..Len(batch.items) + 1
  /\ writers \subseteq WriterRecs /\ \A w \in writers : w.item \in Items
  /\ \A v, w \in writers : v.item = w.item => v = w
  /\ reply \in [Items -> AnswerRecs] /\ landed \in [Items -> {0, 1}]

\* What was stamped over a note the cache knew keeps the note's uid, and its status.
StampKept(w) ==
  LET text == reply[w.item].text
  IN Payload(w.item).stamp /\ ~w.stale /\ w.over.there =>
       /\ w.over.uid # 0 => text.uid = w.over.uid
       /\ w.over.fm.clear /\ w.over.fm.status # "none" /\ Payload(w.item).fm.status = "none"
            => text.fm.status = w.over.fm.status

\* How far a write under way has come, and what that means.
UnderWay(w) ==
  /\ \/ w.item = item /\ reply[w.item].is = "none"
     \/ w.item < item /\ reply[w.item].is = "write_timeout"
  /\ w.at # "returned" => landed[w.item] = 0
  /\ w.at \notin {"asked", "returned"} => Answered(w.item) = {}
  /\ w.at = "returned" => \/ landed[w.item] = 1
                          \/ landed[w.item] = 0 /\ \E j \in Answered(w.item) : landed[j] = 1
  /\ w.at \in {"look", "create", "modify"} => MayWrite(w.held, reply[w.item].text.fm)
  /\ w.at = "modify" => Token(w.item) # 0
  /\ StampKept(w)

\* What the answer says of an item, and what came of it.
ToldTruly(i) ==
  /\ i >= item => reply[i].is = "none"
  /\ landed[i] = 1 => i < item \/ \E w \in writers : w.item = i
  /\ reply[i].is = "ok" => landed[i] = 1 \/ \E j \in Answered(i) : landed[j] = 1
  /\ landed[i] = 1 => reply[i].is \in {"none", "ok", "write_timeout"} /\ Answered(i) = {}

QueueInv == /\ QueueShape
            /\ \A w \in writers : UnderWay(w)
            /\ \A i \in Items : ToldTruly(i)
BatchInv == PageShape /\ QueueInv

LEMMA ItemsAre ==
  ASSUME PageShape
  PROVE  /\ Len(batch.items) \in Nat /\ Items = 1..Len(batch.items)
         /\ \A i \in Items : /\ Payload(i).fm \in Frontmatter /\ Payload(i).uid \in Nat
                             /\ Payload(i).told => i > 1
BY BatchAssumption DEF PageShape, Items, Payload

\* A view of the note, and what is composed over it, is of its type.
LEMMA TextIsTyped ==
  ASSUME PageShape, NEW i \in Items, NEW b \in BOOLEAN
  PROVE  /\ StampOver(i, known) \in Compositions
         /\ Composed(Payload(i).uid, Payload(i).fm, 0) \in Compositions
<1>1. Payload(i).fm \in Frontmatter /\ Payload(i).uid \in Nat /\ i \in Nat
  BY ItemsAre
<1>2. known.uid \in Nat /\ known.fm \in Frontmatter /\ second \in Nat
  BY DEF PageShape
<1>3. PICK f : f = Payload(i).fm
  OBVIOUS
<1>4. f \in Frontmatter
  BY <1>1, <1>3
<1>5. PICK s : s = IF f.status # "none" THEN f.status ELSE IF known.fm.status # "none" THEN known.fm.status ELSE "draft"
  OBVIOUS
<1>6. PICK v : v = IF f.verified = "none" /\ known.fm.verified # "blank" THEN known.fm.verified ELSE f.verified
  OBVIOUS
<1>7. s \in {"none", "draft", "accepted"} /\ v \in Values \cup {"blank"}
  BY <1>2, <1>4, <1>5, <1>6 DEF Frontmatter
<1>8. [f EXCEPT !.status = s, !.verified = v] \in Frontmatter
  BY <1>4, <1>7 DEF Frontmatter
<1>9. PICK u : u = IF known.uid # 0 THEN known.uid ELSE IF Payload(i).uid # 0 THEN Payload(i).uid ELSE MintUid(i)
  OBVIOUS
<1>10. u \in Nat
  BY <1>1, <1>2, <1>9 DEF MintUid
<1>11. StampOver(i, known) = Composed(u, [f EXCEPT !.status = s, !.verified = v], second)
  BY <1>3, <1>5, <1>6, <1>9 DEF StampOver, FilledIn
<1>12. QED BY <1>1, <1>2, <1>8, <1>10, <1>11 DEF Composed, Compositions

LEMMA StampKeeps ==
  ASSUME PageShape, NEW i \in Items
  PROVE  /\ known.uid # 0 => StampOver(i, known).uid = known.uid
         /\ known.fm.status # "none" /\ Payload(i).fm.status = "none"
              => StampOver(i, known).fm.status = known.fm.status
<1>1. Payload(i).fm \in Frontmatter
  BY ItemsAre
<1>2. PICK f : f = Payload(i).fm
  OBVIOUS
<1>3. f \in Frontmatter
  BY <1>1, <1>2
<1>4. PICK v : v = IF f.verified = "none" /\ known.fm.verified # "blank" THEN known.fm.verified ELSE f.verified
  OBVIOUS
<1>5. PICK u : u = IF known.uid # 0 THEN known.uid ELSE IF Payload(i).uid # 0 THEN Payload(i).uid ELSE MintUid(i)
  OBVIOUS
<1>6. PICK s : s = IF f.status # "none" THEN f.status ELSE IF known.fm.status # "none" THEN known.fm.status ELSE "draft"
  OBVIOUS
<1>7. PICK g : g = [f EXCEPT !.status = s, !.verified = v]
  OBVIOUS
<1>8. g.status = s
  BY <1>3, <1>7 DEF Frontmatter
<1>9. StampOver(i, known) = Composed(u, g, second)
  BY <1>2, <1>4, <1>5, <1>6, <1>7 DEF StampOver, FilledIn
<1>10. StampOver(i, known).uid = u /\ StampOver(i, known).fm = g
  BY <1>9 DEF Composed
<1>11. QED BY <1>2, <1>5, <1>6, <1>8, <1>10

LEMMA SaysShape ==
  ASSUME reply \in [Items -> AnswerRecs], NEW i \in Items, NEW what \in Sayings, NEW rev \in Nat,
         Says(i, what, rev)
  PROVE  /\ reply' \in [Items -> AnswerRecs] /\ reply'[i].is = what /\ reply'[i].rev = rev
         /\ reply'[i].text = reply[i].text /\ \A j \in Items \ {i} : reply'[j] = reply[j]
<1>1. PICK a : a = reply[i]
  OBVIOUS
<1>2. a \in AnswerRecs
  BY <1>1
<1>3. PICK b : b = [a EXCEPT !.is = what, !.rev = rev]
  OBVIOUS
<1>4. b \in AnswerRecs /\ b.is = what /\ b.rev = rev /\ b.text = a.text
  BY <1>2, <1>3 DEF AnswerRecs
<1>5. reply' = [reply EXCEPT ![i] = b]
  BY <1>1, <1>3 DEF Says
<1>6. QED BY <1>1, <1>4, <1>5

\* What was answered before the item that has its turn stands.
LEMMA AnswersStand ==
  ASSUME PageShape, item \in Nat, batch' = batch, \A j \in Items \ {item} : reply'[j] = reply[j],
         NEW i \in Items, i <= item
  PROVE  Answered(i)' = Answered(i) /\ Token(i)' = Token(i)
<1>1. Items = 1..Len(batch.items) /\ Len(batch.items) \in Nat /\ (Payload(i).told => i > 1)
  BY ItemsAre
<1>2. \A j \in 1..i - 1 : reply'[j] = reply[j]
  BY <1>1
<1>3. Answered(i)' = Answered(i)
  BY <1>2 DEF Answered, SameKey, Payload
<1>4. Payload(i).told => i - 1 \in 1..i - 1
  BY <1>1
<1>5. Payload(i)' = Payload(i)
  BY DEF Payload
<1>6. Token(i)' = Token(i)
  BY <1>2, <1>4, <1>5 DEF Token
<1>7. QED BY <1>3, <1>6

\* No write is under way for an item whose turn has not come.
LEMMA TurnsBefore ==
  ASSUME PageShape, QueueInv, NEW w \in writers
  PROVE  UnderWay(w) /\ w.item \in Items /\ w.item <= item
<1>1. UnderWay(w) /\ w.item \in Items /\ item \in Nat
  BY ItemsAre DEF QueueInv, QueueShape
<1>2. w.item \in Nat /\ (w.item = item \/ w.item < item)
  BY <1>1, ItemsAre DEF UnderWay
<1>3. QED BY <1>1, <1>2

\* The item that has its turn is answered.
LEMMA AnsweredNow ==
  ASSUME PageShape, QueueInv, QueueShape', UNCHANGED <<batch, landed>>, item \in Items, item' = item + 1,
         \A j \in Items \ {item} : reply'[j] = reply[j], reply'[item].is # "none",
         reply'[item].text = reply[item].text,
         writers' \subseteq writers,
         \A u \in writers' : u.item = item => reply'[item].is = "write_timeout",
         landed[item] = 1 => reply'[item].is \in {"ok", "write_timeout"},
         reply'[item].is = "ok" => landed[item] = 1 \/ \E j \in Answered(item) : landed[j] = 1
  PROVE  QueueInv'
<1>1. Items' = Items /\ Len(batch.items) \in Nat /\ Items = 1..Len(batch.items) /\ item \in Nat
  BY ItemsAre DEF Items, QueueInv, QueueShape
<1>2. \A i \in Items : i <= item => Answered(i)' = Answered(i) /\ Token(i)' = Token(i)
  BY <1>1, AnswersStand
<1>3. ASSUME NEW u \in writers'
      PROVE  UnderWay(u)'
  <2>1. u \in writers /\ UnderWay(u) /\ u.item \in Items /\ u.item <= item
    BY <1>1, <1>3, TurnsBefore
  <2>2. Answered(u.item)' = Answered(u.item) /\ Token(u.item)' = Token(u.item) /\ Payload(u.item)' = Payload(u.item)
    BY <1>2, <2>1 DEF Payload
  <2>3. reply'[u.item].text = reply[u.item].text
    BY <2>1
  <2>4. StampKept(u)'
    BY <2>1, <2>2, <2>3 DEF UnderWay, StampKept
  <2>5. u.item < item' /\ reply'[u.item].is = "write_timeout"
    BY <1>1, <1>3, <2>1 DEF UnderWay
  <2>6. QED BY <2>1, <2>2, <2>3, <2>4, <2>5 DEF UnderWay
<1>4. ASSUME NEW i \in Items
      PROVE  ToldTruly(i)'
  <2>1. ToldTruly(i) /\ i \in Nat
    BY <1>1 DEF QueueInv
  <2>2. CASE i = item
    BY <1>1, <1>2, <2>1, <2>2 DEF ToldTruly
  <2>3. CASE i < item
    BY <1>1, <1>2, <2>1, <2>3 DEF ToldTruly
  <2>4. CASE i > item
    <3>1. landed[i] # 1 /\ reply'[i].is = "none"
      <4>1. \A w \in writers : w.item <= item
        BY TurnsBefore
      <4>2. QED BY <1>1, <2>1, <2>4, <4>1 DEF ToldTruly
    <3>2. QED BY <1>1, <3>1 DEF ToldTruly
  <2>5. QED BY <1>1, <2>1, <2>2, <2>3, <2>4
<1>5. QED BY <1>1, <1>3, <1>4 DEF QueueInv

\* A write goes on, and may have landed.
LEMMA WriteGoesOn ==
  ASSUME PageShape, QueueInv, QueueShape', UNCHANGED <<batch, item, reply>>, NEW w \in writers, NEW v,
         writers' = (writers \ {w}) \cup {v}, v.item = w.item, UnderWay(v)',
         \A j \in Items \ {w.item} : landed'[j] = landed[j],
         \/ landed' = landed
         \/ landed[w.item] = 0 /\ Answered(w.item) = {}
  PROVE  QueueInv'
<1>1. Items' = Items /\ w.item \in Items /\ UnderWay(w) /\ landed \in [Items -> {0, 1}]
  BY DEF Items, QueueInv, QueueShape
<1>2. \A i \in Items : Answered(i)' = Answered(i) /\ Token(i)' = Token(i) /\ Payload(i)' = Payload(i)
  BY DEF Answered, Token, SameKey, Payload
<1>3. ASSUME NEW j \in Items, landed[j] = 1 PROVE landed'[j] = 1
  BY <1>3
<1>4. ASSUME NEW i \in Items
      PROVE  Answered(i) \subseteq Items
  <2>1. Items = 1..Len(batch.items) /\ Len(batch.items) \in Nat
    BY ItemsAre
  <2>2. QED BY <1>4, <2>1 DEF Answered
<1>5. ASSUME NEW u \in writers' PROVE UnderWay(u)'
  <2>1. CASE u = v
    BY <2>1
  <2>2. CASE u # v
    <3>1. u \in writers /\ u # w /\ UnderWay(u) /\ u.item \in Items /\ u.item # w.item
      BY <1>5, <2>2 DEF QueueInv, QueueShape
    <3>2. landed'[u.item] = landed[u.item]
      BY <3>1
    <3>3. StampKept(u)'
      BY <1>2, <3>1 DEF UnderWay, StampKept
    <3>4. u.at = "returned" => \/ landed'[u.item] = 1
                               \/ landed'[u.item] = 0 /\ \E j \in Answered(u.item)' : landed'[j] = 1
      BY <1>2, <1>3, <1>4, <3>1, <3>2 DEF UnderWay
    <3>5. QED BY <1>2, <3>1, <3>2, <3>3, <3>4 DEF UnderWay
  <2>3. QED BY <2>1, <2>2
<1>6. ASSUME NEW i \in Items PROVE ToldTruly(i)'
  <2>1. ToldTruly(i)
    BY DEF QueueInv
  <2>2. reply'[i].is = "ok" => landed'[i] = 1 \/ \E j \in Answered(i)' : landed'[j] = 1
    BY <1>2, <1>3, <1>4, <2>1 DEF ToldTruly
  <2>3. landed'[i] = 1 => i < item \/ \E u \in writers' : u.item = i
    BY <1>1, <2>1 DEF ToldTruly
  <2>4. CASE i # w.item \/ landed' = landed
    BY <1>2, <2>1, <2>2, <2>3, <2>4 DEF ToldTruly
  <2>5. CASE i = w.item /\ landed' # landed
    BY <1>1, <1>2, <2>1, <2>2, <2>3, <2>5 DEF ToldTruly, UnderWay
  <2>6. QED BY <2>4, <2>5
<1>7. QED BY <1>1, <1>5, <1>6 DEF QueueInv

\* A write whose item was given up on ends.
LEMMA WriteIsOver ==
  ASSUME PageShape, QueueInv, UNCHANGED <<batch, item, reply, landed>>, NEW w \in writers, w.item # item,
         writers' = writers \ {w}
  PROVE  QueueInv'
<1>1. Items' = Items /\ Items = 1..Len(batch.items) /\ Len(batch.items) \in Nat
      /\ w.item \in Items /\ UnderWay(w) /\ item \in Nat
  BY ItemsAre DEF Items, QueueInv, QueueShape
<1>2. \A i \in Items : Answered(i)' = Answered(i) /\ Token(i)' = Token(i) /\ Payload(i)' = Payload(i)
  BY DEF Answered, Token, SameKey, Payload
<1>3. QueueShape'
  BY <1>1 DEF QueueInv, QueueShape
<1>4. ASSUME NEW u \in writers' PROVE UnderWay(u)'
  <2>1. u \in writers /\ UnderWay(u) /\ u.item \in Items
    BY <1>4 DEF QueueInv, QueueShape
  <2>2. StampKept(u)'
    BY <1>2, <2>1 DEF UnderWay, StampKept
  <2>3. QED BY <1>2, <2>1, <2>2 DEF UnderWay
<1>5. ASSUME NEW i \in Items PROVE ToldTruly(i)'
  <2>1. ToldTruly(i)
    BY DEF QueueInv
  <2>2. w.item < item
    BY <1>1 DEF UnderWay
  <2>3. QED BY <1>2, <2>1, <2>2 DEF ToldTruly
<1>6. QED BY <1>1, <1>3, <1>4, <1>5 DEF QueueInv

\* A write ends with an answer, unless its item was given up on.
LEMMA OverKeeps ==
  ASSUME PageShape, QueueInv, UNCHANGED <<batch, landed>>, NEW w \in writers,
         NEW what \in Sayings \ {"none"}, NEW rev \in Nat, Over(w, what, rev),
         w.at = "returned" <=> what = "ok"
  PROVE  QueueInv'
<1>1. /\ Items' = Items /\ Items = 1..Len(batch.items) /\ Len(batch.items) \in Nat
      /\ w.item \in Items /\ UnderWay(w) /\ item \in Nat
  BY ItemsAre DEF Items, QueueInv, QueueShape
<1>2. CASE w.item # item
  <2>1. writers' = writers \ {w} /\ UNCHANGED <<item, reply>>
    BY <1>2 DEF Over
  <2>2. QED BY <1>2, <2>1, WriteIsOver
<1>3. CASE w.item = item
  <2>1. writers' = writers \ {w} /\ Says(item, what, rev) /\ item' = item + 1
    BY <1>3 DEF Over
  <2>2. /\ reply' \in [Items -> AnswerRecs] /\ reply'[item].is = what
        /\ reply'[item].text = reply[item].text /\ \A j \in Items \ {item} : reply'[j] = reply[j]
    BY <1>1, <1>3, <2>1, SaysShape DEF QueueInv, QueueShape
  <2>3. QueueShape'
    BY <1>1, <1>3, <2>1, <2>2 DEF QueueInv, QueueShape
  <2>4. \A u \in writers' : u.item # item
    BY <1>3, <2>1 DEF QueueInv, QueueShape
  <2>5. landed[item] \in {0, 1}
    BY <1>1, <1>3 DEF QueueInv, QueueShape
  <2>6. /\ landed[item] = 1 => what = "ok"
        /\ what = "ok" => landed[item] = 1 \/ \E j \in Answered(item) : landed[j] = 1
    BY <1>1, <1>3, <2>5 DEF UnderWay
  <2>7. QED BY <1>1, <1>3, <2>1, <2>2, <2>3, <2>4, <2>6, AnsweredNow
<1>4. QED BY <1>2, <1>3

\* A write under way becomes v.
LEMMA BecomesKeeps ==
  ASSUME PageShape, QueueInv, UNCHANGED <<batch, item, reply>>, NEW w \in writers, NEW v \in WriterRecs,
         writers' = (writers \ {w}) \cup {v}, v.item = w.item, v.over = w.over, v.stale = w.stale,
         landed' \in [Items -> {0, 1}], \A j \in Items \ {w.item} : landed'[j] = landed[j],
         \/ landed' = landed
         \/ landed[w.item] = 0 /\ Answered(w.item) = {},
         v.at # "returned" => landed'[w.item] = 0,
         v.at \notin {"asked", "returned"} => Answered(w.item) = {},
         v.at = "returned" => \/ landed'[w.item] = 1
                              \/ landed'[w.item] = 0 /\ \E j \in Answered(w.item) : landed'[j] = 1,
         v.at \in {"look", "create", "modify"} => MayWrite(v.held, reply[w.item].text.fm),
         v.at = "modify" => Token(w.item) # 0
  PROVE  QueueInv'
<1>1. UnderWay(w) /\ w.item \in Items /\ Items' = Items
  BY TurnsBefore DEF Items
<1>2. QueueShape'
  <2>1. \A x, y \in writers' : x.item = y.item => x = y
    BY DEF QueueInv, QueueShape
  <2>2. writers' \subseteq WriterRecs /\ \A x \in writers' : x.item \in Items
    BY <1>1 DEF QueueInv, QueueShape
  <2>3. QED BY <1>1, <2>1, <2>2 DEF QueueInv, QueueShape
<1>3. /\ Answered(w.item)' = Answered(w.item) /\ Token(w.item)' = Token(w.item)
      /\ Payload(w.item)' = Payload(w.item)
  BY DEF Answered, Token, SameKey, Payload
<1>4. StampKept(v)'
  BY <1>1, <1>3 DEF UnderWay, StampKept
<1>5. UnderWay(v)'
  <2>1. \/ v.item = item /\ reply[v.item].is = "none"
        \/ v.item < item /\ reply[v.item].is = "write_timeout"
    BY <1>1 DEF UnderWay
  <2>2. QED BY <1>3, <1>4, <2>1 DEF UnderWay
<1>6. QED BY <1>2, <1>5, WriteGoesOn

\* A write takes its next step, and nothing is answered.
LEMMA StepsKeeps ==
  ASSUME PageShape, QueueInv, UNCHANGED <<batch, item, reply, landed>>, NEW w \in writers,
         NEW goes \in BatchStages, StepsTo(w, goes), w.at # "returned",
         goes \notin {"asked", "returned"} => Answered(w.item) = {},
         goes = "returned" => \E j \in Answered(w.item) : landed[j] = 1,
         goes \in {"look", "create", "modify"} => MayWrite(w.held, reply[w.item].text.fm),
         goes = "modify" => Token(w.item) # 0
  PROVE  QueueInv'
<1>1. w \in WriterRecs /\ UnderWay(w) /\ w.item \in Items /\ landed \in [Items -> {0, 1}]
  BY TurnsBefore DEF QueueInv, QueueShape
<1>2. PICK v : v = [w EXCEPT !.at = goes]
  OBVIOUS
<1>3. /\ v \in WriterRecs /\ v.item = w.item /\ v.over = w.over /\ v.stale = w.stale
      /\ v.at = goes /\ v.held = w.held
  BY <1>1, <1>2 DEF WriterRecs
<1>4. writers' = (writers \ {w}) \cup {v}
  BY <1>2 DEF StepsTo
<1>5. landed[w.item] = 0
  BY <1>1 DEF UnderWay
<1>6. QED BY <1>1, <1>3, <1>4, <1>5, BecomesKeeps

LEMMA PageStays ==
  ASSUME PageShape, UNCHANGED <<batch, page, known, second, mayBe, misdeeds>>
  PROVE  PageShape'
BY DEF PageShape

LEMMA BatchInvInit == ASSUME BatchInit PROVE BatchInv
<1>1. /\ batch \in Batches /\ page = batch.page /\ known = View(batch.page) /\ second = 1 /\ item = 1
      /\ writers = {} /\ reply = [i \in Items |-> Unsaid] /\ mayBe = batch.coming
      /\ landed = [i \in Items |-> 0] /\ misdeeds = {}
  BY DEF BatchInit, Items
<1>2. Unmarked \in Frontmatter
  BY DEF Unmarked, Frontmatter, Values
<1>3. page \in PageStates
  BY <1>1, BatchAssumption
<1>4. page.uid \in Nat /\ page.fm \in Frontmatter
  BY <1>3 DEF PageStates
<1>5. Parsed(page.fm) \in Frontmatter
  BY <1>2, <1>4 DEF Parsed
<1>6. known \in [uid : Nat, fm : Frontmatter]
  BY <1>1, <1>2, <1>4, <1>5 DEF View, Bare
<1>7. PageShape
  BY <1>1, <1>3, <1>6 DEF PageShape
<1>8. Unsaid \in AnswerRecs /\ Unsaid.is = "none"
  BY <1>2 DEF Unsaid, AnswerRecs, Sayings, Composed, Compositions
<1>9. Items = 1..Len(batch.items) /\ Len(batch.items) \in Nat
  BY <1>7, ItemsAre
<1>10. QueueShape
  BY <1>1, <1>8, <1>9 DEF QueueShape
<1>11. \A i \in Items : ToldTruly(i)
  BY <1>1, <1>8 DEF ToldTruly
<1>12. QED BY <1>1, <1>7, <1>10, <1>11 DEF BatchInv, QueueInv

LEMMA ComposeKeeps == ASSUME BatchInv, Compose PROVE BatchInv'
<1>1. PageShape /\ QueueInv /\ QueueShape
  BY DEF BatchInv, QueueInv
<1>2. /\ item \in Items /\ \A w \in writers : w.item # item
      /\ UNCHANGED <<batch, page, known, second, mayBe, landed, misdeeds>>
  BY DEF Compose
<1>3. PageShape'
  BY <1>1, <1>2, PageStays
<1>4. Items' = Items /\ Items = 1..Len(batch.items) /\ Len(batch.items) \in Nat /\ item \in Nat
  BY <1>1, <1>2, ItemsAre DEF Items
<1>5. reply[item].is = "none" /\ landed[item] = 0
  <2>1. ToldTruly(item)
    BY <1>1, <1>2 DEF QueueInv
  <2>2. landed[item] \in {0, 1}
    BY <1>1, <1>2 DEF QueueShape
  <2>3. QED BY <1>2, <1>4, <2>1, <2>2 DEF ToldTruly
<1>6. PICK text : text = IF Payload(item).stamp THEN StampOver(item, known)
                         ELSE Composed(Payload(item).uid, Payload(item).fm, 0)
  OBVIOUS
<1>7. text \in Compositions
  BY <1>1, <1>2, <1>6, TextIsTyped
<1>8. \/ \E refusal \in {"out of reach", "accept_forbidden"} : Says(item, refusal, 0)
           /\ item' = item + 1 /\ UNCHANGED writers
      \/ /\ writers' = writers \cup {[item |-> item, at |-> "asked", held |-> Unmarked,
                                      over |-> page, stale |-> known # View(page)]}
         /\ reply' = [reply EXCEPT ![item].text = text] /\ UNCHANGED item
  BY <1>6 DEF Compose
<1>9. ASSUME NEW refusal, refusal \in {"out of reach", "accept_forbidden"}, Says(item, refusal, 0),
             item' = item + 1, UNCHANGED writers
      PROVE  QueueInv'
  <2>1. /\ reply' \in [Items -> AnswerRecs] /\ reply'[item].is = refusal
        /\ reply'[item].text = reply[item].text /\ \A j \in Items \ {item} : reply'[j] = reply[j]
    <3>1. reply \in [Items -> AnswerRecs] /\ 0 \in Nat
      BY <1>1 DEF QueueShape
    <3>2. refusal \in Sayings /\ Says(item, refusal, 0)
      BY <1>9 DEF Sayings
    <3>3. QED BY <1>2, <3>1, <3>2, SaysShape
  <2>2. reply'[item].is # "none" /\ reply'[item].is # "ok"
    BY <1>9, <2>1
  <2>3. item' \in 1..Len(batch'.items) + 1
    <3>1. item' = item + 1 /\ batch' = batch /\ item \in 1..Len(batch.items)
      BY <1>2, <1>4, <1>9
    <3>2. item + 1 \in 1..Len(batch.items) + 1
      BY <1>4, <3>1
    <3>3. QED BY <3>1, <3>2
  <2>4. landed' \in [Items' -> {0, 1}] /\ \A w \in writers' : w \in WriterRecs /\ w.item \in Items'
    BY <1>1, <1>2, <1>4, <1>9 DEF QueueShape
  <2>5. \A v, w \in writers' : v.item = w.item => v = w
    BY <1>1, <1>9 DEF QueueShape
  <2>6. QueueShape'
    BY <1>4, <2>1, <2>3, <2>4, <2>5 DEF QueueShape
  <2>7. landed[item] # 1 /\ \A u \in writers' : u.item # item
    <3>1. writers' = writers
      BY <1>9
    <3>2. landed[item] # 1
      BY <1>5
    <3>3. QED BY <1>2, <3>1, <3>2
  <2>8. QED BY <1>1, <1>2, <1>9, <2>1, <2>2, <2>6, <2>7, AnsweredNow
<1>10. ASSUME writers' = writers \cup {[item |-> item, at |-> "asked", held |-> Unmarked,
                                        over |-> page, stale |-> known # View(page)]},
              reply' = [reply EXCEPT ![item].text = text], item' = item
       PROVE  QueueInv'
  <2>1. PICK v : v = [item |-> item, at |-> "asked", held |-> Unmarked, over |-> page, stale |-> known # View(page)]
    OBVIOUS
  <2>2. /\ v \in WriterRecs /\ v.item = item /\ v.at = "asked" /\ v.over = page /\ v.stale = (known # View(page))
        /\ writers' = writers \cup {v}
    <3>1. Unmarked \in Frontmatter
      BY DEF Unmarked, Frontmatter, Values
    <3>2. QED BY <1>1, <1>4, <1>10, <2>1, <3>1 DEF WriterRecs, BatchStages, PageShape
  <2>3. PICK a : a = reply[item]
    OBVIOUS
  <2>4. PICK b : b = [a EXCEPT !.text = text]
    OBVIOUS
  <2>5. a \in AnswerRecs /\ b \in AnswerRecs /\ b.is = "none" /\ b.text = text
    BY <1>1, <1>2, <1>5, <1>7, <2>3, <2>4 DEF QueueShape, AnswerRecs
  <2>6. /\ reply' \in [Items -> AnswerRecs] /\ reply'[item] = b
        /\ \A j \in Items \ {item} : reply'[j] = reply[j]
    BY <1>1, <1>2, <1>10, <2>3, <2>4, <2>5 DEF QueueShape
  <2>7. QueueShape'
    <3>1. \A x, y \in writers' : x.item = y.item => x = y
      BY <1>1, <1>2, <2>2 DEF QueueShape
    <3>2. \A x \in writers' : x \in WriterRecs /\ x.item \in Items
      BY <1>1, <1>2, <2>2 DEF QueueShape
    <3>3. QED BY <1>1, <1>2, <1>4, <1>10, <2>6, <3>1, <3>2 DEF QueueShape
  <2>8. \A i \in Items : i <= item => Answered(i)' = Answered(i) /\ Token(i)' = Token(i) /\ Payload(i)' = Payload(i)
    BY <1>1, <1>2, <1>4, <2>6, AnswersStand DEF Payload
  <2>9. ASSUME NEW u \in writers PROVE UnderWay(u)'
    <3>1. UnderWay(u) /\ u.item \in Items /\ u.item <= item /\ u.item # item
      BY <1>1, <1>2, TurnsBefore
    <3>2. reply'[u.item] = reply[u.item]
      BY <2>6, <3>1
    <3>3. StampKept(u)'
      BY <2>8, <3>1, <3>2 DEF UnderWay, StampKept
    <3>4. QED BY <1>2, <1>10, <2>8, <3>1, <3>2, <3>3 DEF UnderWay
  <2>10. UnderWay(v)'
    <3>1. StampKept(v)'
      <4>1. SUFFICES ASSUME Payload(item).stamp, known = View(page), page.there
            PROVE  /\ page.uid # 0 => text.uid = page.uid
                   /\ page.fm.clear /\ page.fm.status # "none" /\ Payload(item).fm.status = "none"
                        => text.fm.status = page.fm.status
        BY <1>2, <2>2, <2>5, <2>6 DEF StampKept, Payload
      <4>2. known.uid = page.uid /\ (page.fm.clear => known.fm = page.fm)
        BY <4>1 DEF View, Parsed
      <4>3. text = StampOver(item, known)
        BY <1>6, <4>1
      <4>4. QED BY <1>1, <1>2, <4>2, <4>3, StampKeeps
    <3>2. QED BY <1>2, <1>4, <1>5, <1>10, <2>2, <2>5, <2>6, <3>1 DEF UnderWay
  <2>11. ASSUME NEW i \in Items PROVE ToldTruly(i)'
    <3>1. ToldTruly(i) /\ reply'[i].is = reply[i].is
      BY <1>1, <1>5, <2>5, <2>6 DEF QueueInv
    <3>2. CASE i <= item
      BY <1>2, <1>10, <2>2, <2>8, <3>1, <3>2 DEF ToldTruly
    <3>3. CASE i > item
      <4>1. landed[i] # 1
        <5>1. \A u \in writers : u.item <= item
          BY <1>1, TurnsBefore
        <5>2. QED BY <1>4, <3>1, <3>3, <5>1 DEF ToldTruly
      <4>2. reply[i].is = "none"
        BY <1>4, <3>1, <3>3 DEF ToldTruly
      <4>3. QED BY <1>2, <1>4, <1>10, <3>1, <3>3, <4>1, <4>2 DEF ToldTruly
    <3>4. QED BY <1>4, <3>2, <3>3
  <2>12. QED BY <1>4, <2>2, <2>7, <2>9, <2>10, <2>11 DEF QueueInv
<1>11. QED BY <1>3, <1>8, <1>9, <1>10 DEF BatchInv

LEMMA ClaimsKeeps == ASSUME BatchInv, NEW w \in writers, Claims(w) PROVE BatchInv'
<1>1. PageShape /\ QueueInv /\ QueueShape
  BY DEF BatchInv, QueueInv
<1>2. w.at = "asked" /\ UNCHANGED <<batch, page, known, second, mayBe, landed, misdeeds>>
  BY DEF Claims
<1>3. PageShape'
  BY <1>1, <1>2, PageStays
<1>4. w.item \in Items /\ w.item <= item /\ Items = 1..Len(batch.items) /\ Len(batch.items) \in Nat
  BY <1>1, TurnsBefore, ItemsAre
<1>5. CASE Answered(w.item) = {}
  <2>1. StepsTo(w, "queued") /\ UNCHANGED <<item, reply>>
    BY <1>5 DEF Claims
  <2>2. "queued" \in BatchStages
    BY DEF BatchStages
  <2>3. QueueInv'
    BY <1>1, <1>2, <1>5, <2>1, <2>2, StepsKeeps
  <2>4. QED BY <1>3, <2>3 DEF BatchInv
<1>6. CASE Answered(w.item) # {}
  <2>1. PICK j : j = CHOOSE k \in Answered(w.item) : TRUE
    OBVIOUS
  <2>2. j \in Answered(w.item)
    BY <1>6, <2>1
  <2>3. IF ~SameRequest(w.item, j) THEN Over(w, "idempotency_mismatch", 0)
        ELSE IF reply[j].is = "ok" THEN StepsTo(w, "returned") /\ UNCHANGED <<item, reply>>
        ELSE Over(w, reply[j].is, 0)
    BY <1>6, <2>1 DEF Claims
  <2>4. reply[j].is \in {"ok", "protection_required"} /\ j \in Items /\ SameKey(w.item, j)
    BY <1>4, <2>2 DEF Answered
  <2>5. CASE ~SameRequest(w.item, j)
    <3>1. Over(w, "idempotency_mismatch", 0) /\ "idempotency_mismatch" \in Sayings \ {"none"}
      BY <2>3, <2>5 DEF Sayings
    <3>2. QueueInv'
      BY <1>1, <1>2, <3>1, OverKeeps
    <3>3. QED BY <1>3, <3>2 DEF BatchInv
  <2>6. CASE SameRequest(w.item, j) /\ reply[j].is # "ok"
    <3>1. Over(w, "protection_required", 0) /\ "protection_required" \in Sayings \ {"none"}
      BY <2>3, <2>4, <2>6 DEF Sayings
    <3>2. QueueInv'
      BY <1>1, <1>2, <3>1, OverKeeps
    <3>3. QED BY <1>3, <3>2 DEF BatchInv
  <2>7. CASE SameRequest(w.item, j) /\ reply[j].is = "ok"
    <3>1. StepsTo(w, "returned") /\ UNCHANGED <<item, reply>>
      BY <2>3, <2>7
    <3>2. landed[j] = 1 \/ \E k \in Answered(j) : landed[k] = 1
      BY <1>1, <2>4, <2>7 DEF QueueInv, ToldTruly
    <3>3. Answered(j) \subseteq Answered(w.item)
      <4>1. j \in 1..w.item - 1 /\ w.item \in Nat
        BY <1>4, <2>2 DEF Answered
      <4>2. 1..j - 1 \subseteq 1..w.item - 1
        BY <4>1
      <4>3. \A k : SameKey(j, k) => SameKey(w.item, k)
        BY <2>4 DEF SameKey
      <4>4. QED BY <4>2, <4>3 DEF Answered
    <3>4. \E k \in Answered(w.item) : landed[k] = 1
      BY <2>2, <3>2, <3>3
    <3>5. "returned" \in BatchStages
      BY DEF BatchStages
    <3>6. QueueInv'
      BY <1>1, <1>2, <3>1, <3>4, <3>5, StepsKeeps
    <3>7. QED BY <1>3, <3>6 DEF BatchInv
  <2>8. QED BY <2>5, <2>6, <2>7
<1>7. QED BY <1>5, <1>6

LEMMA DequeuedKeeps == ASSUME BatchInv, NEW w \in writers, Dequeued(w) PROVE BatchInv'
<1>1. PageShape /\ QueueInv
  BY DEF BatchInv
<1>2. w.at = "queued" /\ UNCHANGED <<batch, page, known, second, mayBe, landed, misdeeds>>
  BY DEF Dequeued
<1>3. PageShape'
  BY <1>1, <1>2, PageStays
<1>4. \/ Over(w, "rev_conflict", 0)
      \/ Over(w, "protection_required", 0)
      \/ StepsTo(w, "guard") /\ UNCHANGED <<item, reply>>
  BY DEF Dequeued
<1>5. "guard" \in BatchStages /\ {"rev_conflict", "protection_required"} \subseteq Sayings \ {"none"}
  BY DEF BatchStages, Sayings
<1>6. Answered(w.item) = {}
  BY <1>1, <1>2, TurnsBefore DEF UnderWay
<1>7. CASE Over(w, "rev_conflict", 0)
  BY <1>1, <1>2, <1>3, <1>5, <1>7, OverKeeps DEF BatchInv
<1>8. CASE Over(w, "protection_required", 0)
  BY <1>1, <1>2, <1>3, <1>5, <1>8, OverKeeps DEF BatchInv
<1>9. CASE StepsTo(w, "guard") /\ UNCHANGED <<item, reply>>
  BY <1>1, <1>2, <1>3, <1>5, <1>6, <1>9, StepsKeeps DEF BatchInv
<1>10. QED BY <1>4, <1>7, <1>8, <1>9

LEMMA GuardsKeeps == ASSUME BatchInv, NEW w \in writers, Guards(w) PROVE BatchInv'
<1>1. PageShape /\ QueueInv
  BY DEF BatchInv
<1>2. w.at = "guard" /\ UNCHANGED <<batch, page, known, second, landed, misdeeds>>
  BY DEF Guards
<1>3. PICK held : /\ held = Unmarked \/ held = RecordOf(page)
                  /\ mayBe' \subseteq mayBe
                  /\ IF Permits(held, reply[w.item].text)
                     THEN writers' = (writers \ {w}) \cup {[w EXCEPT !.at = "look", !.held = held]}
                          /\ UNCHANGED <<item, reply>>
                     ELSE Over(w, "accept_forbidden", 0)
  BY DEF Guards
<1>4. PageShape'
  BY <1>1, <1>2, <1>3 DEF PageShape
<1>5. held \in Frontmatter
  <2>1. Unmarked \in Frontmatter
    BY DEF Unmarked, Frontmatter, Values
  <2>2. page.fm \in Frontmatter
    BY <1>1 DEF PageShape, PageStates
  <2>3. QED BY <1>3, <2>1, <2>2 DEF RecordOf
<1>6. CASE Permits(held, reply[w.item].text)
  <2>1. writers' = (writers \ {w}) \cup {[w EXCEPT !.at = "look", !.held = held]} /\ UNCHANGED <<item, reply>>
    BY <1>3, <1>6
  <2>2. PICK v : v = [w EXCEPT !.at = "look", !.held = held]
    OBVIOUS
  <2>3. w \in WriterRecs /\ UnderWay(w) /\ w.item \in Items /\ landed \in [Items -> {0, 1}]
    BY <1>1, TurnsBefore DEF QueueInv, QueueShape
  <2>4. /\ v \in WriterRecs /\ v.item = w.item /\ v.over = w.over /\ v.stale = w.stale
        /\ v.at = "look" /\ v.held = held
    BY <1>5, <2>2, <2>3 DEF WriterRecs, BatchStages
  <2>5. landed[w.item] = 0 /\ Answered(w.item) = {}
    BY <1>2, <2>3 DEF UnderWay
  <2>6. MayWrite(v.held, reply[w.item].text.fm)
    BY <1>6, <2>4 DEF Permits
  <2>7. writers' = (writers \ {w}) \cup {v}
    BY <2>1, <2>2
  <2>8. QueueInv'
    BY <1>1, <1>2, <2>1, <2>3, <2>4, <2>5, <2>6, <2>7, BecomesKeeps
  <2>9. QED BY <1>4, <2>8 DEF BatchInv
<1>7. CASE ~Permits(held, reply[w.item].text)
  <2>1. Over(w, "accept_forbidden", 0) /\ "accept_forbidden" \in Sayings \ {"none"}
    BY <1>3, <1>7 DEF Sayings
  <2>2. QueueInv'
    BY <1>1, <1>2, <2>1, OverKeeps
  <2>3. QED BY <1>4, <2>2 DEF BatchInv
<1>8. QED BY <1>6, <1>7

LEMMA LooksKeeps == ASSUME BatchInv, NEW w \in writers, Looks(w) PROVE BatchInv'
<1>1. PageShape /\ QueueInv
  BY DEF BatchInv
<1>2. w.at = "look" /\ UNCHANGED <<batch, page, known, second, mayBe, landed, misdeeds>>
  BY DEF Looks
<1>3. PageShape'
  BY <1>1, <1>2, PageStays
<1>4. UnderWay(w)
  BY <1>1, TurnsBefore
<1>5. Answered(w.item) = {} /\ MayWrite(w.held, reply[w.item].text.fm)
  BY <1>2, <1>4 DEF UnderWay
<1>6. CASE MustBeNew(w.item)
  <2>1. Over(w, "exists", 0) /\ "exists" \in Sayings \ {"none"}
    BY <1>6 DEF Looks, Sayings
  <2>2. QED BY <1>1, <1>2, <1>3, <2>1, OverKeeps DEF BatchInv
<1>7. CASE ~MustBeNew(w.item) /\ page.there
  <2>1. StepsTo(w, "modify") /\ UNCHANGED <<item, reply>> /\ Token(w.item) # 0 /\ "modify" \in BatchStages
    BY <1>7 DEF Looks, MustBeNew, BatchStages
  <2>2. QED BY <1>1, <1>2, <1>3, <1>5, <2>1, StepsKeeps DEF BatchInv
<1>8. CASE ~MustBeNew(w.item) /\ ~page.there
  <2>1. StepsTo(w, "create") /\ UNCHANGED <<item, reply>> /\ "create" \in BatchStages
    BY <1>8 DEF Looks, BatchStages
  <2>2. QED BY <1>1, <1>2, <1>3, <1>5, <2>1, StepsKeeps DEF BatchInv
<1>9. QED BY <1>6, <1>7, <1>8

\* What lands does nothing that no write may do.
LEMMA NoMisdeed ==
  ASSUME PageShape, QueueInv, NEW w \in writers, w.at \in {"create", "modify"}, w.at = "create" => ~page.there
  PROVE  Misdeeds(w) = {}
<1>1. UnderWay(w)
  BY TurnsBefore
<1>2. PICK text : text = reply[w.item].text
  OBVIOUS
<1>3. MayWrite(w.held, text.fm) /\ StampKept(w) /\ (w.at = "modify" => Token(w.item) # 0)
  BY <1>1, <1>2 DEF UnderWay
<1>4. Granted(text.fm) \subseteq Granted(w.held) /\ Kept(w.held) \subseteq Granted(text.fm)
  BY <1>3, AllowedGrantsNothing
<1>5. Kept(w.held) \subseteq Kept(text.fm)
  BY <1>4 DEF Kept
<1>6. ~(page.there /\ Token(w.item) = 0)
  BY <1>3
<1>7. Payload(w.item).stamp /\ ~w.stale /\ page = w.over /\ page.there =>
        /\ page.uid # 0 => text.uid = page.uid
        /\ page.fm.clear /\ page.fm.status # "none" /\ Payload(w.item).fm.status = "none"
             => text.fm.status = page.fm.status
  BY <1>2, <1>3 DEF StampKept
<1>8. QED BY <1>2, <1>4, <1>5, <1>6, <1>7 DEF Misdeeds

LEMMA VaultWritesKeeps == ASSUME BatchInv, NEW w \in writers, VaultWrites(w) PROVE BatchInv'
<1>1. PageShape /\ QueueInv
  BY DEF BatchInv
<1>2. w.at \in {"create", "modify"} /\ UNCHANGED <<batch, known, second, mayBe>>
  BY DEF VaultWrites
<1>3. w \in WriterRecs /\ UnderWay(w) /\ w.item \in Items /\ landed \in [Items -> {0, 1}]
      /\ reply[w.item] \in AnswerRecs
  BY <1>1, TurnsBefore DEF QueueInv, QueueShape
<1>4. landed[w.item] = 0 /\ Answered(w.item) = {}
  BY <1>2, <1>3 DEF UnderWay
<1>5. ASSUME w.at = "create" => ~page.there,
             page' = [there |-> TRUE, uid |-> reply[w.item].text.uid, fm |-> reply[w.item].text.fm,
                      rev |-> page.rev + 1],
             StepsTo(w, "returned"), UNCHANGED <<item, reply>>,
             landed' = [landed EXCEPT ![w.item] = @ + 1],
             misdeeds' = misdeeds \cup Misdeeds(w)
      PROVE  BatchInv'
  <2>1. misdeeds' = {}
    BY <1>1, <1>2, <1>5, NoMisdeed DEF PageShape
  <2>2. page' \in PageStates
    <3>1. reply[w.item].text \in Compositions
      BY <1>3 DEF AnswerRecs
    <3>2. page.rev \in Nat
      BY <1>1 DEF PageShape, PageStates
    <3>3. QED BY <1>5, <3>1, <3>2 DEF PageStates, Compositions
  <2>3. PageShape'
    BY <1>1, <1>2, <2>1, <2>2 DEF PageShape
  <2>4. PICK v : v = [w EXCEPT !.at = "returned"]
    OBVIOUS
  <2>5. /\ v \in WriterRecs /\ v.item = w.item /\ v.over = w.over /\ v.stale = w.stale /\ v.at = "returned"
    BY <1>3, <2>4 DEF WriterRecs, BatchStages
  <2>6. landed' = [landed EXCEPT ![w.item] = 1]
    BY <1>4, <1>5
  <2>7. landed' \in [Items -> {0, 1}] /\ landed'[w.item] = 1 /\ \A j \in Items \ {w.item} : landed'[j] = landed[j]
    BY <1>3, <2>6
  <2>8. writers' = (writers \ {w}) \cup {v}
    BY <1>5, <2>4 DEF StepsTo
  <2>9. QueueInv'
    BY <1>1, <1>2, <1>4, <1>5, <2>5, <2>7, <2>8, BecomesKeeps
  <2>10. QED BY <2>3, <2>9 DEF BatchInv
<1>6. ASSUME Over(w, "error", 0), UNCHANGED <<page, landed, misdeeds>>
      PROVE  BatchInv'
  <2>1. PageShape'
    BY <1>1, <1>2, <1>6, PageStays
  <2>2. "error" \in Sayings \ {"none"}
    BY DEF Sayings
  <2>3. QueueInv'
    BY <1>1, <1>2, <1>6, <2>2, OverKeeps
  <2>4. QED BY <2>1, <2>3 DEF BatchInv
<1>7. QED BY <1>5, <1>6 DEF VaultWrites

LEMMA ReportsKeeps == ASSUME BatchInv, NEW w \in writers, Reports(w) PROVE BatchInv'
<1>1. PageShape /\ QueueInv
  BY DEF BatchInv
<1>2. /\ w.at = "returned" /\ Over(w, "ok", IF page.there THEN page.rev ELSE 0)
      /\ UNCHANGED <<batch, page, known, second, mayBe, landed, misdeeds>>
  BY DEF Reports
<1>3. PageShape'
  BY <1>1, <1>2, PageStays
<1>4. PICK rev : rev = IF page.there THEN page.rev ELSE 0
  OBVIOUS
<1>5. rev \in Nat /\ "ok" \in Sayings \ {"none"}
  BY <1>1, <1>4 DEF PageShape, PageStates, Sayings
<1>6. Over(w, "ok", rev)
  BY <1>2, <1>4
<1>7. QueueInv'
  BY <1>1, <1>2, <1>5, <1>6, OverKeeps
<1>8. QED BY <1>3, <1>7 DEF BatchInv

LEMMA GivesUpKeeps == ASSUME BatchInv, NEW w \in writers, GivesUp(w) PROVE BatchInv'
<1>1. PageShape /\ QueueInv /\ QueueShape
  BY DEF BatchInv, QueueInv
<1>2. /\ w.item = item /\ w.at \in {"guard", "look", "create", "modify"} /\ mayBe' \subseteq mayBe
      /\ Says(item, "write_timeout", 0) /\ item' = item + 1
      /\ UNCHANGED <<batch, page, known, second, writers, landed, misdeeds>>
  BY DEF GivesUp
<1>3. PageShape'
  BY <1>1, <1>2 DEF PageShape
<1>4. item \in Items /\ UnderWay(w) /\ Items' = Items /\ Items = 1..Len(batch.items) /\ Len(batch.items) \in Nat
  BY <1>1, <1>2, TurnsBefore, ItemsAre DEF Items
<1>5. /\ reply' \in [Items -> AnswerRecs] /\ reply'[item].is = "write_timeout"
      /\ reply'[item].text = reply[item].text /\ \A j \in Items \ {item} : reply'[j] = reply[j]
  <2>1. "write_timeout" \in Sayings /\ reply \in [Items -> AnswerRecs] /\ 0 \in Nat
    BY <1>1 DEF Sayings, QueueShape
  <2>2. QED BY <1>2, <1>4, <2>1, SaysShape
<1>6. QueueShape'
  <2>1. item + 1 \in 1..Len(batch.items) + 1
    BY <1>4
  <2>2. item' \in 1..Len(batch'.items) + 1
    BY <1>2, <2>1
  <2>3. QED BY <1>1, <1>2, <1>4, <1>5, <2>2 DEF QueueShape
<1>7. landed[item] = 0
  BY <1>2, <1>4 DEF UnderWay
<1>8. reply'[item].is # "none" /\ reply'[item].is # "ok"
  BY <1>5
<1>9. QueueInv'
  BY <1>1, <1>2, <1>4, <1>5, <1>6, <1>7, <1>8, AnsweredNow
<1>10. QED BY <1>3, <1>9 DEF BatchInv

\* The queue does not notice what others do to the note.
LEMMA QueueStays ==
  ASSUME QueueInv, UNCHANGED <<batch, item, writers, reply, landed>>
  PROVE  QueueInv'
<1>1. \A i : Answered(i)' = Answered(i) /\ Token(i)' = Token(i) /\ Payload(i)' = Payload(i)
  BY DEF Answered, Token, SameKey, Payload
<1>2. Items' = Items /\ QueueShape'
  BY DEF QueueInv, QueueShape, Items
<1>3. ASSUME NEW u \in writers PROVE UnderWay(u)'
  <2>1. UnderWay(u)
    BY DEF QueueInv
  <2>2. StampKept(u)'
    BY <1>1, <2>1 DEF UnderWay, StampKept
  <2>3. QED BY <1>1, <2>1, <2>2 DEF UnderWay
<1>4. ASSUME NEW i \in Items PROVE ToldTruly(i)'
  <2>1. ToldTruly(i)
    BY DEF QueueInv
  <2>2. QED BY <1>1, <2>1 DEF ToldTruly
<1>5. QED BY <1>2, <1>3, <1>4 DEF QueueInv

LEMMA OthersEditKeeps == ASSUME BatchInv, OthersEdit PROVE BatchInv'
<1>1. PageShape /\ QueueInv
  BY DEF BatchInv
<1>2. PICK x \in mayBe \ {<<"expire">>, <<"second">>, <<"unreadable">>} :
    /\ mayBe' = mayBe \ {x}
    /\ page' = CASE x[1] = "record" -> [page EXCEPT !.fm = x[2], !.rev = @ + 1]
                 [] x[1] = "uid"    -> [page EXCEPT !.uid = x[2], !.rev = @ + 1]
                 [] x[1] = "body"   -> [page EXCEPT !.rev = @ + 1]
                 [] x[1] = "delete" -> [page EXCEPT !.there = FALSE, !.uid = 0, !.fm = Unmarked]
                 [] x[1] = "create" -> [page EXCEPT !.there = TRUE, !.rev = @ + 1]
    /\ UNCHANGED <<batch, known, second, item, writers, reply, landed, misdeeds>>
  BY DEF OthersEdit
<1>3. \/ x[1] \in {"body", "delete", "create"}
      \/ x[1] = "record" /\ x[2] \in Frontmatter
      \/ x[1] = "uid" /\ x[2] \in Nat
  BY <1>1, <1>2, BatchAssumption DEF PageShape
<1>4. PICK p : p = page
  OBVIOUS
<1>5. p \in PageStates /\ p.rev + 1 \in Nat
  BY <1>1, <1>4 DEF PageShape, PageStates
<1>6. Unmarked \in Frontmatter
  BY DEF Unmarked, Frontmatter, Values
<1>7. page' \in PageStates
  <2>1. CASE x[1] = "record"
    <3>1. page' = [p EXCEPT !.fm = x[2], !.rev = p.rev + 1]
      BY <1>2, <1>4, <2>1
    <3>2. QED BY <1>3, <1>5, <2>1, <3>1 DEF PageStates
  <2>2. CASE x[1] = "uid"
    <3>1. page' = [p EXCEPT !.uid = x[2], !.rev = p.rev + 1]
      BY <1>2, <1>4, <2>2
    <3>2. QED BY <1>3, <1>5, <2>2, <3>1 DEF PageStates
  <2>3. CASE x[1] = "body"
    <3>1. page' = [p EXCEPT !.rev = p.rev + 1]
      BY <1>2, <1>4, <2>3
    <3>2. QED BY <1>5, <3>1 DEF PageStates
  <2>4. CASE x[1] = "delete"
    <3>1. page' = [p EXCEPT !.there = FALSE, !.uid = 0, !.fm = Unmarked]
      BY <1>2, <1>4, <2>4
    <3>2. QED BY <1>5, <1>6, <3>1 DEF PageStates
  <2>5. CASE x[1] = "create"
    <3>1. page' = [p EXCEPT !.there = TRUE, !.rev = p.rev + 1]
      BY <1>2, <1>4, <2>5
    <3>2. QED BY <1>5, <3>1 DEF PageStates
  <2>6. QED BY <1>3, <2>1, <2>2, <2>3, <2>4, <2>5
<1>8. PageShape'
  BY <1>1, <1>2, <1>7 DEF PageShape
<1>9. QED BY <1>1, <1>2, <1>8, QueueStays DEF BatchInv

LEMMA OthersKeep == ASSUME BatchInv, SecondPasses \/ CacheFollows PROVE BatchInv'
<1>1. PageShape /\ QueueInv
  BY DEF BatchInv
<1>2. UNCHANGED <<batch, page, item, writers, reply, landed, misdeeds>> /\ mayBe' \subseteq mayBe
  BY DEF SecondPasses, CacheFollows
<1>3. second' \in Nat /\ (known' = known \/ known' = View(page))
  BY <1>1 DEF SecondPasses, CacheFollows, PageShape
<1>4. View(page) \in [uid : Nat, fm : Frontmatter]
  <2>1. Unmarked \in Frontmatter
    BY DEF Unmarked, Frontmatter, Values
  <2>2. page.uid \in Nat /\ page.fm \in Frontmatter
    BY <1>1 DEF PageShape, PageStates
  <2>3. Parsed(page.fm) \in Frontmatter
    BY <2>1, <2>2 DEF Parsed
  <2>4. QED BY <2>1, <2>2, <2>3 DEF View, Bare
<1>5. PageShape'
  BY <1>1, <1>2, <1>3, <1>4 DEF PageShape
<1>6. QED BY <1>1, <1>2, <1>5, QueueStays DEF BatchInv

LEMMA BatchStep == ASSUME BatchInv, [BatchNext]_bwvars PROVE BatchInv'
<1>1. CASE UNCHANGED bwvars
  <2>1. UNCHANGED <<batch, page, known, second, item, writers, reply, mayBe, landed, misdeeds>>
    BY <1>1 DEF bwvars
  <2>2. QED BY <2>1, PageStays, QueueStays DEF BatchInv
<1>2. CASE BatchNext
  BY <1>2, ComposeKeeps, OthersEditKeeps, OthersKeep, ClaimsKeeps, DequeuedKeeps, GuardsKeeps, LooksKeeps,
     VaultWritesKeeps, ReportsKeeps, GivesUpKeeps DEF BatchNext
<1>3. QED BY <1>1, <1>2

LEMMA BatchInvSafe == ASSUME BatchInv PROVE BatchSafe
<1>1. PageShape /\ QueueInv /\ QueueShape
  BY DEF BatchInv, QueueInv
<1>2. BatchTypeOK
  BY <1>1 DEF BatchTypeOK, PageShape, QueueShape, PageStates
<1>3. NothingTaken
  BY <1>1 DEF NothingTaken, PageShape
<1>4. ASSUME NEW i \in Items
      PROVE  /\ reply[i].is = "ok" => landed[i] = 1 \/ \E j \in Answered(i) : landed[j] = 1
             /\ landed[i] = 1 => reply[i].is \in {"none", "ok", "write_timeout"}
             /\ \A j \in 1..i - 1 : SameKey(i, j) /\ landed[i] = 1 => reply[j].is # "ok"
  <2>1. ToldTruly(i)
    BY <1>1 DEF QueueInv
  <2>2. ASSUME NEW j \in 1..i - 1, SameKey(i, j), landed[i] = 1
        PROVE  reply[j].is # "ok"
    <3>1. j \notin Answered(i)
      BY <2>1, <2>2 DEF ToldTruly
    <3>2. QED BY <2>2, <3>1 DEF Answered
  <2>3. QED BY <2>1, <2>2 DEF ToldTruly
<1>5. ReportsWhatLanded
  BY <1>4 DEF ReportsWhatLanded
<1>6. QED BY <1>2, <1>3, <1>5 DEF BatchSafe

\* However the cache lags, whoever edits the note, and whatever write the queue gives up on: no
\* item of a batch takes or grants what only a person may, replaces a note that it was to create
\* or loses a stamp, and what is reported as written was (tools-write-notes.ts).
THEOREM BatchIsSafe == BatchSpec => []BatchSafe
<1>1. QED BY BatchInvInit, BatchStep, BatchInvSafe, PTL DEF BatchSpec

-----------------------------------------------------------------------------
\* Addresses.

Legs      == [from : SpotPaths, to : SpotPaths]
SpotsSeen == UNION {[S -> Spots] : S \in SUBSET Members}
JobRecs   == [at : {"asked", "planned", "moving", "found", "over"}, by : Instances \cup {"none"},
              steps : Seq(Legs), landed : Nat, held : Nat, seen : SpotsSeen, saw : SUBSET Folders,
              late : BOOLEAN, answer : {"none", "refused", "ok", "error", "inconsistent"}]

\* No two notes have one path.
PathsApart == \A n, m \in There : Path(n, spot) = Path(m, spot) => n = m

SchemeShape ==
  /\ trip \in Trips /\ stirs \subseteq trip.coming /\ visible \subseteq Folders
  /\ spot \in [Members -> Spots \cup {Gone}] /\ job \in [Jobs -> JobRecs] /\ PathsApart

\* No note that the plan saw bears the address.
Unborne(a, j) == \A n \in DOMAIN j.seen : j.seen[n].addr # a

\* A note that the plan saw at the address asked for, and where it was.
Bearer(o, p, q, j) == o \in DOMAIN j.seen /\ j.seen[o].addr = q.addr /\ Path(o, j.seen) = p

\* What the moves of a plan are, by the tool that made it.
PlanRight(q, j) ==
  /\ Len(j.steps) \in 1..2
  /\ \A i \in 1..Len(j.steps) :
       /\ {j.steps[i].from.folder, j.steps[i].to.folder} \subseteq j.saw \ ExcludedOf[j.by]
       /\ j.steps[i].to.title = j.steps[i].from.title
  /\ Len(j.steps) = 1 => \/ q.tool = "refile" /\ j.steps[1].to.addr = j.steps[1].from.addr
                         \/ q.tool # "refile" /\ Unborne(j.steps[1].to.addr, j)
  /\ Len(j.steps) = 1 /\ q.tool = "renumber" => j.steps[1].to.addr = q.addr
  /\ Len(j.steps) = 2 => /\ q.tool = "renumber" /\ j.steps[2].to.addr = q.addr
                         /\ Unborne(j.steps[1].to.addr, j) /\ j.steps[1].from # q.path
                         /\ \E o \in Members : Bearer(o, j.steps[1].from, q, j)
  /\ q.tool = "assign" /\ q.cat \in Expanded =>
       \A n \in DOMAIN j.seen :
         j.seen[n].addr # NoAddress /\ j.seen[n].addr.cat = q.cat =>
           j.steps[1].to.addr.num > j.seen[n].addr.num

\* How far a call may be at each stage, and what it answers.
JobRight(q, j) ==
  /\ j.landed \in 0..Len(j.steps)
  /\ j.at = "asked" => j.steps = <<>> /\ DOMAIN j.seen = {}
  /\ j.steps # <<>> => PlanRight(q, j)
  /\ j.at = "planned" => j.landed = 0 /\ j.steps # <<>>
  /\ j.at \in {"moving", "found"} => j.landed < Len(j.steps) /\ ~q.dry
  /\ j.at = "found" => j.held \in Members /\ TitleOf[j.held] = j.steps[j.landed + 1].to.title
  /\ j.at # "over" => j.answer = "none"
  /\ j.answer \in {"refused", "error"} \/ q.dry => j.landed = 0
  /\ j.answer = "inconsistent" => j.landed \in 1..Len(j.steps) - 1

\* The bearer that a renumber displaces is the note it moves first, or has roamed.
Displaces(c, q, j) ==
  \E o \in Members :
    /\ Bearer(o, j.steps[1].from, q, j)
    /\ j.landed > 0 => <<c, o>> \in roamed
    /\ j.at = "found" /\ j.landed = 0 => j.held = o \/ <<c, o>> \in roamed

\* A note the plan saw is where it was, or has roamed.
JobKept(c, q, j) ==
  /\ j.at # "asked" => \A m \in DOMAIN j.seen : <<c, m>> \in roamed \/ spot[m] = j.seen[m]
  /\ Len(j.steps) = 2 => Displaces(c, q, j)

\* Two notes that the plan saw at the address asked for.
TwoBorne(q, j) ==
  /\ q.tool = "renumber" /\ j.at # "asked"
  /\ \E n, m \in DOMAIN j.seen : n # m /\ j.seen[n].addr = q.addr /\ j.seen[m].addr = q.addr

SchemeInv ==
  /\ SchemeShape
  /\ \A c \in Jobs : JobRight(trip.asks[c], job[c]) /\ JobKept(c, trip.asks[c], job[c])
  /\ \A b \in shared : b[1] \in Jobs /\ TwoBorne(trip.asks[b[1]], job[b[1]])

\* Whether a plan is right depends on its moves, what it saw and for whom.
LEMMA PlanStays ==
  ASSUME NEW q, NEW l, NEW j, j.steps = l.steps, j.seen = l.seen, j.saw = l.saw, j.by = l.by,
         PlanRight(q, l)
  PROVE  PlanRight(q, j)
<1>1. \A a : Unborne(a, l) => Unborne(a, j)
  BY DEF Unborne
<1>2. \A o, p : Bearer(o, p, q, l) => Bearer(o, p, q, j)
  BY DEF Bearer
<1>3. /\ Len(j.steps) \in 1..2
      /\ \A i \in 1..Len(j.steps) :
           /\ {j.steps[i].from.folder, j.steps[i].to.folder} \subseteq j.saw \ ExcludedOf[j.by]
           /\ j.steps[i].to.title = j.steps[i].from.title
  <2>1. /\ Len(l.steps) \in 1..2
        /\ \A i \in 1..Len(l.steps) :
             /\ {l.steps[i].from.folder, l.steps[i].to.folder} \subseteq l.saw \ ExcludedOf[l.by]
             /\ l.steps[i].to.title = l.steps[i].from.title
    BY Zenon DEF PlanRight
  <2>2. QED BY <2>1
<1>4. Len(j.steps) = 1 => \/ q.tool = "refile" /\ j.steps[1].to.addr = j.steps[1].from.addr
                          \/ q.tool # "refile" /\ Unborne(j.steps[1].to.addr, j)
  BY <1>1, Zenon DEF PlanRight
<1>5. Len(j.steps) = 1 /\ q.tool = "renumber" => j.steps[1].to.addr = q.addr
  BY Zenon DEF PlanRight
<1>6. Len(j.steps) = 2 => /\ q.tool = "renumber" /\ j.steps[2].to.addr = q.addr
                          /\ Unborne(j.steps[1].to.addr, j) /\ j.steps[1].from # q.path
                          /\ \E o \in Members : Bearer(o, j.steps[1].from, q, j)
  BY <1>1, <1>2, Zenon DEF PlanRight
<1>7. q.tool = "assign" /\ q.cat \in Expanded =>
        \A n \in DOMAIN j.seen :
          j.seen[n].addr # NoAddress /\ j.seen[n].addr.cat = q.cat =>
            j.steps[1].to.addr.num > j.seen[n].addr.num
  BY Zenon DEF PlanRight
<1>8. QED BY <1>3, <1>4, <1>5, <1>6, <1>7, Zenon DEF PlanRight

\* A set of numbers has a first one.
LEMMA FirstNumber ==
  ASSUME NEW S, S \subseteq Nat, S # {}
  PROVE  First(S) \in S /\ \A m \in S : First(S) <= m
<1>1. IsWellFoundedOn(OpToRel(<, Nat), Nat)
  BY NatLessThanWellFounded
<1>2. PICK o \in S : \A x \in S : ~(<<x, o>> \in OpToRel(<, Nat))
  BY <1>1, WFMin
<1>3. ASSUME NEW u \in S PROVE o <= u
  <2>1. ~(<<u, o>> \in OpToRel(<, Nat)) /\ u \in Nat /\ o \in Nat
    BY <1>2, <1>3
  <2>2. ~(u < o)
    BY <2>1 DEF OpToRel
  <2>3. u \in Nat /\ o \in Nat
    BY <2>1
  <2>4. QED BY <2>2, <2>3
<1>4. QED BY <1>3 DEF First

\* The number that nextFree gives is of its category, nobody seen bears it, and in an
\* expanded category it is above all that are borne.
LEMMA NextFreeRight ==
  ASSUME NEW S, NEW k, NextFree(k, S) # NoAddress
  PROVE  /\ NextFree(k, S) \in Address \ {NoAddress}
         /\ \A n \in S : spot[n].addr # NextFree(k, S)
         /\ k \in Expanded => \A n \in S : spot[n].addr # NoAddress /\ spot[n].addr.cat = k
                                             => NextFree(k, S).num > spot[n].addr.num
<1>1. PICK free : free = IF k \in Expanded THEN {n \in 1..Highest : \A u \in Used(k, S) : n > u}
                                           ELSE (Floor..Highest) \ Used(k, S)
  OBVIOUS
<1>2. k \in Categories /\ free # {} /\ NextFree(k, S) = [cat |-> k, num |-> First(free)]
  BY <1>1 DEF NextFree
<1>3. free \subseteq Nat
  BY <1>1, SchemeAssumption
<1>4. First(free) \in free /\ First(free) \in Nat
  BY <1>2, <1>3, FirstNumber
<1>5. ASSUME k \in Expanded, NEW u \in Used(k, S) PROVE First(free) > u
  BY <1>1, <1>4, <1>5
<1>6. First(free) \notin Used(k, S)
  <2>1. CASE k \in Expanded
    <3>1. ~(First(free) > First(free))
      BY <1>4
    <3>2. QED BY <1>5, <2>1, <3>1
  <2>2. CASE k \notin Expanded
    BY <1>1, <1>4, <2>2
  <2>3. QED BY <2>1, <2>2
<1>7. NextFree(k, S) \in Address \ {NoAddress}
  <2>1. k \in STRING
    BY <1>2, SchemeAssumption
  <2>2. NextFree(k, S) \in [cat : STRING, num : Nat]
    BY <1>2, <1>4, <2>1
  <2>3. QED BY <2>2, SchemeAssumption DEF Address
<1>8. ASSUME NEW n \in S, spot[n].addr # NoAddress, spot[n].addr.cat = k
      PROVE  spot[n].addr.num \in Used(k, S)
  BY <1>8 DEF Used
<1>9. ASSUME NEW n \in S PROVE spot[n].addr # NextFree(k, S)
  <2>1. SUFFICES ASSUME spot[n].addr = NextFree(k, S) PROVE FALSE
    OBVIOUS
  <2>2. spot[n].addr.cat = k /\ spot[n].addr.num = First(free) /\ spot[n].addr # NoAddress
    BY <1>2, <1>7, <2>1
  <2>3. QED BY <1>6, <1>8, <2>2
<1>10. ASSUME k \in Expanded, NEW n \in S, spot[n].addr # NoAddress, spot[n].addr.cat = k
       PROVE  NextFree(k, S).num > spot[n].addr.num
  <2>1. NextFree(k, S).num = First(free)
    BY <1>2
  <2>2. QED BY <1>5, <1>8, <1>10, <2>1
<1>11. QED BY <1>7, <1>9, <1>10

\* The folder a plan computes is none that the instance does not speak for.
LEMMA ExpectedRight ==
  ASSUME SchemeShape, NEW i \in Instances, NEW a, Expected(a, Sees(i)) # NoFolder
  PROVE  Expected(a, Sees(i)) \in Folders \ ExcludedOf[i]
<1>1. PICK in : in = {n \in Sees(i) : ScopeOf[spot[n].folder] # NoFolder
                                      /\ TokenOf[ScopeOf[spot[n].folder]] = a.cat}
  OBVIOUS
<1>2. in # {} /\ Expected(a, Sees(i)) = ScopeOf[spot[First(in)].folder]
  BY <1>1 DEF Expected
<1>3. Sees(i) \subseteq Members /\ Members \subseteq Nat
  BY SchemeAssumption DEF Sees, There
<1>4. PICK n : n = First(in) /\ n \in in
  <2>1. in \subseteq Nat
    BY <1>1, <1>3
  <2>2. QED BY <1>2, <2>1, FirstNumber
<1>5. n \in Sees(i) /\ Expected(a, Sees(i)) = ScopeOf[spot[n].folder]
  BY <1>1, <1>2, <1>4
<1>6. spot[n].folder \in Folders /\ spot[n].folder \notin ExcludedOf[i]
  BY <1>5 DEF SchemeShape, Sees
<1>7. QED BY <1>5, <1>6, SchemeAssumption

\* A move that a plan can make: where it starts, what address and title it gives.
LEMMA LegRight ==
  ASSUME SchemeShape, NEW i \in Instances, NEW p \in SpotPaths, NEW a \in Address,
         To(p, a, Sees(i)).to.folder # NoFolder
  PROVE  /\ To(p, a, Sees(i)) \in Legs /\ To(p, a, Sees(i)).from = p
         /\ To(p, a, Sees(i)).to.addr = a /\ To(p, a, Sees(i)).to.title = p.title
         /\ To(p, a, Sees(i)).to.folder \notin ExcludedOf[i]
<1>1. PICK f : f = Expected(a, Sees(i))
  OBVIOUS
<1>2. To(p, a, Sees(i)) = [from |-> p, to |-> [folder |-> f, addr |-> a, title |-> p.title]]
  BY <1>1 DEF To, Target
<1>3. f # NoFolder
  BY <1>2
<1>4. f \in Folders \ ExcludedOf[i]
  BY <1>1, <1>3, ExpectedRight
<1>5. p.title \in STRING
  BY DEF SpotPaths
<1>6. [folder |-> f, addr |-> a, title |-> p.title] \in SpotPaths
  BY <1>4, <1>5 DEF SpotPaths
<1>7. QED BY <1>2, <1>4, <1>6 DEF Legs

\* One or two moves are a sequence of moves.
LEMMA MovesAreSeq ==
  /\ \A l \in Legs : <<l>> \in Seq(Legs)
  /\ \A l, m \in Legs : <<l, m>> \in Seq(Legs)
OBVIOUS

\* Moves that can be made are the moves themselves, each into a folder.
LEMMA MovesOne ==
  ASSUME NEW l, Moves(<<l>>) # Refused
  PROVE  Moves(<<l>>) = <<l>> /\ l.to.folder # NoFolder
<1>1. DOMAIN <<l>> = {1} /\ <<l>>[1] = l
  OBVIOUS
<1>2. QED BY <1>1 DEF Moves

LEMMA MovesTwo ==
  ASSUME NEW l, NEW m, Moves(<<l, m>>) # Refused
  PROVE  Moves(<<l, m>>) = <<l, m>> /\ l.to.folder # NoFolder /\ m.to.folder # NoFolder
<1>1. DOMAIN <<l, m>> = {1, 2} /\ <<l, m>>[1] = l /\ <<l, m>>[2] = m
  OBVIOUS
<1>2. QED BY <1>1 DEF Moves

\* Nothing that the plan computed is hidden.
LEMMA NoneHidden ==
  ASSUME NEW q, NEW steps, Hidden(q, steps) = {}, NEW n \in DOMAIN steps
  PROVE  steps[n].to.folder \in visible
<1>1. PICK s : s = steps[n] /\ s \in {steps[m] : m \in DOMAIN steps}
  OBVIOUS
<1>2. s.to.folder \in UNION {{x.to.folder} \cup (IF x.from # q.path THEN {x.from.folder} ELSE {})
                               : x \in {steps[m] : m \in DOMAIN steps}}
  BY <1>1
<1>3. QED BY <1>1, <1>2 DEF Hidden

\* What a call records when it is planned.
PlanOf(j, i) == j.seen = [n \in Sees(i) |-> spot[n]] /\ j.saw = visible /\ j.by = i

LEMMA RecordsSeen ==
  ASSUME SchemeShape, NEW i \in Instances, NEW j, PlanOf(j, i)
  PROVE  /\ DOMAIN j.seen = Sees(i) /\ Sees(i) \subseteq Members
         /\ \A n \in Sees(i) : /\ j.seen[n] = spot[n] /\ Path(n, j.seen) = Path(n, spot)
                               /\ spot[n] \in Spots /\ Path(n, spot) \in SpotPaths
                               /\ spot[n].folder \in visible \ ExcludedOf[i]
<1>1. DOMAIN j.seen = Sees(i) /\ \A n \in Sees(i) : j.seen[n] = spot[n]
  BY DEF PlanOf
<1>2. Sees(i) \subseteq Members
  BY DEF Sees, There
<1>3. ASSUME NEW n \in Sees(i)
      PROVE  /\ spot[n] \in Spots /\ spot[n].folder \in visible \ ExcludedOf[i]
             /\ Path(n, spot) \in SpotPaths
  <2>1. spot[n] \in Spots /\ spot[n].folder \in visible \ ExcludedOf[i] /\ n \in Members
    BY <1>3 DEF Sees, There, SchemeShape
  <2>2. spot[n].folder \in Folders /\ spot[n].addr \in Address /\ TitleOf[n] \in STRING
    BY <2>1, SchemeAssumption DEF Spots
  <2>3. QED BY <2>1, <2>2 DEF Path, SpotPaths
<1>4. ASSUME NEW n \in Sees(i) PROVE Path(n, j.seen) = Path(n, spot)
  BY <1>1, <1>4 DEF Path
<1>5. QED BY <1>1, <1>2, <1>3, <1>4

\* A plan of one move.
LEMMA OneMove ==
  ASSUME SchemeShape, NEW i \in Instances, NEW q, NEW j, PlanOf(j, i), NEW a \in Address,
         q.path \in SpotPaths, q.path.folder \in visible \ ExcludedOf[i],
         j.steps = Moves(<<To(q.path, a, Sees(i))>>), j.steps # Refused, Hidden(q, j.steps) = {},
         \/ q.tool = "refile" /\ a = q.path.addr
         \/ q.tool # "refile" /\ Unborne(a, j),
         q.tool = "renumber" => a = q.addr,
         q.tool = "assign" /\ q.cat \in Expanded =>
           \A n \in DOMAIN j.seen :
             j.seen[n].addr # NoAddress /\ j.seen[n].addr.cat = q.cat => a.num > j.seen[n].addr.num
  PROVE  j.steps \in Seq(Legs) /\ PlanRight(q, j)
<1>1. PICK l : l = To(q.path, a, Sees(i))
  OBVIOUS
<1>2. j.steps = <<l>> /\ l.to.folder # NoFolder
  BY <1>1, MovesOne
<1>3. /\ l \in Legs /\ l.from = q.path /\ l.to.addr = a /\ l.to.title = q.path.title
      /\ l.to.folder \notin ExcludedOf[i]
  BY <1>1, <1>2, LegRight
<1>4. Len(j.steps) = 1 /\ DOMAIN j.steps = {1} /\ j.steps[1] = l
  BY <1>2
<1>5. l.to.folder \in visible
  BY <1>4, NoneHidden
<1>6. j.steps \in Seq(Legs)
  BY <1>2, <1>3, MovesAreSeq
<1>7. \A n \in 1..Len(j.steps) :
        /\ {j.steps[n].from.folder, j.steps[n].to.folder} \subseteq j.saw \ ExcludedOf[j.by]
        /\ j.steps[n].to.title = j.steps[n].from.title
  BY <1>3, <1>4, <1>5 DEF PlanOf
<1>8. j.steps[1].to.addr = a /\ j.steps[1].from.addr = q.path.addr
  BY <1>3, <1>4
<1>9. QED BY <1>4, <1>6, <1>7, <1>8 DEF PlanRight

\* A plan of two moves: the one that is there aside, and the note in.
LEMMA TwoMoves ==
  ASSUME SchemeShape, NEW i \in Instances, NEW q, NEW j, PlanOf(j, i), NEW a \in Address,
         q.path \in SpotPaths, q.path.folder \in visible \ ExcludedOf[i], q.tool = "renumber",
         q.addr \in Address, NEW o \in Sees(i), spot[o].addr = q.addr, Path(o, spot) # q.path,
         Unborne(a, j),
         j.steps = Moves(<<To(Path(o, spot), a, Sees(i)), To(q.path, q.addr, Sees(i))>>),
         j.steps # Refused, Hidden(q, j.steps) = {}
  PROVE  j.steps \in Seq(Legs) /\ PlanRight(q, j)
<1>0. PICK p : p = Path(o, spot)
  OBVIOUS
<1>1. PICK l, m : l = To(p, a, Sees(i)) /\ m = To(q.path, q.addr, Sees(i))
  OBVIOUS
<1>2. j.steps = <<l, m>> /\ l.to.folder # NoFolder /\ m.to.folder # NoFolder
  BY <1>0, <1>1, MovesTwo
<1>3. /\ p \in SpotPaths /\ p.folder \in visible \ ExcludedOf[i] /\ p = Path(o, j.seen)
      /\ o \in DOMAIN j.seen /\ j.seen[o].addr = q.addr /\ o \in Members
  <2>1. /\ DOMAIN j.seen = Sees(i) /\ Sees(i) \subseteq Members /\ j.seen[o] = spot[o]
        /\ Path(o, j.seen) = Path(o, spot) /\ Path(o, spot) \in SpotPaths
        /\ spot[o].folder \in visible \ ExcludedOf[i]
    BY RecordsSeen
  <2>2. p.folder = spot[o].folder
    BY <1>0 DEF Path
  <2>3. QED BY <1>0, <2>1, <2>2
<1>4. /\ l \in Legs /\ l.from = p /\ l.to.addr = a /\ l.to.title = p.title
      /\ l.to.folder \notin ExcludedOf[i]
  BY <1>1, <1>2, <1>3, LegRight
<1>5. /\ m \in Legs /\ m.from = q.path /\ m.to.addr = q.addr /\ m.to.title = q.path.title
      /\ m.to.folder \notin ExcludedOf[i]
  BY <1>1, <1>2, LegRight
<1>6. Len(j.steps) = 2 /\ DOMAIN j.steps = {1, 2} /\ j.steps[1] = l /\ j.steps[2] = m
  BY <1>2
<1>7. l.to.folder \in visible /\ m.to.folder \in visible
  BY <1>6, NoneHidden
<1>8. j.steps \in Seq(Legs)
  BY <1>2, <1>4, <1>5, MovesAreSeq
<1>9. \A n \in 1..Len(j.steps) :
        /\ {j.steps[n].from.folder, j.steps[n].to.folder} \subseteq j.saw \ ExcludedOf[j.by]
        /\ j.steps[n].to.title = j.steps[n].from.title
  <2>1. {l.from.folder, l.to.folder, m.from.folder, m.to.folder} \subseteq j.saw \ ExcludedOf[j.by]
    BY <1>3, <1>4, <1>5, <1>7 DEF PlanOf
  <2>2. l.to.title = l.from.title /\ m.to.title = m.from.title
    BY <1>4, <1>5
  <2>3. {l.from.folder, l.to.folder} \subseteq j.saw \ ExcludedOf[j.by]
        /\ {m.from.folder, m.to.folder} \subseteq j.saw \ ExcludedOf[j.by]
    BY <2>1
  <2>4. Len(j.steps) = 2 /\ j.steps[1] = l /\ j.steps[2] = m
    BY <1>6, Zenon
  <2>5. \A n \in 1..2 : n = 1 \/ n = 2
    OBVIOUS
  <2>6. \A n \in 1..Len(j.steps) : n = 1 \/ n = 2
    BY <2>4, <2>5, Zenon
  <2>7. QED BY <2>2, <2>3, <2>4, <2>6
<1>10. \E x \in Members : Bearer(x, j.steps[1].from, q, j)
  BY <1>3, <1>4, <1>6 DEF Bearer
<1>11. j.steps[1].to.addr = a /\ j.steps[1].from # q.path /\ j.steps[2].to.addr = q.addr
  BY <1>0, <1>4, <1>5, <1>6
<1>12. j.steps # <<>> /\ Len(j.steps) \in 1..2 /\ Len(j.steps) # 1
  BY <1>6
<1>13. PlanRight(q, j)
  BY <1>9, <1>10, <1>11, <1>12 DEF PlanRight
<1>14. QED BY <1>8, <1>13

\* What is asked is well formed.
WellAsked(q) ==
  /\ q.tool \in {"assign", "refile", "renumber"} /\ q.path \in SpotPaths /\ q.dry \in BOOLEAN
  /\ q.addr \in Address \ {NoAddress} \/ q.tool # "renumber"
  /\ q.aside \in Address

LEMMA AsksAreAsked == SchemeShape => \A c \in Jobs : WellAsked(trip.asks[c])
<1>1. SUFFICES ASSUME SchemeShape, NEW c \in Jobs PROVE WellAsked(trip.asks[c])
  OBVIOUS
<1>2. PICK t : t = trip
  OBVIOUS
<1>3. t \in Trips
  BY <1>1, <1>2 DEF SchemeShape
<1>4. c \in DOMAIN t.asks
  BY <1>1, <1>2 DEF Jobs
<1>5. WellAsked(t.asks[c])
  BY <1>3, <1>4, SchemeAssumption DEF WellAsked
<1>6. QED BY <1>2, <1>5

\* An address that nextFree gave is one that no note the plan saw bears.
LEMMA FreeIsUnborne ==
  ASSUME SchemeShape, NEW i \in Instances, NEW j, PlanOf(j, i), NEW k,
         NextFree(k, Sees(i)) # NoAddress
  PROVE  NextFree(k, Sees(i)) \in Address /\ Unborne(NextFree(k, Sees(i)), j)
<1>1. PICK a : a = NextFree(k, Sees(i))
  OBVIOUS
<1>2. a \in Address /\ \A n \in Sees(i) : spot[n].addr # a
  BY <1>1, NextFreeRight
<1>3. DOMAIN j.seen = Sees(i) /\ \A n \in Sees(i) : j.seen[n] = spot[n]
  BY RecordsSeen
<1>4. QED BY <1>1, <1>2, <1>3 DEF Unborne

\* The address that a displaced note gets is one too.
LEMMA AsideIsUnborne ==
  ASSUME SchemeShape, NEW i \in Instances, NEW j, PlanOf(j, i), NEW q, WellAsked(q), NEW n,
         Displaced(q, n, Sees(i)) # NoAddress
  PROVE  Displaced(q, n, Sees(i)) \in Address /\ Unborne(Displaced(q, n, Sees(i)), j)
<1>1. ASSUME q.mode = "manual"
      PROVE  Displaced(q, n, Sees(i)) \in Address /\ Unborne(Displaced(q, n, Sees(i)), j)
  <2>1. Displaced(q, n, Sees(i)) = q.aside /\ BornBy(q.aside, Sees(i)) = {}
    BY <1>1 DEF Displaced
  <2>2. DOMAIN j.seen = Sees(i) /\ \A m \in Sees(i) : j.seen[m] = spot[m]
    BY RecordsSeen
  <2>3. \A m \in Sees(i) : spot[m].addr # q.aside
    BY <2>1 DEF BornBy
  <2>4. Unborne(q.aside, j)
    BY <2>2, <2>3 DEF Unborne
  <2>5. QED BY <2>1, <2>4 DEF WellAsked
<1>2. ASSUME q.mode # "manual"
      PROVE  Displaced(q, n, Sees(i)) \in Address /\ Unborne(Displaced(q, n, Sees(i)), j)
  <2>1. PICK k : k = TokenOf[ScopeOf[spot[n].folder]]
    OBVIOUS
  <2>2. Displaced(q, n, Sees(i)) = NextFree(k, Sees(i))
    BY <1>2, <2>1 DEF Displaced
  <2>3. QED BY <2>2, FreeIsUnborne
<1>3. QED BY <1>1, <1>2

\* A plan that can be carried out is right.
LEMMA PlansAreRight ==
  ASSUME SchemeShape, NEW i \in Instances, NEW q, WellAsked(q), NEW j, PlanOf(j, i),
         q.path.folder \in visible \ ExcludedOf[i],
         j.steps = Planned(q, Sees(i)), j.steps # Refused, j.steps # <<>>, Hidden(q, j.steps) = {}
  PROVE  j.steps \in Seq(Legs) /\ PlanRight(q, j)
<1>0. q.path \in SpotPaths
  BY DEF WellAsked
<1>1. ASSUME q.tool = "assign" PROVE j.steps \in Seq(Legs) /\ PlanRight(q, j)
  <2>1. PICK a : a = NextFree(q.cat, Sees(i))
    OBVIOUS
  <2>2. a # NoAddress /\ j.steps = Moves(<<To(q.path, a, Sees(i))>>)
    BY <1>1, <2>1 DEF Planned, planAssign
  <2>3. a \in Address /\ Unborne(a, j)
    BY <2>1, <2>2, FreeIsUnborne
  <2>4. ASSUME q.cat \in Expanded, NEW n \in DOMAIN j.seen, j.seen[n].addr # NoAddress,
               j.seen[n].addr.cat = q.cat
        PROVE  a.num > j.seen[n].addr.num
    <3>1. n \in Sees(i) /\ j.seen[n] = spot[n]
      BY <2>4, RecordsSeen
    <3>2. \A x \in Sees(i) : spot[x].addr # NoAddress /\ spot[x].addr.cat = q.cat
                                => a.num > spot[x].addr.num
      BY <2>1, <2>2, <2>4, NextFreeRight
    <3>3. QED BY <2>4, <3>1, <3>2
  <2>5. q.tool # "refile" /\ q.tool # "renumber"
    BY <1>1
  <2>6. QED BY <1>0, <2>2, <2>3, <2>4, <2>5, OneMove
<1>2. ASSUME q.tool = "refile" PROVE j.steps \in Seq(Legs) /\ PlanRight(q, j)
  <2>1. j.steps = planRefile(q, Sees(i))
    BY <1>2 DEF Planned
  <2>2. j.steps = Moves(<<To(q.path, q.path.addr, Sees(i))>>)
    BY <2>1 DEF planRefile
  <2>3. q.path.addr \in Address /\ q.tool # "renumber" /\ q.tool # "assign"
    BY <1>0, <1>2 DEF SpotPaths
  <2>4. QED BY <1>0, <1>2, <2>2, <2>3, OneMove
<1>3. ASSUME q.tool = "renumber" PROVE j.steps \in Seq(Legs) /\ PlanRight(q, j)
  <2>0. PICK S : S = Sees(i)
    OBVIOUS
  <2>1. PICK there, n, a : there = BornBy(q.addr, S) /\ n = First(there) /\ a = Displaced(q, n, S)
    OBVIOUS
  <2>2. j.steps = planRenumber(q, S)
    BY <1>3, <2>0 DEF Planned
  <2>3. q.addr \in Address /\ q.tool # "refile" /\ q.tool # "assign"
    BY <1>3 DEF WellAsked
  <2>4. S \subseteq Members /\ Members \subseteq Nat /\ DOMAIN j.seen = S /\ \A x \in S : j.seen[x] = spot[x]
    BY <2>0, RecordsSeen, SchemeAssumption
  <2>5. ASSUME there = {} PROVE j.steps \in Seq(Legs) /\ PlanRight(q, j)
    <3>1. j.steps = Moves(<<To(q.path, q.addr, S)>>)
      BY <2>1, <2>2, <2>5 DEF planRenumber
    <3>2. Unborne(q.addr, j)
      BY <2>1, <2>4, <2>5 DEF BornBy, Unborne
    <3>3. QED BY <1>0, <2>0, <2>3, <3>1, <3>2, OneMove
  <2>6. ASSUME there # {} PROVE j.steps \in Seq(Legs) /\ PlanRight(q, j)
    <3>1. /\ Path(n, spot) # q.path /\ a # NoAddress
          /\ j.steps = Moves(<<To(Path(n, spot), a, S), To(q.path, q.addr, S)>>)
      BY <2>1, <2>2, <2>6 DEF planRenumber
    <3>2. n \in there /\ n \in Sees(i) /\ spot[n].addr = q.addr
      <4>1. there \subseteq Nat /\ there \subseteq S
        BY <2>1, <2>4 DEF BornBy
      <4>2. n \in there
        BY <2>1, <2>6, <4>1, FirstNumber
      <4>3. QED BY <2>0, <2>1, <4>1, <4>2 DEF BornBy
    <3>3. a \in Address /\ Unborne(a, j)
      BY <2>0, <2>1, <3>1, AsideIsUnborne
    <3>4. QED BY <1>0, <1>3, <2>0, <2>3, <3>1, <3>2, <3>3, TwoMoves
  <2>7. QED BY <2>5, <2>6
<1>4. QED BY <1>1, <1>2, <1>3 DEF WellAsked

-----------------------------------------------------------------------------
\* The steps.

\* A call goes on, and no note is moved: what it records stays right.
LEMMA GoesOn ==
  ASSUME SchemeInv, NEW c \in Jobs, NEW j \in JobRecs, job' = [job EXCEPT ![c] = j],
         Only(c) \/ (stirs' \subseteq stirs /\ UNCHANGED <<trip, spot, visible, roamed, shared>>),
         JobRight(trip.asks[c], j), JobKept(c, trip.asks[c], j),
         job[c].at # "asked" => j.at # "asked" /\ j.seen = job[c].seen
  PROVE  SchemeInv'
<1>1. /\ trip' = trip /\ spot' = spot /\ visible' = visible /\ stirs' \subseteq stirs
      /\ roamed' = roamed /\ shared' = shared
  BY DEF Only
<1>2. job \in [Jobs -> JobRecs] /\ Jobs' = Jobs /\ job' \in [Jobs -> JobRecs]
  BY <1>1 DEF SchemeInv, SchemeShape, Jobs
<1>3. SchemeShape'
  BY <1>1, <1>2 DEF SchemeInv, SchemeShape, PathsApart, There, Path
<1>4. ASSUME NEW d \in Jobs
      PROVE  JobRight(trip.asks[d], job[d])' /\ JobKept(d, trip.asks[d], job[d])'
  <2>1. PICK k, q : k = job'[d] /\ q = trip.asks[d]
    OBVIOUS
  <2>2. JobRight(q, k) /\ JobKept(d, q, k)
    <3>1. CASE d = c
      BY <1>2, <2>1, <3>1
    <3>2. CASE d # c
      BY <1>2, <2>1, <3>2 DEF SchemeInv
    <3>3. QED BY <3>1, <3>2
  <2>3. JobKept(d, q, k)'
    BY <1>1, <2>2 DEF JobKept, Displaces
  <2>4. q = trip'.asks[d]
    BY <1>1, <2>1
  <2>5. QED BY <2>1, <2>2, <2>3, <2>4
<1>5. ASSUME NEW b \in shared' PROVE b[1] \in Jobs' /\ TwoBorne(trip.asks[b[1]], job[b[1]])'
  <2>1. PICK d : d = b[1] /\ d \in Jobs /\ TwoBorne(trip.asks[d], job[d])
    BY <1>1, <1>5 DEF SchemeInv
  <2>2. PICK k, l, q : k = job'[d] /\ l = job[d] /\ q = trip.asks[d]
    OBVIOUS
  <2>3. TwoBorne(q, l) /\ l.at # "asked"
    BY <2>1, <2>2 DEF TwoBorne
  <2>4. k.at # "asked" /\ k.seen = l.seen
    BY <1>2, <2>1, <2>2, <2>3
  <2>5. TwoBorne(q, k)
    BY <2>3, <2>4 DEF TwoBorne
  <2>6. QED BY <1>1, <1>2, <2>1, <2>2, <2>5
<1>6. QED BY <1>2, <1>3, <1>4, <1>5 DEF SchemeInv

\* Notes stray: what a call planned stays so.
LEMMA StrayKept ==
  ASSUME SchemeShape, NEW n, NEW s, spot' = [spot EXCEPT ![n] = s], Roams(n),
         NEW c \in Jobs, NEW q, NEW j, j.at = job[c].at, JobKept(c, q, j), j.at = "asked" => j.steps = <<>>
  PROVE  JobKept(c, q, j)'
<1>1. roamed \subseteq roamed'
  BY DEF Roams
<1>2. ASSUME j.at # "asked", NEW m \in DOMAIN j.seen PROVE <<c, m>> \in roamed' \/ spot'[m] = j.seen[m]
  <2>1. CASE m = n
    BY <1>2, <2>1 DEF Roams
  <2>2. CASE m # n
    <3>1. <<c, m>> \in roamed \/ spot[m] = j.seen[m]
      BY <1>2 DEF JobKept
    <3>2. spot'[m] = spot[m]
      BY <2>2 DEF SchemeShape
    <3>3. QED BY <1>1, <3>1, <3>2
  <2>3. QED BY <2>1, <2>2
<1>3. Displaces(c, q, j) => Displaces(c, q, j)'
  BY <1>1 DEF Displaces
<1>4. QED BY <1>2, <1>3 DEF JobKept

LEMMA SchemeInvInit == ASSUME SchemeInit PROVE SchemeInv
<1>1. PICK t : t = trip
  OBVIOUS
<1>2. t \in Trips /\ spot = t.spots /\ visible = t.visible /\ stirs = t.coming
  BY <1>1 DEF SchemeInit
<1>3. /\ t.visible \subseteq Folders /\ t.spots \in [Members -> Spots \cup {Gone}]
      /\ \A n, m \in Members : n # m /\ t.spots[n] # Gone /\ t.spots[m] = t.spots[n] => TitleOf[m] # TitleOf[n]
  BY <1>2, SchemeAssumption
<1>4. PathsApart
  <2>1. SUFFICES ASSUME NEW n \in There, NEW m \in There, Path(n, spot) = Path(m, spot), n # m
                 PROVE  FALSE
    BY DEF PathsApart
  <2>2. n \in Members /\ m \in Members /\ spot[n] \in Spots /\ spot[m] \in Spots /\ spot[n] # Gone
    BY <1>2, <1>3, <2>1 DEF There
  <2>3. spot[n].folder = spot[m].folder /\ spot[n].addr = spot[m].addr /\ TitleOf[n] = TitleOf[m]
    BY <2>1 DEF Path
  <2>4. spot[n] = spot[m]
    BY <2>2, <2>3 DEF Spots
  <2>5. QED BY <1>2, <1>3, <2>1, <2>2, <2>3, <2>4
<1>5. NewJob \in JobRecs
  <2>1. <<>> \in [{} -> Spots]
    OBVIOUS
  <2>2. [{} -> Spots] \in {[S -> Spots] : S \in SUBSET Members}
    OBVIOUS
  <2>3. <<>> \in SpotsSeen
    BY <2>1, <2>2 DEF SpotsSeen
  <2>4. <<>> \in Seq(Legs) /\ {} \in SUBSET Folders
    OBVIOUS
  <2>5. QED BY <2>3, <2>4 DEF NewJob, JobRecs
<1>6. job = [c \in Jobs |-> NewJob] /\ roamed = {} /\ shared = {}
  BY DEF SchemeInit, Jobs
<1>7. SchemeShape
  BY <1>1, <1>2, <1>3, <1>4, <1>5, <1>6 DEF SchemeShape
<1>8. ASSUME NEW c \in Jobs PROVE JobRight(trip.asks[c], job[c]) /\ JobKept(c, trip.asks[c], job[c])
  <2>1. PICK j : j = job[c] /\ j = NewJob
    BY <1>6
  <2>2. /\ j.at = "asked" /\ j.steps = <<>> /\ j.landed = 0 /\ j.answer = "none" /\ Len(j.steps) = 0
        /\ DOMAIN j.seen = {}
    BY <2>1 DEF NewJob
  <2>3. QED BY <2>1, <2>2 DEF JobRight, JobKept
<1>9. QED BY <1>6, <1>7, <1>8 DEF SchemeInv

\* The record of a call has the fields that it has.
Whole(j) == j = [at |-> j.at, by |-> j.by, steps |-> j.steps, landed |-> j.landed, held |-> j.held,
                 seen |-> j.seen, saw |-> j.saw, late |-> j.late, answer |-> j.answer]

LEMMA WholeIs ==
  ASSUME NEW r, NEW a1, NEW a2, NEW a3, NEW a4, NEW a5, NEW a6, NEW a7, NEW a8, NEW a9,
         r = [at |-> a1, by |-> a2, steps |-> a3, landed |-> a4, held |-> a5, seen |-> a6,
              saw |-> a7, late |-> a8, answer |-> a9]
  PROVE  /\ Whole(r) /\ r.at = a1 /\ r.by = a2 /\ r.steps = a3 /\ r.landed = a4 /\ r.held = a5
         /\ r.seen = a6 /\ r.saw = a7 /\ r.late = a8 /\ r.answer = a9
BY DEF Whole

LEMMA JobsAreWhole == \A j \in JobRecs : Whole(j)
BY DEF JobRecs, Whole

\* A call is planned, is refused, or has nothing to move.
LEMMA PlanCallKeeps == ASSUME SchemeInv, NEW c \in Jobs, NEW i \in Instances, PlanCall(c, i) PROVE SchemeInv'
<1>1. PICK q, steps, l, sn : /\ q = trip.asks[c] /\ steps = Planned(q, Sees(i)) /\ l = job[c]
                             /\ sn = [n \in Sees(i) |-> spot[n]]
  OBVIOUS
<1>2. /\ SchemeShape /\ l \in JobRecs /\ JobRight(q, l) /\ l.at = "asked" /\ Only(c) /\ WellAsked(q)
  BY <1>1, AsksAreAsked DEF SchemeInv, SchemeShape, PlanCall
<1>3. l.steps = <<>> /\ l.answer = "none" /\ l.landed = 0
  BY <1>2 DEF JobRight
<1>4. PICK k : k = [l EXCEPT !.by = i, !.seen = sn, !.saw = visible]
  OBVIOUS
<1>5. /\ Whole(k) /\ k.at = "asked" /\ k.by = i /\ k.steps = l.steps /\ k.landed = 0 /\ k.held = l.held
      /\ k.seen = sn /\ k.saw = visible /\ k.late = l.late /\ k.answer = "none"
  <2>1. Whole(l)
    BY <1>2, JobsAreWhole
  <2>2. k = [at |-> l.at, by |-> i, steps |-> l.steps, landed |-> l.landed, held |-> l.held, seen |-> sn,
             saw |-> visible, late |-> l.late, answer |-> l.answer]
    BY <1>4, <2>1 DEF Whole
  <2>3. QED BY <1>2, <1>3, <2>2, WholeIs
<1>6. PICK j :
        /\ job' = [job EXCEPT ![c] = j]
        /\ Whole(j) /\ j.by = i /\ j.landed = 0 /\ j.held = l.held /\ j.seen = sn /\ j.saw = visible
        /\ j.late = l.late
        /\ \/ j.at = "over" /\ j.steps = l.steps /\ j.answer \in {"refused", "ok"}
           \/ /\ j.at = "planned" /\ j.steps = steps /\ j.answer = "none"
              /\ steps # <<>> /\ steps # Refused /\ Hidden(q, steps) = {}
              /\ q.path.folder \in visible \ ExcludedOf[i]
  <2>1. \/ job' = [job EXCEPT ![c] = [k EXCEPT !.at = "over", !.answer = "refused"]]
        \/ job' = [job EXCEPT ![c] = [k EXCEPT !.at = "over", !.answer = "ok"]]
        \/ /\ job' = [job EXCEPT ![c] = [k EXCEPT !.at = "planned", !.steps = steps]]
           /\ steps # <<>> /\ steps # Refused /\ Hidden(q, steps) = {}
           /\ q.path.folder \in visible \ ExcludedOf[i]
    BY <1>1, <1>4 DEF PlanCall, JobGoes
  <2>2. PICK x, y, z : /\ x = [k EXCEPT !.at = "over", !.answer = "refused"]
                       /\ y = [k EXCEPT !.at = "over", !.answer = "ok"]
                       /\ z = [k EXCEPT !.at = "planned", !.steps = steps]
    OBVIOUS
  <2>3. /\ Whole(x) /\ x.by = i /\ x.landed = 0 /\ x.held = l.held /\ x.seen = sn /\ x.saw = visible
        /\ x.late = l.late /\ x.at = "over" /\ x.steps = l.steps /\ x.answer = "refused"
    <3>1. x = [at |-> "over", by |-> k.by, steps |-> k.steps, landed |-> k.landed, held |-> k.held,
               seen |-> k.seen, saw |-> k.saw, late |-> k.late, answer |-> "refused"]
      BY <1>5, <2>2 DEF Whole
    <3>2. QED BY <1>5, <3>1, WholeIs
  <2>4. /\ Whole(y) /\ y.by = i /\ y.landed = 0 /\ y.held = l.held /\ y.seen = sn /\ y.saw = visible
        /\ y.late = l.late /\ y.at = "over" /\ y.steps = l.steps /\ y.answer = "ok"
    <3>1. y = [at |-> "over", by |-> k.by, steps |-> k.steps, landed |-> k.landed, held |-> k.held,
               seen |-> k.seen, saw |-> k.saw, late |-> k.late, answer |-> "ok"]
      BY <1>5, <2>2 DEF Whole
    <3>2. QED BY <1>5, <3>1, WholeIs
  <2>5. /\ Whole(z) /\ z.by = i /\ z.landed = 0 /\ z.held = l.held /\ z.seen = sn /\ z.saw = visible
        /\ z.late = l.late /\ z.at = "planned" /\ z.steps = steps /\ z.answer = "none"
    <3>1. z = [at |-> "planned", by |-> k.by, steps |-> steps, landed |-> k.landed, held |-> k.held,
               seen |-> k.seen, saw |-> k.saw, late |-> k.late, answer |-> k.answer]
      BY <1>5, <2>2 DEF Whole
    <3>2. QED BY <1>5, <3>1, WholeIs
  <2>6. CASE job' = [job EXCEPT ![c] = x]
    BY <2>3, <2>6
  <2>7. CASE job' = [job EXCEPT ![c] = y]
    BY <2>4, <2>7
  <2>8. ASSUME job' = [job EXCEPT ![c] = z], steps # <<>>, steps # Refused, Hidden(q, steps) = {},
               q.path.folder \in visible \ ExcludedOf[i]
        PROVE  \E j :
        /\ job' = [job EXCEPT ![c] = j]
        /\ Whole(j) /\ j.by = i /\ j.landed = 0 /\ j.held = l.held /\ j.seen = sn /\ j.saw = visible
        /\ j.late = l.late
        /\ \/ j.at = "over" /\ j.steps = l.steps /\ j.answer \in {"refused", "ok"}
           \/ /\ j.at = "planned" /\ j.steps = steps /\ j.answer = "none"
              /\ steps # <<>> /\ steps # Refused /\ Hidden(q, steps) = {}
              /\ q.path.folder \in visible \ ExcludedOf[i]
    BY <2>5, <2>8
  <2>9. QED BY <2>1, <2>2, <2>6, <2>7, <2>8
<1>7. j.at = "over" \/ j.at = "planned"
  BY <1>6
<1>8. j.at = "over" => j.steps = <<>> /\ j.answer \in {"refused", "ok"}
  BY <1>3, <1>6
<1>9. j.at = "planned" => /\ j.steps = steps /\ j.answer = "none" /\ steps # <<>> /\ steps # Refused
                           /\ Hidden(q, steps) = {} /\ q.path.folder \in visible \ ExcludedOf[i]
  BY <1>6
<1>10. j.landed = 0
  BY <1>6
<1>11. PlanOf(j, i)
  BY <1>1, <1>6 DEF PlanOf
<1>12. /\ DOMAIN j.seen = Sees(i) /\ Sees(i) \subseteq Members
      /\ \A n \in Sees(i) : j.seen[n] = spot[n] /\ spot[n] \in Spots
  BY <1>2, <1>11, RecordsSeen
<1>13. j.steps \in Seq(Legs) /\ (j.at = "planned" => PlanRight(q, j))
  <2>1. ASSUME j.at = "over" PROVE j.steps \in Seq(Legs) /\ j.at # "planned"
    <3>1. <<>> \in Seq(Legs)
      OBVIOUS
    <3>2. QED BY <1>8, <2>1, <3>1
  <2>2. CASE j.at = "planned"
    BY <1>1, <1>2, <1>11, <1>9, <2>2, PlansAreRight
  <2>3. QED BY <1>7, <2>1, <2>2
<1>14. j \in JobRecs
  <2>1. j.seen \in [Sees(i) -> Spots]
    BY <1>1, <1>6, <1>12
  <2>2. j.seen \in SpotsSeen
    BY <1>12, <2>1 DEF SpotsSeen
  <2>3. j.saw \in SUBSET Folders
    BY <1>2, <1>6 DEF SchemeShape
  <2>4. QED BY <1>2, <1>6, <1>13, <2>2, <2>3 DEF Whole, JobRecs
<1>15. JobRight(q, j)
  <2>1. 0 \in 0..Len(j.steps)
    BY <1>13
  <2>2. CASE j.at = "over"
    BY <1>8, <1>10, <2>1, <2>2 DEF JobRight
  <2>3. CASE j.at = "planned"
    BY <1>13, <1>9, <1>10, <2>1, <2>3 DEF JobRight
  <2>4. QED BY <1>7, <2>2, <2>3
<1>16. JobKept(c, q, j)
  <2>1. \A m \in DOMAIN j.seen : spot[m] = j.seen[m]
    BY <1>12
  <2>2. Len(j.steps) = 2 => Displaces(c, q, j)
    <3>1. SUFFICES ASSUME Len(j.steps) = 2 PROVE Displaces(c, q, j)
      OBVIOUS
    <3>2. j.at = "planned"
      BY <1>7, <1>8, <3>1
    <3>3. PICK o \in Members : Bearer(o, j.steps[1].from, q, j)
      BY <1>13, <3>1, <3>2 DEF PlanRight
    <3>4. QED BY <1>6, <3>2, <3>3 DEF Displaces
  <2>3. QED BY <2>1, <2>2 DEF JobKept
<1>17. QED BY <1>1, <1>2, <1>6, <1>14, <1>15, <1>16, GoesOn

\* What a call that goes on finds.
LEMMA CallIs ==
  ASSUME SchemeInv, NEW c \in Jobs
  PROVE  /\ job[c] \in JobRecs /\ JobRight(trip.asks[c], job[c]) /\ JobKept(c, trip.asks[c], job[c])
         /\ WellAsked(trip.asks[c])
BY AsksAreAsked DEF SchemeInv, SchemeShape

\* A call is over, and says whether it moved anything.
LEMMA RepliesKeeps ==
  ASSUME SchemeInv, NEW c \in Jobs, Only(c), NEW w, w \in {"refused", "ok", "error", "inconsistent"},
         Replies(c, w), w \in {"refused", "error"} => job[c].landed = 0,
         w = "inconsistent" => job[c].landed \in 1..Len(job[c].steps) - 1
  PROVE  SchemeInv'
<1>1. PICK q, l, j : q = trip.asks[c] /\ l = job[c] /\ j = [l EXCEPT !.at = "over", !.answer = w]
  OBVIOUS
<1>2. l \in JobRecs /\ JobRight(q, l) /\ JobKept(c, q, l)
  BY <1>1, CallIs
<1>3. /\ j \in JobRecs /\ j.at = "over" /\ j.answer = w /\ j.steps = l.steps /\ j.landed = l.landed
      /\ j.seen = l.seen /\ j.saw = l.saw /\ j.by = l.by
  BY <1>1, <1>2 DEF JobRecs
<1>4. l.answer \in {"refused", "error"} \/ q.dry => l.landed = 0
  BY <1>2 DEF JobRight
<1>5. JobRight(q, j)
  <2>1. j.steps # <<>> => PlanRight(q, j)
    BY <1>2, <1>3 DEF JobRight, PlanRight, Unborne, Bearer
  <2>2. /\ j.landed \in 0..Len(j.steps)
        /\ j.answer \in {"refused", "error"} \/ q.dry => j.landed = 0
        /\ j.answer = "inconsistent" => j.landed \in 1..Len(j.steps) - 1
    BY <1>1, <1>2, <1>3, <1>4 DEF JobRight
  <2>3. QED BY <1>3, <2>1, <2>2 DEF JobRight
<1>6. JobKept(c, q, j)
  <2>1. \A m \in DOMAIN j.seen : <<c, m>> \in roamed \/ spot[m] = j.seen[m]
    <3>1. CASE l.at = "asked"
      BY <1>2, <1>3, <3>1 DEF JobRight
    <3>2. CASE l.at # "asked"
      BY <1>2, <1>3, <3>2 DEF JobKept
    <3>3. QED BY <3>1, <3>2
  <2>2. Len(j.steps) = 2 => Displaces(c, q, j)
    BY <1>2, <1>3 DEF JobKept, Displaces, Bearer
  <2>3. QED BY <2>1, <2>2 DEF JobKept
<1>7. job' = [job EXCEPT ![c] = j]
  BY <1>1 DEF Replies, JobGoes
<1>8. QED BY <1>1, <1>3, <1>5, <1>6, <1>7, GoesOn

LEMMA NoInstanceKeeps == ASSUME SchemeInv, NEW c \in Jobs, NoInstance(c) PROVE SchemeInv'
<1>1. job[c].at = "asked" /\ Replies(c, "refused") /\ Only(c)
  BY DEF NoInstance
<1>2. JobRight(trip.asks[c], job[c])
  BY CallIs
<1>3. job[c].landed = 0
  BY <1>1, <1>2 DEF JobRight
<1>4. QED BY <1>1, <1>3, RepliesKeeps

LEMMA StepFailsKeeps == ASSUME SchemeInv, NEW c \in Jobs, StepFails(c) PROVE SchemeInv'
<1>1. PICK w : w = IF job[c].landed = 0 THEN "error" ELSE "inconsistent"
  OBVIOUS
<1>2. job[c].at \in {"moving", "found"} /\ Replies(c, w) /\ Only(c)
  BY <1>1 DEF StepFails
<1>3. JobRight(trip.asks[c], job[c]) /\ job[c] \in JobRecs
  BY CallIs
<1>4. job[c].landed < Len(job[c].steps) /\ job[c].landed \in 0..Len(job[c].steps)
  BY <1>2, <1>3 DEF JobRight
<1>5. Len(job[c].steps) \in Nat
  BY <1>3 DEF JobRecs
<1>6. w = "inconsistent" => job[c].landed \in 1..Len(job[c].steps) - 1
  BY <1>1, <1>4, <1>5
<1>7. w \in {"error", "inconsistent"} /\ (w = "error" => job[c].landed = 0)
  BY <1>1
<1>8. QED BY <1>2, <1>6, <1>7, RepliesKeeps

\* The names are right, and the call begins to move.
LEMMA CheckNamesKeeps == ASSUME SchemeInv, NEW c \in Jobs, CheckNames(c) PROVE SchemeInv'
<1>1. PICK q, l, j : q = trip.asks[c] /\ l = job[c] /\ j = [l EXCEPT !.at = "moving"]
  OBVIOUS
<1>2. l \in JobRecs /\ JobRight(q, l) /\ JobKept(c, q, l) /\ l.at = "planned" /\ Only(c) /\ WellAsked(q)
  BY <1>1, CallIs DEF CheckNames
<1>3. l.landed = 0
  BY <1>2 DEF JobRight
<1>4. ASSUME Replies(c, "refused") \/ Replies(c, "ok") PROVE SchemeInv'
  BY <1>1, <1>2, <1>3, <1>4, RepliesKeeps
<1>5. ASSUME ~q.dry, l.steps # <<>>, job' = [job EXCEPT ![c] = j] PROVE SchemeInv'
  <2>1. /\ j \in JobRecs /\ j.at = "moving" /\ j.answer = l.answer /\ j.steps = l.steps
        /\ j.landed = l.landed /\ j.seen = l.seen /\ j.saw = l.saw /\ j.by = l.by
    BY <1>1, <1>2 DEF JobRecs
  <2>2. PlanRight(q, j)
    BY <1>2, <1>5, <2>1 DEF JobRight, PlanRight, Unborne, Bearer
  <2>3. Len(j.steps) \in 1..2
    BY <2>2 DEF PlanRight
  <2>4. l.answer = "none" /\ l.landed \in 0..Len(l.steps)
    BY <1>2 DEF JobRight
  <2>5. JobRight(q, j)
    BY <1>3, <1>5, <2>1, <2>2, <2>3, <2>4 DEF JobRight
  <2>6. JobKept(c, q, j)
    BY <1>2, <1>3, <2>1 DEF JobKept, Displaces, Bearer
  <2>7. QED BY <1>1, <1>2, <1>5, <2>1, <2>5, <2>6, GoesOn
<1>6. \/ Replies(c, "refused") \/ Replies(c, "ok")
      \/ ~q.dry /\ job' = [job EXCEPT ![c] = j]
  BY <1>1, <1>2 DEF CheckNames, JobGoes
<1>7. l.steps # <<>>
  BY <1>2 DEF JobRight
<1>8. QED BY <1>4, <1>5, <1>6, <1>7

\* The deadline: the call goes on, and others may be planned beside it.
LEMMA ExpireKeeps == ASSUME SchemeInv, NEW c \in Jobs, Expire(c) PROVE SchemeInv'
<1>1. PICK q, l, j : q = trip.asks[c] /\ l = job[c] /\ j = [l EXCEPT !.late = TRUE]
  OBVIOUS
<1>2. l \in JobRecs /\ JobRight(q, l) /\ JobKept(c, q, l)
  BY <1>1, CallIs
<1>3. /\ j \in JobRecs /\ j.at = l.at /\ j.answer = l.answer /\ j.steps = l.steps /\ j.held = l.held
      /\ j.landed = l.landed /\ j.seen = l.seen /\ j.saw = l.saw /\ j.by = l.by
  BY <1>1, <1>2 DEF JobRecs
<1>4. JobRight(q, j)
  <2>1. PlanRight(q, l) => PlanRight(q, j)
    BY <1>3 DEF PlanRight, Unborne, Bearer
  <2>2. QED BY <1>2, <1>3, <2>1 DEF JobRight
<1>5. JobKept(c, q, j)
  BY <1>2, <1>3 DEF JobKept, Displaces, Bearer
<1>6. /\ job' = [job EXCEPT ![c] = j] /\ stirs' \subseteq stirs
      /\ UNCHANGED <<trip, spot, visible, roamed, shared>>
  BY <1>1 DEF Expire, JobGoes
<1>7. QED BY <1>1, <1>3, <1>4, <1>5, <1>6, GoesOn

\* The call holds the note it moves, which at the first move of two is the one displaced.
LEMMA FindNoteKeeps == ASSUME SchemeInv, NEW c \in Jobs, FindNote(c) PROVE SchemeInv'
<1>1. PICK n \in AtPath(NextStep(c).from) : JobGoes(c, [job[c] EXCEPT !.at = "found", !.held = n])
  BY DEF FindNote
<1>2. PICK q, l, j : q = trip.asks[c] /\ l = job[c] /\ j = [l EXCEPT !.at = "found", !.held = n]
  OBVIOUS
<1>3. l \in JobRecs /\ JobRight(q, l) /\ JobKept(c, q, l) /\ l.at = "moving" /\ Only(c)
  BY <1>2, CallIs DEF FindNote
<1>4. n \in There /\ n \in Members /\ n \in Nat /\ Path(n, spot) = l.steps[l.landed + 1].from
  BY <1>1, <1>2, SchemeAssumption DEF AtPath, There, NextStep
<1>5. /\ j \in JobRecs /\ j.at = "found" /\ j.answer = l.answer /\ j.steps = l.steps /\ j.held = n
      /\ j.landed = l.landed /\ j.seen = l.seen /\ j.saw = l.saw /\ j.by = l.by
  BY <1>2, <1>3, <1>4 DEF JobRecs
<1>6. /\ l.landed \in 0..Len(l.steps) /\ l.landed < Len(l.steps) /\ ~q.dry /\ l.answer = "none"
      /\ l.steps # <<>> => PlanRight(q, l)
  BY <1>3 DEF JobRight
<1>7. l.steps \in Seq(Legs) /\ l.steps # <<>> /\ Len(l.steps) \in Nat
  BY <1>3, <1>6 DEF JobRecs
<1>8. PlanRight(q, l) /\ PlanRight(q, j)
  BY <1>5, <1>6, <1>7, PlanStays
<1>9. TitleOf[n] = l.steps[l.landed + 1].to.title
  <2>1. l.landed + 1 \in 1..Len(l.steps)
    BY <1>6, <1>7
  <2>2. l.steps[l.landed + 1].to.title = l.steps[l.landed + 1].from.title
    BY <1>8, <2>1 DEF PlanRight
  <2>3. QED BY <1>4, <2>2 DEF Path
<1>10. JobRight(q, j)
  BY <1>4, <1>5, <1>6, <1>8, <1>9 DEF JobRight
<1>11. JobKept(c, q, j)
  <2>1. \A m \in DOMAIN j.seen : <<c, m>> \in roamed \/ spot[m] = j.seen[m]
    BY <1>3, <1>5 DEF JobKept
  <2>2. ASSUME Len(j.steps) = 2 PROVE Displaces(c, q, j)
    <3>1. PICK o \in Members :
            Bearer(o, l.steps[1].from, q, l) /\ (l.landed > 0 => <<c, o>> \in roamed)
      BY <1>3, <1>5, <2>2 DEF JobKept, Displaces
    <3>2. Bearer(o, j.steps[1].from, q, j)
      BY <1>5, <3>1 DEF Bearer
    <3>3. ASSUME j.landed = 0, <<c, o>> \notin roamed PROVE n = o
      <4>1. spot[o] = j.seen[o] /\ Path(o, j.seen) = l.steps[1].from
        BY <1>5, <2>1, <3>1, <3>2, <3>3 DEF Bearer
      <4>2. spot[o] \in Spots
        <5>1. PICK S \in SUBSET Members : j.seen \in [S -> Spots]
          BY <1>5 DEF JobRecs, SpotsSeen
        <5>2. QED BY <3>2, <4>1, <5>1 DEF Bearer
      <4>3. o \in There
        BY <4>2, SchemeAssumption DEF There
      <4>4. Path(o, spot) = l.steps[1].from
        BY <4>1 DEF Path
      <4>5. Path(n, spot) = l.steps[1].from
        BY <1>4, <1>5, <3>3
      <4>6. PathsApart
        BY DEF SchemeInv, SchemeShape
      <4>7. QED BY <1>4, <4>3, <4>4, <4>5, <4>6 DEF PathsApart
    <3>4. QED BY <1>5, <3>1, <3>2, <3>3 DEF Displaces
  <2>3. QED BY <2>1, <2>2 DEF JobKept
<1>12. job' = [job EXCEPT ![c] = j]
  BY <1>1, <1>2 DEF JobGoes
<1>13. QED BY <1>2, <1>3, <1>5, <1>10, <1>11, <1>12, GoesOn

\* A note goes where no note was.
LEMMA GoesWhereNoneWas ==
  ASSUME SchemeShape, NEW n \in Members, NEW s \in Spots, spot' = [spot EXCEPT ![n] = s],
         AtPath([folder |-> s.folder, addr |-> s.addr, title |-> TitleOf[n]]) = {}
  PROVE  spot' \in [Members -> Spots \cup {Gone}] /\ PathsApart'
<1>1. PICK p : p = [folder |-> s.folder, addr |-> s.addr, title |-> TitleOf[n]]
  OBVIOUS
<1>2. \A m \in There : Path(m, spot) # p
  BY <1>1 DEF AtPath
<1>3. spot \in [Members -> Spots \cup {Gone}] /\ spot' \in [Members -> Spots \cup {Gone}] /\ PathsApart
  BY DEF SchemeShape
<1>4. spot'[n] = s /\ Path(n, spot') = p
  BY <1>1, <1>3 DEF Path
<1>5. \A m \in Members \ {n} : spot'[m] = spot[m] /\ Path(m, spot') = Path(m, spot)
  BY <1>3 DEF Path
<1>6. \A m \in There' : m # n => m \in There
  BY <1>5 DEF There
<1>7. ASSUME NEW m \in There', m # n PROVE Path(m, spot') # p
  <2>1. m \in There /\ m \in Members
    BY <1>6, <1>7 DEF There
  <2>2. QED BY <1>2, <1>5, <1>7, <2>1
<1>8. ASSUME NEW x \in There', NEW y \in There', Path(x, spot') = Path(y, spot') PROVE x = y
  <2>1. CASE x = n
    BY <1>4, <1>7, <1>8, <2>1
  <2>2. CASE y = n
    BY <1>4, <1>7, <1>8, <2>2
  <2>3. ASSUME x # n, y # n PROVE x = y
    <3>1. x \in There /\ y \in There /\ x \in Members /\ y \in Members
      BY <1>6, <2>3 DEF There
    <3>2. Path(x, spot) = Path(y, spot)
      BY <1>5, <1>8, <2>3, <3>1
    <3>3. QED BY <1>3, <3>1, <3>2 DEF PathsApart
  <2>4. QED BY <2>1, <2>2, <2>3
<1>9. PathsApart'
  BY <1>8 DEF PathsApart
<1>10. QED BY <1>3, <1>9

\* Others move or delete a note: no call goes on.
LEMMA OthersMove ==
  ASSUME SchemeInv, NEW n, NEW s, spot' = [spot EXCEPT ![n] = s], Roams(n),
         spot' \in [Members -> Spots \cup {Gone}], PathsApart', stirs' \subseteq stirs,
         UNCHANGED <<trip, visible, job, shared>>
  PROVE  SchemeInv'
<1>1. SchemeShape' /\ Jobs' = Jobs
  BY DEF SchemeInv, SchemeShape, Jobs
<1>2. ASSUME NEW c \in Jobs PROVE JobRight(trip.asks[c], job[c])' /\ JobKept(c, trip.asks[c], job[c])'
  <2>1. PICK j, q : j = job[c] /\ q = trip.asks[c]
    OBVIOUS
  <2>2. JobRight(q, j) /\ JobKept(c, q, j) /\ SchemeShape
    BY <2>1 DEF SchemeInv
  <2>3. j.at = "asked" => j.steps = <<>>
    BY <2>2 DEF JobRight
  <2>4. j.at = job[c].at
    BY <2>1
  <2>5. JobKept(c, q, j)'
    BY <2>2, <2>3, <2>4, StrayKept
  <2>6. j = job'[c] /\ q = trip'.asks[c]
    BY <2>1
  <2>7. QED BY <2>2, <2>5, <2>6
<1>3. \A b \in shared' : b[1] \in Jobs' /\ TwoBorne(trip.asks[b[1]], job[b[1]])'
  BY <1>1 DEF SchemeInv
<1>4. QED BY <1>1, <1>2, <1>3 DEF SchemeInv

LEMMA DeleteKeeps == ASSUME SchemeInv, NEW n \in Members, Delete(n) PROVE SchemeInv'
<1>1. /\ spot' = [spot EXCEPT ![n] = Gone] /\ Roams(n) /\ stirs' \subseteq stirs
      /\ UNCHANGED <<trip, visible, job, shared>>
  BY DEF Delete
<1>2. spot \in [Members -> Spots \cup {Gone}] /\ PathsApart
  BY DEF SchemeInv, SchemeShape
<1>3. spot' \in [Members -> Spots \cup {Gone}]
  BY <1>1, <1>2
<1>4. \A m \in There' : m \in There /\ spot'[m] = spot[m]
  BY <1>1, <1>2 DEF There
<1>5. \A m \in There' : m \in There /\ Path(m, spot') = Path(m, spot)
  BY <1>4 DEF Path
<1>6. PathsApart'
  BY <1>2, <1>5 DEF PathsApart
<1>7. QED BY <1>1, <1>3, <1>6, OthersMove

LEMMA RenamesKeeps ==
  ASSUME SchemeInv, NEW n, NEW s, Renames(n, s)
  PROVE  SchemeInv'
<1>1. PICK t : t = trip
  OBVIOUS
<1>2. t \in Trips /\ <<"rename", n, s>> \in t.coming
  BY <1>1 DEF SchemeInv, SchemeShape, Renames
<1>3. PICK e : e = <<"rename", n, s>>
  OBVIOUS
<1>4. e[1] = "rename" /\ e[2] = n /\ e[3] = s
  BY <1>3
<1>5. n \in Members /\ s \in Spots
  BY <1>2, <1>3, <1>4, SchemeAssumption
<1>6. /\ spot' = [spot EXCEPT ![n] = s] /\ Roams(n) /\ stirs' \subseteq stirs
      /\ UNCHANGED <<trip, visible, job, shared>>
      /\ AtPath([folder |-> s.folder, addr |-> s.addr, title |-> TitleOf[n]]) = {}
  BY DEF Renames
<1>7. spot' \in [Members -> Spots \cup {Gone}] /\ PathsApart'
  BY <1>5, <1>6, GoesWhereNoneWas DEF SchemeInv
<1>8. QED BY <1>6, <1>7, OthersMove

LEMMA HideFolderKeeps == ASSUME SchemeInv, NEW f, HideFolder(f) PROVE SchemeInv'
<1>1. /\ visible' \subseteq visible /\ stirs' \subseteq stirs
      /\ UNCHANGED <<trip, spot, job, roamed, shared>>
  BY DEF HideFolder
<1>2. /\ trip' = trip /\ spot' = spot /\ job' = job /\ roamed' = roamed /\ shared' = shared /\ Jobs' = Jobs
  BY <1>1 DEF Jobs
<1>3. SchemeShape'
  BY <1>1, <1>2 DEF SchemeInv, SchemeShape, PathsApart, There, Path
<1>4. ASSUME NEW c \in Jobs PROVE JobRight(trip.asks[c], job[c])' /\ JobKept(c, trip.asks[c], job[c])'
  BY <1>2 DEF SchemeInv, JobKept, Displaces
<1>5. QED BY <1>2, <1>3, <1>4 DEF SchemeInv

\* The note lands, and the call goes on to its next move or is well.
LEMMA LandNoteKeeps == ASSUME SchemeInv, NEW c \in Jobs, LandNote(c) PROVE SchemeInv'
<1>1. PICK q, l, n, to, last :
        /\ q = trip.asks[c] /\ l = job[c] /\ n = l.held /\ to = l.steps[l.landed + 1].to
        /\ last = (l.landed + 1 = Len(l.steps))
  OBVIOUS
<1>2. PICK j : j = [l EXCEPT !.landed = l.landed + 1, !.held = 0, !.at = IF last THEN "over" ELSE "moving",
                             !.answer = IF last THEN "ok" ELSE l.answer]
  OBVIOUS
<1>3. /\ l.at = "found" /\ AtPath(to) = {} /\ Roams(n)
      /\ spot' = [spot EXCEPT ![n] = [folder |-> to.folder, addr |-> to.addr]]
      /\ shared' = shared \cup
           {<<c, m>> : m \in {x \in DOMAIN l.seen \ {n} :
                                /\ <<c, x>> \notin roamed /\ l.seen[x].addr = to.addr
                                /\ l.steps[l.landed + 1].from.addr # to.addr}}
      /\ UNCHANGED <<trip, visible, stirs>>
  BY <1>1 DEF LandNote, NextStep
<1>4. job' = [job EXCEPT ![c] = j]
  <2>1. l \in JobRecs
    BY <1>1, CallIs
  <2>2. job' = [job EXCEPT ![c] = [l EXCEPT !.landed = @ + 1, !.held = 0, !.at = IF last THEN "over" ELSE "moving",
                                            !.answer = IF last THEN "ok" ELSE @]]
    BY <1>1 DEF LandNote, JobGoes
  <2>3. [l EXCEPT !.landed = @ + 1, !.held = 0, !.at = IF last THEN "over" ELSE "moving",
                  !.answer = IF last THEN "ok" ELSE @] = j
    BY <1>2, <2>1 DEF JobRecs
  <2>4. QED BY <2>2, <2>3
<1>5. l \in JobRecs /\ JobRight(q, l) /\ JobKept(c, q, l) /\ SchemeShape
  BY <1>1, CallIs DEF SchemeInv
<1>6. /\ l.landed \in 0..Len(l.steps) /\ l.landed < Len(l.steps) /\ ~q.dry /\ l.answer = "none"
      /\ l.steps # <<>> => PlanRight(q, l)
      /\ n \in Members /\ TitleOf[n] = to.title
  BY <1>1, <1>3, <1>5 DEF JobRight
<1>7. l.steps \in Seq(Legs) /\ l.steps # <<>> /\ Len(l.steps) \in Nat /\ l.landed + 1 \in 1..Len(l.steps)
  BY <1>5, <1>6 DEF JobRecs
<1>8. to \in SpotPaths
  <2>1. l.steps[l.landed + 1] \in Legs
    BY <1>7
  <2>2. QED BY <1>1, <2>1 DEF Legs
<1>9. /\ j \in JobRecs /\ j.landed = l.landed + 1 /\ j.steps = l.steps /\ j.seen = l.seen /\ j.saw = l.saw
      /\ j.by = l.by /\ j.at = (IF last THEN "over" ELSE "moving")
      /\ j.answer = (IF last THEN "ok" ELSE "none")
  <2>1. l.landed + 1 \in Nat /\ 0 \in Nat
    BY <1>7
  <2>2. QED BY <1>2, <1>5, <1>6, <2>1 DEF JobRecs
<1>10. PlanRight(q, l) /\ PlanRight(q, j)
  BY <1>6, <1>7, <1>9, PlanStays
<1>11. spot' \in [Members -> Spots \cup {Gone}] /\ PathsApart'
  <2>1. PICK s : s = [folder |-> to.folder, addr |-> to.addr]
    OBVIOUS
  <2>2. s \in Spots /\ s.folder = to.folder /\ s.addr = to.addr
    BY <1>8, <2>1 DEF SpotPaths, Spots
  <2>3. to = [folder |-> s.folder, addr |-> s.addr, title |-> TitleOf[n]]
    BY <1>6, <1>8, <2>2 DEF SpotPaths
  <2>4. QED BY <1>3, <1>5, <1>6, <2>1, <2>2, <2>3, GoesWhereNoneWas
<1>12. Jobs' = Jobs /\ trip' = trip /\ job \in [Jobs -> JobRecs] /\ job' \in [Jobs -> JobRecs]
  BY <1>3, <1>4, <1>5, <1>9 DEF SchemeShape, Jobs
<1>13. SchemeShape'
  BY <1>3, <1>5, <1>11, <1>12 DEF SchemeShape
<1>14. JobRight(q, j)
  <2>1. j.landed \in 0..Len(j.steps) /\ (j.at = "moving" => j.landed < Len(j.steps))
    <3>1. l.landed + 1 \in 0..Len(l.steps)
      BY <1>7
    <3>2. ~last => l.landed + 1 < Len(l.steps)
      <4>1. ~last => l.landed + 1 # Len(l.steps)
        BY <1>1
      <4>2. PICK x, y : x = l.landed + 1 /\ y = Len(l.steps)
        OBVIOUS
      <4>3. y \in Nat /\ x \in 1..y
        BY <1>7, <4>2
      <4>4. x # y => x < y
        BY <4>3
      <4>5. QED BY <4>1, <4>2, <4>4
    <3>3. j.landed = l.landed + 1 /\ j.steps = l.steps /\ (j.at = "moving" => ~last)
      BY <1>9
    <3>4. QED BY <3>1, <3>2, <3>3
  <2>2. /\ j.at \in {"over", "moving"} /\ j.answer \in {"ok", "none"}
        /\ j.at = "moving" => j.answer = "none"
    BY <1>9
  <2>3. QED BY <1>6, <1>10, <2>1, <2>2 DEF JobRight
<1>15. JobKept(c, q, l)'
  <2>1. l.at = job[c].at /\ l.at # "asked"
    BY <1>1, <1>3
  <2>2. QED BY <1>3, <1>5, <2>1, StrayKept
<1>16. <<c, n>> \in roamed' /\ roamed \subseteq roamed'
  BY <1>1, <1>3 DEF Roams
<1>17. JobKept(c, q, j)'
  <2>1. \A m \in DOMAIN j.seen : <<c, m>> \in roamed' \/ spot'[m] = j.seen[m]
    BY <1>3, <1>9, <1>15 DEF JobKept
  <2>2. ASSUME Len(j.steps) = 2 PROVE Displaces(c, q, j)'
    <3>1. PICK o \in Members :
            /\ Bearer(o, l.steps[1].from, q, l)
            /\ l.landed > 0 => <<c, o>> \in roamed
            /\ l.landed = 0 => n = o \/ <<c, o>> \in roamed
      BY <1>1, <1>3, <1>5, <1>9, <2>2 DEF JobKept, Displaces
    <3>2. <<c, o>> \in roamed'
      <4>1. l.landed = 0 \/ l.landed > 0
        BY <1>6
      <4>2. QED BY <1>16, <3>1, <4>1
    <3>3. Bearer(o, j.steps[1].from, q, j)
      BY <1>9, <3>1 DEF Bearer
    <3>4. j.at # "found"
      BY <1>9
    <3>5. QED BY <3>2, <3>3, <3>4 DEF Displaces
  <2>3. QED BY <2>1, <2>2 DEF JobKept
<1>18. ASSUME NEW d \in Jobs
       PROVE  JobRight(trip.asks[d], job[d])' /\ JobKept(d, trip.asks[d], job[d])'
  <2>1. CASE d = c
    BY <1>1, <1>12, <1>14, <1>17, <1>4, <2>1
  <2>2. ASSUME d # c PROVE JobRight(trip.asks[d], job[d])' /\ JobKept(d, trip.asks[d], job[d])'
    <3>1. PICK k, r : k = job[d] /\ r = trip.asks[d]
      OBVIOUS
    <3>2. JobRight(r, k) /\ JobKept(d, r, k) /\ k.at = job[d].at
      BY <3>1 DEF SchemeInv
    <3>3. k.at = "asked" => k.steps = <<>>
      BY <3>2 DEF JobRight
    <3>4. JobKept(d, r, k)'
      BY <1>3, <1>5, <3>2, <3>3, StrayKept
    <3>5. k = job'[d] /\ r = trip'.asks[d]
      BY <1>4, <1>12, <2>2, <3>1
    <3>6. QED BY <3>2, <3>4, <3>5
  <2>3. QED BY <2>1, <2>2
<1>19. ASSUME NEW m \in DOMAIN l.seen \ {n}, <<c, m>> \notin roamed, l.seen[m].addr = to.addr,
              l.steps[l.landed + 1].from.addr # to.addr
       PROVE  TwoBorne(q, j)
  <2>1. ~Unborne(to.addr, l)
    BY <1>19 DEF Unborne
  <2>2. Len(l.steps) = 2 /\ l.landed + 1 = 2
    <3>1. Len(l.steps) \in 1..2
      BY <1>10 DEF PlanRight
    <3>2. l.landed + 1 # 1
      <4>1. SUFFICES ASSUME l.landed + 1 = 1 PROVE FALSE
        OBVIOUS
      <4>2. to = l.steps[1].to /\ l.steps[1].from.addr # to.addr
        BY <1>1, <1>19, <4>1
      <4>3. CASE Len(l.steps) = 1
        BY <1>10, <2>1, <4>2, <4>3 DEF PlanRight
      <4>4. CASE Len(l.steps) = 2
        BY <1>10, <2>1, <4>2, <4>4 DEF PlanRight
      <4>5. QED BY <3>1, <4>3, <4>4
    <3>3. PICK x, y : x = l.landed + 1 /\ y = Len(l.steps)
      OBVIOUS
    <3>4. y \in 1..2 /\ x \in 1..y /\ x # 1
      BY <1>7, <3>1, <3>2, <3>3
    <3>5. x = 2 /\ y = 2
      BY <3>4
    <3>6. QED BY <3>3, <3>5
  <2>3. q.tool = "renumber" /\ to.addr = q.addr
    BY <1>1, <1>10, <2>2 DEF PlanRight
  <2>4. PICK o \in Members : Bearer(o, l.steps[1].from, q, l) /\ (l.landed > 0 => <<c, o>> \in roamed)
    BY <1>5, <2>2 DEF JobKept, Displaces
  <2>5. <<c, o>> \in roamed
    BY <1>6, <2>2, <2>4
  <2>6. o # m /\ o \in DOMAIN j.seen /\ m \in DOMAIN j.seen /\ j.seen[o].addr = q.addr /\ j.seen[m].addr = q.addr
    BY <1>9, <1>19, <2>3, <2>4, <2>5 DEF Bearer
  <2>7. j.at # "asked"
    BY <1>9
  <2>8. QED BY <2>3, <2>6, <2>7 DEF TwoBorne
<1>20. ASSUME NEW b \in shared' PROVE b[1] \in Jobs' /\ TwoBorne(trip.asks[b[1]], job[b[1]])'
  <2>1. CASE b \in shared
    <3>1. PICK d : d = b[1] /\ d \in Jobs /\ TwoBorne(trip.asks[d], job[d])
      BY <2>1 DEF SchemeInv
    <3>2. PICK k, r : k = job'[d] /\ r = trip.asks[d]
      OBVIOUS
    <3>3. k.seen = job[d].seen /\ k.at # "asked"
      <4>1. CASE d = c
        BY <1>1, <1>4, <1>9, <1>12, <3>2, <4>1
      <4>2. CASE d # c
        BY <1>4, <1>12, <3>1, <3>2, <4>2 DEF TwoBorne
      <4>3. QED BY <4>1, <4>2
    <3>4. TwoBorne(r, k)
      BY <3>1, <3>2, <3>3 DEF TwoBorne
    <3>5. QED BY <1>12, <3>1, <3>2, <3>4
  <2>2. ASSUME b \notin shared PROVE b[1] \in Jobs' /\ TwoBorne(trip.asks[b[1]], job[b[1]])'
    <3>1. PICK m \in DOMAIN l.seen \ {n} :
            /\ b = <<c, m>> /\ <<c, m>> \notin roamed /\ l.seen[m].addr = to.addr
            /\ l.steps[l.landed + 1].from.addr # to.addr
      BY <1>3, <1>20, <2>2
    <3>2. TwoBorne(q, j) /\ b[1] = c
      BY <1>19, <3>1
    <3>3. j = job'[c] /\ q = trip'.asks[c]
      BY <1>1, <1>4, <1>12
    <3>4. QED BY <1>12, <3>2, <3>3
  <2>3. QED BY <2>1, <2>2
<1>21. QED BY <1>13, <1>18, <1>20, <1>12 DEF SchemeInv

LEMMA SchemeInvNext == ASSUME SchemeInv, SchemeNext PROVE SchemeInv'
<1>1. ASSUME NEW c \in Jobs, NEW i \in Instances, PlanCall(c, i) PROVE SchemeInv'
  BY <1>1, PlanCallKeeps
<1>2. ASSUME NEW c \in Jobs, \/ NoInstance(c) \/ CheckNames(c) \/ FindNote(c) \/ LandNote(c)
                             \/ StepFails(c) \/ Expire(c)
      PROVE  SchemeInv'
  BY <1>2, NoInstanceKeeps, CheckNamesKeeps, FindNoteKeeps, LandNoteKeeps, StepFailsKeeps, ExpireKeeps
<1>3. ASSUME NEW n, NEW s, Renames(n, s) PROVE SchemeInv'
  BY <1>3, RenamesKeeps
<1>4. ASSUME NEW n \in Members, Delete(n) PROVE SchemeInv'
  BY <1>4, DeleteKeeps
<1>5. ASSUME NEW f \in Folders, HideFolder(f) PROVE SchemeInv'
  BY <1>5, HideFolderKeeps
<1>6. QED BY <1>1, <1>2, <1>3, <1>4, <1>5 DEF SchemeNext

\* The property follows from the invariant.
LEMMA SchemeInvSafe == ASSUME SchemeInv PROVE SchemeSafe
<1>1. ASSUME NEW c \in Jobs
      PROVE  /\ job[c].at \in {"asked", "planned", "moving", "found", "over"}
             /\ job[c].landed \in 0..Len(job[c].steps)
             /\ job[c].answer \in {"refused", "error"} \/ trip.asks[c].dry => job[c].landed = 0
             /\ job[c].answer = "inconsistent" => job[c].landed \in 1..Len(job[c].steps) - 1
  <2>1. job[c] \in JobRecs /\ JobRight(trip.asks[c], job[c])
    BY CallIs
  <2>2. QED BY <2>1 DEF JobRecs, JobRight
<1>2. SchemeTypeOK
  BY <1>1 DEF SchemeInv, SchemeShape, SchemeTypeOK, Spots
<1>3. ToldWhatMoved
  BY <1>1 DEF ToldWhatMoved
<1>4. LandsFree
  BY DEF SchemeInv, TwoBorne, LandsFree
<1>5. TerritoryKept
  <2>1. SUFFICES ASSUME NEW c \in Jobs, NEW n \in 1..job[c].landed
                 PROVE  {job[c].steps[n].from.folder, job[c].steps[n].to.folder}
                           \subseteq job[c].saw \ ExcludedOf[job[c].by]
    BY DEF TerritoryKept
  <2>2. PICK j, q : j = job[c] /\ q = trip.asks[c]
    OBVIOUS
  <2>3. j \in JobRecs /\ JobRight(q, j)
    BY <2>2, CallIs
  <2>4. j.landed \in 0..Len(j.steps) /\ Len(j.steps) \in Nat
    BY <2>3 DEF JobRight, JobRecs
  <2>5. n \in 1..Len(j.steps) /\ j.steps # <<>>
    BY <2>1, <2>2, <2>4
  <2>6. PlanRight(q, j)
    BY <2>3, <2>5 DEF JobRight
  <2>7. QED BY <2>2, <2>5, <2>6 DEF PlanRight
<1>6. NothingTwice
  <2>0. SUFFICES ASSUME NEW c \in Jobs
                 PROVE  /\ trip.asks[c].tool = "renumber" /\ job[c].landed > 0 =>
                             \A n \in DOMAIN job[c].seen :
                               job[c].seen[n].addr = trip.asks[c].addr
                                 /\ Path(n, job[c].seen) = trip.asks[c].path =>
                                 \E m \in DOMAIN job[c].seen \ {n} : job[c].seen[m].addr = trip.asks[c].addr
                        /\ trip.asks[c].tool = "assign" /\ trip.asks[c].cat \in Expanded
                             /\ job[c].steps # <<>> =>
                             \A n \in DOMAIN job[c].seen :
                               job[c].seen[n].addr # NoAddress /\ job[c].seen[n].addr.cat = trip.asks[c].cat =>
                                 job[c].steps[1].to.addr.num > job[c].seen[n].addr.num
    BY DEF NothingTwice
  <2>1. PICK j, q : j = job[c] /\ q = trip.asks[c]
    OBVIOUS
  <2>2. j \in JobRecs /\ JobRight(q, j)
    BY <2>1, CallIs
  <2>3. j.steps # <<>> => PlanRight(q, j)
    BY <2>2 DEF JobRight
  <2>4. ASSUME q.tool = "renumber", j.landed > 0, NEW n \in DOMAIN j.seen, j.seen[n].addr = q.addr,
               Path(n, j.seen) = q.path
        PROVE  \E m \in DOMAIN j.seen \ {n} : j.seen[m].addr = q.addr
    <3>1. j.landed \in 0..Len(j.steps) /\ Len(j.steps) \in Nat
      BY <2>2 DEF JobRight, JobRecs
    <3>2. j.steps # <<>>
      BY <2>4, <3>1
    <3>3. Len(j.steps) \in 1..2
      BY <2>3, <3>2 DEF PlanRight
    <3>4. Len(j.steps) # 1
      <4>1. ~Unborne(q.addr, j)
        BY <2>4 DEF Unborne
      <4>2. q.tool # "refile"
        BY <2>4
      <4>3. QED BY <2>3, <2>4, <3>2, <4>1, <4>2 DEF PlanRight
    <3>5. PICK o \in Members : Bearer(o, j.steps[1].from, q, j) /\ j.steps[1].from # q.path
      BY <2>3, <3>2, <3>3, <3>4 DEF PlanRight
    <3>6. QED BY <2>4, <3>5 DEF Bearer
  <2>5. q.tool = "assign" /\ q.cat \in Expanded /\ j.steps # <<>> =>
          \A n \in DOMAIN j.seen :
            j.seen[n].addr # NoAddress /\ j.seen[n].addr.cat = q.cat =>
              j.steps[1].to.addr.num > j.seen[n].addr.num
    BY <2>3 DEF PlanRight
  <2>6. \A n \in DOMAIN j.seen :
          q.tool = "renumber" /\ j.landed > 0 /\ j.seen[n].addr = q.addr /\ Path(n, j.seen) = q.path =>
            \E m \in DOMAIN j.seen \ {n} : j.seen[m].addr = q.addr
    BY <2>4
  <2>7. QED BY <2>1, <2>5, <2>6
<1>7. QED BY <1>2, <1>3, <1>4, <1>5, <1>6 DEF SchemeSafe

\* The tools of the numbering scheme, whatever the scheme, the notes, the calls and what
\* others do meanwhile: no note lands at an address that another the plan saw has held
\* since, but where two bore it; nothing moves through hidden or foreign folders; a call
\* that failed or was refused says what it moved; and a repeated renumber moves nothing.
THEOREM SchemeIsSafe == SchemeSpec => []SchemeSafe
<1>1. SchemeInv /\ [SchemeNext]_schvars => SchemeInv'
  <2>1. SUFFICES ASSUME SchemeInv, UNCHANGED schvars PROVE SchemeInv'
    BY SchemeInvNext
  <2>2. UNCHANGED <<trip, spot, visible, job, stirs, roamed, shared>>
    BY <2>1 DEF schvars
  <2>3. SchemeShape' /\ Jobs' = Jobs
    BY <2>1, <2>2 DEF SchemeInv, SchemeShape, PathsApart, There, Path, Jobs
  <2>4. ASSUME NEW c \in Jobs PROVE JobRight(trip.asks[c], job[c])' /\ JobKept(c, trip.asks[c], job[c])'
    BY <2>1, <2>2 DEF SchemeInv, JobKept, Displaces
  <2>5. \A b \in shared' : b[1] \in Jobs' /\ TwoBorne(trip.asks[b[1]], job[b[1]])'
    BY <2>1, <2>2, <2>3 DEF SchemeInv
  <2>6. QED BY <2>3, <2>4, <2>5 DEF SchemeInv
<1>2. QED BY <1>1, SchemeInvInit, SchemeInvSafe, PTL DEF SchemeSpec

=============================================================================
