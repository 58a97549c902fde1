---------------------------- MODULE FsWriteKernel ----------------------------
(***************************************************************************)
(* Writes by the file server while Obsidian is closed: the queue and the   *)
(* journal of packages/server/src/fs-write-kernel.ts, through which        *)
(* fs-mode.ts sends every write, and the writes of one note                *)
(* (packages/core/src/fs-backend/vault.ts) with their record guard.  The   *)
(* note's file is everyone's: Obsidian, a sync client or a person may      *)
(* change it between any two awaits.                                       *)
(***************************************************************************)
EXTENDS Naturals, Sequences, FiniteSets, SequencesExt, RecordGuard

CONSTANTS
  FsCalls,       \* calls of the write tools, numbered as they come
  Fms,           \* the frontmatters that are written
  Fields,        \* the fields that are set: <<key, value>>
  MaxChanges     \* bound: how often the file is changed by others

ASSUME FsAssumption ==
  /\ Fms \subseteq Frontmatter /\ MaxChanges \in Nat /\ FsCalls \subseteq Nat \ (0..MaxChanges)
  /\ \A f \in Fields, fm \in Frontmatter : [fm EXCEPT ![f[1]] = f[2]] \in Frontmatter

Kinds == {"create", "replace", "append", "patch", "setfield", "delete"}
Absent == [there |-> FALSE, marks |-> {}, fm |-> Unmarked]

VARIABLES
  fsNote,      \* the file: there or not, whose text is in it, its frontmatter
  asked,       \* asked[c]: {} or {what call c asks for}
  line,        \* FsWriteQueue: calls that wait
  run,         \* the call that runs: {} or {its record}
  journal,     \* the records on disk, a call each
  fsTold,      \* fsTold[c]: "none", "ok" or "error"
  unrecorded,  \* history: calls whose record could not be written
  changes

fsvars == <<fsNote, asked, line, run, journal, fsTold, unrecorded, changes>>

FsWriteInit ==
  /\ fsNote \in {Absent} \cup {[there |-> TRUE, marks |-> {0}, fm |-> f] : f \in Fms}
  /\ asked = [c \in FsCalls |-> {}] /\ line = <<>> /\ run = {}
  /\ journal = <<>> /\ fsTold = [c \in FsCalls |-> "none"]
  /\ unrecorded = {} /\ changes = 0

-----------------------------------------------------------------------------
\* The frontmatter the call would leave, over the note that it read.
Result(q, seen) ==
  CASE q.op \in {"create", "replace"} -> q.fm
    [] q.op = "append" -> IF seen.there THEN seen.fm ELSE q.fm
    [] q.op = "patch"  -> IF seen.fm = Unmarked THEN q.fm ELSE seen.fm
    [] q.op = "setfield" -> [seen.fm EXCEPT ![q.field[1]] = q.field[2]]
    [] OTHER -> Unmarked

\* mutate: the call is queued (a refused path or a cut read never is).
FsSubmit(c, q) ==
  /\ asked[c] = {} /\ \A b \in FsCalls : b < c => asked[b] # {}
  /\ asked' = [asked EXCEPT ![c] = {q}]
  /\ line' = Append(line, c)
  /\ UNCHANGED <<fsNote, run, journal, fsTold, unrecorded, changes>>

\* Mutant of FsDequeue: a call does not wait for the one that runs.
FsDequeueAtOnce ==
  /\ line # <<>>
  /\ run' = run \cup {[call |-> Head(line), at |-> "begun", seen |-> Absent,
                       held |-> Unmarked, outcome |-> "none"]}
  /\ line' = Tail(line)
  /\ UNCHANGED <<fsNote, asked, journal, fsTold, unrecorded, changes>>

\* FsWriteQueue.run: the tail has settled, well or badly.
FsDequeue ==
  /\ run = {} /\ line # <<>>
  /\ run' = {[call |-> Head(line), at |-> "begun", seen |-> Absent,
              held |-> Unmarked, outcome |-> "none"]}
  /\ line' = Tail(line)
  /\ UNCHANGED <<fsNote, asked, journal, fsTold, unrecorded, changes>>

\* The running call r goes on as s.
Goes(r, s) == run' = (run \ {r}) \cup {s}
Fails(r)   == Goes(r, [r EXCEPT !.at = "settled", !.outcome = "error"])
Idle       == UNCHANGED <<asked, line, journal, fsTold, unrecorded, changes>>

\* access or readFile: what is there now.  A patch may find no anchor to patch at.
Look(r, q) ==
  /\ r.at = (IF q.op \in {"create", "replace"} THEN "guarded" ELSE "begun")
  /\ q.op # "delete"
  /\ IF \/ q.op = "create" /\ fsNote.there
        \/ q.op \in {"patch", "setfield"} /\ ~fsNote.there
        \/ q.op = "setfield" /\ ~MaySet(fsNote.fm, Result(q, fsNote))
     THEN Fails(r)
     ELSE CASE q.op = "setfield" -> Goes(r, [r EXCEPT !.at = "cleared", !.seen = fsNote, !.held = fsNote.fm])
            [] q.op \in {"create", "replace"} -> Goes(r, [r EXCEPT !.at = "cleared", !.seen = fsNote])
            [] OTHER -> \/ Goes(r, [r EXCEPT !.at = "looked", !.seen = fsNote])
                        \/ /\ q.op = "patch"
                           /\ Goes(r, [r EXCEPT !.at = "settled", !.outcome = "ok"])
  /\ UNCHANGED fsNote /\ Idle

\* Mutant of Guard: the note that was read is trusted to be the one on disk.
GuardBySeen(r, q) ==
  /\ \/ r.at = "begun" /\ q.op \in {"create", "replace"}
     \/ r.at = "looked"
  /\ IF MayWrite(r.seen.fm, Result(q, r.seen))
     THEN Goes(r, [r EXCEPT !.at = IF @ = "begun" THEN "guarded" ELSE "cleared", !.held = fsNote.fm])
     ELSE Fails(r)
  /\ UNCHANGED fsNote /\ Idle

\* guardWrittenContent reads the file for itself, before or after the look.
Guard(r, q) ==
  /\ \/ r.at = "begun" /\ q.op \in {"create", "replace"}
     \/ r.at = "looked"
  /\ IF MayWrite(fsNote.fm, Result(q, r.seen))
     THEN Goes(r, [r EXCEPT !.at = IF @ = "begun" THEN "guarded" ELSE "cleared", !.held = fsNote.fm])
     ELSE Fails(r)
  /\ UNCHANGED fsNote /\ Idle

\* writeFile replaces the text by that which was read and changed; appendFile adds to
\* the text there is, after a line break if the look found a note.
Written(r, q) ==
  CASE q.op \in {"create", "replace"} -> [there |-> TRUE, marks |-> {r.call}, fm |-> q.fm]
    [] q.op = "append" ->
         [there |-> TRUE, marks |-> fsNote.marks \cup {r.call},
          fm |-> IF fsNote.there THEN fsNote.fm ELSE IF r.seen.there THEN Unmarked ELSE q.fm]
    [] q.op = "patch" -> [there |-> TRUE, marks |-> r.seen.marks \cup {r.call},
                          fm |-> Result(q, r.seen)]
    [] OTHER -> [there |-> TRUE, marks |-> r.seen.marks, fm |-> Result(q, r.seen)]

Write(r, q) ==
  /\ r.at = "cleared"
  /\ fsNote' = Written(r, q)
  /\ Goes(r, [r EXCEPT !.at = "settled", !.outcome = "ok"])
  /\ Idle

\* writeFile fails: before it opened the file, or after it emptied it.
WriteFails(r, q) ==
  /\ r.at = "cleared"
  /\ \/ UNCHANGED fsNote
     \/ q.op # "append" /\ fsNote' = [there |-> TRUE, marks |-> {}, fm |-> Unmarked]
  /\ Fails(r) /\ Idle

\* deleteNote
Unlink(r, q) ==
  /\ r.at = "begun" /\ q.op = "delete"
  /\ fsNote' = Absent
  /\ IF fsNote.there THEN Goes(r, [r EXCEPT !.at = "settled", !.outcome = "ok"]) ELSE Fails(r)
  /\ Idle

\* Mutant of FsSettle: the record of a call that failed is not written.
FsSettleOk(r, q) ==
  /\ r.at = "settled"
  /\ \/ /\ journal' = IF r.outcome = "ok" THEN Append(journal, r.call) ELSE journal
        /\ UNCHANGED unrecorded
     \/ unrecorded' = unrecorded \cup {r.call} /\ UNCHANGED journal
  /\ fsTold' = [fsTold EXCEPT ![r.call] = r.outcome]
  /\ run' = run \ {r}
  /\ UNCHANGED <<fsNote, asked, line, changes>>

\* Mutant of FsSettle: a record that cannot be written leaves the call in its slot.
FsSettleStuck(r, q) ==
  /\ r.at = "settled"
  /\ \/ /\ journal' = Append(journal, r.call)
        /\ fsTold' = [fsTold EXCEPT ![r.call] = r.outcome]
        /\ run' = run \ {r}
     \/ /\ run' = {[r EXCEPT !.at = "stuck"]}
        /\ UNCHANGED <<journal, fsTold>>
  /\ UNCHANGED <<fsNote, asked, line, unrecorded, changes>>

\* runMutation's finally: the record is written, or not, and then the caller is told.
FsSettle(r, q) ==
  /\ r.at = "settled"
  /\ \/ journal' = Append(journal, r.call) /\ UNCHANGED unrecorded
     \/ unrecorded' = unrecorded \cup {r.call} /\ UNCHANGED journal
  /\ fsTold' = [fsTold EXCEPT ![r.call] = r.outcome]
  /\ run' = run \ {r}
  /\ UNCHANGED <<fsNote, asked, line, changes>>

\* Another writer: text is added or the note replaced, its record edited, or it goes.
Changes(n) ==
  /\ changes < MaxChanges /\ n # fsNote
  /\ fsNote' = n /\ changes' = changes + 1
  /\ UNCHANGED <<asked, line, run, journal, fsTold, unrecorded>>

Others ==
  {Absent} \cup [there : {TRUE}, fm : Fms,
                 marks : {fsNote.marks \cup {changes + 1}, {changes + 1}}]

Asks == [op : {"create", "replace", "append", "patch"}, fm : Fms, field : {<<"none", "none">>}]
          \cup [op : {"setfield"}, fm : {Unmarked}, field : Fields]
          \cup [op : {"delete"}, fm : {Unmarked}, field : {<<"none", "none">>}]

Runs(c) ==
  \E r \in run, q \in asked[c] :
    r.call = c /\ (Look(r, q) \/ Guard(r, q) \/ Write(r, q) \/ WriteFails(r, q)
                   \/ Unlink(r, q) \/ FsSettle(r, q))

FsWriteNext ==
  \/ \E c \in FsCalls, q \in Asks : FsSubmit(c, q)
  \/ FsDequeue
  \/ \E c \in FsCalls : Runs(c)
  \/ \E n \in Others : Changes(n)

FsWriteSpec == FsWriteInit /\ [][FsWriteNext]_fsvars

-----------------------------------------------------------------------------
\* Every variable has its type; a call waits, runs or was told, and is one of these.
FsTypeOK ==
  /\ fsNote \in [there : BOOLEAN, marks : SUBSET (FsCalls \cup 0..MaxChanges), fm : Frontmatter]
  /\ \A c \in FsCalls : Cardinality(asked[c]) <= 1
  /\ Cardinality(run) <= 1
  /\ fsTold \in [FsCalls -> {"none", "ok", "error"}]
  /\ changes \in 0..MaxChanges
  /\ \A c \in FsCalls :
       Cardinality({r \in run : r.call = c}) + (IF c \in ToSet(line) THEN 1 ELSE 0)
         + (IF fsTold[c] # "none" THEN 1 ELSE 0) = Cardinality(asked[c])

\* The calls that were told are the first that were queued, and the journal has their
\* records in that order, one each, but for those whose write failed (fs-write-kernel.ts
\* "journal exactly one record for it", "record order is operation order"); calls are
\* numbered in the order they were queued.
FsRecordsInOrder ==
  /\ \A b, c \in FsCalls : b < c /\ fsTold[c] # "none" => fsTold[b] # "none"
  /\ ToSet(journal) = {c \in FsCalls : fsTold[c] # "none"} \ unrecorded
  /\ \A i, j \in DOMAIN journal : i < j => journal[i] < journal[j]

\* A step of a call loses no text that it did not mean to: a replace, a delete and a
\* write that failed may, and what others wrote after the call read the note is
\* overwritten; text of another call of this server never is, for they run in turn.
OnlyRacedTextLost ==
  [][\A r \in run, s \in run' : \A q \in asked[r.call] :
       (s.call = r.call /\ r.outcome = "none" /\ s.outcome = "ok" /\ q.op \notin {"replace", "delete"}) =>
         /\ fsNote.marks \ fsNote'.marks \subseteq fsNote.marks \ r.seen.marks
         /\ (fsNote.marks \ fsNote'.marks) \cap FsCalls = {}]_fsvars

\* A call grants nothing: no write gives a note an acceptance, a verification or a
\* declared property, or takes a verification or declared property from it, if its
\* record is the one the guard read (01.41 The accept perimeter; vault.ts).
GrantsNothing ==
  [][\A r \in run, s \in run' : \A q \in asked[r.call] :
       (s.call = r.call /\ r.outcome = "none" /\ s.outcome = "ok" /\ q.op # "delete" /\ fsNote.fm = r.held) =>
         /\ Granted(fsNote'.fm) \subseteq Granted(fsNote.fm)
         /\ Kept(fsNote.fm) \subseteq Granted(fsNote'.fm) \/ ~fsNote.there]_fsvars

\* What every write keeps: the text it did not race, and the human record.
FilesKept == OnlyRacedTextLost /\ GrantsNothing

\* While a call that was queued was not told, the kernel has a step to take, whatever
\* failed: neither a failed call nor a journal that cannot be written wedges the queue
\* (fs-write-kernel.ts, FsWriteQueue.run's tail).
FsNeverWedged ==
  (\E c \in FsCalls : asked[c] # {} /\ fsTold[c] = "none")
    => ENABLED (FsDequeue \/ \E c \in FsCalls : Runs(c))

\* What the kernel holds: calls in order, and a record each.
FsKernelSafe == FsTypeOK /\ FsRecordsInOrder

=============================================================================
