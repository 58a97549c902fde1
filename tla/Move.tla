--------------------------------- MODULE Move ---------------------------------
(***************************************************************************)
(* A note moves and the links to it are rewritten, by either road: inside  *)
(* Obsidian (packages/host/src/mcp/move-with-links.ts, under moveNote of   *)
(* obsidian-backend.ts), or over the files (moveNote and rewriteBacklinks  *)
(* of packages/core/src/fs-backend/vault.ts).  Both await between one note *)
(* and the next, while anyone edits, marks, deletes or creates notes.      *)
(***************************************************************************)
EXTENDS Naturals, FiniteSets

CONSTANTS
  Linkers,   \* the notes that may link the one that moves
  Moved,     \* that one: its own relative links break with its folder
  Outings    \* scenarios: the road, the move asked for, the notes' text, what comes

MoveNotes == Linkers \cup {Moved}

LinkForms == {"path", "rel", "name"}
LinkText  == [here : BOOLEAN, old : SUBSET LinkForms, new : SUBSET LinkForms, mark : BOOLEAN, word : BOOLEAN]

\* The note that moves is there, no link is rewritten yet, and others edit the notes at hand.
ASSUME MoveAssumption ==
  /\ Moved \notin Linkers
  /\ \A o \in Outings :
       /\ o.road \in {"obsidian", "files"} /\ o.dest \in {"free", "held"}
       /\ o.body \in [MoveNotes -> LinkText] /\ o.body[Moved].here
       /\ \A n \in MoveNotes : o.body[n].new = {}
       /\ \A e \in o.coming : \/ e[1] \in {"link", "unlink", "mark", "word", "delete"} /\ e[2] \in MoveNotes
                             \/ e[1] \in {"take", "retake", "reindex"}

VARIABLES
  outing,     \* the scenario
  body,       \* body[n]: the text: links as they were and rewritten, record mark, words
  moved,      \* the file is at its new path
  squatter,   \* another's note stands at the old path
  dest,       \* at the new path: "free", "held", or what was there is "trashed" or "replaced"
  mstep,      \* "asked", "find", "rename", "rewrite", "write", "check", "done"
  ahead,      \* the notes still to be found, rewritten or checked
  planned,    \* planned[n]: the text the plan was made from
  plans,      \* the notes that have one
  records,    \* records[n]: likewise, of the notes to be left as written
  inHand,     \* what rewriteBacklinks has read and not written yet: {} or {<<n, text>>}
  report,     \* the LinkCheck's lists: failed, damaged, indexOnly, left
  verdict,    \* "none", "ok", "damage", "failed"
  arriving,   \* what others will yet do
  since,      \* history: notes whose links others changed after the mover last looked
  raced,      \* history: changed between the read and the write of rewriteBacklinks
  scarred,    \* history: records rewritten
  reindexed,  \* the file server's index knows the note at its new path only
  takenLate   \* history: the new path was taken after the mover had looked

mvvars == <<outing, body, moved, squatter, dest, mstep, ahead, planned, plans, records, inHand,
            report, verdict, arriving, since, raced, scarred, reindexed, takenLate>>
made    == <<planned, plans, records, report>>
others  == <<arriving, since, raced, reindexed, takenLate>>

NoReport == [failed |-> {}, damaged |-> {}, indexOnly |-> {}, left |-> {}]

MoveInit ==
  /\ outing \in Outings
  /\ body = outing.body /\ dest = outing.dest /\ arriving = outing.coming
  /\ moved = FALSE /\ squatter = FALSE /\ mstep = "asked" /\ ahead = {}
  /\ planned = outing.body /\ plans = {} /\ records = {} /\ inHand = {}
  /\ report = NoReport /\ verdict = "none"
  /\ since = {} /\ raced = {} /\ scarred = {} /\ reindexed = FALSE /\ takenLate = FALSE

-----------------------------------------------------------------------------
\* Which links of a text reach their target, whatever form they were written in: a
\* full path or a relative one only at the old path, a bare name if the move keeps it.
Reaches(f)   == \/ ~moved
                \/ f = "name" /\ ~outing.renames /\ ~squatter
Reaching(t)  == {f \in t.old : Reaches(f)} \cup IF moved THEN t.new ELSE {}
Dangling(t)  == {f \in t.old : ~Reaches(f) /\ (f = "rel" \/ ~squatter)}
Rewritten(t, fs) == [t EXCEPT !.old = @ \ fs, !.new = @ \cup fs]
Shows(n)     == body[n].here /\ body[n].old # {}

Concludes(v) == verdict' = v /\ mstep' = "done"

\* Mutant of BeginMove: a note at the new path is not looked for.
BeginMoveBlind ==
  /\ mstep = "asked"
  /\ dest' = IF dest = "held" /\ outing.road = "obsidian" THEN "trashed" ELSE dest
  /\ IF outing.road = "files" THEN mstep' = "rename" /\ UNCHANGED <<ahead, plans, records>>
     ELSE /\ mstep' = "find" /\ ahead' = {n \in Linkers : body[n].here}
          /\ plans' = {Moved} /\ UNCHANGED records
  /\ UNCHANGED <<outing, body, moved, squatter, planned, inHand, report, verdict, others, scarred>>

\* moveNote: a note at the new path refuses the move, or is trashed if it may be; then
\* the moved note's text is read, and the notes to read are listed.
BeginMove ==
  /\ mstep = "asked"
  /\ IF dest = "held" /\ ~outing.over
     THEN Concludes("failed") /\ UNCHANGED <<dest, ahead, planned, plans, records>>
     ELSE /\ UNCHANGED verdict
          /\ IF outing.road = "files"
             THEN mstep' = "rename" /\ UNCHANGED <<dest, ahead, planned, plans, records>>
             ELSE /\ dest' = IF dest = "held" THEN "trashed" ELSE dest
                  /\ mstep' = "find" /\ ahead' = {n \in Linkers : body[n].here}
                  /\ planned' = [planned EXCEPT ![Moved] = body[Moved]]
                  /\ plans' = {n \in {Moved} : ~body[n].mark}
                  /\ records' = {Moved} \ plans'
  /\ since' = since \ {Moved}
  /\ UNCHANGED <<outing, body, moved, squatter, inHand, report, arriving, raced, scarred,
                 reindexed, takenLate>>

\* One note is read; reading one that is gone throws, and nothing was moved.
Find ==
  /\ mstep = "find"
  /\ \E n \in ahead :
       IF ~body[n].here
       THEN Concludes("failed") /\ UNCHANGED <<ahead, made, since>>
       ELSE /\ ahead' = ahead \ {n}
            /\ planned' = [planned EXCEPT ![n] = body[n]]
            /\ plans' = plans \cup {l \in {n} : Shows(n) /\ ~body[n].mark}
            /\ records' = records \cup {l \in {n} : Shows(n) /\ body[n].mark}
            /\ since' = since \ {n}
            /\ UNCHANGED <<mstep, report, verdict>>
  /\ UNCHANGED <<outing, body, moved, squatter, dest, inHand, arriving, raced, scarred, reindexed,
                 takenLate>>

\* The index has a note's text of now, or still the one of before.
IndexSays(n, current) == IF n \in current THEN body[n] ELSE outing.body[n]

\* The index's linkers that the text scan did not plan, or planned with fewer links.
Unplanned(current) ==
  {n \in Linkers \ records :
     LET says == IndexSays(n, current).old
     IN says # {} /\ IF n \in plans
                     THEN n \in current /\ Cardinality(planned[n].old) < Cardinality(says)
                     ELSE TRUE}

\* The cross-check with the index, then the rename, which fails if the path was taken or
\* the note is gone.
RenameNote ==
  /\ mstep = "find" /\ ahead = {} /\ ~moved
  /\ \E current \in SUBSET {n \in Linkers : body[n].old # outing.body[n].old} :
       LET found    == Unplanned(current)
           asRecord == {n \in found \ plans : body[n].here /\ body[n].mark}
       IN report' = [report EXCEPT !.indexOnly = found \ asRecord, !.left = asRecord]
  /\ IF dest = "held" \/ ~body[Moved].here
     THEN Concludes("failed") /\ UNCHANGED <<moved, ahead>>
     ELSE moved' = TRUE /\ mstep' = "rewrite" /\ ahead' = plans /\ UNCHANGED verdict
  /\ UNCHANGED <<outing, body, squatter, dest, planned, plans, records, inHand, others, scarred>>

\* The planned links, if the text still has them, that no longer reach their target.
ToRewrite(n) == {f \in planned[n].old \cap body[n].old : ~Reaches(f)}

\* Mutant of Saved: the text the plan was made from, with its links rewritten.
SavedAsPlanned(n) == Rewritten(planned[n], planned[n].old)

\* vault.process hands over the text of now.
Saved(n) == Rewritten(body[n], ToRewrite(n))

\* Mutant of LeftAsWritten: what was found living is living.
NotRejudged(n) == FALSE

\* Judged again on the text about to be written; not so of the moved note.
LeftAsWritten(n) == n # Moved /\ body[n].mark

\* vault.process: one note's text is read, judged, rewritten and saved at once.
ProcessNote ==
  /\ mstep = "rewrite" /\ outing.road = "obsidian"
  /\ IF ahead = {}
     THEN /\ mstep' = "check" /\ ahead' = plans
          /\ UNCHANGED <<body, plans, records, report, since, scarred>>
     ELSE \E n \in ahead :
       /\ ahead' = ahead \ {n} /\ UNCHANGED mstep
       /\ IF ~body[n].here
          THEN /\ report' = [report EXCEPT !.failed = @ \cup {n}]
               /\ UNCHANGED <<body, plans, records, since, scarred>>
          ELSE IF LeftAsWritten(n)
          THEN /\ plans' = plans \ {n} /\ records' = records \cup {n}
               /\ UNCHANGED <<body, report, since, scarred>>
          ELSE /\ body' = [body EXCEPT ![n] = Saved(n)]
               /\ scarred' = scarred \cup {l \in {n} : body[n].mark /\ ToRewrite(n) # {}}
               /\ since' = since \ {n}
               /\ UNCHANGED <<plans, records, report>>
  /\ UNCHANGED <<outing, moved, squatter, dest, planned, inHand, verdict, arriving, raced,
                 reindexed, takenLate>>

\* Mutant of Damaged: only links that resolve to nothing are damage.
DamagedIfDangling(n) == Dangling(body[n]) \cap planned[n].old # {}

\* A link that reached the note before now resolves to nothing, or fewer reach it.
Damaged(n) ==
  \/ Dangling(body[n]) \cap planned[n].old # {}
  \/ Cardinality(Reaching(body[n])) < Cardinality(planned[n].old)

\* Of a record that was left, a link as written no longer reaches.
LeftDangling == {n \in records : \E f \in planned[n].old : ~Reaches(f)}

\* The damage check reads the planned notes that are there, one by one, and answers; it
\* throws if the moved note, whose own links it counts, is gone.
Check ==
  /\ mstep = "check"
  /\ IF ahead # {}
     THEN \E n \in ahead :
       /\ ahead' = ahead \ {n}
       /\ IF n = Moved /\ ~body[n].here /\ planned[n].old # {}
          THEN Concludes("failed") /\ UNCHANGED <<report, since>>
          ELSE /\ report' = [report EXCEPT !.damaged = @ \cup {l \in {n} : body[n].here /\ Damaged(n)}]
               /\ since' = since \ {n}
               /\ UNCHANGED <<mstep, verdict>>
     ELSE /\ report' = [report EXCEPT !.left = @ \cup LeftDangling]
          /\ Concludes(IF report.failed \cup report.damaged \cup report.indexOnly = {}
                       THEN "ok" ELSE "damage")
          /\ UNCHANGED <<ahead, since>>
  /\ UNCHANGED <<outing, body, moved, squatter, dest, planned, plans, records, inHand, arriving, raced,
                 scarred, reindexed, takenLate>>

-----------------------------------------------------------------------------
\* fs.rename replaces what is at the new path; the sources are the index's backlinks.
FilesRename ==
  /\ mstep = "rename" /\ moved' = TRUE /\ mstep' = "rewrite"
  /\ dest' = IF dest = "held" THEN "replaced" ELSE dest
  /\ \E current \in SUBSET {n \in Linkers : body[n].old # outing.body[n].old} :
       plans' = {n \in Linkers : IndexSays(n, current).old # {}}
  /\ ahead' = plans' /\ since' = since \ plans'
  /\ UNCHANGED <<outing, body, squatter, planned, records, inHand, report, verdict, arriving, raced,
                 scarred, reindexed, takenLate>>

\* rewriteBacklinks reads a source and rewrites the links that resolve to the old path.
FilesRead ==
  /\ mstep = "rewrite" /\ outing.road = "files"
  /\ IF ahead = {} THEN Concludes("ok") /\ UNCHANGED <<ahead, inHand, since>>
     ELSE \E n \in ahead :
       /\ ahead' = ahead \ {n} /\ since' = since \ {n} /\ UNCHANGED verdict
       /\ IF body[n].here /\ body[n].old # {} /\ ~reindexed
          THEN mstep' = "write" /\ inHand' = {<<n, Rewritten(body[n], body[n].old)>>}
          ELSE UNCHANGED <<mstep, inHand>>
  /\ UNCHANGED <<outing, body, moved, squatter, dest, made, arriving, raced, scarred, reindexed,
                 takenLate>>

\* The guard may refuse one, which fails the call half-way; else the text is written.
FilesWrite ==
  /\ mstep = "write" /\ inHand' = {}
  /\ \E h \in inHand :
       IF h[1] \in outing.refuses
       THEN Concludes("failed") /\ UNCHANGED <<body, scarred>>
       ELSE /\ body' = [body EXCEPT ![h[1]] = h[2]] /\ mstep' = "rewrite" /\ UNCHANGED verdict
            /\ scarred' = scarred \cup {n \in {h[1]} : h[2].mark}
  /\ UNCHANGED <<outing, moved, squatter, dest, ahead, made, others>>

-----------------------------------------------------------------------------
\* Another's edit of a note's text.
EditNote(n, t, links) ==
  /\ body[n].here /\ body' = [body EXCEPT ![n] = t]
  /\ since' = IF links THEN since \cup {n} ELSE since
  /\ raced' = raced \cup {h[1] : h \in {g \in inHand : g[1] = n}}
  /\ UNCHANGED <<squatter, dest, reindexed, takenLate>>

\* What others do while the move is under way.
Interferes(e) ==
  CASE e[1] = "link"   -> EditNote(e[2], [body[e[2]] EXCEPT !.old = @ \cup {"path"}], TRUE)
    [] e[1] = "unlink" -> EditNote(e[2], [body[e[2]] EXCEPT !.old = {}, !.new = {}], TRUE)
    [] e[1] = "mark"   -> EditNote(e[2], [body[e[2]] EXCEPT !.mark = TRUE], FALSE)
    [] e[1] = "word"   -> EditNote(e[2], [body[e[2]] EXCEPT !.word = TRUE], FALSE)
    [] e[1] = "delete" -> EditNote(e[2], [body[e[2]] EXCEPT !.here = FALSE], TRUE)
    [] e[1] = "take"   -> /\ ~moved /\ dest \in {"free", "trashed"}
                          /\ dest' = "held" /\ takenLate' = (mstep # "asked")
                          /\ UNCHANGED <<body, squatter, since, raced, reindexed>>
    [] e[1] = "retake" -> /\ moved /\ squatter' = TRUE /\ since' = MoveNotes
                          /\ UNCHANGED <<body, dest, raced, reindexed, takenLate>>
    [] e[1] = "reindex" -> /\ moved /\ reindexed' = TRUE
                           /\ UNCHANGED <<body, squatter, dest, since, raced, takenLate>>

Meanwhile ==
  /\ mstep # "done"
  /\ \E e \in arriving : Interferes(e) /\ arriving' = arriving \ {e}
  /\ UNCHANGED <<outing, moved, mstep, ahead, made, inHand, verdict, scarred>>

MoveNext == \/ BeginMove \/ Find \/ RenameNote \/ ProcessNote \/ Check
            \/ FilesRename \/ FilesRead \/ FilesWrite \/ Meanwhile

MoveSpec == MoveInit /\ [][MoveNext]_mvvars

-----------------------------------------------------------------------------
MoveTypeOK ==
  /\ outing \in Outings /\ moved \in BOOLEAN /\ squatter \in BOOLEAN
  /\ dest \in {"free", "held", "trashed", "replaced"} /\ verdict \in {"none", "ok", "damage", "failed"}
  /\ mstep \in {"asked", "find", "rename", "rewrite", "write", "check", "done"}
  /\ ahead \subseteq MoveNotes /\ plans \subseteq MoveNotes /\ records \subseteq MoveNotes
  /\ plans \cap records = {} /\ Cardinality(inHand) <= 1

\* Every note that reached the moved note when it was read and reaches it less often at
\* the end is named in the answer, unless others changed its links after its check.
NamedInTheAnswer ==
  outing.road = "obsidian" /\ verdict \in {"ok", "damage"} =>
    \A n \in MoveNotes :
      body[n].here /\ Cardinality(Reaching(body[n])) < Cardinality(planned[n].old)
        => n \in report.failed \cup report.damaged \cup report.left \cup since

\* The file server's move leaves no link to the old path in a note its index named, but
\* in one others changed, or once the index has heard of the move.
IndexedRewritten ==
  outing.road = "files" /\ verdict = "ok" /\ ~reindexed =>
    \A n \in plans \ since : body[n].here => body[n].old = {}

\* What another wrote meanwhile stays written: always inside Obsidian, and over the files
\* unless it was written between the read and the write of that note.
OthersTextStays ==
  /\ outing.road = "obsidian" => raced = {}
  /\ \A n \in MoveNotes \ raced :
       /\ <<"word", n>> \in outing.coming \ arriving => body[n].word
       /\ <<"delete", n>> \in outing.coming \ arriving => ~body[n].here

\* A record is never rewritten inside Obsidian, save the moved note itself, if it becomes
\* one during its move.
RecordsStay ==
  outing.road = "obsidian" => scarred \subseteq {Moved} \ records

\* A note at the new path is destroyed only if the caller said so, or, over the files, if
\* it came between the look and the rename; and a move that fails inside Obsidian has
\* moved and rewritten nothing, unless the note itself was deleted meanwhile.
NoNoteDestroyed ==
  /\ dest = "replaced" => outing.road = "files" /\ (outing.over \/ takenLate)
  /\ dest = "trashed"  => outing.over
  /\ verdict = "failed" /\ outing.road = "obsidian" /\ body[Moved].here =>
       ~moved /\ \A n \in MoveNotes : body[n].new = {}

MoveSafe == /\ MoveTypeOK /\ NamedInTheAnswer /\ IndexedRewritten /\ OthersTextStays
            /\ RecordsStay /\ NoNoteDestroyed

=============================================================================
