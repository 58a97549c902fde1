------------------------------ MODULE VaultIndex ------------------------------
(***************************************************************************)
(* The file server's index of the vault (packages/core/src/fs-backend/     *)
(* index-store.ts) and the watcher that keeps it up to date                *)
(* (vault-watcher.ts), as fs-mode.ts starts and stops them.  Builds and    *)
(* single-file updates run one after the other on one promise chain; the   *)
(* vault is edited by anyone at any time.                                  *)
(***************************************************************************)
EXTENDS Naturals, Sequences, FiniteSets

CONSTANTS
  LexOrder,     \* the paths that notes may have, in lexical order
  Ids,          \* Johnny-Decimal ids
  Names,        \* basenames and aliases
  IdOf,         \* IdOf[p]: the id the path p gives its note, or NoNote
  BaseOf,       \* BaseOf[p]: its basename
  Contents,     \* the notes there may be: records of links and aliases
  NoNote,
  MaxEdits,     \* bound: how often the vault is edited
  MaxBuilds     \* bound: how often a build is asked for

NotePaths == {LexOrder[k] : k \in DOMAIN LexOrder}

ASSUME IndexAssumption ==
  /\ LexOrder \in Seq(NotePaths)
  /\ IdOf \in [NotePaths -> Ids \cup {NoNote}] /\ BaseOf \in [NotePaths -> Names]
  /\ Contents \subseteq [links : SUBSET (NotePaths \cup Ids \cup Names), aliases : SUBSET Names]
  /\ NoNote \notin Contents /\ NoNote \notin NotePaths
  /\ MaxEdits \in Nat /\ MaxBuilds \in Nat

VARIABLES
  files,         \* files[p]: the note at p, or NoNote
  status,       \* "empty", "ready" or "error"
  notes,        \* the index: byPath, from which byBasename and byAlias follow
  byJdId,       \* byJdId[i]: the path that id i leads to, or NoNote
  backlinks,    \* backlinks[p]: the notes that link to p
  chain,        \* the mutation queue: records of event and path
  job,          \* what runs: {} or {a record}
  fs,           \* "off", "building", "starting", "watching" or "skipped"
  notified,     \* paths whose change the watcher was not told of yet
  timer,        \* timer[p]: the event of p's debounce timer, or "none"
  missed,       \* history: paths changed, since they were last read, unwatched
  unelected,    \* history: ids whose note left the index beside another's
  edits, builds

xvars == <<files, status, notes, byJdId, backlinks, chain, job, fs, notified, timer,
           missed, unelected, edits, builds>>
indexed == <<status, notes, byJdId, backlinks, unelected>>
watch   == <<fs, notified, timer>>

-----------------------------------------------------------------------------
Carried(ns) == {p \in NotePaths : ns[p] # NoNote}
Nothing     == [p \in NotePaths |-> NoNote]
Place(p)    == CHOOSE k \in DOMAIN LexOrder : LexOrder[k] = p

\* resolveTargetSimple: a path, an id, a basename or an alias that is one note's only.
Resolved(ns, ids, t) ==
  LET based   == {p \in Carried(ns) : BaseOf[p] = t}
      aliased == {p \in Carried(ns) : t \in ns[p].aliases}
  IN IF t \in Carried(ns) THEN {t}
     ELSE IF t \in Ids /\ ids[t] # NoNote THEN {ids[t]}
     ELSE IF Cardinality(based) = 1 THEN based
     ELSE IF Cardinality(aliased) = 1 THEN aliased
     ELSE {}

\* _recomputeAllBacklinks
BacklinksOf(ns, ids) ==
  [q \in NotePaths |->
     {p \in Carried(ns) : \E t \in ns[p].links : q \in Resolved(ns, ids, t)}]

\* _doBuildIndex: notes are taken in lexical order and the last one with an id has it.
Elected(ns) ==
  [i \in Ids |->
     LET bearers == {p \in Carried(ns) : IdOf[p] = i}
     IN IF bearers = {} THEN NoNote
        ELSE CHOOSE p \in bearers : \A q \in bearers : Place(q) <= Place(p)]

\* _removeFromForwardMaps: the id goes, and no other note's claim to it is looked for.
IdsWithout(ids, p) == [i \in Ids |-> IF ids[i] = p THEN NoNote ELSE ids[i]]

\* Mutant of IdsWith: the last note to be indexed has the id.
IdsWithLast(ids, p) == [i \in Ids |-> IF IdOf[p] = i THEN p ELSE ids[i]]

\* _addToForwardMaps: the lexically later note has it, as in a build.
IdsWith(ids, p) ==
  [i \in Ids |->
     IF IdOf[p] = i /\ (ids[i] = NoNote \/ Place(ids[i]) <= Place(p)) THEN p ELSE ids[i]]

IndexInit ==
  /\ files \in [NotePaths -> Contents \cup {NoNote}]
  /\ status = "empty" /\ notes = Nothing
  /\ byJdId = [i \in Ids |-> NoNote] /\ backlinks = [p \in NotePaths |-> {}]
  /\ chain = <<>> /\ job = {} /\ fs = "off"
  /\ notified = {} /\ timer = [p \in NotePaths |-> "none"]
  /\ missed = {} /\ unelected = {} /\ edits = 0 /\ builds = 0

-----------------------------------------------------------------------------
\* A note is written, moved or deleted: by a tool of this server, by Obsidian or by a
\* sync client.  While the watcher starts, it may or may not be told.
Edit(p, c) ==
  /\ edits < MaxEdits /\ c # files[p]
  /\ files' = [files EXCEPT ![p] = c]
  /\ edits' = edits + 1
  /\ \/ /\ fs \in {"watching", "starting"}
        /\ notified' = notified \cup {p} /\ missed' = missed \ {p}
     \/ /\ fs # "watching"
        /\ missed' = missed \cup {p} /\ UNCHANGED notified
  /\ UNCHANGED <<indexed, chain, job, fs, timer, builds>>

\* buildIndex: a build that waits or runs is joined.
Asked ==
  /\ builds < MaxBuilds /\ builds' = builds + 1
  /\ chain' = IF \/ \E k \in DOMAIN chain : chain[k].event = "build"
                 \/ \E j \in job : j.event = "build"
              THEN chain ELSE Append(chain, [event |-> "build", path |-> NoNote])

\* ready: the first request for the files.
IndexReady ==
  /\ fs = "off" /\ fs' = "building"
  /\ Asked
  /\ UNCHANGED <<files, indexed, job, notified, timer, missed, edits>>

\* obsidian_force_reindex
ForceReindex ==
  /\ fs \in {"watching", "skipped"}
  /\ Asked
  /\ UNCHANGED <<files, indexed, job, watch, missed, edits>>

\* A path that is read is no longer missed, if no removal of it waits behind the build.
Read(p) == {q \in {p} : ~\E k \in DOMAIN chain : chain[k] = [event |-> "unlink", path |-> q]}

\* _doBuildIndex begins: the folders are walked, for the notes there are.
BuildStarts ==
  /\ job = {} /\ chain # <<>> /\ Head(chain).event = "build"
  /\ chain' = Tail(chain)
  /\ job' = {[event |-> "build", read |-> Nothing, todo |-> Carried(files)]}
  /\ missed' = missed \ UNION {Read(p) : p \in NotePaths \ Carried(files)}
  /\ UNCHANGED <<files, indexed, watch, edits, builds>>

\* The lexically first of them.
First(S) == CHOOSE p \in S : \A q \in S : Place(p) <= Place(q)

\* One file is read; one that is gone is passed over.
BuildReads ==
  \E j \in job :
    /\ j.event = "build" /\ j.todo # {}
    /\ LET p == First(j.todo)
       IN /\ job' = {[j EXCEPT !.todo = @ \ {p}, !.read[p] = files[p]]}
          /\ missed' = missed \ Read(p)
    /\ UNCHANGED <<files, indexed, chain, watch, edits, builds>>

\* The handler that waits for the build starts the watcher, unless the build failed.
Handed(s) ==
  fs' = IF fs # "building" THEN fs ELSE IF s = "ready" THEN "starting" ELSE "skipped"

\* Mutant of BuildDone: the notes are put into the index that is there.
BuildDoneMerging ==
  \E j \in job :
    /\ j.event = "build" /\ j.todo = {}
    /\ status' = "ready"
    /\ notes' = [p \in NotePaths |-> IF j.read[p] = NoNote THEN notes[p] ELSE j.read[p]]
    /\ byJdId' = Elected(notes')
    /\ backlinks' = BacklinksOf(notes', byJdId')
    /\ unelected' = {} /\ job' = {} /\ Handed("ready")
    /\ UNCHANGED <<files, chain, notified, timer, missed, edits, builds>>

\* The new index replaces the old one in one step.
BuildDone ==
  \E j \in job :
    /\ j.event = "build" /\ j.todo = {}
    /\ status' = "ready" /\ notes' = j.read
    /\ byJdId' = Elected(notes')
    /\ backlinks' = BacklinksOf(notes', byJdId')
    /\ unelected' = {} /\ job' = {} /\ Handed("ready")
    /\ UNCHANGED <<files, chain, notified, timer, missed, edits, builds>>

\* The walk fails: the index is emptied.
BuildFails ==
  \E j \in job :
    /\ j.event = "build" /\ j.read = Nothing
    /\ status' = "error" /\ notes' = Nothing
    /\ byJdId' = [i \in Ids |-> NoNote] /\ backlinks' = [p \in NotePaths |-> {}]
    /\ unelected' = {} /\ job' = {} /\ Handed("error")
    /\ UNCHANGED <<files, chain, notified, timer, missed, edits, builds>>

-----------------------------------------------------------------------------
\* startVaultWatcher: chokidar has walked the vault.
IndexWatched ==
  /\ fs = "starting" /\ fs' = "watching"
  /\ UNCHANGED <<files, indexed, chain, job, notified, timer, missed, edits, builds>>

\* Mutant of Schedule: the first event of the window is the one that counts.
ScheduleFirst(p) ==
  /\ fs = "watching" /\ p \in notified
  /\ notified' = notified \ {p}
  /\ timer' = IF timer[p] # "none" THEN timer
              ELSE [timer EXCEPT ![p] = IF files[p] = NoNote THEN "unlink" ELSE "change"]
  /\ UNCHANGED <<files, indexed, chain, job, fs, missed, edits, builds>>

\* scheduleMutation: chokidar tells of the change; the event replaces an earlier one of
\* the same path, and its timer starts again.
Schedule(p) ==
  /\ fs = "watching" /\ p \in notified
  /\ notified' = notified \ {p}
  /\ timer' = [timer EXCEPT ![p] = IF files[p] = NoNote THEN "unlink" ELSE "change"]
  /\ UNCHANGED <<files, indexed, chain, job, fs, missed, edits, builds>>

\* The timer fires: the event is queued behind what is there.
DebounceFires(p) ==
  /\ timer[p] # "none"
  /\ chain' = Append(chain, [event |-> timer[p], path |-> p])
  /\ timer' = [timer EXCEPT ![p] = "none"]
  /\ UNCHANGED <<files, indexed, job, fs, notified, missed, edits, builds>>

\* Mutant of ChangeStarts: a file that cannot be read breaks the chain.
ChangeStartsAndBreaks ==
  /\ job = {} /\ chain # <<>> /\ Head(chain).event = "change"
  /\ chain' = Tail(chain)
  /\ LET p == Head(chain).path
     IN job' = IF status # "ready" THEN {}
               ELSE IF files[p] = NoNote THEN {[event |-> "broken"]}
               ELSE {[event |-> "change", path |-> p, note |-> files[p]]}
  /\ UNCHANGED <<files, indexed, watch, missed, edits, builds>>

\* applyAddOrChange begins: without an index, or a file, there is nothing to do.
ChangeStarts ==
  /\ job = {} /\ chain # <<>> /\ Head(chain).event = "change"
  /\ chain' = Tail(chain)
  /\ LET p == Head(chain).path
     IN job' = IF status = "ready" /\ files[p] # NoNote
               THEN {[event |-> "change", path |-> p, note |-> files[p]]} ELSE {}
  /\ UNCHANGED <<files, indexed, watch, missed, edits, builds>>

\* Its file was read: the note is taken out and put in again.
ChangeApplied ==
  \E j \in job :
    /\ j.event = "change"
    /\ notes' = [notes EXCEPT ![j.path] = j.note]
    /\ byJdId' = IdsWith(IdsWithout(byJdId, j.path), j.path)
    /\ backlinks' = BacklinksOf(notes', byJdId')
    /\ job' = {}
    /\ UNCHANGED <<files, status, unelected, chain, watch, missed, edits, builds>>

\* Mutant of Unlinked: the notes that linked to it keep their link to it.
UnlinkedKeepingLinks ==
  /\ job = {} /\ chain # <<>> /\ Head(chain).event = "unlink"
  /\ chain' = Tail(chain)
  /\ IF status = "ready" /\ notes[Head(chain).path] # NoNote
     THEN /\ notes' = [notes EXCEPT ![Head(chain).path] = NoNote]
          /\ byJdId' = IdsWithout(byJdId, Head(chain).path)
     ELSE UNCHANGED <<notes, byJdId>>
  /\ UNCHANGED <<files, status, backlinks, unelected, job, watch, missed, edits, builds>>

\* applyUnlink
Unlinked ==
  /\ job = {} /\ chain # <<>> /\ Head(chain).event = "unlink"
  /\ chain' = Tail(chain)
  /\ LET p == Head(chain).path
     IN IF status = "ready" /\ notes[p] # NoNote
        THEN /\ notes' = [notes EXCEPT ![p] = NoNote]
             /\ byJdId' = IdsWithout(byJdId, p)
             /\ backlinks' = BacklinksOf(notes', byJdId')
             /\ unelected' = unelected \cup
                  {i \in Ids : byJdId[i] = p /\ \E q \in Carried(notes') : IdOf[q] = i}
        ELSE UNCHANGED <<notes, byJdId, backlinks, unelected>>
  /\ UNCHANGED <<files, status, job, watch, missed, edits, builds>>

\* stop, once the watcher runs (FsHandler has the other orders): the timers are
\* cleared, and what is queued is still done.
IndexStop ==
  /\ fs \in {"watching", "skipped"} /\ fs' = "off"
  /\ missed' = missed \cup notified \cup {p \in NotePaths : timer[p] # "none"}
  /\ notified' = {} /\ timer' = [p \in NotePaths |-> "none"]
  /\ UNCHANGED <<files, indexed, chain, job, edits, builds>>

IndexNext ==
  \/ \E p \in NotePaths, c \in Contents \cup {NoNote} : Edit(p, c)
  \/ IndexReady \/ ForceReindex
  \/ BuildStarts \/ BuildReads \/ BuildDone \/ BuildFails
  \/ IndexWatched \/ ChangeStarts \/ ChangeApplied \/ Unlinked \/ IndexStop
  \/ \E p \in NotePaths : Schedule(p) \/ DebounceFires(p)

\* The event loop runs what is queued, the timers fire, and chokidar tells of changes.
IndexFairness ==
  /\ WF_xvars(BuildStarts) /\ WF_xvars(BuildReads) /\ WF_xvars(BuildDone)
  /\ WF_xvars(ChangeStarts) /\ WF_xvars(ChangeApplied) /\ WF_xvars(Unlinked)
  /\ WF_xvars(IndexWatched)
  /\ \A p \in NotePaths : WF_xvars(Schedule(p)) /\ WF_xvars(DebounceFires(p))

IndexSpec == IndexInit /\ [][IndexNext]_xvars /\ IndexFairness

-----------------------------------------------------------------------------
\* Every variable has its type, and an index that is not ready holds nothing.
IndexTypeOK ==
  /\ files \in [NotePaths -> Contents \cup {NoNote}]
  /\ notes \in [NotePaths -> Contents \cup {NoNote}]
  /\ status \in {"empty", "ready", "error"}
  /\ byJdId \in [Ids -> NotePaths \cup {NoNote}] /\ backlinks \in [NotePaths -> SUBSET NotePaths]
  /\ fs \in {"off", "building", "starting", "watching", "skipped"}
  /\ notified \subseteq NotePaths /\ timer \in [NotePaths -> {"none", "change", "unlink"}]
  /\ Cardinality(job) <= 1 /\ \A j \in job : j.event \in {"build", "change"}
  /\ missed \subseteq NotePaths /\ unelected \subseteq Ids
  /\ edits \in 0..MaxEdits /\ builds \in 0..MaxBuilds
  /\ status # "ready" => notes = Nothing

\* An event of p, or a build, is still to come.
Expected(p) ==
  \/ p \in notified \/ timer[p] # "none"
  \/ \E k \in DOMAIN chain : chain[k].event = "build" \/ chain[k].path = p
  \/ \E j \in job : j.event = "build" \/ (j.event = "change" /\ j.path = p)

\* What the index says of a note is what the file says, unless an event of it is still
\* to come or it was changed while nobody watched: however edits, debounced events,
\* rebuilds and updates that read the file before the last edit interleave
\* (vault-watcher.ts "latest event wins", index-store.ts enqueueMutation).
IndexCurrent ==
  \A p \in NotePaths :
    status = "ready" /\ ~Expected(p) /\ p \notin missed => notes[p] = files[p]

\* After any order of single-file updates the ids and backlinks are those a full
\* rebuild would give, but for an id whose note was removed while another note had it
\* too (the equivalence vault-watcher.ts and index-store.test.ts speak of).
LikeRebuild ==
  /\ backlinks = BacklinksOf(notes, byJdId)
  /\ \A i \in Ids \ unelected : byJdId[i] = Elected(notes)[i]

\* A change the watcher is to tell of reaches the index, unless the index is given up
\* (stop, a build that fails) or the note changes again.
ChangeReachesIndex ==
  \A p \in NotePaths :
    (p \in notified /\ fs = "watching" /\ status = "ready") ~>
      (notes[p] = files[p] \/ fs = "off" \/ status # "ready")

\* What the index says of the vault between events.
IndexSafe == IndexTypeOK /\ IndexCurrent /\ LikeRebuild

=============================================================================
