# A verification development for the Obsidian MCP suite

The suite lets AI assistants read and write an Obsidian vault under human
control. This directory holds TLA+ models of the parts of it where order,
failure and concurrency decide whether it is correct, the TLC configurations that
check them on small instances, and TLAPS proofs of what matters most for
instances of every size.

Paths are relative to `packages/` of the repository unless they start with
`README.md` or `docs/`.

 1. The system: parts, state, interactions, hard behaviours
 2. What is modelled, module by module
 3. What each run checks, and what it shows
 4. Bounds, and why they are enough
 5. Fairness, and why the code justifies it
 6. What is proved, and how
 7. Disagreements between the code and what is said of it
 8. Abstractions to keep in mind
 9. What is not modelled
10. Plan

How to run it (in this directory):

    tlc -config MCWriteKernel_crash.cfg MCWriteKernel     # model-check a run
    tlapm WriteKernelProofs.tla                           # check the proofs

`PROJECT.json` lists the components, the runs with their properties, the source
lines each definition translates, a mutant of the code for every property, the
hazards and the theorems.


## 1. The system

Three kinds of process take part. **Obsidian** runs the host plugin
(`vault-mcp`, in `host/`), the governance plugin (`governor/`) and small
satellite plugins, all in one JavaScript thread: everything between two awaits
is atomic, and every await is a place where something else may happen. A
**bridge** process (`host/bridge/bridge.ts`) connects a client's standard input
and output to the host's Unix socket. A **server** (`server/`) offers the same
tools over HTTP: while Obsidian is reachable it proxies each session to a bridge
process of its own (LIVE mode), otherwise it serves from the files of the vault
(FS mode).

### The host kernel

| part | state | operations | what makes it correct |
|---|---|---|---|
| write queue `host/src/kernel/write-queue.ts` | pending list, active operation and its start time, closed flag | `run`, `nudge`, the timer, settlement, `close` | one writer at a time; first come, first served; every promise settled once; the queue never stays blocked behind a handler that does not settle |
| idempotency store `idempotency.ts` | reservations of calls in flight; a bounded least-recently-used map of completed keys; a replay window | `claim`, `settle`, `seedFromJournal` | one key is one logical request: executed once, its outcome replayed, never for different arguments |
| `Kernel.runMutation` `index.ts` | none of its own: it ties queue, keys, journal and locks together | claim the key, enqueue, check `if_rev` and the record guard at the dequeue, run, journal, settle | no lost update; a refused call has written nothing; one journal record per outcome |
| write journal `journal.ts` | one file per month, an append chain per plugin instance | `append`, `readRecent` | records in order, none overwritten |
| advisory locks `locks.ts` | leases with expiry, per session | claim, renew, release, list | a lease has one holder; the caps hold under lazy expiry |
| install identity, adoption `id-migration.ts` | the files and settings copied from an older install | plan, copy, record, load settings | what was the host's is adopted, whole, once, wherever a load is cut short |
| record guard `record-guard.ts`, write protection | none (predicates) | read at the dequeue | what needs protection is not written without it |
| uid index `uid-index.ts` | uid to path map | cache events | follows renames |
| modules, operations `modules/`, `operations/` | registries; the phase history of an invocation | register, execute | phases go forward; conflicts are refused |
| observations `observations/` | content-addressed payloads, a retention list | capture, read, prune, delete | a payload lives while something refers to it, and is shown only to who may read its notes |
| sessions `sessions/` | an event log, and its fold | open, close, expire | status moves one way |

`main.ts` builds a kernel per plugin load. Two things outlive an unload: the
idempotency store, kept on `globalThis`, and the handlers still running, which
nothing can cancel. `onunload` closes the queue; the next load opens another one
on the same store.

### Host surface

Guarded dispatch (`mcp/guarded.ts`) resolves the addressed note, applies the
read-only mode and the allowlist, and hands what mutates to `runMutation`. The
seam (`mcp/seam.ts`) tells registered observers of every write, and a mailbox
(`mcp/server.ts`) carries the written bytes to them. Other plugins publish tools
in the host's registry (`mcp/external-tools.ts`). The tools for scheme addresses,
moves and batches (`tools-scheme-write.ts`, `move-with-links.ts`,
`tools-write-notes.ts`) plan over a snapshot and then write note by note. The
socket transport frames lines; the bridge queues them while the socket is gone,
replays the handshake to a new server, and fails what was in flight.

### The governor

| part | state | operations | what makes it correct |
|---|---|---|---|
| proposals `kernel/proposals/` | a record per proposal with an authority axis | create, admit, supersede | settled authority is final |
| admission `kernel/admission/`, `wiring/admission-wiring.ts` | the claim file, the settlement log, a claim cache and a promise chain per mounted pane | admit one, admit a cohort, revert, sweep | standing only grows, by stored claims, once per decision; the human is told what happened |
| history store `wiring/history-store/` | git refs, `standing` among them | `casRef`, commit, list | the ref moves by compare-and-swap |
| cohorts `kernel/cohorts/` | frozen sets | freeze, exclude, admit | a decision covers exactly what was frozen |
| mandates, budgets `kernel/mandates/` | an event log, and its fold | draft, activate, use, exhaust, revoke, supersede | one active mandate of a negotiation; no use beyond the budget |
| baselines and queue `kernel/accept.ts`, `baseline-store.ts` | a baseline per note, the list for review | accept, revert, adopt, rekey, repair | the baseline is what a human saw, and follows its note |
| cutover `kernel/migration/` | one marker file | import, cut over, roll back, bind | one standing writer at a time |
| promotion `kernel/transformations/` | evidence counts | count, promote | only admitted evidence counts |

### The server

| part | state | operations | what makes it correct |
|---|---|---|---|
| presence monitor `presence.ts` | cached answer, failure count | poll (interval and directory watch), probe | converges to the truth; a hiccup is not an outage |
| live proxy `live-proxy.ts` | sessions, a counter of bridge processes | open, close, idle out, tear all down | the count bounds the processes |
| FS handler `fs-mode.ts` | an index, a watcher, the promise that builds both | `ready`, `stop`, serve | a fresh index in FS mode, no watcher in LIVE mode |
| index and watcher `core/src/fs-backend/` | parsed notes, ids, backlinks, debounce timers | build, change, unlink, stop | the index says what the files say, once its events are over |
| front `front.ts` | none: routes by presence, wires its events | route, up, down | each request goes to one side |
| FS write kernel `fs-write-kernel.ts` | a serialized queue, a journal | run | as the host's queue, without deadlines |
| seamless proxy `semantic-proxy.ts` | a shared backend | connect, forward, switch | an optional replacement of the live proxy |

### The satellites

`bases`, `fileclass`, `health`, `triage`, `jd-scaffold`, `provenance`, `vocab` and
`quickadd-choices-compile` register tools with the host and write notes through
its guarded calls. `crosssession` keeps channels between sessions, with receipts
of what each has read. `skills` compiles accepted notes into files outside the
vault, on save and on demand.

### How the parts interact

    client -> bridge -> socket -> guarded dispatch -> runMutation -> write queue -> vault
                                                          |              ^
                                                          v              | nudge
                                               idempotency store      journal
    write observers (seam) -> proposals -> review pane -> admission
                      -> claim file -> standing ref -> settlement log -> proposals
    journal -> review queue -> baselines          (until the cutover)
    HTTP -> front -> live proxy -> bridge ...      (presence: up)
                  -> FS handler -> index, files    (presence: down)

### Where it is hard

- *Time without timers.* Electron suspends timers of an occluded window, so the
  queue reads the wall clock at its own events (`write-queue.ts:156`).
- *Handlers that cannot be cancelled.* An abandoned call still writes later, in
  parallel with its successor, and the caller may retry it meanwhile.
- *Reload.* The old instance's handlers run beside the new instance's queue.
- *Crash* between a write, its journal record and its answer; between a stored
  claim, the moved ref and the settlement record; between two copied files.
- *State read before an await and used after it*: standing read at the click,
  the claim cache, the note bytes, the marker, a plan of moves, the metadata
  cache, the index build, the session count.
- *Events of two sources*: overlapping polls, presence changing during a build,
  a human typing while an agent's edit waits for its debounce.
- *Caps*: the key store, the session count, the locks, the bridge's queue, the
  budget of a mandate, the bytes a connection may have kept.

`PROJECT.json` lists forty hazards, each at its line, with the properties that
would catch it.


## 2. What is modelled

Every module is one component with its own variables, `XInit`, an action per
operation or per stretch between two awaits, `XNext` and `XSpec`. Where a step of
the code may fail, be interrupted or be overtaken, the model has a step that does
so. Variables and record fields marked *history* are read by properties only.

### The write kernel: `WriteQueue`, `IdempotencyStore`, `WriteKernel`

`WriteQueue` is `write-queue.ts`, one queue per plugin instance.

| code | model |
|---|---|
| `pending`, `active`, `closed` | `pending[q]`, `slot[q]`, `closed` |
| `Date.now() - startedAt > budget` | `q \in overdue` |
| the promise `run()` returned | `answer[o]` |
| whether the handler was dequeued, started or is over | `phase[o]` |
| `run` on an open or a closed queue | `RunAccepted`, `RunRefused` |
| `nudge`, which also pumps | `NudgeWith`, in `Nudge`, `Pump` and `RunAccepted` |
| the timer | `TimerFires` |
| the microtask that starts a dequeued operation | `Start`, `StartRefused` |
| settlement, current or late | `Settle`, with `Release` |
| `close` | `Close` |

An operation that timed out is not over: its `phase` stays `"running"` while its
successor holds the slot.

`IdempotencyStore` has the completed half of the key store as operators on a
record (`Get` refreshes or lapses, `Put` evicts, `Seed` reads the journal). The
reservations are a variable of the kernel.

`WriteKernel` extends `WriteQueue` with `runMutation`. A call arrives
(`SubmitMismatch`, `SubmitReplay`, `SubmitWait`, `SubmitRun`: the outcomes of the
claim), is dequeued with the note's revision probed (`Dequeue`), is refused or
writes (`Land`), settles (`HandlerSettles`), is journaled and settles its key
(`Finalize`), and wakes those that waited for it (`Adopt`). Around it the journal
is written out (`Flush`, which nudges the queue, as `main.ts` arranges), the
plugin is unloaded and loaded (`Unload`, `Load`, which seeds the store from the
journal unless the file cannot be read), the process crashes
(`ProcessCrash`), and the replay window passes (`WindowPasses`). The vault is the
sequence of writes that landed on one note; its revision is the length.

### The rest of the host

| module | models | its actions |
|---|---|---|
| `Journal` | `kernel/journal.ts`: a chain of appends per instance, one file per month | each call of the adapter (`mkdir`, the look, `append` or `write`) succeeds or fails on its own; a load brings a second instance over the same files |
| `LockStore`, `ClaimTable` | `kernel/locks.ts`, `mcp/tools-locks.ts` | claim, renew, release, list and the look of a write; scopes with `.` and `..`; expired claims go when somebody looks. `ClaimTable` is what the store promises: claims that go on time |
| `Adoption` | `id-migration.ts` and the head of `main.ts` `onload` | plan, one copy at a time, record, settings, load; a failure or the end of the process at each |
| `Dispatch` | `operations/executor.ts`, `mcp/guarded.ts`, `mcp/seam.ts`, the mailbox of `mcp/server.ts` | the phases of a call up to its report, with hooks registered and disposed meanwhile, deadlines and revocations |
| `Publication` | `mcp/external-tools.ts`, `mcp/seam.ts`, the SDK `vault-mcp-api` | host and plugins loaded and unloaded in any order, the two announcements, a session's calls of published tools |
| `Observations` | `kernel/observations/` | seeding of a connection's count, get and put of a payload, replay, prune |
| `Scheme` | `tools-scheme-write.ts`, `kernel/scheme/mutate.ts`, `jd.ts` | assign, refile and renumber: the plan at once, the moves one by one, beside others |
| `Move` | `move-with-links.ts`, and `moveNote` of `fs-backend/vault.ts` | find, rename, rewrite each linker, check |
| `BatchWrite`, `RecordGuard` | `tools-write-notes.ts`, `write-notes-compose.ts`, `record-guard.ts` | what an item composes from a cache that lags, its check and write, timeouts, replays and retries |

### Admission: `StandingLedger`, `Admission`

`StandingLedger` is what admission promises: evidence is stored, and standing
grows by one stored claim at a time, none twice.

`Admission` is one human click from the pane to the answer: the wiring's reads
(`Click`, `Observe...`), the service inside the mount's promise chain (`Verify`,
`Expect`, `StoreClaim`, `Advance`, `Settle`, and what each does on failure),
and the wiring's projections and catch (`Project`, `CatchDegraded`,
`CatchError`). `pc[c]` names the await a call is at. The claim file, the ref,
the settlement log and the proposals are shared; `chain[m]` and `cache[m]`
belong to one mount, because the plugin builds the wiring afresh for every
mount (`governor/src/main.ts:565`), and an old mount keeps running what it
started. `Throws` fails any read or write of the
service; `StampSome` fails single updates of the projections. A note may be
edited, or reverted with its proposal superseded, at any time. `LedgerRefined`
says that `Admission` implements `StandingLedger`, with the claim file as the
evidence and the ref as standing.

### The rest of the governor

| module | models | its actions |
|---|---|---|
| `Mandates` | `kernel/mandates/lifecycle.ts`, `wiring/mandate-wiring.ts`, `wiring/write-observer.ts` | draft, counter-draft, decline, activate (with what it supersedes), revoke, a stamped and charged write, the end of a spent mandate; the log, its cache and the appends between |
| `ReviewQueue` | `wiring/wiring.ts`, `kernel/accept.ts`, `classify.ts`, `queue.ts` | one note from the agent's edit to the verdict: signals, debounce, silent advance, accept, adopt, revert, retire, the index |
| `BaselineStore` | `kernel/baseline-store.ts`, `baseline-reconcile.ts` | set, rekey and removal as cache step and disk step, renames seen and unseen, the repair, restarts |
| `Cutover` | `kernel/migration/`, `wiring/migration-wiring.ts` | cut over, roll back, bind, with each read, decision, write and cache update apart; tears, unreadable files, sync, restarts |

### The server and the bridge

`Presence`, `LiveProxy`, `FsHandler` are one component of the server each.
`Failover` composes them as `front.ts` does: `Resolve` is a poll that applies
its answer and emits "up" or "down" in the same turn, which stops the watcher or
tears the sessions down and prewarms the index; `LiveRequest` and `FsRequest`
are routed by what presence says when the request comes in.

- `Presence`: polls from two sources may overlap, a probe of a reachable plugin
  may time out, and its answer may be applied after a later one. A gone socket
  file takes the plugin down at once, a refusing one after two failures.
- `LiveProxy`: the stages of one bridge process and `liveBackends`. `spared`
  remembers, for the properties, the backends `teardownAll` did not see because
  they were mid-initialize.
- `FsHandler`: `readyPromise`, `watcher`, the builds that are under way and the
  watchers that run. `raced` remembers that a `stop()` met an unfinished build.
- `VaultIndex`: `index-store.ts` and `vault-watcher.ts`. File events are
  debounced, builds and updates run one after the other on one chain, and an
  update is three steps (take out, read, put in) with edits between.
- `FsWriteKernel`: the queue and journal of `fs-write-kernel.ts` and the writes
  of `fs-backend/vault.ts`, read and write apart, beside anybody's changes.
- `Relay`: `host/bridge/bridge.ts`. A line is a model value. Sockets die (young or
  not), the reconnection fails or succeeds, the handshake is replayed, the queue
  fills, pauses the client and drains, the grace period ends, the client leaves.

### The satellites

`CrossSession` is a channel with its log, its message notes and the file of
receipts: delta, attest and post, with each read, load and write apart.
`SkillsExport` is the compiler of skills: an export by hand, by the tool and on
save, the acceptance gate, embeds, supporting files and the manifest.

### Model-checking and proof modules

Components that do not interact are checked side by side in one run: `MCFair`
(the queue, the relay, the index: the three whose liveness is checked) and
`MCParts` (the kernel and sixteen others). Their initial state picks, in `part`,
the one that moves; the others keep their initial values. So the run's states are
the sum of the components' and not the product, every property speaks of the
part that moves (`LocksPart == part = "locks" => LocksSafe`), and the fairness of
`MCFair` is each component's own, under the same condition. Nothing is claimed of
two such components together: they share no state in the code either.
`MCWriteKernel`, `MCAdmission` and `MCFailover` give the constants their values for
the runs of the kernel, the admission and the front.

Eight modules hold the theorems: `WriteKernelProofs` (the queue, the kernel over
it, its keys, records and journal), `HostProofs` (locks, journal file,
publication, adoption, dispatch), `NotesProofs` (the file server's writes, moves,
batches, addresses), `SessionProofs` (observed payloads, channels, the export of skills),
`GovernorProofs` (the governor's parts), `AdmissionProofs`, `FairProofs` (index,
relay and front), and `PartsProofs` (what is proved of a part holds where the parts
stand side by side).

An operator whose comment says *Mutant of X* is X with a plausible bug; nothing
uses it, and for every property there is one under which that property fails.



## 3. What each run checks, and what it shows

State counts are distinct states; each run ends within five minutes on two
workers.

| run | configuration | states | what it asks |
|---|---|---|---|
| `queue` | `MCFair.cfg` | 100,984 | Three operations on two queues, with nudges, timers, close and crash at any moment; the relay of a bridge whose sockets die; the file server's index over edits, builds and a stop. Each is safe, and none of them gets stuck. |
| `kernel_queue` | `MCParts.cfg` | 805,798 | A request, its retry and a conditional call of its own key on one instance, with a store that holds one key. And sixteen other parts of the suite, each on its own, in the situations where they are exposed. |
| `kernel_reload` | `MCWriteKernel_reload.cfg` | 64,828 | A conditional request and its retry across an unload and a load: one outcome per key, refusals that never write, keys in one state, and an answer for every call. |
| `kernel_crash` | `MCWriteKernel_crash.cfg` | 3,528,044 | A request and its retry, with a call between them that takes the only place in the store, across a crash, a lost journal append, a journal that a load cannot read and the end of the replay window: when, exactly, can one key write twice? |
| `admission_pane` | `MCAdmission_pane.cfg` | 195,246 | Three clicks in one pane, two on one proposal, two with one gesture, one failure: each decision stands once, each gesture is spent once, authority is final. |
| `admission_cohort` | `MCAdmission_cohort.cfg` | 159,527 | A cohort decided twice beside one of its members, with overtaken reads of the claim file: the projections agree with standing when all is over. |
| `admission_mounts` | `MCAdmission_mounts.cfg` | 114,970 | The same over a remount or a crash with a failure: evidence first, true answers, the ledger refined, every click answered. |
| `front` | `MCFailover_front.cfg` | 635,619 | The plugin comes and goes, two polls overlap, probes time out: presence converges, the watcher and the session count are right up to two named exceptions. |

Four more runs end in a counterexample; section 7 has them.

The properties, by what they protect. Most runs check a conjunction (`QueueSafe`);
the parts have the names used here.

**Queue.** `Serialized`: what executes holds the slot or was told "timeout".
`NothingLost`: an unanswered operation is in its queue or in the slot, in one of
the two. `AnsweredOnce`: of the handler, the timer, a nudge and `close`, only
the first settles the promise. `NoOvertaking`: first in, first out.
`NeverWedged`: with no timer and no handler that settles, every operation is
answered, unless it is the holder of a queue that was closed.

**Keys.** `NoDuplicateWrite` lists every way in which two calls of one key can
both write: one of them was abandoned, or the first threw or died with the
process, or its window passed, or its key was evicted, or its journal record was
lost, or a load after a crash could not read the journal. Everything else is
excluded: a reload, and a crash after which the journal is read, included. `OneOutcome`: a
call given the outcome of another asked for the same thing under the same
`if_rev`, and if it is told "ok" the other did write. `KeyInOneState`: a key is
never in flight and completed at once.

**Writes.** `NoLostUpdate`: between a call's revision check and its write only an
abandoned call, or one left running by another instance, writes the note.
`RefusedNeverWrites`: a call told closed, conflict or mismatch wrote nothing
and never will. `CallsAnswered`: every call is answered, retries that wait on
an owner included.

**Records.** `OneRecordPerCall`: one record per finished call and at most one
correction, for abandoned calls only. `DedupeFollows`: of one instance, and
where no append failed, a "deduped" record comes after the record it names.
`JournalSafe`: in the files, each instance's lines stand in their order and once;
`UnstuckPart`: one rejected append does not hold up those behind it. `LinesKept`: no step takes a line out of a file,
but the one race in which two instances create it.

**Locks.** `LocksSafe`: one claim of a holder and scope, and both caps.
`KeepsClaims`: the store refines `ClaimTable`, in which claims go on time.

**A call of the host.** `AskedAll`: every hook that was there throughout was asked
and silent before a mutation is attempted, and nothing is attempted for a session
that was revoked when its turn came, as long as the hook that answers for revocation
was there. `ReportsTrue`: a write's bytes are reported once at
most, to an operation that named the note, and under another's name only when
the two ran side by side. `ReportedAlone`: a write with nothing beside it is reported
under its own. `PublicationSafe`: `NoGhosts` (nothing of a plugin that is gone is
offered or consulted), `AllRegistered` (whoever is loaded is), `NoStaleHandler`.
`AdoptionSafe`: `RecordedComplete` (what is recorded as adopted landed) and
`CleanAdoption` (a host in which nothing failed adopted all).

**Notes.** `MoveSafe`: what the move rewrote is named in its answer, indexed links
are rewritten, the text of others and their records stay, no note is destroyed.
`SchemeSafe`: a note lands on an address that no other has there which the plan could
see, in its territory, the caller is told what moved, and a renumber of the note that
alone bears the address, under the path it has, moves nothing. `BatchSafe`: an item
takes nothing a human put there unseen, nor a uid or a status it did not name, and
reports what landed. `ObservationsSafe`: a kept payload exists,
names its sources, is shown to nobody who may not read them, and the cap holds.

**Governor.** `MandatesSafe`: `CacheIsFile`, `RevokedStampsNothing`, `OneGrant` of a
negotiation (of two, the one on the older terms was given beside another),
`BudgetHeld` up to what was stamped meanwhile. `EndsForGood`: what
ended is never active again. `ReviewSafe`: a baseline is what a human reviewed or
what the code may advance silently, nothing unreviewed rides along or is hidden,
revert destroys nothing, a retraction holds. `CutoverSafe`: `GuardFollows` (the guard
of the legacy writers follows the marker), `EvidenceCurrent`, `RecordKept` (no
rollback of a record nobody read). `BaselinesSafe`: an acceptance is neither lost nor
given to another note, disk and cache agree once their steps are over, and a
baseline follows its note.

**Admission.** `EvidenceFirst`: what stands, or has a settlement record, is in
the claim file. `AnswersTrue`: "ok", "degraded" and every refusal are what
happened. `StandsOnce`: a decision stands once, a gesture is spent once.
`AuthorityFinal`: no projection update undoes a settled axis.
`AdmittedStands` and `StandingNotOffered`: at rest, and with no failure, a
proposal is marked admitted only under a claim that stands, and no member of a
decision that stands is offered. `LedgerRefined`: admission implements the ledger.
`ClicksAnswered`: a call that throws wedges nobody behind it.

**Failover.** `PresenceConverges`: a plugin that stays up, or stays away, comes
to be seen so for good. `NeverOvercounts`: no session is refused for one that is
gone. `CapUpToSpared`, `WatcherQuiet`: the cap and the watcher rule hold except
through the one race each that section 7 shows. `FsModeWatched`: FS mode never
serves from an index whose watcher was stopped.

**File server.** `FsKernelSafe`: calls are told, and recorded, what happened, in
order; `UnstuckPart`: neither a failed call nor a journal that cannot be written
wedges the queue. `FilesKept`: a call loses text only where
somebody changed the file between its read and its write. `IndexCurrent`:
when its events are over, the index says what the files say; `LikeRebuild`: what a
full build would find. `ChangeReachesIndex`: it comes to that.

**Bridge.** `NeverResent`, `OneReply`: a request reaches at most one server
once, and gets one answer. `HandshakeFirst`: a new server sees the handshake
before anything else. `FailedStaysUnsent`, `QueuedIsKept`: what the client was told
failed is not sent later, and what was queued is not lost. `RequestsAnswered`,
`ClientResumes`: every request is answered and a paused client goes on.

**Satellites.** `CrossSafe`: no entry is skipped but the ones minute precision
hides, receipts are kept. `SkillsSafe`: only accepted text is compiled where nothing
was changed since the look, the files follow the vault after the last export (embeds
of embeds included, down to the limit), none is unlisted, and a supporting file is
not lost.


## 4. Bounds, and why they are enough

| bound | value | why |
|---|---|---|
| `Ops` | 3, or 2 where a crash or reload multiplies the states | holder, first waiter, second waiter; a request and its retry |
| `Queues` | 2, or 1 in `kernel_queue` | the old and the new instance; a third adds no kind of neighbour |
| `Keys`, `StoreMax` | 2 keys with room for 1 (`kernel_queue`, `kernel_crash`); 1 key with room for 2 in `kernel_reload`, where nothing is evicted | eviction happens with one key too many |
| `MaxWindows` | 1 in `kernel_crash`, else 0 | the window passes once for each call |
| `OneTimeout` (`kernel_queue`) | one abandoned call | a state constraint of a safety run |
| `ThirdAlone` (`kernel_crash`) | the call of the other key runs alone, before the window passes, beside one abandoned call at most | a state constraint of a safety run: that call is there to take the store's only place; the request and its retry are not constrained while it has not come |
| `JournalFails` | TRUE in `kernel_crash`, else FALSE | any append may be lost, and any load may find the file unreadable |
| `FsCalls`, `MaxChanges` | 2 calls, 1 change by others | a call, its successor, and somebody between a read and a write |
| `TtlMin`, `TtlMax`, `Ttls`, `MaxNow` | 1, 2, {3}, 2 | a lifetime above the range is clamped; a claim expires while another lives |
| `LockMax`, `LockMaxPerHolder`, `MaxIds` | 2, 2, 3 | one claim too many for each cap |
| `Journals`, `Months`, `MaxAppends` | 2 each | two instances that create a month's file, and the turn of a month |
| `MaxLoads` | 4 | an adoption cut short at any step, its retry, and a load after it |
| `Drafts`, `Cap`, `MaxRefusals` | 3, 1, 1 | a draft, its counter and the counter of that; a budget one write spends; one failing append |
| `EmbedDepth` | 2 (the code's `MAX_EMBED_DEPTH` is 5) | an embed, an embed in it, and one below the limit; the theorem is about any depth |
| `MaxInstances` | 4 | host, provider and publisher load, and one loads again |
| `MaxEdits`, `MaxBuilds` | 2 and 2 | an edit during a build and one during an update; a build and its repetition |
| `MaxPending`, `RapidFailMax`, `MaxDeaths` | 2, 2, 2 | a full queue; a young death counted and one too many |
| `Calls`, `Decisions`, `Proposals` (admission) | 3 (2 in `admission_mounts`), 3, 2 | two rivals for one decision and one bystander, or a cohort and its member |
| `MaxMounts` | 2 in `admission_mounts`, else 1 | an old and a new wiring over the same stores |
| `MaxFaults` | 1, or 0 in `admission_cohort` | one failing read or write in any place; the cohort run's second property supposes none |
| `MaxMoves`, `MaxTimeouts` | 2 and 2, or 3 and 1 in the two counterexample runs | down, up and down again needs 3; a false outage needs 2 timeouts in a row |
| `Polls`, `Backends`, `MaxSessions`, `Builds` | 2, 2, 1, 2 | the interval's poll and the watch's; one session and one too many; a build and the one that overtakes it |

The other parts have no counters. Their constant `Starts`, `Plays`, `Scenes`,
`Histories`, `Sessions`, `Outings`, `Sightings`, `Trips`, `Batches`, `Meetings` or
`Tours` is a set of situations: what there is at the start, and which events may
come, each once, at any moment. A situation of `MCParts` names two or three
events, those that meet in one of the hazards; the order is TLC's to choose.
A theorem about such a part has no such bound: its situations are any set that
meets the module's assumption.

`failures` counts to 2 because the code asks only whether it reached 2. A
name in `Builds` is used again when its watcher is closed; when both are in
use, a third build is not followed (a disjunct of `Ready`), and nothing is
claimed of it. `RetrySymmetry` swaps the request and its retry, which have the
same key and arguments, and is used in a safety run only. `Moving`, the view of
`MCParts`, leaves out the variables of the parts that do not move.

Runs of everything but the failover end when all is over, so deadlock is not an
error there (`CHECK_DEADLOCK FALSE`); the liveness properties, and those that say
that somebody is never stuck, say that nothing stops too early. The failover runs
check deadlock.


## 5. Fairness, and why the code justifies it

- `QueueFairness`: microtasks run (`Pump`, `Start`, `StartRefused`), the clock
  advances (`DeadlinePasses`), and an open queue keeps being nudged, because
  callers keep calling: the design note of `write-queue.ts` (lines 150-156)
  relies on just that. Timers and handlers get no fairness: the first are
  suspended, the second may hang. Closed queues get no nudges.
- `KernelFairness` adds what the kernel runs in microtasks (`Dequeue`,
  `Finalize`, `Adopt`), the journal's chained writes (`Flush`), an `if_rev`
  refusal, which throws at once, and other calls that come to the loaded
  instance (`OtherCall`).
- `FairAdmissionSpec`: every await of a click is resolved, so a call that can
  take a step takes one. Edits, remounts and crashes are not fair.
- `FairFailoverSpec`: the interval starts polls for ever, and a probe answers
  within its 250 ms (`presence.ts`). The plugin's own moves are not fair, and
  neither are sessions nor builds.
- `RelayFairness`: a living server answers, a socket that can take bytes drains,
  the grace timer of the bridge fires (it runs in a process of its own, where
  timers are not suspended), a broken socket reports its close, and an attempt to
  reconnect ends one way or the other.
- `IndexFairness`: what the chain of builds and updates has begun goes on, a file
  event is delivered, and a debounce timer of the server process fires. Edits,
  builds that are asked for and `stop()` are not fair.


## 6. What is proved, and how

Eight modules of theorems, all checked by TLAPS to the last leaf, for every value
of the constants that meets the named assumptions.

| module | about | theorems |
|---|---|---|
| `WriteKernelProofs` | queue and kernel, with its keys and journal records | `QueueIsSafe`, `QueueAnswersOnce`, `QueueIsFifo`, `KernelImplementsQueue`, `RefusedCallsNeverWrite`, `KernelLosesNoUpdate`, `KeysAreSafe`, `KeysWriteOnce`, `RecordsAreTrue` |
| `AdmissionProofs` | admission | `AdmissionEvidence`, `AdmissionAnswersTrue`, `AdmissionImplementsLedger`, `AuthorityIsFinal`, `AdmissionOnce`, `AdmissionSeen`, `AdmissionTypeCorrect` |
| `FairProofs` | file index, relay, the HTTP front | `IndexIsSafe`, `RelayIsSafe`, `FailedIsKept`, `FrontIsSafe`, `WatcherOffInLiveMode`, `FsModeIsWatched`, `CountNeverOver`, `CapHoldsUpToSpared` |
| `HostProofs` | locks, journal file, publication, adoption, dispatch | `LocksAreSafe`, `LocksImplementTable`, `JournalInOrder`, `JournalIsSafe`, `JournalKeepsLines`, `PublicationIsSafe`, `AdoptionIsSafe`, `DispatchIsSafe` |
| `NotesProofs` | the file server's writes, moves, batches, addresses | `FsKernelIsSafe`, `FilesAreKept`, `MoveIsSafe`, `BatchIsSafe`, `SchemeIsSafe` |
| `SessionProofs` | observed payloads, channels, skills | `ObservationsAreSafe`, `CrossIsSafe`, `SkillsAreSafe` |
| `GovernorProofs` | cutover, mandates, baselines, review | `CutoverIsSafe`, `MandatesAreSafe`, `EndedStaysEnded`, `BaselinesAreSafe`, `ReviewIsSafe` |
| `PartsProofs` | the parts beside each other | one theorem for each property of `kernel_queue` that is about a part of the last four rows, but `UnstuckPart` |

**Assumptions.** They say what the constants are and nothing of the behaviour:
`NoneAssumption` and `KernelAssumption` (`None` is no operation, queue or key),
`AdmissionAssumption`, `PresenceAssumption`, `SessionsAssumption`,
`BuildsAssumption`, `IndexAssumption`, `RelayAssumption`, `JournalAssumption`,
`LockAssumption`, `PublicationAssumption`, `AdoptionAssumption`,
`DispatchAssumption`, `CutoverAssumption`, `MandateAssumption`, `BaselineAssumption`,
`ObservationAssumption`, `FsAssumption`, `ReviewAssumption`, `CrossAssumption`,
`MoveAssumption`, `BatchAssumption`, `SchemeAssumption`, `SkillsAssumption`. Finiteness
is asked where code counts or walks: the backends, the months of an old journal, the
calls on mandates, the payloads on a disk, the entries of a channel. One assumption says more. `StartAssumption` describes what earlier
runs left in `mandates.jsonl`: the fold of its lines is typed, orderly (a draft comes
after what it narrows, a grant after its draft) and unraced (one grant of a
negotiation, no budget spent). That a fold of every well-formed file is so would be an
induction over the file; TLC evaluates it on each start of the run. An older file
in which a race is on record starts outside of the theorem.

**The queue.** `Serialized` is not inductive: it says nothing of the pending list,
from which the next holder comes, nor of the answers, on which `Release`
depends. `QueueInv` adds that a holder executes and is unanswered, that a list holds
exactly the waiting operations of its queue, each once, and what phase and answer
say of each other. `NudgePreserves` carries most of the proof, since `run`,
`nudge` and the pump all end in `NudgeWith`.

**The kernel.** `KernelImplementsQueue` maps every kernel step, reloads and crashes
included, to a queue step or a stutter; so what is proved of the queue holds of the
kernel. `RefusedCallsNeverWrite` needs what the history of a call allows
(`HistoryInv`), `KernelLosesNoUpdate` needs `ProbeStands`: while a call runs
unabandoned, what was written after its probe is its own, or an abandoned
call's, or another instance's.

**Keys and records.** `FullInv` joins `KernelInv` to the store and the journal.
`KeyInv`: a reservation belongs to a call that is not over, what is stored under a key
is what its call did, and who adopts an outcome adopts that of a call with the same
request. `JournalInv`: a record tells what its call did, one per call and a correction
for the abandoned. `LivingHeld` is the heart: a call whose key nothing excuses (not
abandoned, not aged, not evicted, its record neither lost nor unreadable when a load
needed it) is still held by its key, in the store or, after a crash, in the file from
which a load seeds the store. Then a second write
under the key is a contradiction, by `PairsOK`; `AgedOK` says which window
passed over which write. What seeding computes is a fold over a journal
of any length. Where the proof needs the last record of a key, it takes the least number
of a set of positions (`LeastNumber`, from the well-foundedness of `<`), which is
as far as induction over data goes here.

**Admission.** `LedgerInv` ties the stage of a call to the stores (past "claimed" it
is in the file, past "advanced" it stands, past "stood" it is settled), which gives the
evidence and the step simulation of `StandingLedger`. `AnswerInv` adds that standing
has no repeats and that what a click read of it is a prefix. These hold for any
number of mounts, faults, crashes and overtaken reads. `ChainInv` says who is in a
mount's chain of calls and that only its first is at work. `OnceInv`, with one mount
and without overtaken reads, and `StoreInv` and `MarkInv`, when besides nothing fails,
say that cache and file agree at the duplicate check, and that a stored claim stands or
is about to. `AdmissionOnce` and `AdmissionSeen` have these conditions as hypotheses:
without them `AdmittedOnce` and `StandingSeen` are false (section 8). The runs that check
the two properties meet them.

**Failover.** `WatcherInv`: as long as no `stop()` met an unfinished build, the build
`ready()` returns is the only one under way and the only one with a watcher, and
neither the promise nor `watcher` names a build being closed. `SessionsInv` bounds
the counter by the live processes from above, and by those not spared from below.
The cap itself is disproved by a run.

**The file index.** `IndexInv`: the index's maps belong together (`IdsInv`), and
`CurrentInv`: for a note that the watcher would be told of, either what waits in
the chain will mend what the index says of it, or nothing that waits touches it and the
running job or the index has the file's text already. The chain's entries act like
writes to one register, so the proof is about the last entry for a path.

**The relay.** `RelayInv`: what was said, queued and written, each line counted
(`TimesInv`), who may still be answered (`AnswersInv`), and the order of what is
written as an embedding in the order of what was said (`OrderInv`). The pruning of a
queue has a closed form, `Without`, about which the lemmas are stated.

**Locks.** `LocksSafe` with the finiteness of the table is inductive; what clamping,
expiry and a path's scope do are the lemmas. `LocksImplementTable` is the simulation of
`ClaimTable`.

**The journal's file.** `JournalInOrder`: an instance's lines in its file and its
chain, taken together, are its appends in their order; the file that a look found
absent is absent unless another instance's look was under way. `JournalKeepsLines` is
the action property.

**Publication.** Who holds a registration, and on whose behalf (`HoldingsOK`,
`OwnersOK`), that who is loaded has heard of the host or registered with it
(`HeardOK`), and what a session was given (`SessionOK`).

**Adoption.** `PlanInv`: while files are copied, each one of the plan is there or
still to come. `LatchInv`: a file is half copied only if a load was cut short.
`AdoptedInv` follows through record, settings and load; `ListingNamesAll` is what
the listing of an older folder gives.

**Dispatch.** `LineInv`: the kernel's queue, of which the first holds the slot.
`AskedInv`: each hook that was in the list throughout a consult has been asked, or is at
or behind the index of the walk, which `dispose` may shift. `BoxInv`: the
mailbox holds the bytes of one write that was not reported yet. `BesideInv` and
`LoneInv`: a write with nothing beside it finds its own bytes there.

**Cutover.** `RecordInv`: what a gesture in flight knows of the marker it will
replace. `GuardInv`: a guard that is neither behind nor in the middle of a look
follows the marker. `EvidenceInv`: what had landed when the import's plan was made is on
the chain, or in what is left of the plan, once. Machines, gestures and mishaps
(a crash, a torn file, a sync) are of any number and order.

**Mandates.** `EndedStaysEnded` is about one line at a time: `Apply` never brings a
mandate back (`ApplyKeeps`). The rest holds while one array was made of the store's
cache, and `OneArrayInv` has three layers.

- `OrderInv`: the file is the cache plus the one line that has landed and is not yet
  pushed; and what a call found in the cache before it handed over its line still
  holds when the line lands, since lines only take drafts and grants further
  (`ApplySays`). A confirmed revocation is in the cache, so no stamp follows it.
- `GrantInv`: two grants of one negotiation that are in flight know of each other
  (`RivalInv`), and a grant in flight replaces whatever active one it would leave
  on older terms (`PutsAside`). That the lookup finds it is the lemma
  `NearestIsLast`: the negotiation is a chain (`NarrowedChain`), so the nearest
  grant up the chain has all others on older terms, and those are of races.
- `BudgetInv`: the charges in the file and those to come stay within the budget and
  what was stamped beside the last stamp, a count of finite sets; and while a budget is
  spent and its mandate active, a call is about to look.

The attempt to prove `OneGrant` changed it. It used to say that of two active grants of
one negotiation the two were given beside each other. With four calls that is false: two
rival grants on one draft stand side by side, and the grant on a counter-draft
replaces only one of them (`mandate-wiring.ts`, the walk stops at the first), so it
stands with a rival it was never beside. What holds, and is proved, is that the one
on the *older* terms was given beside another. The smaller instances of the run
never had enough calls to tell the two apart.

**Observations.** The cap is about a sum over a set, `MapThenSumSet`, which the
community module folds by recursion; `BytesAreSums` unfolds it once, with the element
that the fold chooses, and the laws (one more element, fewer elements) follow from a
minimal counterexample among finite sets, since an induction theorem cannot be
instantiated. `CountsOK`: a connection counts at least what its walk found and what
it added. `PutsOK`: a put that no other overlaps has seen every source that is stored, so
writing back what it saw takes none away.

**The file server's writes.** `FsInv` says of the call that runs what it has seen and
what the guard allowed over that; `FsTurns` and `FsRecorded` that calls wait, run and
are told in the order of their numbers, and are recorded so. `FilesAreKept` is the
action property: a step takes text of others only if they wrote it after the look.

**Baselines.** Renames, rekeys and acceptances cross each other in any number.
`RekeysOK`, `CacheOK` and `BlobsOK` say where an acceptance is, in the cache and on the
disk, at each stage of a rekey that nothing has crossed; `GivenOK`, that it is in
both unless a later one replaced it or another call crossed it; `FollowedOK`, that
it stands at its note's path or the repair has it in its plan; `PlanOK`, that the repair
goes by identity and not by path.

**Review.** `TextsInv` (no text names an edit that was not made), `ReviewedInv` (all
that is a baseline, or about to be one in anybody's hands, was answered for), `KeepsInv`
(what was made is in the note, was taken out by a human's revert, or was
trampled by one between its read and its write) and `ListInv`: the list is current,
or somebody is about to make it so. The last is what hides nothing.

**Channels.** `Sound` is what a receipt promises at its value: all that others
entered up to then was served, or came too late to be seen. `ReceiptsStand` says it of the file,
of the advice and of the host's receipts; `TalkStands` of what each call has in hand;
`TalkHolds` that, where no other call crossed, what a call read is still there.
`AdoptInv` and `TalkHosts` keep the host's receipts through the adoption.

**Moves.** `RoadInv` and `DestInv` say how far a move is and what was at its
destination; `OthersInv`, that what others wrote stands where nothing raced it; `ReadInv`,
that each note which linked is planned, is a record, or is still ahead; `CheckInv` counts
links, so that a note that lost one is listed as damaged; `FilesInv` is about the other road.

**Batches.** `UnderWay` (how far a write is, what it may still do and what the guard
allowed), `ToldTruly` (what an answer says came of an item) and `StampKept` (what a stamp
over a known note keeps). Items, keys, deadlines and intruders are of any number.

**Addresses.** `PlanRight`: a plan's moves go to addresses nobody bears, or
displace the bearer first; `JobRight`, how far a call may be; `JobKept`, that each note
the plan saw is where it was, or was moved by somebody else. `NextFreeRight` is
the lemma about the search for a number.

**Skills.** `VouchedInv`: all that is compiled, or that an export holds, was verified
or taken in haste. `ApartInv` and `ManifestInv` are about exports that do not meet.
`FollowInv` is the long one: of every note, either it was touched since, or
what the export has of it "comes right". It comes right by way of the three passes:
what was seen agrees with the index (`SeenRight`), the text grows along a chain of embeds
(`Partly`), and is in the end the whole chain (`FitsIndex`), whatever the depth
allowed and the embeds, cycles included. At rest the index agrees with the vault, and
`RestFollows` turns the one into the other.

**What the proofs found.** Each of these held in the run before, because the instance
was too small, or was worded so that no instance could break it.

- `FollowedOK` failed for two acceptances of one note under way at once, which may
  land in either order, and for an occupant without uid, which the repair skips.
- In `CrossSession`, the base of an overlapped post was taken for current after an
  attest had put a receipt back; a load that fails at the gate while the clock is set back,
  and an advice that is reset, had been left out. The model has them now.
- `LandsFree` did not except a note renamed while its own move was in flight, or one
  that a person put back. `NothingTwice` was false of a stale path: `planRenumber` does
  not check that `path` exists, so a renumber repeated word for word
  under `on_occupied: "auto"` displaces the very note it moved the first time.
- `SkillsExport` followed an embed and one in it, and never an empty vault. It now
  follows chains of embeds down to the code's limit, and an export that finds no note
  ends as one that finds no unit.

**The parts beside each other.** In `MCParts` each part makes its own steps or
none. `LocksStandAlone` and its like say so, one inclusion of initial states and
steps per part, and carry the theorem over to the run's specification.

**Only model-checked.**

- Liveness (`NeverWedged`, `CallsAnswered`, `ClicksAnswered`, `PresenceConverges`,
  `ClientServed`, `ChangeReachesIndex`): TLAPS proves nothing under fairness.
- `UnstuckPart` says by ENABLED that a queue is never stuck, and ENABLED is beyond
  the prover.
- What recursive definitions compute for every input: `Fold` of the mandate log (its
  results are assumed typed, as said), the journal fold that seeds the store.
- The properties of the four runs that end in a counterexample: they are false.

## 7. Disagreements between the code and what is said of it

Four have a run that ends in a counterexample.

1. `retry_twice`, `RetryWritesOnce`. README.md:94 says that a call which times out
   and is retried with its key writes once. The timeout frees the key while the
   abandoned handler keeps running, so the retry writes, and the first handler's
   write may still land.
2. `admission_unattached`, `RefusedOnlyIfStands`. `service.ts:21` calls the claim
   of an interrupted admission retriable. The duplicate check scans stored
   claims, not standing ones (`service.ts:290-298`), so each further click on that
   subject is refused as already admitted, though nothing stands.
3. `watcher_live`, `WatcherOffWhenLive`. `front.ts:160-162` says that the vault
   watcher must not run in LIVE mode. `stop()` returns at once while no watcher is
   assigned (`fs-mode.ts:446`), also during the build that is about to assign one.
4. `session_cap`, `CapHolds`. `live-proxy.ts:132-133` says that the counter bounds
   the true number of processes, those mid-initialize included. `teardownAll`
   closes the registered sessions and sets the counter to zero (`:323-332`): those
   mid-initialize live on uncounted.

`NoDuplicateWrite`, `WatcherQuiet` and `CapUpToSpared` are the same promises with
the exception written down, and pass. The other properties name their exceptions in the same
way. What follows was met while the modules were written; the property named
with it passes because it has the exception in its statement, or the behaviour is
outside of it.

**Keys and reloads.** README.md:94 says that the host forgets a key when the plugin
reloads; `docs/kernel-v0.md:167-169` and `docs/reference.md:145` say that keys live
in memory per plugin instance, that a reload or a restart of Obsidian clears them,
and that the same key then executes again; `docs/architecture.md:206` and
`docs/operation-contract.md:122` say so more briefly. The code does the opposite
(`main.ts:650-691`), and `docs/operator-guide.md:60` describes that: the store is
kept on `globalThis` across a reload, and seeded from the journal, which covers a
restart. `NoDuplicateWrite` and `KeysSafe` say what the code does: the same key does
not execute again. A load that cannot read the journal seeds nothing and goes on
(`:675`): after a crash the retry then writes a second time, though the record of
the first write is in the file. `NoDuplicateWrite` names that case (`unread`).

**Journal and keys.** `index.ts:591-594` says that a record always precedes the
deduped records that name it: within one instance, and when no append fails
(`DedupeFollows`). Two instances that create a month's file at once lose a line
(`journal.ts:276-279`, `LinesKept`).

**Adoption.** A host adoption that failed is not retried once settings were
written; a file torn by the end of the process is skipped by the retry, because it
exists, and the adoption is recorded as complete (`RecordedComplete` says that
files exist, `CleanAdoption` that they are whole where none was torn).

**Dispatch.** The mailbox needs no queue of its own, says `server.ts:219-224`; a
write abandoned at its deadline fills it beside the next operation, which then
reports those bytes (`ReportsTrue` names the case). A hook disposed while a consult
iterates the list makes the next one skipped (`seam.ts:274`, `AskedAll`).

**Publication.** A plugin whose tool name another plugin holds is not tried again
when the other one unloads (`AllRegistered`).

**Mandates.** Two first reads of the log that overlap make two arrays, and what is
pushed to the older one is not seen until a restart (`lifecycle.ts:144`; the
properties say `arrays = 1`). A session's record keeps the first mandate it was
given, also when that one is superseded: nothing is stamped from then on.
`markExpired` has no caller.

**Review queue.** A human who types while an agent's edit waits longer than the
classification window baselines it with their own; `acceptedAt` may be later than the content that
was read; accept reads the note anew and does not compare it with what the pane
showed; revert overwrites what was written between its read and its write,
though `accept.ts` says that it never deletes; a cutover may come between accept's check of the guard
and its `setBaseline`; an index write in flight at unmount brings the index back. The comment at
`wiring.ts:1037-1038` says that an overtaken refresh does not clobber the newer one.
That holds of the cached queue, not of the published index: of two refreshes that
passed the generation check one after the other, each writes the list it made
(`:1049-1054`), and if the older write lands last the file stays stale until
the next refresh (`NothingHidden` says `trail.reversed`).

**Cutover.** Rollback and bind check one read of the marker and decide on a second
(`migration-wiring.ts:190-195`). A torn write of the marker leaves neither
authority in force, against `cutover.ts:13-15`; a failed one leaves the guard open; a marker that
arrives by sync is not seen until the next look.

**Baselines.** The reconciliation moves whatever is at the old path; a swap of two
notes made while the plugin was off is not repaired; a note created at the path of
a deleted, accepted note inherits its baseline; the rollback of a failed rekey
races with a removal; an accept in flight during a rename lands at the old path.

**Moves.** The header of `move-with-links.ts` says that records are never
rewritten, but the moved note itself is not judged again (`:254-255`); "throws
only when the rename itself fails" (`:165-169`) does not hold of the rewriting; a link written between the scan and the rename dangles
and is not reported. In the file server, `rename` replaces a note created since
the check (`vault.ts:890-905`), and a source edited between its read and its write
loses the edit (`:990-1017`).

**Scheme.** "A race fails the move" (`tools-scheme-write.ts:120-124`) protects one
path: two notes with different titles can get one address. A retry with the original path
displaces or refuses the note itself (`mutate.ts:227-233`); of two notes at the
target only the first is displaced.

**Batches.** A metadata cache that lags makes a stamp mint a second uid or lower the acceptance status
in silence; the revision in a result is read after the write
returned; an item reported as timed out may land later; a stamped item retried under its
idempotency key is refused as a mismatch, though the schema says that it replays
(`tools-write-notes.ts:170-175`); an unreadable note is treated as absent
(`obsidian-backend.ts:166-186`).

**Observations.** Two overlapping puts of equal content lose one source, which
`local-store.ts:197-203` calls benign; the cap is per connection only while its calls do not overlap;
prune removes the current directory's payloads only.

**Channels between sessions.** Coverage has minute precision and is strict, so an
entry of the minute of the last attestation is never served; a log that cannot be
read lets a stale post through; receipts are overwritten after a load that failed.

**Export of skills.** A note's text is read after the frontmatter that vouches for
it (`exporter.ts:318-324`), so text nobody accepted reaches a prompt until the
next export; an export by the tool may overlap one by hand, and the older may
land last; a deletion asks for no export; a failed export is not retried.


## 8. Abstractions to keep in mind

- In `WriteKernel` the vault is one note. A revision is the number of writes so
  far. The code's is the file's modification time (`obsidian-probe.ts:76`): two
  writes with one time are one revision there and two here, a hazard on the list.
- An `if_rev` names a revision the note had at some time; a caller that invents
  one is a caller with an old one.
- A journal line torn by the end of the process is skipped by the load
  (`main.ts:685`): here it is a record that was not written. A load reads the file
  and seeds the store in one step.
- Arguments, envelopes and errors are model values. A write known only from the
  journal replays as "ok", as the code's recovered envelope does.
- What an agent or a human writes is a name of a text; whether it is mechanical,
  proposed or guarded is a set it belongs to. Frontmatter is the fields a
  property is about.
- `claims` is appended atomically and `casRef` compares and sets at once: its
  mutex makes it so within one repository object. The ref may be another mount's
  to move, and then the swap fails.
- `AdmissionSpec` with `SlowReads` lets a cold read of the claim file end after an
  append that it did not see. `StandsOnce` is checked for one mount without such
  reads, and proved for it. With two mounts or a late read, the duplicate check can
  miss a stored claim; what then holds is in the theorems: the ledger and the answers.
- The mandate arm of admission is absent: a call is a human's click.
- A poll is followed from the answer of its probe. `stop()` of the monitor, at
  process exit, is left out.
- A session's `initialize` is handled by the SDK in a later turn than the spawn;
  its messages after that are not followed.
- The relay's requests and answers are whole lines; framing is left out.
- What happens on a second machine is seen through sync only: a file changes.
- History variables, which no action of the code reads, are named as such where
  they are declared: `raced`, `spared`, `beside`, `faced`, `ghosts`,
  `unread` and others.


## 9. What is not modelled

`PROJECT.json` has every component with its status and the reason. In short:
what is a pure function (schemes' syntax, survey, codecs, vocabularies, verification
predicates), what is a thin wrapper (tools, panes, settings) and what belongs to a
library (OAuth, framing, git objects) is left out for good; most of the
repository's lines are of this kind. What keeps state and is still to come is in
the plan. Of `WriteKernel`, the record guard, the disclosure of locks and the
whole-read rule at the dequeue are not modelled (the record guard is, in
`BatchWrite`); of the governor, promotion and the sweep that admits under a
mandate are not. A failed read of the cutover's marker at a glance or a restart,
the import of the confirm phase, and a failed append to a session channel are left
out too.


## 10. Plan

Proofs. Every safety property of the passing runs is a theorem, but `UnstuckPart`.
What could follow:

1. `UnstuckPart` with the guards of the queues written out in the place of ENABLED: that a
   waiting call has a guard that holds is a state predicate, and provable.
2. The components that interact, composed: the dispatch over the kernel's queue, and the
   sweep with admission and mandates, for which the modules below are needed first.

Modelling.

1. The record guard and the whole-read memory at the dequeue: a second and third
   check in `WriteKernel.Dequeue`, and `RefusedNeverWrites` extended to them.
2. The sweep that admits under a mandate, composed with `Admission` and `Mandates`.
3. The seamless proxy (`semantic-proxy.ts:101`), the uid index, promotion.
