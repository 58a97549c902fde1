---------------------------- MODULE BaselineStore ----------------------------
(***************************************************************************)
(* The governor's baseline store (kernel/baseline-store.ts): one blob per  *)
(* note path that holds the text a human accepted.  A path is a place and  *)
(* not an identity, so the store follows Obsidian's rename events, and at  *)
(* the start a repair (kernel/baseline-reconcile.ts, wiring/wiring.ts)     *)
(* looks for the notes that moved unseen by the uid in the accepted text.  *)
(* The blobs are written behind a cache, and each step may fail or be the  *)
(* last before a crash.                                                    *)
(***************************************************************************)
EXTENDS Naturals, FiniteSets

CONSTANTS
  NotePaths, Notes, Nowhere,
  UidOf,      \* UidOf[n]: the uid in the note's properties, or NoUid; a copy has the same
  NoUid,
  Histories   \* placed: each note's path or Nowhere; had: the notes whose acceptance stands at
              \* the start, at their path; next: <<"rename", n, p>>, <<"offline", n, p>>,
              \* <<"create", n, p>>, <<"accept", n>>, <<"accept again", n>>, <<"delete", n>>,
              \* <<"stop">>, <<"fail">>, <<"retire">>: what may come, once each

ASSUME BaselineAssumption ==
  /\ Nowhere \notin NotePaths
  /\ \A h \in Histories :
       /\ h.placed \in [Notes -> NotePaths \cup {Nowhere}] /\ h.had \subseteq Notes
       /\ \A m, n \in Notes : h.placed[m] = h.placed[n] /\ h.placed[m] # Nowhere => m = n

VARIABLES
  placed,     \* placed[n]: the path of the note
  cache, blobs,  \* at each path the set of the acceptance there: {} or a singleton
  setting,    \* the setBaseline calls whose write is pending
  rekeys,     \* the rekey calls that have claimed their path
  plan, up, refusing, next,   \* refusing: the cutover has run
  count,      \* acceptances so far: each has a number, later ones a greater one
  given,      \* history: the acceptances that have landed
  over,       \* history: those that a later one at their path has replaced
  strayed, stale, crossed, misled   \* history: see Follows, DiskAgrees, Clashing, ByIdentity

bvars == <<placed, cache, blobs, setting, rekeys, plan, up, refusing, next, count, given, over,
           strayed, stale, crossed, misled>>

Acceptance(n, k) == [note |-> n, k |-> k]

BaselineInit ==
  /\ \E h \in Histories :
       /\ placed = h.placed /\ next = h.next
       /\ cache = [p \in NotePaths |-> {Acceptance(n, 1) : n \in {m \in h.had : h.placed[m] = p}}]
       /\ given = UNION {cache[p] : p \in NotePaths}
  /\ blobs = cache /\ setting = {} /\ rekeys = {} /\ plan = {} /\ up = TRUE /\ refusing = FALSE
  /\ count = 1 /\ over = {} /\ strayed = {} /\ stale = {} /\ crossed = {} /\ misled = {}

Occupants(p) == {n \in Notes : placed[n] = p}
Happens(e)   == e \in next /\ next' = next \ {e}
IoFails      == Happens(<<"fail">>)

-----------------------------------------------------------------------------
\* setBaseline, of the text that was read at the note's path.
AcceptAt(n, e) ==
  /\ up /\ ~refusing /\ placed[n] # Nowhere /\ Happens(e) /\ count' = count + 1
  /\ setting' = setting \cup {[path |-> placed[n], rec |-> Acceptance(n, count')]}
  /\ UNCHANGED <<placed, cache, blobs, rekeys, plan, up, refusing, given, over, strayed, stale,
                 crossed, misled>>

\* history: a note that has left the path since strays, and so does one whose acceptance
\* stood there, or that was accepted later and landed first.
LandBaselineAt(s) ==
  /\ s \in setting /\ setting' = setting \ {s}
  /\ cache' = [cache EXCEPT ![s.path] = {s.rec}] /\ blobs' = [blobs EXCEPT ![s.path] = {s.rec}]
  /\ given' = given \cup {s.rec}
  /\ over' = over \cup cache[s.path]
  /\ stale' = stale \ {s.path}
  /\ strayed' = (strayed \ {s.rec.note}) \cup
                {n \in {s.rec.note} : placed[n] # s.path \/ \E g \in given : g.note = n /\ g.k > s.rec.k} \cup
                {r.note : r \in {x \in cache[s.path] : x.note # s.rec.note}}
  /\ crossed' = crossed \cup {m.rec : m \in {x \in rekeys : s.path \in {x.from, x.to}}}
                        \cup {s.rec : m \in {x \in rekeys : s.path \in {x.from, x.to}}}
  /\ UNCHANGED <<placed, rekeys, plan, up, refusing, next, count, misled>>

\* The write throws before the cache is touched: nothing was accepted.
BaselineFails(s) ==
  /\ s \in setting /\ IoFails /\ setting' = setting \ {s}
  /\ UNCHANGED <<placed, cache, blobs, rekeys, plan, up, refusing, count, given, over, strayed,
                 stale, crossed, misled>>

-----------------------------------------------------------------------------
\* Mutant of Claimable: the destination's own acceptance is not looked at.
ClaimableAlways(from, to) == from # to /\ cache[from] # {}

\* rekey, as far as its first await: it refuses, or takes the destination at once.
Claimable(from, to) == from # to /\ cache[from] # {} /\ cache[to] = {}

ClaimPath(from, to, by) ==
  /\ cache' = [cache EXCEPT ![to] = cache[from], ![from] = {}]
  /\ rekeys' = rekeys \cup {[from |-> from, to |-> to, by |-> by, at |-> "write",
                             rec |-> CHOOSE r \in cache[from] : TRUE]}

Touching(m) == {x \in rekeys \ {m} : {x.from, x.to} \cap {m.from, m.to} # {}}
Clashing(m) == crossed \cup IF Touching(m) # {} \/ (\E s \in setting : s.path \in {m.from, m.to})
                            THEN {m.rec} \cup {x.rec : x \in Touching(m)} ELSE {}

LandRekey(m) ==
  /\ m \in rekeys /\ m.at = "write" /\ blobs' = [blobs EXCEPT ![m.to] = {m.rec}]
  /\ rekeys' = (rekeys \ {m}) \cup {[m EXCEPT !.at = "remove"]} /\ crossed' = Clashing(m)
  /\ UNCHANGED <<placed, cache, setting, plan, up, refusing, next, count, given, over, strayed,
                 stale, misled>>

\* The write failed: the claim is rolled back, whatever the cache says by now.
RekeyFails(m) ==
  /\ m \in rekeys /\ m.at = "write" /\ IoFails /\ rekeys' = rekeys \ {m}
  /\ cache' = [cache EXCEPT ![m.to] = {}, ![m.from] = {m.rec}]
  /\ strayed' = strayed \cup {m.rec.note}
  /\ crossed' = Clashing(m) \cup IF cache[m.to] # {m.rec} \/ cache[m.from] # {}
                                 THEN {m.rec} \cup cache[m.to] \cup cache[m.from] ELSE {}
  /\ UNCHANGED <<placed, blobs, setting, plan, up, refusing, count, given, over, stale, misled>>

\* Mutant of Removed: the cleanup is left out.
NotRemoved(m) == blobs

Removed(m) == [blobs EXCEPT ![m.from] = {}]

\* A removal that fails leaves the old blob, and the rekey goes on.
RemoveOld(m) ==
  /\ m \in rekeys /\ m.at = "remove" /\ rekeys' = rekeys \ {m} /\ crossed' = Clashing(m)
  /\ \/ blobs' = Removed(m) /\ UNCHANGED <<stale, next>>
     \/ IoFails /\ stale' = stale \cup {m.from} /\ UNCHANGED blobs
  /\ UNCHANGED <<placed, cache, setting, plan, up, refusing, count, given, over, strayed, misled>>

-----------------------------------------------------------------------------
\* Obsidian's rename and its event.
\* history: the acceptance stays behind when the destination has one, of whatever note.
Rename(n, q) ==
  /\ up /\ placed[n] # Nowhere /\ Occupants(q) = {} /\ Happens(<<"rename", n, q>>)
  /\ placed' = [placed EXCEPT ![n] = q]
  /\ IF Claimable(placed[n], q) /\ ~refusing
     THEN ClaimPath(placed[n], q, "event") /\ UNCHANGED strayed
     ELSE /\ UNCHANGED <<cache, rekeys>>
          /\ strayed' = strayed \cup IF cache[placed[n]] = {} THEN {} ELSE {n}
  /\ UNCHANGED <<blobs, setting, plan, up, refusing, count, given, over, stale, crossed, misled>>

Elsewhere == UNCHANGED <<cache, blobs, setting, rekeys, plan, up, refusing, count, given, over,
                         stale, crossed, misled>>

\* Unseen: the plugin is not running.
MovesOffline(n, q) ==
  /\ ~up /\ placed[n] # Nowhere /\ Occupants(q) = {} /\ Happens(<<"offline", n, q>>)
  /\ placed' = [placed EXCEPT ![n] = q] /\ strayed' = strayed \cup {n} /\ Elsewhere

\* A new note, or a copy; the store is not told.
CreateNote(n, q) ==
  /\ placed[n] = Nowhere /\ Occupants(q) = {} /\ Happens(<<"create", n, q>>)
  /\ placed' = [placed EXCEPT ![n] = q] /\ UNCHANGED strayed /\ Elsewhere

\* No acceptance is ever deleted.
DeleteNote(n) ==
  /\ placed[n] # Nowhere /\ Happens(<<"delete", n>>)
  /\ placed' = [placed EXCEPT ![n] = Nowhere] /\ strayed' = strayed \cup {n} /\ Elsewhere

-----------------------------------------------------------------------------
\* history: what is under way is lost with the process, and with it the acceptances not written.
StopGovernor ==
  /\ up /\ Happens(<<"stop">>) /\ up' = FALSE /\ setting' = {} /\ rekeys' = {} /\ plan' = {}
  /\ cache' = [p \in NotePaths |-> {}]
  /\ crossed' = crossed \cup {m.rec : m \in {x \in rekeys : Touching(x) # {}}}
  /\ stale' = stale \cup {m.from : m \in {x \in rekeys : x.at = "remove"}}
  /\ strayed' = strayed \cup {m.rec.note : m \in rekeys \cup plan}
  /\ UNCHANGED <<placed, blobs, refusing, count, given, over, misled>>

\* planBaselineReconcile, over the store and the notes' uids as they are now.
Bearers(u)     == {n \in Notes : placed[n] # Nowhere /\ UidOf[n] = u}
Identity(r) == UidOf[r.note]

\* Mutant of Drifted: only an empty path is looked at.
DriftedIfVacant(p, r) == Occupants(p) = {}

\* Mutant of Resolves: the first of several notes with the uid will do.
ResolvesToAny(p, r, q) ==
  /\ Identity(r) # NoUid /\ cache[q] = {}
  /\ \E n \in Bearers(Identity(r)) : placed[n] = q

Drifted(p, r) ==
  \A n \in Occupants(p) : NoUid \notin {Identity(r), UidOf[n]} /\ Identity(r) # UidOf[n]

Resolves(p, r, q) ==
  /\ Identity(r) # NoUid /\ cache[q] = {}
  /\ Cardinality(Bearers(Identity(r))) = 1 /\ \A n \in Bearers(Identity(r)) : placed[n] = q

\* Of those that resolve to one path, the acceptance given last.
Repoints ==
  LET able == {m \in [from : NotePaths, to : NotePaths, rec : UNION {cache[p] : p \in NotePaths}] :
                 /\ m.from # m.to /\ m.rec \in cache[m.from]
                 /\ Drifted(m.from, m.rec) /\ Resolves(m.from, m.rec, m.to)}
  IN {m \in able : \A o \in able : o.to = m.to => o.rec.k <= m.rec.k}

\* load, and the repair once the metadata cache is resolved.
StartGovernor ==
  /\ ~up /\ up' = TRUE /\ cache' = blobs
  /\ UNCHANGED <<placed, blobs, setting, rekeys, plan, refusing, next, count, given, over, strayed,
                 stale, crossed, misled>>

\* history: it is to find each note that alone bears its uid, where no acceptance stands by
\* now, by its last acceptance, if no note without a uid lies there and none of its uid is later.
Findable ==
  {n \in Notes :
     /\ UidOf[n] # NoUid /\ Bearers(UidOf[n]) = {n} /\ cache[placed[n]] = {}
     /\ \E q \in NotePaths : \E r \in cache[q] :
          /\ r.note = n /\ \A s \in given : s.note = n => s.k <= r.k
          /\ \A x \in Occupants(q) : UidOf[x] # NoUid
          /\ \A p \in NotePaths : \A s \in cache[p] : Identity(s) = UidOf[n] => s.k <= r.k}

PlanRepair ==
  /\ up /\ ~refusing /\ Happens(<<"resolved">>)
  /\ plan' = {[from |-> m.from, to |-> m.to, rec |-> m.rec, then |-> placed] : m \in Repoints}
  /\ strayed' = strayed \ Findable
  /\ UNCHANGED <<placed, cache, blobs, setting, rekeys, up, refusing, count, given, over, stale,
                 crossed, misled>>

\* One planned move after another; each is a rekey of what is at the path by now.
\* history: what is moved elsewhere than to its note, or refused, has strayed.
Repair(m) ==
  /\ m \in plan /\ plan' = plan \ {m} /\ ~\E x \in rekeys : x.by = "repair"
  /\ IF Claimable(m.from, m.to) /\ ~refusing
     THEN /\ ClaimPath(m.from, m.to, "repair")
          /\ misled' = misled \cup {r \in cache[m.from] : /\ r = m.rec /\ placed = m.then
                                                         /\ placed[r.note] \notin {Nowhere, m.to}}
          /\ strayed' = strayed \cup {r.note : r \in {x \in cache[m.from] : placed[x.note] # m.to}}
                                \cup {n \in {m.rec.note} : m.rec \notin cache[m.from]}
     ELSE /\ UNCHANGED <<cache, rekeys, misled>> /\ strayed' = strayed \cup {m.rec.note}
  /\ UNCHANGED <<placed, blobs, setting, up, refusing, next, count, given, over, stale, crossed>>

\* The cutover: from here on no baseline is written or moved.
RefuseWriters ==
  /\ Happens(<<"retire">>) /\ refusing' = TRUE
  /\ UNCHANGED <<placed, cache, blobs, setting, rekeys, plan, up, count, given, over, strayed, stale,
                 crossed, misled>>

BaselineNext ==
  \/ \E n \in Notes : \/ \E w \in {"accept", "accept again"} : AcceptAt(n, <<w, n>>)
                      \/ DeleteNote(n)
  \/ \E n \in Notes, q \in NotePaths : Rename(n, q) \/ MovesOffline(n, q) \/ CreateNote(n, q)
  \/ \E s \in setting : LandBaselineAt(s) \/ BaselineFails(s)
  \/ \E m \in rekeys : LandRekey(m) \/ RekeyFails(m) \/ RemoveOld(m)
  \/ StopGovernor \/ StartGovernor \/ PlanRepair \/ \E m \in plan : Repair(m)
  \/ RefuseWriters

BaselineSpec == BaselineInit /\ [][BaselineNext]_bvars

-----------------------------------------------------------------------------
BaselineTypeOK ==
  /\ placed \in [Notes -> NotePaths \cup {Nowhere}] /\ \A q \in NotePaths : Cardinality(Occupants(q)) <= 1
  /\ \A q \in NotePaths : Cardinality(cache[q]) <= 1 /\ Cardinality(blobs[q]) <= 1
  /\ given \subseteq [note : Notes, k : 1..count]

\* An acceptance that landed is in the cache and on the disk, unless a later one
\* at its path replaced it, or calls for one path overlapped.
AcceptancesKept ==
  /\ given \subseteq (UNION {blobs[q] : q \in NotePaths}) \cup over \cup crossed
  /\ up => given \subseteq (UNION {cache[q] : q \in NotePaths}) \cup over \cup crossed

Calm == up /\ setting = {} /\ rekeys = {} /\ plan = {}

\* What a restart would load is what is in the cache, save the blob that a failed or
\* interrupted removal left, and where calls for one path overlapped.
DiskAgrees ==
  Calm => \A q \in NotePaths :
    blobs[q] = cache[q] \/ q \in stale \/ (blobs[q] \cup cache[q]) \cap crossed # {}

\* The last acceptance of a note stands at the note's path, wherever it was renamed
\* to.  Astray is a note that moved unseen or while it was being accepted, whose new
\* path had an acceptance, whose rekey failed or was cut short, whose acceptance
\* another's has replaced, two of whose acceptances were under way and the older came
\* last, or that was deleted; until it is accepted anew, or the repair looks for it and
\* can find it.
Follows ==
  Calm => \A n \in Notes : \A r \in given :
            /\ r.note = n /\ n \notin strayed /\ placed[n] # Nowhere
            /\ \A s \in given : s.note = n => s.k <= r.k
            => r \in cache[placed[n]] \cup crossed

\* The repair attaches no acceptance to another note while its own note lives
\* elsewhere, unless notes moved between the plan and the step.
ByIdentity == misled = {}

BaselinesSafe == BaselineTypeOK /\ AcceptancesKept /\ DiskAgrees /\ Follows /\ ByIdentity
=============================================================================
