------------------------------- MODULE Failover -------------------------------
(***************************************************************************)
(* The unified front (packages/server/src/front.ts): a request goes to the *)
(* live proxy or to the file-system handler, by what the presence monitor  *)
(* says when it comes in, and wireFailover couples the monitor's events to *)
(* the two.  Events are emitted within the poll that finds the change.     *)
(***************************************************************************)
EXTENDS Presence, LiveProxy, FsHandler

frontVars == <<pvars, lvars, fvars>>

FailoverInit == PresenceInit /\ LiveInit /\ FsInit

\* A poll resolves; on "down" the sessions are torn down and the index is
\* prewarmed, on "up" the watcher is stopped.
Resolve(i) ==
  /\ PollResolves(i)
  /\ \/ EmitsDown /\ TeardownAll /\ Ready
     \/ EmitsUp /\ Stop /\ UNCHANGED lvars
     \/ ~EmitsDown /\ ~EmitsUp /\ UNCHANGED <<lvars, fvars>>

\* A request that opens a session, and one that is served from the files.
LiveRequest(b) == cached /\ MakeSession(b) /\ UNCHANGED <<pvars, fvars>>
FsRequest      == ~cached /\ Ready /\ UNCHANGED <<pvars, lvars>>

PresenceStep ==
  /\ \/ \E status \in {"up", "refusing", "gone"} : PluginMoves(status)
     \/ \E i \in Polls : ProbeConnects(i) \/ ProbeFails(i)
  /\ UNCHANGED <<lvars, fvars>>

SessionStep ==
  /\ \E b \in Backends : SessionInitialized(b) \/ InitializeFails(b) \/ Teardown(b)
  /\ UNCHANGED <<pvars, fvars>>

FsStep ==
  /\ \E g \in Builds :
       IndexBuilt(g) \/ WatcherReady(g) \/ WatcherClosed(g) \/ BuildForgotten(g)
  /\ UNCHANGED <<pvars, lvars>>

FailoverNext ==
  \/ PresenceStep
  \/ SessionStep
  \/ FsStep
  \/ \E i \in Polls : Resolve(i)
  \/ \E b \in Backends : LiveRequest(b)
  \/ FsRequest

FailoverSpec == FailoverInit /\ [][FailoverNext]_frontVars

\* The interval starts polls, and every probe is answered within 250 ms.
FairFailoverSpec ==
  /\ FailoverSpec
  /\ \A i \in Polls :
       /\ WF_frontVars((ProbeConnects(i) \/ ProbeFails(i)) /\ UNCHANGED <<lvars, fvars>>)
       /\ WF_frontVars(Resolve(i))

-----------------------------------------------------------------------------
\* Types; the counter stays within the cap, and a watcher runs only for a build
\* that got that far.
FailoverTypeOK ==
  /\ plugin \in {"up", "refusing", "gone"} /\ moves \in 0..MaxMoves
  /\ cached \in BOOLEAN /\ failures \in 0..2
  /\ poll \in [Polls -> {"idle", "connected", "failed"}]
  /\ timeouts \in 0..MaxTimeouts
  /\ backend \in [Backends -> BackendStages]
  /\ liveBackends \in 0..MaxSessions /\ spared \subseteq Backends
  /\ readyPromise \in Builds \cup {NoBuild} /\ watcher \in Builds \cup {NoBuild}
  /\ build \in [Builds -> BuildStages]
  /\ closing \subseteq running /\ running \subseteq Builds /\ raced \in BOOLEAN
  /\ \A g \in Builds : g \in running <=> build[g] \in {"starting", "done"}

\* The counter never counts a backend that is gone: no initialize is refused
\* (503) for the sake of sessions that do not exist any more.
NeverOvercounts == liveBackends <= Cardinality(Alive)

\* The processes that live at once exceed MaxSessions at most by the backends a
\* teardownAll found not yet registered: it resets the count under them.
CapUpToSpared == Cardinality(Alive) <= MaxSessions + Cardinality(spared)

\* live-proxy.ts:132-133: the counter counts every live backend, those still
\* mid-initialize too, "so maxSessions bounds the true process count".
CapHolds == Cardinality(Alive) <= MaxSessions

\* front.ts:160: the vault watcher "must not run during LIVE mode"; all that
\* runs then is a watcher being closed.
WatcherOffWhenLive == cached => running \subseteq closing

\* The same, and one watcher at a time in FS mode, as long as stop() never met
\* a build that was still under way.
WatcherQuiet ==
  ~raced => /\ cached => running \subseteq closing
            /\ Cardinality(running \ closing) <= 1

\* FS mode never serves from an index whose watcher was stopped: once the build
\* that ready() returns is over, its watcher runs and is not being closed.
FsModeWatched ==
  readyPromise # NoBuild /\ build[readyPromise] = "done"
    => readyPromise \in running \ closing

\* Liveness: when the plugin stays reachable, or stays unreachable, the monitor
\* comes to say so and keeps saying so, whatever polls were still in flight.
PresenceConverges ==
  /\ <>[](plugin = "up") => <>[]cached
  /\ <>[](plugin # "up") => <>[]~cached

\* What the front promises of its state: the count of sessions, the cap but for spared
\* backends, and the watcher of each mode.
FrontSafe ==
  FailoverTypeOK /\ NeverOvercounts /\ CapUpToSpared /\ WatcherQuiet /\ FsModeWatched

=============================================================================
