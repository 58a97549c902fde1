------------------------------- MODULE LiveProxy -------------------------------
(***************************************************************************)
(* The live proxy (packages/server/src/live-proxy.ts): one bridge.mjs      *)
(* process per MCP session, and the counter that bounds how many there are.*)
(*                                                                         *)
(* A backend is one spawned process.  It is starting until its client's    *)
(* initialize was handled, then open (registered under a session id) or    *)
(* pending (the initialize was refused, or the process failed to start).   *)
(***************************************************************************)
EXTENDS Naturals, FiniteSets

CONSTANTS Backends, MaxSessions

ASSUME SessionsAssumption ==
  IsFiniteSet(Backends) /\ MaxSessions \in Nat /\ MaxSessions > 0

VARIABLES
  backend,       \* backend[b]: its stage
  liveBackends,  \* the counter
  spared         \* the backends some teardownAll found not registered

lvars == <<backend, liveBackends, spared>>

BackendStages == {"none", "starting", "pending", "open", "closed"}

LiveInit ==
  /\ backend = [b \in Backends |-> "none"]
  /\ liveBackends = 0
  /\ spared = {}

Alive      == {b \in Backends : backend[b] \in {"starting", "pending", "open"}}
Registered == {b \in Backends : backend[b] = "open"}

\* Mutants of MakeSession: the bound looks at the registered sessions only, or is
\* off by one.
MakeSessionRegistered(b) ==
  /\ Cardinality(Registered) < MaxSessions
  /\ backend[b] = "none"
  /\ backend' = [backend EXCEPT ![b] = "starting"]
  /\ liveBackends' = liveBackends + 1
  /\ UNCHANGED spared

MakeSessionOneMore(b) ==
  /\ liveBackends <= MaxSessions
  /\ backend[b] = "none"
  /\ backend' = [backend EXCEPT ![b] = "starting"]
  /\ liveBackends' = liveBackends + 1
  /\ UNCHANGED spared

\* An initialize request: makeSession spawns a backend, if there is room.
MakeSession(b) ==
  /\ liveBackends < MaxSessions
  /\ backend[b] = "none"
  /\ backend' = [backend EXCEPT ![b] = "starting"]
  /\ liveBackends' = liveBackends + 1
  /\ UNCHANGED spared

SessionInitialized(b) ==
  /\ backend[b] = "starting"
  /\ backend' = [backend EXCEPT ![b] = "open"]
  /\ UNCHANGED <<liveBackends, spared>>

InitializeFails(b) ==
  /\ backend[b] = "starting"
  /\ backend' = [backend EXCEPT ![b] = "pending"]
  /\ UNCHANGED <<liveBackends, spared>>

\* Mutant of Teardown: an uninitialized backend keeps its place in the count.
TeardownOpen(b) ==
  /\ backend[b] \in {"pending", "open"}
  /\ backend' = [backend EXCEPT ![b] = "closed"]
  /\ liveBackends' =
       IF liveBackends = 0 \/ backend[b] = "pending" THEN liveBackends ELSE liveBackends - 1
  /\ UNCHANGED spared

\* The process exits, the client closes, the session idles out, or the
\* initialize did not complete in time.
Teardown(b) ==
  /\ backend[b] \in {"pending", "open"}
  /\ backend' = [backend EXCEPT ![b] = "closed"]
  /\ liveBackends' = IF liveBackends = 0 THEN 0 ELSE liveBackends - 1
  /\ UNCHANGED spared

TeardownAll ==
  /\ backend' = [b \in Backends |-> IF backend[b] = "open" THEN "closed" ELSE backend[b]]
  /\ liveBackends' = 0
  /\ spared' = spared \cup (Alive \ Registered)

=============================================================================
