------------------------------- MODULE FsHandler -------------------------------
(***************************************************************************)
(* The life of the file-system handler's index and vault watcher           *)
(* (createFsHandler in packages/server/src/fs-mode.ts): ready() starts     *)
(* both once, stop() ends the watcher and re-arms ready().                 *)
(*                                                                         *)
(* A build is one run of ready()'s asynchronous body, and names the vault  *)
(* watcher it starts.  A name is used again once its watcher is closed.    *)
(***************************************************************************)
CONSTANTS Builds, NoBuild

ASSUME BuildsAssumption == NoBuild \notin Builds

VARIABLES
  readyPromise,  \* the build ready() returns, or NoBuild
  watcher,       \* the watcher stop() would close, or NoBuild
  build,         \* build[g]: how far it has come
  running,       \* the vault watchers that are running
  closing,       \* those stop() is closing
  raced          \* whether stop() ever ran while a build was unfinished

fvars == <<readyPromise, watcher, build, running, closing, raced>>

BuildStages == {"none", "indexing", "starting", "done", "skipped"}

FsInit ==
  /\ readyPromise = NoBuild
  /\ watcher = NoBuild
  /\ build = [g \in Builds |-> "none"]
  /\ running = {}
  /\ closing = {}
  /\ raced = FALSE

Unfinished == {g \in Builds : build[g] \in {"indexing", "starting"}}

Ready ==
  \/ readyPromise # NoBuild /\ UNCHANGED fvars
  \/ /\ readyPromise = NoBuild
     /\ \E g \in Builds :
          /\ build[g] = "none"
          /\ build' = [build EXCEPT ![g] = "indexing"]
          /\ readyPromise' = g
     /\ UNCHANGED <<watcher, running, closing, raced>>
  \/ \* Bound: when every name is in use, a further build is not followed.
     readyPromise = NoBuild /\ (\A g \in Builds : build[g] # "none") /\ UNCHANGED fvars

\* The index is built, and the watcher is created; it is assigned when it is
\* ready.  Without an index, or when the watcher cannot start, there is none.
IndexBuilt(g) ==
  /\ build[g] = "indexing"
  /\ \/ /\ build' = [build EXCEPT ![g] = "starting"]
        /\ running' = running \cup {g}
     \/ /\ build' = [build EXCEPT ![g] = "skipped"]
        /\ UNCHANGED running
  /\ UNCHANGED <<readyPromise, watcher, closing, raced>>

WatcherReady(g) ==
  /\ build[g] = "starting"
  /\ build' = [build EXCEPT ![g] = "done"]
  /\ watcher' = g
  /\ UNCHANGED <<readyPromise, running, closing, raced>>

\* Mutants of Stop: ready() is not re-armed; the watcher is forgotten, not closed.
StopKeepsPromise ==
  /\ watcher' = NoBuild
  /\ closing' = IF watcher = NoBuild THEN closing ELSE closing \cup {watcher}
  /\ raced' = (raced \/ Unfinished # {})
  /\ UNCHANGED <<readyPromise, build, running>>

StopForgets ==
  /\ readyPromise' = NoBuild
  /\ watcher' = NoBuild
  /\ raced' = (raced \/ Unfinished # {})
  /\ UNCHANGED <<build, running, closing>>

Stop ==
  /\ readyPromise' = NoBuild
  /\ watcher' = NoBuild
  /\ closing' = IF watcher = NoBuild THEN closing ELSE closing \cup {watcher}
  /\ raced' = (raced \/ Unfinished # {})
  /\ UNCHANGED <<build, running>>

WatcherClosed(g) ==
  /\ g \in closing
  /\ closing' = closing \ {g}
  /\ running' = running \ {g}
  /\ build' = [build EXCEPT ![g] = "none"]
  /\ UNCHANGED <<readyPromise, watcher, raced>>

\* A build that started no watcher, and that ready() no longer returns, is no more.
BuildForgotten(g) ==
  /\ build[g] = "skipped"
  /\ readyPromise # g
  /\ build' = [build EXCEPT ![g] = "none"]
  /\ UNCHANGED <<readyPromise, watcher, running, closing, raced>>

=============================================================================
