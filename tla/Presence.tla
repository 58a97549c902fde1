------------------------------- MODULE Presence -------------------------------
(***************************************************************************)
(* The presence monitor (packages/server/src/presence.ts): it decides      *)
(* whether the Obsidian plugin is reachable by connecting to its socket.   *)
(*                                                                         *)
(* Polls come from an interval and from a watch on the socket's directory, *)
(* so two of them can be in flight, and a probe that runs into its 250 ms  *)
(* timeout answers after a later one.                                      *)
(***************************************************************************)
EXTENDS Naturals

CONSTANTS
  Polls,        \* the polls that can be in flight at once
  MaxMoves,     \* how often the plugin comes, goes or hangs
  MaxTimeouts   \* how many probes of a reachable plugin time out

ASSUME PresenceAssumption == MaxMoves \in Nat /\ MaxTimeouts \in Nat

VARIABLES
  plugin,    \* the socket: "up", "refusing" (a file that refuses), or "gone"
  moves,     \* how often it changed
  cached,    \* isLive()
  failures,  \* consecutiveConnectFailures, counted up to 2
  poll,      \* poll[i]: "idle", or the answer of its probe, not yet acted on
  timeouts   \* how many probes timed out

pvars == <<plugin, moves, cached, failures, poll, timeouts>>

PresenceInit ==
  /\ plugin = "gone"
  /\ moves = 0
  /\ cached = FALSE
  /\ failures = 0
  /\ poll = [i \in Polls |-> "idle"]
  /\ timeouts = 0

\* Obsidian loads the plugin, crashes and leaves the file behind, or unloads it.
PluginMoves(status) ==
  /\ plugin # status
  /\ moves < MaxMoves
  /\ moves' = moves + 1
  /\ plugin' = status
  /\ UNCHANGED <<cached, failures, poll, timeouts>>

\* A poll is followed from the moment its probe is answered.
ProbeConnects(i) ==
  /\ poll[i] = "idle"
  /\ plugin = "up"
  /\ poll' = [poll EXCEPT ![i] = "connected"]
  /\ UNCHANGED <<plugin, moves, cached, failures, timeouts>>

ProbeFails(i) ==
  /\ poll[i] = "idle"
  /\ \/ plugin # "up" /\ UNCHANGED timeouts
     \/ plugin = "up" /\ timeouts < MaxTimeouts /\ timeouts' = timeouts + 1
  /\ poll' = [poll EXCEPT ![i] = "failed"]
  /\ UNCHANGED <<plugin, moves, cached, failures>>

PollLive(i) ==
  /\ poll[i] = "connected"
  /\ failures' = 0
  /\ cached' = TRUE
  /\ poll' = [poll EXCEPT ![i] = "idle"]
  /\ UNCHANGED <<plugin, moves, timeouts>>

\* A failed probe, when the socket file is gone by now.
PollGone(i) ==
  /\ poll[i] = "failed"
  /\ plugin = "gone"
  /\ failures' = 0
  /\ cached' = FALSE
  /\ poll' = [poll EXCEPT ![i] = "idle"]
  /\ UNCHANGED <<plugin, moves, timeouts>>

\* Mutant of PollRefused: each failure starts the count again.
PollRefusedOnce(i) ==
  /\ poll[i] = "failed"
  /\ plugin # "gone"
  /\ failures' = 1
  /\ UNCHANGED cached
  /\ poll' = [poll EXCEPT ![i] = "idle"]
  /\ UNCHANGED <<plugin, moves, timeouts>>

\* A failed probe, when the file is still there: two in a row take it down.
PollRefused(i) ==
  /\ poll[i] = "failed"
  /\ plugin # "gone"
  /\ failures' = IF failures = 2 THEN 2 ELSE failures + 1
  /\ cached' = (cached /\ failures' < 2)
  /\ poll' = [poll EXCEPT ![i] = "idle"]
  /\ UNCHANGED <<plugin, moves, timeouts>>

PollResolves(i) == PollLive(i) \/ PollGone(i) \/ PollRefused(i)

\* What the poll emits.
EmitsUp   == ~cached /\ cached'
EmitsDown == cached /\ ~cached'

=============================================================================
