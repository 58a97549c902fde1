------------------------------- MODULE MCFair -------------------------------
(***************************************************************************)
(* The parts whose liveness is checked and that share no state, for TLC,   *)
(* side by side: the write queue, the bridge's relay and the file server's *)
(* index.  The initial state picks the part that moves; the others keep    *)
(* their initial values.                                                   *)
(***************************************************************************)
EXTENDS WriteQueue, Relay, VaultIndex

VARIABLE part

\* Two files that name each other, under one id and two names.
MCLexOrder == <<"a", "b">>
MCIdOf     == [p \in {"a", "b"} |-> "id"]
MCBaseOf   == [p \in {"a", "b"} |-> IF p = "b" THEN "y" ELSE "x"]
MCContents == {[links |-> {"id", "x"}, aliases |-> {}], [links |-> {}, aliases |-> {"x"}]}

FairInit ==
  /\ part \in {"queue", "relay", "index"}
  /\ QueueInit /\ RelayInit /\ IndexInit
  /\ part # "index" => files = Nothing

FairNext ==
  /\ UNCHANGED part
  /\ \/ part = "queue" /\ QueueNext /\ UNCHANGED <<rvars, xvars>>
     \/ part = "relay" /\ RelayNext /\ UNCHANGED <<qvars, xvars>>
     \/ part = "index" /\ IndexNext /\ UNCHANGED <<qvars, rvars>>

\* QueueFairness, RelayFairness and IndexFairness, of the part that moves.
QueueRuns ==
  /\ \A q \in Queues : /\ WF_qvars(part = "queue" /\ Pump(q))
                       /\ WF_qvars(part = "queue" /\ DeadlinePasses(q))
                       /\ WF_qvars(part = "queue" /\ q \notin closed /\ Nudge(q))
  /\ \A o \in Ops : /\ WF_qvars(part = "queue" /\ Start(o))
                    /\ WF_qvars(part = "queue" /\ StartRefused(o))

RelayRuns ==
  /\ \A l \in Answerable : WF_rvars(part = "relay" /\ Reply(l))
  /\ WF_rvars(part = "relay" /\ Drain)
  /\ WF_rvars(part = "relay" /\ GraceExpires)
  /\ WF_rvars(part = "relay" /\ SocketCloses)
  /\ WF_rvars(part = "relay" /\ (Reconnected \/ ReconnectFails))

IndexRuns ==
  /\ WF_xvars(part = "index" /\ BuildStarts) /\ WF_xvars(part = "index" /\ BuildReads)
  /\ WF_xvars(part = "index" /\ BuildDone) /\ WF_xvars(part = "index" /\ ChangeStarts)
  /\ WF_xvars(part = "index" /\ ChangeApplied) /\ WF_xvars(part = "index" /\ Unlinked)
  /\ WF_xvars(part = "index" /\ IndexWatched)
  /\ \A p \in NotePaths : /\ WF_xvars(part = "index" /\ Schedule(p))
                          /\ WF_xvars(part = "index" /\ DebounceFires(p))

FairSpec ==
  /\ FairInit /\ [][FairNext]_<<part, qvars, rvars, xvars>>
  /\ QueueRuns /\ RelayRuns /\ IndexRuns

=============================================================================
