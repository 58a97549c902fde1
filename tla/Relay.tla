-------------------------------- MODULE Relay --------------------------------
(***************************************************************************)
(* The bridge process (packages/host/bridge/bridge.ts): it relays lines    *)
(* between an MCP client's standard streams and the host's socket, and     *)
(* survives the loss of the socket.  RelayState tracks the handshake and   *)
(* the requests in flight; BridgeRelay queues lines while the socket is    *)
(* down, replays the handshake to the next server and flushes the queue.   *)
(*                                                                         *)
(* A line is one message: a request, a notification, or one of the two     *)
(* lines of the handshake.  A batch is its messages.  Every socket meets a *)
(* server of its own, which knows nothing of the one before.               *)
(***************************************************************************)
EXTENDS Naturals, Sequences, FiniteSets, Functions

CONSTANTS
  Requests, Notes,          \* the ordinary lines of the client
  Initialize, Initialized,  \* the handshake: a request and a notification
  MaxPending,               \* the cap on queued lines
  RapidFailMax,             \* how many connections in a row may die young
  MaxDeaths                 \* how often the socket dies

Handshake  == {Initialize, Initialized}
Answerable == Requests \cup {Initialize}
Lines      == Requests \cup Notes \cup Handshake

ASSUME RelayAssumption ==
  /\ Initialize # Initialized
  /\ Handshake \cap (Requests \cup Notes) = {} /\ Requests \cap Notes = {}
  /\ MaxPending \in Nat /\ MaxPending > 0
  /\ RapidFailMax \in Nat /\ MaxDeaths \in Nat

VARIABLES
  sock,            \* "up", "dying" (dead, its close not yet seen), "down", "exited"
  inServer,        \* the lines on this socket that the server may still answer
  queue,           \* pending: the lines held while the socket is down
  said,            \* the lines read from the client, in order
  outstanding,     \* the requests that await a response
  initResponseSeen, awaitingReplay,
  grace,           \* "off", "armed", or "expired"
  rapidFails,
  flowing,         \* whether the client's stream is read
  pausedForQueue,  \* clientPausedForQueue
  drainDue,        \* the socket overflowed, and will resume the client
  clientEnded,
  deaths,
  written,         \* history: the lines written to this socket, in order
  times,           \* history: times[l]: how many sockets l was written to
  replies          \* history: replies[l]: what the client was answered

rvars == <<sock, inServer, queue, said, outstanding, initResponseSeen, awaitingReplay,
           grace, rapidFails, flowing, pausedForQueue, drainDue, clientEnded, deaths,
           written, times, replies>>

RelayInit ==
  /\ sock = "up"
  /\ inServer = {} /\ outstanding = {}
  /\ queue = <<>> /\ said = <<>> /\ written = <<>>
  /\ initResponseSeen = FALSE /\ awaitingReplay = FALSE
  /\ grace = "off"
  /\ rapidFails = 0 /\ deaths = 0
  /\ flowing = TRUE /\ pausedForQueue = FALSE /\ drainDue = FALSE
  /\ clientEnded = FALSE
  /\ times = [l \in Lines |-> 0]
  /\ replies = [l \in Answerable |-> <<>>]

-----------------------------------------------------------------------------
Said == Range(said)

\* The lines of s that are not in D, in their order: the i-th of them is the one with
\* i of them up to it.
Without(s, D) ==
  LET kept  == {n \in 1..Len(s) : s[n] \notin D}
      at(i) == CHOOSE n \in kept : Cardinality({m \in kept : m <= n}) = i
  IN  [i \in 1..Cardinality(kept) |-> s[at(i)]]

\* An unanswered initialize is never failed: the replay sends it again.
Exempt(l) == l = Initialize /\ ~initResponseSeen

\* The requests of S that a lost connection fails, and the answers that gives.
Failable(S)  == {l \in S \cap Answerable : ~Exempt(l)}
Failing(S)   == [l \in Answerable |->
                   IF l \in Failable(S) THEN Append(replies[l], "error") ELSE replies[l]]
Kept(s)      == Without(s, Failable(Lines))

\* Lines s are written to the socket, which may be dead already.
Write(s) ==
  /\ written' = written \o s
  /\ times' = [l \in Lines |-> IF l \in Range(s) THEN times[l] + 1 ELSE times[l]]
  /\ inServer' = inServer \cup (IF sock = "up" THEN Range(s) \cap Answerable ELSE {})

\* The client speaks as MCP has it: initialize first, initialized once answered.
Speaks(l) ==
  /\ l \notin Said
  /\ l # Initialize => Initialize \in Said
  /\ l = Initialized => replies[Initialize] # <<>>
  /\ said' = Append(said, l)

(***************************************************************************)
(* onClientData: the line is tracked, then forwarded (the socket may       *)
(* overflow, which pauses the client), queued (a full queue pauses it      *)
(* too), or, once the grace is over, failed at once or kept if there is    *)
(* room.                                                                   *)
(***************************************************************************)
ClientLine(l) ==
  /\ sock # "exited" /\ flowing /\ ~clientEnded
  /\ Speaks(l)
  /\ outstanding' = IF l \in Answerable THEN outstanding \cup {l} ELSE outstanding
  /\ UNCHANGED <<sock, initResponseSeen, awaitingReplay, grace, rapidFails,
                 clientEnded, deaths>>

Forward(l) ==
  /\ ClientLine(l)
  /\ sock \in {"up", "dying"}
  /\ Write(<<l>>)
  /\ \E overflowed \in BOOLEAN : flowing' = ~overflowed /\ drainDue' = overflowed
  /\ UNCHANGED <<queue, pausedForQueue, replies>>

Enqueue(l) ==
  /\ ClientLine(l)
  /\ sock = "down" /\ grace = "armed"
  /\ queue' = Append(queue, l)
  /\ pausedForQueue' = (Len(queue') >= MaxPending)
  /\ flowing' = ~pausedForQueue'
  /\ UNCHANGED <<inServer, drainDue, written, times, replies>>

FailFast(l) ==
  /\ sock # "exited" /\ flowing /\ ~clientEnded
  /\ sock = "down" /\ grace = "expired"
  /\ Speaks(l)
  /\ outstanding' = IF l \in Answerable /\ Exempt(l) THEN outstanding \cup {l}
                    ELSE outstanding
  /\ replies' = Failing({l})
  /\ queue' = IF l \notin Failable({l}) /\ Len(queue) < MaxPending
              THEN Append(queue, l) ELSE queue
  /\ UNCHANGED <<sock, inServer, initResponseSeen, awaitingReplay, grace, rapidFails,
                 flowing, pausedForQueue, drainDue, clientEnded, deaths, written, times>>

Drain ==
  /\ sock = "up" /\ drainDue
  /\ drainDue' = FALSE /\ flowing' = TRUE
  /\ UNCHANGED <<sock, inServer, queue, said, outstanding, initResponseSeen,
                 awaitingReplay, grace, rapidFails, pausedForQueue, clientEnded, deaths,
                 written, times, replies>>

\* Mutant of Shutdown: the queue is dropped without an answer.
ShutdownSilently ==
  /\ sock' = "exited"
  /\ queue' = <<>> /\ grace' = "off"
  /\ UNCHANGED <<replies, outstanding>>

\* shutdown: the queued requests are failed, and the process ends.
Shutdown ==
  /\ sock' = "exited"
  /\ replies' = Failing(Range(queue))
  /\ outstanding' = outstanding \ Failable(Range(queue))
  /\ queue' = <<>>
  /\ grace' = "off"

\* Mutants of Reply: a replayed initialize is answered to the client again; its
\* first answer is not remembered.
ReplyForwardsReplay(l) ==
  /\ sock \in {"up", "dying"} /\ l \in inServer
  /\ inServer' = inServer \ {l}
  /\ outstanding' = outstanding \ {l}
  /\ replies' = [replies EXCEPT ![l] = Append(@, "reply")]
  /\ initResponseSeen' = (initResponseSeen \/ l = Initialize)
  /\ awaitingReplay' = (awaitingReplay /\ l # Initialize)
  /\ UNCHANGED <<sock, queue, said, grace, rapidFails, flowing, pausedForQueue,
                 drainDue, clientEnded, deaths, written, times>>

\* onServerMessage: the answer to a replayed initialize is dropped, any other
\* goes to the client.
Reply(l) ==
  /\ sock \in {"up", "dying"} /\ l \in inServer
  /\ inServer' = inServer \ {l}
  /\ outstanding' = outstanding \ {l}
  /\ IF l = Initialize /\ awaitingReplay
     THEN awaitingReplay' = FALSE /\ UNCHANGED <<initResponseSeen, replies>>
     ELSE /\ replies' = [replies EXCEPT ![l] = Append(@, "reply")]
          /\ initResponseSeen' = (initResponseSeen \/ l = Initialize)
          /\ UNCHANGED awaitingReplay
  /\ UNCHANGED <<sock, queue, said, grace, rapidFails, flowing, pausedForQueue,
                 drainDue, clientEnded, deaths, written, times>>

\* The next server rejects the replayed initialize: the session is over.
ReplayRejected ==
  /\ sock \in {"up", "dying"} /\ Initialize \in inServer /\ awaitingReplay
  /\ inServer' = inServer \ {Initialize}
  /\ awaitingReplay' = FALSE
  /\ sock' = "exited"
  /\ replies' = Failing(Range(queue))
  /\ outstanding' = outstanding \ ({Initialize} \cup Failable(Range(queue)))
  /\ queue' = <<>> /\ grace' = "off"
  /\ UNCHANGED <<said, initResponseSeen, rapidFails, flowing, pausedForQueue, drainDue,
                 clientEnded, deaths, written, times>>

\* Obsidian quits or reloads the plugin, or answers a half-closed socket by
\* closing it; what is written from here on is lost.
SocketDies ==
  /\ sock = "up"
  /\ deaths < MaxDeaths \/ clientEnded
  /\ sock' = "dying"
  /\ deaths' = IF clientEnded THEN deaths ELSE deaths + 1
  /\ UNCHANGED <<inServer, queue, said, outstanding, initResponseSeen, awaitingReplay,
                 grace, rapidFails, flowing, pausedForQueue, drainDue, clientEnded,
                 written, times, replies>>

\* onSocketClose, of a connection that died young or not.
CloseEnded ==
  /\ sock = "dying" /\ clientEnded
  /\ sock' = "exited"
  /\ UNCHANGED <<inServer, queue, said, outstanding, initResponseSeen, awaitingReplay,
                 grace, rapidFails, flowing, pausedForQueue, drainDue, clientEnded,
                 deaths, written, times, replies>>

\* Mutants of SocketCloses: what was in flight is queued to be sent again; it is
\* forgotten; the client stays paused.
SocketClosesResends ==
  /\ sock = "dying" /\ ~clientEnded
  /\ flowing' = TRUE /\ pausedForQueue' = FALSE /\ drainDue' = FALSE
  /\ inServer' = {}
  /\ queue' = Without(said, Lines \ Failable(outstanding))
  /\ sock' = "down" /\ grace' = "armed"
  /\ UNCHANGED <<said, initResponseSeen, awaitingReplay, clientEnded, deaths, written,
                 times, rapidFails, replies, outstanding>>

SocketClosesForgets ==
  /\ sock = "dying" /\ ~clientEnded
  /\ flowing' = TRUE /\ pausedForQueue' = FALSE /\ drainDue' = FALSE
  /\ inServer' = {}
  /\ sock' = "down" /\ grace' = "armed"
  /\ UNCHANGED <<said, initResponseSeen, awaitingReplay, clientEnded, deaths, written,
                 times, rapidFails, queue, outstanding, replies>>

SocketClosesPaused ==
  /\ sock = "dying" /\ ~clientEnded
  /\ pausedForQueue' = FALSE /\ drainDue' = FALSE
  /\ inServer' = {}
  /\ replies' = Failing(outstanding)
  /\ outstanding' = outstanding \ Failable(outstanding)
  /\ sock' = "down" /\ grace' = "armed"
  /\ UNCHANGED <<said, initResponseSeen, awaitingReplay, clientEnded, deaths, written,
                 times, rapidFails, queue, flowing>>

SocketCloses ==
  /\ sock = "dying" /\ ~clientEnded
  /\ flowing' = TRUE /\ pausedForQueue' = FALSE /\ drainDue' = FALSE
  /\ inServer' = {}
  /\ \E young \in BOOLEAN : rapidFails' = IF young THEN rapidFails + 1 ELSE 0
  /\ LET lost == outstanding \cup (IF rapidFails' >= RapidFailMax THEN Range(queue) ELSE {})
     IN  /\ replies' = Failing(lost)
         /\ outstanding' = outstanding \ Failable(lost)
  /\ IF rapidFails' >= RapidFailMax
     THEN sock' = "exited" /\ grace' = "off" /\ queue' = <<>>
     ELSE sock' = "down" /\ grace' = "armed" /\ UNCHANGED queue
  /\ UNCHANGED <<said, initResponseSeen, awaitingReplay, clientEnded, deaths, written, times>>

\* Mutant of GraceExpires: the failed requests stay queued.
GraceExpiresKeeping ==
  /\ sock = "down" /\ grace = "armed"
  /\ grace' = "expired"
  /\ replies' = Failing(Range(queue))
  /\ outstanding' = outstanding \ Failable(Range(queue))
  /\ pausedForQueue' = FALSE /\ flowing' = TRUE
  /\ UNCHANGED <<sock, inServer, queue, said, initResponseSeen, awaitingReplay,
                 rapidFails, drainDue, clientEnded, deaths, written, times>>

\* The grace timer: the queued requests are failed, the client is read again.
GraceExpires ==
  /\ sock = "down" /\ grace = "armed"
  /\ grace' = "expired"
  /\ replies' = Failing(Range(queue))
  /\ outstanding' = outstanding \ Failable(Range(queue))
  /\ queue' = Kept(queue)
  /\ pausedForQueue' = FALSE /\ flowing' = TRUE
  /\ UNCHANGED <<sock, inServer, said, initResponseSeen, awaitingReplay, rapidFails,
                 drainDue, clientEnded, deaths, written, times>>

\* replayMessages: the handshake lines the client has sent so far.
Replayed == Without(<<Initialize, Initialized>>, Lines \ Said)

\* Mutant of Reconnected: the queue is flushed before the handshake.
ReconnectedQueueFirst ==
  LET lines == Without(queue, Range(Replayed)) \o Replayed
  IN  /\ sock = "down" /\ ~clientEnded
      /\ sock' = "up" /\ grace' = "off"
      /\ awaitingReplay' = (awaitingReplay \/ (Initialize \in Said /\ initResponseSeen))
      /\ written' = lines
      /\ times' = [l \in Lines |-> IF l \in Range(lines) THEN times[l] + 1 ELSE times[l]]
      /\ inServer' = Range(lines) \cap Answerable
      /\ queue' = <<>>
      /\ pausedForQueue' = FALSE /\ flowing' = TRUE
      /\ UNCHANGED <<said, outstanding, initResponseSeen, rapidFails, drainDue,
                     clientEnded, deaths, replies>>

\* The next socket: the handshake is replayed, then the queue is flushed, all
\* at once; a handshake line is not sent a second time from the queue.
Reconnected ==
  LET lines == Replayed \o Without(queue, Range(Replayed))
  IN  /\ sock = "down" /\ ~clientEnded
      /\ sock' = "up" /\ grace' = "off"
      /\ awaitingReplay' = (awaitingReplay \/ (Initialize \in Said /\ initResponseSeen))
      /\ written' = lines
      /\ times' = [l \in Lines |-> IF l \in Range(lines) THEN times[l] + 1 ELSE times[l]]
      /\ inServer' = Range(lines) \cap Answerable
      /\ queue' = <<>>
      /\ flowing' = (flowing \/ pausedForQueue) /\ pausedForQueue' = FALSE
      /\ UNCHANGED <<said, outstanding, initResponseSeen, rapidFails, drainDue,
                     clientEnded, deaths, replies>>

\* No vault came back in time.
ReconnectFails ==
  /\ sock = "down" /\ ~clientEnded
  /\ Shutdown
  /\ UNCHANGED <<inServer, said, initResponseSeen, awaitingReplay, rapidFails, flowing,
                 pausedForQueue, drainDue, clientEnded, deaths, written, times>>

\* The client closes its end, which a paused stream does not notice: a socket is
\* half-closed, without one it is over.
ClientEnds ==
  /\ sock # "exited" /\ flowing /\ ~clientEnded
  /\ clientEnded' = TRUE
  /\ IF sock = "down" THEN Shutdown
     ELSE UNCHANGED <<sock, replies, outstanding, queue, grace>>
  /\ UNCHANGED <<inServer, said, initResponseSeen, awaitingReplay, rapidFails, flowing,
                 pausedForQueue, drainDue, deaths, written, times>>

-----------------------------------------------------------------------------
RelayNext ==
  \/ \E l \in Lines : Forward(l) \/ Enqueue(l) \/ FailFast(l) \/ Reply(l)
  \/ Drain \/ ReplayRejected \/ SocketDies \/ CloseEnded \/ SocketCloses
  \/ GraceExpires \/ Reconnected \/ ReconnectFails \/ ClientEnds

RelaySpec == RelayInit /\ [][RelayNext]_rvars

\* A server that stays up answers, an overflowed socket drains, the timer fires,
\* a dead socket is closed, and reconnecting succeeds or meets its deadline.
RelayFairness ==
  /\ \A l \in Answerable : WF_rvars(Reply(l))
  /\ WF_rvars(Drain) /\ WF_rvars(GraceExpires)
  /\ WF_rvars(SocketCloses) /\ WF_rvars(Reconnected \/ ReconnectFails)

-----------------------------------------------------------------------------
\* Every variable has its type; a held line is the client's, and a paused client
\* has a reason to be resumed.
RelayTypeOK ==
  /\ sock \in {"up", "dying", "down", "exited"}
  /\ inServer \subseteq Answerable /\ outstanding \subseteq Answerable \cap Said
  /\ Range(queue) \cup Range(written) \subseteq Said /\ Said \subseteq Lines
  /\ {initResponseSeen, awaitingReplay, flowing, pausedForQueue, drainDue,
      clientEnded} \subseteq BOOLEAN
  /\ grace \in {"off", "armed", "expired"} /\ (sock = "down" <=> grace # "off")
  /\ rapidFails \in 0..MaxDeaths /\ deaths \in 0..MaxDeaths
  /\ times \in [Lines -> 0..MaxDeaths + 1]
  /\ replies \in [Answerable -> Seq({"reply", "error"})]
  /\ flowing \/ pausedForQueue \/ drainDue

\* However often the socket dies, an ordinary line reaches one server at most: only
\* the handshake is sent again (failOutstanding, replayMessages).
NeverResent == \A l \in Requests \cup Notes : times[l] <= 1

\* No request is answered twice: not by its server and by the relay, and not by the
\* two servers that both saw its initialize (onServerMessage).
OneReply == \A l \in Answerable : Len(replies[l]) <= 1

\* A request that was failed never reaches a server afterwards, so the client may
\* send it again as a new one (failRequest, the grace timer).
FailedStaysUnsent ==
  [][\A l \in Requests : replies[l] # <<>> => times'[l] = times[l]]_rvars

\* A request leaves the queue for a server or with an answer, on every path by
\* which the queue is emptied (flush, grace, shutdown, end of the client).
QueuedIsKept ==
  [][\A l \in Requests : l \in Range(queue) \ Range(queue')
       => l \in Range(written') \/ replies'[l] # <<>>]_rvars

\* Each server hears initialize before anything else, every line once, and an ordinary
\* line after all it hears of what the client said before, however they were held back.
HandshakeFirst ==
  /\ IsInjective(written)
  /\ written # <<>> => Head(written) = Initialize
  /\ \A i, j \in DOMAIN written : \A k, n \in DOMAIN said :
       said[k] = written[i] /\ said[n] = written[j] /\ k < n /\ written[j] \notin Handshake
         => i < j

\* A client that stays connected has every request answered, or sees the process
\* exit: it never waits on a relay that forgot the request.
RequestsAnswered ==
  \A l \in Answerable :
    l \in Said ~> (replies[l] # <<>> \/ sock = "exited" \/ clientEnded)

\* A client that was paused, by a full queue or a full socket, is read again.
ClientResumes == ~flowing ~> (flowing \/ sock = "exited")

\* What a client may rely on: no request is sent or answered twice, and a fresh server
\* hears the handshake first.
RelaySafe == RelayTypeOK /\ NeverResent /\ OneReply /\ HandshakeFirst

\* A request is failed or delivered, never both and never neither.
FailedOrKept == FailedStaysUnsent /\ QueuedIsKept

\* The client is answered and is read again, or sees the process exit.
ClientServed == RequestsAnswered /\ ClientResumes

=============================================================================
