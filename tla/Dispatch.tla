------------------------------ MODULE Dispatch ------------------------------
(***************************************************************************)
(* A tool call on one connection of the host: the operation executor       *)
(* (kernel/operations/executor.ts) around the guard (mcp/guarded.ts), the  *)
(* governance provider's refusals asked at dequeue (mcp/seam.ts), and the  *)
(* mailbox (mcp/server.ts) through which what a write wrote is reported to *)
(* the provider.  Reads do not queue; a mutation abandoned at its deadline *)
(* goes on by itself.                                                      *)
(***************************************************************************)
EXTENDS Naturals, Sequences, SequencesExt

CONSTANTS
  Calls,
  Hooks,      \* session refusal hooks of the installed providers
  Governing,  \* the one that answers for revoked sessions; the others answer nothing
  Sessions    \* call: what each call is, [sort, note]; sort is "write" (a whole note),
              \* "edit" (another mutation), "read" or "none"; may: what may happen meanwhile,
              \* of <<"revoke">>, <<"expire">>, <<"throw">>, <<"dispose", h>> and <<"register", h>>;
              \* list: the hooks registered at the start

ASSUME DispatchAssumption ==
  /\ Governing \in Hooks
  /\ \A s \in Sessions :
       /\ \A c \in Calls : s.call[c].sort \in {"write", "edit", "read", "none"}
       /\ s.list \in Seq(Hooks) /\ \A i, j \in DOMAIN s.list : i # j => s.list[i] # s.list[j]

VARIABLES
  call, may,
  oper,       \* oper[c]: the executor's operation: new, open, settled, proposed, closed
  out,        \* its outcome
  handler,    \* its handler: idle, waiting, consulting, running, landed, over
  waitLine,   \* the kernel's queue; the first holds the slot
  box,        \* the mailbox: {} or the write whose bytes are in it
  refusers,   \* the seam's list
  asking,     \* asking[c]: the index of the consult in it
  revoked, expired,
  reports,    \* history: [of, as]: the bytes of one, under the operation of the other
  beside,     \* history: the pairs of calls that were under way together
  late,       \* history: writes that landed when their operation had closed
  faced,      \* faced[c], history: hooks in the list since the consult began, none of
              \* those before them disposed after they were asked
  silent,     \* silent[c], history: the hooks that were asked and refused nothing
  doomed      \* history: calls whose turn came with the session revoked

seam     == <<refusers, asking, revoked, expired>>
written  == <<reports, beside, late>>
consults == <<faced, silent, doomed>>
dvars    == <<call, may, oper, out, handler, waitLine, box, seam, written, consults>>

DispatchInit ==
  /\ \E s \in Sessions : call = s.call /\ may = s.may /\ refusers = s.list
  /\ oper = [c \in Calls |-> "new"] /\ out = [c \in Calls |-> "none"]
  /\ handler = [c \in Calls |-> "idle"] /\ waitLine = <<>> /\ box = {}
  /\ asking = [c \in Calls |-> 1] /\ revoked = FALSE /\ expired = FALSE
  /\ reports = {} /\ beside = {} /\ late = {} /\ doomed = {}
  /\ faced = [c \in Calls |-> {}] /\ silent = [c \in Calls |-> {}]

Occurs(e) == e \in may /\ may' = may \ {e}
Mutates(c) == call[c].sort # "read"

\* An abandoned handler is under way until it is over.
Underway(c) == oper[c] \in {"open", "settled", "proposed"} \/ handler[c] \in {"consulting", "running"}

SettleOp(c, o) == oper' = [oper EXCEPT ![c] = "settled"] /\ out' = [out EXCEPT ![c] = o]

-----------------------------------------------------------------------------
\* Mutant of OnClose: only a completed operation empties the mailbox.
OnCloseCompleted(o) == IF o = "completed" THEN {} ELSE box

\* The sink of every closed operation.
OnClose(o) == {}

\* The executor refuses before any handler runs: identity claimed in the arguments, no
\* binding, no such action, an authority surface.
ExecutorRefuses(c) ==
  /\ oper' = [oper EXCEPT ![c] = "closed"] /\ out' = [out EXCEPT ![c] = "refused"]
  /\ box' = OnClose("refused") /\ UNCHANGED <<handler, waitLine>>

\* The guard does before the queue: an address, read-only mode, the allowlist, a cut
\* read, a missing argument.
GuardRefuses(c) == SettleOp(c, "refused") /\ UNCHANGED <<handler, waitLine, box>>

\* A mutation queues; a read runs at once.
Begins(c) ==
  /\ oper' = [oper EXCEPT ![c] = "open"]
  /\ handler' = [handler EXCEPT ![c] = IF Mutates(c) THEN "waiting" ELSE "running"]
  /\ waitLine' = IF Mutates(c) THEN Append(waitLine, c) ELSE waitLine
  /\ UNCHANGED <<out, box>>

Receive(c) ==
  /\ oper[c] = "new" /\ call[c].sort # "none"
  /\ beside' = beside \cup {{c, d} : d \in {x \in Calls \ {c} : Underway(x)}}
  /\ ExecutorRefuses(c) \/ GuardRefuses(c) \/ Begins(c)
  /\ UNCHANGED <<call, may, seam, reports, late, consults>>

HasSlot(c) == waitLine # <<>> /\ Head(waitLine) = c

\* The handler is over, with this outcome; one that was abandoned has none to give.
Ends(c, o) ==
  /\ handler' = [handler EXCEPT ![c] = "over"]
  /\ IF oper[c] = "open" THEN SettleOp(c, o) ELSE UNCHANGED <<oper, out>>
  /\ waitLine' = IF HasSlot(c) THEN Tail(waitLine) ELSE waitLine

\* The kernel's own refusals at dequeue, and then the host's: the session's expiry.
TakeTurn(c) ==
  /\ HasSlot(c) /\ handler[c] = "waiting"
  /\ doomed' = doomed \cup {d \in {c} : revoked}
  /\ \/ \E o \in {"refused", "conflict"} : Ends(c, o) /\ UNCHANGED faced
     \/ /\ ~expired /\ handler' = [handler EXCEPT ![c] = "consulting"]
        /\ faced' = [faced EXCEPT ![c] = ToSet(refusers)] /\ UNCHANGED <<oper, out, waitLine>>
  /\ UNCHANGED <<call, may, box, seam, written, silent>>

\* Mutants of Refuses: a hook that throws has said nothing; the hook is not awaited.
ThrowIsSilence(h, throws) == h = Governing /\ revoked /\ ~throws
NotAwaited(h, throws) == FALSE

Refuses(h, throws) == throws \/ (h = Governing /\ revoked)

\* refuseSession asks one hook after another, by index in the list as it is by then.
AskHook(c) ==
  /\ handler[c] = "consulting" /\ asking[c] <= Len(refusers)
  /\ \E throws \in BOOLEAN :
       /\ IF throws THEN Occurs(<<"throw">>) ELSE UNCHANGED may
       /\ IF Refuses(refusers[asking[c]], throws)
          THEN Ends(c, "refused") /\ UNCHANGED <<asking, silent>>
          ELSE /\ asking' = [asking EXCEPT ![c] = @ + 1]
               /\ silent' = [silent EXCEPT ![c] = @ \cup {refusers[asking[c]] : t \in {throws} \ {TRUE}}]
               /\ UNCHANGED <<oper, out, handler, waitLine>>
  /\ UNCHANGED <<call, box, refusers, revoked, expired, written, faced, doomed>>

\* Nobody refused; the whole-note rule may, or the handler starts.
Attempt(c) ==
  /\ handler[c] = "consulting" /\ asking[c] > Len(refusers)
  /\ \/ Ends(c, "refused")
     \/ handler' = [handler EXCEPT ![c] = "running"] /\ UNCHANGED <<oper, out, waitLine>>
  /\ UNCHANGED <<call, may, box, seam, written, consults>>

\* The change is in the vault; writeNote alone tells the mailbox.
LandChange(c) ==
  /\ handler[c] = "running" /\ Mutates(c) /\ handler' = [handler EXCEPT ![c] = "landed"]
  /\ box' = IF call[c].sort = "write" THEN {c} ELSE box
  /\ late' = late \cup {d \in {c} : oper[d] = "closed"}
  /\ UNCHANGED <<call, may, oper, out, waitLine, seam, reports, beside, consults>>

\* A handler reports its failure in what it returns, or throws; a published tool may
\* have done a part.
Endings(c) ==
  {o \in {"completed", "partial", "refused", "failed"} :
     \/ handler[c] = "running" /\ o \in {"refused", "failed"} \cup {x \in {"completed"} : ~Mutates(c)}
     \/ handler[c] = "landed" /\ o \in {"completed"} \cup {x \in {"partial"} : call[c].sort = "edit"}}

HandlerEnds(c) ==
  /\ \E o \in Endings(c) : Ends(c, o)
  /\ UNCHANGED <<call, may, box, seam, written, consults>>

\* The slot's deadline: the caller is told, the next one may start, the handler goes on.
Abandon(c) ==
  /\ HasSlot(c) /\ handler[c] \in {"consulting", "running", "landed"}
  /\ SettleOp(c, "uncertain") /\ waitLine' = Tail(waitLine)
  /\ UNCHANGED <<call, may, handler, box, seam, written, consults>>

-----------------------------------------------------------------------------
DidWork(o) == o \in {"completed", "partial"}

\* Mutant of Described: the path is not compared.
DescribedAnyway(c) == box

\* reportCompletedWrite: only what is about a path the operation named.
Described(c) == {w \in box : call[w].note = call[c].note}

\* Mutant of Taken: the mailbox is read and left as it is.
NotTaken == box

Taken == {}

\* The capture of what was read or done lies between the outcome and this.
Propose(c) ==
  /\ oper[c] = "settled" /\ DidWork(out[c]) /\ oper' = [oper EXCEPT ![c] = "proposed"]
  /\ reports' = reports \cup {[of |-> w, as |-> c] : w \in Described(c)} /\ box' = Taken
  /\ UNCHANGED <<call, may, out, handler, waitLine, seam, beside, late, consults>>

CloseOp(c) ==
  /\ oper[c] \in {"settled", "proposed"} /\ (oper[c] = "settled" => ~DidWork(out[c]))
  /\ oper' = [oper EXCEPT ![c] = "closed"] /\ box' = OnClose(out[c])
  /\ UNCHANGED <<call, may, out, handler, waitLine, seam, written, consults>>

-----------------------------------------------------------------------------
\* The human revokes the session; its time is over.
RevokeOrExpire ==
  /\ \/ Occurs(<<"revoke">>) /\ revoked' = TRUE /\ UNCHANGED expired
     \/ Occurs(<<"expire">>) /\ expired' = TRUE /\ UNCHANGED revoked
  /\ UNCHANGED <<call, oper, out, handler, waitLine, box, refusers, asking, written, consults>>

\* A provider's disposer drops its entry, from the very list a consult may be iterating.
\* history: whoever comes later in the list moves up one place.
DisposeHook(h) ==
  /\ Occurs(<<"dispose", h>>)
  /\ \E k \in DOMAIN refusers : refusers[k] = h /\ refusers' = RemoveAt(refusers, k)
  /\ faced' = [c \in Calls |->
                 {g \in faced[c] \ {h} : h \in silent[c] =>
                    \E i, j \in DOMAIN refusers : refusers[i] = g /\ refusers[j] = h /\ i < j}]
  /\ UNCHANGED <<call, oper, out, handler, waitLine, box, asking, revoked, expired, written, silent,
                 doomed>>

RegisterHook(h) ==
  /\ h \notin ToSet(refusers) /\ Occurs(<<"register", h>>) /\ refusers' = Append(refusers, h)
  /\ UNCHANGED <<call, oper, out, handler, waitLine, box, asking, revoked, expired, written, consults>>

DispatchNext ==
  \/ \E c \in Calls : \/ Receive(c) \/ TakeTurn(c) \/ AskHook(c) \/ Attempt(c) \/ LandChange(c)
                      \/ HandlerEnds(c) \/ Abandon(c) \/ Propose(c) \/ CloseOp(c)
  \/ RevokeOrExpire
  \/ \E h \in Hooks : DisposeHook(h) \/ RegisterHook(h)

DispatchSpec == DispatchInit /\ [][DispatchNext]_dvars

-----------------------------------------------------------------------------
DispatchTypeOK ==
  /\ box \subseteq Calls /\ ToSet(waitLine) \subseteq Calls /\ ToSet(refusers) \subseteq Hooks
  /\ out \in [Calls -> {"none", "completed", "partial", "refused", "conflict", "failed", "uncertain"}]
  /\ reports \subseteq [of : Calls, as : Calls]

Attempted(c) == handler[c] \in {"running", "landed"} /\ Mutates(c)

\* Every refusal hook that was there throughout was asked and silent before a mutation
\* is attempted, save one that moved up into the place of a hook just asked; none is
\* attempted for a session that was revoked, or expired, when its turn came.
AskedAll ==
  \A c \in Calls : Attempted(c) =>
    /\ faced[c] \subseteq silent[c]
    /\ c \in doomed => Governing \notin faced[c]

\* A write's bytes are reported once at most, and about a note the reporting operation
\* named.  Under another operation's name they are reported only when the two were
\* under way together, or the write was abandoned and landed when its own had closed.
ReportsTrue ==
  /\ \A r, s \in reports : r.of = s.of => r = s
  /\ \A r \in reports : /\ call[r.of].note = call[r.as].note /\ DidWork(out[r.as])
                        /\ \/ r.of = r.as \/ {r.of, r.as} \in beside \/ r.of \in late

\* A completed write with no other operation beside it is reported, under its own name.
ReportedAlone ==
  \A c \in Calls : /\ oper[c] = "closed" /\ out[c] = "completed" /\ call[c].sort = "write"
                   /\ \A d \in Calls : {c, d} \notin beside
                   => [of |-> c, as |-> c] \in reports

DispatchSafe == DispatchTypeOK /\ AskedAll /\ ReportsTrue /\ ReportedAlone
=============================================================================
