---------------------------- MODULE CrossSession ----------------------------
(***************************************************************************)
(* A channel of the cross-session satellite: the entries of its log file   *)
(* and of its message notes, the receipts file that says through which     *)
(* minute each handle has read them, and the calls delta, attest and post  *)
(* (packages/crosssession/src/tools.ts, kernel/entries.ts, receipts.ts),   *)
(* with the adoption of the host's receipts at load (main.ts).  Hands,     *)
(* shells and synchronization write entries too.                           *)
(***************************************************************************)
EXTENDS Naturals, Sequences, FiniteSets, FiniteSetsExt

CONSTANTS
  Handles,      \* the sessions' self-declared names
  ChannelFiles, \* what may lie in the channel's folder
  NoteFiles,    \* the files that are message notes
  DeltaCap,     \* config.deltaCap, how many entries one delta serves
  Meetings      \* initial states: entries, receipts, the calls to be made, and what may happen

ChannelEntry == [no : Nat, stamp : Nat \ {0}, by : Handles, file : ChannelFiles, form : {"log", "note"}]

\* Entries are numbered; the clock is put back once at most, and not to the first minute; a
\* receipt attests to no more than the channel held: stamp_ahead.
ASSUME CrossAssumption ==
  /\ DeltaCap \in Nat \ {0} /\ NoteFiles \subseteq ChannelFiles
  /\ \A m \in Meetings :
       /\ m.entries \subseteq ChannelEntry /\ IsFiniteSet(m.entries) /\ m.files \subseteq ChannelFiles
       /\ \A e \in m.entries : e.no <= Cardinality(m.entries)
       /\ \A e, f \in m.entries : e.no = f.no => e = f
       /\ m.minute \in Nat \ {0} /\ (<<"back">> \in m.coming => m.minute > 1)
       /\ {m.own, m.host} \subseteq [Handles -> Nat]
       /\ \A h \in Handles, r \in {m.own, m.host} : r[h] = 0 \/ \E e \in m.entries : r[h] <= e.stamp
       /\ \A c \in DOMAIN m.asks : m.asks[c] \in [tool : {"delta", "attest", "post"}, handle : Handles, stamp : Nat]
       /\ \A x \in m.coming : x[1] = "entry" => x[2] \in Handles /\ x[3] \in Nat \ {0} /\ x[4] \in ChannelFiles

VARIABLES
  meeting,    \* the initial state, with [asks] the calls: tool, handle and stamp (0: as delta advised)
  entries,    \* [no, stamp, by, file, form] for each entry; a "note" is a message note, one file each
  uncached,   \* the message notes whose frontmatter is not in the metadata cache yet
  minute,     \* the run clock, as entries are stamped
  receipts,   \* [through |-> the minute read, 0 for none, by handle; legible |-> it parses]
  talk,       \* each call's progress, see NotBegun
  abandoned,  \* the calls the host's queue gave up on while they ran
  adoption,   \* what onload is about to do: "asked", Merge, "write", "write over", "latch", "ready"
  latch,      \* adoptedReceiptsFromHost, in data.json
  advised,    \* through which minute delta last advised a handle to attest
  befalling,  \* what may still happen
  got,        \* for the properties: the entries a handle was served or claims to have read
  missed,     \* and those that came too late for its receipt, or that its call could not see
  rolled,     \* the handles whose receipt a step took back
  wiped       \* and whether a failed load or a torn file cost receipts

xsvars == <<meeting, entries, uncached, minute, receipts, talk, abandoned, adoption, latch, advised,
            befalling, got, missed, rolled, wiped>>

channel  == <<meeting, entries, uncached, minute>>
hostSide == <<abandoned, adoption, latch>>
losses   == <<rolled, wiped>>

Unheld == [h \in Handles |-> 0]
NotBegun   == [at |-> "asked", seen |-> {}, lists |-> {}, through |-> 0, target |-> "none", to |-> 0,
           base |-> Unheld, blind |-> FALSE, forgot |-> FALSE, crossed |-> FALSE, answer |-> "none"]
Talks  == DOMAIN meeting.asks
Ask(c) == meeting.asks[c]
Merge  == "merge"

CrossInit ==
  /\ meeting \in Meetings
  /\ entries = meeting.entries /\ uncached = {} /\ minute = meeting.minute
  /\ receipts = [through |-> meeting.own, legible |-> TRUE]
  /\ talk = [c \in DOMAIN meeting.asks |-> NotBegun] /\ abandoned = {}
  /\ adoption = "asked" /\ latch = FALSE /\ advised = Unheld /\ befalling = meeting.coming
  /\ got = [h \in Handles |-> {e.no : e \in {x \in meeting.entries :
                                         x.stamp <= meeting.own[h] \/ x.stamp <= meeting.host[h]}}]
  /\ missed = {} /\ rolled = {} /\ wiped = FALSE

\* A mishap that is still to come befalls this step, or none does.
Befalls(x, hit) == IF hit THEN x \in befalling /\ befalling' = befalling \ {x} ELSE UNCHANGED befalling

-----------------------------------------------------------------------------
\* The entries a handle's receipt does not cover; its own are exempt.
Unread(es, through, h) == {e \in es : e.by # h /\ e.stamp > through}

\* Mutant of Served: the minute the cap falls in is cut in two.
ServedToCap(unread) == {e \in unread : Cardinality({u \in unread : u.no < e.no}) < DeltaCap}

\* What delta serves of them: as many as the cap, and all of the last one's minute.
Served(unread) == {e \in unread : Cardinality({u \in unread : u.stamp < e.stamp}) < DeltaCap}

Newest(es) == Max({e.stamp : e \in es})

\* load: a file that is missing, cannot be read or does not parse is nobody's receipt.
LoadReceipts(fails) == IF fails \/ ~receipts.legible THEN Unheld ELSE receipts.through
Forgets(fails) == (fails \/ ~receipts.legible) /\ receipts.through # Unheld

\* write, which may fail and then changes nothing.
Held == IF receipts.legible THEN receipts.through ELSE Unheld
WriteReceipts(state, fails) ==
  receipts' = IF fails THEN receipts ELSE [through |-> state, legible |-> TRUE]
Lowered(state, fails) == IF fails THEN {} ELSE {h \in Handles : state[h] < Held[h]}

\* Whom a new entry passes by: their receipt covers it, or one that a call is about to set.
PassedBy(e) ==
  {h \in Handles \ {e.by} :
     \/ /\ \/ e.stamp <= receipts.through[h] \/ e.stamp <= advised[h] \/ e.stamp <= meeting.host[h]
           \/ \E c \in Talks : talk[c].at = "write" /\ e.stamp <= talk[c].base[h]
        /\ \E f \in entries : e.stamp <= f.stamp
     \/ \E c \in Talks : Ask(c).handle = h /\ talk[c].at \notin {"asked", "over"}}

EntryArrives(e) == /\ entries' = entries \cup {e}
              /\ missed' = missed \cup (PassedBy(e) \X {e.no})
NextNo == Cardinality(entries) + 1

-----------------------------------------------------------------------------
\* The host's queue runs one call at a time, but for those it gave up on.
MyTurn(c) == adoption = "ready" /\ \A d \in Talks \ (abandoned \cup {c}) : talk[d].at \in {"asked", "over"}

Becomes(c, r) == talk' = [talk EXCEPT ![c] = r]
CallEnds(c, a)    == Becomes(c, [talk[c] EXCEPT !.at = "over", !.answer = a])

\* resolveChannel: the listing splits the channel's files, and each is read.  A note the
\* cache does not know yet passes for a log file, without entries; a file that cannot be
\* read contributes nothing.
Visible(gone) ==
  {e \in entries : /\ e.file \notin gone
                   /\ (e.form = "note") <=> (e.file \in NoteFiles \ uncached)}

Resolve(c) ==
  /\ talk[c].at = "asked" /\ MyTurn(c)
  /\ Ask(c).stamp = 0 /\ Ask(c).tool = "attest" => advised[Ask(c).handle] # 0
  /\ \E gone \in {{}, {"log"}} :
       LET seen == Visible(gone)
           lists == meeting.files \cup uncached
       IN /\ Befalls(<<"unreadable">>, gone # {})
          /\ Becomes(c, [talk[c] EXCEPT !.at = "resolved", !.seen = seen, !.lists = lists])
          /\ missed' = missed \cup ({Ask(c).handle} \X {e.no : e \in entries \ seen})
  /\ UNCHANGED <<channel, receipts, hostSide, advised, got, losses>>

\* delta: what is unread, and through which minute to attest before the next one.
Delta(c) ==
  LET h == Ask(c).handle IN
  /\ talk[c].at = "resolved" /\ Ask(c).tool = "delta"
  /\ \E fails \in BOOLEAN :
       LET unread == Unread(talk[c].seen, LoadReceipts(fails)[h], h)
           served == Served(unread)
       IN /\ Befalls(<<"load fails">>, fails)
          /\ got' = [got EXCEPT ![h] = @ \cup {e.no : e \in served}]
          /\ advised' = [advised EXCEPT ![h] = IF served # unread THEN Newest(served)
                                         ELSE IF talk[c].seen = {} THEN @ ELSE Newest(talk[c].seen)]
  /\ CallEnds(c, "ok")
  /\ UNCHANGED <<channel, receipts, hostSide, missed, losses>>

\* Mutant of Ahead: a stamp that the channel has not reached is taken.
NeverAhead(c, t) == talk[c].seen = {}

\* A stamp no entry has reached attests to nothing.
Ahead(c, t) == talk[c].seen = {} \/ t > Newest(talk[c].seen)

\* attest: any minute that is not ahead of the channel, forwards or back.
Through(c) == IF Ask(c).stamp = 0 THEN advised[Ask(c).handle] ELSE Ask(c).stamp

Attest(c) ==
  LET h == Ask(c).handle
      t == Through(c)
      claimed == IF Ask(c).stamp = 0 THEN {} ELSE {e \in talk[c].seen : e.stamp <= t}
  IN
  /\ talk[c].at = "resolved" /\ Ask(c).tool = "attest"
  /\ IF Ahead(c, t)
     THEN CallEnds(c, "stamp_ahead") /\ UNCHANGED got
     ELSE /\ Becomes(c, [talk[c] EXCEPT !.at = "load", !.to = t])
          /\ got' = [got EXCEPT ![h] = @ \cup {e.no : e \in claimed}]
  /\ UNCHANGED <<channel, receipts, hostSide, advised, befalling, missed, losses>>

\* Mutant of Stale: a handle that attested at all may post.
StaleBeforeFirst(c, through) == through = 0 /\ Unread(talk[c].seen, 0, Ask(c).handle) # {}

\* An entry the call saw is not covered by its handle's receipt.
Stale(c, through) == Unread(talk[c].seen, through, Ask(c).handle) # {}

\* post, up to its write: refused while an entry it saw is unread, or if it cannot tell
\* which file is the log.
Logs(c) == IF Cardinality(talk[c].lists) <= 1 THEN talk[c].lists
           ELSE {f \in talk[c].lists : \E e \in talk[c].seen : e.file = f}

Gate(c) ==
  LET h == Ask(c).handle IN
  /\ talk[c].at = "resolved" /\ Ask(c).tool = "post"
  /\ \E fails \in BOOLEAN :
       LET through == LoadReceipts(fails)[h] IN
       /\ Befalls(<<"load fails">>, fails)
       /\ IF Stale(c, through) THEN CallEnds(c, "stale_read")
          ELSE IF Cardinality(Logs(c)) # 1 THEN CallEnds(c, "no single log")
          ELSE Becomes(c, [talk[c] EXCEPT !.at = "append", !.through = through, !.blind = Forgets(fails),
                                          !.target = CHOOSE f \in Logs(c) : TRUE])
  /\ UNCHANGED <<channel, receipts, hostSide, advised, got, missed, losses>>

\* Mutant of Attested: a post attests through its own minute.
AttestedNow(c) == minute

\* Through which minute a post attests: its own, and never back.
Attested(c) == Max({talk[c].through, minute})

Lands(c) ==
  /\ talk[c].at = "append"
  /\ EntryArrives([no |-> NextNo, stamp |-> minute, by |-> Ask(c).handle, file |-> talk[c].target,
              form |-> "log"])
  /\ Becomes(c, [talk[c] EXCEPT !.at = "load", !.to = Attested(c)])
  /\ UNCHANGED <<meeting, uncached, minute, receipts, hostSide, advised, befalling, got, losses>>

\* Mutant of Base: the receipt is written without what the others have.
BaseOfNone(fails) == Unheld

\* What a receipt is set in: the file as it is read then.
Base(fails) == LoadReceipts(fails)

\* set: the file is read, one receipt of it replaced, and written.
SetLoads(c) ==
  /\ talk[c].at = "load"
  /\ \E fails \in BOOLEAN :
       /\ Befalls(<<"load fails">>, fails)
       /\ Becomes(c, [talk[c] EXCEPT !.at = "write", !.base = Base(fails), !.forgot = Forgets(fails)])
  /\ UNCHANGED <<channel, receipts, hostSide, advised, got, missed, losses>>

SetWrites(c) ==
  LET state == [talk[c].base EXCEPT ![Ask(c).handle] = talk[c].to]
      own   == IF Ask(c).tool = "attest" THEN {Ask(c).handle} ELSE {}
  IN
  /\ talk[c].at = "write"
  /\ \E fails \in BOOLEAN :
       /\ Befalls(<<"write fails">>, fails)
       /\ WriteReceipts(state, fails)
       /\ rolled' = rolled \cup IF talk[c].blind \/ talk[c].forgot \/ talk[c].crossed THEN {}
                                ELSE Lowered(state, fails) \ own
       /\ wiped' = (wiped \/ (talk[c].forgot /\ ~fails))
       /\ talk' = [d \in Talks |->
            IF d = c THEN [talk[c] EXCEPT !.at = "over", !.answer = "ok"]
            ELSE [talk[d] EXCEPT !.crossed = @ \/ talk[d].at \notin {"asked", "over"}]]
  /\ UNCHANGED <<channel, hostSide, advised, got, missed>>

-----------------------------------------------------------------------------
\* onload, before the tools are published: the host's receipts are read once, merged
\* under one's own, and the latch closed only when they are known to be on the disk.

\* Mutant of Incoming: the host's receipts win over one's own.
IncomingWins(own) == [h \in Handles |-> IF meeting.host[h] # 0 THEN meeting.host[h] ELSE own[h]]

\* What the merge makes of one's own: the host's receipts where there is none.
Incoming(own) == [h \in Handles |-> IF own[h] # 0 THEN own[h] ELSE meeting.host[h]]

\* Mutant of AfterAsking: a host that does not answer closes the latch.
LatchAnyhow(fails) == IF latch THEN "ready" ELSE IF fails \/ meeting.host = Unheld THEN "latch" ELSE Merge

\* What is left to do once the host answered, or did not.
AfterAsking(fails) == IF latch \/ fails THEN "ready" ELSE IF meeting.host = Unheld THEN "latch" ELSE Merge

AskHost ==
  /\ adoption = "asked"
  /\ \E fails \in BOOLEAN :
       /\ Befalls(<<"host fails">>, fails)
       /\ adoption' = AfterAsking(fails)
  /\ UNCHANGED <<channel, receipts, talk, abandoned, latch, advised, got, missed, losses>>

MergeLoads ==
  /\ adoption = Merge
  /\ \E fails \in BOOLEAN :
       /\ Befalls(<<"load fails">>, fails)
       /\ adoption' = IF Incoming(LoadReceipts(fails)) = LoadReceipts(fails) THEN "latch"
                      ELSE IF Forgets(fails) THEN "write over" ELSE "write"
  /\ UNCHANGED <<channel, receipts, talk, abandoned, latch, advised, got, missed, losses>>

MergeWrites ==
  LET over  == adoption = "write over"
      state == Incoming(IF over THEN Unheld ELSE Held)
  IN
  /\ adoption \in {"write", "write over"}
  /\ \E fails \in BOOLEAN :
       /\ Befalls(<<"write fails">>, fails)
       /\ WriteReceipts(state, fails)
       /\ adoption' = IF fails THEN "ready" ELSE "latch"
       /\ rolled' = IF over THEN rolled ELSE rolled \cup Lowered(state, fails)
       /\ wiped' = (wiped \/ (over /\ ~fails))
  /\ UNCHANGED <<channel, talk, abandoned, latch, advised, got, missed>>

Latches ==
  /\ adoption = "latch" /\ latch' = TRUE /\ adoption' = "ready"
  /\ UNCHANGED <<channel, receipts, talk, abandoned, advised, befalling, got, missed, losses>>

-----------------------------------------------------------------------------
\* Others write entries, by hand, by a shell or from another machine; a message note is
\* known to the cache a moment later.
OthersPost ==
  \E x \in befalling :
    /\ x[1] = "entry" /\ befalling' = befalling \ {x}
    /\ EntryArrives([no |-> NextNo, stamp |-> x[3], by |-> x[2], file |-> x[4],
                form |-> IF x[4] \in NoteFiles THEN "note" ELSE "log"])
    /\ uncached' = uncached \cup ({x[4]} \cap NoteFiles)
    /\ UNCHANGED <<meeting, minute, receipts, talk, hostSide, advised, got, losses>>

Cached ==
  /\ uncached # {} /\ uncached' = {}
  /\ UNCHANGED <<meeting, entries, minute, receipts, talk, hostSide, advised, befalling, got, missed,
                 losses>>

\* The wall clock, in local time: it passes, and in autumn it is put back.
ClockMoves ==
  /\ \/ Befalls(<<"tick">>, TRUE) /\ minute' = minute + 1
     \/ Befalls(<<"back">>, TRUE) /\ minute' = minute - 1
  /\ UNCHANGED <<meeting, entries, uncached, receipts, talk, hostSide, advised, got, missed, losses>>

\* The queue gives up on a call at its deadline; its handler goes on.
AbandonCall(c) ==
  /\ Befalls(<<"expire">>, TRUE) /\ talk[c].at \notin {"asked", "over"} /\ abandoned' = abandoned \cup {c}
  /\ UNCHANGED <<channel, receipts, talk, adoption, latch, advised, got, missed, losses>>

\* The process dies, perhaps while it writes the receipts, and is started again.
Writing == (\E c \in Talks : talk[c].at = "write") \/ adoption \in {"write", "write over"}

HostDies ==
  /\ Befalls(<<"crash">>, TRUE)
  /\ \E tears \in BOOLEAN :
       /\ tears => Writing
       /\ receipts' = IF tears THEN [receipts EXCEPT !.legible = FALSE] ELSE receipts
  /\ talk' = [c \in Talks |-> IF talk[c].at \in {"asked", "over"} THEN talk[c]
                              ELSE [talk[c] EXCEPT !.at = "over", !.answer = "lost"]]
  /\ adoption' = "asked" /\ abandoned' = {}
  /\ UNCHANGED <<channel, latch, advised, got, missed, losses>>

CrossNext ==
  \/ \E c \in Talks : \/ Resolve(c) \/ Delta(c) \/ Attest(c) \/ Gate(c) \/ Lands(c)
                      \/ SetLoads(c) \/ SetWrites(c) \/ AbandonCall(c)
  \/ AskHost \/ MergeLoads \/ MergeWrites \/ Latches
  \/ OthersPost \/ Cached \/ ClockMoves \/ HostDies

CrossSpec == CrossInit /\ [][CrossNext]_xsvars

-----------------------------------------------------------------------------
CrossTypeOK ==
  /\ meeting \in Meetings /\ befalling \subseteq meeting.coming /\ latch \in BOOLEAN
  /\ \A e, f \in entries : e.no = f.no => e = f
  /\ uncached \subseteq {e.file : e \in entries} \cap NoteFiles
  /\ \A c \in Talks : talk[c].at \in {"asked", "resolved", "append", "load", "write", "over"}

\* No receipt counts an entry as read that its handle was never served and never said to
\* have read, unless the entry came when a receipt, or the call that set it, covered its
\* minute already, or that call could not see it.
NothingSkipped ==
  \A h \in Handles : \A e \in entries :
    e.by # h /\ e.stamp <= Held[h] => e.no \in got[h] \/ <<h, e.no>> \in missed

\* A receipt goes back by its handle's own attest only: never by a post, another's call
\* or the adoption, unless calls overlapped or the file could not be read.
ReceiptsKept == rolled = {}

\* Once the adoption is closed for good, whoever had a receipt with the host has one here,
\* unless a load that failed, or a torn file, cost receipts later.
HostAdopted ==
  latch /\ ~wiped /\ receipts.legible => \A h \in Handles : meeting.host[h] # 0 => receipts.through[h] # 0

CrossSafe == CrossTypeOK /\ NothingSkipped /\ ReceiptsKept /\ HostAdopted
=============================================================================
