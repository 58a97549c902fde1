----------------------------- MODULE BatchWrite -----------------------------
(***************************************************************************)
(* obsidian_write_notes: writes of one note, in one call or one after      *)
(* another, each composed and stamped from what the metadata cache says of *)
(* the note, then sent through the guarded writer on its own               *)
(* (packages/host/src/mcp/tools-write-notes.ts, write-notes-compose.ts,    *)
(* obsidian-backend.ts).  People and other plugins edit the note           *)
(* meanwhile, and the cache lags behind the file.                          *)
(***************************************************************************)
EXTENDS Naturals, Sequences, FiniteSets, RecordGuard

CONSTANTS
  NoKey,     \* no idempotency key
  Batches    \* initial states: the note, the items to write and what may happen

PageStates == [there : BOOLEAN, uid : Nat, fm : Frontmatter, rev : Nat]

\* A batch writes notes with frontmatter, and the rev it was told is of an item before;
\* what happens meanwhile is somebody's edit, a second, a deadline or a read that fails.
ASSUME BatchAssumption ==
  \A b \in Batches :
    /\ b.page \in PageStates /\ Len(b.items) \in Nat /\ DOMAIN b.items = 1..Len(b.items)
    /\ \A i \in 1..Len(b.items) : /\ b.items[i].fm \in Frontmatter /\ b.items[i].uid \in Nat
                                  /\ b.items[i].told => i > 1
    /\ \A x \in b.coming : \/ x \in {<<"expire">>, <<"second">>, <<"unreadable">>}
                           \/ x[1] \in {"body", "delete", "create"}
                           \/ x[1] = "record" /\ x[2] \in Frontmatter
                           \/ x[1] = "uid" /\ x[2] \in Nat

VARIABLES
  batch,     \* the initial state
  page,      \* the note on the disk: [there, uid (0: none), fm, rev]
  known,     \* what the metadata cache has of it: [uid, fm]
  second,    \* the second, for modified
  item,      \* the item whose turn it is
  writers,   \* the items under way, see Compose
  reply,    \* by item: what the answer says of it, the rev it names, and what was composed
  mayBe,     \* what may still happen
  landed,    \* for the properties: how often each item's write landed
  misdeeds   \* and what no write may do

bwvars == <<batch, page, known, second, item, writers, reply, mayBe, landed, misdeeds>>

Bare       == [uid |-> 0, fm |-> Unmarked]
View(p)    == IF p.there THEN [uid |-> p.uid, fm |-> Parsed(p.fm)] ELSE Bare
RecordOf(p)  == IF p.there THEN p.fm ELSE Unmarked
Composed(u, f, m) == [uid |-> u, fm |-> f, modified |-> m]
Items      == DOMAIN batch.items
Payload(i)   == batch.items[i]
Unsaid     == [is |-> "none", rev |-> 0, text |-> Composed(0, Unmarked, 0)]

BatchInit ==
  /\ batch \in Batches
  /\ page = batch.page /\ known = View(batch.page) /\ second = 1 /\ item = 1 /\ writers = {}
  /\ reply = [i \in DOMAIN batch.items |-> Unsaid] /\ mayBe = batch.coming
  /\ landed = [i \in DOMAIN batch.items |-> 0] /\ misdeeds = {}

-----------------------------------------------------------------------------
\* What a stamp fills in: a status the payload does not name is the note's, a filled
\* verification is carried forward, and the time is noted.
FilledIn(i, old, uid) ==
  Composed(uid, [Payload(i).fm EXCEPT
     !.status   = IF @ # "none" THEN @ ELSE IF old.fm.status # "none" THEN old.fm.status ELSE "draft",
     !.verified = IF @ = "none" /\ old.fm.verified # "blank" THEN old.fm.verified ELSE @], second)

MintUid(i) == 100 + i

\* Mutant of StampOver: what a stamp fills in is taken from the payload alone.
StampBlindly(i, old) == FilledIn(i, Bare, IF Payload(i).uid # 0 THEN Payload(i).uid ELSE MintUid(i))

\* Mutant of StampOver: the payload's uid is used before that of the note.
StampPayloadFirst(i, old) ==
  FilledIn(i, old, IF Payload(i).uid # 0 THEN Payload(i).uid
                   ELSE IF old.uid # 0 THEN old.uid ELSE MintUid(i))

\* composeNote with stamp: the uid of the note wins over the payload's, and one is minted
\* if there is none.
StampOver(i, old) ==
  FilledIn(i, old, IF old.uid # 0 THEN old.uid
                   ELSE IF Payload(i).uid # 0 THEN Payload(i).uid ELSE MintUid(i))

Says(i, what, rev) == reply' = [reply EXCEPT ![i].is = what, ![i].rev = rev]
StepsTo(w, at) == writers' = (writers \ {w}) \cup {[w EXCEPT !.at = at]}

\* The loop goes on to the next item, unless it gave this one up already.
Over(w, what, rev) ==
  /\ writers' = writers \ {w}
  /\ IF w.item = item THEN Says(item, what, rev) /\ item' = item + 1 ELSE UNCHANGED <<item, reply>>

\* One item at a time: refused if it is out of the caller's reach, composed over what the
\* cache says, and refused before it takes a place in the queue if that would grant or
\* take what only a person may.
Compose ==
  LET p    == Payload(item)
      text == IF p.stamp THEN StampOver(item, known) ELSE Composed(p.uid, p.fm, 0)
      refusal == IF p.hidden THEN "out of reach" ELSE "accept_forbidden"
  IN
  /\ item \in Items /\ \A w \in writers : w.item # item
  /\ IF p.hidden \/ ~Transition(known.fm, text.fm)
     THEN /\ Says(item, refusal, 0) /\ item' = item + 1 /\ UNCHANGED writers
     ELSE /\ writers' = writers \cup {[item |-> item, at |-> "asked", held |-> Unmarked,
                                       over |-> page, stale |-> known # View(page)]}
          /\ reply' = [reply EXCEPT ![item].text = text] /\ UNCHANGED item
  /\ UNCHANGED <<batch, page, known, second, mayBe, landed, misdeeds>>

\* The rev an item requires: one its caller read, or the one the answer before named.
Token(i) == IF Payload(i).told THEN reply[i - 1].rev ELSE Payload(i).rev

\* Two items carry one idempotency key.
SameKey(i, j) == Payload(i).key # NoKey /\ Payload(i).key = Payload(j).key

\* Mutant of Answered: every item with a key runs.
NeverAnswered(i) == {}

\* What was returned under an item's key, an envelope with an error included, is returned
\* again; and the key of another request refuses.
Answered(i)    == {j \in 1..i - 1 : SameKey(i, j) /\ reply[j].is \in {"ok", "protection_required"}}
SameRequest(i, j) == reply[i].text = reply[j].text /\ Token(i) = Token(j)

Claims(w) ==
  LET i == w.item IN
  /\ w.at = "asked"
  /\ IF Answered(i) = {} THEN StepsTo(w, "queued") /\ UNCHANGED <<item, reply>>
     ELSE LET j == CHOOSE j \in Answered(i) : TRUE
          IN IF ~SameRequest(i, j) THEN Over(w, "idempotency_mismatch", 0)
             ELSE IF reply[j].is = "ok" THEN StepsTo(w, "returned") /\ UNCHANGED <<item, reply>>
             ELSE Over(w, reply[j].is, 0)
  /\ UNCHANGED <<batch, page, known, second, mayBe, landed, misdeeds>>

\* Mutant of MustBeNew: an item without a rev overwrites a note that is there.
MayBeThere(i) == FALSE

\* create_only: an item without a rev is a create, whatever it finds.
MustBeNew(i) == Token(i) = 0 /\ page.there

\* At the dequeue: a rev that is not the note's refuses, and so does a note that is there
\* if the item is to create it.
Dequeued(w) ==
  /\ w.at = "queued"
  /\ IF Token(w.item) # 0 /\ (~page.there \/ Token(w.item) # page.rev) THEN Over(w, "rev_conflict", 0)
     ELSE IF MustBeNew(w.item) THEN Over(w, "protection_required", 0)
     ELSE StepsTo(w, "guard") /\ UNCHANGED <<item, reply>>
  /\ UNCHANGED <<batch, page, known, second, mayBe, landed, misdeeds>>

\* Mutant of Permits: the guard compares with what the cache has of the note.
PermitsByCache(held, text) == MayWrite(known.fm, text.fm)

\* guardWrittenContent, over the record the file holds.
Permits(held, text) == MayWrite(held, text.fm)

\* writeNote: the guard reads the file itself, and a file it cannot read has no record.
Guards(w) ==
  /\ w.at = "guard"
  /\ \E fails \in BOOLEAN :
       LET held == IF fails THEN Unmarked ELSE RecordOf(page) IN
       /\ fails => <<"unreadable">> \in mayBe
       /\ mayBe' = IF fails THEN mayBe \ {<<"unreadable">>} ELSE mayBe
       /\ IF Permits(held, reply[w.item].text)
          THEN writers' = (writers \ {w}) \cup {[w EXCEPT !.at = "look", !.held = held]}
               /\ UNCHANGED <<item, reply>>
          ELSE Over(w, "accept_forbidden", 0)
  /\ UNCHANGED <<batch, page, known, second, landed, misdeeds>>

\* Then it looks whether the note is there.
Looks(w) ==
  /\ w.at = "look"
  /\ IF MustBeNew(w.item) THEN Over(w, "exists", 0)
     ELSE StepsTo(w, IF page.there THEN "modify" ELSE "create") /\ UNCHANGED <<item, reply>>
  /\ UNCHANGED <<batch, page, known, second, mayBe, landed, misdeeds>>

\* What a write that lands must not have done.  The caller is silent on the status, or
\* nobody touched the note, or its cache entry, since it was composed.
Misdeeds(w) ==
  LET text == reply[w.item].text
      same == Payload(w.item).stamp /\ ~w.stale /\ page = w.over /\ page.there
  IN
  {m \in {"granted", "taken", "replaced", "renamed", "demoted"} :
     \/ m = "granted"  /\ ~(Granted(text.fm) \subseteq Granted(w.held))
     \/ m = "taken"    /\ w.held.clear /\ ~(Kept(w.held) \subseteq Kept(text.fm))
     \/ m = "replaced" /\ page.there /\ Token(w.item) = 0
     \/ m = "renamed"  /\ same /\ page.uid # 0 /\ text.uid # page.uid
     \/ m = "demoted"  /\ same /\ page.fm.clear /\ page.fm.status # "none"
                       /\ Payload(w.item).fm.status = "none" /\ text.fm.status # page.fm.status}

\* The vault creates no note that is there, and may or may not modify one that is gone.
VaultWrites(w) ==
  /\ w.at \in {"create", "modify"}
  /\ \/ /\ w.at = "create" => ~page.there
        /\ page' = [there |-> TRUE, uid |-> reply[w.item].text.uid, fm |-> reply[w.item].text.fm,
                    rev |-> page.rev + 1]
        /\ StepsTo(w, "returned") /\ UNCHANGED <<item, reply>>
        /\ landed' = [landed EXCEPT ![w.item] = @ + 1]
        /\ misdeeds' = misdeeds \cup Misdeeds(w)
     \/ /\ page.there = (w.at = "create")
        /\ Over(w, "error", 0) /\ UNCHANGED <<page, landed, misdeeds>>
  /\ UNCHANGED <<batch, known, second, mayBe>>

\* The item is given the rev the note has by the time it is reported.
Reports(w) ==
  /\ w.at = "returned" /\ Over(w, "ok", IF page.there THEN page.rev ELSE 0)
  /\ UNCHANGED <<batch, page, known, second, mayBe, landed, misdeeds>>

\* The queue gives up on a write that has begun: its item is an error, and the next begins.
GivesUp(w) ==
  /\ <<"expire">> \in mayBe /\ mayBe' = mayBe \ {<<"expire">>}
  /\ w.item = item /\ w.at \in {"guard", "look", "create", "modify"}
  /\ Says(item, "write_timeout", 0) /\ item' = item + 1
  /\ UNCHANGED <<batch, page, known, second, writers, landed, misdeeds>>

-----------------------------------------------------------------------------
\* A person or another plugin changes the note's record or its uid, edits its body,
\* deletes it or creates it; a second passes.
OthersEdit ==
  \E x \in mayBe \ {<<"expire">>, <<"second">>, <<"unreadable">>} :
    /\ mayBe' = mayBe \ {x}
    /\ page.there # (x[1] = "create")
    /\ page' = CASE x[1] = "record" -> [page EXCEPT !.fm = x[2], !.rev = @ + 1]
                 [] x[1] = "uid"    -> [page EXCEPT !.uid = x[2], !.rev = @ + 1]
                 [] x[1] = "body"   -> [page EXCEPT !.rev = @ + 1]
                 [] x[1] = "delete" -> [page EXCEPT !.there = FALSE, !.uid = 0, !.fm = Unmarked]
                 [] x[1] = "create" -> [page EXCEPT !.there = TRUE, !.rev = @ + 1]
    /\ UNCHANGED <<batch, known, second, item, writers, reply, landed, misdeeds>>

SecondPasses ==
  /\ <<"second">> \in mayBe /\ mayBe' = mayBe \ {<<"second">>} /\ second' = second + 1
  /\ UNCHANGED <<batch, page, known, item, writers, reply, landed, misdeeds>>

CacheFollows ==
  /\ known # View(page) /\ known' = View(page)
  /\ UNCHANGED <<batch, page, second, item, writers, reply, mayBe, landed, misdeeds>>

BatchNext ==
  \/ Compose \/ OthersEdit \/ SecondPasses \/ CacheFollows
  \/ \E w \in writers : \/ Claims(w) \/ Dequeued(w) \/ Guards(w) \/ Looks(w) \/ VaultWrites(w)
                        \/ Reports(w) \/ GivesUp(w)

BatchSpec == BatchInit /\ [][BatchNext]_bwvars

-----------------------------------------------------------------------------
BatchTypeOK ==
  /\ batch \in Batches /\ mayBe \subseteq batch.coming /\ page.fm \in Frontmatter
  /\ item \in 1..Len(batch.items) + 1
  /\ \A v, w \in writers : v.item = w.item => v = w

\* However the cache lags: no item gives a note an acceptance or a verification it had
\* not when the guard read it, or takes a verification it had; an item without a rev
\* replaces nothing; and a stamp over a note the cache knew, and nobody changed since,
\* keeps its uid and the status the payload does not name.
NothingTaken == misdeeds = {}

\* What is reported as written was written, by that item or an earlier one of its key,
\* and a key's request lands once; what is reported as an error wrote nothing.  Only what
\* the queue gave up on may land after all.
ReportsWhatLanded ==
  \A i \in Items :
    /\ reply[i].is = "ok" => landed[i] = 1 \/ \E j \in Answered(i) : landed[j] = 1
    /\ landed[i] = 1 => reply[i].is \in {"none", "ok", "write_timeout"}
    /\ \A j \in 1..i - 1 : SameKey(i, j) /\ landed[i] = 1 => reply[j].is # "ok"

BatchSafe == BatchTypeOK /\ NothingTaken /\ ReportsWhatLanded
=============================================================================
