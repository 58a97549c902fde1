-------------------------- MODULE IdempotencyStore --------------------------
(***************************************************************************)
(* The completed-entry half of the idempotency store                       *)
(* (packages/host/src/kernel/idempotency.ts): a bounded, least-recently-   *)
(* used map from key to the call whose returned envelope is replayed.      *)
(* The reservations of calls in flight are the kernel's (WriteKernel).     *)
(*                                                                         *)
(* A store is a record: entry[k] is the call stored under k or None,       *)
(* recent lists the stored keys, least recently used first (the insertion  *)
(* order of the code's Map), and evicted remembers, for the properties,    *)
(* which keys a full store ever dropped.  An entry's age is not kept here: *)
(* the operators take the set "aged" of calls whose window has passed.     *)
(***************************************************************************)
EXTENDS Naturals, Sequences

CONSTANTS Keys, StoreMax, None

EmptyStore == [entry |-> [k \in Keys |-> None], recent |-> <<>>, evicted |-> {}]

\* What a new process starts with.
Restarted(st) == [EmptyStore EXCEPT !.evicted = st.evicted]

\* The order s without k, which it lists at most once.
PlaceOf(s, k) == CHOOSE n \in 1..Len(s) : s[n] = k
Without(s, k) ==
  IF \E n \in 1..Len(s) : s[n] = k
  THEN [n \in 1..(Len(s) - 1) |-> IF n < PlaceOf(s, k) THEN s[n] ELSE s[n + 1]]
  ELSE s

\* Mutant of Get: a live entry is moved without being deleted first.
GetTwice(st, k, aged) ==
  IF st.entry[k] = None THEN st
  ELSE IF st.entry[k] \in aged
       THEN [st EXCEPT !.entry[k] = None, !.recent = Without(@, k)]
       ELSE [st EXCEPT !.recent = Append(@, k)]

\* get(): drop a lapsed entry, move a live one to most recently used.
Get(st, k, aged) ==
  LET others == Without(st.recent, k)
  IN  IF st.entry[k] = None THEN st
      ELSE IF st.entry[k] \in aged
           THEN [st EXCEPT !.entry[k] = None, !.recent = others]
           ELSE [st EXCEPT !.recent = Append(others, k)]

\* set(): store c under k as most recently used, then evict down to the cap.
Put(st, k, c) ==
  LET order == Append(Without(st.recent, k), k)
      full  == Len(order) > StoreMax
      added == [st EXCEPT !.entry[k] = c, !.recent = order]
  IN  IF full
      THEN [added EXCEPT !.entry[Head(order)] = None, !.recent = Tail(order),
                         !.evicted = @ \cup {Head(order)}]
      ELSE added

\* Mutant of SeedOne: a key in flight is seeded too.
SeedOneBusy(st, c, keyOf, busy, aged) ==
  IF c = None THEN st
  ELSE LET g == Get(st, keyOf[c], aged)
       IN  IF g.entry[keyOf[c]] # None \/ c \in aged THEN g ELSE Put(g, keyOf[c], c)

\* One record of seedFromJournal(): if it says that the write of call c happened, c is
\* stored under its key, unless the key is in flight (busy), already stored, or the
\* record is older than the window.
SeedOne(st, c, keyOf, busy, aged) ==
  IF c = None \/ keyOf[c] \in busy THEN st
  ELSE LET g == Get(st, keyOf[c], aged)
       IN  IF g.entry[keyOf[c]] # None \/ c \in aged THEN g ELSE Put(g, keyOf[c], c)

\* The store after each of the journal's records; done[n] is the call the n-th one says
\* is done, or None.
Seeding(st, done, keyOf, busy, aged) ==
  LET after[n \in 0..Len(done)] ==
        IF n = 0 THEN st ELSE SeedOne(after[n - 1], done[n], keyOf, busy, aged)
  IN  after

\* seedFromJournal(): every record in turn.
Seed(st, done, keyOf, busy, aged) == Seeding(st, done, keyOf, busy, aged)[Len(done)]

=============================================================================
