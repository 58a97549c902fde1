----------------------------- MODULE Observations -----------------------------
(***************************************************************************)
(* The payloads of observed reads (packages/host/src/kernel/observations/  *)
(* capture.ts, store.ts, local-store.ts): reads never queue, so captures   *)
(* of any number of connections run beside each other, beside playback and *)
(* beside pruning.  A payload is stored under its digest with the notes it *)
(* came from; who may replay it is asked of each of them, when it is asked.*)
(***************************************************************************)
EXTENDS Naturals, FiniteSets, FiniteSetsExt

CONSTANTS
  Reads,         \* the reads observed
  Connections,
  Digests,       \* what was read: equal content has one digest
  SizeOf,        \* SizeOf[d]: its bytes
  NoteSources,   \* the notes content comes from
  GuardedNotes,  \* those in a guarded territory
  MaxBytes,      \* the cap
  NoBlob,
  Sightings      \* scenarios: what is read, by whom, from where; what is stored, here and
                 \* (legacy) where it was before the split; what is leaned on; what comes

ASSUME ObservationAssumption ==
  /\ SizeOf \in [Digests -> Nat] /\ GuardedNotes \subseteq NoteSources /\ MaxBytes \in Nat
  /\ \A S \in SUBSET NoteSources : NoBlob # S
  /\ \A s \in Sightings :   \* a disk holds so many payloads, none of what is guarded
       /\ s.reads \in [Reads -> [conn : Connections, digest : Digests,
                                 sources : SUBSET NoteSources]]
       /\ {s.blobs, s.legacy}
            \subseteq [Digests -> {NoBlob} \cup SUBSET (NoteSources \ GuardedNotes)]
       /\ IsFiniteSet({d \in Digests : s.blobs[d] # NoBlob})

VARIABLES
  sighting,    \* the scenario
  blob,        \* blob[d]: the sources stored with d, or NoBlob
  seed,        \* seed[c]: "none", "walking", "walked", "counting" or "failed"
  found,       \* found[c]: the bytes the walk found
  counted,     \* counted[c]: storedBytes of the connection's capture
  obs,         \* obs[r]: "asked", "seeding", "get", "put", "kept", "refused", "failed"
  sawStored,   \* sawStored[r]: what put() found under the digest
  readable,    \* notes inside the allowlist, now
  playing,     \* what playback has loaded: {} or {<<digest, sources, what they should be>>}
  occurrences, \* what may still come
  sourced,     \* history: sourced[d]: where kept captures of d came from, since a prune
  pruned,      \* history: digests that were removed
  overlapped,  \* history: digests of which one put read what another was about to write
  disclosed    \* history: digests replayed although one of their sources was unreadable

ovars == <<sighting, blob, seed, found, counted, obs, sawStored, readable, playing, occurrences,
           sourced, pruned,
           overlapped, disclosed>>

Asked(r)  == sighting.reads[r]      \* [conn, digest, sources]
Stored    == {d \in Digests : blob[d] # NoBlob}
Bytes(size, S) == MapThenSumSet(LAMBDA x : size[x], S)
OnDisk    == Bytes(SizeOf, Stored)

ObservationInit ==
  /\ sighting \in Sightings
  /\ blob = sighting.blobs
  /\ seed = [c \in Connections |-> "none"]
  /\ found = [c \in Connections |-> 0] /\ counted = [c \in Connections |-> 0]
  /\ obs = [r \in Reads |-> "asked"] /\ sawStored = [r \in Reads |-> NoBlob]
  /\ readable = NoteSources /\ playing = {} /\ occurrences = sighting.coming
  /\ sourced = [d \in Digests |-> IF blob[d] = NoBlob THEN {} ELSE blob[d]]
  /\ pruned = {} /\ overlapped = {} /\ disclosed = {}

-----------------------------------------------------------------------------
\* Mutant of Excluded: a read is refused if all of it is guarded.
ExcludedIfAll(srcs) == srcs \subseteq GuardedNotes

\* No source is known, or one of them lies in a guarded territory.
Excluded(srcs) == srcs = {} \/ srcs \cap GuardedNotes # {}

\* Mutant of Reserve: the bytes are counted when they have been written.
ReserveLater(r, from) ==
  LET c == Asked(r).conn IN
  /\ counted' = [counted EXCEPT ![c] = from]
  /\ obs' = [obs EXCEPT ![r] = IF from + SizeOf[Asked(r).digest] > MaxBytes THEN "refused" ELSE "get"]

\* The cap is checked and the bytes reserved, with nothing awaited between.
Reserve(r, from) ==
  LET c == Asked(r).conn
      n == from + SizeOf[Asked(r).digest]
  IN IF n > MaxBytes
     THEN counted' = [counted EXCEPT ![c] = from] /\ obs' = [obs EXCEPT ![r] = "refused"]
     ELSE counted' = [counted EXCEPT ![c] = n] /\ obs' = [obs EXCEPT ![r] = "get"]

\* capture(): the gates, then the seed if this is the connection's first.
BeginCapture(r) ==
  LET c == Asked(r).conn IN
  /\ obs[r] = "asked"
  /\ IF Excluded(Asked(r).sources)
     THEN obs' = [obs EXCEPT ![r] = "refused"] /\ UNCHANGED <<counted, seed>>
     ELSE IF seed[c] = "counting" THEN Reserve(r, counted[c]) /\ UNCHANGED seed
     ELSE /\ obs' = [obs EXCEPT ![r] = "seeding"] /\ UNCHANGED counted
          /\ seed' = [seed EXCEPT ![c] = IF @ = "none" THEN "walking" ELSE @]
  /\ UNCHANGED <<sighting, blob, found, sawStored, readable, playing, occurrences, sourced, pruned,
                 overlapped,
                 disclosed>>

\* totalBytes: the directory is walked, once per connection; a failure stays.
Walk(c) ==
  /\ seed[c] = "walking"
  /\ \/ /\ seed' = [seed EXCEPT ![c] = "walked"] /\ found' = [found EXCEPT ![c] = OnDisk]
        /\ UNCHANGED occurrences
     \/ /\ <<"walk fails">> \in occurrences /\ occurrences' = occurrences \ {<<"walk fails">>}
        /\ seed' = [seed EXCEPT ![c] = "failed"] /\ UNCHANGED found
  /\ UNCHANGED <<sighting, blob, counted, obs, sawStored, readable, playing, sourced, pruned,
                 overlapped, disclosed>>

\* Mutant of From: each capture counts from the seed it has waited for.
FromSeed(c) == found[c]

\* The first to resume takes the seed; later ones count on.
From(c) == IF seed[c] = "walked" THEN found[c] ELSE counted[c]

Seeded(r) ==
  LET c == Asked(r).conn IN
  /\ obs[r] = "seeding" /\ seed[c] \notin {"none", "walking"}
  /\ IF seed[c] = "failed" THEN obs' = [obs EXCEPT ![r] = "failed"] /\ UNCHANGED <<seed, counted>>
                           ELSE seed' = [seed EXCEPT ![c] = "counting"] /\ Reserve(r, From(c))
  /\ UNCHANGED <<sighting, blob, found, sawStored, readable, playing, occurrences, sourced, pruned,
                 overlapped,
                 disclosed>>

\* get: here, or in the directory the store had before the split.
Found(d) == IF blob[d] # NoBlob THEN blob[d] ELSE sighting.legacy[d]

\* Mutant of Union: the digest is stored, so there is nothing to write.
UnionAsFound(was, srcs) == IF was = NoBlob THEN srcs ELSE was

\* Sources are united: the same content may come from many notes.
Union(was, srcs) == IF was = NoBlob THEN srcs ELSE was \cup srcs

Keeps(r) == sourced' = [sourced EXCEPT ![Asked(r).digest] = @ \cup Asked(r).sources]

\* put() looks at what is stored; if that names every source already, it is done.
GetBlob(r) ==
  LET d == Asked(r).digest IN
  /\ obs[r] = "get"
  /\ sawStored' = [sawStored EXCEPT ![r] = Found(d)]
  /\ IF Found(d) # NoBlob /\ Union(Found(d), Asked(r).sources) = Found(d)
     THEN obs' = [obs EXCEPT ![r] = "kept"] /\ Keeps(r)
     ELSE obs' = [obs EXCEPT ![r] = "put"] /\ UNCHANGED sourced
  /\ overlapped' = overlapped \cup {e \in {d} : \E q \in Reads : obs[q] = "put" /\ Asked(q).digest = d}
  /\ UNCHANGED <<sighting, blob, seed, found, counted, readable, playing, occurrences, pruned,
                 disclosed>>

\* The temporary file is renamed into place; a failure leaves what was there.
PutBlob(r) ==
  LET d == Asked(r).digest IN
  /\ obs[r] = "put"
  /\ \/ /\ blob' = [blob EXCEPT ![d] = Union(sawStored[r], Asked(r).sources)]
        /\ obs' = [obs EXCEPT ![r] = "kept"] /\ Keeps(r) /\ UNCHANGED occurrences
     \/ /\ <<"put fails">> \in occurrences /\ occurrences' = occurrences \ {<<"put fails">>}
        /\ obs' = [obs EXCEPT ![r] = "failed"] /\ UNCHANGED <<blob, sourced>>
  /\ UNCHANGED <<sighting, seed, found, counted, sawStored, readable, playing, pruned, overlapped,
                 disclosed>>

-----------------------------------------------------------------------------
\* prune: what nothing depends on is removed, here only.
Prune(d) ==
  /\ <<"prune", d>> \in occurrences /\ occurrences' = occurrences \ {<<"prune", d>>}
  /\ IF d \in sighting.leaned THEN UNCHANGED <<blob, sourced, pruned>>
     ELSE /\ blob' = [blob EXCEPT ![d] = NoBlob] /\ pruned' = pruned \cup {d}
          /\ sourced' = [sourced EXCEPT ![d] = {}]
  /\ UNCHANGED <<sighting, seed, found, counted, obs, sawStored, readable, playing, overlapped,
                 disclosed>>

\* playback, or export, of one digest: what is stored is loaded.
LoadPayload(d) ==
  /\ <<"play", d>> \in occurrences /\ playing = {}
  /\ occurrences' = occurrences \ {<<"play", d>>}
  /\ playing' = IF Found(d) = NoBlob THEN {} ELSE {<<d, Found(d), sourced[d]>>}
  /\ UNCHANGED <<sighting, blob, seed, found, counted, obs, sawStored, readable, sourced, pruned,
                 overlapped, disclosed>>

\* Mutant of Authorized: one source that may be read is enough.
AuthorizedByOne(srcs) == srcs \cap readable # {}

\* Every source must be readable now, and there must be one.
Authorized(srcs) == srcs # {} /\ srcs \subseteq readable

\* What the reader is given, or not.
Replay ==
  /\ \E p \in playing :
       disclosed' = disclosed \cup {d \in {p[1]} : Authorized(p[2]) /\ ~(p[3] \subseteq readable)}
  /\ playing' = {}
  /\ UNCHANGED <<sighting, blob, seed, found, counted, obs, sawStored, readable, occurrences, sourced,
                 pruned, overlapped>>

\* The allowlist is narrowed.
Narrow(s) ==
  /\ <<"narrow", s>> \in occurrences /\ occurrences' = occurrences \ {<<"narrow", s>>}
  /\ readable' = readable \ {s}
  /\ UNCHANGED <<sighting, blob, seed, found, counted, obs, sawStored, playing, sourced, pruned,
                 overlapped, disclosed>>

ObservationNext ==
  \/ \E r \in Reads : BeginCapture(r) \/ Seeded(r) \/ GetBlob(r) \/ PutBlob(r)
  \/ \E c \in Connections : Walk(c)
  \/ \E d \in Digests : Prune(d) \/ LoadPayload(d)
  \/ Replay \/ \E s \in NoteSources : Narrow(s)

ObservationSpec == ObservationInit /\ [][ObservationNext]_ovars

-----------------------------------------------------------------------------
ObservationTypeOK ==
  /\ sighting \in Sightings /\ \A d \in Stored : blob[d] \subseteq NoteSources
  /\ counted \in [Connections -> Nat] /\ readable \subseteq NoteSources
  /\ obs \in [Reads -> {"asked", "seeding", "get", "put", "kept", "refused", "failed"}]

Claimed(c) == {r \in Reads : Asked(r).conn = c /\ obs[r] \in {"get", "put", "kept"}}
Added(c)   == Bytes([r \in Reads |-> SizeOf[Asked(r).digest]], Claimed(c))

\* Whatever runs beside each other, what one connection adds to what it found on disk
\* stays within the cap.
CapHolds == \A c \in Connections : Claimed(c) # {} => found[c] + Added(c) <= MaxBytes

\* A payload carries every note it was captured from, however often, unless two puts of
\* it overlapped; and nothing that touched a guarded note is kept.
SourcesKept ==
  \A d \in Digests :
    /\ Found(d) # NoBlob => Found(d) \cap GuardedNotes = {}
    /\ d \notin overlapped => sourced[d] = {} \/ (Found(d) # NoBlob /\ sourced[d] \subseteq Found(d))

\* Nobody is given a payload one of whose notes, as far as they were known when it was
\* loaded, is out of reach when it is given, unless two puts of it overlapped.
NothingDisclosed == disclosed \subseteq overlapped

\* What was captured can be replayed until it is pruned.
KeptIsThere ==
  \A r \in Reads : obs[r] = "kept" /\ Asked(r).digest \notin pruned => Found(Asked(r).digest) # NoBlob

ObservationsSafe == ObservationTypeOK /\ CapHolds /\ SourcesKept /\ NothingDisclosed /\ KeptIsThere

=============================================================================
