----------------------------- MODULE PartsProofs -----------------------------
(***************************************************************************)
(* What is proved of each part of the suite holds where the parts stand    *)
(* side by side: each of them makes its own steps, or none.                *)
(***************************************************************************)
EXTENDS MCParts, HostProofs, NotesProofs, SessionProofs, GovernorProofs

\* The advisory locks are a part like any other.
LEMMA LocksStandAlone == PartsSpec => LockSpec
<1>1. PartsInit => LockInit
  BY DEF PartsInit
<1>2. [PartsNext]_partVars => [LockNext]_lvars
  BY DEF PartsNext, partVars
<1>3. QED BY <1>1, <1>2, PTL DEF PartsSpec, LockSpec

(***************************************************************************)
(* One claim of a holder and scope, and both caps.                         *)
(***************************************************************************)
THEOREM LocksPartHolds == PartsSpec => []LocksPart
<1>1. LocksSafe => LocksPart
  BY DEF LocksPart
<1>2. QED BY <1>1, LocksStandAlone, LocksAreSafe, PTL

\* The locks of the parts' run refine the abstract table of claims.
THEOREM ClaimsKept == PartsSpec => KeepsClaims
BY LocksStandAlone, LocksImplementTable

\* So is the journal.
LEMMA JournalStandsAlone == PartsSpec => JournalSpec
<1>1. PartsInit => JournalInit
  BY DEF PartsInit
<1>2. [PartsNext]_partVars => [JournalNext]_jvars
  BY DEF PartsNext, partVars
<1>3. QED BY <1>1, <1>2, PTL DEF PartsSpec, JournalSpec

(***************************************************************************)
(* No line of a month's file is lost, but where two instances create it.   *)
(***************************************************************************)
THEOREM LinesStay == PartsSpec => LinesKept
BY JournalStandsAlone, JournalKeepsLines

\* And the kernel of the file server.
LEMMA FilesStandAlone == PartsSpec => FsWriteSpec
<1>1. PartsInit => FsWriteInit
  BY DEF PartsInit
<1>2. [PartsNext]_partVars => [FsWriteNext]_fsvars
  BY DEF PartsNext, partVars
<1>3. QED BY <1>1, <1>2, PTL DEF PartsSpec, FsWriteSpec

(***************************************************************************)
(* Both journals hold what was recorded, in its order; the file server's   *)
(* calls are told in the order they were queued, one at a time.            *)
(***************************************************************************)
THEOREM RecordsPartHolds == PartsSpec => []RecordsPart
<1>1. FsKernelSafe /\ JournalSafe => RecordsPart
  BY DEF RecordsPart
<1>2. QED BY <1>1, FilesStandAlone, FsKernelIsSafe, JournalStandsAlone, JournalIsSafe, PTL

(***************************************************************************)
(* No write of the file server loses text it did not race, or grants a     *)
(* note anything over the record its guard read.                           *)
(***************************************************************************)
THEOREM FilesStayKept == PartsSpec => FilesKept
BY FilesStandAlone, FilesAreKept

\* The cutover is a part as well.
LEMMA CutoverStandsAlone == PartsSpec => CutoverSpec
<1>1. PartsInit => CutoverInit
  BY DEF PartsInit
<1>2. [PartsNext]_partVars => [CutoverNext]_cvars
  BY DEF PartsNext, partVars
<1>3. QED BY <1>1, <1>2, PTL DEF PartsSpec, CutoverSpec

(***************************************************************************)
(* The guard follows the marker, the evidence is complete and no record is *)
(* undone unread, with the other parts beside the cutover.                 *)
(***************************************************************************)
THEOREM CutoverPartHolds == PartsSpec => []CutoverPart
<1>1. CutoverSafe => CutoverPart
  BY DEF CutoverPart
<1>2. QED BY <1>1, CutoverStandsAlone, CutoverIsSafe, PTL

\* The publication of tools and hooks is a part.
LEMMA PublicationStandsAlone == PartsSpec => PublicationSpec
<1>1. PartsInit => PublicationInit
  BY DEF PartsInit
<1>2. [PartsNext]_partVars => [PublicationNext]_pvars
  BY DEF PartsNext, partVars
<1>3. QED BY <1>1, <1>2, PTL DEF PartsSpec, PublicationSpec

(***************************************************************************)
(* Whoever is loaded is registered, and nobody who is gone is offered,     *)
(* consulted or run, with the other parts beside the publication.          *)
(***************************************************************************)
THEOREM PublicationPartHolds == PartsSpec => []PublicationPart
<1>1. PublicationSafe => PublicationPart
  BY DEF PublicationPart
<1>2. QED BY <1>1, PublicationStandsAlone, PublicationIsSafe, PTL

\* So is the adoption of an older install.
LEMMA AdoptionStandsAlone == PartsSpec => AdoptionSpec
<1>1. PartsInit => AdoptionInit
  BY DEF PartsInit
<1>2. [PartsNext]_partVars => [AdoptionNext]_avars
  BY DEF PartsNext, partVars
<1>3. QED BY <1>1, <1>2, PTL DEF PartsSpec, AdoptionSpec

(***************************************************************************)
(* What is recorded as adopted landed, and a host in which nothing failed  *)
(* has adopted it all, with the other parts beside.                        *)
(***************************************************************************)
THEOREM AdoptionPartHolds == PartsSpec => []AdoptionPart
<1>1. AdoptionSafe => AdoptionPart
  BY DEF AdoptionPart
<1>2. QED BY <1>1, AdoptionStandsAlone, AdoptionIsSafe, PTL

\* And the dispatch of calls.
LEMMA DispatchStandsAlone == PartsSpec => DispatchSpec
<1>1. PartsInit => DispatchInit
  BY DEF PartsInit
<1>2. [PartsNext]_partVars => [DispatchNext]_dvars
  BY DEF PartsNext, partVars
<1>3. QED BY <1>1, <1>2, PTL DEF PartsSpec, DispatchSpec

(***************************************************************************)
(* Every hook that was to be asked was asked before a mutation is          *)
(* attempted, and a write's bytes are reported once and truly, with the    *)
(* other parts beside.                                                     *)
(***************************************************************************)
THEOREM DispatchPartHolds == PartsSpec => []DispatchPart
<1>1. DispatchSafe => DispatchPart
  BY DEF DispatchPart
<1>2. QED BY <1>1, DispatchStandsAlone, DispatchIsSafe, PTL

\* And the mandates.
LEMMA MandatesStandAlone == PartsSpec => MandatesSpec
<1>1. PartsInit => MandatesInit
  BY DEF PartsInit
<1>2. [PartsNext]_partVars => [MandatesNext]_mvars
  BY DEF PartsNext, partVars
<1>3. QED BY <1>1, <1>2, PTL DEF PartsSpec, MandatesSpec

(***************************************************************************)
(* A mandate that has ended is never active again, with the other parts    *)
(* beside.                                                                 *)
(***************************************************************************)
THEOREM EndsStand == PartsSpec => EndsForGood
BY MandatesStandAlone, EndedStaysEnded

(***************************************************************************)
(* The cache is the file, a confirmed revocation stamps nothing more, one  *)
(* grant of a negotiation and no budget past what was stamped together:    *)
(* while one array was made of the cache, with the other parts beside.     *)
(***************************************************************************)
THEOREM MandatesPartHolds == PartsSpec => []MandatesPart
<1>1. MandatesSafe => MandatesPart
  BY DEF MandatesPart
<1>2. QED BY <1>1, MandatesStandAlone, MandatesAreSafe, PTL

\* And the baseline store.
LEMMA BaselinesStandAlone == PartsSpec => BaselineSpec
<1>1. PartsInit => BaselineInit
  BY DEF PartsInit
<1>2. [PartsNext]_partVars => [BaselineNext]_bvars
  BY DEF PartsNext, partVars
<1>3. QED BY <1>1, <1>2, PTL DEF PartsSpec, BaselineSpec

(***************************************************************************)
(* An acceptance follows its note; none is lost or given to another.       *)
(***************************************************************************)
THEOREM BaselinesPartHolds == PartsSpec => []BaselinesPart
<1>1. BaselinesSafe => BaselinesPart
  BY DEF BaselinesPart
<1>2. QED BY <1>1, BaselinesStandAlone, BaselinesAreSafe, PTL

\* And the payloads of observed reads.
LEMMA ObservationsStandAlone == PartsSpec => ObservationSpec
<1>1. PartsInit => ObservationInit
  BY DEF PartsInit
<1>2. [PartsNext]_partVars => [ObservationNext]_ovars
  BY DEF PartsNext, partVars
<1>3. QED BY <1>1, <1>2, PTL DEF PartsSpec, ObservationSpec

(***************************************************************************)
(* A payload is replayed with every note it came from, within the cap.     *)
(***************************************************************************)
THEOREM ObservationsPartHolds == PartsSpec => []ObservationsPart
<1>1. ObservationsSafe => ObservationsPart
  BY DEF ObservationsPart
<1>2. QED BY <1>1, ObservationsStandAlone, ObservationsAreSafe, PTL

\* And the review queue.
LEMMA ReviewStandsAlone == PartsSpec => ReviewSpec
<1>1. PartsInit => ReviewInit
  BY DEF PartsInit
<1>2. [PartsNext]_partVars => [ReviewNext]_rvars
  BY DEF PartsNext, partVars
<1>3. QED BY <1>1, <1>2, PTL DEF PartsSpec, ReviewSpec

(***************************************************************************)
(* Nothing stands in a baseline that nobody answered for, and what waits   *)
(* for review is listed once all is settled.                               *)
(***************************************************************************)
THEOREM ReviewPartHolds == PartsSpec => []ReviewPart
<1>1. ReviewSafe => ReviewPart
  BY DEF ReviewPart
<1>2. QED BY <1>1, ReviewStandsAlone, ReviewIsSafe, PTL

\* And the moves of notes, the addresses and the batches.
LEMMA NotesStandAlone == PartsSpec => MoveSpec /\ SchemeSpec /\ BatchSpec
<1>1. PartsInit => MoveInit /\ SchemeInit /\ BatchInit
  BY DEF PartsInit
<1>2. [PartsNext]_partVars => [MoveNext]_mvvars
  BY DEF PartsNext, partVars
<1>3. [PartsNext]_partVars => [SchemeNext]_schvars
  BY DEF PartsNext, partVars
<1>4. [PartsNext]_partVars => [BatchNext]_bwvars
  BY DEF PartsNext, partVars
<1>5. QED BY <1>1, <1>2, <1>3, <1>4, PTL DEF PartsSpec, MoveSpec, SchemeSpec, BatchSpec

(***************************************************************************)
(* A move damages no link that it does not report, no note lands at an     *)
(* address that another was seen to hold, and a batch writes each item at  *)
(* most once and over what it was told.                                    *)
(***************************************************************************)
THEOREM NotesPartHolds == PartsSpec => []NotesPart
<1>1. MoveSafe /\ SchemeSafe /\ BatchSafe => NotesPart
  BY DEF NotesPart
<1>2. QED BY <1>1, NotesStandAlone, MoveIsSafe, SchemeIsSafe, BatchIsSafe, PTL

\* And the satellites.
LEMMA SatellitesStandAlone == PartsSpec => CrossSpec /\ SkillsSpec
<1>1. PartsInit => CrossInit /\ SkillsInit
  BY DEF PartsInit
<1>2. [PartsNext]_partVars => [CrossNext]_xsvars
  BY DEF PartsNext, partVars
<1>3. [PartsNext]_partVars => [SkillsNext]_skvars
  BY DEF PartsNext, partVars
<1>4. QED BY <1>1, <1>2, <1>3, PTL DEF PartsSpec, CrossSpec, SkillsSpec

(***************************************************************************)
(* A receipt covers what its handle was served, and what is exported was   *)
(* accepted, follows the vault and lists and keeps its files.              *)
(***************************************************************************)
THEOREM SatellitesPartHolds == PartsSpec => []SatellitesPart
<1>1. CrossSafe /\ SkillsSafe => SatellitesPart
  BY DEF SatellitesPart
<1>2. QED BY <1>1, SatellitesStandAlone, CrossIsSafe, SkillsAreSafe, PTL
=============================================================================
