------------------------------- MODULE Scheme -------------------------------
(***************************************************************************)
(* Addresses: obsidian_assign_address, obsidian_refile_address and         *)
(* obsidian_renumber_address (packages/host/src/mcp/tools-scheme-write.ts) *)
(* with the plans they carry out (kernel/scheme/mutate.ts) and what the    *)
(* numbering scheme answers about a listing of notes (kernel/scheme/       *)
(* jd.ts).  A call plans at once, over the notes it may see, and then      *)
(* moves one note after the other, while people, plugins and a call that   *)
(* was abandoned at its deadline go on.                                    *)
(***************************************************************************)
EXTENDS Naturals, Sequences, FiniteSets

CONSTANTS
  Members,      \* the notes, numbered as the vault lists them
  TitleOf,      \* TitleOf[n]: the name without its address
  Folders,
  ScopeOf,       \* ScopeOf[f]: the scope's folder that f is or lies in, or NoFolder
  TokenOf,      \* TokenOf[f]: the category that a scope's folder names
  Categories, Expanded,
  Floor, Highest,  \* the first number of a plain category, and the last of any
  Instances,    \* the configured instances of the scheme
  ExcludedOf,     \* ExcludedOf[i]: the folders i does not speak for
  NoFolder, NoAddress, Gone,
  Trips         \* what is asked, where the notes are, and what others do

Address   == {NoAddress} \cup [cat : STRING, num : Nat]
Spots     == [folder : Folders, addr : Address]
SpotPaths == [folder : Folders, addr : Address, title : STRING]

\* What a trip asks for is well formed, and what others do leaves notes in the vault.
ASSUME SchemeAssumption ==
  /\ Members \subseteq Nat /\ Floor \in Nat /\ Highest \in Nat
  /\ Expanded \subseteq Categories /\ Categories \subseteq STRING
  /\ \A n \in Members : TitleOf[n] \in STRING
  /\ NoFolder \notin Folders /\ NoAddress \notin [cat : STRING, num : Nat] /\ Gone \notin Spots
  /\ \A f \in Folders : ScopeOf[f] \in Folders \cup {NoFolder}
  /\ \A i \in Instances, f \in Folders : ScopeOf[f] \in ExcludedOf[i] => f \in ExcludedOf[i]
  /\ \A t \in Trips :
       /\ t.visible \subseteq Folders
       /\ t.spots \in [Members -> Spots \cup {Gone}]
       /\ \A n, m \in Members :
            n # m /\ t.spots[n] # Gone /\ t.spots[m] = t.spots[n] => TitleOf[m] # TitleOf[n]
       /\ \A c \in DOMAIN t.asks : /\ t.asks[c].tool \in {"assign", "refile", "renumber"}
                                   /\ t.asks[c].path \in SpotPaths /\ t.asks[c].dry \in BOOLEAN
                                   /\ t.asks[c].addr \in Address \ {NoAddress} \/ t.asks[c].tool # "renumber"
                                   /\ t.asks[c].aside \in Address
       /\ \A e \in t.coming : e[1] = "rename" => e[2] \in Members /\ e[3] \in Spots

VARIABLES
  trip,      \* what is asked by whom
  spot,      \* spot[n]: the folder and address of a note, or Gone
  visible,   \* the folders on the allowlist
  job,       \* job[c]: how far call c is
  stirs,    \* what others may still do
  roamed,   \* history: <<call, note>>: moved or deleted since the call was planned
  shared     \* history: <<call, note>>: landed at an address the note had held throughout

schvars == <<trip, spot, visible, job, stirs, roamed, shared>>

Jobs == DOMAIN trip.asks
Path(n, s)  == [folder |-> s[n].folder, addr |-> s[n].addr, title |-> TitleOf[n]]
There       == {n \in Members : spot[n] # Gone}
AtPath(p)   == {n \in There : Path(n, spot) = p}
NewJob      == [at |-> "asked", by |-> "none", steps |-> <<>>, landed |-> 0, held |-> 0,
                seen |-> <<>>, saw |-> {}, late |-> FALSE, answer |-> "none"]

SchemeInit ==
  /\ trip \in Trips
  /\ spot = trip.spots /\ visible = trip.visible /\ stirs = trip.coming
  /\ job = [c \in DOMAIN trip.asks |-> NewJob] /\ roamed = {} /\ shared = {}

-----------------------------------------------------------------------------
\* What the scheme says of the notes in S.
Sees(i)  == {n \in There : spot[n].folder \in visible \ ExcludedOf[i]}
First(S)   == CHOOSE n \in S : \A m \in S : n <= m
Used(k, S) == {spot[n].addr.num : n \in {m \in S : spot[m].addr # NoAddress /\ spot[m].addr.cat = k}}

\* Mutant of NextFree: an expanded category fills its gaps.
NextFreeLowest(k, S) ==
  LET free == (1..Highest) \ Used(k, S)
  IN IF k \notin Categories \/ free = {} THEN NoAddress ELSE [cat |-> k, num |-> First(free)]

\* nextFree: the lowest unused number from the floor up, or the one after the highest.
NextFree(k, S) ==
  LET free == IF k \in Expanded THEN {n \in 1..Highest : \A u \in Used(k, S) : n > u}
                                ELSE (Floor..Highest) \ Used(k, S)
  IN IF k \notin Categories \/ free = {} THEN NoAddress ELSE [cat |-> k, num |-> First(free)]

\* Mutant of BornBy: a note is looked for in the category's folder alone.
BornInFolder(a, S) ==
  {n \in S : spot[n].addr = a /\ ScopeOf[spot[n].folder] # NoFolder
             /\ TokenOf[ScopeOf[spot[n].folder]] = a.cat}

\* occupantOf takes the first of those whose name bears the address, wherever it is.
BornBy(a, S) == {n \in S : spot[n].addr = a}

\* expectedFolder: the first folder of the category on the path of a listed note.
Expected(a, S) ==
  LET in == {n \in S : ScopeOf[spot[n].folder] # NoFolder /\ TokenOf[ScopeOf[spot[n].folder]] = a.cat}
  IN IF in = {} THEN NoFolder ELSE ScopeOf[spot[First(in)].folder]

\* computePath
Target(a, title, S) == [folder |-> Expected(a, S), addr |-> a, title |-> title]

-----------------------------------------------------------------------------
\* A plan is the moves it makes, or none that can be made.
Refused == << [from |-> NoFolder, to |-> NoFolder] >>
Moves(moves) == IF \E i \in DOMAIN moves : moves[i].to.folder = NoFolder THEN Refused ELSE moves
To(p, a, S) == [from |-> p, to |-> Target(a, p.title, S)]

planAssign(q, S) ==
  LET a == NextFree(q.cat, S) IN IF a = NoAddress THEN Refused ELSE Moves(<<To(q.path, a, S)>>)

planRefile(q, S) ==
  IF q.path.addr = NoAddress THEN Refused
  ELSE LET move == To(q.path, q.path.addr, S)
       IN IF move.to = q.path THEN <<>> ELSE Moves(<<move>>)

\* Where the occupant goes: an address that is given and free, or the next free one of
\* the scope in whose folder it lies.
Displaced(q, n, S) ==
  IF q.mode = "manual"
  THEN IF q.aside = q.addr \/ BornBy(q.aside, S) # {} THEN NoAddress ELSE q.aside
  ELSE IF ScopeOf[spot[n].folder] = NoFolder THEN NoAddress
       ELSE NextFree(TokenOf[ScopeOf[spot[n].folder]], S)

\* Mutant of planRenumber: the note itself may be the occupant that is displaced.
planRenumberSelf(q, S) ==
  LET there == BornBy(q.addr, S) n == First(there) a == Displaced(q, n, S)
  IN CASE there = {} -> Moves(<<To(q.path, q.addr, S)>>)
       [] there # {} /\ q.mode = "fail" -> Refused
       [] OTHER -> IF a = NoAddress THEN Refused
                   ELSE Moves(<<To(Path(n, spot), a, S), To(q.path, q.addr, S)>>)

planRenumber(q, S) ==
  LET there == BornBy(q.addr, S) n == First(there) a == Displaced(q, n, S)
  IN CASE there = {} -> Moves(<<To(q.path, q.addr, S)>>)
       [] there # {} /\ Path(n, spot) = q.path -> <<>>
       [] there # {} /\ Path(n, spot) # q.path /\ q.mode = "fail" -> Refused
       [] OTHER -> IF a = NoAddress THEN Refused
                   ELSE Moves(<<To(Path(n, spot), a, S), To(q.path, q.addr, S)>>)

Planned(q, S) ==
  CASE q.tool = "assign" -> planAssign(q, S) [] q.tool = "refile" -> planRefile(q, S)
    [] q.tool = "renumber" -> planRenumber(q, S)

-----------------------------------------------------------------------------
JobGoes(c, j)    == job' = [job EXCEPT ![c] = j]
Replies(c, w) == JobGoes(c, [job[c] EXCEPT !.at = "over", !.answer = w])
Only(c)       == UNCHANGED <<trip, spot, visible, stirs, roamed, shared>>
Roams(n)     == roamed' = roamed \cup ({c \in Jobs : job[c].at # "asked"} \X {n})

\* The instance a call speaks of: the one it names, or for a refile the only one that
\* does not exclude the note.
Speaks(q) ==
  IF q.tool = "refile" THEN {i \in Instances : q.path.folder \notin ExcludedOf[i]} ELSE {q.inst}

\* Mutant of Hidden: what the plan computed is not checked.
HiddenAsked(q, steps) == {}

\* firstHidden, of every path that the plan computed.
Hidden(q, steps) ==
  (UNION {{s.to.folder} \cup (IF s.from # q.path THEN {s.from.folder} ELSE {})
            : s \in {steps[i] : i \in DOMAIN steps}}) \ visible

\* The call is planned in one go when its turn comes, or the call before it is abandoned.
PlanCall(c, i) ==
  LET q == trip.asks[c] S == Sees(i) steps == Planned(q, S)
      j == [job[c] EXCEPT !.by = i, !.seen = [n \in S |-> spot[n]], !.saw = visible]
  IN /\ job[c].at = "asked" /\ \A d \in Jobs \ {c} : job[d].at \in {"asked", "over"} \/ job[d].late
     /\ Speaks(q) = {i}
     /\ IF q.path.folder \notin visible \ ExcludedOf[i] \/ steps = Refused \/ Hidden(q, steps) # {}
        THEN JobGoes(c, [j EXCEPT !.at = "over", !.answer = "refused"])
        ELSE IF steps = <<>> THEN JobGoes(c, [j EXCEPT !.at = "over", !.answer = "ok"])
        ELSE JobGoes(c, [j EXCEPT !.at = "planned", !.steps = steps])
     /\ Only(c)

\* scheme_ambiguous, or no instance speaks for the note.
NoInstance(c) ==
  /\ job[c].at = "asked" /\ Cardinality(Speaks(trip.asks[c])) # 1
  /\ Replies(c, "refused") /\ Only(c)

\* assertMoveName, of every step before the first: Obsidian Sync would refuse a name.
CheckNames(c) ==
  /\ job[c].at = "planned"
  /\ \/ Replies(c, "refused")
     \/ IF trip.asks[c].dry THEN Replies(c, "ok") ELSE JobGoes(c, [job[c] EXCEPT !.at = "moving"])
  /\ Only(c)

NextStep(c) == job[c].steps[job[c].landed + 1]

\* Mutant of StepFails: the answer does not say that a note was moved.
StepFailsPlainly(c) ==
  /\ job[c].at \in {"moving", "found"} /\ Replies(c, "error") /\ Only(c)

\* A step fails: its note is gone, its path taken, its name refused, its folder not made.
StepFails(c) ==
  /\ job[c].at \in {"moving", "found"}
  /\ Replies(c, IF job[c].landed = 0 THEN "error" ELSE "inconsistent") /\ Only(c)

\* moveOne finds the note by its path, and the path it goes to free.
FindNote(c) ==
  /\ job[c].at = "moving" /\ NextStep(c).from # NextStep(c).to /\ AtPath(NextStep(c).to) = {}
  /\ \E n \in AtPath(NextStep(c).from) : JobGoes(c, [job[c] EXCEPT !.at = "found", !.held = n])
  /\ Only(c)

\* moveWithLinks has read the vault and renames the file it holds, wherever that is now.
LandNote(c) ==
  LET n == job[c].held to == NextStep(c).to last == job[c].landed + 1 = Len(job[c].steps)
  IN /\ job[c].at = "found" /\ spot[n] # Gone /\ AtPath(to) = {}
     /\ spot' = [spot EXCEPT ![n] = [folder |-> to.folder, addr |-> to.addr]]
     /\ JobGoes(c, [job[c] EXCEPT !.landed = @ + 1, !.held = 0, !.at = IF last THEN "over" ELSE "moving",
                               !.answer = IF last THEN "ok" ELSE @])
     /\ Roams(n)
     /\ shared' = shared \cup
          {<<c, m>> : m \in {x \in DOMAIN job[c].seen \ {n} :
                               /\ <<c, x>> \notin roamed /\ job[c].seen[x].addr = to.addr
                               /\ NextStep(c).from.addr # to.addr}}
     /\ UNCHANGED <<trip, visible, stirs>>

\* A person, another plugin or a sync client; the deadline; the operator.
Renames(n, s) ==
  /\ <<"rename", n, s>> \in stirs /\ spot[n] # Gone
  /\ AtPath([folder |-> s.folder, addr |-> s.addr, title |-> TitleOf[n]]) = {}
  /\ spot' = [spot EXCEPT ![n] = s] /\ stirs' = stirs \ {<<"rename", n, s>>}
  /\ Roams(n) /\ UNCHANGED <<trip, visible, job, shared>>
Delete(n) ==
  /\ <<"delete", n>> \in stirs /\ spot[n] # Gone
  /\ spot' = [spot EXCEPT ![n] = Gone] /\ stirs' = stirs \ {<<"delete", n>>}
  /\ Roams(n) /\ UNCHANGED <<trip, visible, job, shared>>
HideFolder(f) ==
  /\ <<"narrow", f>> \in stirs
  /\ visible' = visible \ {f} /\ stirs' = stirs \ {<<"narrow", f>>}
  /\ UNCHANGED <<trip, spot, job, roamed, shared>>
Expire(c) ==
  /\ <<"expire">> \in stirs /\ job[c].at \notin {"asked", "over"}
  /\ JobGoes(c, [job[c] EXCEPT !.late = TRUE]) /\ stirs' = stirs \ {<<"expire">>}
  /\ UNCHANGED <<trip, spot, visible, roamed, shared>>

SchemeNext ==
  \/ \E c \in Jobs :
       \/ \E i \in Instances : PlanCall(c, i)
       \/ NoInstance(c) \/ CheckNames(c) \/ FindNote(c) \/ LandNote(c) \/ StepFails(c) \/ Expire(c)
  \/ \E e \in stirs : Len(e) = 3 /\ Renames(e[2], e[3])
  \/ \E n \in Members : Delete(n)
  \/ \E f \in Folders : HideFolder(f)

SchemeSpec == SchemeInit /\ [][SchemeNext]_schvars

-----------------------------------------------------------------------------
SchemeTypeOK ==
  /\ trip \in Trips /\ stirs \subseteq trip.coming /\ visible \subseteq Folders
  /\ \A n \in Members : spot[n] = Gone \/ spot[n].folder \in Folders
  /\ \A c \in Jobs : job[c].at \in {"asked", "planned", "moving", "found", "over"}
                     /\ job[c].landed \in 0..Len(job[c].steps)

\* A note never lands at an address that a note the plan saw has held since then, except
\* a renumber that found two notes there, of which it displaces the first ("planning
\* always targets a FREE address", tools-scheme-write.ts).
LandsFree ==
  \A b \in shared :
    LET j == job[b[1]] q == trip.asks[b[1]]
    IN /\ q.tool = "renumber"
       /\ \E n, m \in DOMAIN j.seen : n # m /\ j.seen[n].addr = q.addr /\ j.seen[m].addr = q.addr

\* No call moves a note from or to a folder that was hidden when it was planned or that
\* its instance does not speak for (the computed destinations are no arguments).
TerritoryKept ==
  \A c \in Jobs : \A i \in 1..job[c].landed :
    {job[c].steps[i].from.folder, job[c].steps[i].to.folder} \subseteq job[c].saw \ ExcludedOf[job[c].by]

\* A call that was refused, was a dry run or failed has moved nothing; one that stopped
\* on the way says so; and the moves of a call that is well are all made.
ToldWhatMoved ==
  \A c \in Jobs :
    /\ job[c].answer \in {"refused", "error"} \/ trip.asks[c].dry => job[c].landed = 0
    /\ job[c].answer = "inconsistent" => job[c].landed \in 1..Len(job[c].steps) - 1

\* A renumber of the note that the plan saw at that address alone, under the path it was
\* given, moves nothing; a number of an expanded category is above those the plan saw, so
\* none is given again while a higher one is in use.
NothingTwice ==
  \A c \in Jobs : LET j == job[c] q == trip.asks[c] IN
    /\ q.tool = "renumber" /\ j.landed > 0 =>
         \A n \in DOMAIN j.seen :
           j.seen[n].addr = q.addr /\ Path(n, j.seen) = q.path =>
             \E m \in DOMAIN j.seen \ {n} : j.seen[m].addr = q.addr
    /\ q.tool = "assign" /\ q.cat \in Expanded /\ j.steps # <<>> =>
         \A n \in DOMAIN j.seen :
           j.seen[n].addr # NoAddress /\ j.seen[n].addr.cat = q.cat =>
             j.steps[1].to.addr.num > j.seen[n].addr.num

SchemeSafe == SchemeTypeOK /\ LandsFree /\ TerritoryKept /\ ToldWhatMoved /\ NothingTwice
=============================================================================
