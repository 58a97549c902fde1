------------------------------- MODULE MCParts -------------------------------
(***************************************************************************)
(* Parts of the suite that share no state, for TLC, side by side: the      *)
(* plugin's write kernel and the file server's, the advisory locks, the    *)
(* journal file, the adoption of an older install, the mandates, the       *)
(* review queue, the cutover, the baseline store, the dispatch of calls,   *)
(* the plugins' registrations, the move of a note, the renumbering of      *)
(* notes, the batch of writes, the payloads of observed reads, the         *)
(* cross-session channels and the export of skills.  The initial state     *)
(* picks the part that moves; the others keep their initial values.        *)
(***************************************************************************)
EXTENDS MCWriteKernel, FsWriteKernel, LockStore, Journal, Adoption, Mandates,
        ReviewQueue, Cutover, BaselineStore, Dispatch, Publication, Move, Observations,
        Scheme, BatchWrite, CrossSession, SkillsExport

CONSTANTS desk, phone, g1, g2, p1, p2, p3, n1, n2, n3, a1, a2, governor, other, x1, x2,
          r1, r2, r3, pub, priv, sec, h1, h2

VARIABLE part

\* A protected note, one whose record text does not parse, and one that has none.
MCMarked == [accepted |-> "x", status |-> "accepted", verified |-> "x",
             declared |-> "y", clear |-> TRUE]
MCFms    == {Unmarked, MCMarked, [MCMarked EXCEPT !.declared = "none", !.clear = FALSE]}
MCFields == {<<"accepted", "none">>, <<"verified", "blank">>, <<"declared", "none">>}

\* Everything, a plain folder written with a detour, and one that climbs out of the vault.
MCRawScopes  == {<<>>, <<"b", Up, "a">>, <<"a", Up, Up>>}
MCPaths      == {<<"a", "b">>}
MCAllowlists == {{}, {<<"a">>}}

\* A negotiation of three drafts: the first is open, or was granted and narrowed twice.
MCCounterOf == [d \in 1..3 |-> d - 1]
FirstDraft  == <<Event("drafted", 1)>>
ThirdDraft  == FirstDraft \o <<Activated(9, 1, 0), Event("drafted", 2), Event("drafted", 3)>>
StartFrom(l, b, asks) == [log |-> l, bound |-> b, ask |-> asks]
MCStarts ==
  {StartFrom(FirstDraft, 0, << <<"activate", 1>>, <<"activate", 2>>, <<"draft", 2>> >>),
   StartFrom(FirstDraft, 0, << <<"activate", 1>>, <<"revoke", 1>>, <<"write", 0>> >>),
   StartFrom(ThirdDraft, 9, << <<"write", 0>>, <<"write", 0>>, <<"revoke", 9>> >>),
   StartFrom(ThirdDraft, 9, << <<"activate", 3>>, <<"write", 0>>, <<"revoke", 9>> >>),
   StartFrom(ThirdDraft, 9, << <<"activate", 3>>, <<"activate", 3>>, <<"decline", 3>> >>)}

\* A baseline that stands, and an agent's rewrite that waits for review.
Stands     == Accepted(Blank, {})
Rewrite(s) == [has |-> {"rewrite"}, status |-> s]
Play(b, n, c) == [base |-> b, note |-> n, coming |-> c]
MCPlays ==
  {Play(Stands, Blank, {"rewrite", "typed"}), Play(Stands, Blank, {"typed", "script"}),
   Play(Stands, Rewrite("none"), {"fix"}), Play(Stands, Rewrite("proposed"), {"script", "accept"}),
   Play(Stands, Rewrite("proposed"), {"typed", "revising"}),
   Play(Stands, Rewrite("none"), {"typed", "revert"}),
   Play(Stands, Rewrite("proposed"), {"accept", "retire"}), Play(Stands, Blank, {"fix", "unmount"}),
   Play(NoBase, Blank, {"rewrite", "failure"}), Play(NoBase, Blank, {"typed", "script", "adopt"})}

\* Two cut over at once, one rolls back, two machines with one synced vault.
Marker(cut, s)   == [NoMarker EXCEPT !.at = "good", !.cut = cut, !.store = s]
Gestured(m, k)   == [m |-> m, kind |-> k]
Scene(mk, a, b, w, c) == [marker |-> [m \in Machines |-> mk], does |-> (g1 :> a) @@ (g2 :> b),
                          writer |-> [x \in Baselines |-> w], coming |-> c]
MCScenes ==
  {Scene(NoMarker, Gestured(desk, "cut"), Gestured(desk, "cut"), desk, {"crash"}),
   Scene(NoMarker, Gestured(desk, "cut"), Gestured(desk, "rollback"), desk, {"refresh", "unreadable"}),
   Scene(NoMarker, Gestured(desk, "cut"), Gestured(phone, "cut"), phone, {"sync", "refresh", "unreadable"}),
   Scene(Marker(TRUE, NoStore), Gestured(desk, "bind"), Gestured(phone, "bind"), phone,
         {"sync", "tear", "unreadable", "crash"}),
   Scene(Marker(TRUE, desk), Gestured(desk, "rollback"), Gestured(phone, "bind"), phone,
         {"sync", "tear", "unreadable"}),
   Scene(Marker(TRUE, desk), Gestured(desk, "rollback"), Gestured(desk, "cut"), desk,
         {"tear", "refresh", "crash"})}

\* Two notes swap through a third path, seen or unseen; one takes a deleted note's
\* path; one is accepted twice at once; and a copy, with its uid, comes into being.
MCUidOf == (n1 :> "u") @@ (n2 :> "v") @@ (n3 :> "u")
PlacedAt(a, b) == (n1 :> a) @@ (n2 :> b) @@ (n3 :> Nowhere)
History(w, h, e)  == [placed |-> w, had |-> h, next |-> e]
Renamed(n, p) == <<"rename", n, p>>
Unseen(n, p)  == <<"offline", n, p>>
MCHistories ==
  {History(PlacedAt(p1, p2), {n1, n2},
           {Renamed(n1, p3), Renamed(n2, p1), Renamed(n1, p2), <<"accept", n1>>, <<"fail">>}),
   History(PlacedAt(p1, p2), {n1},
           {Renamed(n1, p3), Renamed(n2, p1), <<"accept", n1>>, <<"accept", n2>>, <<"stop">>}),
   History(PlacedAt(p1, Nowhere), {n1},
           {<<"accept", n1>>, <<"accept again", n1>>, Renamed(n1, p2), <<"fail">>, <<"stop">>}),
   History(PlacedAt(p1, p2), {n1, n2},
           {<<"stop">>, Unseen(n1, p3), Unseen(n2, p1), Unseen(n1, p2), <<"resolved">>, <<"accept", n2>>,
            <<"fail">>}),
   History(PlacedAt(p1, p2), {n1, n2},
           {<<"delete", n2>>, Renamed(n1, p2), <<"accept", n1>>, <<"retire">>, <<"create", n2, p1>>}),
   History(PlacedAt(p1, Nowhere), {n1},
           {<<"stop">>, Unseen(n1, p2), <<"create", n3, p1>>, <<"create", n3, p3>>, <<"resolved">>,
            Renamed(n1, p3), <<"delete", n1>>})}

\* Two calls on one connection; and one alone with the providers reloading.
Sort(s, n)        == [sort |-> s, note |-> n]
Session(x, y, l, m) == [call |-> (a1 :> x) @@ (a2 :> y), list |-> l, may |-> m]
Reloads(h)        == {<<"dispose", h>>, <<"register", h>>, <<"revoke">>}
MCSessions ==
  {Session(Sort("write", 1), Sort("write", 1), <<>>, {<<"expire">>}),
   Session(Sort("write", 1), Sort("write", 2), <<>>, {}),
   Session(Sort("write", 1), Sort("read", 1), <<>>, {}),
   Session(Sort("write", 1), Sort("edit", 1), <<>>, {}),
   Session(Sort("write", 1), Sort("none", 1), <<governor, other>>, Reloads(governor)),
   Session(Sort("write", 1), Sort("none", 1), <<other, governor>>, Reloads(other) \cup {<<"throw">>})}

\* The provider, and two plugins whose ids sanitize alike.
MCNameOf == (governor :> "g") @@ (x1 :> "x") @@ (x2 :> "x")

\* By each road: among others' edits and marks, over a note at the new path, refused.
Both         == {"path", "name"}
Text(o, r)   == [here |-> TRUE, old |-> o, new |-> {}, mark |-> r, word |-> FALSE]
Texts(a, b, c) == (n1 :> a) @@ (n2 :> b) @@ (n3 :> c)
Outing(r, k, o, d, ts, cm) == [road |-> r, renames |-> k, over |-> o, dest |-> d, body |-> ts,
                               refuses |-> {n2} \ {n \in {n2} : ts[n].mark \/ d = "free"}, coming |-> cm]
Lone == Text({"rel"}, FALSE)
MCOutings ==
  {Outing("obsidian", TRUE, TRUE, "held", Texts(Text({"path"}, FALSE), Text(Both, FALSE), Lone),
          {<<"mark", n1>>, <<"word", n2>>, <<"delete", n1>>, <<"take">>}),
   Outing("obsidian", FALSE, FALSE, "free", Texts(Text(Both, FALSE), Text({"path"}, TRUE), Lone),
          {<<"retake">>, <<"unlink", n1>>, <<"mark", n3>>, <<"link", n2>>}),
   Outing("obsidian", TRUE, FALSE, "held", Texts(Text({}, FALSE), Text(Both, FALSE), Lone), {<<"link", n1>>}),
   Outing("obsidian", TRUE, FALSE, "free", Texts(Text({}, FALSE), Text({"path"}, FALSE), Lone),
          {<<"link", n1>>, <<"word", n3>>, <<"unlink", n2>>, <<"delete", n3>>}),
   Outing("obsidian", TRUE, FALSE, "free", Texts(Text({}, FALSE), Text({"path"}, FALSE), Text({"rel"}, TRUE)),
          {<<"link", n1>>, <<"word", n3>>}),
   Outing("files", TRUE, FALSE, "free", Texts(Text(Both, FALSE), Text({"path"}, TRUE), Lone),
          {<<"word", n1>>, <<"take">>, <<"reindex">>, <<"unlink", n2>>}),
   Outing("files", TRUE, TRUE, "held", Texts(Text(Both, FALSE), Text({"path"}, FALSE), Lone),
          {<<"word", n1>>, <<"delete", n1>>, <<"link", n2>>}),
   Outing("files", TRUE, FALSE, "held", Texts(Text(Both, FALSE), Text(Both, FALSE), Lone), {<<"word", n1>>})}

MCSizeOf == <<1, 2>>

\* Equal content from two notes, on one connection or two; a store from before, pruned.
Sighted(c, d, ss) == [conn |-> c, digest |-> d, sources |-> ss]
Sight(x, y, z, b, l, leaned, cm) ==
  [reads |-> (r1 :> x) @@ (r2 :> y) @@ (r3 :> z), blobs |-> <<b, NoBlob>>, legacy |-> <<l, NoBlob>>,
   leaned |-> leaned, coming |-> cm]
Shown == {<<"play", 1>>, <<"narrow", priv>>}
MCSightings ==
  {Sight(Sighted(a1, 1, {pub}), Sighted(a1, 1, {priv}), Sighted(a1, 2, {pub}), NoBlob, NoBlob, {},
         {<<"put fails">>}),
   Sight(Sighted(a1, 1, {pub}), Sighted(a2, 1, {priv}), Sighted(a2, 2, {pub, sec}), NoBlob, NoBlob, {},
         Shown),
   Sight(Sighted(a1, 1, {pub}), Sighted(a1, 2, {priv}), Sighted(a1, 2, {pub}), {priv}, NoBlob, {},
         Shown \cup {<<"prune", 1>>, <<"walk fails">>}),
   Sight(Sighted(a1, 1, {pub}), Sighted(a2, 2, {priv}), Sighted(a2, 2, {}), NoBlob, {priv}, {2},
         Shown \cup {<<"prune", 1>>, <<"prune", 2>>})}

\* The folder of a plain category, one in it, one of the same category, that of an
\* expanded one, and an inbox; one of the two instances leaves the last two alone.
MCTitleOf    == <<"A", "B", "A", "B">>
MCScopeOf    == [six |-> "six", under |-> "six", more |-> "more", twin |-> "twin", inbox |-> NoFolder]
MCTokenOf    == [six |-> "06", more |-> "27", twin |-> "06"]
MCExcludedOf == [all |-> {}, rest |-> {"more", "inbox"}]
Addr(k, n)    == [cat |-> k, num |-> n]
Spot(f, a)    == [folder |-> f, addr |-> a]
Lies(f, k, n) == Spot(f, Addr(k, n))
Unfiled == Spot("inbox", NoAddress)
Wants(t, sp, n) == [tool |-> t, path |-> [folder |-> sp[n].folder, addr |-> sp[n].addr, title |-> MCTitleOf[n]],
                    inst |-> "all", dry |-> FALSE, cat |-> "06", addr |-> NoAddress, mode |-> "fail",
                    aside |-> Addr("06", 3)]
Assign(sp, n, k)      == [Wants("assign", sp, n) EXCEPT !.cat = k]
Renumber(sp, n, a, m) == [Wants("renumber", sp, n) EXCEPT !.addr = a, !.mode = m]
Dry(q)                == [q EXCEPT !.dry = TRUE]
Trip(sp, asks, hidden, cm) == [spots |-> sp, asks |-> asks, visible |-> Folders \ hidden, coming |-> cm]
Spots1 == <<Lies("six", "06", 1), Lies("six", "06", 2), Unfiled, Gone>>
Spots2 == <<Lies("more", "06", 1), Lies("six", "06", 2), Lies("inbox", "27", 1), Unfiled>>
Spots3 == <<Lies("six", "06", 1), Lies("twin", "06", 1), Lies("more", "27", 2), Lies("six", "06", 3)>>
Spots4 == <<Lies("under", "06", 1), Lies("more", "27", 3), Lies("more", "27", 1), Unfiled>>
MCTrips ==
  {Trip(Spots1, <<Assign(Spots1, 3, "06"), Renumber(Spots1, 2, Addr("06", 3), "auto")>>, {},
        {<<"expire">>, <<"rename", 1, Lies("six", "06", 3)>>, <<"delete", 2>>}),
   Trip(Spots1, <<Renumber(Spots1, 3, Addr("06", 1), "auto"), Renumber(Spots1, 3, Addr("06", 1), "auto")>>, {},
        {<<"expire">>, <<"rename", 2, Unfiled>>}),
   Trip(Spots2, <<Renumber(Spots2, 4, Addr("06", 1), "auto"), Wants("refile", Spots2, 3)>>, {"twin"},
        {<<"narrow", "more">>, <<"rename", 3, Lies("more", "27", 2)>>}),
   Trip(Spots2, <<Renumber(Spots2, 4, Addr("06", 1), "manual"), Dry(Renumber(Spots2, 2, Addr("06", 1), "manual"))>>,
        {}, {<<"rename", 2, Lies("six", "06", 3)>>, <<"rename", 1, Lies("more", "06", 1)>>}),
   Trip(Spots3, <<Renumber(Spots3, 3, Addr("06", 1), "auto"), Dry(Wants("refile", Spots3, 2))>>, {}, {<<"delete", 1>>}),
   Trip(Spots4, <<Assign(Spots4, 4, "27"), Renumber(Spots4, 2, Addr("06", 1), "auto")>>, {"six"},
        {<<"delete", 2>>, <<"expire">>}),
   Trip(Spots4, <<Renumber(Spots4, 2, Addr("27", 3), "auto"), [Assign(Spots4, 4, "06") EXCEPT !.inst = "rest"]>>,
        {}, {<<"delete", 2>>}),
   Trip(Spots2, <<Renumber(Spots2, 1, Addr("06", 1), "auto")>>, {}, {<<"rename", 1, Lies("six", "06", 1)>>})}

\* Retries with one key, stamped and not; a marked note, rewritten as people change it.
Agreed == [Unmarked EXCEPT !.status = "accepted", !.accepted = "x"]
Leaf(t, u, f) == [there |-> t, uid |-> u, fm |-> f, rev |-> 1]
PutNote(st, u, f, r, k) == [stamp |-> st, uid |-> u, fm |-> f, rev |-> r, told |-> FALSE, key |-> k, hidden |-> FALSE]
AsTold(p)   == [p EXCEPT !.told = TRUE]
Unreached(p) == [p EXCEPT !.hidden = TRUE]
Sheaf(p, is, cm) == [page |-> p, items |-> is, coming |-> cm]
MCBatches ==
  {Sheaf(Leaf(FALSE, 0, Unmarked), <<PutNote(TRUE, 0, Unmarked, 0, "k"), PutNote(TRUE, 0, Unmarked, 0, "k"),
                                     AsTold(PutNote(TRUE, 0, Unmarked, 0, NoKey))>>,
         {<<"second">>, <<"create">>, <<"expire">>}),
   Sheaf(Leaf(FALSE, 0, Unmarked), <<PutNote(FALSE, 1, Unmarked, 0, "k"), PutNote(FALSE, 1, Unmarked, 0, "k"),
                                     AsTold(PutNote(FALSE, 2, Unmarked, 0, "k"))>>,
         {<<"delete">>, <<"create">>, <<"expire">>}),
   Sheaf(Leaf(TRUE, 1, Agreed), <<PutNote(TRUE, 2, Unmarked, 1, NoKey), AsTold(PutNote(FALSE, 1, Agreed, 0, NoKey))>>,
         {<<"record", Unmarked>>, <<"uid", 3>>, <<"delete">>, <<"body">>}),
   Sheaf(Leaf(TRUE, 1, Unmarked), <<PutNote(FALSE, 1, Unmarked, 0, "k"), PutNote(FALSE, 1, Unmarked, 1, "k"),
                                    PutNote(TRUE, 0, Unmarked, 1, NoKey)>>,
         {<<"record", MCMarked>>, <<"delete">>, <<"create">>}),
   Sheaf(Leaf(TRUE, 1, MCMarked), <<PutNote(TRUE, 0, [Unmarked EXCEPT !.declared = "y"], 1, "k"),
                                    Unreached(PutNote(TRUE, 0, Unmarked, 1, "k"))>>,
         {<<"record", [MCMarked EXCEPT !.clear = FALSE]>>, <<"expire">>, <<"unreadable">>})}

\* Two who post at once; one who reads behind the cap; the host's receipts, late and
\* merged; another log; a channel of message notes alone; a load that fails before the
\* clock is put back; a receipt taken back beside a post; and a read that sees nothing.
LogEntry(n, s, h, f) == [no |-> n, stamp |-> s, by |-> h, file |-> f, form |-> "log"]
Asking(t, h, s)   == [tool |-> t, handle |-> h, stamp |-> s]
Through2(a, b)    == (h1 :> a) @@ (h2 :> b)
Meet(es, m, o, w, fs, as, cm) ==
  [entries |-> es, minute |-> m, own |-> o, host |-> w, files |-> fs, asks |-> as, coming |-> cm]
OldTalk   == {LogEntry(1, 1, h1, "log"), LogEntry(2, 1, h2, "log")}
LongTalk  == {LogEntry(n, IF n = 3 THEN 2 ELSE 1, h2, "log") : n \in 1..3}
SplitTalk == {LogEntry(1, 1, h1, "log"), LogEntry(2, 2, h2, "other")}
NoteTalk  == {[LogEntry(1, 1, h2, "note1") EXCEPT !.form = "note"]}
Reading(h) == <<Asking("delta", h, 0), Asking("attest", h, 0), Asking("post", h, 0)>>
MCMeetings ==
  {Meet(OldTalk, 1, Through2(1, 1), Through2(0, 0), {"log"}, <<Asking("post", h1, 0), Asking("post", h2, 0)>>,
        {<<"tick">>, <<"expire">>, <<"load fails">>, <<"entry", h2, 1, "note1">>}),
   Meet(LongTalk, 2, Through2(0, 1), Through2(0, 0), {"log"}, Reading(h1),
        {<<"entry", h2, 2, "note1">>, <<"unreadable">>, <<"write fails">>}),
   Meet(OldTalk, 2, Through2(1, 0), Through2(0, 1), {"log", "other"},
        <<Asking("post", h1, 0), Asking("post", h1, 0)>>,
        {<<"back">>, <<"host fails">>, <<"write fails">>, <<"crash">>}),
   Meet(SplitTalk, 2, Through2(2, 0), Through2(1, 1), {"log", "other"},
        <<Asking("attest", h1, 1), Asking("post", h2, 0)>>,
        {<<"load fails">>, <<"crash">>, <<"unreadable">>, <<"entry", h1, 1, "log">>}),
   Meet(NoteTalk, 2, Through2(0, 0), Through2(0, 0), {}, <<Asking("attest", h1, 2), Asking("post", h1, 0)>>,
        {<<"entry", h2, 2, "note2">>, <<"load fails">>}),
   Meet({LogEntry(1, 2, h1, "log")}, 2, Through2(2, 0), Through2(0, 0), {"log"}, <<Asking("post", h1, 0)>>,
        {<<"load fails">>, <<"back">>}),
   Meet({LogEntry(1, 1, h1, "log"), LogEntry(2, 2, h2, "log")}, 2, Through2(2, 2), Through2(0, 0), {"log"},
        <<Asking("post", h1, 0), Asking("attest", h2, 1)>>, {<<"expire">>, <<"entry", h1, 2, "log">>}),
   Meet({LogEntry(1, 1, h1, "log")}, 2, Through2(1, 0), Through2(1, 0), {"log"},
        <<Asking("delta", h1, 0), Asking("attest", h1, 0), Asking("delta", h1, 0)>>,
        {<<"expire">>, <<"unreadable">>})}

\* With supporting files and the tool beside; two embeds in a row; a restart or a full disk;
\* what leaves the roots or the vault; and a note that becomes a unit.
Order    == <<n1, n2, n3>>
SheetOf(typed, ok, in) == [v |-> 1, typed |-> typed, ok |-> ok, in |-> in, there |-> TRUE]
NoEmbeds == [n \in {n1, n2, n3} |-> "none"]
NoStock  == [n \in {n1, n2, n3} |-> "none"]
TourOf(p, e, st, c, on) ==
  [sheet |-> p, embed |-> e @@ NoEmbeds, stock |-> st @@ NoStock, looming |-> c, onSave |-> on]
Plain    == SheetOf(FALSE, FALSE, FALSE)
Unit     == SheetOf(TRUE, TRUE, TRUE)
TwoUnits == (n1 :> Unit) @@ (n2 :> Unit) @@ (n3 :> Plain)
OneUnit  == (n1 :> Unit) @@ (n2 :> SheetOf(FALSE, TRUE, FALSE)) @@ (n3 :> Plain)
InARow   == (n1 :> n2) @@ (n2 :> n3) @@ (n3 :> n1)
MCTours ==
  {TourOf(TwoUnits, <<>>, n1 :> "there", {<<"command">>, <<"tool">>, <<"agent", n1>>, <<"evict", n1>>}, TRUE),
   TourOf(TwoUnits, <<>>, n2 :> "there",
          {<<"command">>, <<"tool">>, <<"untype", n1>>, <<"evict", n2>>, <<"stop">>}, FALSE),
   TourOf(OneUnit, InARow, <<>>, {<<"command">>, <<"edit", n2>>, <<"accept", n3>>}, TRUE),
   TourOf(OneUnit, InARow, <<>>, {<<"command">>, <<"unaccept", n2>>, <<"move", n2>>}, TRUE),
   TourOf(OneUnit, n1 :> n2, <<>>, {<<"command">>, <<"tool">>, <<"edit", n2>>, <<"restart">>}, TRUE),
   TourOf(TwoUnits, <<>>, <<>>, {<<"command">>, <<"move", n1>>, <<"delete", n2>>, <<"toggle">>}, TRUE),
   TourOf(TwoUnits, <<>>, <<>>, {<<"command">>, <<"mark", n3>>, <<"accept", n3>>, <<"move", n3>>}, TRUE)}

partVars == <<part, vars, fsvars, lvars, jvars, avars, mvars, rvars, cvars, bvars, dvars, pvars, mvvars,
              ovars, schvars, bwvars, xsvars, skvars>>

PartsInit ==
  /\ part \in {"kernel", "files", "locks", "journal", "adoption", "mandates", "review",
              "cutover", "baselines", "dispatch", "publication", "move", "observations", "scheme",
              "batch", "crosssession", "skills"}
  /\ KernelInit /\ LockInit /\ PublicationInit
  /\ FsWriteInit     /\ (part # "files" => fsNote = Absent)
  /\ JournalInit     /\ (part # "journal" => loaded = <<CHOOSE j \in Journals : TRUE>>)
  /\ AdoptionInit    /\ (part # "adoption" => source = "none")
  /\ MandatesInit    /\ (part # "mandates" => governing = 0 /\ verbs[3].verb = "draft")
  /\ ReviewInit      /\ (part # "review" => coming = {"fix"})
  /\ CutoverInit     /\ (part # "cutover" => mishaps = {"crash"})
  /\ BaselineInit    /\ (part # "baselines" => <<"fail">> \in next)
  /\ DispatchInit    /\ (part # "dispatch" => <<"expire">> \in may)
  /\ MoveInit        /\ (part # "move" => outing = CHOOSE o \in Outings : TRUE)
  /\ ObservationInit /\ (part # "observations" => sighting = CHOOSE s \in Sightings : TRUE)
  /\ SchemeInit      /\ (part # "scheme" => trip = CHOOSE t \in Trips : TRUE)
  /\ BatchInit       /\ (part # "batch" => batch = CHOOSE x \in Batches : TRUE)
  /\ CrossInit       /\ (part # "crosssession" => meeting = CHOOSE x \in Meetings : TRUE)
  /\ SkillsInit      /\ (part # "skills" => looming = {<<"command">>, <<"edit", n2>>, <<"accept", n3>>})

PartsNext ==
  /\ UNCHANGED part
  /\ IF part = "kernel" THEN TRUE ELSE UNCHANGED vars
  /\ IF part = "files" THEN TRUE ELSE UNCHANGED fsvars
  /\ IF part = "locks" THEN TRUE ELSE UNCHANGED lvars
  /\ IF part = "journal" THEN TRUE ELSE UNCHANGED jvars
  /\ IF part = "adoption" THEN TRUE ELSE UNCHANGED avars
  /\ IF part = "mandates" THEN TRUE ELSE UNCHANGED mvars
  /\ IF part = "review" THEN TRUE ELSE UNCHANGED rvars
  /\ IF part = "cutover" THEN TRUE ELSE UNCHANGED cvars
  /\ IF part = "baselines" THEN TRUE ELSE UNCHANGED bvars
  /\ IF part = "dispatch" THEN TRUE ELSE UNCHANGED dvars
  /\ IF part = "publication" THEN TRUE ELSE UNCHANGED pvars
  /\ IF part = "move" THEN TRUE ELSE UNCHANGED mvvars
  /\ IF part = "observations" THEN TRUE ELSE UNCHANGED ovars
  /\ IF part = "scheme" THEN TRUE ELSE UNCHANGED schvars
  /\ IF part = "batch" THEN TRUE ELSE UNCHANGED bwvars
  /\ IF part = "crosssession" THEN TRUE ELSE UNCHANGED xsvars
  /\ IF part = "skills" THEN TRUE ELSE UNCHANGED skvars
  /\ \/ part = "kernel" /\ KernelNext
     \/ part = "files" /\ FsWriteNext
     \/ part = "locks" /\ LockNext
     \/ part = "journal" /\ JournalNext
     \/ part = "adoption" /\ AdoptionNext
     \/ part = "mandates" /\ MandatesNext
     \/ part = "review" /\ ReviewNext
     \/ part = "cutover" /\ CutoverNext
     \/ part = "baselines" /\ BaselineNext
     \/ part = "dispatch" /\ DispatchNext
     \/ part = "publication" /\ PublicationNext
     \/ part = "move" /\ MoveNext
     \/ part = "observations" /\ ObservationNext
     \/ part = "scheme" /\ SchemeNext
     \/ part = "batch" /\ BatchNext
     \/ part = "crosssession" /\ CrossNext
     \/ part = "skills" /\ SkillsNext

\* What tells two states apart: the others keep their initial values.
Moving ==
  <<part, CASE part = "kernel" -> vars
            [] part = "files" -> fsvars
            [] part = "locks" -> lvars
            [] part = "journal" -> jvars
            [] part = "adoption" -> avars
            [] part = "mandates" -> mvars
            [] part = "review" -> rvars
            [] part = "cutover" -> cvars
            [] part = "baselines" -> bvars
            [] part = "dispatch" -> dvars
            [] part = "publication" -> pvars
            [] part = "move" -> mvvars
            [] part = "observations" -> ovars
            [] part = "scheme" -> schvars
            [] part = "batch" -> bwvars
            [] part = "crosssession" -> xsvars
            [] part = "skills" -> skvars>>

PartsSpec == PartsInit /\ [][PartsNext]_partVars

-----------------------------------------------------------------------------
\* Of the part that moves.  The file server's kernel: calls are told and recorded in the
\* order they came.  The host's journal: each instance's lines in the order they were
\* appended, each once, and none torn by its own.
RecordsPart == /\ part = "files" => FsKernelSafe
               /\ part = "journal" => JournalSafe

\* Neither a failed call, nor a record that could not be written, holds up what waits
\* behind it.
UnstuckPart == /\ part = "files" => FsNeverWedged
               /\ part = "journal" => JournalNeverStuck

\* The advisory locks: one claim of a holder and scope, within both caps.
LocksPart == part = "locks" => LocksSafe

\* The adoption of an older install: what was the host's is the host's, once.
AdoptionPart == part = "adoption" => AdoptionSafe

\* The mandates: at most one draft of a negotiation stands, and what is stamped fits.
MandatesPart == part = "mandates" => MandatesSafe

\* The review queue: an agent's text is a baseline, or listed, unless a human raced it.
ReviewPart == part = "review" => ReviewSafe

\* The cutover: one standing writer where the marker is read, and evidence of each past.
CutoverPart == part = "cutover" => CutoverSafe

\* The baselines: an acceptance follows its note, and none is lost or misattached.
BaselinesPart == part = "baselines" => BaselinesSafe

\* A call's dispatch: nothing runs that a provider refused, and writes are reported once.
DispatchPart == part = "dispatch" => DispatchSafe

\* Publication: hooks and tools of the plugins that are there, once each, and no others.
PublicationPart == part = "publication" => PublicationSafe

\* Notes that are moved: every link that no longer reaches is named, and no text is lost;
\* a note lands at an address that is free, and a call says what it moved; a batch takes
\* no note's identity or record, and says what it wrote.
NotesPart == /\ part = "move" => MoveSafe
             /\ part = "scheme" => SchemeSafe
             /\ part = "batch" => BatchSafe

\* Observed reads: a payload is replayed with every note it came from, within the cap.
ObservationsPart == part = "observations" => ObservationsSafe

\* The satellites.  The channels: a receipt covers what its handle was served, and is taken
\* back by it alone; the skills: what is exported was accepted, and follows the vault.
SatellitesPart == /\ part = "crosssession" => CrossSafe
                  /\ part = "skills" => SkillsSafe

=============================================================================
