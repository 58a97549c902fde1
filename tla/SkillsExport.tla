---------------------------- MODULE SkillsExport ----------------------------
(***************************************************************************)
(* The export of the skills satellite: typed and accepted notes compiled   *)
(* into a plugin's directory outside the vault, with the notes they embed  *)
(* and their supporting files (packages/skills/src/kernel/exporter.ts,     *)
(* transclude.ts, assets.ts), the export on save (export-trigger.ts,       *)
(* wiring.ts) and the tool that exports beside it (tools.ts).  What a kind *)
(* compiles to, the names of the files and the plugin's own manifest are   *)
(* left out; a release is an export to another directory.                  *)
(***************************************************************************)
EXTENDS Naturals, Sequences

CONSTANTS
  Pages,      \* the notes, in the order of the vault's listing: a sequence
  EmbedDepth, \* MAX_EMBED_DEPTH: embeds nested deeper are left as they are
  Tours       \* initial states: notes, embeds, supporting files and what may happen

PageSet == {Pages[i] : i \in DOMAIN Pages}
Faces   == [v : Nat, typed : BOOLEAN, ok : BOOLEAN]
Sheets  == [v : Nat, typed : BOOLEAN, ok : BOOLEAN, in : BOOLEAN, there : BOOLEAN]

ASSUME SkillsAssumption ==
  /\ Pages \in Seq(PageSet) /\ EmbedDepth \in Nat \ {0} /\ "none" \notin PageSet
  /\ \A t \in Tours : /\ t.embed \in [PageSet -> PageSet \cup {"none"}] /\ t.sheet \in [PageSet -> Sheets]
                      /\ t.stock \in [PageSet -> {"none", "there", "evicted"}] /\ t.onSave \in BOOLEAN

VARIABLES
  embeds,     \* each note's embed, or "none"
  sheet,      \* each note: v (its text), typed, ok (a human verified it), in (the roots), there
  indexed,    \* the metadata cache's [v, typed, ok] of each note
  stock,      \* each note's supporting file: "none", "there" or "evicted" (to iCloud)
  looming,    \* what may still happen
  onSave,     \* the setting exportOnSave
  armed,      \* the debounced request of an export
  sources,    \* exportSources: paths of embedded notes, of the last export of the GUI
  going,      \* the export of the "gui" and that of the "tool", see NotGoing
  shelf,      \* the output: the text of each note's file, {} for none
  bundle,     \* the notes whose supporting file is in the output
  manifest,   \* the files the output's manifest lists
  vouched,    \* for the properties: texts <<note, v>> that stood in the vault under a verification
  hasty,      \* texts taken under a frontmatter the note no longer had
  unrenewed,  \* the notes whose file nothing is bound to renew
  embedded,   \* the paths the last export of the GUI looked up as embeds
  carried,    \* the notes whose supporting file was exported since they were last left out
  tangled     \* two exports ran at once, or one stopped half-way

skvars == <<embeds, sheet, indexed, stock, looming, onSave, armed, sources, going, shelf, bundle, manifest,
            vouched, hasty, unrenewed, embedded, carried, tangled>>

output  == <<shelf, bundle, manifest>>
trigger == <<onSave, armed, sources, embedded>>
library == <<embeds, sheet, indexed, stock, looming, vouched>>

Exporters == {"gui", "tool"}
NoPage   == [v |-> 0, typed |-> FALSE, ok |-> FALSE]
NotGoing == [at |-> "idle"]

Face(n)   == [v |-> sheet[n].v, typed |-> sheet[n].typed, ok |-> sheet[n].ok]
PathOf(n) == <<n, sheet[n].in>>

SkillsInit ==
  /\ \E t \in Tours : /\ embeds = t.embed /\ sheet = t.sheet /\ stock = t.stock
                      /\ looming = t.looming /\ onSave = t.onSave
  /\ indexed = [n \in PageSet |-> Face(n)]
  /\ armed = FALSE /\ sources = {} /\ going = [r \in Exporters |-> NotGoing]
  /\ shelf = [n \in PageSet |-> {}] /\ bundle = {} /\ manifest = {}
  /\ vouched = {<<n, sheet[n].v>> : n \in {m \in PageSet : sheet[m].ok}}
  /\ hasty = {} /\ unrenewed = PageSet /\ embedded = {} /\ carried = {} /\ tangled = FALSE

Running(r) == going[r].at # "idle"
Embed(n)   == embeds[n]

\* The notes a note's file may take text from: itself and all that follow by embeds.
Chained(n) ==
  {m \in PageSet : \A S \in SUBSET PageSet :
     n \in S /\ (\A k \in S : Embed(k) # "none" => Embed(k) \in S) => m \in S}
Users(m) == {n \in PageSet : m \in Chained(n)}

-----------------------------------------------------------------------------
\* What happens to the vault.

ComesUp(x) == x \in looming /\ looming' = looming \ {x}

Revised(n, what) ==
  CASE what = "edit"     -> [sheet[n] EXCEPT !.v = @ + 1]
    [] what = "agent"    -> [sheet[n] EXCEPT !.v = @ + 1, !.ok = FALSE]
    [] what = "accept"   -> [sheet[n] EXCEPT !.ok = TRUE]
    [] what = "unaccept" -> [sheet[n] EXCEPT !.ok = FALSE]
    [] what = "mark"     -> [sheet[n] EXCEPT !.typed = TRUE]
    [] what = "untype"   -> [sheet[n] EXCEPT !.typed = FALSE]

\* mark (a tool and a command) types a note and touches no acceptance.
Revise(n, what) ==
  /\ ComesUp(<<what, n>>) /\ sheet[n].there
  /\ sheet' = [sheet EXCEPT ![n] = Revised(n, what)]
  /\ vouched' = vouched \cup (IF sheet'[n].ok THEN {<<n, sheet'[n].v>>} ELSE {})
  /\ UNCHANGED <<embeds, indexed, stock, trigger, going, output, hasty, unrenewed, carried, tangled>>

\* Mutant of Matters: an embedded note's edit is of no interest.
MattersTyped(n, path) == sheet[n].in /\ sheet[n].typed

\* handleNoteChanged, by the frontmatter the note has now.
Matters(n, path) == path \in sources \/ (sheet[n].in /\ sheet[n].typed)

\* Files that may go stale unseen: the note was no unit before this or is none any more, or it
\* is embedded by a file that the last export of the GUI did not make.
Unheeded(n, path) ==
  (IF sheet[n].typed /\ sheet[n].in /\ onSave THEN {} ELSE {n})
    \cup (IF onSave /\ (path \in embedded \/ (sheet[n].typed /\ sheet[n].in)) THEN {} ELSE Users(n))

IndexFollows(n) ==
  /\ sheet[n].there /\ indexed[n] # Face(n)
  /\ indexed' = [indexed EXCEPT ![n] = Face(n)]
  /\ armed' = (armed \/ (onSave /\ Matters(n, PathOf(n))))
  /\ unrenewed' = unrenewed \cup Unheeded(n, PathOf(n))
  /\ UNCHANGED <<embeds, sheet, stock, looming, onSave, sources, going, output, vouched, hasty, embedded,
                 carried, tangled>>

\* Mutant of Leaves: a note that left the roots is judged by where it is now.
LeavesUnseen(n, inCache) == ~sheet[n].in /\ sheet[n].typed

\* handleNoteRenamed: the old path counts, and a cache that has not followed.
Leaves(n, inCache) == \/ PathOf(n) \in sources
                     \/ IF inCache THEN sheet[n].typed ELSE sheet[n].in

PageMoves(n) ==
  /\ ComesUp(<<"move", n>>) /\ sheet[n].there
  /\ sheet' = [sheet EXCEPT ![n].in = ~@]
  /\ \E inCache \in BOOLEAN :
       /\ armed' = (armed \/ (onSave /\ Leaves(n, inCache)))
       /\ unrenewed' = unrenewed
                        \cup (IF onSave /\ sheet[n].typed /\ (inCache \/ sheet[n].in) THEN {} ELSE {n})
                        \cup (IF onSave /\ PathOf(n) \in embedded THEN {} ELSE Users(n) \ {n})
  /\ UNCHANGED <<embeds, indexed, stock, onSave, sources, going, output, vouched, hasty, embedded, carried,
                 tangled>>

\* Nothing listens to a deletion.
Deleted(n) ==
  /\ ComesUp(<<"delete", n>>) /\ sheet[n].there
  /\ sheet' = [sheet EXCEPT ![n].there = FALSE] /\ indexed' = [indexed EXCEPT ![n] = NoPage]
  /\ unrenewed' = unrenewed \cup Users(n)
  /\ UNCHANGED <<embeds, stock, trigger, going, output, vouched, hasty, carried, tangled>>

StockChanges(n) ==
  /\ ComesUp(<<"evict", n>>) /\ stock[n] = "there"
  /\ stock' = [stock EXCEPT ![n] = "evicted"]
  /\ UNCHANGED <<embeds, sheet, indexed, trigger, going, output, vouched, hasty, unrenewed, carried, tangled>>

SettingChanges ==
  /\ ComesUp(<<"toggle">>)
  /\ onSave' = ~onSave
  /\ UNCHANGED <<embeds, sheet, indexed, stock, armed, sources, going, output, vouched, hasty, unrenewed,
                 embedded, carried, tangled>>

-----------------------------------------------------------------------------
\* One export.

\* obsidianSkillsBackend.notes: the frontmatter of a note is taken as its turn comes ...
LookedAt(n) == IF sheet[n].there THEN indexed[n] ELSE NoPage

\* The first of some notes in the order of the listing.
Foremost(S) == Pages[CHOOSE i \in DOMAIN Pages :
                       Pages[i] \in S /\ \A j \in DOMAIN Pages : j < i => Pages[j] \notin S]

\* A vault without a note compiles to nothing, and is refused like one without a unit.
Begun ==
  LET left == {n \in PageSet : sheet[n].there}
  IN IF left = {} THEN NotGoing
     ELSE [at |-> "notes", left |-> left, face |-> indexed[Foremost(left)], taken |-> {}, units |-> {},
           chain |-> <<>>, text |-> [n \in PageSet |-> {}], looked |-> {}, read |-> {}, prev |-> {}]

OtherRuns(r) == \E q \in Exporters \ {r} : Running(q)

ExportStarts(r) ==
  /\ going' = [going EXCEPT ![r] = Begun]
  /\ unrenewed' = IF OtherRuns(r) \/ Begun = NotGoing THEN PageSet ELSE {}
  /\ tangled' = (tangled \/ OtherRuns(r))

\* Mutant of Compiles: the verification is not asked for.
CompilesAny(x) == x.in /\ x.face.typed

\* collectNotes: in the roots, of a kind, and verified by a human.
Compiles(x) == x.in /\ x.face.typed /\ x.face.ok

\* Collected, the units' embeds are resolved in turn, and what is left is synchronous: the
\* transform, and the look at the manifest.  Without a unit the export is refused.
Turns(s) ==
  CASE s.left # {} -> [s EXCEPT !.face = LookedAt(Foremost(s.left))]
    [] s.left = {} /\ s.units # {} -> [s EXCEPT !.at = "embeds", !.chain = <<Foremost(s.units)>>]
    [] s.left = {} /\ s.units = {} -> [s EXCEPT !.at = "assets", !.prev = manifest]

Collected(s) ==
  LET compiled == {x \in s.taken : Compiles(x)}
  IN IF s.left # {} THEN s
     ELSE [s EXCEPT !.text = [n \in PageSet |-> {<<x.note, x.v>> : x \in {y \in compiled : y.note = n}}],
                    !.units = {n \in PageSet : Embed(n) # "none" /\ \E x \in compiled : x.note = n}]

NoUnits(s) == s.left = {} /\ ~\E x \in s.taken : Compiles(x)

GoingEnds(r) == going' = [going EXCEPT ![r] = NotGoing]

\* ... and its text when the read returns, so the two need not belong together.
BodyArrives(r) ==
  LET s == going[r]
      n == Foremost(s.left)
      t == [s EXCEPT !.left = @ \ {n},
                     !.taken = @ \cup {[note |-> n, v |-> sheet[n].v, face |-> s.face, in |-> sheet[n].in]}]
  IN /\ s.at = "notes"
     /\ IF (~sheet[n].there /\ s.face # NoPage) \/ NoUnits(t)
        THEN GoingEnds(r) /\ unrenewed' = PageSet /\ UNCHANGED hasty
        ELSE /\ going' = [going EXCEPT ![r] = Turns(Collected(t))]
             /\ hasty' = hasty \cup (IF s.face.ok /\ ~sheet[n].ok THEN {<<n, sheet[n].v>>} ELSE {})
             /\ UNCHANGED unrenewed
     /\ UNCHANGED <<library, trigger, output, embedded, carried, tangled>>

\* Mutants of Inlined: the gate is for notes alone; of Sourced: a refused embed is no source.
InlinedAny(e)  == TRUE
SourcedTaken(e) == indexed[e].ok

\* accept, for an embed at any depth; a refused one is a source as well.
Inlined(e) == indexed[e].ok
Sourced(e) == TRUE

\* resolveBody: an embed that is missing, leads back or is nested too deep is left as it is.
EmbedArrives(r) ==
  LET s     == going[r]
      u     == s.chain[1]
      e     == Embed(s.chain[Len(s.chain)])
      met   == sheet[e].there /\ \A i \in DOMAIN s.chain : s.chain[i] # e
      on    == met /\ Inlined(e)
      took  == [s EXCEPT !.looked = @ \cup (IF met /\ Sourced(e) THEN {PathOf(e)} ELSE {}),
                         !.read = @ \cup (IF met THEN {PathOf(e)} ELSE {}),
                         !.text[u] = @ \cup (IF on THEN {<<e, sheet[e].v>>} ELSE {})]
  IN /\ s.at = "embeds"
     /\ going' = [going EXCEPT ![r] = IF on /\ Embed(e) # "none" /\ Len(s.chain) < EmbedDepth
                                      THEN [took EXCEPT !.chain = Append(@, e)]
                                      ELSE Turns([took EXCEPT !.units = @ \ {u}])]
     /\ hasty' = hasty \cup (IF on /\ indexed[e].ok /\ ~sheet[e].ok THEN {<<e, sheet[e].v>>} ELSE {})
     /\ UNCHANGED <<library, trigger, output, unrenewed, carried, tangled>>

-----------------------------------------------------------------------------
\* From the last supporting file on nothing is awaited: removal, files, copies, manifest.

Units(s) == {n \in PageSet : s.text[n] # {}}
InStock(s) == {n \in Units(s) : stock[n] = "there"}

\* Mutant of Retained: what iCloud did not deliver is left out.
RetainedNone(s) == {}

\* A supporting file that did not come down in time keeps its exported copy.
Retained(s) == {n \in Units(s) : stock[n] = "evicted" /\ <<n, "asset">> \in s.prev}

NextFiles(s) == (Units(s) \X {"file"}) \cup ((InStock(s) \cup Retained(s)) \X {"asset"})

\* Mutant of Obsolete: nothing is.
ObsoleteNone(s) == {}

Obsolete(s) == s.prev \ NextFiles(s)

Shelved(s, done) == [n \in PageSet |-> IF n \in done THEN s.text[n]
                                          ELSE IF <<n, "file">> \in Obsolete(s) THEN {} ELSE shelf[n]]
Bundled(s) == {n \in bundle : <<n, "asset">> \notin Obsolete(s)}

\* exportSources belongs to the GUI; an export by the tool leaves it as it was.
Remembers(r) ==
  IF r = "gui" THEN sources' = going[r].looked /\ embedded' = going[r].read
  ELSE UNCHANGED <<sources, embedded>>

ExportLands(r) ==
  LET s == going[r]
  IN /\ s.at = "assets"
     /\ shelf' = Shelved(s, Units(s)) /\ bundle' = Bundled(s) \cup InStock(s) /\ manifest' = NextFiles(s)
     /\ carried' = InStock(s) \cup {n \in carried \cap Units(s) : stock[n] = "evicted"}
     /\ Remembers(r) /\ GoingEnds(r)
     /\ UNCHANGED <<library, onSave, armed, hasty, unrenewed, tangled>>

\* A full disk, or the process dies: some files are written and the manifest is the old one, or torn.
ExportStops(r) ==
  LET s == going[r]
  IN /\ s.at = "assets" /\ ComesUp(<<"stop">>)
     /\ \E done \in SUBSET Units(s) : shelf' = Shelved(s, done)
     /\ bundle' = Bundled(s) /\ carried' = carried \cap bundle'
     /\ manifest' \in {manifest, {}}
     /\ GoingEnds(r) /\ unrenewed' = PageSet /\ tangled' = TRUE
     /\ UNCHANGED <<embeds, sheet, indexed, stock, vouched, trigger, hasty>>

-----------------------------------------------------------------------------
\* What starts an export.

\* The command and the ribbon; while an export of the GUI runs they do nothing.
ByHand ==
  /\ ComesUp(<<"command">>) /\ ~Running("gui") /\ ExportStarts("gui")
  /\ UNCHANGED <<embeds, sheet, indexed, stock, vouched, trigger, output, hasty, carried>>

\* The tool asks no guard.
ByTool ==
  /\ ComesUp(<<"tool">>) /\ ~Running("tool") /\ ExportStarts("tool")
  /\ UNCHANGED <<embeds, sheet, indexed, stock, vouched, trigger, output, hasty, carried>>

\* Mutant of Rearmed: what changed while an export runs is left to it.
RearmedNot == FALSE

\* The debounce ends: the setting is asked again, and a running export waited for.
Rearmed == Running("gui")

Fires ==
  /\ armed
  /\ armed' = (onSave /\ Rearmed)
  /\ IF onSave /\ ~Running("gui") THEN ExportStarts("gui")
     ELSE /\ unrenewed' = IF onSave THEN unrenewed ELSE PageSet
          /\ UNCHANGED <<going, tangled>>
  /\ UNCHANGED <<library, onSave, sources, embedded, output, hasty, carried>>

Restarts ==
  /\ ComesUp(<<"restart">>)
  /\ armed' = FALSE /\ sources' = {} /\ embedded' = {} /\ going' = [r \in Exporters |-> NotGoing]
  /\ unrenewed' = PageSet
  /\ UNCHANGED <<embeds, sheet, indexed, stock, vouched, onSave, output, hasty, carried, tangled>>

Revisions == {"edit", "agent", "accept", "unaccept", "mark", "untype"}
SkillsNext ==
  \/ \E n \in PageSet : \/ \E what \in Revisions : Revise(n, what)
                       \/ IndexFollows(n) \/ PageMoves(n) \/ Deleted(n) \/ StockChanges(n)
  \/ SettingChanges
  \/ \E r \in Exporters : BodyArrives(r) \/ EmbedArrives(r) \/ ExportLands(r) \/ ExportStops(r)
  \/ ByHand \/ ByTool \/ Fires \/ Restarts

SkillsSpec == SkillsInit /\ [][SkillsNext]_skvars

-----------------------------------------------------------------------------
\* What the file of a note would be, compiled now: its text and that of its embeds, one in the
\* other, as far as they are there, verified, not met before and not nested too deep.
Fit(n)  == sheet[n].there /\ sheet[n].in /\ sheet[n].typed /\ sheet[n].ok
Good(e) == sheet[e].there /\ sheet[e].ok
Chains(n) ==
  {w \in UNION {[1..k -> PageSet] : k \in 1..EmbedDepth + 1} :
     /\ w[1] = n /\ \A i, j \in DOMAIN w : w[i] = w[j] => i = j
     /\ \A i \in DOMAIN w \ {1} : w[i] = Embed(w[i - 1]) /\ Good(w[i])
     /\ LET e == Embed(w[Len(w)])
        IN Len(w) > EmbedDepth \/ e = "none" \/ ~Good(e) \/ \E i \in DOMAIN w : w[i] = e}
CompilesNow(n, text) ==
  IF Fit(n) THEN \E w \in Chains(n) : text = {<<w[i], sheet[w[i]].v>> : i \in DOMAIN w} ELSE text = {}

\* Nothing unaccepted reaches a compiled prompt (exporter.ts:318-324): every text in the output
\* stood in the vault under a human's verification, but for one whose frontmatter changed between
\* its look and its read, or was not indexed yet.
OnlyAccepted == \A n \in PageSet : shelf[n] \subseteq vouched \cup hasty

\* Once the index has followed, no export runs and none is requested, the output is what the vault
\* compiles to; excepted are the notes that changed in a way nothing listens to, files left by an
\* unfinished or overlapped export, and what no manifest lists.
AtRest == /\ ~armed /\ \A r \in Exporters : ~Running(r)
          /\ \A n \in PageSet : sheet[n].there => indexed[n] = Face(n)
FollowsVault == AtRest => \A n \in PageSet \ unrenewed :
                  CompilesNow(n, shelf[n]) \/ (~Fit(n) /\ <<n, "file">> \notin manifest)

\* The manifest lists every file in the output, so that a later export can remove it, but after
\* two exports at once or one that stopped half-way.
NothingUnlisted == tangled \/ /\ \A n \in PageSet : shelf[n] # {} => <<n, "file">> \in manifest
                              /\ \A n \in bundle : <<n, "asset">> \in manifest

\* A supporting file evicted to iCloud stays with the exported skill.
AssetKept == tangled \/ carried \subseteq bundle

SkillsSafe == OnlyAccepted /\ FollowsVault /\ NothingUnlisted /\ AssetKept
=============================================================================
