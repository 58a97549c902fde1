----------------------------- MODULE RecordGuard -----------------------------
(***************************************************************************)
(* What a write may do to a note's human record (packages/core/src/        *)
(* accept-guard.ts): the rule of a frontmatter before and after.  A        *)
(* frontmatter is a record of the four families of keys the rule tells     *)
(* apart; "none" is a key that is absent, and a frontmatter that is not    *)
(* clear cannot be parsed.                                                 *)
(***************************************************************************)

Values      == {"none", "x", "y"}
Frontmatter ==
  [accepted : Values, status : {"none", "draft", "accepted"},
   verified : Values \cup {"blank"}, declared : Values, clear : BOOLEAN]

\* A note without frontmatter, and a note that is not there.
Unmarked == [accepted |-> "none", status |-> "none", verified |-> "none",
             declared |-> "none", clear |-> TRUE]

\* Mutant of Transition: the record is looked for in what is written alone.
TransitionByResult(before, after) ==
  /\ after.accepted = before.accepted \/ after.accepted = "none"
  /\ after.verified = before.verified \/ after.verified = "none"
  /\ after.status = "accepted" => before.status = "accepted"

\* acceptTransitionReason gives no reason: acceptance and verification may be carried
\* forward, acceptance may go, a filled verification may not, a blank one must, and a
\* declared property stays as it is.
Transition(before, after) ==
  /\ after.accepted = before.accepted \/ after.accepted = "none"
  /\ after.verified = before.verified \/ (after.verified = "none" /\ before.verified = "blank")
  /\ after.verified # "blank"
  /\ after.status = "accepted" => before.status = "accepted"
  /\ after.declared = before.declared

\* What is read of a frontmatter that cannot be parsed is as good as none.
Parsed(fm) == IF fm.clear THEN fm ELSE Unmarked

\* guardWrittenContent: a result that cannot be parsed is refused, and so is any over
\* a note whose unreadable frontmatter names a verification or a declared property.
MayWrite(before, after) ==
  /\ after.clear
  /\ before.clear \/ (before.verified = "none" /\ before.declared = "none")
  /\ Transition(Parsed(before), after)

\* guardResultingFrontmatter, of a field set or deleted in what was read.
MaySet(before, after) == before.clear /\ Transition(before, after)

\* The human record: what a note says it was granted by a person.
Granted(fm) ==
  {<<k, fm[k]>> : k \in {j \in {"accepted", "verified", "declared"} :
                           fm[j] \notin {"none", "blank"}}}
    \cup (IF fm.status = "accepted" THEN {<<"status", "accepted">>} ELSE {})
Kept(fm) == {g \in Granted(fm) : g[1] \in {"verified", "declared"}}
=============================================================================
