-------------------------------- MODULE Journal --------------------------------
(***************************************************************************)
(* The write journal (packages/host/src/kernel/journal.ts): each plugin    *)
(* instance appends its records through a chain of promises, one writeLine *)
(* at a time, to the file of the month the record was made in.  A reload   *)
(* makes a new instance with a chain of its own on the same files, while   *)
(* the old one writes what it still holds.                                 *)
(***************************************************************************)
EXTENDS Naturals, Sequences, SequencesExt

CONSTANTS
  Journals,       \* the chains: one per plugin instance
  Months,         \* how many months the clock runs through
  MaxAppends      \* bound: the records a chain is given

ASSUME JournalAssumption == Months \in Nat \ {0} /\ MaxAppends \in Nat

NoFile == [exists |-> FALSE, lines |-> <<>>]

VARIABLES
  dirMade,     \* the journal's directory exists
  file,        \* file[m]: the month's file
  month,
  loaded,      \* the instances that were loaded; the last one is current
  chain,       \* chain[j]: the lines not yet written, the head being written
  at,          \* at[j]: where the head's writeLine is
  appended,    \* history: how many records j was given
  tried        \* history: the lines whose write was attempted

jvars == <<dirMade, file, month, loaded, chain, at, appended, tried>>

Line == [by : Journals, no : 1..MaxAppends, month : 1..Months]

JournalInit ==
  /\ dirMade = FALSE
  /\ file = [m \in 1..Months |-> NoFile]
  /\ month = 1
  /\ \E j \in Journals : loaded = <<j>>
  /\ chain = [j \in Journals |-> <<>>]
  /\ at = [j \in Journals |-> "idle"]
  /\ appended = [j \in Journals |-> 0]
  /\ tried = {}

-----------------------------------------------------------------------------
\* Mutant of AppendRecord: a line does not wait for those before it.
AppendOvertaking(j) ==
  /\ j \in ToSet(loaded) /\ appended[j] < MaxAppends
  /\ appended' = [appended EXCEPT ![j] = @ + 1]
  /\ chain' = [chain EXCEPT ![j] =
                 <<[by |-> j, no |-> appended'[j], month |-> month]>> \o @]
  /\ UNCHANGED <<dirMade, file, month, loaded, at, tried>>

\* append: the line joins the chain, with the file of the month it is made in.
\* The current instance journals its calls, an older one what it still settles.
AppendRecord(j) ==
  /\ j \in ToSet(loaded) /\ appended[j] < MaxAppends
  /\ appended' = [appended EXCEPT ![j] = @ + 1]
  /\ chain' = [chain EXCEPT ![j] =
                 Append(@, [by |-> j, no |-> appended'[j], month |-> month])]
  /\ UNCHANGED <<dirMade, file, month, loaded, at, tried>>

\* writeLine of the head is at this await.
Busy(j, where) == chain[j] # <<>> /\ at[j] = where

StepTo(j, where) ==
  /\ at' = [at EXCEPT ![j] = where]
  /\ UNCHANGED <<month, loaded, chain, appended>>

\* writeLine: whether the directory exists.
LooksForDir(j) ==
  /\ Busy(j, "idle")
  /\ StepTo(j, IF dirMade THEN "file" ELSE "mkdir")
  /\ UNCHANGED <<dirMade, file, tried>>

MakesDir(j) ==
  /\ Busy(j, "mkdir")
  /\ dirMade' = TRUE
  /\ StepTo(j, "file")
  /\ UNCHANGED <<file, tried>>

\* Mutant of LooksForFile: the month's first line is always written anew.
LooksForFileNever(j) ==
  /\ Busy(j, "file")
  /\ StepTo(j, "write")
  /\ UNCHANGED <<dirMade, file, tried>>

\* writeLine: whether the file exists decides between append() and write().
LooksForFile(j) ==
  /\ Busy(j, "file")
  /\ StepTo(j, IF file[Head(chain[j]).month].exists THEN "append" ELSE "write")
  /\ UNCHANGED <<dirMade, file, tried>>

\* The line is done with: the next one of the chain may start.
Settles(j) ==
  /\ chain' = [chain EXCEPT ![j] = Tail(@)]
  /\ at' = [at EXCEPT ![j] = "idle"]
  /\ tried' = tried \cup {Head(chain[j])}
  /\ UNCHANGED <<dirMade, month, loaded, appended>>

Appends(j) ==
  LET l == Head(chain[j])
  IN  /\ Busy(j, "append")
      /\ file' = [file EXCEPT ![l.month].lines = Append(@, l)]
      /\ Settles(j)

\* Mutant of Writes: the file is the one of the month the line is written in.
WritesToCurrent(j) ==
  /\ Busy(j, "write")
  /\ file' = [file EXCEPT ![month] = [exists |-> TRUE, lines |-> <<Head(chain[j])>>]]
  /\ Settles(j)

Writes(j) ==
  LET l == Head(chain[j])
  IN  /\ Busy(j, "write")
      /\ file' = [file EXCEPT ![l.month] = [exists |-> TRUE, lines |-> <<l>>]]
      /\ Settles(j)

\* Mutant of AppendFails: the chain stays rejected, and no later line is tried.
AppendFailsForGood(j) ==
  /\ \E where \in {"idle", "mkdir", "file", "append", "write"} : Busy(j, where)
  /\ at' = [at EXCEPT ![j] = "rejected"]
  /\ tried' = tried \cup {Head(chain[j])}
  /\ chain' = [chain EXCEPT ![j] = Tail(@)]
  /\ UNCHANGED <<dirMade, file, month, loaded, appended>>

\* Any of the adapter's calls may fail: the line is logged and dropped.
AppendFails(j) ==
  /\ \E where \in {"idle", "mkdir", "file", "append", "write"} : Busy(j, where)
  /\ Settles(j)
  /\ UNCHANGED file

\* Midnight UTC on the first.
MonthTurns ==
  /\ month < Months /\ month' = month + 1
  /\ UNCHANGED <<dirMade, file, loaded, chain, at, appended, tried>>

\* The plugin is reloaded: a new instance, a new chain.
JournalReloads ==
  /\ \E j \in Journals \ ToSet(loaded) : loaded' = Append(loaded, j)
  /\ UNCHANGED <<dirMade, file, month, chain, at, appended, tried>>

\* The adapter's calls of instance j come back, or fail.
AdapterSettles(j) ==
  LooksForDir(j) \/ MakesDir(j) \/ LooksForFile(j) \/ Appends(j) \/ Writes(j) \/ AppendFails(j)

JournalNext ==
  \/ \E j \in Journals :
       AppendRecord(j) \/ AdapterSettles(j)
  \/ MonthTurns \/ JournalReloads

JournalSpec == JournalInit /\ [][JournalNext]_jvars

-----------------------------------------------------------------------------
\* Every variable has its type; a file holds tried lines of its own month only.
JournalTypeOK ==
  /\ {dirMade} \cup {file[m].exists : m \in 1..Months} \subseteq BOOLEAN
  /\ month \in 1..Months
  /\ ToSet(loaded) \subseteq Journals
  /\ \A j \in Journals : ToSet(chain[j]) \subseteq Line
  /\ at \in [Journals -> {"idle", "mkdir", "file", "append", "write"}]
  /\ appended \in [Journals -> 0..MaxAppends]
  /\ tried \subseteq Line
  /\ \A m \in 1..Months : ToSet(file[m].lines) \subseteq {l \in tried : l.month = m}

\* A month's file never loses a line, but in one race: two instances that both
\* found no file create it, and the second write() replaces the first (writeLine).
LinesKept ==
  [][\A m \in 1..Months :
       \/ IsPrefix(file[m].lines, file'[m].lines)
       \/ \E j \in Journals : \E l \in ToSet(file[m].lines) :
            l.by # j /\ at[j] = "write" /\ Head(chain[j]).month = m /\ Writes(j)]_jvars

\* A file lists each instance's lines in the order they were appended, each once,
\* whatever fails and whoever else appends (the chain of promises).
OrderPerInstance ==
  \A m \in 1..Months : \A i, k \in DOMAIN file[m].lines :
    LET a == file[m].lines[i]
        b == file[m].lines[k]
    IN  i < k /\ a.by = b.by => a.no < b.no

\* While a record waits, its instance has a step that brings it nearer the file, however
\* many records before it failed: one rejected append does not end the chain (append's
\* catch), so every record is tried.
JournalNeverStuck ==
  \A j \in Journals : chain[j] # <<>> => ENABLED AdapterSettles(j)

\* What a month's file and the chains hold, whatever fails.
JournalSafe == JournalTypeOK /\ OrderPerInstance

=============================================================================
