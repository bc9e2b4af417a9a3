--------------------------- MODULE ShareRecovery ---------------------------
(***************************************************************************)
(* RecoverShares: the command that imports the recovery file written by    *)
(* the ShareRecorder's fallback.  It reads the file line by line, imports  *)
(* the shares in batches without any fault policy, counts successes and    *)
(* failures, and leaves the file as it is.                                 *)
(*                                                                         *)
(* A line is told apart only by its kind, and a share by its line.  The    *)
(* names differ from ShareRecorder's, for the same class: RecordingProofs  *)
(* extends both modules.                                                   *)
(***************************************************************************)
EXTENDS Integers, Sequences, FiniteSets

CONSTANTS
  MaxLines,      \* bound: lines of the recovery file
  BufferSize,    \* batch size (20)
  MaxFailures,   \* bound: imports that fail
  MaxRuns        \* bound: times the command is run on the file

ASSUME RecoveryAssumption ==
  /\ MaxLines \in Nat /\ BufferSize \in Nat \ {0}
  /\ MaxFailures \in Nat /\ MaxRuns \in Nat \ {0}

\* Comments stand for blank lines too; a bad line is one cut off by a failed write.
Kinds == {"share", "bad", "comment"}

VARIABLES
  lines,          \* kind of every line
  step, pos,
  shares,         \* lines parsed and not yet imported
  successCount, failCount,
  imported,       \* imported[i]: rows inserted for the share of line i
  \* history and bounds, read by no action but for their limits
  before,         \* rows when this run of the command began
  doubtful,       \* doubtful[i]: commits of line i in this run that looked like failures
  errors, runs

recoveryVars ==
  <<lines, step, pos, shares, successCount, failCount, imported, before, doubtful, errors, runs>>

Lines == 1..MaxLines
ShareLines == {i \in 1..Len(lines) : lines[i] = "share"}

RecoveryTypeOK ==
  /\ lines \in Seq(Kinds) /\ Len(lines) <= MaxLines
  /\ step \in {"read", "import", "last", "done"}
  /\ pos \in 0..Len(lines)
  /\ shares \subseteq ShareLines
  /\ successCount \in 0..MaxLines
  /\ failCount \in 0..(MaxLines + MaxFailures)
  /\ imported \in [Lines -> Nat] /\ before \in [Lines -> Nat] /\ doubtful \in [Lines -> Nat]
  /\ errors \in 0..MaxFailures /\ runs \in 1..MaxRuns

RecoveryInit ==
  /\ lines \in UNION {[1..n -> Kinds] : n \in 0..MaxLines}
  /\ step = "read" /\ pos = 0
  /\ shares = {} /\ successCount = 0 /\ failCount = 0
  /\ imported = [i \in Lines |-> 0] /\ before = imported
  /\ doubtful = [i \in Lines |-> 0]
  /\ errors = 0 /\ runs = 1

-----------------------------------------------------------------------------
\* One turn of the reading loop, up to the import.  A line that cannot be parsed
\* counts as a failure and still reaches the test of the batch's size: a full batch
\* whose import failed is tried again then, and no longer once a share was added.
ReadLine ==
  /\ step = "read" /\ pos < Len(lines)
  /\ pos' = pos + 1
  /\ shares' = IF lines[pos + 1] = "share" THEN shares \cup {pos + 1} ELSE shares
  /\ failCount' = IF lines[pos + 1] = "bad" THEN failCount + 1 ELSE failCount
  /\ step' = IF lines[pos + 1] # "comment" /\ Cardinality(shares') = BufferSize
             THEN "import" ELSE "read"
  /\ UNCHANGED <<lines, successCount, imported, before, doubtful, errors, runs>>

\* Mutant of EndOfStream: a last batch that is not full is left out.
EndOfStreamFullOnly ==
  /\ step = "read" /\ pos = Len(lines)
  /\ step' = IF Cardinality(shares) >= BufferSize THEN "last" ELSE "done"
  /\ UNCHANGED <<lines, pos, shares, successCount, failCount, imported, before, doubtful, errors,
                 runs>>

\* The file is read; what is left in the list is imported whatever its size.
EndOfStream ==
  /\ step = "read" /\ pos = Len(lines)
  /\ step' = IF shares # {} THEN "last" ELSE "done"
  /\ UNCHANGED <<lines, pos, shares, successCount, failCount, imported, before, doubtful, errors,
                 runs>>

\* The transaction of PersistShares.
ImportRows == imported' = [i \in Lines |-> imported[i] + (IF i \in shares THEN 1 ELSE 0)]

\* Mutant of ImportShares: the list is not cleared after its import.
ImportSharesUncleared ==
  /\ step \in {"import", "last"}
  /\ ImportRows
  /\ UNCHANGED shares
  /\ successCount' = IF step = "import" THEN successCount ELSE Cardinality(shares)
  /\ step' = IF step = "import" THEN "read" ELSE "done"
  /\ UNCHANGED <<lines, pos, failCount, before, doubtful, errors, runs>>

\* A batch is imported.  In the loop the list is cleared before its size is added to
\* the count; the last batch is counted and kept.
ImportShares ==
  /\ step \in {"import", "last"}
  /\ ImportRows
  /\ \/ /\ step = "import" /\ step' = "read"
        /\ shares' = {}
        /\ successCount' = successCount + Cardinality(shares')
     \/ /\ step = "last" /\ step' = "done"
        /\ successCount' = successCount + Cardinality(shares)
        /\ UNCHANGED shares
  /\ UNCHANGED <<lines, pos, failCount, before, doubtful, errors, runs>>

\* Mutant of Kept: a batch whose import failed is dropped.
KeptNone == {}

\* What remains in the list after a failed import: all of it.
Kept == shares

\* An exception ends the import: one failure, whatever the number of shares.  It may
\* come after the commit, when the connection breaks before the answer.
ImportFails ==
  /\ step \in {"import", "last"}
  /\ errors < MaxFailures /\ errors' = errors + 1
  /\ failCount' = failCount + 1
  /\ shares' = Kept
  /\ \/ UNCHANGED <<imported, doubtful>>
     \/ /\ ImportRows
        /\ doubtful' = [i \in Lines |-> doubtful[i] + (IF i \in shares THEN 1 ELSE 0)]
  /\ step' = IF step = "import" THEN "read" ELSE "done"
  /\ UNCHANGED <<lines, pos, successCount, before, runs>>

\* The command is run again: the file is still there, and complete.
RunAgain ==
  /\ step = "done"
  /\ runs < MaxRuns /\ runs' = runs + 1
  /\ step' = "read" /\ pos' = 0
  /\ shares' = {} /\ successCount' = 0 /\ failCount' = 0
  /\ before' = imported /\ doubtful' = [i \in Lines |-> 0]
  /\ UNCHANGED <<lines, imported, errors>>

RecoverShares == ReadLine \/ EndOfStream \/ ImportShares \/ ImportFails

RecoveryNext == RecoverShares \/ RunAgain

RecoverySpec == RecoveryInit /\ [][RecoveryNext]_recoveryVars

-----------------------------------------------------------------------------
Imported(i) == imported[i] > before[i]

\* A share that has been read is imported or still in the list: a failing batch
\* takes none of its shares with it while the command runs.
NothingDropped ==
  \A i \in ShareLines : i <= pos => Imported(i) \/ i \in shares

\* A run that reports no failure has imported every line of the file, and each once.
CleanRunImportsOnce ==
  step = "done" /\ failCount = 0 =>
    \A i \in 1..Len(lines) :
      /\ lines[i] # "bad"
      /\ lines[i] = "share" => imported[i] = before[i] + 1

\* Within a run a share is imported a second time only after a commit that looked
\* like a failure: the batch is kept and imported again at the end of the file.
ImportedOnce ==
  \A i \in Lines : imported[i] <= before[i] + 1 + doubtful[i]

\* What the command reports ("Successfully recovered {successCount} shares").
CountIsRight ==
  step = "done" /\ failCount = 0 =>
    successCount = Cardinality({i \in ShareLines : Imported(i)})
=============================================================================
