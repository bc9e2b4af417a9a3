--------------------------- MODULE ShareRecorder ---------------------------
(***************************************************************************)
(* ShareRecorder: shares published by the pools are queued, collected into *)
(* batches and written to the database, one transaction per batch, behind  *)
(* a stack of fault policies: retry, then a circuit breaker, then a        *)
(* fallback that appends the batch to the recovery file.                   *)
(*                                                                         *)
(* The policies are Polly's; their state is modelled from how the code     *)
(* wraps them.  Persisting blocks the batching stage, so that one batch is *)
(* worked on at a time while shares pile up in the queue.                  *)
(***************************************************************************)
EXTENDS Integers, Sequences, SequencesExt

CONSTANTS
  Shares,          \* shares the pools publish
  Candidates,      \* those that are block candidates
  BufferCount,     \* largest batch (100)
  RetryCount,      \* retries of a transaction (3)
  BreakAfter,      \* failed batches in a row that open the circuit (2)
  MaxOutages,      \* bound: database outages
  MaxLosses        \* bound: crashes, stops, file errors and unhandled exceptions

ASSUME RecorderAssumption ==
  /\ Candidates \subseteq Shares
  /\ BufferCount \in Nat \ {0}
  /\ RetryCount \in Nat
  /\ BreakAfter \in Nat \ {0}
  /\ MaxOutages \in Nat /\ MaxLosses \in Nat

VARIABLES
  running,     \* FALSE between a stop or crash and the next start
  published,   \* shares the pools have published
  queue, buffer,
  batch,       \* the batch the policies work on
  pc, attempt,
  breaker,     \* "closed", "open" or "halfOpen"
  failures,    \* batches that failed in a row
  dbUp,
  rows,        \* rows[s]: rows of share s in the table shares
  blockRows,   \* blockRows[s]: rows of the block that s found
  notes,       \* notes[s]: BlockNotifications sent for s
  file,        \* shares in the recovery file, in order
  \* history and bounds, read by no action but for their limits
  excused,     \* shares lost to a crash, a stop, a file error or an unhandled exception
  unacked,     \* unacked[s]: commits of s whose acknowledgement was lost
  outages, losses

pipeVars  == <<queue, buffer>>
workVars  == <<batch, pc, attempt>>
policyVars == <<breaker, failures>>
dbVars    == <<rows, blockRows, notes, unacked>>
envVars   == <<dbUp, outages>>
lossVars  == <<excused, losses>>
vars == <<running, published, pipeVars, workVars, policyVars, dbVars, envVars, file, lossVars>>

TypeOK ==
  /\ running \in BOOLEAN
  /\ published \subseteq Shares
  /\ queue \in Seq(Shares)
  /\ buffer \in Seq(Shares) /\ Len(buffer) < BufferCount
  /\ batch \in Seq(Shares) /\ Len(batch) <= BufferCount
  /\ pc \in {"idle", "try", "fallback"}
  /\ attempt \in 0..RetryCount
  /\ breaker \in {"closed", "open", "halfOpen"}
  /\ failures \in 0..BreakAfter
  /\ dbUp \in BOOLEAN
  /\ rows \in [Shares -> Nat] /\ blockRows \in [Shares -> Nat] /\ notes \in [Shares -> Nat]
  /\ file \in Seq(Shares)
  /\ excused \subseteq Shares
  /\ unacked \in [Shares -> Nat]
  /\ outages \in 0..MaxOutages /\ losses \in 0..MaxLosses

Init ==
  /\ running = TRUE /\ published = {}
  /\ queue = <<>> /\ buffer = <<>>
  /\ batch = <<>> /\ pc = "idle" /\ attempt = 0
  /\ breaker = "closed" /\ failures = 0
  /\ dbUp = TRUE
  /\ rows = [s \in Shares |-> 0] /\ blockRows = [s \in Shares |-> 0]
  /\ notes = [s \in Shares |-> 0]
  /\ file = <<>>
  /\ excused = {} /\ unacked = [s \in Shares |-> 0]
  /\ outages = 0 /\ losses = 0

Loss == losses < MaxLosses /\ losses' = losses + 1

-----------------------------------------------------------------------------
\* A pool publishes a share; the message bus adds it to the queue.
Publish(s) ==
  /\ running
  /\ s \notin published
  /\ published' = published \cup {s}
  /\ queue' = Append(queue, s)
  /\ UNCHANGED <<running, buffer, workVars, policyVars, dbVars, envVars, file, lossVars>>

\* Policy.Wrap: a broken circuit goes straight to the fallback.
Enter(shares) ==
  /\ batch' = shares
  /\ attempt' = 0
  /\ pc' = IF breaker = "open" THEN "fallback" ELSE "try"

\* Mutant of Take: the buffer is persisted only when a further share exceeds it.
TakeLate ==
  /\ running /\ pc = "idle"
  /\ queue # <<>>
  /\ queue' = Tail(queue)
  /\ LET filled == Append(buffer, Head(queue))
     IN IF Len(filled) > BufferCount
        THEN Enter(filled) /\ buffer' = <<>>
        ELSE buffer' = filled /\ UNCHANGED workVars
  /\ UNCHANGED <<running, published, policyVars, dbVars, envVars, file, lossVars>>

\* The consumer moves a share to the buffer; a full buffer is persisted at once.
Take ==
  /\ running /\ pc = "idle"
  /\ queue # <<>>
  /\ queue' = Tail(queue)
  /\ LET filled == Append(buffer, Head(queue))
     IN IF Len(filled) = BufferCount
        THEN Enter(filled) /\ buffer' = <<>>
        ELSE buffer' = filled /\ UNCHANGED workVars
  /\ UNCHANGED <<running, published, policyVars, dbVars, envVars, file, lossVars>>

\* Mutant of Flush: only full buffers are persisted.
FlushNever ==
  /\ FALSE
  /\ UNCHANGED vars

\* The buffer's second is over.
Flush ==
  /\ running /\ pc = "idle"
  /\ buffer # <<>>
  /\ Enter(buffer) /\ buffer' = <<>>
  /\ UNCHANGED <<running, published, queue, policyVars, dbVars, envVars, file, lossVars>>

-----------------------------------------------------------------------------
(***************************************************************************)
(* PersistShares and the policies around it                                *)
(***************************************************************************)

\* The batch is done with.
Finish == batch' = <<>> /\ pc' = "idle" /\ attempt' = 0

InBatch(s) == s \in ToSet(batch)

\* Mutant of Insert: the block's row is not part of the batch's transaction.
InsertSharesOnly ==
  /\ rows' = [s \in Shares |-> rows[s] + (IF InBatch(s) THEN 1 ELSE 0)]
  /\ notes' = [s \in Shares |-> notes[s] + (IF InBatch(s) /\ s \in Candidates THEN 1 ELSE 0)]
  /\ UNCHANGED blockRows

\* The rows the transaction inserts, and the notification it sends for each block.
Insert ==
  /\ rows' = [s \in Shares |-> rows[s] + (IF InBatch(s) THEN 1 ELSE 0)]
  /\ blockRows' = [s \in Shares |->
                     blockRows[s] + (IF InBatch(s) /\ s \in Candidates THEN 1 ELSE 0)]
  /\ notes' = [s \in Shares |-> notes[s] + (IF InBatch(s) /\ s \in Candidates THEN 1 ELSE 0)]

PersistShares ==
  /\ pc = "try" /\ dbUp
  /\ Insert
  /\ breaker' = "closed" /\ failures' = 0
  /\ Finish
  /\ UNCHANGED <<running, published, pipeVars, unacked, envVars, file, lossVars>>

\* Mutant of AfterFailure: a batch that failed for good is given up.
AfterFailureGivesUp ==
  IF attempt < RetryCount
  THEN /\ attempt' = attempt + 1
       /\ UNCHANGED <<batch, pc, policyVars>>
  ELSE /\ failures' = failures + 1
       /\ UNCHANGED breaker
       /\ Finish

\* A DbException, SocketException or TimeoutException: the transaction is retried;
\* when the retries are used up the breaker counts a failure and the batch goes to
\* the fallback.  A failure while half open opens the circuit again.
AfterFailure ==
  IF attempt < RetryCount
  THEN /\ attempt' = attempt + 1
       /\ UNCHANGED <<batch, pc, policyVars>>
  ELSE /\ IF breaker = "halfOpen" \/ failures + 1 >= BreakAfter
          THEN breaker' = "open" /\ failures' = 0
          ELSE failures' = failures + 1 /\ UNCHANGED breaker
       /\ pc' = "fallback"
       /\ UNCHANGED <<batch, attempt>>

\* The transaction fails while the database is down.  The notifications of the
\* candidates inserted before the failure are already sent.
PersistFails ==
  /\ pc = "try" /\ ~dbUp
  /\ AfterFailure
  /\ \E k \in 0..Len(batch) :
       notes' = [s \in Shares |-> notes[s] +
         (IF s \in Candidates /\ s \in ToSet(SubSeq(batch, 1, k)) THEN 1 ELSE 0)]
  /\ UNCHANGED <<running, published, pipeVars, rows, blockRows, unacked, envVars, file,
                 lossVars>>

\* The connection breaks after the commit and before its acknowledgement.
PersistUnacknowledged ==
  /\ pc = "try" /\ dbUp
  /\ outages < MaxOutages /\ outages' = outages + 1
  /\ dbUp' = FALSE
  /\ Insert
  /\ unacked' = [s \in Shares |-> unacked[s] + (IF InBatch(s) THEN 1 ELSE 0)]
  /\ AfterFailure
  /\ UNCHANGED <<running, published, pipeVars, file, lossVars>>

\* Any other exception passes all policies and is only logged.  It is no result
\* of a half open circuit's trial, and the next trial waits for another minute.
PersistThrows ==
  /\ pc = "try"
  /\ Loss
  /\ excused' = excused \cup ToSet(batch)
  /\ Finish
  /\ breaker' = IF breaker = "halfOpen" THEN "open" ELSE breaker
  /\ UNCHANGED <<running, published, pipeVars, failures, dbVars, envVars, file>>

\* Mutant of Fallback: the batch is tried once more after it went to the file.
FallbackThenRetry ==
  /\ pc = "fallback"
  /\ file' = file \o batch
  /\ pc' = "try" /\ attempt' = RetryCount
  /\ UNCHANGED <<running, published, pipeVars, batch, policyVars, dbVars, envVars, lossVars>>

\* OnExecutePolicyFallback appends the batch to the recovery file.
Fallback ==
  /\ pc = "fallback"
  /\ file' = file \o batch
  /\ Finish
  /\ UNCHANGED <<running, published, pipeVars, policyVars, dbVars, envVars, lossVars>>

\* The file cannot be written beyond its first k lines: the rest is lost, and the
\* log says so.
FallbackFails ==
  /\ pc = "fallback"
  /\ Loss
  /\ \E k \in 0..(Len(batch) - 1) :
       /\ file' = file \o SubSeq(batch, 1, k)
       /\ excused' = excused \cup ToSet(SubSeq(batch, k + 1, Len(batch)))
  /\ Finish
  /\ UNCHANGED <<running, published, pipeVars, policyVars, dbVars, envVars>>

\* The circuit has been open for its minute.
BreakerTimeout ==
  /\ breaker = "open"
  /\ breaker' = "halfOpen"
  /\ UNCHANGED <<running, published, pipeVars, workVars, failures, dbVars, envVars, file,
                 lossVars>>

-----------------------------------------------------------------------------
DatabaseDown ==
  /\ dbUp /\ outages < MaxOutages
  /\ dbUp' = FALSE /\ outages' = outages + 1
  /\ UNCHANGED <<running, published, pipeVars, workVars, policyVars, dbVars, file, lossVars>>

DatabaseUp ==
  /\ ~dbUp
  /\ dbUp' = TRUE
  /\ UNCHANGED <<running, published, pipeVars, workVars, policyVars, dbVars, outages, file,
                 lossVars>>

\* Stop disposes the subscription and the queue; a batch in the hands of the
\* policies is still worked on.
Stop ==
  /\ running /\ Loss
  /\ running' = FALSE
  /\ queue' = <<>> /\ buffer' = <<>>
  /\ excused' = excused \cup ToSet(queue) \cup ToSet(buffer)
  /\ UNCHANGED <<published, workVars, policyVars, dbVars, envVars, file>>

\* The process dies; only the database and the recovery file remain.
Crash ==
  /\ running /\ Loss
  /\ running' = FALSE
  /\ queue' = <<>> /\ buffer' = <<>>
  /\ excused' = excused \cup ToSet(queue) \cup ToSet(buffer) \cup ToSet(batch)
  /\ Finish
  /\ breaker' = "closed" /\ failures' = 0
  /\ UNCHANGED <<published, dbVars, envVars, file>>

\* The process is started again.
Start ==
  /\ ~running /\ pc = "idle"
  /\ running' = TRUE
  /\ breaker' = "closed" /\ failures' = 0
  /\ UNCHANGED <<published, pipeVars, workVars, dbVars, envVars, file, lossVars>>

Recorder ==
  Take \/ Flush \/ PersistShares \/ PersistFails \/ Fallback

Next ==
  \/ \E s \in Shares : Publish(s)
  \/ Recorder
  \/ PersistUnacknowledged \/ PersistThrows \/ FallbackFails
  \/ BreakerTimeout
  \/ DatabaseDown \/ DatabaseUp
  \/ Stop \/ Crash \/ Start

Spec == Init /\ [][Next]_vars

\* The consumer thread, the buffer's timer and the policies keep going.
FairSpec == Spec /\ WF_vars(Recorder)

-----------------------------------------------------------------------------
Pending == ToSet(queue) \cup ToSet(buffer) \cup ToSet(batch)

\* No share disappears silently: each one published is in the pipeline, in the
\* database or in the recovery file, unless the process died, was stopped, could
\* not write the file, or met an exception no policy handles.
NoSilentLoss ==
  \A s \in published : s \in Pending \/ rows[s] > 0 \/ s \in ToSet(file) \/ s \in excused

\* A share has a second row, or a row and a line in the recovery file, only after
\* a commit whose acknowledgement was lost; a second line it never has.
NoDuplicates ==
  /\ IsInjective(file)
  /\ \A s \in Shares : rows[s] <= unacked[s] + (IF s \in ToSet(file) THEN 0 ELSE 1)

\* A share that found a block is never recorded without the block, nor the block
\* without its share, and never without a notification.
BlockWithShare ==
  \A s \in Candidates : rows[s] = blockRows[s] /\ blockRows[s] <= notes[s]

\* Every share reaches the database or the recovery file, or is accounted for,
\* whether or not the database comes back.
EventuallyRecorded ==
  \A s \in Shares :
    (s \in published) ~> (rows[s] > 0 \/ s \in ToSet(file) \/ s \in excused)
=============================================================================
