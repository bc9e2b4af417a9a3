# Verification of miningcore (EXCCoin fork)

Miningcore is a mining pool server. This directory holds a TLA+ development of the parts of
it on which the money of the miners depends: how work is handed out, how a share becomes a
recorded share or block, how a block's reward is split, and how balances are paid. Sources are
named relative to `src/src/MiningCore/`.

| Files | Purpose |
|---|---|
| `X.tla` | a component: state, one action per step of the code, properties |
| `Ledger.tla` | the abstract specification that Payments implements |
| `MCX.tla`, `X.cfg`, `X_*.cfg` | instances for TLC, one configuration per question |
| `XProofs.tla` | inductive invariant and theorems, checked by TLAPS; `RecordingProofs` extends both ShareRecorder and ShareRecovery, `SubmissionProofs` both Submission and Equihash |
| `SumTheorems.tla` | lemmas about sums over finite sets, powers of two and bits, for the proofs |
| `PROJECT.json` | components, runs, mutants, map from definitions to source lines, findings, hazards, theorems |

In each module the definitions marked `Mutant of` are deliberate errors. Substituted for the
definition they name, each makes TLC refute a property that holds otherwise; they document
what the property is able to detect.

## 1. Inventory

### Components, their state and operations

| Component | Source | State | Operations |
|---|---|---|---|
| Stratum server and sessions | `Stratum/*.cs`, `Mining/PoolBase.cs`, `Blockchain/ExchangeCoin/ExchangeCoinPoolBase.cs` | clients, their subscription, authorization, difficulty and statistics; `currentJobParams` | subscribe, authorize, submit, suggest_difficulty, broadcast, idle timer, disconnect, ban |
| Job manager | `ExchangeCoinJobManager.cs`, `ExchangeCoinJob.cs`, `Blockchain/JobManagerBase.cs` | `_validJobs`, `currentJob`, the job counter, the parameters and submissions of each job | poll, refresh, `UpdateJob`, `SubmitShareAsync`, `SubmitBlockAsync` |
| Message bus | `Messaging/MessageBus.cs` | subscriptions | synchronous publish |
| Share recorder | `Mining/ShareRecorder.cs` | queue, buffer, retry and circuit breaker, recovery file | persist, fallback, start, stop |
| Share recovery | `Mining/ShareRecorder.cs` (`RecoverShares`) | list of parsed shares, counts | import of the recovery file |
| Payment processing | `Payments/PayoutManager.cs`, `Payments/PayoutHandlerBase.cs`, `ExchangeCoinPayoutHandler.cs` | tables blocks, balances, payments; blocks and balances in memory; the wallet's lock | classify, credit, pay, book |
| PPLNS scheme | `Payments/PaymentSchemes/PPLNSPaymentScheme.cs` | table shares, the walk's page and sums | walk, credit, delete |
| Solo scheme | `SoloPaymentScheme.cs` | as PPLNS | credit, delete |
| Daemon client | `DaemonInterface/DaemonClient.cs` | none | request to all, any or one daemon, batches |
| Extra nonces | `Blockchain/ExtraNonceProviderBase.cs` | counter | next |
| Relay | `Mining/ShareRelay.cs`, `Mining/ShareReceiver.cs` | queue, sockets | publish, receive, reconnect |
| Statistics | `Mining/StatsRecorder.cs` | tables poolstats, minerstats | periodic update |
| Difficulty of a session | `Mining/WorkerContextBase.cs`, `VarDiff/VarDiffManager.cs`, `Mining/PoolBase.cs` | difficulty, previous and pending one, ring buffer of share times, idle timers | update, enqueue, apply, authorize, suggest |
| Bans | `Banning/` | cache of addresses | ban |
| Ethash data sets | `Crypto/Hashing/Ethash/*.cs`, `src/src/Native/libmultihash/libethash/{io,internal}.c` | cache of DAGs, semaphore, memory-mapped files | get, generate, compute, dispose |
| Equihash verification | `src/src/Native/libmultihash/exports.cpp`, `equi/` | none | unpack, merge, verify |
| API, notifications, configuration, start | `Api/`, `Notifications/`, `Configuration/`, `Program.cs` | none of the pool's own | formatting, wiring |
| Other coins | `Blockchain/{Bitcoin,ZCash,Ethereum,Monero,...}` | like ExchangeCoin | like ExchangeCoin |
| Other native code | `src/src/Native`, `Native/`, `Crypto/` | none | hash functions, mostly third-party |

### Interaction

    daemon --work--> job manager --jobs--> pool --notify--> miners
    miners --submit--> pool --> job manager --> job (duplicate check, solution)
                                 |--block--> daemon, wallet
                       pool --ClientShare--> message bus --> share recorder --> shares, blocks
    shares, blocks --> payment thread (classify by wallet, scheme, SendMany) --> balances, payments

The recorder and the payment thread share only the database. The job manager's pipelines and
the requests of the clients run concurrently in the thread pool; the lists of jobs and the
submissions of a job are each guarded by a lock, nothing else is.

### What is hard here

* Remote effects are not transactional: `sendmany`, the submission of a block and a commit may
  have happened although the call failed.
* Every `await` lets other requests, jobs and broadcasts in.
* A single exception ends a whole pipeline (`OnNewJob`) or a client.
* Pages are read while rows are inserted; shares are deleted while other blocks are pending.
* The difficulty of a connection is changed by requests, timers and broadcasts; only the
  computation of a new one is under a lock, not its application.
* A DAG file is written in many steps and is used by the next process, whenever this one died.
* Limits: active jobs, the job counter, pages of exactly full size, scores that cross the
  window, rounding to 8 digits, statistics at a threshold.

`PROJECT.json` lists each hazard at its line with the properties that would notice it, or with
the reason why none does yet.

## 2. The modules

### Payments

One pool's payment cycle. `BeginCycle` reads the pending blocks, `ClassifyBlock` asks the wallet
about each, `BeginBlock`, `CreditRecipient`, `CreditMiners` and `CommitBlock` are the transaction
of one block, `ReadBalances`, `SendMany`, `WalletPassphrase`, `WalletLock` and `PersistPayments`
are the payout. The thread is sequential (`pc`); the difficulty is what fails between its steps:
`Crash` (the process or an exception that ends the cycle), `SkipBlock`, `SendManyLost` (executed,
answer lost), `CommitUnacknowledged`, `PersistRetry` and `PersistUnacknowledged`. The chain may
revise its opinion of a block (`ChainStep`), the wallet locks itself (`WalletTimeout`), the
recorder adds blocks (`InsertBlock`). The scheme is left open: `SchemeRewards` credits any split
of at most the remaining reward. The percentages of the recipients are assumed to add up to no
more than 100; the configuration is not checked for it, and with more the code would go on with a
negative rest.

A reorganisation may also leave a coinbase in the wallet that belongs to no block (`detached`):
its transaction has no `BlockHash`, and `ClassifyBlocksAsync` dereferences null when it compares
it (`ExchangeCoinPayoutHandler.cs:146`, before the test of line 153). `ClassifyThrows` is this
exception, which is no fault of the budget: it ends every cycle, before any block is settled or
balance paid, until the daemon answers differently. The liveness properties except such a state
(`Stalled`) and claim progress otherwise.

Amounts are integers in the database's last digit; `Round8` is `Math.Round(x, 8)`, to even. `sent`
adds up the amounts `SendMany` is called with. They are the same with `MinersPayTxFees`, which
only makes the wallet take its fee out of them; what arrives is not part of the model, and
`RoundingDrift` is about the call.
The history variables `gross`, `paid`, `stray` and `again` tell apart what the code cannot:
transfers executed and never booked, and bookings made twice.

### Ledger

What payment processing promises, without cycles, transactions and retries: a block is settled
once, with its credits (`Confirm`, `Orphan`), and a payout pays everybody who is due what the
books owe him, in one step with the books (`Pay`). Wallet and database share no transaction, and
the promise has three exceptions with a name: coins sent without the books ever knowing
(`PayUnseen`), a payout that the books take back (`Forget`) and one they subtract again
(`Repeat`), the last two for the latest payout only. `Payments` implements it
(`ImplementsLedger == L!Spec`) with this mapping:

| Ledger | Payments |
|---|---|
| `settled[b]` | `Settled`: "open" until the status of the block's row is final |
| `earned` | `gross`, all credits |
| `paid` | `paid`, the amounts of all executed transfers, before they are rounded |
| `book` | `Owing`: the balance less the payout that is under way and not booked yet |
| `last` | `Latest`: the payout that is under way |

So the abstract payout happens when the wallet sends, the booking is invisible, and a cycle that
ends between the two is `Forget`. The run shows that a step which is none of these, for example
paying after a refused transfer, is noticed.

### PPLNS

The walk of `CalculateRewards` over pages, newest share first, with `InsertShare` at any moment,
and the update that credits, deletes and confirms in one transaction. `Reference` defines the
scheme by what each share earns; the walk is compared with it. Scores are whole numbers and the
reward is a multiple of the window, so that the decimal division is exact; rounding is left out.

### ShareRecorder and ShareRecovery

`Publish`, `Take`, `Flush` are the queue and Rx buffer; `PersistShares`, `PersistFails`,
`PersistUnacknowledged` and `PersistThrows` are the outcomes of the transaction, `AfterFailure`
what the Polly policies make of them, `Fallback` and `FallbackFails` the recovery file. Polly is
external: its state (`attempt`, `breaker`, `failures`) follows how the code composes the policies.
`ShareRecovery` imports the file, over all files of up to `MaxLines` lines, possibly twice.

### Jobs

Pipeline one: `Poll`, `Refresh` and `AskFails` ask the daemon, `UpdateJob` or `UpdateJobFails`
use the answer. Pipeline two: `BeginBroadcast`, `SendJob` per client, `EndBroadcast`;
`SendJobThrows` and `BootZombie` are a connection that breaks and a client that was silent.
`SubscribeRead` and `SubscribeSend` are the two halves of the read of `currentJobParams` around
an `await`. `dead` records the end of both pipelines after an exception in a broadcast. Jobs are
objects, referred to by id, with the clean flag that `GetJobParams` overwrites. A piece of work is
its height and a branch: `UpdateJob` compares `PrevBlock` arrays by reference, so that only the
height counts.

### Submission

The requests of several clients, each in a stage: `Receive` (up to the look-up of the job under
the lock), `Misparse`, `Refuse` and `Process` (`ProcessShare`, with the duplicate check and the
grade of the solution), `SubmitAccepted`, `SubmitRejected`, `SubmitUnconfirmed`, `SubmitLost`
(the batch of getwork and getblock), `WalletAnswers` and `WalletThrows` (the coinbase
transaction), `Respond`, `Reject` with `ConsiderBan`, `SendThrows`. Connections break (`Break`),
are closed by the pool (`Close`) and end (`End`). A submission is a constant with its job, the
extra nonce it is for and its grade; it is graded at most once because it is registered first.

What is registered is its `Key`, the strings in lower case (`ExchangeCoinJob.cs:169`); what is
verified, hashed and given to the daemon is its `Header`, which the strings are parsed to (lines
182 to 196). The two are not the same: `uint.Parse` takes leading zeros and spaces, and
`HexToByteArray` reads several characters alike, so that one header has many keys. The code
promises that a key is counted once, and this is what `CountedOnce` says. That one header is
recorded again under another key happens in the run, where one block is sent in capitals (the
same key) and with a leading zero (another key), and no property denies it.

`nonce` is any assignment, so that clients may have the same extra nonce. Jobs come and go by
`NewJob`, an abstraction of `UpdateJob` in Jobs that may drop any of the active jobs. Aged
requests, which the code drops without an answer, change nothing and are left out.

### Session

The difficulty of one connection. Threads are the requests of the client (one at a time), idle
callbacks and the broadcast; `stage` is what each is about to do. `Fire` is a timer, `Lock` the
entry of `UpdateVarDiffAsync` with `StartVarDiffIdleUpdate`, `Update` the computation under the
lock (`VarDiffManager.Update`: `FirstUpdate`, `LaterUpdate`, `OutOfRange`, `Retarget`).
`BeginEnqueue` and `EndEnqueue` are the two stores that write the `double?` of the pending
difficulty, `Test`, `Set` and `Clear` the three accesses of `ApplyPendingDifficulty`; nothing
guards them, so that a value may be torn (`Torn`, the value 0 with `HasValue` set), an exception
may be thrown and an update may be lost. `Cast` is the broadcast that applies what is pending.
`Authorize` and `Suggest` set a difficulty, `Submit`, `Judge` and `Credit` are the looks that
`ProcessShareInternal` takes at the difficulties. A share that meets the difficulty of a block is
accepted whatever that of the connection is, and credited with the latter
(`ExchangeCoinJob.cs:207` and 229), which may be far more than its work as a client may ask for
any difficulty; the promise about credits is for the other shares, and `held` collects the
difficulties the client held between the two looks at one of them. Time is `Tick`; times are kept as ages that
saturate, difficulties are whole numbers and a quotient is rounded away from the present one, so
that a change stays a change. Left out: what the client is told of its difficulty.

### Dag

`EthashFull.GetDagAsync` (`Hit`, `Miss`, `Remaining`, pre-generation for the next epoch),
`Dag.GenerateAsync` with its static semaphore (`Acquire`, `Done`), and the steps of
`ethash_full_new_internal` on the file: `Open` compares size and magic number, `Create`
truncates, `Size` writes the last byte, `Map`, `Fill`, and `Seal` writes the magic number. Every
step can fail (`Fails`), the process can die at any moment (`Crash`), the files stay. Assumed:
a file that exists can be opened (when `fopen` "rb+" fails for another reason, the code makes
the file anew under a process that may have mapped it); the machine does not lose power, so that
what was written is there; and an epoch is longer than a call (`NextEpoch`). That a replaced
future Dag is collected without closing its handle is what the code does (`Collected`).

### Equihash

The verification of a solution: `CheckSize`, `ExpandArray` (one byte per step through an
accumulator of fixed width), `MakeRows`, `MergePair` with its three early returns, `NextLevel`,
`Finish`. Bytes, words and the number of levels are parameters, the hash of an index is one of
the functions in `Hashes`. `IsSolution` is the definition of Equihash, on the bits of the
solution and the tree of its indices. `EquihashSpec` and the variables have names that Submission
does not use, so that one module can hold the proofs of both: `phase`, `accepted`.

## 3. The runs

| Run | Instance | Shows |
|---|---|---|
| `payments` | 2 blocks, 2 miners, operator and pool as recipients, encrypted wallet, 1 retry, 2 faults | Payments implements Ledger; credited once, books balance, rounding drifts by half a unit per transfer at most, no money from nothing; matured blocks are settled and balances paid, unless `Stalled` |
| `pplns` | 5 shares, two of them with the same time, pages of 2, window 3, 2 blocks, 1 fault | the walk equals the definition, also when the window reaches into the second page; it skips only ties at the end of a full page, which happens inside the window; it deletes nothing that later blocks need, and ends |
| `recorder` | 3 shares, 1 a block, batches of 2, 2 outages, 1 loss | no silent loss, no duplicates but by lost acknowledgements, block with share; every share ends in the database or the file |
| `recovery_import` | all files of up to 5 lines, batches of 2, 2 failures, 2 runs | nothing read is dropped, a clean run imports everything once |
| `recovery_count` | files of up to 4 lines, no failure | **violated**: the reported number is wrong |
| `submission` | 2 clients, 6 submissions with 5 keys and 4 headers, 2 jobs, 2 requests each, 1 fault, 1 broken connection | each key counted once, recorded blocks are real, blocks lost by faults only |
| `submission_block` | no fault of daemon or wallet | **violated**: a miner's broken connection loses an accepted block |
| `jobs` | chains of height 2 with forks, 2 active jobs, 4 ids, 1 move, 1 error, 1 broken connection | active jobs bounded, unambiguous, none outgrown; pool and miners get to the best block |
| `session` | 1 idle callback, 1 request and 1 broadcast at a time, 3 events, difficulties 1 to 3, of blocks 2 and 4 | a timer always watches, a static difficulty is kept, credit for what is no block is earned, a silent miner comes down to the minimum |
| `session_idle` | as above | **violated**: an idle update may raise the difficulty |
| `dag` | 2 calls, 1 background generation, 3 caches, epochs 0 to 4, 1 fault | what is served is complete, what is in use is not disposed of, the semaphore comes back |
| `equihash` | 4 indices of 3 bits in bytes of 2 bits, words of 4 bits, all solutions, 7 hash functions | unpacking loses no bit, exactly the solutions are accepted |

Why the bounds are enough. Every hazard needs few participants: a retry needs one retry, a
booking made twice needs one lost acknowledgement and one later crash, the circuit breaker two
failed batches and one more, a page boundary three shares, a wrapped counter more jobs than ids,
a race between submissions two clients with one solution, and a second request for what the
first has left behind; a race for the pending difficulty needs one writer and one reader, an
eviction four epochs, an index that crosses a byte more bits than a byte has. In Equihash the
proportions of the code are kept: the accumulator is as narrow as its assertion allows, and two
levels are the fewest in which equal indices can meet in different pairs. The budgets of faults allow each kind in combination with another.
Counters that the code does not bound have a bound of the model named `Max...` and marked
`bound:` where it is declared. `CHECK_DEADLOCK FALSE` is used where all work can be done: all
shares published, all requests made. In Payments the thread never stops, and deadlock is checked.
`submission` uses that its clients are alike (`SYMMETRY`; either may get any extra nonce) and that
the variables of a request that has ended are set before they are read again (`VIEW`); it checks
invariants only.

### Fairness

* Payments: `WF(Step)`. The loop of `PayoutManager.Start` catches everything and goes on; each
  remote call ends by its timeout. Faults are bounded, as without that nothing can be promised.
* PPLNS: `WF(Walk)`, the same thread.
* ShareRecorder: `WF(Recorder)`. The consumer is a thread of its own, the buffer's timer fires,
  policies end. Nothing is assumed of the database: it may stay down.
* Jobs: `WF` of an update under way and of the broadcast, and `SF(Refresh)`: triggers are queued
  in the order they fire (`Concat`), so that the refresh is served although polls are, too, and
  keep it from being continuously possible. Polling is not assumed to succeed or to notice.
* Session: time passes, a timer that is due fires, and a thread of the pool that has begun an
  update or a request goes on. Nothing is assumed of the client.
* Dag: a generation that is under way goes on. Nothing is assumed of callers.
* ShareRecovery, Equihash and Submission make no claims of progress: two are loops over
  finite input, in the third every request is a finite sequence of calls that end by their timeout.

### Findings

1. `submission_block`: `OnSubmitAsync` answers the miner before it publishes the share
   (`ExchangeCoinPoolBase.cs:173`). If that connection is broken, the exception prevents the
   publication of a block the daemon has already accepted.
2. `recovery_count`: `RecoverShares` counts a batch after clearing it (`ShareRecorder.cs:232`).
3. `session_idle`: "Diff must be dropped once changed" (`PoolBase.cs:212`), but the idle update
   averages the silence with the fast shares before it and may raise the difficulty.

Seen while modelling, without a run of their own:

* `ExchangeCoinPayoutHandler.cs:146`: a transaction without `BlockHash` ends every payment cycle
  (`Stalled` above).
* `ExchangeCoinJob.cs:169`: the duplicate check is about the strings and not about the header
  they are parsed to.
* `ExchangeCoinJob.cs:229`: a block candidate is credited with the difficulty of its connection,
  whatever its own is.
* "this should never happen" (`PPLNSPaymentScheme.cs:236`) happens for a reward of 0; that it does
  not for a positive one is the theorem `PositiveRewardNeverOverflows`.
* "we need work before opening the gates" (`ExchangeCoinPoolBase.cs:295`): a forced refresh that
  fails is emitted like a job, and the ports open without one.
* `DaemonClient` promises the "first successful response" (`DaemonClient.cs:171`) and takes the
  first completed one.
* `StatsRecorder.cs:170`: the insert of pool statistics is outside the retry policy; one failure
  skips the hashrates of all later pools until the next interval.
* `ShareReceiver.cs:104`: shares relayed while a receiver reconnects are lost.
* `ShareRecorder.cs:125`: the notification of a block is sent inside the transaction, and again
  after each retry. `notes` counts them; `BlockWithShare` says that one is never missing.

## 4. The proofs

Theorems hold for all values of the constants that satisfy the named `ASSUME`s of the module.
These state types, positive sizes where the code needs them, and that what is added up is finite:
the miners and reward recipients of a pool, the callbacks that can be under way at a time. In Dag
the null reference is neither a Dag nor an actor.

* **SumTheorems.** The sum over a finite set (`SumFunctionOnSet`) is a recursive function of its
  subsets. Its properties are proved by induction over these: the subsets of a finite set are
  well-founded, so a set of counterexamples that is not empty has a minimal one
  (`SubsetInduction`, from `WFMin` of the library, which takes a set and not an operator). From
  this follow the facts that the proofs below need: adding or changing one summand, splitting a
  set, adding two functions, bounds.

  The provers do not know powers with a variable exponent. `2^n` is taken from the library as the
  number of subsets of a set of `n` elements, and `PowerStep` counts them: those of `1..(n+1)`
  with and without `n + 1`. `PowerPlus` and `SumOfBits`, that a number is the sum of its bits, are
  inductions over the natural numbers (`NatSetInduction`, again about a set of numbers and not an
  operator).
* **PaymentsProofs.** `TypeCorrect`, `CreditedExactlyOnce`, `BooksAlwaysBalance`,
  `MemoryStaysCurrent`, `BalancesNeverOverdrawn`, `NeverOverpaid`, `StatusIsFinal`,
  `DriftIsBounded`. None of the safety invariants is inductive alone: that a block is
  credited once rests on the block in memory still being pending when its transaction commits,
  and that a balance is not overdrawn on the amounts read being those in the table until they
  are booked. `MemoryIsCurrent` states both; it is a property of the runs as well. `RoundError`
  shows that rounding to even moves an amount by at most half a unit, and `DriftIsBounded` adds
  these up over all transfers.

  `PaymentsImplementLedger`: `Spec => L!Spec`, the refinement. The initial states
  map to the initial state, and `StepSimulation` goes through the actions: each is a step of the
  ledger or leaves its variables alone. Two facts are added to the invariant: `TxUntouched`, that
  the transaction of a block that is not confirmed touches no balance, and `BatchIsDue`, that the
  batch is still everybody who is due when it is sent.

  `CreditsAreEarned`: all credits together stay within the rewards of the confirmed blocks. The
  strengthening is about the open transaction: the block in memory has its own reward
  (`ClassifiedReward`), and what the transaction has added to the balances and what is left of the
  reward are together at most that reward (`TxFunded`).
* **PPLNSProofs.** `TypeCorrect`, `NoShareCountedTwice`, `AlwaysProportional`,
  `PositiveRewardNeverOverflows`. `GoesBack` is the strengthening: whatever is still to be read
  is older than what was counted, also with shares arriving in between. That the overflow guard
  is dead for a positive reward follows from proportionality: the reward is used up exactly when
  the window is full.

  `OnlyTiesAreSkipped` needs to know what of the table the walk has behind it: a share that was
  there at the start has been counted, or the walk still gets to it, or the window was full before
  it, or it has the time of the last share of a full page (`Coverage`, `Cut`), and no row
  disappears meanwhile (`RowsStay`). `WalkComputesReference` builds on it: the part of the window that is filled is the
  sum of the scores counted (`Filled`), and each miner has the sum of what his counted shares earn
  by the scores of the newer ones (`PaysEarned`); with that, the page size does not matter.
  `DeletedSharesAreSpent` is about the definition: what is deleted lies behind a full window of
  newer shares, for any later block as well. `RewardsStayInBudget` (with `AddsUp`: rewards and
  rest are the block's reward) is what Payments expects of a scheme (`SchemeRewards`).
* **JobsProofs.** `TypeCorrect`, `ActiveJobsHold`, `NoShareForOutgrownBlock`, `CleanOnlyFirst`.
  `Exists` (every job referred to exists) and `Fresh` (the next id is not in use while an update
  waits) are needed so that a new job overwrites none of the active ones.
* **SubmissionProofs**, first part. `TypeCorrect`, `ShareCountedOnce`, `OnlyRealBlocks`. A request past the
  duplicate check holds a submission that is registered, not published and held by no other
  client, each up to its key (`PastIsRegistered`, `OneClient`); a candidate that waits for the wallet or the response
  is in the chain (`CandidateIsTaken`); the statistics are bounded by the requests (`Accounted`).

  `LossesHaveCauses`: the blocks that are lost are no more than the faults and broken connections
  there were. The count is inductive only if a break that has not cost a block yet is kept apart
  from one that has (`LossCharged`).

  Second part, Equihash. `UnpackingIsExact` and `AcceptsExactlySolutions`, for any depth of the tree,
  any widths that satisfy the assertions of `ExpandArray`, any hash function and any solution, those
  of the real parameters (144, 5) included. Both are parts of one inductive invariant
  (`EquihashInv`), which has an argument for each phase. While bytes are unpacked (`Accumulated`),
  the low bits of the accumulator are the last bits of the stream, as many as are read and not yet
  part of an index; what is shifted out at the top is used already, because of the headroom that
  the assertion demands (`ShiftedBits`), and an index is therefore the sum of its group of bits
  (`ElementIsIndex`). While rows are merged (`Merging`), the rows left are those of the nodes of one
  level, in order, the new ones those of the first nodes of the next, and every node that was made is
  sound: in order, without a repeated index, its digits cancelled. A pair that passes the three
  checks makes a sound parent with the expected row (`NodePasses`, `RowMerge`), and a pair that
  does not refutes the definition for the whole tree (`NodeFails`), so that the early return is
  right. At the end only the last digit is left to check.
* **RecordingProofs**, first part. `TypeCorrect`, `NothingLostSilently`, `RecordedOnce`,
  `BlockGoesWithShare`. A share is in one of queue, buffer and batch at most, and once
  (`OnePlace`), not in the file as long as it is there (`NotFiled`), and has no rows then but those
  of lost acknowledgements (`OnlyUnacked`). `MoveStep` and `LeaveStep` are the two shapes nearly all
  actions have: shares change their place, or leave the pipeline.

  Second part. `NothingIsDropped`, `NoShareTwice`, `CleanRunIsComplete` of ShareRecovery, for files
  of any length. What holds of a line depends on where it is: not read yet (`Unread`), in the list
  (`Listed`), or imported; `Clean` says that in a run without failures it is exactly one of these.
* **SessionProofs.** `AlwaysWatched`, `StaticDifficultyKept`, `CreditIsEarned`, for any number of
  threads and any configuration. `PendingIsMinded` and `Quiet` are about the pending difficulty
  that is shared without a lock: whoever leaves it behind is still under way, and a static
  difficulty that was set with nobody under way is never touched again. For `CreditIsEarned`, a share
  that passed the comparison has the work of the previous difficulty, or that has moved since and
  is in `held`. No conclusion depends on what `VarDiffManager` computes.

  `TypeCorrect` does: a difficulty stays within its limits (`Worth`), times and ages within theirs
  (`Clock`), and the timers that are set and the callbacks that enter are together never more
  than the callbacks that can run, and one (`TimersCounted`).
* **DagProofs.** `HandlesAreComplete`: what a handle maps is complete. A file has its magic number
  only when its data is complete (`Sealed`), a handle is made only from a file that has one
  (`Mapped`), and such a file is never written again: a generation that writes has found none
  (`Progress`), and there is only one at a time (`Exclusive`). `Sealed` is about the files alone, so
  that a crash cannot disturb it.

  `EvictionSparesUsers`: for three caches or more, which is what the code has, a Dag in use is not
  evicted. The strengthening is the order of the cache: behind a Dag in use there are only Dags of
  the present epoch and the two before, and behind one of the present epoch only that of the
  epoch before (`Recent`). The epochs are different, and the one asked for is not among them: a
  full cache of three cannot start with a Dag in use (`OldestIsIdle`). It rests on the guard of
  `NextEpoch`, that no call outlives an epoch. `TypeCorrect` gives the types and the size of the
  cache.

Only model-checked: the liveness properties, because the prover has no `ENABLED`, and what the three
violated runs refute. Every invariant and every action property of a passing run is a theorem. Only
proved, and in no run: `NeverOverdrawn`, `NoOverpayment` and `FinalStatus` of Payments,
`NeverCountedTwice`, `NeverOverflows`, `InBudget` and the types of PPLNS, `CleanIsFirst` of Jobs,
the types of Dag. No module declares a RECURSIVE operator.

## 5. Not modelled

* Hash functions and their tables, which are nearly all of the C and C++ code under
  `src/src/Native` (some 150,000 lines, third-party and in part generated): pure functions without
  state whose only specification is their own code. A model would be a transliteration and its
  properties would restate it. What the pool's correctness depends on there, the verification of
  Equihash solutions and the files of libethash, is modelled; the Equihash solver is compiled out
  (`ENABLE_MINING`). By lines, therefore, only a small part of the repository is mapped.
* The encodings themselves and the header layout: Submission keeps only which strings have the
  same key and which the same header, and a submission has a grade.
* API, notifications, logging, configuration: no state of the pool.
* The other coins: inherited by this fork; their pipelines have the same shape.
* The message bus: synchronous delivery, part of the publishing actions.
* The extra nonce counter and the daemon client: Submission, Jobs and Payments allow every
  outcome of them, equal nonces, failures and lost answers included.
* Relay and statistics: no other part depends on their state.
* In Submission, a ban is of a client, which has an address of its own, and does not expire.
* In Payments, several pools (each has its own rows), and `Stop`, which nothing calls.
* In Jobs, the job that is sent with a new difficulty.

## 6. Plan

Done: Payments with Ledger, PPLNS, ShareRecorder, ShareRecovery, Jobs, Submission, Session, Dag,
Equihash, with the proofs above. Left, by importance:

1. `Pipeline`: ShareRecorder composed with PPLNS through the table of shares, with shares imported
   late by ShareRecovery; PPLNS and Solo as implementations of `SchemeRewards`.
2. `DaemonClient` against the outcomes that Payments, Jobs and Submission assume.
