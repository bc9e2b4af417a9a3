------------------------------ MODULE Payments ------------------------------
(***************************************************************************)
(* The payment cycle of one pool: PayoutManager (the loop, the balance     *)
(* update and the payout), the payout handler of the coin (classification  *)
(* of blocks, reward recipients, SendMany and wallet locking), the         *)
(* bookkeeping of PayoutHandlerBase.PersistPayments, and the tables blocks,*)
(* balances and payments.                                                  *)
(*                                                                         *)
(* The payment thread is sequential; what makes it hard is everything that *)
(* can go wrong between two of its steps: a remote call that fails before  *)
(* or after it took effect, a transaction that is rolled back, a commit    *)
(* whose acknowledgement is lost, and a process that dies.  Each of these  *)
(* costs one unit of the budget MaxFaults.                                 *)
(*                                                                         *)
(* Amounts are integers, one unit being the last digit the database keeps  *)
(* (decimal(28,12)); a payment is rounded to multiples of Unit, the        *)
(* smallest amount the wallet can send.                                    *)
(***************************************************************************)
EXTENDS Integers, FiniteSets, Functions

CONSTANTS
  NumBlocks,      \* blocks found by the pool, numbered in the order of their Created
  BlockReward,    \* BlockReward[b]: amount of the coinbase transaction of block b
  Miners,         \* addresses the payout scheme credits
  Recipients,     \* addresses of poolConfig.RewardRecipients
  Percentage,     \* Percentage[p]: share of recipient p in per cent
  PoolAddress,    \* poolConfig.Address
  MinimumPayment, \* pool.PaymentProcessing.MinimumPayment
  Unit,           \* ratio of the wallet's unit (8 digits) to the database's (12)
  WalletEncrypted,\* TRUE if the wallet has to be unlocked before it sends
  HasPassword,    \* TRUE if walletPassword is configured
  RetryCount,     \* retries of PersistPayments
  MaxFaults       \* bound: number of faults in a behaviour

Blocks == 1..NumBlocks

\* Addresses that have a balance: the pool's own address is never credited.
Addresses == Miners \cup (Recipients \ {PoolAddress})

ASSUME BlocksAssumption ==
  /\ NumBlocks \in Nat
  /\ BlockReward \in [Blocks -> Nat]

\* The configuration is not checked for recipients that take more than the whole
\* reward (the rest would be negative); that they do not is assumed.
ASSUME RecipientsAssumption ==
  /\ IsFiniteSet(Miners) /\ IsFiniteSet(Recipients)
  /\ Percentage \in [Recipients -> Nat]
  /\ SumFunction(Percentage) <= 100

ASSUME AmountsAssumption ==
  /\ MinimumPayment \in Nat
  /\ Unit \in Nat \ {0}

ASSUME FaultsAssumption ==
  /\ RetryCount \in Nat
  /\ MaxFaults \in Nat
  /\ WalletEncrypted \in BOOLEAN
  /\ HasPassword \in BOOLEAN

VARIABLES
  \* the chain as the daemon reports it
  chain,       \* chain[b]: state of the coinbase transaction of b
  \* the database, committed state
  status,      \* blocks.status; "none" when there is no row
  reward,      \* blocks.reward
  effort,      \* TRUE when blocks.effort is filled
  balance,     \* balances.amount
  payments,    \* sum of payments.amount
  \* the payment thread
  pc,
  toClassify,  \* pending blocks not classified yet
  updated,     \* classified blocks that wait for their transaction
  mem,         \* the Block objects in memory
  cur,         \* block of the running transaction, 0 if none
  txBalance,   \* balances as the running transaction sees them
  txRemaining, \* blockRewardRemaining
  txTodo,      \* recipients not yet credited
  batch,       \* addresses of the balances read for this payout
  owed,        \* their amounts
  didUnlock,   \* didUnlockWallet
  txid,        \* TRUE when SendMany returned a transaction id
  attempt,     \* executions of the fault policy in PersistPayments
  \* the wallet
  locked,
  sent,        \* amounts of executed SendMany calls, per address
  \* history, read by no action
  credits,     \* committed credit transactions per block
  gross,       \* committed credits per address
  paid,        \* amounts behind executed SendMany calls, before rounding
  stray,       \* of these, amounts never booked
  again,       \* amounts booked more than once for one SendMany
  sends,       \* executed SendMany calls
  booked,      \* TRUE when the current batch has been booked
  faults

chainVars   == <<chain>>
blockVars   == <<status, reward, effort, credits, gross>>
cycleVars   == <<toClassify, updated, mem>>
txVars      == <<cur, txBalance, txRemaining, txTodo>>
payVars     == <<batch, owed, didUnlock, txid, attempt, booked>>
walletVars  == <<locked>>
sentVars    == <<sent, paid, sends>>
bookVars    == <<payments, stray, again>>
vars == <<chainVars, blockVars, balance, pc, cycleVars, txVars, payVars,
          walletVars, sentVars, bookVars, faults>>

ChainStates == {"immature", "generate", "gone", "detached"}
Statuses    == {"none", "pending", "confirmed", "orphaned"}
PCs == {"idle", "classify", "recipients", "commit", "send", "unlock", "lock", "persist"}

Zero == [a \in Addresses |-> 0]
NoMem == [b \in Blocks |-> [status |-> "pending", reward |-> 0, effort |-> FALSE]]

TypeOK ==
  /\ chain \in [Blocks -> ChainStates]
  /\ status \in [Blocks -> Statuses]
  /\ reward \in [Blocks -> Nat]
  /\ effort \in [Blocks -> BOOLEAN]
  /\ balance \in [Addresses -> Int]
  /\ payments \in [Addresses -> Int]
  /\ pc \in PCs
  /\ toClassify \subseteq Blocks
  /\ updated \subseteq Blocks
  /\ mem \in [Blocks -> [status : {"pending", "confirmed", "orphaned"},
                         reward : Nat, effort : BOOLEAN]]
  /\ cur \in Blocks \cup {0}
  /\ txBalance \in [Addresses -> Int]
  /\ txRemaining \in Int
  /\ txTodo \subseteq Recipients
  /\ batch \subseteq Addresses
  /\ owed \in [Addresses -> Int]
  /\ didUnlock \in BOOLEAN
  /\ txid \in BOOLEAN
  /\ attempt \in 0..RetryCount
  /\ locked \in BOOLEAN
  /\ sent \in [Addresses -> Int]
  /\ credits \in [Blocks -> Nat]
  /\ gross \in [Addresses -> Int]
  /\ paid \in [Addresses -> Int]
  /\ stray \in [Addresses -> Int]
  /\ again \in [Addresses -> Int]
  /\ sends \in Nat
  /\ booked \in BOOLEAN
  /\ faults \in 0..MaxFaults

Init ==
  /\ chain = [b \in Blocks |-> "immature"]
  /\ status = [b \in Blocks |-> "none"]
  /\ reward = BlockReward
  /\ effort = [b \in Blocks |-> FALSE]
  /\ balance = Zero /\ payments = Zero
  /\ pc = "idle"
  /\ toClassify = {} /\ updated = {} /\ mem = NoMem
  /\ cur = 0 /\ txBalance = Zero /\ txRemaining = 0 /\ txTodo = {}
  /\ batch = {} /\ owed = Zero /\ didUnlock = FALSE /\ txid = FALSE /\ attempt = 0
  /\ locked = WalletEncrypted
  /\ sent = Zero /\ credits = [b \in Blocks |-> 0] /\ gross = Zero
  /\ paid = Zero /\ stray = Zero /\ again = Zero /\ sends = 0
  /\ booked = FALSE /\ faults = 0

Fault == faults < MaxFaults /\ faults' = faults + 1
NoFault == UNCHANGED faults

-----------------------------------------------------------------------------
(***************************************************************************)
(* The world around the payment thread                                     *)
(***************************************************************************)

\* The share recorder inserts the row of a block the pool found.  Rows may
\* appear in any order: a share kept in the recovery file arrives late.
InsertBlock(b) ==
  /\ status[b] = "none"
  /\ status' = [status EXCEPT ![b] = "pending"]
  /\ UNCHANGED <<chainVars, reward, effort, credits, gross, balance, pc, cycleVars,
                 txVars, payVars, walletVars, sentVars, bookVars, faults>>

\* The daemon's view of the coinbase transaction of b: it matures, a
\* reorganisation removes it or leaves it in the wallet without a block
\* ("detached"), or, counted as a fault, brings it back.
ChainStep(b) ==
  /\ \/ /\ chain[b] = "immature"
        /\ \E c \in {"generate", "gone", "detached"} : chain' = [chain EXCEPT ![b] = c]
        /\ NoFault
     \/ /\ chain[b] \in {"gone", "detached"}
        /\ chain' = [chain EXCEPT ![b] = "immature"]
        /\ Fault
  /\ UNCHANGED <<blockVars, balance, pc, cycleVars, txVars, payVars, walletVars,
                 sentVars, bookVars>>

\* The passphrase of WalletPassphrase expires (after 5 seconds).  That it does
\* before the transfer it was sent for counts as a fault.
WalletTimeout ==
  /\ WalletEncrypted /\ ~locked
  /\ locked' = TRUE
  /\ IF pc = "send" THEN Fault ELSE NoFault
  /\ UNCHANGED <<chainVars, blockVars, balance, pc, cycleVars, txVars, payVars,
                 sentVars, bookVars>>

-----------------------------------------------------------------------------
(***************************************************************************)
(* The end of a cycle.  ProcessPoolsAsync catches every exception and the  *)
(* loop waits for the next interval; a process that dies is restarted with *)
(* empty memory.  Either way only the database and the wallet remain.      *)
(***************************************************************************)
EndCycle ==
  /\ pc' = "idle"
  /\ toClassify' = {} /\ updated' = {} /\ mem' = NoMem
  /\ cur' = 0 /\ txBalance' = Zero /\ txRemaining' = 0 /\ txTodo' = {}
  /\ batch' = {} /\ owed' = Zero /\ didUnlock' = FALSE /\ txid' = FALSE /\ attempt' = 0
  /\ booked' = FALSE

\* Coins of a batch the wallet has sent and nobody will book any more.
Abandon ==
  stray' = IF pc \in {"lock", "persist"} /\ ~booked
           THEN [a \in Addresses |-> stray[a] + (IF a \in batch THEN owed[a] ELSE 0)]
           ELSE stray

\* The process dies, or a step of the cycle other than a transfer or a commit
\* throws: a failed query, a remote call that fails in transit, an exception of
\* the payout scheme, a failing WalletLock.  A running transaction is rolled back.
Crash ==
  /\ pc # "idle"
  /\ Fault
  /\ EndCycle
  /\ Abandon
  /\ UNCHANGED <<chainVars, blockVars, balance, walletVars, sentVars, payments, again>>

-----------------------------------------------------------------------------
(***************************************************************************)
(* UpdatePoolBalancesAsync                                                 *)
(***************************************************************************)

\* Mutant of BeginCycle: the query does not ask for the status.
BeginCycleAnyStatus ==
  /\ pc = "idle"
  /\ pc' = "classify"
  /\ toClassify' = {b \in Blocks : status[b] # "none"}
  /\ mem' = [b \in Blocks |->
               [status |-> "pending", reward |-> reward[b], effort |-> effort[b]]]
  /\ UNCHANGED <<chainVars, blockVars, balance, updated, txVars, payVars, walletVars,
                 sentVars, bookVars, faults>>

\* A cycle starts by reading the pending blocks.
BeginCycle ==
  /\ pc = "idle"
  /\ pc' = "classify"
  /\ toClassify' = {b \in Blocks : status[b] = "pending"}
  /\ mem' = [b \in Blocks |->
               IF status[b] = "pending"
               THEN [status |-> "pending", reward |-> reward[b], effort |-> effort[b]]
               ELSE NoMem[b]]
  /\ UNCHANGED <<chainVars, blockVars, balance, updated, txVars, payVars, walletVars,
                 sentVars, bookVars, faults>>

\* The answer of GetTransaction for block b, as ClassifyBlocksAsync reads it: an
\* orphan shows as error -5, as another block hash or as missing details (the
\* reward is left alone), or as an unknown category (the reward is cleared).  A
\* transaction without a block hash has no classification: see ClassifyThrows.
Classified(b) ==
  CASE chain[b] = "immature" -> {[mem[b] EXCEPT !.reward = BlockReward[b]]}
    [] chain[b] = "generate" ->
         {[mem[b] EXCEPT !.reward = BlockReward[b], !.status = "confirmed"]}
    [] chain[b] = "gone" ->
         {[mem[b] EXCEPT !.status = "orphaned"],
          [mem[b] EXCEPT !.status = "orphaned", !.reward = 0]}
    [] chain[b] = "detached" -> {}

\* Mutant of ClassifyBlock: the classified block is not added to the result.
ClassifyBlockDropped(b) ==
  /\ pc = "classify"
  /\ b \in toClassify
  /\ toClassify' = toClassify \ {b}
  /\ UNCHANGED <<chainVars, blockVars, balance, pc, updated, mem, txVars, payVars,
                 walletVars, sentVars, bookVars, faults>>

ClassifyBlock(b) ==
  /\ pc = "classify"
  /\ b \in toClassify
  /\ toClassify' = toClassify \ {b}
  /\ \E m \in Classified(b) : mem' = [mem EXCEPT ![b] = m]
  /\ updated' = updated \cup {b}
  /\ UNCHANGED <<chainVars, blockVars, balance, pc, txVars, payVars, walletVars,
                 sentVars, bookVars, faults>>

\* The comparison of the block hash dereferences null when the transaction has none,
\* or when the answer is empty: the exception ends the cycle before any of the blocks
\* classified in it, in every cycle until the daemon answers differently.
ClassifyThrows(b) ==
  /\ pc = "classify"
  /\ b \in toClassify
  /\ chain[b] = "detached"
  /\ EndCycle
  /\ UNCHANGED <<chainVars, blockVars, balance, walletVars, sentVars, bookVars, faults>>

\* Any other error of the daemon: the block is not classified in this cycle.
SkipBlock(b) ==
  /\ pc = "classify"
  /\ b \in toClassify
  /\ Fault
  /\ toClassify' = toClassify \ {b}
  /\ UNCHANGED <<chainVars, blockVars, balance, pc, updated, mem, txVars, payVars,
                 walletVars, sentVars, bookVars>>

\* Mutant of BeginBlock: the loop does not advance past the block.
BeginBlockStuck(b) ==
  /\ pc = "classify"
  /\ toClassify = {}
  /\ b \in updated /\ \A c \in updated : b <= c
  /\ cur' = b
  /\ txBalance' = balance
  /\ IF mem[b].status = "confirmed"
     THEN /\ pc' = "recipients"
          /\ txTodo' = {p \in Recipients : Percentage[p] > 0}
          /\ txRemaining' = mem[b].reward
     ELSE /\ pc' = "commit"
          /\ UNCHANGED <<txTodo, txRemaining>>
  /\ UNCHANGED <<chainVars, blockVars, balance, cycleVars, payVars, walletVars,
                 sentVars, bookVars, faults>>

\* The next block in the order of Created gets a transaction of its own.  Its
\* effort is filled if it is empty and the shares for it are there.
BeginBlock(b) ==
  /\ pc = "classify"
  /\ toClassify = {}
  /\ b \in updated /\ \A c \in updated : b <= c
  /\ updated' = updated \ {b}
  /\ cur' = b
  /\ txBalance' = balance
  /\ \E e \in BOOLEAN : /\ mem[b].effort => e
                        /\ mem' = [mem EXCEPT ![b].effort = e]
  /\ IF mem[b].status = "confirmed"
     THEN /\ pc' = "recipients"
          /\ txTodo' = {p \in Recipients : Percentage[p] > 0}
          /\ txRemaining' = mem[b].reward
     ELSE /\ pc' = "commit"
          /\ UNCHANGED <<txTodo, txRemaining>>
  /\ UNCHANGED <<chainVars, blockVars, balance, toClassify, payVars, walletVars,
                 sentVars, bookVars, faults>>

\* Mutant of CreditRecipient: the amount is not taken from the remaining reward.
CreditRecipientOnTop(p) ==
  LET amount == (mem[cur].reward * Percentage[p]) \div 100
  IN /\ pc = "recipients"
     /\ p \in txTodo
     /\ txTodo' = txTodo \ {p}
     /\ txBalance' = IF p # PoolAddress
                     THEN [txBalance EXCEPT ![p] = @ + amount]
                     ELSE txBalance
     /\ UNCHANGED <<chainVars, blockVars, balance, pc, cycleVars, cur, txRemaining,
                    payVars, walletVars, sentVars, bookVars, faults>>

\* One round of the loop of UpdateBlockRewardBalancesAsync.
CreditRecipient(p) ==
  LET amount == (mem[cur].reward * Percentage[p]) \div 100
  IN /\ pc = "recipients"
     /\ p \in txTodo
     /\ txTodo' = txTodo \ {p}
     /\ txRemaining' = txRemaining - amount
     /\ txBalance' = IF p # PoolAddress
                     THEN [txBalance EXCEPT ![p] = @ + amount]
                     ELSE txBalance
     /\ UNCHANGED <<chainVars, blockVars, balance, pc, cycleVars, cur, payVars,
                    walletVars, sentVars, bookVars, faults>>

\* What IPayoutScheme.UpdateBalancesAsync may do with the rest of the reward:
\* credit the miners with at most that much in total.
SchemeRewards(remaining) ==
  {r \in [Miners -> 0..remaining] : SumFunction(r) <= remaining}

CreditMiners ==
  /\ pc = "recipients"
  /\ txTodo = {}
  /\ \E r \in SchemeRewards(txRemaining) :
       txBalance' = [a \in Addresses |->
                       txBalance[a] + (IF a \in Miners THEN r[a] ELSE 0)]
  /\ pc' = "commit"
  /\ UNCHANGED <<chainVars, blockVars, balance, cycleVars, cur, txRemaining, txTodo,
                 payVars, walletVars, sentVars, bookVars, faults>>

\* UpdateBlock and the commit: the block's row and the balances change together.
UpdateBlock(b) ==
  /\ status' = [status EXCEPT ![b] = mem[b].status]
  /\ reward' = [reward EXCEPT ![b] = mem[b].reward]
  /\ effort' = [effort EXCEPT ![b] = mem[b].effort]
  /\ balance' = txBalance
  /\ gross' = [a \in Addresses |-> gross[a] + (txBalance[a] - balance[a])]
  /\ credits' = IF mem[b].status = "confirmed"
                THEN [credits EXCEPT ![b] = @ + 1] ELSE credits

CommitBlock ==
  /\ pc = "commit"
  /\ UpdateBlock(cur)
  /\ pc' = "classify"
  /\ cur' = 0 /\ txBalance' = Zero /\ txRemaining' = 0
  /\ mem' = [mem EXCEPT ![cur] = NoMem[cur]]
  /\ UNCHANGED <<chainVars, toClassify, updated, txTodo, payVars, walletVars, sentVars,
                 bookVars, faults>>

\* The commit takes effect but its acknowledgement is lost: the exception ends
\* the cycle.
CommitUnacknowledged ==
  /\ pc = "commit"
  /\ Fault
  /\ UpdateBlock(cur)
  /\ EndCycle
  /\ UNCHANGED <<chainVars, walletVars, sentVars, bookVars>>

-----------------------------------------------------------------------------
(***************************************************************************)
(* PayoutPoolBalancesAsync                                                 *)
(***************************************************************************)

\* Mutant of OverThreshold: strictly over the minimum.
OverThresholdStrictly == {a \in Addresses : balance[a] > MinimumPayment}

OverThreshold == {a \in Addresses : balance[a] >= MinimumPayment}

\* The balances over the minimum are read once, before the payout.
ReadBalances ==
  /\ pc = "classify"
  /\ toClassify = {} /\ updated = {}
  /\ \E a \in OverThreshold : balance[a] > 0
  /\ pc' = "send"
  /\ batch' = OverThreshold
  /\ owed' = [a \in Addresses |-> IF a \in OverThreshold THEN balance[a] ELSE 0]
  /\ UNCHANGED <<chainVars, blockVars, balance, cycleVars, txVars, didUnlock, txid,
                 attempt, booked, walletVars, sentVars, bookVars, faults>>

\* No balance is over the minimum, or all of them are zero: nothing to pay.
NothingToPay ==
  /\ pc = "classify"
  /\ toClassify = {} /\ updated = {}
  /\ \A a \in OverThreshold : balance[a] = 0
  /\ EndCycle
  /\ UNCHANGED <<chainVars, blockVars, balance, walletVars, sentVars, bookVars, faults>>

\* Mutant of Round8: truncation.
Truncate8(x) == x - (x % Unit)

\* Math.Round(amount, 8): to the nearest multiple of Unit, a tie to the even one.
Round8(x) ==
  LET r == x % Unit
      q == x \div Unit
  IN IF 2 * r < Unit \/ (2 * r = Unit /\ q % 2 = 0)
     THEN x - r
     ELSE x - r + Unit

\* The effect of SendMany on the wallet; amounts that are not positive are left
\* out of the call.  The amounts are the same with and without MinersPayTxFees,
\* which only asks the wallet to take its fee out of them.
Transfer ==
  /\ sent' = [a \in Addresses |->
                sent[a] + (IF a \in batch /\ owed[a] > 0 THEN Round8(owed[a]) ELSE 0)]
  /\ paid' = [a \in Addresses |-> paid[a] + (IF a \in batch THEN owed[a] ELSE 0)]
  /\ sends' = sends + 1

\* SendMany succeeds; the wallet is locked again only if this payout unlocked it.
SendMany ==
  /\ pc = "send" /\ ~locked
  /\ Transfer
  /\ txid' \in BOOLEAN
  /\ IF txid' THEN NoFault ELSE Fault
  /\ pc' = IF didUnlock THEN "lock" ELSE "persist"
  /\ UNCHANGED <<chainVars, blockVars, balance, cycleVars, txVars, batch, owed,
                 didUnlock, attempt, booked, walletVars, bookVars>>

\* The wallet executes SendMany but the answer never arrives.
SendManyLost ==
  /\ pc = "send" /\ ~locked
  /\ Fault
  /\ Transfer
  /\ stray' = [a \in Addresses |-> stray[a] + (IF a \in batch THEN owed[a] ELSE 0)]
  /\ EndCycle
  /\ UNCHANGED <<chainVars, blockVars, balance, walletVars, payments, again>>

\* Mutant of SendManyLocked: the error of a locked wallet is taken for success.
SendManyLockedIgnored ==
  /\ pc = "send" /\ locked
  /\ pc' = "persist"
  /\ txid' = TRUE
  /\ UNCHANGED <<chainVars, blockVars, balance, cycleVars, txVars, batch, owed, didUnlock,
                 attempt, booked, walletVars, sentVars, bookVars, faults>>

\* The wallet answers RPC_WALLET_UNLOCK_NEEDED.  Once per payout, and only with a
\* configured password, the handler goes on to unlock it.
SendManyLocked ==
  /\ pc = "send" /\ locked
  /\ IF ~didUnlock /\ HasPassword
     THEN /\ pc' = "unlock"
          /\ UNCHANGED <<cycleVars, txVars, payVars>>
     ELSE EndCycle
  /\ UNCHANGED <<chainVars, blockVars, balance, walletVars, sentVars, bookVars, faults>>

\* WalletPassphrase, then the same transfer again.
WalletPassphrase ==
  /\ pc = "unlock"
  /\ locked' = FALSE
  /\ didUnlock' = TRUE
  /\ pc' = "send"
  /\ UNCHANGED <<chainVars, blockVars, balance, cycleVars, txVars, batch, owed, txid,
                 attempt, booked, sentVars, bookVars, faults>>

\* WalletLock; its answer is not looked at.
WalletLock ==
  /\ pc = "lock"
  /\ locked' \in {WalletEncrypted, locked}
  /\ pc' = "persist"
  /\ UNCHANGED <<chainVars, blockVars, balance, cycleVars, txVars, payVars, sentVars,
                 bookVars, faults>>

-----------------------------------------------------------------------------
(***************************************************************************)
(* PersistPayments                                                         *)
(***************************************************************************)

\* Mutant of Book: the balance is reset only together with a recorded payment.
BookRecordedOnly ==
  LET recorded(a) == a \in batch /\ txid /\ a \notin Recipients
  IN /\ balance' = [a \in Addresses |-> balance[a] - (IF recorded(a) THEN owed[a] ELSE 0)]
     /\ payments' = [a \in Addresses |-> payments[a] + (IF recorded(a) THEN owed[a] ELSE 0)]
     /\ again' = [a \in Addresses |->
          again[a] + (IF recorded(a) /\ booked THEN owed[a] ELSE 0)]

\* The transaction: every balance read is reset by the amount read, and the
\* payment is recorded unless there is no transaction id or the address is that
\* of a reward recipient.
Book ==
  /\ balance' = [a \in Addresses |-> balance[a] - (IF a \in batch THEN owed[a] ELSE 0)]
  /\ payments' = [a \in Addresses |->
       payments[a] + (IF a \in batch /\ txid /\ a \notin Recipients THEN owed[a] ELSE 0)]
  /\ again' = [a \in Addresses |->
       again[a] + (IF a \in batch /\ booked THEN owed[a] ELSE 0)]

PersistPayments ==
  /\ pc = "persist"
  /\ Book
  /\ EndCycle
  /\ UNCHANGED <<chainVars, blockVars, walletVars, sentVars, stray, faults>>

\* Mutant of PersistRetry: the retries are not counted against RetryCount.
PersistRetryForever ==
  /\ pc = "persist"
  /\ Fault
  /\ attempt' = attempt + 1
  /\ UNCHANGED <<chainVars, blockVars, balance, pc, cycleVars, txVars, batch, owed,
                 didUnlock, txid, booked, walletVars, sentVars, bookVars>>

\* The transaction fails and is rolled back; the fault policy runs it again.
PersistRetry ==
  /\ pc = "persist"
  /\ Fault
  /\ attempt < RetryCount
  /\ attempt' = attempt + 1
  /\ UNCHANGED <<chainVars, blockVars, balance, pc, cycleVars, txVars, batch, owed,
                 didUnlock, txid, booked, walletVars, sentVars, bookVars>>

\* The commit takes effect but the connection breaks before it is acknowledged:
\* the policy sees a DbException and runs the transaction again, or gives up when
\* the retries are used up.
PersistUnacknowledged ==
  /\ pc = "persist"
  /\ Fault
  /\ Book
  /\ IF attempt < RetryCount
     THEN /\ attempt' = attempt + 1
          /\ booked' = TRUE
          /\ UNCHANGED <<pc, cycleVars, txVars, batch, owed, didUnlock, txid>>
     ELSE EndCycle
  /\ UNCHANGED <<chainVars, blockVars, walletVars, sentVars, stray>>

-----------------------------------------------------------------------------
\* What the payment thread does when nothing goes wrong.
Step ==
  \/ BeginCycle
  \/ \E b \in Blocks : ClassifyBlock(b) \/ ClassifyThrows(b) \/ BeginBlock(b)
  \/ \E p \in Recipients : CreditRecipient(p)
  \/ CreditMiners
  \/ CommitBlock
  \/ ReadBalances
  \/ NothingToPay
  \/ SendMany
  \/ SendManyLocked
  \/ WalletPassphrase
  \/ WalletLock
  \/ PersistPayments

Failure ==
  \/ Crash
  \/ \E b \in Blocks : SkipBlock(b)
  \/ CommitUnacknowledged
  \/ SendManyLost
  \/ PersistRetry
  \/ PersistUnacknowledged

Environment ==
  \/ \E b \in Blocks : InsertBlock(b) \/ ChainStep(b)
  \/ WalletTimeout

Next == Step \/ Failure \/ Environment

Spec == Init /\ [][Next]_vars

\* The thread keeps running: the loop of Start never ends.
FairSpec == Spec /\ WF_vars(Step)

-----------------------------------------------------------------------------
(***************************************************************************)
(* Properties                                                              *)
(***************************************************************************)

\* A block is credited in exactly one committed transaction, the one that makes
\* its status Confirmed: whatever cycle fails between reading the pending blocks
\* and the commit, no block is credited twice and none is confirmed uncredited.
CreditedOnce ==
  \A b \in Blocks : credits[b] = (IF status[b] = "confirmed" THEN 1 ELSE 0)

\* What the wallet has sent for the current batch and the database does not know.
InFlight(a) ==
  IF pc \in {"lock", "persist"} /\ ~booked /\ a \in batch THEN owed[a] ELSE 0

\* The books balance for every address: what is owed and what was paid is what was
\* earned, up to transfers that were executed and never booked (stray) and
\* bookings repeated after an unacknowledged commit (again).
BooksBalance ==
  \A a \in Addresses :
    balance[a] + paid[a] + again[a] = gross[a] + stray[a] + InFlight(a)

\* Only a booking repeated after an unacknowledged commit overdraws a balance.
NeverOverdrawn == \A a \in Addresses : balance[a] + again[a] >= 0

\* What the thread holds in memory stays true of the database while it works: the
\* blocks it classified are still pending and only one of them is in a transaction,
\* the transaction only adds to balances, and the amounts read for a payout are
\* still there when they are booked.
MemoryIsCurrent ==
  /\ (pc \in {"recipients", "commit"}) = (cur \in Blocks)
  /\ cur \in Blocks => toClassify = {} /\ cur \notin updated
  /\ \A b \in toClassify \cup updated \cup ({cur} \cap Blocks) : status[b] = "pending"
  /\ cur \in Blocks => \A a \in Addresses : txBalance[a] >= balance[a]
  /\ booked => pc = "persist"
  /\ pc \in {"send", "unlock", "lock", "persist"} /\ ~booked =>
       \A a \in batch : owed[a] = balance[a]
  /\ \A a \in Addresses : owed[a] >= 0 /\ again[a] >= 0

\* No address is ever paid more than it earned and what went astray: as long as
\* every transfer is booked, crashes, retries and unlocking pay nothing twice.
NoOverpayment == \A a \in Addresses : paid[a] <= gross[a] + stray[a]

\* SendMany is called with amounts rounded to 8 digits and the balance is reset by
\* the exact amount: the two drift apart by at most half a unit per transfer.  What
\* arrives is less by the wallet's fee when MinersPayTxFees is set.
RoundingDrift ==
  \A a \in Addresses : /\ 2 * (sent[a] - paid[a]) <= Unit * sends
                       /\ 2 * (paid[a] - sent[a]) <= Unit * sends

\* Recipients and miners together never get more than the confirmed blocks earned.
NoMoneyFromNothing ==
  SumFunction(gross) <=
    SumFunction([b \in Blocks |-> IF status[b] = "confirmed" THEN BlockReward[b] ELSE 0])

\* Confirmed and orphaned are final, even when the chain changes its mind while a
\* classification made earlier is still waiting for its transaction.
FinalStatus ==
  [][\A b \in Blocks : status[b] \in {"confirmed", "orphaned"} => status'[b] = status[b]]_vars

\* A pending block whose transaction has no block hash ends every cycle.
Stalled == \E b \in Blocks : status[b] = "pending" /\ chain[b] = "detached"

\* A block whose coinbase matured is settled, whatever fails a bounded number of
\* times on the way, unless another block stalls the cycle in ClassifyBlocksAsync.
EventuallySettled ==
  \A b \in Blocks :
    (status[b] = "pending" /\ chain[b] = "generate") ~> (status[b] # "pending" \/ Stalled)

\* A balance over the minimum is eventually paid out and reset, unless a block stalls
\* the cycle before its payout.
EventuallyPaid ==
  \A a \in Addresses :
    (balance[a] >= MinimumPayment) ~> (balance[a] < MinimumPayment \/ Stalled)

\* The ledger of the database and the wallet together.  A transfer that left the wallet
\* counts as booked while its booking is still to come, and as the latest one until the
\* cycle ends.
Settled(b) == IF status[b] \in {"none", "pending"} THEN "open" ELSE status[b]

Owing(a) == balance[a] - InFlight(a)

Latest(a) == IF pc \in {"lock", "persist"} /\ a \in batch THEN owed[a] ELSE 0

L == INSTANCE Ledger WITH
  Accounts <- Addresses,
  Minimum <- MinimumPayment,
  settled <- [b \in Blocks |-> Settled(b)],
  earned <- gross,
  book <- [a \in Addresses |-> Owing(a)],
  last <- [a \in Addresses |-> Latest(a)]

\* The cycle of many steps, each of which may fail, implements the ledger: blocks are
\* settled once and together with their credits, a payout pays all balances over the
\* minimum as one step with the books, and nothing deviates from this except coins sent
\* in a call whose answer was lost, a payout abandoned between the transfer and its
\* booking, and a booking repeated after an unacknowledged commit.
ImplementsLedger == L!Spec
=============================================================================
