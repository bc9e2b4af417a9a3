--------------------------- MODULE PaymentsProofs ---------------------------
(***************************************************************************)
(* Proofs about Payments, for any number of blocks, miners, recipients and *)
(* faults: the safety invariants, the refinement of Ledger under the       *)
(* mapping L, and that the credits stay within what the blocks have earned.*)
(***************************************************************************)
EXTENDS Payments, SumTheorems, TLAPS

USE DEF Fault, NoFault, chainVars, blockVars, cycleVars, txVars, payVars, walletVars,
        sentVars, bookVars, vars

\* The amount of a reward recipient is a natural number.
LEMMA RecipientAmount ==
  ASSUME NEW x \in Nat, NEW y \in Nat
  PROVE  (x * y) \div 100 \in Nat
<1>1. x * y \in Nat
  OBVIOUS
<1> DEFINE z == x * y
<1>2. ASSUME NEW n \in Nat PROVE n \div 100 \in Nat
  OBVIOUS
<1>3. z \div 100 \in Nat
  BY <1>1, <1>2
<1> QED BY <1>3

\* Rounding to the wallet's unit moves an amount by at most half a unit
\* (Math.Round in PayoutAsync).
LEMMA RoundError ==
  ASSUME NEW x \in Int
  PROVE  /\ Round8(x) \in Int
         /\ 2 * (Round8(x) - x) <= Unit
         /\ 2 * (x - Round8(x)) <= Unit
<1>1. Unit \in Nat /\ Unit > 0
  BY AmountsAssumption
<1>2. x % Unit \in Nat /\ x % Unit < Unit
  BY <1>1
<1>3. x \div Unit \in Int
  BY <1>1
<1> DEFINE r == x % Unit
           q == x \div Unit
           even == q % 2 = 0
<1>4. Round8(x) = IF 2 * r < Unit \/ (2 * r = Unit /\ even) THEN x - r ELSE x - r + Unit
  BY DEF Round8
<1> HIDE DEF r, q, even
<1>5. r \in Nat /\ r < Unit
  BY <1>2 DEF r
<1>6. CASE 2 * r < Unit
  BY <1>1, <1>4, <1>5, <1>6
<1>7. CASE 2 * r = Unit
  <2>1. CASE even
    BY <1>1, <1>4, <1>5, <1>7, <2>1
  <2>2. CASE ~even
    BY <1>1, <1>4, <1>5, <1>7, <2>2
  <2> QED BY <2>1, <2>2
<1>8. CASE 2 * r > Unit
  BY <1>1, <1>4, <1>5, <1>8
<1> QED BY <1>1, <1>5, <1>6, <1>7, <1>8
-----------------------------------------------------------------------------
LEMMA ZeroType == Zero \in [Addresses -> Int]
BY DEF Zero

LEMMA NoMemType ==
  NoMem \in [Blocks -> [status : {"pending", "confirmed", "orphaned"},
                        reward : Nat, effort : BOOLEAN]]
BY DEF NoMem

LEMMA EndCycleType ==
  ASSUME EndCycle
  PROVE  /\ pc' \in PCs
         /\ toClassify' \subseteq Blocks /\ updated' \subseteq Blocks
         /\ mem' \in [Blocks -> [status : {"pending", "confirmed", "orphaned"},
                                 reward : Nat, effort : BOOLEAN]]
         /\ cur' \in Blocks \cup {0}
         /\ txBalance' \in [Addresses -> Int] /\ txRemaining' \in Int
         /\ txTodo' \subseteq Recipients
         /\ batch' \subseteq Addresses /\ owed' \in [Addresses -> Int]
         /\ didUnlock' \in BOOLEAN /\ txid' \in BOOLEAN
         /\ attempt' \in 0..RetryCount /\ booked' \in BOOLEAN
<1>1. didUnlock' \in BOOLEAN /\ txid' \in BOOLEAN /\ booked' \in BOOLEAN
  BY Zenon DEF EndCycle
<1>2. attempt' \in 0..RetryCount
  BY FaultsAssumption DEF EndCycle
<1>3. mem' = NoMem /\ txBalance' = Zero /\ owed' = Zero
  BY DEF EndCycle
<1>4. pc' \in PCs /\ cur' \in Blocks \cup {0} /\ txRemaining' \in Int
  BY DEF EndCycle, PCs
<1>5. /\ toClassify' = {} /\ updated' = {} /\ txTodo' = {} /\ batch' = {}
  BY DEF EndCycle
<1> QED BY <1>1, <1>2, <1>3, <1>4, <1>5, ZeroType, NoMemType

LEMMA UpdateBlockType ==
  ASSUME TypeOK, cur \in Blocks, UpdateBlock(cur)
  PROVE  /\ status' \in [Blocks -> Statuses]
         /\ reward' \in [Blocks -> Nat]
         /\ effort' \in [Blocks -> BOOLEAN]
         /\ balance' \in [Addresses -> Int]
         /\ gross' \in [Addresses -> Int]
         /\ credits' \in [Blocks -> Nat]
<1> USE DEF TypeOK, UpdateBlock
<1>1. mem[cur] \in [status : {"pending", "confirmed", "orphaned"},
                    reward : Nat, effort : BOOLEAN]
  OBVIOUS
<1>2. status' \in [Blocks -> Statuses]
  BY <1>1 DEF Statuses
<1>3. reward' \in [Blocks -> Nat]
  BY <1>1
<1>4. effort' \in [Blocks -> BOOLEAN]
  BY <1>1
<1>5. balance' \in [Addresses -> Int] /\ gross' \in [Addresses -> Int]
  OBVIOUS
<1>6. credits' \in [Blocks -> Nat]
  OBVIOUS
<1> QED BY <1>2, <1>3, <1>4, <1>5, <1>6

LEMMA TransferType ==
  ASSUME TypeOK, Transfer
  PROVE  sent' \in [Addresses -> Int] /\ paid' \in [Addresses -> Int] /\ sends' \in Nat
<1>1. \A a \in Addresses : Round8(owed[a]) \in Int
  BY RoundError DEF TypeOK
<1> QED BY <1>1 DEF TypeOK, Transfer

LEMMA BookType ==
  ASSUME TypeOK, Book
  PROVE  /\ balance' \in [Addresses -> Int] /\ payments' \in [Addresses -> Int]
         /\ again' \in [Addresses -> Int]
BY DEF TypeOK, Book

LEMMA AbandonType ==
  ASSUME TypeOK, Abandon
  PROVE  stray' \in [Addresses -> Int]
BY DEF TypeOK, Abandon

-----------------------------------------------------------------------------
LEMMA TypeInit == Init => TypeOK
<1> SUFFICES ASSUME Init PROVE TypeOK
  OBVIOUS
<1>1. /\ didUnlock \in BOOLEAN /\ txid \in BOOLEAN /\ booked \in BOOLEAN
      /\ locked \in BOOLEAN /\ effort \in [Blocks -> BOOLEAN]
  BY FaultsAssumption DEF Init
<1>2. attempt \in 0..RetryCount /\ faults \in 0..MaxFaults
  BY FaultsAssumption DEF Init
<1>3. pc \in PCs /\ cur \in Blocks \cup {0} /\ txRemaining \in Int /\ sends \in Nat
  BY DEF Init, PCs
<1>4. /\ chain \in [Blocks -> ChainStates] /\ status \in [Blocks -> Statuses]
      /\ reward \in [Blocks -> Nat] /\ credits \in [Blocks -> Nat]
  BY BlocksAssumption DEF Init, ChainStates, Statuses
<1>5. /\ balance = Zero /\ payments = Zero /\ txBalance = Zero /\ owed = Zero
      /\ sent = Zero /\ gross = Zero /\ paid = Zero /\ stray = Zero /\ again = Zero
      /\ mem = NoMem
  BY DEF Init
<1>6. toClassify = {} /\ updated = {} /\ txTodo = {} /\ batch = {}
  BY DEF Init
<1> QED BY <1>1, <1>2, <1>3, <1>4, <1>5, <1>6, ZeroType, NoMemType DEF TypeOK

\* Every step of the payment cycle, every failure and every step of its
\* environment keeps the types, given that a transaction has a block.
LEMMA TypeStep ==
  ASSUME TypeOK, (pc \in {"recipients", "commit"}) = (cur \in Blocks), [Next]_vars
  PROVE  TypeOK'
<1> USE FaultsAssumption
<1>1. ASSUME NEW b \in Blocks, InsertBlock(b) PROVE TypeOK'
  BY <1>1 DEF TypeOK, InsertBlock, Statuses
<1>2. ASSUME NEW b \in Blocks, ChainStep(b) PROVE TypeOK'
  BY <1>2 DEF TypeOK, ChainStep, ChainStates
<1>3. CASE WalletTimeout
  BY <1>3 DEF TypeOK, WalletTimeout
<1>4. CASE Crash
  BY <1>4, EndCycleType, AbandonType DEF TypeOK, Crash
<1>5. CASE BeginCycle
  BY <1>5, NoMemType DEF TypeOK, BeginCycle, PCs
<1>6. ASSUME NEW b \in Blocks, ClassifyBlock(b) PROVE TypeOK'
  <2> DEFINE Mem == [status : {"pending", "confirmed", "orphaned"},
                     reward : Nat, effort : BOOLEAN]
  <2>1. mem[b] \in Mem /\ BlockReward[b] \in Nat
    BY BlocksAssumption DEF TypeOK
  <2>2. /\ [mem[b] EXCEPT !.reward = BlockReward[b]] \in Mem
        /\ [mem[b] EXCEPT !.reward = BlockReward[b], !.status = "confirmed"] \in Mem
        /\ [mem[b] EXCEPT !.status = "orphaned"] \in Mem
        /\ [mem[b] EXCEPT !.status = "orphaned", !.reward = 0] \in Mem
    BY <2>1
  <2>3. chain[b] \in ChainStates
    BY DEF TypeOK
  <2> HIDE DEF Mem
  <2>4. \A m \in Classified(b) : m \in Mem
    BY <2>2, <2>3 DEF Classified, ChainStates
  <2>5. PICK m \in Classified(b) : mem' = [mem EXCEPT ![b] = m]
    BY <1>6 DEF ClassifyBlock
  <2>6. mem' \in [Blocks -> Mem]
    BY <2>4, <2>5 DEF TypeOK, Mem
  <2> QED BY <1>6, <2>6 DEF TypeOK, ClassifyBlock, Mem
<1>7. ASSUME NEW b \in Blocks, SkipBlock(b) PROVE TypeOK'
  BY <1>7 DEF TypeOK, SkipBlock
<1>8. ASSUME NEW b \in Blocks, BeginBlock(b) PROVE TypeOK'
  BY <1>8 DEF TypeOK, BeginBlock, PCs
<1>9. ASSUME NEW p \in Recipients, CreditRecipient(p) PROVE TypeOK'
  <2> DEFINE amount == (mem[cur].reward * Percentage[p]) \div 100
  <2>1. cur \in Blocks
    BY <1>9 DEF CreditRecipient
  <2>2. amount \in Nat
    BY <2>1, RecipientAmount, RecipientsAssumption DEF TypeOK
  <2> HIDE DEF amount
  <2>3. txRemaining' = txRemaining - amount
    BY <1>9 DEF CreditRecipient, amount
  <2>4. txBalance' = IF p # PoolAddress
                     THEN [txBalance EXCEPT ![p] = txBalance[p] + amount]
                     ELSE txBalance
    BY <1>9 DEF CreditRecipient, amount
  <2>5. txBalance' \in [Addresses -> Int]
    BY <2>2, <2>4 DEF TypeOK, Addresses
  <2> QED BY <1>9, <2>2, <2>3, <2>5 DEF TypeOK, CreditRecipient
<1>10. CASE CreditMiners
  <2>1. txBalance' \in [Addresses -> Int]
    BY <1>10 DEF TypeOK, CreditMiners, SchemeRewards
  <2> QED BY <1>10, <2>1 DEF TypeOK, CreditMiners, PCs
<1>11. CASE CommitBlock
  <2>1. cur \in Blocks
    BY <1>11 DEF CommitBlock
  <2>2. mem' \in [Blocks -> [status : {"pending", "confirmed", "orphaned"},
                             reward : Nat, effort : BOOLEAN]]
    BY <1>11, <2>1, NoMemType DEF TypeOK, CommitBlock
  <2> QED BY <1>11, <2>1, <2>2, UpdateBlockType, ZeroType DEF TypeOK, CommitBlock, PCs
<1>12. CASE CommitUnacknowledged
  BY <1>12, UpdateBlockType, EndCycleType DEF TypeOK, CommitUnacknowledged
<1>13. CASE ReadBalances
  BY <1>13 DEF TypeOK, ReadBalances, OverThreshold, PCs
<1>14. CASE NothingToPay
  BY <1>14, EndCycleType DEF TypeOK, NothingToPay
<1>15. CASE SendMany
  BY <1>15, TransferType DEF TypeOK, SendMany, PCs
<1>16. CASE SendManyLost
  BY <1>16, TransferType, EndCycleType DEF TypeOK, SendManyLost
<1>17. CASE SendManyLocked
  BY <1>17, EndCycleType DEF TypeOK, SendManyLocked, PCs
<1>18. CASE WalletPassphrase
  BY <1>18 DEF TypeOK, WalletPassphrase, PCs
<1>19. CASE WalletLock
  BY <1>19 DEF TypeOK, WalletLock, PCs
<1>20. CASE PersistPayments
  BY <1>20, BookType, EndCycleType DEF TypeOK, PersistPayments
<1>21. CASE PersistRetry
  BY <1>21 DEF TypeOK, PersistRetry
<1>22. CASE PersistUnacknowledged
  <2>1. CASE attempt < RetryCount
    <3>1. /\ attempt' = attempt + 1
          /\ booked' = TRUE
          /\ UNCHANGED <<pc, cycleVars, txVars, batch, owed, didUnlock, txid>>
      BY <1>22, <2>1 DEF PersistUnacknowledged
    <3>2. booked' \in BOOLEAN
      BY <3>1, Zenon
    <3> QED BY <1>22, <2>1, <3>1, <3>2, BookType DEF TypeOK, PersistUnacknowledged
  <2>2. CASE ~(attempt < RetryCount)
    <3>1. EndCycle
      BY <1>22, <2>2 DEF PersistUnacknowledged
    <3> QED BY <1>22, <3>1, BookType, EndCycleType DEF TypeOK, PersistUnacknowledged
  <2> QED BY <2>1, <2>2
<1>23. CASE UNCHANGED vars
  BY <1>23 DEF TypeOK
<1>24. ASSUME NEW b \in Blocks, ClassifyThrows(b) PROVE TypeOK'
  BY <1>24, EndCycleType DEF TypeOK, ClassifyThrows
<1> QED
  BY <1>1, <1>2, <1>3, <1>4, <1>5, <1>6, <1>7, <1>8, <1>9, <1>10, <1>11, <1>12, <1>13,
     <1>14, <1>15, <1>16, <1>17, <1>18, <1>19, <1>20, <1>21, <1>22, <1>23, <1>24
     DEF Next, Step, Failure, Environment

-----------------------------------------------------------------------------
(***************************************************************************)
(* The inductive invariant.  BooksBalance and NeverOverdrawn are not       *)
(* inductive alone: that a booking takes from a balance no more than is    *)
(* there, and a commit adds to it, is what MemoryIsCurrent says.           *)
(***************************************************************************)
IInv ==
  /\ TypeOK
  /\ MemoryIsCurrent
  /\ CreditedOnce
  /\ BooksBalance
  /\ NeverOverdrawn

LEMMA IInvInit == Init => IInv
<1> SUFFICES ASSUME Init PROVE IInv
  OBVIOUS
<1>1. TypeOK
  BY TypeInit
<1>2. MemoryIsCurrent
  BY DEF Init, MemoryIsCurrent, Zero, Blocks
<1>3. CreditedOnce
  BY DEF Init, CreditedOnce
<1>4. BooksBalance
  BY DEF Init, BooksBalance, InFlight, Zero
<1>5. NeverOverdrawn
  BY DEF Init, NeverOverdrawn, Zero
<1> QED BY <1>1, <1>2, <1>3, <1>4, <1>5 DEF IInv

\* Memory is fresh again after EndCycle, whatever it held.
LEMMA EndCycleMemory ==
  ASSUME EndCycle, \A a \in Addresses : again'[a] >= 0
  PROVE  MemoryIsCurrent' /\ \A a \in Addresses : InFlight(a)' = 0
BY DEF EndCycle, MemoryIsCurrent, Blocks, Zero, InFlight

\* The commit of a block's transaction keeps the books.
LEMMA UpdateBlockKeeps ==
  ASSUME IInv, pc = "commit", UpdateBlock(cur), UNCHANGED <<paid, again, stray>>,
         \A a \in Addresses : InFlight(a)' = 0
  PROVE  CreditedOnce' /\ BooksBalance' /\ NeverOverdrawn'
<1>1. cur \in Blocks /\ status[cur] = "pending"
  BY DEF IInv, MemoryIsCurrent
<1>2. CreditedOnce'
  BY <1>1 DEF IInv, TypeOK, CreditedOnce, UpdateBlock
<1>3. \A a \in Addresses : InFlight(a) = 0
  BY DEF InFlight
<1>4. BooksBalance'
  <2> SUFFICES ASSUME NEW a \in Addresses
               PROVE  balance'[a] + paid'[a] + again'[a] = gross'[a] + stray'[a] + InFlight(a)'
    BY DEF BooksBalance
  <2>1. balance[a] + paid[a] + again[a] = gross[a] + stray[a]
    BY <1>3 DEF IInv, TypeOK, BooksBalance
  <2>2. balance'[a] = txBalance[a] /\ gross'[a] = gross[a] + txBalance[a] - balance[a]
    BY DEF UpdateBlock
  <2>3. /\ balance[a] \in Int /\ txBalance[a] \in Int /\ paid[a] \in Int
        /\ again[a] \in Int /\ gross[a] \in Int /\ stray[a] \in Int
    BY DEF IInv, TypeOK
  <2>4. InFlight(a)' = 0
    OBVIOUS
  <2>5. paid'[a] = paid[a] /\ again'[a] = again[a] /\ stray'[a] = stray[a]
    OBVIOUS
  <2>6. txBalance[a] + paid[a] + again[a]
          = (gross[a] + (txBalance[a] - balance[a])) + stray[a]
    <3> DEFINE b == balance[a]  p == paid[a]  r == again[a]
               g == gross[a]  s == stray[a]  t == txBalance[a]
    <3>1. b \in Int /\ p \in Int /\ r \in Int /\ g \in Int /\ s \in Int /\ t \in Int
      BY <2>3
    <3>2. b + p + r = g + s
      BY <2>1
    <3> HIDE DEF b, p, r, g, s, t
    <3>3. t + p + r = (g + (t - b)) + s
      BY <3>1, <3>2
    <3> QED BY <3>3 DEF b, p, r, g, s, t
  <2> QED BY <2>2, <2>3, <2>4, <2>5, <2>6
<1>5. NeverOverdrawn'
  BY <1>1 DEF IInv, TypeOK, MemoryIsCurrent, NeverOverdrawn, UpdateBlock
<1> QED BY <1>2, <1>4, <1>5

\* One execution of the transaction of PersistPayments keeps the books.
LEMMA BookKeeps ==
  ASSUME IInv, pc = "persist", Book, UNCHANGED <<blockVars, paid, stray>>,
         \A a \in Addresses : InFlight(a)' = 0
  PROVE  /\ CreditedOnce' /\ BooksBalance' /\ NeverOverdrawn'
         /\ \A a \in Addresses : again'[a] >= 0
<1>1. CreditedOnce'
  BY DEF IInv, CreditedOnce
<1>2. ASSUME NEW a \in Addresses
      PROVE  /\ balance'[a] + paid'[a] + again'[a] = gross'[a] + stray'[a]
             /\ balance'[a] + again'[a] >= 0
             /\ again'[a] >= 0
  <2>1. /\ balance[a] \in Int /\ owed[a] \in Int /\ paid[a] \in Int
        /\ again[a] \in Int /\ gross[a] \in Int /\ stray[a] \in Int
        /\ owed[a] >= 0 /\ again[a] >= 0
    BY DEF IInv, TypeOK, MemoryIsCurrent
  <2>2. /\ balance'[a] = balance[a] - (IF a \in batch THEN owed[a] ELSE 0)
        /\ again'[a] = again[a] + (IF a \in batch /\ booked THEN owed[a] ELSE 0)
    BY DEF Book
  <2>3. /\ balance[a] + paid[a] + again[a] = gross[a] + stray[a] + InFlight(a)
        /\ balance[a] + again[a] >= 0
    BY DEF IInv, BooksBalance, NeverOverdrawn
  <2>4. a \in batch /\ ~booked => owed[a] = balance[a]
    BY DEF IInv, MemoryIsCurrent
  <2>5. InFlight(a) = IF ~booked /\ a \in batch THEN owed[a] ELSE 0
    BY DEF InFlight
  <2>6. CASE a \notin batch
    BY <2>1, <2>2, <2>3, <2>5, <2>6
  <2>7. CASE a \in batch /\ booked
    BY <2>1, <2>2, <2>3, <2>5, <2>7
  <2>8. CASE a \in batch /\ ~booked
    BY <2>1, <2>2, <2>3, <2>4, <2>5, <2>8
  <2> QED BY <2>6, <2>7, <2>8
<1>3. BooksBalance' /\ NeverOverdrawn'
  <2>1. \A a \in Addresses : gross'[a] + stray'[a] + InFlight(a)' = gross'[a] + stray'[a]
    BY DEF IInv, TypeOK
  <2> QED BY <1>2, <2>1 DEF BooksBalance, NeverOverdrawn
<1> QED BY <1>1, <1>2, <1>3

\* A step that leaves the books alone keeps them when it leaves the batch in
\* flight alone too.
LEMMA SameBooks ==
  ASSUME IInv,
         UNCHANGED <<status, credits, balance, gross, paid, again, stray>>,
         \A a \in Addresses : InFlight(a)' = InFlight(a)
  PROVE  CreditedOnce' /\ BooksBalance' /\ NeverOverdrawn'
BY DEF IInv, CreditedOnce, BooksBalance, NeverOverdrawn

LEMMA IInvStep == IInv /\ [Next]_vars => IInv'
<1> SUFFICES ASSUME IInv, [Next]_vars PROVE IInv'
  OBVIOUS
<1>0. TypeOK'
  BY TypeStep DEF IInv, MemoryIsCurrent
<1> DEFINE Rest == MemoryIsCurrent /\ CreditedOnce /\ BooksBalance /\ NeverOverdrawn
<1> SUFFICES Rest'
  BY <1>0 DEF IInv
<1>1. ASSUME NEW b \in Blocks, InsertBlock(b) PROVE Rest'
  <2>1. CreditedOnce'
    BY <1>1 DEF IInv, TypeOK, CreditedOnce, InsertBlock
  <2>2. MemoryIsCurrent'
    BY <1>1 DEF IInv, TypeOK, MemoryIsCurrent, InsertBlock
  <2> QED BY <1>1, <2>1, <2>2 DEF IInv, InsertBlock, BooksBalance, NeverOverdrawn, InFlight
<1>2. ASSUME NEW b \in Blocks, ChainStep(b) PROVE Rest'
  BY <1>2, SameBooks DEF IInv, ChainStep, MemoryIsCurrent, InFlight
<1>3. CASE WalletTimeout
  BY <1>3, SameBooks DEF IInv, WalletTimeout, MemoryIsCurrent, InFlight
<1>4. CASE Crash
  <2>1. \A a \in Addresses : again'[a] >= 0
    BY <1>4 DEF IInv, MemoryIsCurrent, Crash
  <2>2. MemoryIsCurrent' /\ \A a \in Addresses : InFlight(a)' = 0
    BY <1>4, <2>1, EndCycleMemory DEF Crash
  <2>3. CreditedOnce' /\ NeverOverdrawn'
    BY <1>4 DEF IInv, Crash, CreditedOnce, NeverOverdrawn
  <2>4. \A a \in Addresses : stray'[a] = stray[a] + InFlight(a)
    BY <1>4 DEF IInv, TypeOK, Crash, Abandon, InFlight
  <2>5. BooksBalance'
    <3> SUFFICES ASSUME NEW a \in Addresses
                 PROVE balance'[a] + paid'[a] + again'[a] = gross'[a] + stray'[a] + InFlight(a)'
      BY DEF BooksBalance
    <3>1. balance[a] + paid[a] + again[a] = gross[a] + stray[a] + InFlight(a)
      BY DEF IInv, BooksBalance
    <3>2. gross[a] \in Int /\ stray[a] \in Int /\ InFlight(a) \in Int
      BY DEF IInv, TypeOK, InFlight
    <3>3. InFlight(a)' = 0 /\ stray'[a] = stray[a] + InFlight(a)
      BY <2>2, <2>4
    <3>4. UNCHANGED <<balance, paid, again, gross>>
      BY <1>4 DEF Crash
    <3> QED BY <3>1, <3>2, <3>3, <3>4
  <2> QED BY <2>2, <2>3, <2>5
<1>5. CASE BeginCycle
  <2>1. MemoryIsCurrent'
    BY <1>5 DEF IInv, TypeOK, BeginCycle, MemoryIsCurrent
  <2> QED BY <1>5, <2>1, SameBooks DEF IInv, BeginCycle, InFlight
<1>6. ASSUME NEW b \in Blocks, ClassifyBlock(b) PROVE Rest'
  <2>1. MemoryIsCurrent'
    BY <1>6 DEF IInv, TypeOK, ClassifyBlock, MemoryIsCurrent
  <2> QED BY <1>6, <2>1, SameBooks DEF IInv, ClassifyBlock, InFlight
<1>7. ASSUME NEW b \in Blocks, SkipBlock(b) PROVE Rest'
  <2>1. MemoryIsCurrent'
    BY <1>7 DEF IInv, TypeOK, SkipBlock, MemoryIsCurrent
  <2> QED BY <1>7, <2>1, SameBooks DEF IInv, SkipBlock, InFlight
<1>8. ASSUME NEW b \in Blocks, BeginBlock(b) PROVE Rest'
  <2>1. MemoryIsCurrent'
    BY <1>8 DEF IInv, TypeOK, BeginBlock, MemoryIsCurrent
  <2>2. \A a \in Addresses : InFlight(a)' = InFlight(a)
    BY <1>8 DEF BeginBlock, InFlight
  <2> QED BY <1>8, <2>1, <2>2, SameBooks DEF BeginBlock
<1>9. ASSUME NEW p \in Recipients, CreditRecipient(p) PROVE Rest'
  <2> DEFINE amount == (mem[cur].reward * Percentage[p]) \div 100
  <2>1. amount \in Nat
    BY <1>9, RecipientAmount, RecipientsAssumption
       DEF IInv, TypeOK, MemoryIsCurrent, CreditRecipient
  <2> HIDE DEF amount
  <2>2. txBalance' = IF p # PoolAddress
                     THEN [txBalance EXCEPT ![p] = txBalance[p] + amount]
                     ELSE txBalance
    BY <1>9 DEF CreditRecipient, amount
  <2>3. \A a \in Addresses : txBalance'[a] >= txBalance[a]
    BY <2>1, <2>2 DEF IInv, TypeOK
  <2>4. UNCHANGED <<balance, pc, cur, toClassify, updated, status, booked, batch, owed, again>>
    BY <1>9 DEF CreditRecipient
  <2>5. MemoryIsCurrent'
    BY <1>0, <2>3, <2>4 DEF IInv, TypeOK, MemoryIsCurrent
  <2> QED BY <1>9, <2>5, SameBooks DEF CreditRecipient, InFlight
<1>10. CASE CreditMiners
  <2>1. \A a \in Addresses : txBalance'[a] >= txBalance[a]
    BY <1>10 DEF IInv, TypeOK, CreditMiners, SchemeRewards
  <2>2. UNCHANGED <<balance, cur, toClassify, updated, status, booked, batch, owed, again>>
    BY <1>10 DEF CreditMiners
  <2>3. MemoryIsCurrent'
    BY <1>0, <1>10, <2>1, <2>2 DEF IInv, TypeOK, MemoryIsCurrent, CreditMiners
  <2> QED BY <1>10, <2>3, SameBooks DEF CreditMiners, InFlight
<1>11. CASE CommitBlock
  <2>1. cur \in Blocks
    BY <1>11 DEF IInv, MemoryIsCurrent, CommitBlock
  <2>2. ~booked
    BY <1>11 DEF IInv, MemoryIsCurrent, CommitBlock
  <2>3. \A a \in Addresses : InFlight(a)' = 0
    BY <1>11 DEF CommitBlock, InFlight
  <2>4. MemoryIsCurrent'
    BY <1>11, <2>1, <2>2 DEF IInv, TypeOK, MemoryIsCurrent, CommitBlock, UpdateBlock, Blocks
  <2> QED BY <1>11, <2>3, <2>4, UpdateBlockKeeps DEF CommitBlock
<1>12. CASE CommitUnacknowledged
  <2>1. \A a \in Addresses : again'[a] >= 0
    BY <1>12 DEF IInv, MemoryIsCurrent, CommitUnacknowledged
  <2>2. MemoryIsCurrent' /\ \A a \in Addresses : InFlight(a)' = 0
    BY <1>12, <2>1, EndCycleMemory DEF CommitUnacknowledged
  <2> QED BY <1>12, <2>2, UpdateBlockKeeps DEF CommitUnacknowledged
<1>13. CASE ReadBalances
  <2>1. \A a \in Addresses : owed'[a] >= 0
    BY <1>13, AmountsAssumption DEF IInv, TypeOK, ReadBalances, OverThreshold
  <2>2. \A a \in batch' : owed'[a] = balance[a]
    BY <1>13 DEF ReadBalances, OverThreshold
  <2>3. MemoryIsCurrent'
    BY <1>13, <2>1, <2>2 DEF IInv, MemoryIsCurrent, ReadBalances
  <2> QED BY <1>13, <2>3, SameBooks DEF ReadBalances, InFlight
<1>14. CASE NothingToPay
  <2>1. \A a \in Addresses : again'[a] >= 0
    BY <1>14 DEF IInv, MemoryIsCurrent, NothingToPay
  <2>2. MemoryIsCurrent' /\ \A a \in Addresses : InFlight(a)' = 0
    BY <1>14, <2>1, EndCycleMemory DEF NothingToPay
  <2>3. \A a \in Addresses : InFlight(a) = 0
    BY <1>14 DEF NothingToPay, InFlight
  <2> QED BY <1>14, <2>2, <2>3, SameBooks DEF NothingToPay
<1>15. CASE SendMany
  <2>1. ~booked
    BY <1>15 DEF IInv, MemoryIsCurrent, SendMany
  <2>2. MemoryIsCurrent'
    BY <1>15 DEF IInv, TypeOK, MemoryIsCurrent, SendMany
  <2>3. CreditedOnce' /\ NeverOverdrawn'
    BY <1>15 DEF IInv, SendMany, CreditedOnce, NeverOverdrawn
  <2>4. BooksBalance'
    <3> SUFFICES ASSUME NEW a \in Addresses
                 PROVE balance'[a] + paid'[a] + again'[a] = gross'[a] + stray'[a] + InFlight(a)'
      BY DEF BooksBalance
    <3>1. balance[a] + paid[a] + again[a] = gross[a] + stray[a] + 0
      BY <1>15 DEF IInv, BooksBalance, SendMany, InFlight
    <3>2. paid'[a] = paid[a] + (IF a \in batch THEN owed[a] ELSE 0)
      BY <1>15 DEF SendMany, Transfer
    <3>3. InFlight(a)' = IF a \in batch THEN owed[a] ELSE 0
      BY <1>15, <2>1 DEF SendMany, InFlight
    <3>4. /\ balance[a] \in Int /\ owed[a] \in Int /\ paid[a] \in Int
          /\ again[a] \in Int /\ gross[a] \in Int /\ stray[a] \in Int
      BY DEF IInv, TypeOK
    <3>5. UNCHANGED <<balance, again, gross, stray>>
      BY <1>15 DEF SendMany
    <3> QED BY <3>1, <3>2, <3>3, <3>4, <3>5
  <2> QED BY <2>2, <2>3, <2>4
<1>16. CASE SendManyLost
  <2>1. \A a \in Addresses : again'[a] >= 0
    BY <1>16 DEF IInv, MemoryIsCurrent, SendManyLost
  <2>2. MemoryIsCurrent' /\ \A a \in Addresses : InFlight(a)' = 0
    BY <1>16, <2>1, EndCycleMemory DEF SendManyLost
  <2>3. CreditedOnce' /\ NeverOverdrawn'
    BY <1>16 DEF IInv, SendManyLost, CreditedOnce, NeverOverdrawn
  <2>4. BooksBalance'
    <3> SUFFICES ASSUME NEW a \in Addresses
                 PROVE balance'[a] + paid'[a] + again'[a] = gross'[a] + stray'[a] + InFlight(a)'
      BY DEF BooksBalance
    <3>1. balance[a] + paid[a] + again[a] = gross[a] + stray[a] + 0
      BY <1>16 DEF IInv, BooksBalance, SendManyLost, InFlight
    <3>2. /\ paid'[a] = paid[a] + (IF a \in batch THEN owed[a] ELSE 0)
          /\ stray'[a] = stray[a] + (IF a \in batch THEN owed[a] ELSE 0)
      BY <1>16 DEF SendManyLost, Transfer
    <3>3. InFlight(a)' = 0
      BY <2>2
    <3>4. /\ balance[a] \in Int /\ owed[a] \in Int /\ paid[a] \in Int
          /\ again[a] \in Int /\ gross[a] \in Int /\ stray[a] \in Int
      BY DEF IInv, TypeOK
    <3>5. UNCHANGED <<balance, again, gross>>
      BY <1>16 DEF SendManyLost
    <3> QED BY <3>1, <3>2, <3>3, <3>4, <3>5
  <2> QED BY <2>2, <2>3, <2>4
<1>17. CASE SendManyLocked
  <2>1. \A a \in Addresses : again'[a] >= 0
    BY <1>17 DEF IInv, MemoryIsCurrent, SendManyLocked
  <2>2. \A a \in Addresses : InFlight(a) = 0
    BY <1>17 DEF SendManyLocked, InFlight
  <2>3. CASE EndCycle
    <3>1. MemoryIsCurrent' /\ \A a \in Addresses : InFlight(a)' = 0
      BY <2>1, <2>3, EndCycleMemory
    <3> QED BY <1>17, <2>2, <3>1, SameBooks DEF SendManyLocked
  <2>4. CASE pc' = "unlock" /\ UNCHANGED <<cycleVars, txVars, payVars>>
    <3>1. MemoryIsCurrent'
      BY <1>17, <2>4 DEF IInv, MemoryIsCurrent, SendManyLocked
    <3>2. \A a \in Addresses : InFlight(a)' = 0
      BY <2>4 DEF InFlight
    <3> QED BY <1>17, <2>2, <3>1, <3>2, SameBooks DEF SendManyLocked
  <2> QED BY <1>17, <2>3, <2>4 DEF SendManyLocked
<1>18. CASE WalletPassphrase
  <2>1. MemoryIsCurrent'
    BY <1>18 DEF IInv, MemoryIsCurrent, WalletPassphrase
  <2> QED BY <1>18, <2>1, SameBooks DEF WalletPassphrase, InFlight
<1>19. CASE WalletLock
  <2>1. MemoryIsCurrent'
    BY <1>19 DEF IInv, MemoryIsCurrent, WalletLock
  <2> QED BY <1>19, <2>1, SameBooks DEF WalletLock, InFlight
<1>20. CASE PersistPayments
  <2>1. \A a \in Addresses : InFlight(a)' = 0
    BY <1>20 DEF PersistPayments, EndCycle, InFlight
  <2>2. /\ CreditedOnce' /\ BooksBalance' /\ NeverOverdrawn'
        /\ \A a \in Addresses : again'[a] >= 0
    BY <1>20, <2>1, BookKeeps DEF PersistPayments
  <2> QED BY <1>20, <2>2, EndCycleMemory DEF PersistPayments
<1>21. CASE PersistRetry
  <2>1. MemoryIsCurrent'
    BY <1>21 DEF IInv, MemoryIsCurrent, PersistRetry
  <2> QED BY <1>21, <2>1, SameBooks DEF PersistRetry, InFlight
<1>22. CASE PersistUnacknowledged
  <2>1. CASE attempt < RetryCount
    <3>1. booked' /\ UNCHANGED <<pc, cur, toClassify, updated, txBalance, batch, owed>>
      BY <1>22, <2>1 DEF PersistUnacknowledged
    <3>2. \A a \in Addresses : InFlight(a)' = 0
      BY <3>1 DEF InFlight
    <3>3. /\ CreditedOnce' /\ BooksBalance' /\ NeverOverdrawn'
          /\ \A a \in Addresses : again'[a] >= 0
      BY <1>22, <3>2, BookKeeps DEF PersistUnacknowledged
    <3>4. MemoryIsCurrent'
      BY <1>22, <3>1, <3>3 DEF IInv, MemoryIsCurrent, PersistUnacknowledged
    <3> QED BY <3>3, <3>4
  <2>2. CASE ~(attempt < RetryCount)
    <3>1. EndCycle
      BY <1>22, <2>2 DEF PersistUnacknowledged
    <3>2. \A a \in Addresses : InFlight(a)' = 0
      BY <3>1 DEF EndCycle, InFlight
    <3>3. /\ CreditedOnce' /\ BooksBalance' /\ NeverOverdrawn'
          /\ \A a \in Addresses : again'[a] >= 0
      BY <1>22, <3>2, BookKeeps DEF PersistUnacknowledged
    <3> QED BY <3>1, <3>3, EndCycleMemory
  <2> QED BY <2>1, <2>2
<1>23. CASE UNCHANGED vars
  BY <1>23, SameBooks DEF IInv, MemoryIsCurrent, InFlight
<1>24. ASSUME NEW b \in Blocks, ClassifyThrows(b) PROVE Rest'
  <2>1. \A a \in Addresses : again'[a] >= 0
    BY <1>24 DEF IInv, MemoryIsCurrent, ClassifyThrows
  <2>2. MemoryIsCurrent' /\ \A a \in Addresses : InFlight(a)' = 0
    BY <1>24, <2>1, EndCycleMemory DEF ClassifyThrows
  <2>3. \A a \in Addresses : InFlight(a) = 0
    BY <1>24 DEF ClassifyThrows, InFlight
  <2> QED BY <1>24, <2>2, <2>3, SameBooks DEF ClassifyThrows
<1> QED
  BY <1>1, <1>2, <1>3, <1>4, <1>5, <1>6, <1>7, <1>8, <1>9, <1>10, <1>11, <1>12, <1>13,
     <1>14, <1>15, <1>16, <1>17, <1>18, <1>19, <1>20, <1>21, <1>22, <1>23, <1>24
     DEF Next, Step, Failure, Environment

-----------------------------------------------------------------------------
LEMMA IInvAlways == Spec => []IInv
BY IInvInit, IInvStep, PTL DEF Spec

\* The state of the payment thread, the tables and the wallet stay well typed.
THEOREM TypeCorrect == Spec => []TypeOK
<1>1. IInv => TypeOK
  BY DEF IInv
<1> QED BY <1>1, IInvAlways, PTL

\* However cycles fail, a block is credited by exactly one committed transaction,
\* the one that confirms it (UpdatePoolBalancesAsync).
THEOREM CreditedExactlyOnce == Spec => []CreditedOnce
<1>1. IInv => CreditedOnce
  BY DEF IInv
<1> QED BY <1>1, IInvAlways, PTL

\* What is owed and was paid is what was earned, up to transfers never booked and
\* bookings repeated (UpdatePoolBalancesAsync, PayoutAsync, PersistPayments).
THEOREM BooksAlwaysBalance == Spec => []BooksBalance
<1>1. IInv => BooksBalance
  BY DEF IInv
<1> QED BY <1>1, IInvAlways, PTL

\* The data the thread works with is current when it is used, although it was read
\* several remote calls earlier.
THEOREM MemoryStaysCurrent == Spec => []MemoryIsCurrent
<1>1. IInv => MemoryIsCurrent
  BY DEF IInv
<1> QED BY <1>1, IInvAlways, PTL

\* A balance is overdrawn by repeated bookings only (PersistPayments).
THEOREM BalancesNeverOverdrawn == Spec => []NeverOverdrawn
<1>1. IInv => NeverOverdrawn
  BY DEF IInv
<1> QED BY <1>1, IInvAlways, PTL

\* No address is paid more than it earned and what went astray (PayoutAsync).
THEOREM NeverOverpaid == Spec => []NoOverpayment
<1>1. IInv => NoOverpayment
  <2> SUFFICES ASSUME IInv, NEW a \in Addresses
               PROVE  paid[a] <= gross[a] + stray[a]
    BY DEF NoOverpayment
  <2>1. /\ balance[a] \in Int /\ owed[a] \in Int /\ paid[a] \in Int
        /\ again[a] \in Int /\ gross[a] \in Int /\ stray[a] \in Int
    BY DEF IInv, TypeOK
  <2>2. balance[a] + paid[a] + again[a] = gross[a] + stray[a] + InFlight(a)
    BY DEF IInv, BooksBalance
  <2>3. balance[a] + again[a] >= InFlight(a)
    <3>1. CASE pc \in {"lock", "persist"} /\ ~booked /\ a \in batch
      BY <2>1, <3>1 DEF IInv, MemoryIsCurrent, InFlight
    <3>2. CASE ~(pc \in {"lock", "persist"} /\ ~booked /\ a \in batch)
      BY <2>1, <3>2 DEF IInv, NeverOverdrawn, InFlight
    <3> QED BY <3>1, <3>2
  <2>4. InFlight(a) \in Int
    BY <2>1 DEF InFlight
  <2> DEFINE b == balance[a]  p == paid[a]  r == again[a]
             g == gross[a]  s == stray[a]  f == InFlight(a)
  <2>5. /\ b \in Int /\ p \in Int /\ r \in Int /\ g \in Int /\ s \in Int /\ f \in Int
        /\ b + p + r = g + s + f /\ b + r >= f
    BY <2>1, <2>2, <2>3, <2>4
  <2> HIDE DEF b, p, r, g, s, f
  <2>6. p <= g + s
    BY <2>5
  <2> QED BY <2>6 DEF p, g, s
<1> QED BY <1>1, IInvAlways, PTL

\* Confirmed and orphaned blocks keep their status (UpdatePoolBalancesAsync works
\* on pending blocks only, and they are still pending when it commits).
THEOREM StatusIsFinal == Spec => FinalStatus
<1> DEFINE Final == \A b \in Blocks : status[b] \in {"confirmed", "orphaned"} => status'[b] = status[b]
<1>1. IInv /\ [Next]_vars => [Final]_vars
  <2> SUFFICES ASSUME IInv, Next PROVE Final
    OBVIOUS
  <2>1. ASSUME NEW b \in Blocks, InsertBlock(b) PROVE Final
    BY <2>1 DEF IInv, TypeOK, InsertBlock
  <2>2. ASSUME pc = "commit", UpdateBlock(cur) PROVE Final
    BY <2>2 DEF IInv, TypeOK, MemoryIsCurrent, UpdateBlock
  <2>3. CASE CommitBlock \/ CommitUnacknowledged
    BY <2>2, <2>3 DEF CommitBlock, CommitUnacknowledged
  <2>4. ASSUME UNCHANGED status PROVE Final
    BY <2>4
  <2>5. ASSUME NEW b \in Blocks,
               \/ ChainStep(b) \/ ClassifyBlock(b) \/ ClassifyThrows(b) \/ SkipBlock(b)
               \/ BeginBlock(b)
        PROVE  UNCHANGED status
    BY <2>5 DEF ChainStep, ClassifyBlock, ClassifyThrows, SkipBlock, BeginBlock
  <2>6. ASSUME NEW p \in Recipients, CreditRecipient(p) PROVE UNCHANGED status
    BY <2>6 DEF CreditRecipient
  <2>7. CASE WalletTimeout \/ Crash \/ BeginCycle \/ CreditMiners \/ ReadBalances \/ NothingToPay
    BY <2>4, <2>7
       DEF WalletTimeout, Crash, BeginCycle, CreditMiners, ReadBalances, NothingToPay
  <2>8. CASE \/ SendMany \/ SendManyLost \/ SendManyLocked \/ WalletPassphrase \/ WalletLock
    BY <2>4, <2>8 DEF SendMany, SendManyLost, SendManyLocked, WalletPassphrase, WalletLock
  <2>9. CASE PersistPayments \/ PersistRetry \/ PersistUnacknowledged
    BY <2>4, <2>9 DEF PersistPayments, PersistRetry, PersistUnacknowledged
  <2> QED BY <2>1, <2>3, <2>4, <2>5, <2>6, <2>7, <2>8, <2>9
             DEF Next, Step, Failure, Environment
<1> QED BY <1>1, IInvAlways, PTL DEF Spec, FinalStatus

\* One transfer adds at most half a unit to the drift of each address.
LEMMA TransferDrift ==
  ASSUME IInv, RoundingDrift, Transfer
  PROVE  RoundingDrift'
<1> SUFFICES ASSUME NEW a \in Addresses
             PROVE  /\ 2 * (sent'[a] - paid'[a]) <= Unit * sends'
                    /\ 2 * (paid'[a] - sent'[a]) <= Unit * sends'
  BY DEF RoundingDrift
<1>1. /\ owed[a] \in Int /\ owed[a] >= 0 /\ sent[a] \in Int /\ paid[a] \in Int
      /\ sends \in Nat /\ Unit \in Nat
  BY AmountsAssumption DEF IInv, TypeOK, MemoryIsCurrent
<1> DEFINE s == IF a \in batch /\ owed[a] > 0 THEN Round8(owed[a]) ELSE 0
           p == IF a \in batch THEN owed[a] ELSE 0
<1>2. sent'[a] = sent[a] + s /\ paid'[a] = paid[a] + p /\ sends' = sends + 1
  BY DEF Transfer
<1>3. s \in Int /\ p \in Int /\ 2 * (s - p) <= Unit /\ 2 * (p - s) <= Unit
  BY <1>1, RoundError
<1>4. 2 * (sent[a] - paid[a]) <= Unit * sends /\ 2 * (paid[a] - sent[a]) <= Unit * sends
  BY DEF RoundingDrift
<1> HIDE DEF s, p
<1>5. Unit * (sends + 1) = Unit * sends + Unit /\ Unit * sends \in Nat
  BY <1>1
<1> DEFINE u == Unit * sends
<1>6. u \in Nat /\ Unit * sends' = u + Unit
  BY <1>2, <1>5
<1>7. 2 * (sent[a] - paid[a]) <= u /\ 2 * (paid[a] - sent[a]) <= u
  BY <1>4
<1> HIDE DEF u
<1> QED BY <1>1, <1>2, <1>3, <1>6, <1>7

\* What the wallet sent and what the books say it sent drift apart by at most half of the
\* wallet's unit per transfer (Math.Round in PayoutAsync), however often a payout fails.
THEOREM DriftIsBounded == Spec => []RoundingDrift
<1>1. Init => RoundingDrift
  BY AmountsAssumption DEF Init, RoundingDrift, Zero
<1>2. IInv /\ RoundingDrift /\ [Next]_vars => RoundingDrift'
  <2> SUFFICES ASSUME IInv, RoundingDrift, [Next]_vars PROVE RoundingDrift'
    OBVIOUS
  <2>1. ASSUME UNCHANGED sentVars PROVE RoundingDrift'
    BY <2>1 DEF RoundingDrift
  <2>2. ASSUME NEW b \in Blocks,
               \/ InsertBlock(b) \/ ChainStep(b) \/ ClassifyBlock(b) \/ ClassifyThrows(b)
               \/ SkipBlock(b) \/ BeginBlock(b)
        PROVE  UNCHANGED sentVars
    BY <2>2 DEF InsertBlock, ChainStep, ClassifyBlock, ClassifyThrows, SkipBlock, BeginBlock
  <2>3. ASSUME NEW p \in Recipients, CreditRecipient(p) PROVE UNCHANGED sentVars
    BY <2>3 DEF CreditRecipient
  <2>4. CASE \/ WalletTimeout \/ Crash \/ BeginCycle \/ CreditMiners \/ ReadBalances
             \/ NothingToPay
    BY <2>1, <2>4
       DEF WalletTimeout, Crash, BeginCycle, CreditMiners, ReadBalances, NothingToPay
  <2>5. CASE CommitBlock \/ CommitUnacknowledged \/ SendManyLocked \/ WalletPassphrase
    BY <2>1, <2>5 DEF CommitBlock, CommitUnacknowledged, SendManyLocked, WalletPassphrase
  <2>6. CASE WalletLock \/ PersistPayments \/ PersistRetry \/ PersistUnacknowledged
    BY <2>1, <2>6 DEF WalletLock, PersistPayments, PersistRetry, PersistUnacknowledged
  <2>7. CASE SendMany \/ SendManyLost
    BY <2>7, TransferDrift DEF SendMany, SendManyLost
  <2>8. CASE UNCHANGED vars
    BY <2>1, <2>8
  <2> QED BY <2>1, <2>2, <2>3, <2>4, <2>5, <2>6, <2>7, <2>8
             DEF Next, Step, Failure, Environment
<1> QED BY <1>1, <1>2, IInvAlways, PTL DEF Spec

-----------------------------------------------------------------------------
(***************************************************************************)
(* What the refinement needs beside IInv: a transaction of a block that is *)
(* not confirmed touches no balance, and the batch is still exactly the    *)
(* balances over the minimum when it is sent.                              *)
(***************************************************************************)
TxUntouched ==
  cur \in Blocks /\ mem[cur].status # "confirmed" => \A a \in Addresses : txBalance[a] = balance[a]

BatchIsDue == pc \in {"send", "unlock"} => batch = OverThreshold

RInv == IInv /\ TxUntouched /\ BatchIsDue /\ (pc = "recipients" => mem[cur].status = "confirmed")

\* No transaction and no payout is under way.
LEMMA RestIdle ==
  ASSUME EndCycle
  PROVE  (TxUntouched /\ BatchIsDue /\ (pc = "recipients" => mem[cur].status = "confirmed"))'
BY DEF EndCycle, TxUntouched, BatchIsDue, Blocks

LEMMA RInvInit == Init => RInv
<1> SUFFICES ASSUME Init PROVE RInv
  OBVIOUS
<1>1. IInv
  BY IInvInit
<1>2. TxUntouched /\ BatchIsDue /\ (pc = "recipients" => mem[cur].status = "confirmed")
  BY DEF Init, TxUntouched, BatchIsDue, Blocks
<1> QED BY <1>1, <1>2 DEF RInv

LEMMA RInvStep == RInv /\ [Next]_vars => RInv'
<1> SUFFICES ASSUME RInv, [Next]_vars PROVE RInv'
  OBVIOUS
<1>0. IInv'
  BY IInvStep DEF RInv
<1> DEFINE Rest == /\ TxUntouched /\ BatchIsDue
                   /\ pc = "recipients" => mem[cur].status = "confirmed"
<1> SUFFICES Rest'
  BY <1>0 DEF RInv
<1> USE DEF RInv, TxUntouched, BatchIsDue, OverThreshold
<1>1. ASSUME UNCHANGED <<pc, mem, cur, txBalance, balance, batch>> PROVE Rest'
  BY <1>1
<1>2. ASSUME EndCycle PROVE Rest'
  BY <1>2, RestIdle
<1>3. ASSUME NEW b \in Blocks, InsertBlock(b) \/ ChainStep(b) \/ SkipBlock(b) PROVE Rest'
  BY <1>1, <1>3 DEF InsertBlock, ChainStep, SkipBlock
<1>4. CASE WalletTimeout \/ PersistRetry
  BY <1>1, <1>4 DEF WalletTimeout, PersistRetry
<1>5. CASE \/ Crash \/ CommitUnacknowledged \/ NothingToPay \/ SendManyLost \/ PersistPayments
  BY <1>2, <1>5 DEF Crash, CommitUnacknowledged, NothingToPay, SendManyLost, PersistPayments
<1>6. CASE BeginCycle
  BY <1>6 DEF BeginCycle, IInv, MemoryIsCurrent
<1>7. ASSUME NEW b \in Blocks, ClassifyBlock(b) PROVE Rest'
  BY <1>7 DEF ClassifyBlock, IInv, MemoryIsCurrent
<1>8. ASSUME NEW b \in Blocks, BeginBlock(b) PROVE Rest'
  <2>1. cur' = b /\ txBalance' = balance /\ balance' = balance /\ pc' \in {"recipients", "commit"}
    BY <1>8 DEF BeginBlock
  <2>2. mem'[b].status = mem[b].status
    BY <1>8 DEF BeginBlock, IInv, TypeOK
  <2>3. pc' = "recipients" => mem[b].status = "confirmed"
    BY <1>8 DEF BeginBlock
  <2> QED BY <2>1, <2>2, <2>3
<1>9. ASSUME NEW p \in Recipients, CreditRecipient(p) PROVE Rest'
  BY <1>9 DEF CreditRecipient, IInv, MemoryIsCurrent
<1>10. CASE CreditMiners
  BY <1>10 DEF CreditMiners, IInv, MemoryIsCurrent
<1>11. CASE CommitBlock
  BY <1>11 DEF CommitBlock, Blocks
<1>12. CASE ReadBalances
  BY <1>12 DEF ReadBalances, IInv, MemoryIsCurrent
<1>13. CASE SendMany \/ WalletLock
  BY <1>13 DEF SendMany, WalletLock, IInv, MemoryIsCurrent
<1>14. CASE SendManyLocked
  <2>1. CASE EndCycle
    BY <1>2, <2>1
  <2>2. CASE pc' = "unlock" /\ UNCHANGED <<cycleVars, txVars, payVars>>
    BY <1>14, <2>2 DEF SendManyLocked, IInv, MemoryIsCurrent
  <2> QED BY <1>14, <2>1, <2>2 DEF SendManyLocked
<1>15. CASE WalletPassphrase
  BY <1>15 DEF WalletPassphrase, IInv, MemoryIsCurrent
<1>16. CASE PersistUnacknowledged
  <2>1. CASE EndCycle
    BY <1>2, <2>1
  <2>2. CASE UNCHANGED <<pc, cycleVars, txVars, batch, owed, didUnlock, txid>>
    <3>1. pc = "persist" /\ cur \notin Blocks
      BY <1>16 DEF PersistUnacknowledged, IInv, MemoryIsCurrent
    <3> QED BY <2>2, <3>1
  <2> QED BY <1>16, <2>1, <2>2 DEF PersistUnacknowledged
<1>17. CASE UNCHANGED vars
  BY <1>1, <1>17
<1>18. ASSUME NEW b \in Blocks, ClassifyThrows(b) PROVE Rest'
  BY <1>2, <1>18 DEF ClassifyThrows
<1> QED
  BY <1>3, <1>4, <1>5, <1>6, <1>7, <1>8, <1>9, <1>10, <1>11, <1>12, <1>13, <1>14, <1>15,
     <1>16, <1>17, <1>18 DEF Next, Step, Failure, Environment

LEMMA RInvAlways == Spec => []RInv
BY RInvInit, RInvStep, PTL DEF Spec

-----------------------------------------------------------------------------
\* A step of the thread that the ledger does not see.
LEMMA Unseen ==
  ASSUME UNCHANGED <<status, gross, paid>>,
         \A a \in Addresses : Owing(a)' = Owing(a),
         \A a \in Addresses : Latest(a)' = Latest(a)
  PROVE  UNCHANGED L!ledgerVars
BY DEF L!ledgerVars, Settled

\* Nothing is under way between the wallet and the books.
Quiet == pc \notin {"lock", "persist"}

LEMMA QuietLedger ==
  ASSUME TypeOK, Quiet
  PROVE  \A a \in Addresses : InFlight(a) = 0 /\ Owing(a) = balance[a] /\ Latest(a) = 0
BY DEF TypeOK, Quiet, InFlight, Owing, Latest

\* A step from one quiet state to another that leaves the tables alone.
LEMMA UnseenQuietly ==
  ASSUME TypeOK, TypeOK', Quiet, Quiet', UNCHANGED <<status, gross, paid, balance>>
  PROVE  UNCHANGED L!ledgerVars
<1>1. \A a \in Addresses : Owing(a) = balance[a] /\ Latest(a) = 0
  BY QuietLedger
<1>2. \A a \in Addresses : Owing(a)' = balance'[a] /\ Latest(a)' = 0
  BY DEF TypeOK, Quiet, InFlight, Owing, Latest
<1> QED BY <1>1, <1>2, Unseen

\* The commit of a block's transaction confirms it, orphans it, or leaves it open.
LEMMA CommitIsSettle ==
  ASSUME RInv, TypeOK', pc = "commit", UpdateBlock(cur), Quiet', UNCHANGED paid
  PROVE  [L!Next]_(L!ledgerVars)
<1> USE DEF RInv, IInv
<1>1. cur \in Blocks /\ status[cur] = "pending"
  BY DEF MemoryIsCurrent
<1>2. \A a \in Addresses : Owing(a) = balance[a] /\ Latest(a) = 0
  BY QuietLedger DEF Quiet
<1>3. \A a \in Addresses : Owing(a)' = balance'[a] /\ Latest(a)' = 0
  BY DEF TypeOK, Quiet, InFlight, Owing, Latest
<1>4. \A a \in Addresses :
        /\ txBalance[a] >= balance[a] /\ balance'[a] = txBalance[a]
        /\ gross'[a] = gross[a] + (txBalance[a] - balance[a])
        /\ txBalance[a] \in Int /\ balance[a] \in Int /\ gross[a] \in Int
  BY <1>1 DEF MemoryIsCurrent, UpdateBlock, TypeOK
<1>5. status' = [status EXCEPT ![cur] = mem[cur].status]
  BY DEF UpdateBlock
<1>6. mem[cur].status \in {"pending", "confirmed", "orphaned"}
  BY <1>1 DEF TypeOK
<1>7. CASE mem[cur].status = "confirmed"
  <2>1. Settled(cur) = "open"
    BY <1>1 DEF Settled
  <2>2. [b \in Blocks |-> Settled(b)']
          = [[b \in Blocks |-> Settled(b)] EXCEPT ![cur] = "confirmed"]
    BY <1>1, <1>5, <1>7 DEF Settled, TypeOK
  <2>3. \A a \in Addresses : gross'[a] >= gross[a]
    BY <1>4
  <2>4. \A a \in Addresses : Owing(a)' = Owing(a) + (gross'[a] - gross[a])
    BY <1>2, <1>3, <1>4
  <2>5. L!Confirm(cur)
    BY <1>1, <1>2, <1>3, <2>1, <2>2, <2>3, <2>4 DEF L!Confirm
  <2> QED BY <1>1, <2>5 DEF L!Next
<1>8. CASE mem[cur].status # "confirmed"
  <2>1. \A a \in Addresses : txBalance[a] = balance[a]
    BY <1>1, <1>8 DEF TxUntouched
  <2>2. gross' = gross
    BY <1>4, <2>1 DEF TypeOK
  <2>3. \A a \in Addresses : Owing(a)' = Owing(a) /\ Latest(a)' = Latest(a)
    BY <1>2, <1>3, <1>4, <2>1
  <2>4. CASE mem[cur].status = "orphaned"
    <3>1. Settled(cur) = "open"
      BY <1>1 DEF Settled
    <3>2. [b \in Blocks |-> Settled(b)']
            = [[b \in Blocks |-> Settled(b)] EXCEPT ![cur] = "orphaned"]
      BY <1>1, <1>5, <2>4 DEF Settled, TypeOK
    <3>3. L!Orphan(cur)
      BY <1>1, <2>2, <2>3, <3>1, <3>2 DEF L!Orphan
    <3> QED BY <1>1, <3>3 DEF L!Next
  <2>5. CASE mem[cur].status = "pending"
    <3>1. status' = status
      BY <1>1, <1>5, <2>5 DEF TypeOK
    <3> QED BY <2>2, <2>3, <3>1, Unseen
  <2> QED BY <1>6, <1>8, <2>4, <2>5
<1> QED BY <1>7, <1>8

\* What the wallet sends is what the ledger says is due.
LEMMA TransferIsPayOut ==
  ASSUME RInv, pc = "send", Transfer
  PROVE  /\ L!PayOut
         /\ \A a \in Addresses : L!Owed(a) = IF a \in batch THEN owed[a] ELSE 0
<1> USE DEF RInv, IInv
<1>1. \A a \in Addresses : Owing(a) = balance[a] /\ Latest(a) = 0
  BY QuietLedger DEF Quiet
<1>2. batch = OverThreshold /\ batch \subseteq Addresses
  BY DEF BatchIsDue, TypeOK
<1>3. \A a \in batch : owed[a] = balance[a]
  BY DEF MemoryIsCurrent
<1>4. L!Due = batch
  BY <1>1, <1>2 DEF L!Due, OverThreshold
<1>5. \A a \in Addresses : L!Owed(a) = IF a \in batch THEN owed[a] ELSE 0
  BY <1>1, <1>2, <1>3, <1>4 DEF L!Owed
<1>6. paid' = [a \in Addresses |-> paid[a] + L!Owed(a)]
  BY <1>5 DEF Transfer
<1>7. [a \in Addresses |-> Latest(a)] = L!Nothing
  BY <1>1 DEF L!Nothing
<1> QED BY <1>5, <1>6, <1>7 DEF L!PayOut

\* Booking a payout for the first time changes nothing the ledger owes; booking it again
\* subtracts it again.
LEMMA BookOwing ==
  ASSUME TypeOK, pc = "persist", Book, \A a \in Addresses : InFlight(a)' = 0
  PROVE  /\ ~booked => \A a \in Addresses : Owing(a)' = Owing(a)
         /\ booked => \A a \in Addresses : Owing(a)' = Owing(a) - Latest(a)
<1>1. \A a \in Addresses : Owing(a)' = balance'[a]
  BY BookType DEF Owing, TypeOK
<1>2. \A a \in Addresses : balance'[a] = balance[a] - Latest(a) /\ Latest(a) \in Int
  BY DEF TypeOK, Book, Latest
<1>3. ~booked => \A a \in Addresses : Owing(a) = balance[a] - Latest(a)
  BY DEF Owing, InFlight, Latest
<1>4. booked => \A a \in Addresses : Owing(a) = balance[a]
  BY DEF Owing, InFlight, TypeOK
<1> QED BY <1>1, <1>2, <1>3, <1>4

\* The end of a cycle that has booked its payout.
LEMMA BookAndEnd ==
  ASSUME RInv, pc = "persist", Book, EndCycle, UNCHANGED <<status, gross, paid>>
  PROVE  L!Close \/ L!Repeat
<1>1. \A a \in Addresses : InFlight(a)' = 0 /\ Latest(a)' = 0
  BY DEF EndCycle, InFlight, Latest
<1>2. [a \in Addresses |-> Latest(a)'] = L!Nothing
  BY <1>1 DEF L!Nothing
<1>3. \A b \in Blocks : Settled(b)' = Settled(b)
  BY DEF Settled
<1>4. CASE ~booked
  <2>1. \A a \in Addresses : Owing(a)' = Owing(a)
    BY <1>1, <1>4, BookOwing DEF RInv, IInv
  <2> QED BY <1>2, <1>3, <2>1 DEF L!Close
<1>5. CASE booked
  <2>1. \A a \in Addresses : Owing(a)' = Owing(a) - Latest(a)
    BY <1>1, <1>5, BookOwing DEF RInv, IInv
  <2> QED BY <1>2, <1>3, <2>1 DEF L!Repeat
<1> QED BY <1>4, <1>5

\* Every step of the cycle is a step of the ledger or changes nothing of it.
LEMMA StepSimulation == RInv /\ RInv' /\ [Next]_vars => [L!Next]_(L!ledgerVars)
<1> SUFFICES ASSUME RInv, RInv', [Next]_vars PROVE [L!Next]_(L!ledgerVars)
  OBVIOUS
<1>0. TypeOK /\ TypeOK'
  BY DEF RInv, IInv
<1>1. ASSUME UNCHANGED <<status, gross, paid, balance, pc, batch, owed, booked>>
      PROVE  UNCHANGED L!ledgerVars
  BY <1>1, Unseen DEF Owing, InFlight, Latest
<1>2. ASSUME NEW b \in Blocks, InsertBlock(b) PROVE UNCHANGED L!ledgerVars
  <2>1. \A c \in Blocks : Settled(c)' = Settled(c)
    BY <1>0, <1>2 DEF InsertBlock, Settled, TypeOK
  <2>2. \A a \in Addresses : Owing(a)' = Owing(a) /\ Latest(a)' = Latest(a)
    BY <1>2 DEF InsertBlock, Owing, InFlight, Latest
  <2> QED BY <1>2, <2>1, <2>2 DEF InsertBlock, L!ledgerVars
<1>3. ASSUME NEW b \in Blocks, ChainStep(b) \/ ClassifyBlock(b) \/ SkipBlock(b)
      PROVE  UNCHANGED L!ledgerVars
  BY <1>1, <1>3 DEF ChainStep, ClassifyBlock, SkipBlock
<1>4. CASE WalletTimeout \/ PersistRetry
  BY <1>1, <1>4 DEF WalletTimeout, PersistRetry
<1>5. CASE BeginCycle \/ CreditMiners \/ ReadBalances \/ NothingToPay \/ WalletPassphrase
  <2>1. Quiet /\ Quiet' /\ UNCHANGED <<status, gross, paid, balance>>
    BY <1>5 DEF BeginCycle, CreditMiners, ReadBalances, NothingToPay, WalletPassphrase,
                EndCycle, Quiet
  <2> QED BY <1>0, <2>1, UnseenQuietly
<1>6. ASSUME NEW b \in Blocks, BeginBlock(b) PROVE UNCHANGED L!ledgerVars
  <2>1. Quiet /\ Quiet' /\ UNCHANGED <<status, gross, paid, balance>>
    BY <1>6 DEF BeginBlock, Quiet
  <2> QED BY <1>0, <2>1, UnseenQuietly
<1>7. ASSUME NEW p \in Recipients, CreditRecipient(p) PROVE UNCHANGED L!ledgerVars
  BY <1>1, <1>7 DEF CreditRecipient
<1>8. CASE SendManyLocked
  <2>1. Quiet /\ Quiet' /\ UNCHANGED <<status, gross, paid, balance>>
    BY <1>8 DEF SendManyLocked, EndCycle, Quiet
  <2> QED BY <1>0, <2>1, UnseenQuietly
<1>9. CASE WalletLock
  <2>1. \A a \in Addresses : Owing(a)' = Owing(a) /\ Latest(a)' = Latest(a)
    BY <1>9 DEF WalletLock, Owing, InFlight, Latest
  <2> QED BY <1>9, <2>1, Unseen DEF WalletLock
<1>10. CASE CommitBlock
  <2>1. pc = "commit" /\ UpdateBlock(cur) /\ Quiet' /\ UNCHANGED paid
    BY <1>10 DEF CommitBlock, Quiet
  <2> QED BY <1>0, <2>1, CommitIsSettle
<1>11. CASE CommitUnacknowledged
  <2>1. pc = "commit" /\ UpdateBlock(cur) /\ Quiet' /\ UNCHANGED paid
    BY <1>11 DEF CommitUnacknowledged, EndCycle, Quiet
  <2> QED BY <1>0, <2>1, CommitIsSettle
<1>12. CASE Crash
  <2>1. \A a \in Addresses : Owing(a)' = balance[a] /\ Latest(a)' = 0
    BY <1>0, <1>12 DEF Crash, EndCycle, Owing, InFlight, Latest, TypeOK
  <2>2. [a \in Addresses |-> Latest(a)'] = L!Nothing
    BY <2>1 DEF L!Nothing
  <2>3. UNCHANGED <<status, gross, paid, balance>>
    BY <1>12 DEF Crash
  <2>4. \A b \in Blocks : Settled(b)' = Settled(b)
    BY <2>3 DEF Settled
  <2>5. CASE Quiet
    <3>1. Quiet'
      BY <1>12 DEF Crash, EndCycle, Quiet
    <3> QED BY <1>0, <2>3, <2>5, <3>1, UnseenQuietly
  <2>6. CASE ~Quiet /\ ~booked
    <3>1. \A a \in Addresses : Owing(a)' = Owing(a) + Latest(a)
      BY <1>0, <2>1, <2>6 DEF Quiet, Owing, InFlight, Latest, TypeOK
    <3>2. L!Forget
      BY <2>2, <2>3, <2>4, <3>1 DEF L!Forget
    <3> QED BY <3>2 DEF L!Next
  <2>7. CASE booked
    <3>1. \A a \in Addresses : Owing(a)' = Owing(a)
      BY <1>0, <2>1, <2>7 DEF Owing, InFlight, TypeOK
    <3>2. L!Close
      BY <2>2, <2>3, <2>4, <3>1 DEF L!Close
    <3> QED BY <3>2 DEF L!Next
  <2> QED BY <2>5, <2>6, <2>7
<1>13. CASE SendMany
  <2>1. L!PayOut /\ \A a \in Addresses : L!Owed(a) = IF a \in batch THEN owed[a] ELSE 0
    BY <1>13, TransferIsPayOut DEF SendMany
  <2>2. /\ pc' \in {"lock", "persist"} /\ ~booked' /\ ~booked
        /\ UNCHANGED <<status, gross, balance, batch, owed>>
    BY <1>13 DEF SendMany, RInv, IInv, MemoryIsCurrent
  <2>3. \A a \in Addresses : Latest(a)' = L!Owed(a) /\ Owing(a)' = balance[a] - L!Owed(a)
    BY <2>1, <2>2 DEF Latest, Owing, InFlight
  <2>4. \A a \in Addresses : Owing(a) = balance[a]
    BY <1>0, <1>13, QuietLedger DEF SendMany, Quiet
  <2>5. \A b \in Blocks : Settled(b)' = Settled(b)
    BY <2>2 DEF Settled
  <2>6. L!Pay
    BY <2>1, <2>2, <2>3, <2>4, <2>5 DEF L!Pay
  <2> QED BY <2>6 DEF L!Next
<1>14. CASE SendManyLost
  <2>1. L!PayOut
    BY <1>14, TransferIsPayOut DEF SendManyLost
  <2>2. Quiet /\ Quiet' /\ UNCHANGED <<status, gross, balance>>
    BY <1>14 DEF SendManyLost, EndCycle, Quiet
  <2>3. \A a \in Addresses : Owing(a) = balance[a] /\ Latest(a) = 0
    BY <1>0, <2>2, QuietLedger
  <2>4. \A a \in Addresses : Owing(a)' = balance'[a] /\ Latest(a)' = 0
    BY <1>0, <2>2 DEF TypeOK, Quiet, InFlight, Owing, Latest
  <2>5. \A b \in Blocks : Settled(b)' = Settled(b)
    BY <2>2 DEF Settled
  <2>6. L!PayUnseen
    BY <2>1, <2>2, <2>3, <2>4, <2>5 DEF L!PayUnseen
  <2> QED BY <2>6 DEF L!Next
<1>15. CASE PersistPayments
  <2>1. L!Close \/ L!Repeat
    BY <1>15, BookAndEnd DEF PersistPayments
  <2> QED BY <2>1 DEF L!Next
<1>16. CASE PersistUnacknowledged
  <2>1. pc = "persist" /\ Book /\ UNCHANGED <<status, gross, paid>>
    BY <1>16 DEF PersistUnacknowledged
  <2>2. CASE EndCycle
    BY <2>1, <2>2, BookAndEnd DEF L!Next
  <2>3. CASE booked' /\ UNCHANGED <<pc, batch, owed>>
    <3>1. \A a \in Addresses : InFlight(a)' = 0 /\ Latest(a)' = Latest(a)
      BY <2>3 DEF InFlight, Latest
    <3>2. CASE ~booked
      <4>1. \A a \in Addresses : Owing(a)' = Owing(a)
        BY <1>0, <2>1, <3>1, <3>2, BookOwing
      <4> QED BY <2>1, <3>1, <4>1, Unseen
    <3>3. CASE booked
      <4>1. \A a \in Addresses : Owing(a)' = Owing(a) - Latest(a)
        BY <1>0, <2>1, <3>1, <3>3, BookOwing
      <4>2. \A b \in Blocks : Settled(b)' = Settled(b)
        BY <2>1 DEF Settled
      <4>3. L!Repeat
        BY <2>1, <3>1, <4>1, <4>2 DEF L!Repeat
      <4> QED BY <4>3 DEF L!Next
    <3> QED BY <3>2, <3>3
  <2> QED BY <1>16, <2>2, <2>3 DEF PersistUnacknowledged
<1>17. CASE UNCHANGED vars
  BY <1>1, <1>17
<1>18. ASSUME NEW b \in Blocks, ClassifyThrows(b) PROVE UNCHANGED L!ledgerVars
  <2>1. Quiet /\ Quiet' /\ UNCHANGED <<status, gross, paid, balance>>
    BY <1>18 DEF ClassifyThrows, EndCycle, Quiet
  <2> QED BY <1>0, <2>1, UnseenQuietly
<1> QED
  BY <1>2, <1>3, <1>4, <1>5, <1>6, <1>7, <1>8, <1>9, <1>10, <1>11, <1>12, <1>13, <1>14,
     <1>15, <1>16, <1>17, <1>18 DEF Next, Step, Failure, Environment

-----------------------------------------------------------------------------
\* Payment processing implements the ledger, whatever fails: every behaviour of the cycle
\* (UpdatePoolBalancesAsync, PayoutAsync, PersistPayments) is one of the ledger.
THEOREM PaymentsImplementLedger == Spec => ImplementsLedger
<1>1. Init => L!Init
  <2> SUFFICES ASSUME Init PROVE L!Init
    OBVIOUS
  <2>1. \A b \in Blocks : Settled(b) = "open"
    BY DEF Init, Settled
  <2>2. \A a \in Addresses : Owing(a) = 0 /\ Latest(a) = 0
    BY DEF Init, Owing, InFlight, Latest, Zero
  <2>3. gross = L!Nothing /\ paid = L!Nothing
    BY DEF Init, Zero, L!Nothing
  <2> QED BY <2>1, <2>2, <2>3 DEF L!Init, L!Nothing
<1>2. RInv /\ RInv' /\ [Next]_vars => [L!Next]_(L!ledgerVars)
  BY StepSimulation
<1> QED BY <1>1, <1>2, RInvAlways, PTL DEF Spec, L!Spec, ImplementsLedger
-----------------------------------------------------------------------------
(***************************************************************************)
(* The money of the credits.  That all credits together stay within the    *)
(* rewards of the confirmed blocks needs, beside RInv, that a block        *)
(* classified as confirmed has the reward of its coinbase transaction in   *)
(* memory, and that what its transaction has added to balances, with what  *)
(* it has left for the miners, is no more than that.                       *)
(***************************************************************************)
ClassifiedReward ==
  \A b \in Blocks : mem[b].status = "confirmed" => mem[b].reward = BlockReward[b]

TxGain == [a \in Addresses |-> txBalance[a] - balance[a]]

TxFunded ==
  cur \in Blocks /\ mem[cur].status = "confirmed" =>
    SumFunction(TxGain) + (IF pc = "recipients" THEN txRemaining ELSE 0) <= BlockReward[cur]

MInv == RInv /\ ClassifiedReward /\ TxFunded /\ NoMoneyFromNothing

\* What the blocks have earned, the right-hand side of NoMoneyFromNothing.
Earnings == [b \in Blocks |-> IF status[b] = "confirmed" THEN BlockReward[b] ELSE 0]

LEMMA FiniteLedger == IsFiniteSet(Addresses) /\ IsFiniteSet(Blocks)
<1>1. IsFiniteSet(Recipients \ {PoolAddress})
  BY RecipientsAssumption, FS_Subset
<1>2. IsFiniteSet(Miners \cup (Recipients \ {PoolAddress}))
  BY <1>1, RecipientsAssumption, FS_Union
<1>3. IsFiniteSet(1..NumBlocks)
  BY BlocksAssumption, FS_Interval
<1> QED BY <1>2, <1>3 DEF Addresses, Blocks

\* NoMoneyFromNothing with the sums over the sets of addresses and blocks.
LEMMA MoneySums ==
  ASSUME TypeOK
  PROVE  /\ NoMoneyFromNothing <=>
              SumFunctionOnSet(gross, Addresses) <= SumFunctionOnSet(Earnings, Blocks)
         /\ SumFunctionOnSet(gross, Addresses) \in Int
         /\ SumFunctionOnSet(Earnings, Blocks) \in Int
<1>1. DOMAIN gross = Addresses /\ DOMAIN Earnings = Blocks
  BY DEF TypeOK, Earnings
<1>2. SumFunction(gross) = SumFunctionOnSet(gross, Addresses)
  BY <1>1 DEF SumFunction
<1>3. SumFunction(Earnings) = SumFunctionOnSet(Earnings, Blocks)
  BY <1>1 DEF SumFunction
<1>4. NoMoneyFromNothing <=> SumFunction(gross) <= SumFunction(Earnings)
  BY DEF NoMoneyFromNothing, Earnings
<1>5. SumFunctionOnSet(gross, Addresses) \in Int
  BY FiniteLedger, SumInt DEF TypeOK
<1>6. \A b \in Blocks : Earnings[b] \in Int
  BY BlocksAssumption DEF Earnings
<1>7. SumFunctionOnSet(Earnings, Blocks) \in Int
  BY <1>6, FiniteLedger, SumInt
<1> QED BY <1>2, <1>3, <1>4, <1>5, <1>7

\* The gain of a transaction is a sum of integers.
LEMMA GainSum ==
  ASSUME TypeOK
  PROVE  /\ SumFunction(TxGain) = SumFunctionOnSet(TxGain, Addresses)
         /\ SumFunctionOnSet(TxGain, Addresses) \in Int
         /\ \A a \in Addresses : TxGain[a] \in Int
<1>1. \A a \in Addresses : TxGain[a] \in Int
  BY DEF TypeOK, TxGain
<1>2. SumFunctionOnSet(TxGain, Addresses) \in Int
  BY <1>1, FiniteLedger, SumInt
<1>3. DOMAIN TxGain = Addresses
  BY DEF TxGain
<1> QED BY <1>1, <1>2, <1>3 DEF SumFunction

\* A step that credits nothing and confirms no block.
LEMMA SameMoney ==
  ASSUME NoMoneyFromNothing, UNCHANGED gross,
         \A b \in Blocks : (status'[b] = "confirmed") <=> (status[b] = "confirmed")
  PROVE  NoMoneyFromNothing'
<1>1. [b \in Blocks |-> IF status'[b] = "confirmed" THEN BlockReward[b] ELSE 0]
        = [b \in Blocks |-> IF status[b] = "confirmed" THEN BlockReward[b] ELSE 0]
  OBVIOUS
<1> QED BY <1>1 DEF NoMoneyFromNothing

\* The commit that confirms a block credits no more than its reward; another one nothing.
LEMMA CommitMoney ==
  ASSUME MInv, TypeOK', pc = "commit", UpdateBlock(cur)
  PROVE  NoMoneyFromNothing'
<1> USE DEF MInv, RInv, IInv
<1>1. cur \in Blocks /\ status[cur] = "pending"
  BY DEF MemoryIsCurrent
<1>2. \A b \in Blocks : status'[b] = IF b = cur THEN mem[cur].status ELSE status[b]
  BY <1>1 DEF TypeOK, UpdateBlock
<1>3. gross' = [a \in Addresses |-> gross[a] + (txBalance[a] - balance[a])]
  BY DEF UpdateBlock
<1>4. CASE mem[cur].status # "confirmed"
  <2>1. \A a \in Addresses : txBalance[a] - balance[a] = 0
    BY <1>1, <1>4 DEF TxUntouched, TypeOK
  <2>2. \A a \in Addresses : gross[a] + (txBalance[a] - balance[a]) = gross[a]
    BY <2>1 DEF TypeOK
  <2>3. gross' = gross
    BY <1>3, <2>2 DEF TypeOK
  <2> QED BY <1>1, <1>2, <1>4, <2>3, SameMoney
<1>5. CASE mem[cur].status = "confirmed"
  <2>1. \A a \in Addresses : gross'[a] = gross[a] + TxGain[a] /\ gross[a] \in Int
    BY <1>3 DEF TxGain, TypeOK
  <2>2. SumFunctionOnSet(gross', Addresses)
          = SumFunctionOnSet(gross, Addresses) + SumFunctionOnSet(TxGain, Addresses)
    BY <2>1, GainSum, FiniteLedger, SumPlus
  <2>3. SumFunctionOnSet(TxGain, Addresses) <= BlockReward[cur]
    <3>1. SumFunction(TxGain) + 0 <= BlockReward[cur]
      BY <1>1, <1>5 DEF TxFunded
    <3> QED BY <3>1, GainSum
  <2> DEFINE E == Earnings
             F == Earnings'
  <2>4. \A b \in Blocks : E[b] \in Int /\ F[b] \in Int /\ (b # cur => F[b] = E[b])
    BY <1>2, BlocksAssumption DEF Earnings
  <2>5. E[cur] = 0 /\ F[cur] = BlockReward[cur]
    BY <1>1, <1>2, <1>5 DEF Earnings
  <2> HIDE DEF E, F
  <2>6. SumFunctionOnSet(F, Blocks) = SumFunctionOnSet(E, Blocks) + (F[cur] - E[cur])
    BY <1>1, <2>4, FiniteLedger, SumExcept
  <2>7. SumFunctionOnSet(Earnings', Blocks)
          = SumFunctionOnSet(Earnings, Blocks) + BlockReward[cur]
    <3>1. F[cur] - E[cur] = BlockReward[cur]
      BY <1>1, <2>5, BlocksAssumption
    <3> QED BY <2>6, <3>1 DEF E, F
  <2>8. SumFunctionOnSet(gross, Addresses) <= SumFunctionOnSet(Earnings, Blocks)
    BY MoneySums
  <2>9. NoMoneyFromNothing'
          <=> SumFunctionOnSet(gross', Addresses) <= SumFunctionOnSet(Earnings', Blocks)
    <3>1. DOMAIN gross' = Addresses /\ DOMAIN Earnings' = Blocks
      BY <1>3 DEF Earnings
    <3>2. NoMoneyFromNothing' <=> SumFunction(gross') <= SumFunction(Earnings')
      BY DEF NoMoneyFromNothing, Earnings
    <3> QED BY <3>1, <3>2 DEF SumFunction
  <2> DEFINE g == SumFunctionOnSet(gross, Addresses)
             d == SumFunctionOnSet(TxGain, Addresses)
             e == SumFunctionOnSet(Earnings, Blocks)
  <2>10. g \in Int /\ d \in Int /\ e \in Int /\ BlockReward[cur] \in Int
    BY <1>1, GainSum, MoneySums, BlocksAssumption
  <2>11. g <= e /\ d <= BlockReward[cur]
    BY <2>3, <2>8
  <2> HIDE DEF g, d, e
  <2>12. g + d <= e + BlockReward[cur]
    BY <2>10, <2>11
  <2> QED BY <2>2, <2>7, <2>9, <2>12 DEF g, d, e
<1> QED BY <1>4, <1>5

LEMMA MInvInit == Init => MInv
<1> SUFFICES ASSUME Init PROVE MInv
  OBVIOUS
<1>1. RInv
  BY RInvInit
<1>2. ClassifiedReward
  BY DEF Init, NoMem, ClassifiedReward
<1>3. TxFunded
  BY DEF Init, TxFunded, Blocks
<1>4. NoMoneyFromNothing
  <2>1. \A b \in Blocks : Earnings[b] \in Nat
    BY BlocksAssumption DEF Earnings
  <2>2. SumFunctionOnSet(Earnings, Blocks) \in Nat
    BY <2>1, FiniteLedger, SumNat
  <2>3. \A a \in Addresses : gross[a] = 0
    BY DEF Init, Zero
  <2>4. SumFunctionOnSet(gross, Addresses) = 0
    BY <2>3, FiniteLedger, SumZero
  <2> QED BY <1>1, <2>2, <2>4, MoneySums DEF RInv, IInv
<1> QED BY <1>1, <1>2, <1>3, <1>4 DEF MInv

\* One round of the loop over the recipients takes from the remaining reward what it credits,
\* except for the pool's own address, which gets nothing for it.
LEMMA CreditRecipientFunded ==
  ASSUME MInv, TypeOK', NEW p \in Recipients, CreditRecipient(p)
  PROVE  TxFunded'
<1> USE DEF MInv, RInv, IInv
<1> DEFINE amount == (mem[cur].reward * Percentage[p]) \div 100
<1>1. pc = "recipients" /\ cur \in Blocks /\ mem[cur].status = "confirmed"
  BY DEF CreditRecipient, MemoryIsCurrent
<1>2. amount \in Nat
  BY <1>1, RecipientAmount, RecipientsAssumption DEF TypeOK
<1>3. /\ txRemaining' = txRemaining - amount
      /\ txBalance' = IF p # PoolAddress
                      THEN [txBalance EXCEPT ![p] = txBalance[p] + amount]
                      ELSE txBalance
      /\ UNCHANGED <<pc, cur, mem, balance>>
  BY DEF CreditRecipient
<1> HIDE DEF amount
<1> DEFINE d == SumFunctionOnSet(TxGain, Addresses)
           D == TxGain
           F == TxGain'
<1>4. d \in Int /\ txRemaining \in Int /\ BlockReward[cur] \in Int
  BY <1>1, GainSum, BlocksAssumption DEF TypeOK
<1>5. d + txRemaining <= BlockReward[cur]
  BY <1>1, GainSum DEF TxFunded
<1>6. \A a \in Addresses : D[a] \in Int /\ F[a] \in Int
  BY DEF TypeOK, TxGain
<1>7. SumFunction(TxGain') = SumFunctionOnSet(F, Addresses)
  BY DEF SumFunction, TxGain
<1>8. SumFunctionOnSet(F, Addresses) <= d + amount
  <2>1. CASE p # PoolAddress
    <3>1. p \in Addresses
      BY <2>1 DEF Addresses
    <3>2. \A a \in Addresses : F[a] = IF a = p THEN D[a] + amount ELSE D[a]
      BY <1>2, <1>3, <2>1 DEF TypeOK, TxGain
    <3> HIDE DEF D, F
    <3>3. SumFunctionOnSet(F, Addresses) = SumFunctionOnSet(D, Addresses) + (F[p] - D[p])
      BY <1>6, <3>1, <3>2, FiniteLedger, SumExcept
    <3>4. F[p] - D[p] = amount
      BY <1>2, <1>6, <3>1, <3>2
    <3>5. SumFunctionOnSet(F, Addresses) = d + amount
      BY <3>3, <3>4 DEF D, d
    <3> HIDE DEF d
    <3> QED BY <1>2, <1>4, <3>5
  <2>2. CASE p = PoolAddress
    <3>1. F = D
      BY <1>3, <2>2 DEF TxGain
    <3>2. SumFunctionOnSet(F, Addresses) = d
      BY <3>1
    <3> HIDE DEF d, F
    <3> QED BY <1>2, <1>4, <3>2
  <2> QED BY <2>1, <2>2
<1> DEFINE s == SumFunctionOnSet(F, Addresses)
<1>9. s \in Int
  BY <1>6, FiniteLedger, SumInt
<1>10. s <= d + amount
  BY <1>8
<1> HIDE DEF d, s
<1>11. s + (txRemaining - amount) <= BlockReward[cur]
  BY <1>2, <1>4, <1>5, <1>9, <1>10
<1> QED BY <1>1, <1>3, <1>7, <1>11 DEF TxFunded, s

\* The scheme credits the miners with no more than what is left.
LEMMA CreditMinersFunded ==
  ASSUME MInv, TypeOK', CreditMiners
  PROVE  TxFunded'
<1> USE DEF MInv, RInv, IInv
<1>1. pc = "recipients" /\ cur \in Blocks /\ mem[cur].status = "confirmed"
  BY DEF CreditMiners, MemoryIsCurrent
<1>2. PICK r \in SchemeRewards(txRemaining) :
        txBalance' = [a \in Addresses |-> txBalance[a] + (IF a \in Miners THEN r[a] ELSE 0)]
  BY DEF CreditMiners
<1>3. pc' = "commit" /\ UNCHANGED <<cur, mem, balance>>
  BY DEF CreditMiners
<1>4. /\ r \in [Miners -> Nat] /\ DOMAIN r = Miners /\ SumFunction(r) <= txRemaining
  BY DEF SchemeRewards, TypeOK
<1> DEFINE e == [a \in Addresses |-> IF a \in Miners THEN r[a] ELSE 0]
           D == TxGain
           F == TxGain'
<1>5. SumFunctionOnSet(e, Addresses) <= txRemaining
  <2>1. Miners \in SUBSET Addresses
    BY DEF Addresses
  <2>2. /\ \A a \in Addresses : e[a] \in Int
        /\ \A a \in Addresses \ Miners : e[a] = 0
        /\ \A a \in Miners : e[a] = r[a]
    BY <1>4, <2>1
  <2> HIDE DEF e
  <2>3. SumFunctionOnSet(e, Addresses) = SumFunctionOnSet(e, Miners)
    BY <2>1, <2>2, FiniteLedger, SumSubset
  <2>4. SumFunctionOnSet(e, Miners) = SumFunctionOnSet(r, Miners)
    BY <2>2, RecipientsAssumption, SumSame
  <2> QED BY <1>4, <2>3, <2>4 DEF SumFunction
<1>6. \A a \in Addresses : D[a] \in Int /\ e[a] \in Int /\ F[a] = D[a] + e[a]
  BY <1>2, <1>3, <1>4 DEF TypeOK, TxGain
<1>7. SumFunction(TxGain') = SumFunctionOnSet(F, Addresses)
  BY DEF SumFunction, TxGain
<1>8. SumFunctionOnSet(TxGain, Addresses) + txRemaining <= BlockReward[cur]
  BY <1>1, GainSum DEF TxFunded
<1>9. /\ SumFunctionOnSet(TxGain, Addresses) \in Int
      /\ txRemaining \in Int /\ BlockReward[cur] \in Int
  BY <1>1, GainSum, BlocksAssumption DEF TypeOK
<1> HIDE DEF D, e, F
<1>10. SumFunctionOnSet(F, Addresses)
         = SumFunctionOnSet(D, Addresses) + SumFunctionOnSet(e, Addresses)
  BY <1>6, FiniteLedger, SumPlus
<1>11. SumFunctionOnSet(e, Addresses) \in Int
  BY <1>6, FiniteLedger, SumInt
<1> DEFINE d == SumFunctionOnSet(D, Addresses)
           m == SumFunctionOnSet(e, Addresses)
<1>12. d \in Int /\ d + txRemaining <= BlockReward[cur]
  BY <1>8, <1>9 DEF D
<1>13. m \in Int /\ m <= txRemaining
  BY <1>5, <1>11
<1> HIDE DEF d, m
<1>14. d + m + 0 <= BlockReward[cur]
  BY <1>9, <1>12, <1>13
<1>15. SumFunction(TxGain') + 0 <= BlockReward[cur]
  BY <1>7, <1>10, <1>14 DEF d, m
<1> QED BY <1>3, <1>15 DEF TxFunded

LEMMA MInvStep == MInv /\ [Next]_vars => MInv'
<1> SUFFICES ASSUME MInv, [Next]_vars PROVE MInv'
  OBVIOUS
<1>0. RInv' /\ TypeOK /\ TypeOK'
  BY RInvStep DEF MInv, RInv, IInv
<1> DEFINE Rest == ClassifiedReward /\ TxFunded /\ NoMoneyFromNothing
<1> SUFFICES Rest'
  BY <1>0 DEF MInv
<1>1. ASSUME UNCHANGED <<gross, status>> PROVE NoMoneyFromNothing'
  BY <1>1, SameMoney DEF MInv
<1>2. ASSUME EndCycle PROVE ClassifiedReward' /\ TxFunded'
  BY <1>2 DEF EndCycle, ClassifiedReward, NoMem, TxFunded, Blocks
<1>3. ASSUME UNCHANGED <<mem, cur, txBalance, balance, pc, txRemaining>>
      PROVE  ClassifiedReward' /\ TxFunded'
  BY <1>3 DEF MInv, ClassifiedReward, TxFunded, TxGain
<1>4. ASSUME UNCHANGED mem, cur' \notin Blocks PROVE ClassifiedReward' /\ TxFunded'
  BY <1>4 DEF MInv, ClassifiedReward, TxFunded
<1>5. ASSUME NEW b \in Blocks, InsertBlock(b) PROVE Rest'
  <2>1. \A c \in Blocks : (status'[c] = "confirmed") <=> (status[c] = "confirmed")
    BY <1>0, <1>5 DEF InsertBlock, TypeOK
  <2>2. UNCHANGED gross
    BY <1>5 DEF InsertBlock
  <2>3. NoMoneyFromNothing'
    BY <2>1, <2>2, SameMoney DEF MInv
  <2> QED BY <1>3, <1>5, <2>3 DEF InsertBlock
<1>6. ASSUME NEW b \in Blocks, ChainStep(b) \/ SkipBlock(b) PROVE Rest'
  BY <1>1, <1>3, <1>6 DEF ChainStep, SkipBlock
<1>7. CASE WalletTimeout \/ PersistRetry
  BY <1>1, <1>3, <1>7 DEF WalletTimeout, PersistRetry
<1>8. CASE Crash \/ NothingToPay \/ SendManyLost \/ PersistPayments
  BY <1>1, <1>2, <1>8 DEF Crash, NothingToPay, SendManyLost, PersistPayments
<1>9. CASE BeginCycle
  <2>1. cur' \notin Blocks
    BY <1>9 DEF BeginCycle, MInv, RInv, IInv, MemoryIsCurrent
  <2>2. \A b \in Blocks : mem'[b].status = "pending"
    BY <1>9 DEF BeginCycle, NoMem
  <2> QED BY <1>1, <1>9, <2>1, <2>2 DEF BeginCycle, ClassifiedReward, TxFunded
<1>10. ASSUME NEW b \in Blocks, ClassifyBlock(b) PROVE Rest'
  <2>1. cur' \notin Blocks
    BY <1>10 DEF ClassifyBlock, MInv, RInv, IInv, MemoryIsCurrent
  <2>2. PICK m \in Classified(b) : mem' = [mem EXCEPT ![b] = m]
    BY <1>10 DEF ClassifyBlock
  <2>3. m.status = "confirmed" => m.reward = BlockReward[b]
    <3>1. mem[b] \in [status : {"pending", "confirmed", "orphaned"},
                      reward : Nat, effort : BOOLEAN]
      BY <1>0 DEF TypeOK
    <3>2. chain[b] \in ChainStates
      BY <1>0 DEF TypeOK
    <3> QED BY <3>1, <3>2 DEF Classified, ChainStates
  <2>4. ClassifiedReward'
    BY <1>0, <2>2, <2>3 DEF MInv, ClassifiedReward, TypeOK
  <2> QED BY <1>1, <1>10, <2>1, <2>4 DEF ClassifyBlock, TxFunded
<1>11. ASSUME NEW b \in Blocks, BeginBlock(b) PROVE Rest'
  <2>1. \A c \in Blocks : mem'[c].status = mem[c].status /\ mem'[c].reward = mem[c].reward
    BY <1>0, <1>11 DEF BeginBlock, TypeOK
  <2>2. ClassifiedReward'
    BY <2>1 DEF MInv, ClassifiedReward
  <2>3. cur' = b /\ txBalance' = balance /\ balance' = balance
    BY <1>11 DEF BeginBlock
  <2>4. \A a \in Addresses : TxGain'[a] = 0
    BY <1>0, <2>3 DEF TxGain, TypeOK
  <2>5. SumFunction(TxGain') = SumFunctionOnSet(TxGain', Addresses)
    BY DEF SumFunction, TxGain
  <2>6. SumFunction(TxGain') = 0
    BY <2>4, <2>5, FiniteLedger, SumZero
  <2>7. mem[b].status = "confirmed" => pc' = "recipients" /\ txRemaining' = BlockReward[b]
    BY <1>11 DEF BeginBlock, MInv, ClassifiedReward
  <2>8. BlockReward[b] \in Nat
    BY BlocksAssumption
  <2>9. TxFunded'
    BY <2>1, <2>3, <2>6, <2>7, <2>8 DEF TxFunded
  <2> QED BY <1>1, <1>11, <2>2, <2>9 DEF BeginBlock
<1>12. ASSUME NEW p \in Recipients, CreditRecipient(p) PROVE Rest'
  BY <1>0, <1>1, <1>12, CreditRecipientFunded DEF CreditRecipient, MInv, ClassifiedReward
<1>13. CASE CreditMiners
  BY <1>0, <1>1, <1>13, CreditMinersFunded DEF CreditMiners, MInv, ClassifiedReward
<1>14. CASE CommitBlock
  <2>1. NoMoneyFromNothing'
    BY <1>0, <1>14, CommitMoney DEF CommitBlock
  <2>2. \A b \in Blocks : mem'[b] = mem[b] \/ mem'[b] = NoMem[b]
    BY <1>0, <1>14 DEF CommitBlock, TypeOK
  <2>3. ClassifiedReward'
    BY <2>2 DEF MInv, ClassifiedReward, NoMem
  <2>4. cur' \notin Blocks
    BY <1>14 DEF CommitBlock, Blocks
  <2> QED BY <2>1, <2>3, <2>4 DEF TxFunded
<1>15. CASE CommitUnacknowledged
  BY <1>0, <1>2, <1>15, CommitMoney DEF CommitUnacknowledged
<1>16. CASE ReadBalances \/ SendMany \/ WalletPassphrase \/ WalletLock
  <2>1. cur' \notin Blocks /\ UNCHANGED <<mem, gross, status>>
    BY <1>16 DEF ReadBalances, SendMany, WalletPassphrase, WalletLock,
                 MInv, RInv, IInv, MemoryIsCurrent
  <2> QED BY <1>1, <1>4, <2>1
<1>17. CASE SendManyLocked
  <2>1. UNCHANGED <<gross, status>>
    BY <1>17 DEF SendManyLocked
  <2>2. CASE EndCycle
    BY <1>1, <1>2, <2>1, <2>2
  <2>3. CASE UNCHANGED <<cycleVars, txVars, payVars>>
    <3>1. cur' \notin Blocks /\ UNCHANGED mem
      BY <1>17, <2>3 DEF SendManyLocked, MInv, RInv, IInv, MemoryIsCurrent
    <3> QED BY <1>1, <1>4, <2>1, <3>1
  <2> QED BY <1>17, <2>2, <2>3 DEF SendManyLocked
<1>18. CASE PersistUnacknowledged
  <2>1. UNCHANGED <<gross, status>>
    BY <1>18 DEF PersistUnacknowledged
  <2>2. CASE EndCycle
    BY <1>1, <1>2, <2>1, <2>2
  <2>3. CASE UNCHANGED <<pc, cycleVars, txVars, batch, owed, didUnlock, txid>>
    <3>1. cur' \notin Blocks /\ UNCHANGED mem
      BY <1>18, <2>3 DEF PersistUnacknowledged, MInv, RInv, IInv, MemoryIsCurrent
    <3> QED BY <1>1, <1>4, <2>1, <3>1
  <2> QED BY <1>18, <2>2, <2>3 DEF PersistUnacknowledged
<1>19. CASE UNCHANGED vars
  BY <1>1, <1>3, <1>19
<1>20. ASSUME NEW b \in Blocks, ClassifyThrows(b) PROVE Rest'
  BY <1>1, <1>2, <1>20 DEF ClassifyThrows
<1> QED
  BY <1>5, <1>6, <1>7, <1>8, <1>9, <1>10, <1>11, <1>12, <1>13, <1>14, <1>15,
     <1>16, <1>17, <1>18, <1>19, <1>20 DEF Next, Step, Failure, Environment

\* All credits together stay within the rewards of the confirmed blocks, whatever is
\* retried (UpdatePoolBalancesAsync, UpdateBlockRewardBalancesAsync and a payout scheme
\* that distributes no more than it is given).
THEOREM CreditsAreEarned == Spec => []NoMoneyFromNothing
<1>1. MInv => NoMoneyFromNothing
  BY DEF MInv
<1> QED BY <1>1, MInvInit, MInvStep, PTL DEF Spec
=============================================================================
