------------------------------- MODULE Ledger -------------------------------
(***************************************************************************)
(* What payment processing promises, without cycles, transactions, wallet  *)
(* locking or retries: blocks are settled once, and a payout pays every    *)
(* account that is due exactly what the books owe it, in one step with the *)
(* books.                                                                  *)
(*                                                                         *)
(* The promise has three named exceptions, the price of a wallet and a     *)
(* database that share no transaction: coins sent without the books ever   *)
(* knowing (PayUnseen), a payout the books take back (Forget), and one     *)
(* they subtract again (Repeat).  The last two concern the latest payout   *)
(* only, and only until it is closed.                                      *)
(***************************************************************************)
EXTENDS Integers

CONSTANTS
  Accounts,  \* addresses with a balance
  Blocks,
  Minimum    \* smallest balance that is paid

VARIABLES
  settled,   \* settled[b]: "open", "confirmed" or "orphaned"
  earned,    \* earned[a]: all that was ever credited to a
  paid,      \* paid[a]: all that was ever sent to a
  book,      \* book[a]: what the pool still owes a
  last       \* last[a]: the payout to a that is not closed yet

ledgerVars == <<settled, earned, paid, book, last>>

Nothing == [a \in Accounts |-> 0]

Init ==
  /\ settled = [b \in Blocks |-> "open"]
  /\ earned = Nothing /\ paid = Nothing /\ book = Nothing /\ last = Nothing

\* A block matured: its reward is credited together with its status.
Confirm(b) ==
  /\ settled[b] = "open"
  /\ settled' = [settled EXCEPT ![b] = "confirmed"]
  /\ \A a \in Accounts : earned'[a] >= earned[a]
  /\ book' = [a \in Accounts |-> book[a] + (earned'[a] - earned[a])]
  /\ UNCHANGED <<paid, last>>

\* A block left the chain: nobody is credited.
Orphan(b) ==
  /\ settled[b] = "open"
  /\ settled' = [settled EXCEPT ![b] = "orphaned"]
  /\ UNCHANGED <<earned, paid, book, last>>

Due == {a \in Accounts : book[a] >= Minimum}

Owed(a) == IF a \in Due THEN book[a] ELSE 0

\* Everybody who is due is paid what he is owed; the earlier payout is closed.
PayOut ==
  /\ last = Nothing
  /\ paid' = [a \in Accounts |-> paid[a] + Owed(a)]

Pay ==
  /\ PayOut
  /\ book' = [a \in Accounts |-> book[a] - Owed(a)]
  /\ last' = [a \in Accounts |-> Owed(a)]
  /\ UNCHANGED <<settled, earned>>

PayUnseen ==
  /\ PayOut
  /\ UNCHANGED <<settled, earned, book, last>>

Close ==
  /\ last' = Nothing
  /\ UNCHANGED <<settled, earned, paid, book>>

Forget ==
  /\ book' = [a \in Accounts |-> book[a] + last[a]]
  /\ last' = Nothing
  /\ UNCHANGED <<settled, earned, paid>>

Repeat ==
  /\ book' = [a \in Accounts |-> book[a] - last[a]]
  /\ last' \in {last, Nothing}
  /\ UNCHANGED <<settled, earned, paid>>

Next ==
  \/ \E b \in Blocks : Confirm(b) \/ Orphan(b)
  \/ Pay \/ PayUnseen \/ Close \/ Forget \/ Repeat

Spec == Init /\ [][Next]_ledgerVars
=============================================================================
