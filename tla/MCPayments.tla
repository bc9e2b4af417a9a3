----------------------------- MODULE MCPayments -----------------------------
(* Instances of Payments for TLC.  Rewards and percentages are chosen so that *)
(* the amounts are whole: a reward of 4, 25 % for the operator, 25 % for the   *)
(* pool's own address, the rest for the miners.                                *)
EXTENDS Payments

MCBlockReward == [b \in Blocks |-> 4]
MCRecipients == {"operator", "pool"}
MCPercentage == [p \in MCRecipients |-> 25]
=============================================================================
