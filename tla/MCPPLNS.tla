------------------------------ MODULE MCPPLNS ------------------------------
(***************************************************************************)
(* Shares 1..N, each miner submitting every other one, all of score 1 but  *)
(* the second; blocks at times 3 and 5.  Two of the shares have the same   *)
(* time.  With a window of 3 and pages of 2, the newest two shares fill a  *)
(* page and not the window: the walk goes on to a second page, where share *)
(* 2 crosses the window and is cut, and share 1 is deleted.  When the last *)
(* share of the first page is one of the two with the same time, the other *)
(* one is inside the window and on neither page.                           *)
(***************************************************************************)
EXTENDS PPLNS

CONSTANT NumShares

MCShares == 1..NumShares
MCMiner == [s \in MCShares |-> IF s % 2 = 0 THEN "m1" ELSE "m2"]
MCScore == [s \in MCShares |-> IF s = 2 THEN 2 ELSE 1]
MCBlockCreated == [b \in Blocks |-> IF b = 1 THEN 3 ELSE 5]

\* Two of the shares have the same time.
MCCreated == [s \in MCShares |-> IF s < 4 THEN s ELSE s - 1]
=============================================================================
