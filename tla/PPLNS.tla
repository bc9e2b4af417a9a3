------------------------------- MODULE PPLNS -------------------------------
(***************************************************************************)
(* PPLNSPaymentScheme.UpdateBalancesAsync: the reward of a confirmed block  *)
(* is distributed over the newest shares up to a window.  The walk reads    *)
(* the shares page by page, newest first, on connections of its own while   *)
(* the share recorder keeps inserting; it then credits the miners, deletes  *)
(* the shares before the cut-off and confirms the block in one transaction. *)
(*                                                                          *)
(* A score is Difficulty / NetworkDifficulty in units such that the window  *)
(* is whole; a unit of score earns RewardPerScore, so that the reward of a  *)
(* block is Window * RewardPerScore and the code's decimal division         *)
(* score * blockReward / window is exact.                                   *)
(***************************************************************************)
EXTENDS Integers, FiniteSets, Functions, FiniteSetsExt

CONSTANTS
  Shares,         \* shares that the miners submit
  Miners,
  Miner,          \* Miner[s]: the address share s is paid to
  Score,          \* Score[s]
  Created,        \* Created[s]: time of submission, a positive number
  Blocks,         \* blocks the daemon reports as matured
  NoBlock,        \* the value of cur between two walks
  BlockCreated,   \* BlockCreated[b]
  Window,         \* the factor of the configuration
  RewardPerScore,
  PageSize,       \* shares per page (50000)
  MaxFaults       \* bound: failing reads or transactions in a behaviour

ASSUME SharesAssumption ==
  /\ IsFiniteSet(Miners)
  /\ Miner \in [Shares -> Miners]
  /\ Score \in [Shares -> Nat]
  /\ Created \in [Shares -> Nat \ {0}]

ASSUME BlocksAssumption ==
  /\ BlockCreated \in [Blocks -> Nat]
  /\ NoBlock \notin Blocks

ASSUME WindowAssumption ==
  /\ Window \in Nat \ {0}
  /\ RewardPerScore \in Nat
  /\ PageSize \in Nat \ {0}
  /\ MaxFaults \in Nat

BlockReward == Window * RewardPerScore

VARIABLES
  table,       \* rows of the table shares
  submitted,   \* shares inserted so far (history)
  status,      \* blocks.status of each block
  balance,     \* balances.amount of each miner
  \* the walk
  pc, cur,
  before, inclusive,   \* the range of the next page
  page,                \* shares of the page not looked at yet
  pageFull,            \* page.Length = pageSize
  pageEnd,             \* Created of the last share of the page
  accumulated,         \* accumulatedScore
  remaining,           \* blockRewardRemaining
  rewards,
  cutoff,              \* shareCutOffDate, 0 for null
  done,
  \* history, read by no action
  known,       \* rows when the walk began
  counted,     \* shares the walk has looked at
  boundaries,  \* Created of the last shares of full pages
  overflow,    \* an OverflowException was thrown
  faults

tableVars == <<table, submitted>>
bookVars  == <<status, balance>>
pageVars  == <<before, inclusive, page, pageFull, pageEnd>>
sumVars   == <<accumulated, remaining, rewards, cutoff, done, counted>>
vars == <<tableVars, bookVars, pc, cur, pageVars, sumVars, known, boundaries, overflow, faults>>

TypeOK ==
  /\ table \subseteq submitted /\ submitted \subseteq Shares
  /\ status \in [Blocks -> {"pending", "confirmed"}]
  /\ balance \in [Miners -> Nat]
  /\ pc \in {"idle", "fetch", "page", "update"}
  /\ cur \in Blocks \cup {NoBlock}
  /\ before \in Nat /\ inclusive \in BOOLEAN
  /\ page \subseteq Shares /\ pageFull \in BOOLEAN /\ pageEnd \in Nat
  /\ accumulated \in Nat /\ remaining \in Nat
  /\ rewards \in [Miners -> Nat]
  /\ cutoff \in Nat /\ done \in BOOLEAN
  /\ known \subseteq Shares /\ counted \subseteq Shares /\ boundaries \subseteq Nat
  /\ overflow \in BOOLEAN /\ faults \in 0..MaxFaults

Init ==
  /\ table = {} /\ submitted = {}
  /\ status = [b \in Blocks |-> "pending"]
  /\ balance = [m \in Miners |-> 0]
  /\ pc = "idle" /\ cur = NoBlock
  /\ before = 0 /\ inclusive = FALSE /\ page = {} /\ pageFull = FALSE /\ pageEnd = 0
  /\ accumulated = 0 /\ remaining = 0 /\ rewards = [m \in Miners |-> 0]
  /\ cutoff = 0 /\ done = FALSE
  /\ known = {} /\ counted = {} /\ boundaries = {} /\ overflow = FALSE /\ faults = 0

\* The share recorder commits a share.  It may come late: its Created is that of
\* its submission, and batches wait, are retried and go through the recovery file.
InsertShare(s) ==
  /\ s \notin submitted
  /\ table' = table \cup {s}
  /\ submitted' = submitted \cup {s}
  /\ UNCHANGED <<bookVars, pc, cur, pageVars, sumVars, known, boundaries, overflow, faults>>

-----------------------------------------------------------------------------
\* CalculateRewards starts at the block's own time, that time included.
BeginWalk(b) ==
  /\ pc = "idle"
  /\ status[b] = "pending"
  /\ pc' = "fetch" /\ cur' = b
  /\ before' = BlockCreated[b] /\ inclusive' = TRUE
  /\ accumulated' = 0 /\ remaining' = BlockReward /\ rewards' = [m \in Miners |-> 0]
  /\ cutoff' = 0 /\ done' = FALSE
  /\ known' = table /\ counted' = {} /\ boundaries' = {}
  /\ UNCHANGED <<tableVars, bookVars, page, pageFull, pageEnd, overflow, faults>>

InRange(s) == IF inclusive THEN Created[s] <= before ELSE Created[s] < before

\* The pages that ReadSharesBeforeCreated may return: the newest shares in range,
\* at most PageSize of them; which of several shares with the same Created make it
\* into a full page is up to the database.
Pages ==
  LET range == {s \in table : InRange(s)}
  IN {p \in SUBSET range :
        /\ Cardinality(p) = Min({PageSize, Cardinality(range)})
        /\ \A s \in p, t \in range \ p : Created[s] >= Created[t]}

\* Mutant of FetchPage: the next page may begin with the last share of this one.
FetchPageInclusive ==
  /\ pc = "fetch"
  /\ page' \in Pages
  /\ pageFull' = (Cardinality(page') = PageSize)
  /\ \/ page' = {} /\ pageEnd' = 0
     \/ \E last \in page' : /\ \A s \in page' : Created[last] <= Created[s]
                            /\ pageEnd' = Created[last]
  /\ boundaries' = IF pageFull' THEN boundaries \cup {pageEnd'} ELSE boundaries
  /\ pc' = "page"
  /\ UNCHANGED <<tableVars, bookVars, cur, before, inclusive, sumVars, known, overflow, faults>>

FetchPage ==
  /\ pc = "fetch"
  /\ page' \in Pages
  /\ inclusive' = FALSE
  /\ pageFull' = (Cardinality(page') = PageSize)
  /\ \/ page' = {} /\ pageEnd' = 0
     \/ \E last \in page' : /\ \A s \in page' : Created[last] <= Created[s]
                            /\ pageEnd' = Created[last]
  /\ boundaries' = IF pageFull' THEN boundaries \cup {pageEnd'} ELSE boundaries
  /\ pc' = "page"
  /\ UNCHANGED <<tableVars, bookVars, cur, before, sumVars, known, overflow, faults>>

\* Mutant of Capped: the score that crosses the window is paid in full.
Uncapped(score) == score

\* The score of a share, cut to what is left of the window.
Capped(score) ==
  IF accumulated + score >= Window THEN Window - accumulated ELSE score

\* The reward is used up before the window is full.
Exhausted(reward, crosses) == remaining - reward <= 0 /\ ~crosses

\* Back to the loop of PayoutManager: the transaction is rolled back.
EndWalk ==
  /\ pc' = "idle" /\ cur' = NoBlock
  /\ before' = 0 /\ inclusive' = FALSE /\ page' = {} /\ pageFull' = FALSE /\ pageEnd' = 0
  /\ accumulated' = 0 /\ remaining' = 0 /\ rewards' = [m \in Miners |-> 0]
  /\ cutoff' = 0 /\ done' = FALSE
  /\ known' = {} /\ counted' = {} /\ boundaries' = {}

Rewarded(miner, reward) == [rewards EXCEPT ![miner] = @ + reward]

\* One share of the page, newest first.
CountShare(s) ==
  LET score == Capped(Score[s])
      reward == score * RewardPerScore
      crosses == accumulated + Score[s] >= Window
  IN /\ pc = "page" /\ ~done
     /\ s \in page /\ \A t \in page : Created[t] <= Created[s]
     /\ IF Exhausted(reward, crosses)
        THEN overflow' = TRUE /\ EndWalk
        ELSE /\ page' = page \ {s}
             /\ done' = crosses
             /\ cutoff' = IF crosses THEN Created[s] ELSE cutoff
             /\ accumulated' = accumulated + score
             /\ remaining' = remaining - reward
             /\ rewards' = Rewarded(Miner[s], reward)
             /\ counted' = counted \cup {s}
             /\ UNCHANGED <<pc, cur, before, inclusive, pageFull, pageEnd, known,
                            boundaries, overflow>>
     /\ UNCHANGED <<tableVars, bookVars, faults>>

\* Mutant of EndPage: the next page ends one tick before the last share.
EndPageEarlier ==
  /\ pc = "page" /\ (done \/ page = {})
  /\ IF done \/ ~pageFull
     THEN pc' = "update" /\ UNCHANGED before
     ELSE pc' = "fetch" /\ before' = pageEnd - 1
  /\ page' = {}
  /\ UNCHANGED <<tableVars, bookVars, cur, inclusive, pageFull, pageEnd, sumVars, known,
                 boundaries, overflow, faults>>

\* Mutant of EndPage: a short page does not end the walk.
EndPageNeverLast ==
  /\ pc = "page" /\ (done \/ page = {})
  /\ IF done
     THEN pc' = "update" /\ UNCHANGED before
     ELSE pc' = "fetch" /\ before' = pageEnd
  /\ page' = {}
  /\ UNCHANGED <<tableVars, bookVars, cur, inclusive, pageFull, pageEnd, sumVars, known,
                 boundaries, overflow, faults>>

\* The walk ends at the window or with a page that is not full; otherwise the next
\* page ends before the last share of this one.
EndPage ==
  /\ pc = "page" /\ (done \/ page = {})
  /\ IF done \/ ~pageFull
     THEN pc' = "update" /\ UNCHANGED before
     ELSE pc' = "fetch" /\ before' = pageEnd
  /\ page' = {}
  /\ UNCHANGED <<tableVars, bookVars, cur, inclusive, pageFull, pageEnd, sumVars, known,
                 boundaries, overflow, faults>>

\* Mutant of Discarded: the shares of the window before the block are discarded.
DiscardedBeforeBlock == IF cutoff = 0 THEN {} ELSE {s \in table : Created[s] < BlockCreated[cur]}

\* DeleteSharesBeforeCreated.
Discarded == IF cutoff = 0 THEN {} ELSE {s \in table : Created[s] < cutoff}

\* The rest of UpdateBalancesAsync and the commit: balances, deleted shares and the
\* status of the block change together.
UpdateBalances ==
  /\ pc = "update"
  /\ balance' = [m \in Miners |-> balance[m] + rewards[m]]
  /\ table' = table \ Discarded
  /\ status' = [status EXCEPT ![cur] = "confirmed"]
  /\ EndWalk
  /\ UNCHANGED <<submitted, overflow, faults>>

\* A page cannot be read although it was retried, or the transaction fails.
Fail ==
  /\ pc # "idle"
  /\ faults < MaxFaults /\ faults' = faults + 1
  /\ EndWalk
  /\ UNCHANGED <<tableVars, bookVars, overflow>>

Walk ==
  \/ \E b \in Blocks : BeginWalk(b)
  \/ FetchPage
  \/ \E s \in Shares : CountShare(s)
  \/ EndPage
  \/ UpdateBalances

Next ==
  \/ Walk
  \/ Fail
  \/ \E s \in Shares : InsertShare(s)

Spec == Init /\ [][Next]_vars

\* The payment thread keeps running.
FairSpec == Spec /\ WF_vars(Walk)

-----------------------------------------------------------------------------
(***************************************************************************)
(* What PPLNS promises, as a definition: every share not newer than the    *)
(* block earns its score, cut to what the newer shares leave of the window.*)
(* It is meant for shares of distinct times.                               *)
(***************************************************************************)
Earned(S, s) ==
  LET newer == {t \in S : Created[t] > Created[s]}
      left == Window - SumFunctionOnSet(Score, newer)
  IN Max({0, Min({Score[s], left})}) * RewardPerScore

Reference(S, b) ==
  LET eligible == {s \in S : Created[s] <= BlockCreated[b]}
      earned == [s \in eligible |-> Earned(eligible, s)]
  IN [m \in Miners |-> SumFunctionOnSet(earned, {s \in eligible : Miner[s] = m})]

DistinctTimes(S) == \A s, t \in S : s # t => Created[s] # Created[t]

\* The pages together hold what one query would: the walk pays what the definition
\* says of the shares it met, and those are all shares there were when it began.
MatchesReference ==
  pc = "update" /\ DistinctTimes(known \cup counted) =>
    /\ rewards = Reference(counted, cur)
    /\ table = known => rewards = Reference(known, cur)

\* A share is never counted twice in one walk, although shares keep arriving
\* between two pages.
NeverCountedTwice == page \cap counted = {}

\* A share that was there from the start and lies inside the window is passed over
\* only if its Created is exactly that of the last share of a full page.
SkipsOnlyTies ==
  pc = "update" =>
    \A s \in known \ counted :
      \/ Created[s] > BlockCreated[cur]
      \/ done /\ Created[s] <= cutoff
      \/ Created[s] \in boundaries

\* A walk that is not finished has filled less than the window, and what it has
\* distributed is in proportion to what it has filled.
Proportional ==
  pc # "idle" =>
    /\ remaining + accumulated * RewardPerScore = BlockReward
    /\ accumulated <= Window
    /\ done <=> accumulated = Window

\* The share that "should never" exhaust the reward before the window is full never
\* does.
NeverOverflows == ~overflow

\* What is deleted after a block is not missed by the blocks found after it: their
\* rewards would be the same with the deleted shares.
DeletionSparesLaterBlocks ==
  [][\A b, c \in Blocks :
       /\ status[b] = "pending" /\ status'[b] = "confirmed"
       /\ BlockCreated[b] < BlockCreated[c]
       => Reference(table', c) = Reference(table, c)]_vars

\* A walk always comes to an end, however the pages fall.
WalkTerminates == (pc # "idle") ~> (pc = "idle")
=============================================================================
