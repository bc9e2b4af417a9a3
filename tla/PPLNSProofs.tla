---------------------------- MODULE PPLNSProofs ----------------------------
(***************************************************************************)
(* Proofs about PPLNS, for any table of shares, any page size and window:  *)
(* the walk's own invariants, then what it computes, compared with the     *)
(* definition of the scheme by sums over the table.                        *)
(***************************************************************************)
EXTENDS PPLNS, SumTheorems, TLAPS

USE DEF tableVars, bookVars, pageVars, sumVars, vars

\* The walk goes back in time: what it still has to read is older than what it has
\* counted.
GoesBack ==
  /\ pc = "fetch" => page = {} /\ ~done
  /\ pc = "fetch" /\ inclusive => counted = {}
  /\ pc = "fetch" /\ ~inclusive => \A s \in counted : Created[s] >= before
  /\ pc = "page" => /\ ~inclusive
                    /\ \A s \in page, t \in counted : Created[s] <= Created[t]
                    /\ \A s \in page : pageEnd <= Created[s]
                    /\ \A t \in counted : pageFull => pageEnd <= Created[t]
  /\ pc # "page" => page = {}
  /\ pc = "idle" => counted = {}
  /\ pc # "idle" => cur \in Blocks

IInv ==
  /\ TypeOK
  /\ GoesBack
  /\ Proportional
  /\ NeverCountedTwice
  /\ RewardPerScore > 0 => NeverOverflows

LEMMA BlockRewardType == BlockReward \in Nat /\ 0 * RewardPerScore = 0
BY WindowAssumption DEF BlockReward

LEMMA Distribute ==
  ASSUME NEW x \in Nat, NEW y \in Nat, NEW z \in Nat
  PROVE  (x + y) * z = x * z + y * z
OBVIOUS

LEMMA ProductType ==
  ASSUME NEW x \in Nat, NEW y \in Nat
  PROVE  x * y \in Nat /\ (x > 0 /\ y > 0 => x * y > 0)
OBVIOUS


LEMMA TypeInit == Init => IInv
<1> SUFFICES ASSUME Init PROVE IInv
  OBVIOUS
<1>1. TypeOK
  <2>1. inclusive \in BOOLEAN /\ pageFull \in BOOLEAN /\ done \in BOOLEAN /\ overflow \in BOOLEAN
    BY Zenon DEF Init
  <2>2. /\ status \in [Blocks -> {"pending", "confirmed"}] /\ balance \in [Miners -> Nat]
        /\ rewards \in [Miners -> Nat] /\ faults \in 0..MaxFaults
    BY WindowAssumption DEF Init
  <2> QED BY <2>1, <2>2 DEF Init, TypeOK
<1>2. GoesBack /\ Proportional /\ NeverCountedTwice /\ NeverOverflows
  BY DEF Init, GoesBack, Proportional, NeverCountedTwice, NeverOverflows
<1> QED BY <1>1, <1>2 DEF IInv

\* After EndWalk nothing of the walk is left.
LEMMA EndWalkFresh ==
  ASSUME EndWalk
  PROVE  /\ GoesBack' /\ Proportional' /\ NeverCountedTwice'
         /\ pc' = "idle" /\ cur' = NoBlock /\ before' \in Nat /\ inclusive' \in BOOLEAN
         /\ page' \subseteq Shares /\ pageFull' \in BOOLEAN /\ pageEnd' \in Nat
         /\ accumulated' \in Nat /\ remaining' \in Nat /\ rewards' \in [Miners -> Nat]
         /\ cutoff' \in Nat /\ done' \in BOOLEAN
         /\ known' \subseteq Shares /\ counted' \subseteq Shares /\ boundaries' \subseteq Nat
<1>1. GoesBack' /\ Proportional' /\ NeverCountedTwice'
  BY DEF EndWalk, GoesBack, Proportional, NeverCountedTwice
<1>2. inclusive' \in BOOLEAN /\ pageFull' \in BOOLEAN /\ done' \in BOOLEAN
  BY Zenon DEF EndWalk
<1>3. /\ pc' = "idle" /\ cur' = NoBlock /\ before' \in Nat /\ page' \subseteq Shares
      /\ pageEnd' \in Nat /\ accumulated' \in Nat /\ remaining' \in Nat
      /\ rewards' \in [Miners -> Nat] /\ cutoff' \in Nat
      /\ known' \subseteq Shares /\ counted' \subseteq Shares /\ boundaries' \subseteq Nat
  BY DEF EndWalk
<1> QED BY <1>1, <1>2, <1>3

LEMMA StepInsertShare ==
  ASSUME IInv, NEW s \in Shares, InsertShare(s) PROVE IInv'
BY DEF IInv, TypeOK, GoesBack, Proportional, NeverCountedTwice, NeverOverflows, InsertShare

LEMMA StepBeginWalk ==
  ASSUME IInv, NEW b \in Blocks, BeginWalk(b) PROVE IInv'
<1> USE DEF BeginWalk
<1>1. TypeOK'
  <2>1. inclusive' \in BOOLEAN /\ done' \in BOOLEAN
    BY Zenon
  <2> QED BY <2>1, BlocksAssumption, BlockRewardType DEF IInv, TypeOK
<1>2. GoesBack'
  BY DEF IInv, GoesBack
<1>3. Proportional'
  <2>1. accumulated' = 0 /\ remaining' = BlockReward /\ done' = FALSE
    OBVIOUS
  <2>2. remaining' + accumulated' * RewardPerScore = BlockReward
    BY <2>1, BlockRewardType
  <2>3. accumulated' <= Window /\ accumulated' # Window
    BY <2>1, WindowAssumption
  <2>4. (done' <=> accumulated' = Window)
    BY <2>1, <2>3
  <2> QED BY <2>2, <2>3, <2>4 DEF Proportional, BlockReward
<1>4. NeverCountedTwice' /\ UNCHANGED overflow
  BY DEF NeverCountedTwice
<1> QED BY <1>1, <1>2, <1>3, <1>4 DEF IInv, NeverOverflows

LEMMA StepFetchPage ==
  ASSUME IInv, FetchPage PROVE IInv'
<1> USE DEF FetchPage
<1>1. page' \subseteq {s \in table : InRange(s)}
  BY DEF Pages
<1>2. page' \subseteq Shares
  BY <1>1 DEF IInv, TypeOK
<1>3. pageFull' \in BOOLEAN /\ inclusive' \in BOOLEAN
  BY Zenon
<1>4. pageEnd' \in Nat /\ \A s \in page' : pageEnd' <= Created[s]
  <2>1. CASE page' = {} /\ pageEnd' = 0
    BY <2>1
  <2>2. CASE \E last \in page' : /\ \A s \in page' : Created[last] <= Created[s]
                                 /\ pageEnd' = Created[last]
    BY <1>2, <2>2, SharesAssumption
  <2> QED BY <2>1, <2>2
<1>5. boundaries' \subseteq Nat
  BY <1>4 DEF IInv, TypeOK
<1>6. TypeOK'
  BY <1>2, <1>3, <1>4, <1>5 DEF IInv, TypeOK
<1>7. \A s \in page', t \in counted : Created[s] < Created[t]
  <2> SUFFICES ASSUME NEW s \in page', NEW t \in counted PROVE Created[s] < Created[t]
    OBVIOUS
  <2>1. ~inclusive /\ Created[t] >= before
    BY DEF IInv, GoesBack
  <2>2. Created[s] < before
    BY <1>1, <2>1 DEF InRange
  <2>3. Created[s] \in Nat /\ Created[t] \in Nat /\ before \in Nat
    BY <1>2, SharesAssumption DEF IInv, TypeOK
  <2> QED BY <2>1, <2>2, <2>3
<1>8. page' # {} => \A t \in counted : pageEnd' <= Created[t]
  <2> SUFFICES ASSUME NEW s \in page', NEW t \in counted PROVE pageEnd' <= Created[t]
    OBVIOUS
  <2>1. Created[s] \in Nat /\ Created[t] \in Nat
    BY <1>2, SharesAssumption DEF IInv, TypeOK
  <2> QED BY <1>4, <1>7, <2>1
<1>9. page' = {} => pageEnd' = 0
  OBVIOUS
<1>10. \A t \in counted : pageEnd' <= Created[t]
  <2>1. \A t \in counted : Created[t] \in Nat
    BY SharesAssumption DEF IInv, TypeOK
  <2> QED BY <1>8, <1>9, <2>1
<1>11. GoesBack'
  <2>1. \A s \in page', t \in counted : Created[s] <= Created[t]
    <3> SUFFICES ASSUME NEW s \in page', NEW t \in counted PROVE Created[s] <= Created[t]
      OBVIOUS
    <3>1. Created[s] \in Nat /\ Created[t] \in Nat
      BY <1>2, SharesAssumption DEF IInv, TypeOK
    <3> QED BY <1>7, <3>1
  <2> QED BY <1>4, <1>10, <2>1 DEF IInv, GoesBack
<1>12. NeverCountedTwice'
  <2> SUFFICES ASSUME NEW s \in page', s \in counted PROVE FALSE
    BY DEF NeverCountedTwice
  <2>1. Created[s] \in Nat /\ Created[s] < Created[s]
    BY <1>2, <1>7, SharesAssumption
  <2> QED BY <2>1
<1>13. Proportional' /\ UNCHANGED overflow
  BY DEF IInv, Proportional
<1> QED BY <1>6, <1>11, <1>12, <1>13 DEF IInv, NeverOverflows

LEMMA StepCountShare ==
  ASSUME IInv, NEW s \in Shares, CountShare(s) PROVE IInv'
<1> DEFINE score == Capped(Score[s])
           reward == score * RewardPerScore
           crosses == accumulated + Score[s] >= Window
<1>1. Score[s] \in Nat /\ Miner[s] \in Miners /\ Created[s] \in Nat
  BY SharesAssumption
<1>2. accumulated \in Nat /\ remaining \in Nat /\ accumulated < Window /\ Window \in Nat
      /\ RewardPerScore \in Nat
  <2>1. pc = "page" /\ ~done
    BY DEF CountShare
  <2>2. accumulated <= Window /\ (done <=> accumulated = Window)
    BY <2>1 DEF IInv, Proportional
  <2>3. accumulated # Window
    BY <2>1, <2>2, Zenon
  <2> QED BY <2>2, <2>3, WindowAssumption DEF IInv, TypeOK
<1>3. /\ score \in Nat
      /\ accumulated + score <= Window
      /\ crosses <=> accumulated + score = Window
  BY <1>1, <1>2 DEF Capped
<1>4. reward \in Nat
  BY <1>2, <1>3, ProductType
<1>5. remaining + accumulated * RewardPerScore = Window * RewardPerScore
  BY DEF IInv, Proportional, CountShare, BlockReward
<1> DEFINE left == Window - (accumulated + score)
<1>6. left \in Nat /\ Window = (accumulated + score) + left
  BY <1>2, <1>3
<1> HIDE DEF score, left
<1>7. (accumulated + score) * RewardPerScore
        = accumulated * RewardPerScore + score * RewardPerScore
  BY <1>2, <1>3, Distribute
<1>8. Window * RewardPerScore
        = (accumulated + score) * RewardPerScore + left * RewardPerScore
  <2>1. accumulated + score \in Nat
    BY <1>2, <1>3
  <2> DEFINE filled == accumulated + score
  <2> HIDE DEF filled
  <2>2. (filled + left) * RewardPerScore = filled * RewardPerScore + left * RewardPerScore
    BY <1>2, <1>6, <2>1, Distribute DEF filled
  <2> QED BY <1>6, <2>2 DEF filled
<1>9. remaining - reward = left * RewardPerScore
  <2> DEFINE a == accumulated * RewardPerScore  l == left * RewardPerScore
             w == Window * RewardPerScore  f == (accumulated + score) * RewardPerScore
             r == score * RewardPerScore
  <2>1. a \in Nat /\ l \in Nat /\ w \in Nat /\ f \in Nat /\ r \in Nat
    BY <1>2, <1>3, <1>6, ProductType
  <2>2. remaining + a = w /\ f = a + r /\ w = f + l /\ reward = r
    BY <1>5, <1>7, <1>8
  <2> HIDE DEF a, l, w, f, r, reward
  <2>3. remaining - reward = l
    BY <1>2, <2>1, <2>2
  <2> QED BY <2>3 DEF l
<1>10. left * RewardPerScore \in Nat
  BY <1>2, <1>6, ProductType
<1> HIDE DEF reward, crosses
<1>11. CASE Exhausted(reward, crosses)
  <2>1. ~crosses /\ left * RewardPerScore <= 0
    BY <1>9, <1>11 DEF Exhausted
  <2>2. left > 0
    <3>1. accumulated + score # Window
      BY <1>3, <2>1, Zenon
    <3> QED BY <1>2, <1>3, <1>6, <3>1
  <2>3. ~(RewardPerScore > 0)
    BY <1>2, <1>6, <2>1, <2>2, ProductType
  <2>4. overflow' = TRUE /\ EndWalk /\ UNCHANGED <<tableVars, bookVars, faults>>
    BY <1>11 DEF CountShare, reward, crosses, score
  <2>5. overflow' \in BOOLEAN
    BY <2>4, Zenon
  <2>6. TypeOK'
    BY <2>4, <2>5, EndWalkFresh DEF IInv, TypeOK
  <2> QED BY <2>3, <2>4, <2>6, EndWalkFresh DEF IInv
<1>12. CASE ~Exhausted(reward, crosses)
  <2>1. /\ page' = page \ {s}
        /\ done' = crosses
        /\ cutoff' = IF crosses THEN Created[s] ELSE cutoff
        /\ accumulated' = accumulated + score
        /\ remaining' = remaining - reward
        /\ rewards' = Rewarded(Miner[s], reward)
        /\ counted' = counted \cup {s}
        /\ UNCHANGED <<pc, cur, before, inclusive, pageFull, pageEnd, known,
                       boundaries, overflow, tableVars, bookVars, faults>>
    BY <1>12 DEF CountShare, reward, crosses, score
  <2>2. remaining' \in Nat /\ accumulated' \in Nat
    BY <1>2, <1>3, <1>9, <1>10, <2>1
  <2>3. rewards' \in [Miners -> Nat]
    BY <1>1, <1>4, <2>1 DEF IInv, TypeOK, Rewarded
  <2>4. done' \in BOOLEAN
    <3>1. crosses \in BOOLEAN
      BY DEF crosses
    <3> QED BY <2>1, <3>1, Zenon
  <2>5. TypeOK'
    BY <1>1, <2>1, <2>2, <2>3, <2>4 DEF IInv, TypeOK
  <2>6. Proportional'
    <3>1. remaining' + accumulated' * RewardPerScore = BlockReward
      <4> DEFINE l == left * RewardPerScore  w == Window * RewardPerScore
                 f == (accumulated + score) * RewardPerScore
      <4>1. remaining' = l /\ accumulated' * RewardPerScore = f /\ BlockReward = w
        BY <1>9, <2>1 DEF BlockReward
      <4>2. w = f + l /\ l \in Nat /\ f \in Nat
        BY <1>2, <1>3, <1>8, <1>10, ProductType
      <4> HIDE DEF l, w, f
      <4> QED BY <4>1, <4>2
    <3>2. accumulated' <= Window /\ (done' <=> accumulated' = Window)
      BY <1>3, <2>1 DEF crosses, score
    <3> QED BY <3>1, <3>2 DEF Proportional, BlockReward
  <2>7. NeverCountedTwice'
    BY <2>1 DEF IInv, NeverCountedTwice
  <2>8. GoesBack'
    <3>1. pc = "page" /\ s \in page /\ \A t \in page : Created[t] <= Created[s]
      BY DEF CountShare
    <3>2. \A t \in page', u \in counted' : Created[t] <= Created[u]
      BY <2>1, <3>1 DEF IInv, GoesBack
    <3>3. \A u \in counted' : pageFull => pageEnd <= Created[u]
      BY <2>1, <3>1 DEF IInv, GoesBack
    <3>4. \A t \in page' : pageEnd <= Created[t]
      BY <2>1, <3>1 DEF IInv, GoesBack
    <3> QED BY <2>1, <3>1, <3>2, <3>3, <3>4 DEF IInv, GoesBack
  <2> QED BY <2>1, <2>5, <2>6, <2>7, <2>8 DEF IInv, NeverOverflows
<1> QED BY <1>11, <1>12

LEMMA StepEndPage ==
  ASSUME IInv, EndPage PROVE IInv'
<1> USE DEF EndPage
<1>1. TypeOK'
  BY DEF IInv, TypeOK
<1>2. GoesBack'
  <2>1. CASE done \/ ~pageFull
    BY <2>1 DEF IInv, GoesBack
  <2>2. CASE ~done /\ pageFull
    BY <2>2 DEF IInv, GoesBack
  <2> QED BY <2>1, <2>2
<1>3. Proportional' /\ NeverCountedTwice' /\ UNCHANGED overflow
  BY DEF IInv, Proportional, NeverCountedTwice
<1> QED BY <1>1, <1>2, <1>3 DEF IInv, NeverOverflows

LEMMA StepUpdateBalances ==
  ASSUME IInv, UpdateBalances PROVE IInv'
<1> USE DEF UpdateBalances
<1>1. balance' \in [Miners -> Nat] /\ table' \subseteq submitted'
  BY DEF IInv, TypeOK
<1>2. cur \in Blocks
  BY DEF IInv, GoesBack
<1>3. status' \in [Blocks -> {"pending", "confirmed"}]
  BY <1>2 DEF IInv, TypeOK
<1>4. TypeOK'
  BY <1>1, <1>3, EndWalkFresh DEF IInv, TypeOK
<1> QED BY <1>4, EndWalkFresh DEF IInv, NeverOverflows

LEMMA StepFail ==
  ASSUME IInv, Fail PROVE IInv'
<1> USE DEF Fail
<1>1. TypeOK'
  BY EndWalkFresh, WindowAssumption DEF IInv, TypeOK
<1> QED BY <1>1, EndWalkFresh DEF IInv, NeverOverflows

LEMMA IInvStep == IInv /\ [Next]_vars => IInv'
<1>1. ASSUME IInv, UNCHANGED vars PROVE IInv'
  BY <1>1 DEF IInv, TypeOK, GoesBack, Proportional, NeverCountedTwice, NeverOverflows
<1> QED
  BY <1>1, StepInsertShare, StepBeginWalk, StepFetchPage, StepCountShare, StepEndPage,
     StepUpdateBalances, StepFail DEF Next, Walk

LEMMA IInvAlways == Spec => []IInv
BY TypeInit, IInvStep, PTL DEF Spec

\* The walk stays well typed; in particular the rest of the reward is never negative.
THEOREM TypeCorrect == Spec => []TypeOK
<1>1. IInv => TypeOK
  BY DEF IInv
<1> QED BY <1>1, IInvAlways, PTL

\* No share is counted twice in a walk, for any page size and with shares arriving
\* between the pages (CalculateRewards).
THEOREM NoShareCountedTwice == Spec => []NeverCountedTwice
<1>1. IInv => NeverCountedTwice
  BY DEF IInv
<1> QED BY <1>1, IInvAlways, PTL

\* What is distributed is in proportion to the filled part of the window, which is
\* never exceeded (CalculateRewards).
THEOREM AlwaysProportional == Spec => []Proportional
<1>1. IInv => Proportional
  BY DEF IInv
<1> QED BY <1>1, IInvAlways, PTL

\* The OverflowException of CalculateRewards is never thrown for a positive reward.
THEOREM PositiveRewardNeverOverflows ==
  ASSUME RewardPerScore > 0 PROVE Spec => []NeverOverflows
<1>1. IInv => NeverOverflows
  BY DEF IInv
<1> QED BY <1>1, IInvAlways, PTL
-----------------------------------------------------------------------------
(***************************************************************************)
(* What the walk covers, and what the sums stand for                       *)
(***************************************************************************)

\* Rows are deleted by a walk's own transaction only.
RowsStay ==
  /\ IsFiniteSet(submitted)
  /\ pc # "idle" => known \subseteq table /\ counted \subseteq table /\ page \subseteq table

\* Where the walk still gets to.
Ahead(s) ==
  \/ pc = "fetch" /\ InRange(s)
  \/ pc = "page" /\ (s \in page \/ (pageFull /\ Created[s] < pageEnd))
  \/ pc = "update" /\ done /\ Created[s] <= cutoff

\* A share that was there from the start is counted, or the walk still gets to it, or the
\* window was filled before, or it is hidden by a boundary.
Coverage ==
  pc # "idle" =>
    \A s \in known \ counted :
      Created[s] > BlockCreated[cur] \/ Created[s] \in boundaries \/ Ahead(s)

\* Everything the walk meets is older than the block, and a boundary is the time of a share
\* that the walk met; when the window is full, what was counted is not older than the cut-off
\* and what was not is not newer.
Cut ==
  /\ pc = "fetch" => before <= BlockCreated[cur]
  /\ pc = "page" => /\ \A s \in page : Created[s] <= BlockCreated[cur]
                    /\ pageEnd <= BlockCreated[cur]
                    /\ pageFull => pageEnd \in boundaries
                    /\ done => pageEnd <= cutoff /\ \A s \in page : Created[s] <= cutoff
  /\ \A s \in counted : Created[s] <= BlockCreated[cur]
  /\ done => cutoff > 0 /\ \A s \in counted : Created[s] >= cutoff
  /\ ~done => cutoff = 0
  /\ \A x \in boundaries : \/ \E t \in counted \cup page : Created[t] = x
                           \/ pc = "update" /\ done /\ x <= cutoff

WInv == IInv /\ RowsStay /\ Coverage /\ Cut

LEMMA CreatedType == \A s \in Shares : Created[s] \in Nat /\ Created[s] > 0
BY SharesAssumption

LEMMA WInvInit == Init => WInv
<1> SUFFICES ASSUME Init PROVE WInv
  OBVIOUS
<1>1. IInv
  BY TypeInit
<1>2. RowsStay /\ Coverage /\ Cut
  BY FS_EmptySet DEF Init, RowsStay, Coverage, Cut
<1> QED BY <1>1, <1>2 DEF WInv

\* At the end of a walk nothing of it is left.
LEMMA EndWalkRest ==
  ASSUME EndWalk
  PROVE  Coverage' /\ Cut' /\ pc' = "idle"
BY DEF EndWalk, Coverage, Cut

LEMMA WInvFetchPage == ASSUME WInv, IInv', FetchPage PROVE WInv'
<1> USE DEF FetchPage
<1> DEFINE range == {s \in table : InRange(s)}
<1>1. /\ page' \subseteq range /\ page' \subseteq Shares
      /\ Cardinality(page') = Min({PageSize, Cardinality(range)})
      /\ \A s \in page', t \in range \ page' : Created[s] >= Created[t]
  BY DEF Pages, IInv, TypeOK
<1>2. pc = "fetch" /\ pc' = "page" /\ ~done /\ cur \in Blocks /\ before \in Nat
  BY DEF WInv, IInv, GoesBack, TypeOK
<1>3. IsFiniteSet(range) /\ IsFiniteSet(page')
  <2>1. IsFiniteSet(range)
    BY FS_Subset DEF WInv, RowsStay, IInv, TypeOK
  <2> QED BY <1>1, <2>1, FS_Subset
<1>4. ~pageFull' => page' = range
  <2> SUFFICES ASSUME ~pageFull' PROVE page' = range
    OBVIOUS
  <2> DEFINE n == Cardinality(range)
  <2>1. n \in Nat /\ PageSize \in Nat
    BY <1>3, FS_CardinalityType, WindowAssumption
  <2>2. Cardinality(page') # PageSize
    OBVIOUS
  <2> HIDE DEF n
  <2>3. Min({PageSize, n}) \in {PageSize, n}
    <3>1. \E x \in {PageSize, n} : \A y \in {PageSize, n} : x <= y
      BY <2>1
    <3> QED BY <3>1 DEF Min
  <2>4. Cardinality(page') = n
    BY <1>1, <2>2, <2>3 DEF n
  <2> QED BY <1>1, <1>3, <2>4, FS_Subset DEF n
<1>5. \A s \in page' : Created[s] <= before
  <2> TAKE s \in page'
  <2>1. InRange(s) /\ Created[s] \in Nat
    BY <1>1, CreatedType
  <2> QED BY <1>2, <2>1 DEF InRange
<1>6. \/ page' = {} /\ pageEnd' = 0
      \/ \E last \in page' : pageEnd' = Created[last]
  OBVIOUS
<1>7. pageEnd' <= before
  BY <1>2, <1>5, <1>6
<1>8. \A t \in range \ page' : pageFull' /\ (Created[t] < pageEnd' \/ Created[t] \in boundaries')
  <2> TAKE t \in range \ page'
  <2>1. pageFull'
    BY <1>4
  <2>2. page' # {}
    BY <1>3, <2>1, FS_EmptySet, WindowAssumption
  <2>3. Created[t] <= pageEnd' /\ pageEnd' \in Nat /\ Created[t] \in Nat
    <3>1. PICK last \in page' : pageEnd' = Created[last]
      BY <1>6, <2>2
    <3>2. t \in Shares /\ last \in Shares
      BY <1>1 DEF WInv, IInv, TypeOK
    <3> QED BY <1>1, <3>1, <3>2, CreatedType
  <2>4. pageEnd' \in boundaries'
    BY <2>1
  <2> QED BY <2>1, <2>3, <2>4
<1>9. RowsStay'
  BY <1>1, <1>2 DEF WInv, RowsStay
<1>10. Coverage'
  <2> SUFFICES ASSUME NEW s \in known \ counted
               PROVE  \/ Created[s] > BlockCreated[cur] \/ Created[s] \in boundaries'
                      \/ s \in page' \/ (pageFull' /\ Created[s] < pageEnd')
    BY <1>2 DEF Coverage, Ahead
  <2>1. Created[s] > BlockCreated[cur] \/ Created[s] \in boundaries \/ s \in range
    BY <1>2 DEF WInv, Coverage, Ahead, RowsStay
  <2>2. boundaries \subseteq boundaries'
    OBVIOUS
  <2> QED BY <1>8, <2>1, <2>2
<1>11. Cut'
  <2>1. before <= BlockCreated[cur] /\ BlockCreated[cur] \in Nat
    BY <1>2, BlocksAssumption DEF WInv, Cut
  <2>2. \A s \in page' : Created[s] <= BlockCreated[cur]
    <3> TAKE s \in page'
    <3>1. Created[s] \in Nat
      BY <1>1, CreatedType
    <3> QED BY <1>2, <1>5, <2>1, <3>1
  <2>3. pageEnd' <= BlockCreated[cur]
    <3>1. pageEnd' \in Nat
      BY DEF IInv, TypeOK
    <3> QED BY <1>2, <1>7, <2>1, <3>1
  <2>4. pageFull' => pageEnd' \in boundaries'
    OBVIOUS
  <2>5. \A x \in boundaries' : \E t \in counted \cup page' : Created[t] = x
    <3> TAKE x \in boundaries'
    <3>1. CASE x \in boundaries
      <4>1. page = {}
        BY <1>2 DEF WInv, IInv, GoesBack
      <4> QED BY <1>2, <3>1, <4>1 DEF WInv, Cut
    <3>2. CASE x \notin boundaries
      <4>1. pageFull' /\ x = pageEnd'
        BY <3>2
      <4>2. page' # {}
        BY <1>3, <4>1, FS_EmptySet, WindowAssumption
      <4> QED BY <1>6, <4>1, <4>2
    <3> QED BY <3>1, <3>2
  <2> QED BY <1>2, <2>2, <2>3, <2>4, <2>5 DEF WInv, Cut
<1> QED BY <1>9, <1>10, <1>11 DEF WInv

LEMMA WInvBeginWalk == ASSUME WInv, IInv', NEW b \in Blocks, BeginWalk(b) PROVE WInv'
<1> USE DEF BeginWalk
<1>1. page = {}
  BY DEF WInv, IInv, GoesBack
<1>2. RowsStay'
  BY <1>1 DEF WInv, RowsStay
<1>3. BlockCreated[b] \in Nat
  BY BlocksAssumption
<1>4. Coverage'
  <2> SUFFICES ASSUME NEW s \in table
               PROVE  Created[s] > BlockCreated[b] \/ Created[s] <= BlockCreated[b]
    BY DEF Coverage, Ahead, InRange
  <2>1. Created[s] \in Nat
    BY CreatedType DEF WInv, IInv, TypeOK
  <2> QED BY <1>3, <2>1
<1>5. Cut'
  BY <1>1, <1>3 DEF Cut
<1> QED BY <1>2, <1>4, <1>5 DEF WInv

LEMMA WInvCountShare == ASSUME WInv, IInv', NEW s \in Shares, CountShare(s) PROVE WInv'
<1> DEFINE score == Capped(Score[s])
           reward == score * RewardPerScore
           crosses == accumulated + Score[s] >= Window
<1>1. CASE Exhausted(reward, crosses)
  <2>1. EndWalk /\ UNCHANGED tableVars
    BY <1>1 DEF CountShare
  <2> QED BY <2>1, EndWalkRest DEF WInv, RowsStay
<1>2. CASE ~Exhausted(reward, crosses)
  <2> HIDE DEF crosses
  <2>1. /\ pc = "page" /\ ~done /\ s \in page /\ \A t \in page : Created[t] <= Created[s]
        /\ page' = page \ {s}
        /\ done' = crosses
        /\ cutoff' = IF crosses THEN Created[s] ELSE cutoff
        /\ counted' = counted \cup {s}
        /\ UNCHANGED <<pc, cur, before, inclusive, pageFull, pageEnd, known,
                       boundaries, overflow, tableVars, bookVars, faults>>
    BY <1>2 DEF CountShare, crosses
  <2>2. RowsStay'
    BY <2>1 DEF WInv, RowsStay
  <2>3. Coverage'
    BY <2>1 DEF WInv, Coverage, Ahead
  <2>4. Cut'
    <3>1. Created[s] > 0 /\ pageEnd <= Created[s] /\ Created[s] <= BlockCreated[cur]
      BY <2>1, CreatedType DEF WInv, IInv, GoesBack, Cut
    <3>2. \A t \in counted : Created[s] <= Created[t]
      BY <2>1 DEF WInv, IInv, GoesBack
    <3>3. \A t \in counted' : Created[t] >= Created[s]
      <4>1. \A t \in counted' : Created[t] \in Nat
        BY CreatedType DEF IInv, TypeOK
      <4> QED BY <2>1, <3>2, <4>1, CreatedType
    <3>4. counted' \cup page' = counted \cup page
      BY <2>1
    <3>5. done' => cutoff' = Created[s]
      BY <2>1
    <3>6. ~done' => cutoff' = 0
      BY <2>1 DEF WInv, Cut
    <3>7. \A t \in counted' : Created[t] <= BlockCreated[cur]
      BY <2>1, <3>1 DEF WInv, Cut
    <3>8. \A x \in boundaries : \E t \in counted \cup page : Created[t] = x
      BY <2>1 DEF WInv, Cut
    <3>9. done' => cutoff' > 0 /\ \A t \in counted' : Created[t] >= cutoff'
      BY <3>1, <3>3, <3>5
    <3>10. pc' = "page" => /\ \A t \in page' : Created[t] <= BlockCreated[cur']
                           /\ pageEnd' <= BlockCreated[cur']
                           /\ pageFull' => pageEnd' \in boundaries'
                           /\ done' => pageEnd' <= cutoff' /\ \A t \in page' : Created[t] <= cutoff'
      BY <2>1, <3>1, <3>5 DEF WInv, Cut
    <3> QED BY <2>1, <3>4, <3>6, <3>7, <3>8, <3>9, <3>10 DEF Cut
  <2> QED BY <2>2, <2>3, <2>4 DEF WInv
<1> QED BY <1>1, <1>2

LEMMA WInvEndPage == ASSUME WInv, IInv', EndPage PROVE WInv'
<1> USE DEF EndPage
<1>1. RowsStay'
  BY DEF WInv, RowsStay
<1>2. \A s \in known \ counted : Created[s] \in Nat
  BY CreatedType DEF WInv, IInv, TypeOK
<1>3. CASE done
  <2>1. pageEnd <= cutoff /\ (\A s \in page : Created[s] <= cutoff) /\ pageEnd \in Nat /\ cutoff \in Nat
    BY <1>3 DEF WInv, Cut, IInv, TypeOK
  <2>2. Coverage'
    BY <1>2, <1>3, <2>1 DEF WInv, Coverage, Ahead
  <2>3. \A x \in boundaries : (\E t \in counted : Created[t] = x) \/ x <= cutoff
    BY <1>3, <2>1 DEF WInv, Cut
  <2>4. Cut'
    BY <1>3, <2>3 DEF WInv, Cut
  <2> QED BY <1>1, <2>2, <2>4 DEF WInv
<1>4. CASE ~done
  <2>1. page = {}
    BY <1>4
  <2>2. ~inclusive
    BY DEF WInv, IInv, GoesBack
  <2>3. Coverage'
    <3>1. CASE pageFull
      BY <1>4, <2>1, <2>2, <3>1 DEF WInv, Coverage, Ahead, InRange
    <3>2. CASE ~pageFull
      BY <1>4, <2>1, <3>2 DEF WInv, Coverage, Ahead
    <3> QED BY <3>1, <3>2
  <2>4. Cut'
    BY <1>4, <2>1 DEF WInv, Cut
  <2> QED BY <1>1, <2>3, <2>4 DEF WInv
<1> QED BY <1>3, <1>4

LEMMA WInvInsertShare == ASSUME WInv, IInv', NEW s \in Shares, InsertShare(s) PROVE WInv'
<1> USE DEF InsertShare
<1>1. RowsStay'
  BY FS_AddElement DEF WInv, RowsStay
<1>2. Coverage' /\ Cut'
  BY DEF WInv, Coverage, Ahead, InRange, Cut
<1> QED BY <1>1, <1>2 DEF WInv

LEMMA WInvStep == WInv /\ [Next]_vars => WInv'
<1> SUFFICES ASSUME WInv, [Next]_vars PROVE WInv'
  OBVIOUS
<1>0. IInv'
  BY IInvStep DEF WInv
<1>1. CASE UNCHANGED vars
  BY <1>0, <1>1 DEF WInv, RowsStay, Coverage, Ahead, InRange, Cut
<1>2. CASE UpdateBalances \/ Fail
  <2>1. EndWalk /\ UNCHANGED submitted
    BY <1>2 DEF UpdateBalances, Fail
  <2> QED BY <1>0, <2>1, EndWalkRest DEF WInv, RowsStay
<1> QED
  BY <1>0, <1>1, <1>2, WInvInsertShare, WInvBeginWalk, WInvFetchPage, WInvCountShare, WInvEndPage
     DEF Next, Walk

LEMMA WInvAlways == Spec => []WInv
BY WInvInit, WInvStep, PTL DEF Spec

\* A share of the window that was there when the walk began is passed over only if its time
\* is that of the last share of a full page (CalculateRewards), for any page size.
THEOREM OnlyTiesAreSkipped == Spec => []SkipsOnlyTies
<1>1. WInv => SkipsOnlyTies
  BY DEF WInv, Coverage, Ahead, SkipsOnlyTies
<1> QED BY <1>1, WInvAlways, PTL
-----------------------------------------------------------------------------
(***************************************************************************)
(* The sums                                                                *)
(***************************************************************************)

Newer(S, s) == {t \in S : Created[t] > Created[s]}

\* What a share earns, by what the newer ones leave of the window.
LEMMA EarnedValue ==
  ASSUME NEW S \in SUBSET Shares, IsFiniteSet(S), NEW s \in S
  PROVE  /\ SumFunctionOnSet(Score, Newer(S, s)) \in Nat
         /\ Earned(S, s) \in Nat
         /\ SumFunctionOnSet(Score, Newer(S, s)) >= Window => Earned(S, s) = 0
         /\ SumFunctionOnSet(Score, Newer(S, s)) + Score[s] >= Window
              /\ SumFunctionOnSet(Score, Newer(S, s)) < Window
              => Earned(S, s) = (Window - SumFunctionOnSet(Score, Newer(S, s))) * RewardPerScore
         /\ SumFunctionOnSet(Score, Newer(S, s)) + Score[s] < Window
              => Earned(S, s) = Score[s] * RewardPerScore
<1> DEFINE sum == SumFunctionOnSet(Score, Newer(S, s))
           least == Min({Score[s], Window - sum})
           most == Max({0, least})
<1>1. sum \in Nat
  <2>1. IsFiniteSet(Newer(S, s)) /\ \A x \in Newer(S, s) : Score[x] \in Nat
    BY FS_Subset, SharesAssumption DEF Newer
  <2> QED BY <2>1, SumNat
<1>2. Earned(S, s) = most * RewardPerScore
  BY DEF Earned, Newer
<1>3. Score[s] \in Nat /\ Window \in Nat /\ RewardPerScore \in Nat
  BY SharesAssumption, WindowAssumption
<1> HIDE DEF sum
<1>4. least \in Int /\ least = (IF Score[s] <= Window - sum THEN Score[s] ELSE Window - sum)
  BY <1>1, <1>3, MinMaxPair
<1> HIDE DEF least
<1>5. most = IF 0 >= least THEN 0 ELSE least
  <2>1. least \in Int /\ 0 \in Int
    BY <1>4
  <2> QED BY <2>1, MinMaxPair
<1> HIDE DEF most
<1>6. /\ most \in Nat
      /\ sum >= Window => most = 0
      /\ sum + Score[s] >= Window /\ sum < Window => most = Window - sum
      /\ sum + Score[s] < Window => most = Score[s]
  BY <1>1, <1>3, <1>4, <1>5
<1>7. most * RewardPerScore \in Nat /\ 0 * RewardPerScore = 0
  BY <1>3, <1>6, ProductType, BlockRewardType
<1> QED BY <1>1, <1>2, <1>6, <1>7 DEF sum

\* A share earns the same with and without shares that are not newer.
LEMMA EarnedSame ==
  ASSUME NEW S, NEW T, NEW s, Newer(S, s) = Newer(T, s)
  PROVE  Earned(S, s) = Earned(T, s)
BY DEF Earned, Newer

\* Shares that fill the window do so together with others.
LEMMA WindowFilled ==
  ASSUME NEW S \in SUBSET Shares, IsFiniteSet(S), NEW T \in SUBSET S,
         SumFunctionOnSet(Score, T) >= Window
  PROVE  SumFunctionOnSet(Score, S) >= Window
<1> DEFINE a == SumFunctionOnSet(Score, T)  b == SumFunctionOnSet(Score, S)
<1>1. \A x \in S : Score[x] \in Int /\ Score[x] >= 0
  BY SharesAssumption
<1>2. a <= b
  BY <1>1, SumSubset
<1>3. a \in Int /\ b \in Int
  BY <1>1, SumInt, FS_Subset
<1> HIDE DEF a, b
<1>4. b >= Window
  <2>1. a >= Window /\ Window \in Int
    BY WindowAssumption DEF a
  <2> QED BY <1>2, <1>3, <2>1
<1> QED BY <1>4 DEF b

OfMiner(S, m) == {s \in S : Miner[s] = m}

Earnings(S) == [s \in S |-> Earned(S, s)]

Eligible(S, b) == {s \in S : Created[s] <= BlockCreated[b]}

LEMMA ReferenceIsSum ==
  ASSUME NEW S, NEW b
  PROVE  Reference(S, b) =
           [m \in Miners |-> SumFunctionOnSet(Earnings(Eligible(S, b)), OfMiner(Eligible(S, b), m))]
BY DEF Reference, Earnings, Eligible, OfMiner

\* Shares that are left out change no reward when the rest is paid the same with them, and
\* they themselves get nothing.
LEMMA LeftOut ==
  ASSUME NEW S \in SUBSET Shares, IsFiniteSet(S), NEW T \in SUBSET S, NEW m,
         \A s \in T : Newer(S, s) = Newer(T, s),
         \A s \in S \ T : SumFunctionOnSet(Score, Newer(S, s)) >= Window
  PROVE  SumFunctionOnSet(Earnings(S), OfMiner(S, m)) = SumFunctionOnSet(Earnings(T), OfMiner(T, m))
<1>1. /\ IsFiniteSet(OfMiner(S, m)) /\ IsFiniteSet(OfMiner(T, m))
      /\ OfMiner(T, m) \in SUBSET OfMiner(S, m)
  BY FS_Subset DEF OfMiner
<1>2. \A s \in OfMiner(S, m) : Earnings(S)[s] = Earned(S, s) /\ Earned(S, s) \in Nat
  BY EarnedValue DEF OfMiner, Earnings
<1>3. \A s \in OfMiner(S, m) \ OfMiner(T, m) : Earnings(S)[s] = 0
  BY <1>2, EarnedValue DEF OfMiner
<1>4. SumFunctionOnSet(Earnings(S), OfMiner(S, m)) = SumFunctionOnSet(Earnings(S), OfMiner(T, m))
  <2>1. \A s \in OfMiner(S, m) : Earnings(S)[s] \in Int
    BY <1>2
  <2>2. \A s \in OfMiner(S, m) \ OfMiner(T, m) : Earnings(S)[s] >= 0
    BY <1>3
  <2> QED BY <1>1, <1>3, <2>1, <2>2, SumSubset
<1>5. \A s \in OfMiner(T, m) : Earnings(S)[s] = Earnings(T)[s]
  BY EarnedSame DEF OfMiner, Earnings
<1>6. SumFunctionOnSet(Earnings(S), OfMiner(T, m)) = SumFunctionOnSet(Earnings(T), OfMiner(T, m))
  BY <1>1, <1>5, SumSame
<1> QED BY <1>4, <1>6

\* accumulatedScore is the sum of the scores, cut at the window; a miner's reward is the sum
\* of what the definition gives for the counted shares.
Filled ==
  pc # "idle" =>
    /\ ~done => SumFunctionOnSet(Score, counted) = accumulated
    /\ done => SumFunctionOnSet(Score, counted) >= Window

PaysEarned ==
  pc # "idle" /\ DistinctTimes(counted) =>
    \A m \in Miners : rewards[m] = SumFunctionOnSet(Earnings(counted), OfMiner(counted, m))

SInv == WInv /\ Filled /\ PaysEarned

LEMMA CountedFinite ==
  ASSUME WInv, pc # "idle"
  PROVE  IsFiniteSet(counted) /\ counted \subseteq Shares /\ IsFiniteSet(table) /\ table \subseteq Shares
BY FS_Subset DEF WInv, RowsStay, IInv, TypeOK

\* The next share earns what is left of the window, and those before it what they did.
LEMMA SInvCountShare ==
  ASSUME SInv, WInv', NEW s \in Shares, CountShare(s), pc' # "idle"
  PROVE  Filled' /\ PaysEarned'
<1> DEFINE score == Capped(Score[s])
           reward == score * RewardPerScore
           crosses == accumulated + Score[s] >= Window
<1>1. ~Exhausted(reward, crosses)
  BY DEF CountShare, EndWalk
<1>2. /\ pc = "page" /\ ~done /\ s \in page /\ pc' = pc
      /\ done' = crosses
      /\ accumulated' = accumulated + score
      /\ rewards' = Rewarded(Miner[s], reward)
      /\ counted' = counted \cup {s}
  BY <1>1 DEF CountShare
<1>3. s \notin counted
  BY <1>2 DEF SInv, WInv, IInv, NeverCountedTwice
<1>4. /\ IsFiniteSet(counted) /\ counted \subseteq Shares
      /\ IsFiniteSet(counted') /\ counted' \subseteq Shares
  <2>1. WInv /\ pc # "idle"
    BY <1>2 DEF SInv
  <2>2. IsFiniteSet(counted) /\ counted \subseteq Shares
    BY <2>1, CountedFinite
  <2> QED BY <1>2, <2>2, FS_AddElement
<1>5. /\ accumulated \in Nat /\ Score[s] \in Nat /\ Window \in Nat /\ RewardPerScore \in Nat
      /\ accumulated < Window /\ Miner[s] \in Miners
  <2>1. accumulated <= Window /\ (done <=> accumulated = Window)
    BY <1>2 DEF SInv, WInv, IInv, Proportional
  <2>2. accumulated # Window
    BY <1>2, <2>1, Zenon
  <2> QED BY <2>1, <2>2, SharesAssumption, WindowAssumption DEF SInv, WInv, IInv, TypeOK
<1>6. SumFunctionOnSet(Score, counted) = accumulated
  BY <1>2 DEF SInv, Filled
<1>7. SumFunctionOnSet(Score, counted') = Score[s] + accumulated
  <2>1. \A x \in counted \cup {s} : Score[x] \in Int
    BY <1>4, SharesAssumption
  <2>2. SumFunctionOnSet(Score, counted \cup {s}) = Score[s] + SumFunctionOnSet(Score, counted)
    BY <1>3, <1>4, <2>1, SumInsert
  <2> QED BY <1>2, <1>6, <2>2
<1>8. score = IF crosses THEN Window - accumulated ELSE Score[s]
  BY DEF Capped
<1>9. Filled'
  <2>1. ~crosses => Score[s] + accumulated = accumulated + score
    BY <1>5, <1>8
  <2>2. crosses => Score[s] + accumulated >= Window
    BY <1>5
  <2> HIDE DEF crosses, score
  <2> QED BY <1>2, <1>7, <2>1, <2>2 DEF Filled
<1>10. PaysEarned'
  <2> SUFFICES ASSUME DistinctTimes(counted)', NEW m \in Miners
               PROVE  rewards'[m] = SumFunctionOnSet(Earnings(counted'), OfMiner(counted', m))
    BY DEF PaysEarned, Earnings, OfMiner, Earned
  <2>1. \A t \in counted : Created[t] > Created[s]
    <3> TAKE t \in counted
    <3>1. Created[s] <= Created[t]
      BY <1>2 DEF SInv, WInv, IInv, GoesBack
    <3>2. Created[s] # Created[t]
      BY <1>2, <1>3 DEF DistinctTimes
    <3> QED BY <1>4, <3>1, <3>2, CreatedType
  <2>2. Newer(counted', s) = counted
    <3>1. ~(Created[s] > Created[s])
      BY CreatedType
    <3> QED BY <1>2, <2>1, <3>1 DEF Newer
  <2>3. \A t \in counted : Newer(counted', t) = Newer(counted, t)
    <3> TAKE t \in counted
    <3>1. ~(Created[s] > Created[t])
      BY <1>4, <2>1, CreatedType
    <3> QED BY <1>2, <3>1 DEF Newer
  <2>4. Earned(counted', s) = reward
    <3>1. s \in counted'
      BY <1>2
    <3>2. SumFunctionOnSet(Score, Newer(counted', s)) = accumulated
      BY <1>6, <2>2
    <3>3. /\ accumulated + Score[s] >= Window
             => Earned(counted', s) = (Window - accumulated) * RewardPerScore
          /\ accumulated + Score[s] < Window => Earned(counted', s) = Score[s] * RewardPerScore
      BY <1>4, <1>5, <3>1, <3>2, EarnedValue
    <3>4. crosses \/ accumulated + Score[s] < Window
      BY <1>5
    <3> QED BY <1>8, <3>3, <3>4
  <2>5. rewards[m] = SumFunctionOnSet(Earnings(counted), OfMiner(counted, m))
    <3>1. DistinctTimes(counted)
      BY <1>2 DEF DistinctTimes
    <3> QED BY <1>2, <3>1 DEF SInv, PaysEarned
  <2>6. SumFunctionOnSet(Earnings(counted'), OfMiner(counted, m))
          = SumFunctionOnSet(Earnings(counted), OfMiner(counted, m))
    <3>1. IsFiniteSet(OfMiner(counted, m))
      BY <1>4, FS_Subset DEF OfMiner
    <3>2. \A t \in OfMiner(counted, m) : Earnings(counted')[t] = Earnings(counted)[t]
      <4> TAKE t \in OfMiner(counted, m)
      <4>1. t \in counted /\ t \in counted'
        BY <1>2 DEF OfMiner
      <4>2. Earned(counted', t) = Earned(counted, t)
        BY <2>3, <4>1, EarnedSame
      <4> QED BY <4>1, <4>2 DEF Earnings
    <3> QED BY <3>1, <3>2, SumSame
  <2>7. rewards' = [rewards EXCEPT ![Miner[s]] = @ + reward] /\ rewards \in [Miners -> Nat]
    BY <1>2 DEF Rewarded, SInv, WInv, IInv, TypeOK
  <2> HIDE DEF reward
  <2>8. CASE Miner[s] = m
    <3>1. OfMiner(counted', m) = OfMiner(counted, m) \cup {s} /\ s \notin OfMiner(counted, m)
      BY <1>2, <1>3, <2>8 DEF OfMiner
    <3>2. IsFiniteSet(OfMiner(counted, m))
      BY <1>4, FS_Subset DEF OfMiner
    <3>3. \A t \in OfMiner(counted, m) \cup {s} : Earnings(counted')[t] \in Int
      BY <1>2, <1>4, EarnedValue DEF OfMiner, Earnings
    <3>4. SumFunctionOnSet(Earnings(counted'), OfMiner(counted', m))
            = Earnings(counted')[s] + SumFunctionOnSet(Earnings(counted'), OfMiner(counted, m))
      BY <3>1, <3>2, <3>3, SumInsert
    <3>5. Earnings(counted')[s] = reward
      BY <1>2, <2>4 DEF Earnings
    <3>6. rewards'[m] = rewards[m] + reward
      BY <2>7, <2>8
    <3>7. rewards[m] \in Int /\ reward \in Int
      <4>1. Earnings(counted')[s] \in Int
        BY <3>3
      <4> QED BY <2>7, <3>5, <4>1
    <3> DEFINE sum == SumFunctionOnSet(Earnings(counted'), OfMiner(counted', m))
    <3>8. sum = reward + rewards[m]
      BY <2>5, <2>6, <3>4, <3>5
    <3> HIDE DEF sum
    <3> QED BY <3>6, <3>7, <3>8 DEF sum
  <2>9. CASE Miner[s] # m
    <3>1. OfMiner(counted', m) = OfMiner(counted, m)
      BY <1>2, <2>9 DEF OfMiner
    <3>2. rewards'[m] = rewards[m]
      BY <2>7, <2>9
    <3> QED BY <2>5, <2>6, <3>1, <3>2
  <2> QED BY <2>8, <2>9
<1> QED BY <1>9, <1>10

LEMMA SInvInit == Init => SInv
BY WInvInit DEF Init, SInv, Filled, PaysEarned

LEMMA SInvStep == SInv /\ [Next]_vars => SInv'
<1> SUFFICES ASSUME SInv, [Next]_vars PROVE SInv'
  OBVIOUS
<1>0. WInv'
  BY WInvStep DEF SInv
<1>1. CASE UNCHANGED <<pc, done, counted, accumulated, rewards>>
  BY <1>0, <1>1 DEF SInv, Filled, PaysEarned
<1>2. CASE pc' = "idle"
  BY <1>0, <1>2 DEF SInv, Filled, PaysEarned
<1>3. ASSUME NEW b \in Blocks, BeginWalk(b) PROVE SInv'
  <2>1. counted' = {} /\ accumulated' = 0 /\ done' = FALSE /\ rewards' = [m \in Miners |-> 0]
    BY <1>3 DEF BeginWalk
  <2>2. Filled'
    BY <2>1, SumEmpty DEF Filled
  <2>3. \A m \in Miners : OfMiner({}, m) = {}
    BY DEF OfMiner
  <2>4. \A m \in Miners : SumFunctionOnSet(Earnings({}), OfMiner({}, m)) = 0
    BY <2>3, SumEmpty
  <2>5. PaysEarned'
    BY <2>1, <2>4 DEF PaysEarned, Earnings, OfMiner, Earned
  <2> QED BY <1>0, <2>2, <2>5 DEF SInv
<1>4. CASE FetchPage \/ EndPage
  <2>1. UNCHANGED <<done, counted, accumulated, rewards>> /\ pc # "idle"
    BY <1>4 DEF FetchPage, EndPage
  <2> QED BY <1>0, <2>1 DEF SInv, Filled, PaysEarned
<1>5. ASSUME NEW s \in Shares, CountShare(s) PROVE SInv'
  BY <1>0, <1>2, <1>5, SInvCountShare DEF SInv
<1>6. CASE UpdateBalances \/ Fail
  BY <1>2, <1>6 DEF UpdateBalances, Fail, EndWalk
<1>7. CASE UNCHANGED vars \/ \E s \in Shares : InsertShare(s)
  BY <1>1, <1>7 DEF InsertShare
<1> QED BY <1>3, <1>4, <1>5, <1>6, <1>7 DEF Next, Walk

LEMMA SInvAlways == Spec => []SInv
BY SInvInit, SInvStep, PTL DEF Spec

\* The walk over the pages computes the definition (CalculateRewards): for any shares of
\* distinct times, any page size and window, what is credited is what every share earns by
\* the scores of the newer ones; without arrivals, over all shares there were at the start.
THEOREM WalkComputesReference == Spec => []MatchesReference
<1>1. SInv => MatchesReference
  <2> SUFFICES ASSUME SInv, pc = "update", DistinctTimes(known \cup counted)
               PROVE  /\ rewards = Reference(counted, cur)
                      /\ table = known => rewards = Reference(known, cur)
    BY DEF MatchesReference
  <2>0. IsFiniteSet(counted) /\ counted \subseteq Shares /\ IsFiniteSet(table) /\ table \subseteq Shares
    BY CountedFinite DEF SInv
  <2>1. \A m \in Miners : rewards[m] = SumFunctionOnSet(Earnings(counted), OfMiner(counted, m))
    BY DEF SInv, PaysEarned, DistinctTimes
  <2>2. rewards = [m \in Miners |-> SumFunctionOnSet(Earnings(counted), OfMiner(counted, m))]
    BY <2>1 DEF SInv, WInv, IInv, TypeOK
  <2>3. Eligible(counted, cur) = counted
    BY DEF SInv, WInv, Cut, Eligible
  <2>4. rewards = Reference(counted, cur)
    BY <2>2, <2>3, ReferenceIsSum
  <2>5. ASSUME table = known PROVE rewards = Reference(known, cur)
    <3> DEFINE S == Eligible(known, cur)
    <3>1. S \in SUBSET Shares /\ IsFiniteSet(S)
      BY <2>0, <2>5, FS_Subset DEF Eligible
    <3>2. counted \in SUBSET S
      BY <2>3, <2>5 DEF SInv, WInv, RowsStay, Eligible
    <3>3. cur \in Blocks /\ BlockCreated[cur] \in Nat /\ cutoff \in Nat
      BY BlocksAssumption DEF SInv, WInv, IInv, GoesBack, TypeOK
    <3>4. \A s \in S \ counted : done /\ Created[s] <= cutoff
      <4> TAKE s \in S \ counted
      <4>1. s \in known \ counted /\ Created[s] <= BlockCreated[cur] /\ Created[s] \in Nat
        BY <3>1, CreatedType DEF Eligible
      <4>2. CASE Created[s] \in boundaries
        <5>1. page = {}
          BY DEF SInv, WInv, IInv, GoesBack
        <5>2. (\E t \in counted : Created[t] = Created[s]) \/ (done /\ Created[s] <= cutoff)
          BY <4>2, <5>1 DEF SInv, WInv, Cut
        <5>3. \A t \in counted : Created[t] # Created[s]
          BY <4>1 DEF DistinctTimes
        <5> QED BY <5>2, <5>3
      <4>3. CASE Created[s] \notin boundaries
        BY <3>3, <4>1, <4>3 DEF SInv, WInv, Coverage, Ahead
      <4> QED BY <4>2, <4>3
    <3>5. \A s \in S \ counted, t \in counted : Created[t] > Created[s]
      <4> TAKE s \in S \ counted, t \in counted
      <4>1. done /\ Created[s] <= cutoff /\ Created[t] >= cutoff
        BY <3>4 DEF SInv, WInv, Cut
      <4>2. Created[s] # Created[t]
        BY DEF DistinctTimes, Eligible
      <4>3. Created[s] \in Nat /\ Created[t] \in Nat
        BY <2>0, <3>1, CreatedType
      <4> QED BY <3>3, <4>1, <4>2, <4>3
    <3> HIDE DEF S
    <3>6. \A s \in counted : Newer(S, s) = Newer(counted, s)
      <4> TAKE s \in counted
      <4>1. \A t \in S \ counted : ~(Created[t] > Created[s])
        <5> TAKE t \in S \ counted
        <5>1. Created[s] > Created[t]
          BY <3>5
        <5>2. Created[s] \in Nat /\ Created[t] \in Nat
          BY <2>0, <3>1, CreatedType
        <5> QED BY <5>1, <5>2
      <4> QED BY <3>2, <4>1 DEF Newer
    <3>7. \A s \in S \ counted : SumFunctionOnSet(Score, Newer(S, s)) >= Window
      <4> TAKE s \in S \ counted
      <4>1. counted \in SUBSET Newer(S, s) /\ Newer(S, s) \in SUBSET Shares /\ IsFiniteSet(Newer(S, s))
        BY <3>1, <3>2, <3>5, FS_Subset DEF Newer
      <4>2. SumFunctionOnSet(Score, counted) >= Window
        BY <3>4 DEF SInv, Filled
      <4> QED BY <4>1, <4>2, WindowFilled
    <3>8. \A m \in Miners : SumFunctionOnSet(Earnings(S), OfMiner(S, m))
                             = SumFunctionOnSet(Earnings(counted), OfMiner(counted, m))
      BY <3>1, <3>2, <3>6, <3>7, LeftOut
    <3>9. Reference(known, cur) = [m \in Miners |-> SumFunctionOnSet(Earnings(S), OfMiner(S, m))]
      BY ReferenceIsSum DEF S
    <3> QED BY <2>2, <3>8, <3>9
  <2> QED BY <2>4, <2>5
<1> QED BY <1>1, SInvAlways, PTL

\* The shares that UpdateBalancesAsync deletes are not missed by a block found later: in its
\* own walk they would come after a full window.
THEOREM DeletedSharesAreSpent == Spec => DeletionSparesLaterBlocks
<1> DEFINE Spares(b, c) ==
             /\ status[b] = "pending" /\ status'[b] = "confirmed"
             /\ BlockCreated[b] < BlockCreated[c]
             => Reference(table', c) = Reference(table, c)
<1>1. ASSUME SInv, [Next]_vars, NEW b \in Blocks, NEW c \in Blocks PROVE Spares(b, c)
  <2> SUFFICES ASSUME status[b] = "pending", status'[b] = "confirmed",
                      BlockCreated[b] < BlockCreated[c]
               PROVE  Reference(table', c) = Reference(table, c)
    OBVIOUS
  <2>1. UpdateBalances
    <3>1. status' # status
      OBVIOUS
    <3> QED BY <1>1, <3>1 DEF Next, Walk, InsertShare, BeginWalk, FetchPage, CountShare, EndPage, Fail
  <2>2. b = cur /\ pc = "update" /\ table' = table \ Discarded
    BY <2>1 DEF UpdateBalances, SInv, WInv, IInv, TypeOK
  <2>3. CASE cutoff = 0
    BY <2>2, <2>3 DEF Discarded
  <2>4. CASE cutoff # 0
    <3> DEFINE S == Eligible(table, c)
               T == Eligible(table', c)
    <3>1. done /\ (\A t \in counted : Created[t] >= cutoff /\ Created[t] <= BlockCreated[b])
      BY <1>1, <2>2, <2>4 DEF SInv, WInv, Cut
    <3>2. /\ IsFiniteSet(counted) /\ counted \subseteq Shares /\ IsFiniteSet(table) /\ table \subseteq Shares
          /\ counted \subseteq table
      BY <1>1, <2>2, CountedFinite DEF SInv, WInv, RowsStay
    <3>3. S \in SUBSET Shares /\ IsFiniteSet(S) /\ T \in SUBSET S
      BY <2>2, <3>2, FS_Subset DEF Eligible
    <3>4. counted \subseteq S
      <4> SUFFICES ASSUME NEW t \in counted PROVE Created[t] <= BlockCreated[c]
        BY <3>2 DEF Eligible
      <4>1. Created[t] <= BlockCreated[b] /\ Created[t] \in Nat
        BY <3>1, <3>2, CreatedType
      <4>2. BlockCreated[b] \in Nat /\ BlockCreated[c] \in Nat
        BY BlocksAssumption
      <4> QED BY <4>1, <4>2
    <3>5. cutoff \in Nat
      BY <1>1 DEF SInv, WInv, IInv, TypeOK
    <3>6. \A s \in S \ T : Created[s] < cutoff
      BY <2>2, <2>4 DEF Eligible, Discarded
    <3>7. \A s \in T : Created[s] >= cutoff
      <4> TAKE s \in T
      <4>1. ~(Created[s] < cutoff) /\ Created[s] \in Nat
        BY <2>2, <2>4, <3>2, CreatedType DEF Eligible, Discarded
      <4> QED BY <3>5, <4>1
    <3> HIDE DEF S, T
    <3>8. \A s \in T : Newer(S, s) = Newer(T, s)
      <4> TAKE s \in T
      <4>1. \A t \in S \ T : ~(Created[t] > Created[s])
        <5> TAKE t \in S \ T
        <5>1. Created[t] \in Nat /\ Created[s] \in Nat
          BY <3>3, CreatedType
        <5> QED BY <3>5, <3>6, <3>7, <5>1
      <4> QED BY <3>3, <4>1 DEF Newer
    <3>9. \A s \in S \ T : SumFunctionOnSet(Score, Newer(S, s)) >= Window
      <4> TAKE s \in S \ T
      <4>1. \A t \in counted : Created[t] > Created[s]
        <5> TAKE t \in counted
        <5>1. Created[t] \in Nat /\ Created[s] \in Nat
          BY <3>2, <3>3, CreatedType
        <5> QED BY <3>1, <3>5, <3>6, <5>1
      <4>2. counted \in SUBSET Newer(S, s) /\ Newer(S, s) \in SUBSET Shares /\ IsFiniteSet(Newer(S, s))
        BY <3>3, <3>4, <4>1, FS_Subset DEF Newer
      <4>3. SumFunctionOnSet(Score, counted) >= Window
        BY <1>1, <2>2, <3>1 DEF SInv, Filled
      <4> QED BY <4>2, <4>3, WindowFilled
    <3>10. \A m \in Miners : SumFunctionOnSet(Earnings(S), OfMiner(S, m))
                              = SumFunctionOnSet(Earnings(T), OfMiner(T, m))
      BY <3>3, <3>8, <3>9, LeftOut
    <3>11. /\ Reference(table, c) = [m \in Miners |-> SumFunctionOnSet(Earnings(S), OfMiner(S, m))]
           /\ Reference(table', c) = [m \in Miners |-> SumFunctionOnSet(Earnings(T), OfMiner(T, m))]
      BY ReferenceIsSum DEF S, T
    <3> QED BY <3>10, <3>11
  <2> QED BY <2>3, <2>4
<1>2. SInv /\ [Next]_vars => [\A b, c \in Blocks :
        /\ status[b] = "pending" /\ status'[b] = "confirmed"
        /\ BlockCreated[b] < BlockCreated[c]
        => Reference(table', c) = Reference(table, c)]_vars
  BY <1>1
<1> QED BY <1>2, SInvAlways, PTL DEF Spec, DeletionSparesLaterBlocks

-----------------------------------------------------------------------------
(***************************************************************************)
(* The rewards together.  Payments takes any payout scheme for one that    *)
(* distributes no more than it is given (Payments!SchemeRewards); the walk *)
(* is such a scheme, at every point.                                       *)
(***************************************************************************)

\* What has been distributed and what remains is the reward of the block.
AddsUp == pc # "idle" => SumFunctionOnSet(rewards, Miners) + remaining = BlockReward

InBudget ==
  pc # "idle" => rewards \in [Miners -> 0..BlockReward] /\ SumFunction(rewards) <= BlockReward

LEMMA AddsUpCountShare ==
  ASSUME IInv, AddsUp, NEW s \in Shares, CountShare(s), pc' # "idle"
  PROVE  AddsUp'
<1> DEFINE reward == Capped(Score[s]) * RewardPerScore
           m == Miner[s]
<1>1. remaining' = remaining - reward /\ rewards' = Rewarded(m, reward) /\ pc # "idle"
  BY DEF CountShare, EndWalk
<1>2. reward \in Nat
  <2>1. Capped(Score[s]) \in Nat
    <3>1. Score[s] \in Nat /\ accumulated \in Nat /\ accumulated <= Window /\ Window \in Nat
      BY <1>1, SharesAssumption, WindowAssumption DEF IInv, TypeOK, Proportional
    <3> QED BY <3>1 DEF Capped
  <2>2. RewardPerScore \in Nat
    BY WindowAssumption
  <2> QED BY <2>1, <2>2, ProductType
<1> HIDE DEF reward
<1>3. m \in Miners
  BY SharesAssumption
<1> HIDE DEF m
<1>4. \A x \in Miners : rewards'[x] = IF x = m THEN rewards[x] + reward ELSE rewards[x]
  BY <1>1, <1>3 DEF IInv, TypeOK, Rewarded
<1>5. \A x \in Miners : /\ rewards[x] \in Int /\ rewards'[x] \in Int
                        /\ x # m => rewards'[x] = rewards[x]
  BY <1>2, <1>4 DEF IInv, TypeOK
<1>6. SumFunctionOnSet(rewards', Miners)
        = SumFunctionOnSet(rewards, Miners) + (rewards'[m] - rewards[m])
  BY <1>3, <1>5, SharesAssumption, SumExcept
<1>7. rewards'[m] - rewards[m] = reward
  BY <1>2, <1>3, <1>4, <1>5
<1> DEFINE t == SumFunctionOnSet(rewards, Miners)
<1>8. t \in Int /\ remaining \in Int
  BY <1>5, SharesAssumption, SumInt DEF IInv, TypeOK
<1>9. t + remaining = BlockReward
  BY <1>1 DEF AddsUp
<1>10. SumFunctionOnSet(rewards', Miners) = t + reward
  BY <1>6, <1>7
<1> HIDE DEF t
<1>11. (t + reward) + (remaining - reward) = BlockReward
  BY <1>2, <1>8, <1>9
<1> QED BY <1>1, <1>10, <1>11 DEF AddsUp, BlockReward

\* The rewards of a walk stay within the reward of the block, in total and for each miner
\* (CalculateRewards): what UpdateBalancesAsync credits is what Payments expects of a
\* payout scheme.
THEOREM RewardsStayInBudget == Spec => []InBudget
<1>1. Init => AddsUp
  BY DEF Init, AddsUp
<1>2. IInv /\ AddsUp /\ [Next]_vars => AddsUp'
  <2> SUFFICES ASSUME IInv, AddsUp, [Next]_vars, pc' # "idle" PROVE AddsUp'
    BY DEF AddsUp
  <2>1. ASSUME UNCHANGED <<rewards, remaining>>, pc # "idle" PROVE AddsUp'
    BY <2>1 DEF AddsUp, BlockReward
  <2>2. ASSUME NEW b \in Blocks, BeginWalk(b) PROVE AddsUp'
    <3>1. \A x \in Miners : rewards'[x] = 0
      BY <2>2 DEF BeginWalk
    <3>2. SumFunctionOnSet(rewards', Miners) = 0
      BY <3>1, SharesAssumption, SumZero
    <3>3. remaining' = BlockReward
      BY <2>2 DEF BeginWalk
    <3> QED BY <3>2, <3>3, BlockRewardType DEF AddsUp, BlockReward
  <2>3. CASE FetchPage \/ EndPage
    BY <2>1, <2>3 DEF FetchPage, EndPage
  <2>4. CASE UpdateBalances \/ Fail
    BY <2>4 DEF UpdateBalances, Fail, EndWalk
  <2>5. ASSUME NEW s \in Shares, InsertShare(s) PROVE AddsUp'
    BY <2>1, <2>5 DEF InsertShare
  <2>6. CASE UNCHANGED vars
    BY <2>1, <2>6
  <2> QED BY <2>2, <2>3, <2>4, <2>5, <2>6, AddsUpCountShare DEF Next, Walk
<1>3. IInv /\ AddsUp => InBudget
  <2> SUFFICES ASSUME IInv, AddsUp, pc # "idle"
               PROVE  rewards \in [Miners -> 0..BlockReward] /\ SumFunction(rewards) <= BlockReward
    BY DEF InBudget
  <2> DEFINE t == SumFunctionOnSet(rewards, Miners)
  <2>1. rewards \in [Miners -> Nat] /\ remaining \in Nat
    BY DEF IInv, TypeOK
  <2>2. t \in Nat
    BY <2>1, SharesAssumption, SumNat
  <2>3. t + remaining = BlockReward
    BY DEF AddsUp
  <2> HIDE DEF t
  <2>4. t <= BlockReward
    BY <2>1, <2>2, <2>3, BlockRewardType
  <2>5. \A m \in Miners : rewards[m] <= t
    <3> TAKE m \in Miners
    <3> DEFINE u == SumFunctionOnSet(rewards, Miners \ {m})
    <3>1. t = rewards[m] + u
      BY <2>1, SharesAssumption, SumRemove DEF t
    <3>2. IsFiniteSet(Miners \ {m})
      BY SharesAssumption, FS_Subset
    <3>3. u \in Nat
      BY <2>1, <3>2, SumNat
    <3> HIDE DEF u
    <3> QED BY <2>1, <3>1, <3>3
  <2>6. rewards \in [Miners -> 0..BlockReward]
    <3>1. \A m \in Miners : rewards[m] \in 0..BlockReward
      <4> TAKE m \in Miners
      <4>1. rewards[m] \in Nat /\ rewards[m] <= t
        BY <2>1, <2>5
      <4> QED BY <2>2, <2>4, <4>1, BlockRewardType
    <3> QED BY <2>1, <3>1
  <2>7. SumFunction(rewards) = t
    BY <2>1 DEF SumFunction, t
  <2> QED BY <2>4, <2>6, <2>7
<1> QED BY <1>1, <1>2, <1>3, IInvAlways, PTL DEF Spec
=============================================================================
