--------------------------- MODULE SessionProofs ----------------------------
(***************************************************************************)
(* Proofs about Session, for any configuration of the variable difficulty, *)
(* any number of idle callbacks under way, and no bound on ages.           *)
(*                                                                         *)
(* That a static difficulty is kept needs two facts about the threads that *)
(* share the pending difficulty without a lock: whoever leaves it behind   *)
(* is still under way (PendingIsMinded), and once a static difficulty was  *)
(* set with nobody under way, nobody ever is again (Quiet).  That a share  *)
(* has its credit needs what Judge found to hold until Credit, unless the  *)
(* difficulty moved, and then one that was replaced meanwhile is credited  *)
(* (Judged).  That the types are kept needs the timers to be counted       *)
(* (TimersCounted).                                                        *)
(***************************************************************************)
EXTENDS Session, SumTheorems, TLAPS

Applying == {"write", "enqueue", "test", "set", "clear"}

Shape ==
  /\ alive \in BOOLEAN /\ varDiff \in BOOLEAN
  /\ timers \in [0..TargetTime -> Nat]
  /\ stage \in [Threads -> Stages]
  /\ DOMAIN newDiff = Threads

PendingIsMinded == pending # Null => \E t \in Threads : stage[t] \in Applying

Quiet == ~varDiff /\ ~late => pending = Null /\ \A t \in Threads : stage[t] \notin Applying

Judged == stage["request"] = "credit" => previous \in held \/ work >= previous

IInv ==
  /\ Shape /\ PendingIsMinded /\ Quiet /\ Judged
  /\ Watched /\ StaticKept /\ CreditEarned

USE DEF Applying

-----------------------------------------------------------------------------
LEMMA SomeThreads == "request" \in Threads /\ "cast" \in Threads /\ Idle \subseteq Threads
BY DEF Threads

LEMMA InitIInv == Init => IInv
<1> SUFFICES ASSUME Init PROVE IInv
  OBVIOUS
<1>1. TargetTime \in Nat /\ TargetTime \in 0..TargetTime
  BY SessionAssumption
<1>2. timers \in [0..TargetTime -> Nat]
  BY <1>1 DEF Init, NoTimers
<1>3. alive \in BOOLEAN /\ varDiff \in BOOLEAN /\ earned = TRUE /\ late = FALSE
  BY Zenon DEF Init
<1>4. stage \in [Threads -> Stages] /\ (\A t \in Threads : stage[t] = "none") /\ DOMAIN newDiff = Threads
  BY DEF Init, Stages
<1>5. Watched
  BY <1>1 DEF Init, Watched, NoTimers
<1>6. StaticKept /\ CreditEarned /\ PendingIsMinded /\ Quiet
  BY <1>3, <1>4 DEF Init, StaticKept, CreditEarned, PendingIsMinded, Quiet
<1>7. Judged
  BY <1>4, SomeThreads DEF Judged
<1> QED
  BY <1>2, <1>3, <1>4, <1>5, <1>6, <1>7 DEF IInv, Shape

-----------------------------------------------------------------------------
(***************************************************************************)
(* Time and timers                                                         *)
(***************************************************************************)

\* A tick moves every timer, and drops none.
LEMMA TickStep == IInv /\ Tick => IInv'
<1> SUFFICES ASSUME IInv, Tick PROVE IInv'
  OBVIOUS
<1>0. TargetTime \in Nat \ {0} /\ \A r \in 0..TargetTime : timers[r] \in Nat
  BY SessionAssumption DEF IInv, Shape
<1>1. UNCHANGED <<alive, varDiff, diffVars, stage, newDiff, work, historyVars>>
  BY DEF Tick
<1> USE DEF diffVars, historyVars
<1> DEFINE shifted(r) == (IF r = 0 THEN timers[0] ELSE 0) + (IF r < TargetTime THEN timers[r + 1] ELSE 0)
<1>2. timers' = [r \in 0..TargetTime |-> shifted(r)]
  BY DEF Tick
<1>3. \A r \in 0..TargetTime : shifted(r) \in Nat
  <2> TAKE r \in 0..TargetTime
  <2>1. r < TargetTime => r + 1 \in 0..TargetTime
    BY <1>0
  <2>2. 0 \in 0..TargetTime
    BY <1>0
  <2> QED
    BY <2>1, <2>2, <1>0
<1>4. ASSUME NEW r \in 0..TargetTime, timers[r] > 0
      PROVE  \E q \in 0..TargetTime : timers'[q] > 0
  <2>1. CASE r = 0
    <3>1. shifted(0) > 0 /\ 0 \in 0..TargetTime
      <4>1. timers[0] > 0 /\ timers[0] \in Nat /\ timers[0 + 1] \in Nat /\ 0 < TargetTime
        BY <1>0, <1>4, <2>1
      <4> QED
        BY <4>1, <1>0
    <3> QED
      BY <3>1, <1>2
  <2>2. CASE r # 0
    <3>1. r - 1 \in 0..TargetTime /\ r - 1 < TargetTime /\ (r - 1) + 1 = r /\ timers[r] \in Nat
          /\ timers[0] \in Nat
      BY <2>2, <1>0
    <3>2. shifted(r - 1) > 0
      BY <3>1, <1>4
    <3> QED
      BY <3>1, <3>2, <1>2
  <2> QED
    BY <2>1, <2>2
<1>5. Shape'
  BY <1>1, <1>2, <1>3 DEF IInv, Shape
<1>6. Watched'
  BY <1>1, <1>4 DEF IInv, Watched
<1>7. PendingIsMinded' /\ Quiet' /\ Judged' /\ StaticKept' /\ CreditEarned'
  BY <1>1 DEF IInv, PendingIsMinded, Quiet, Judged, StaticKept, CreditEarned
<1> QED
  BY <1>5, <1>6, <1>7 DEF IInv

\* The step of a thread to another stage.
LEMMA GotoType ==
  ASSUME IInv, NEW t \in Threads, NEW s \in Stages, Goto(t, s)
  PROVE  /\ stage' \in [Threads -> Stages] /\ stage'[t] = s
         /\ \A u \in Threads : u # t => stage'[u] = stage[u]
BY DEF Goto, IInv, Shape

LEMMA FireStep ==
  ASSUME IInv, NEW i \in Idle, Fire(i)
  PROVE  IInv'
<1>0. /\ TargetTime \in Nat /\ 0 \in 0..TargetTime /\ timers \in [0..TargetTime -> Nat]
      /\ i \in Threads /\ i # "request" /\ stage[i] = "none" /\ timers[0] \in Nat /\ timers[0] > 0
  BY SessionAssumption, SomeThreads DEF IInv, Shape, Fire
<1>1. timers' = [timers EXCEPT ![0] = @ - 1] /\ timers' \in [0..TargetTime -> Nat]
  <2>1. timers[0] - 1 \in Nat
    BY <1>0
  <2> QED
    BY <2>1, <1>0 DEF Fire
<1>2. UNCHANGED <<alive, varDiff, diffVars, newDiff, work, historyVars>>
  BY DEF Fire
<1> USE DEF diffVars, historyVars
<1>3. CASE alive /\ varDiff
  <2>1. /\ stage' \in [Threads -> Stages] /\ stage'[i] = "enter"
        /\ \A u \in Threads : u # i => stage'[u] = stage[u]
    BY <1>0, <1>3, GotoType DEF Fire, Stages
  <2>2. Shape' /\ Watched'
    BY <2>1, <1>0, <1>1, <1>2 DEF IInv, Shape, Watched
  <2>3. PendingIsMinded' /\ Quiet'
    BY <2>1, <1>0, <1>2 DEF IInv, PendingIsMinded, Quiet
  <2>4. Judged' /\ StaticKept' /\ CreditEarned'
    BY <2>1, <1>0, <1>2, SomeThreads DEF IInv, Judged, StaticKept, CreditEarned
  <2> QED
    BY <2>2, <2>3, <2>4 DEF IInv
<1>4. CASE ~(alive /\ varDiff)
  <2>1. stage' = stage
    BY <1>4 DEF Fire
  <2> QED
    BY <2>1, <1>1, <1>2, <1>4 DEF IInv, Shape, Watched, PendingIsMinded, Quiet, Judged, StaticKept,
       CreditEarned
<1> QED
  BY <1>3, <1>4

LEMMA TimerStarted ==
  ASSUME IInv, StartVarDiffIdleUpdate
  PROVE  timers' \in [0..TargetTime -> Nat] /\ \E r \in 0..TargetTime : timers'[r] > 0
<1>1. TargetTime \in 0..TargetTime /\ timers \in [0..TargetTime -> Nat]
  BY SessionAssumption DEF IInv, Shape
<1>2. timers[TargetTime] \in Nat
  BY <1>1
<1>3. timers' = [timers EXCEPT ![TargetTime] = timers[TargetTime] + 1]
  BY DEF StartVarDiffIdleUpdate
<1>4. timers'[TargetTime] > 0
  BY <1>1, <1>2, <1>3
<1> QED
  BY <1>1, <1>2, <1>3, <1>4

-----------------------------------------------------------------------------
(***************************************************************************)
(* Updates of the variable difficulty                                      *)
(***************************************************************************)

LEMMA LockStep ==
  ASSUME IInv, NEW t \in Threads, Lock(t)
  PROVE  IInv'
<1>0. stage[t] = "enter"
  BY DEF Lock
<1>1. UNCHANGED <<alive, varDiff, diffVars, newDiff, work, historyVars>>
  BY DEF Lock
<1> USE DEF diffVars, historyVars
<1>2. ASSUME NEW s \in {"update", "none"}, Goto(t, s),
             timers' \in [0..TargetTime -> Nat],
             varDiff => \E r \in 0..TargetTime : timers'[r] > 0
      PROVE  IInv'
  <2>1. /\ stage' \in [Threads -> Stages] /\ stage'[t] = s
        /\ \A u \in Threads : u # t => stage'[u] = stage[u]
    BY <1>2, GotoType DEF Stages
  <2>2. Shape' /\ Watched'
    BY <2>1, <1>1, <1>2 DEF IInv, Shape, Watched
  <2>3. PendingIsMinded'
    BY <2>1, <1>0, <1>1 DEF IInv, PendingIsMinded
  <2>4. Quiet'
    BY <2>1, <1>1 DEF IInv, Quiet
  <2>5. Judged' /\ StaticKept' /\ CreditEarned'
    BY <2>1, <1>0, <1>1, SomeThreads DEF IInv, Judged, StaticKept, CreditEarned
  <2> QED
    BY <2>2, <2>3, <2>4, <2>5 DEF IInv
<1>3. CASE varDiff
  BY <1>2, <1>3, TimerStarted DEF Lock
<1>4. CASE ~varDiff
  BY <1>2, <1>4 DEF Lock, IInv, Shape
<1> QED
  BY <1>3, <1>4

\* Whatever the update computes, it is applied only if the context is still there.
LEMMA UpdateStep ==
  ASSUME IInv, NEW t \in Threads, Update(t)
  PROVE  IInv'
<1>1. stage[t] = "update" /\ UNCHANGED <<alive, varDiff, diffVars, timers, work, historyVars>>
  BY DEF Update
<1> USE DEF diffVars, historyVars
<1>2. DOMAIN newDiff' = Threads
  BY DEF Update, FirstUpdate, LaterUpdate, IInv, Shape
<1>3. PICK s \in {"none", "write"} : Goto(t, s) /\ (s = "write" => varDiff)
  <2>1. CASE varDiff /\ FirstUpdate(t)
    BY <2>1 DEF FirstUpdate
  <2>2. CASE varDiff /\ LaterUpdate(t, t \in Idle)
    BY <2>2 DEF LaterUpdate
  <2>3. CASE ~varDiff
    BY <2>3 DEF Update
  <2> QED
    BY <2>1, <2>2, <2>3 DEF Update
<1>4. /\ stage' \in [Threads -> Stages] /\ stage'[t] = s
      /\ \A u \in Threads : u # t => stage'[u] = stage[u]
  BY <1>3, GotoType DEF Stages
<1>5. Shape'
  BY <1>1, <1>2, <1>4 DEF IInv, Shape
<1>6. Watched'
  BY <1>1, <1>4 DEF IInv, Watched
<1>7. PendingIsMinded' /\ Quiet'
  BY <1>1, <1>3, <1>4 DEF IInv, PendingIsMinded, Quiet
<1>8. Judged' /\ StaticKept' /\ CreditEarned'
  BY <1>1, <1>4, SomeThreads DEF IInv, Judged, StaticKept, CreditEarned
<1> QED
  BY <1>5, <1>6, <1>7, <1>8 DEF IInv

\* A step of a thread that applies a difficulty and goes on applying it: a static
\* difficulty has not been set quietly.
LEMMA ApplyStep ==
  ASSUME IInv, NEW t \in Threads, stage[t] \in Applying,
         NEW s \in Applying, Goto(t, s),
         DOMAIN newDiff' = Threads,
         UNCHANGED <<alive, varDiff, timers, work, chosen, late, earned>>,
         \/ UNCHANGED <<previous, held>>
         \/ /\ previous' = difficulty
            /\ held' = IF Judging THEN held \cup {difficulty} ELSE held
  PROVE  IInv'
<1>1. /\ stage' \in [Threads -> Stages] /\ stage'[t] = s
      /\ \A u \in Threads : u # t => stage'[u] = stage[u]
  BY GotoType DEF Stages
<1>2. Shape'
  BY <1>1 DEF IInv, Shape
<1>3. Watched'
  BY <1>1 DEF IInv, Watched
<1>4. PendingIsMinded'
  BY <1>1 DEF PendingIsMinded
<1>5. ~(~varDiff /\ ~late)
  BY DEF IInv, Quiet
<1>6. Quiet' /\ StaticKept'
  BY <1>5 DEF Quiet, StaticKept
<1>7. Judged'
  BY <1>1, SomeThreads DEF IInv, Judged, Judging
<1>8. CreditEarned'
  BY DEF IInv, CreditEarned
<1> QED
  BY <1>2, <1>3, <1>4, <1>6, <1>7, <1>8 DEF IInv

\* A thread is done with the pending difficulty, which is cleared.
LEMMA DoneStep ==
  ASSUME IInv, NEW t \in Threads, stage[t] \in Applying, Goto(t, "none"),
         pending' = Null,
         UNCHANGED <<alive, varDiff, difficulty, previous, timers, newDiff, work, historyVars>>
  PROVE  IInv'
<1> USE DEF historyVars
<1>1. /\ stage' \in [Threads -> Stages] /\ stage'[t] = "none"
      /\ \A u \in Threads : u # t => stage'[u] = stage[u]
  BY GotoType DEF Stages
<1>2. Shape' /\ Watched'
  BY <1>1 DEF IInv, Shape, Watched
<1>3. PendingIsMinded' /\ Quiet'
  BY <1>1 DEF IInv, PendingIsMinded, Quiet
<1>4. Judged' /\ StaticKept' /\ CreditEarned'
  BY <1>1, SomeThreads DEF IInv, Judged, StaticKept, CreditEarned
<1> QED
  BY <1>2, <1>3, <1>4 DEF IInv

LEMMA PendingStep ==
  ASSUME IInv, NEW t \in Threads,
         BeginEnqueue(t) \/ EndEnqueue(t) \/ Test(t) \/ Set(t) \/ Clear(t)
  PROVE  IInv'
<1> USE DEF historyVars, diffVars
<1>0. DOMAIN newDiff = Threads
  BY DEF IInv, Shape
<1>1. CASE BeginEnqueue(t)
  BY <1>0, <1>1, ApplyStep DEF BeginEnqueue
<1>2. CASE EndEnqueue(t)
  BY <1>0, <1>2, ApplyStep DEF EndEnqueue
<1>3. CASE Test(t)
  <2>1. CASE pending # Null
    BY <1>0, <1>3, <2>1, ApplyStep DEF Test
  <2>2. CASE pending = Null
    BY <1>0, <1>3, <2>2, DoneStep DEF Test
  <2> QED
    BY <2>1, <2>2
<1>4. CASE Set(t)
  <2>1. CASE pending # Null
    BY <1>0, <1>4, <2>1, ApplyStep DEF Set, SetDifficulty
  <2>2. CASE pending = Null
    BY <1>0, <1>4, <2>2, DoneStep DEF Set
  <2> QED
    BY <2>1, <2>2
<1>5. CASE Clear(t)
  BY <1>0, <1>5, DoneStep DEF Clear
<1> QED
  BY <1>1, <1>2, <1>3, <1>4, <1>5

\* A broadcast finds a difficulty pending.
LEMMA CastStep == IInv /\ Cast => IInv'
<1> SUFFICES ASSUME IInv, Cast PROVE IInv'
  OBVIOUS
<1>0. "cast" \in Threads /\ stage["cast"] = "none" /\ pending # Null
  BY SomeThreads DEF Cast
<1>1. UNCHANGED <<alive, varDiff, diffVars, timers, newDiff, work, historyVars>>
  BY DEF Cast
<1> USE DEF diffVars, historyVars
<1>2. /\ stage' \in [Threads -> Stages] /\ stage'["cast"] = "set"
      /\ \A u \in Threads : u # "cast" => stage'[u] = stage[u]
  BY <1>0, GotoType DEF Cast, Stages
<1>3. Shape' /\ Watched'
  BY <1>0, <1>1, <1>2 DEF IInv, Shape, Watched
<1>4. PendingIsMinded' /\ Quiet'
  BY <1>0, <1>1, <1>2 DEF IInv, PendingIsMinded, Quiet
<1>5. Judged' /\ StaticKept' /\ CreditEarned'
  BY <1>1, <1>2, SomeThreads DEF IInv, Judged, StaticKept, CreditEarned
<1> QED
  BY <1>3, <1>4, <1>5 DEF IInv

-----------------------------------------------------------------------------
(***************************************************************************)
(* Requests                                                                *)
(***************************************************************************)

\* Nobody else is under way, then the pending difficulty is empty.
LEMMA NothingUnderWay ==
  ASSUME IInv, stage["request"] = "none", ~UnderWay
  PROVE  pending = Null /\ \A t \in Threads : stage[t] \notin Applying
BY DEF IInv, PendingIsMinded, UnderWay

LEMMA AuthorizeStep ==
  ASSUME IInv, NEW d \in Asked, Authorize(d)
  PROVE  IInv'
<1>0. stage["request"] = "none"
  BY DEF Authorize, Request
<1>1. /\ varDiff' = FALSE /\ difficulty' = d /\ chosen' = d /\ late' = UnderWay
      /\ UNCHANGED <<alive, pending, timers, stage, newDiff, work, earned, held>>
  BY DEF Authorize, SetDifficulty
<1>2. varDiff' \in BOOLEAN
  BY <1>1, Zenon
<1>3. Shape' /\ Watched' /\ PendingIsMinded' /\ StaticKept' /\ CreditEarned'
  BY <1>1, <1>2 DEF IInv, Shape, Watched, PendingIsMinded, StaticKept, CreditEarned
<1>4. Quiet'
  BY <1>0, <1>1, NothingUnderWay DEF Quiet
<1>5. Judged'
  BY <1>0, <1>1 DEF Judged
<1> QED
  BY <1>3, <1>4, <1>5 DEF IInv

LEMMA SuggestStep ==
  ASSUME IInv, NEW d \in Asked, Suggest(d)
  PROVE  IInv'
<1>0. stage["request"] = "none"
  BY DEF Suggest, Request
<1>1. /\ difficulty' = d
      /\ UNCHANGED <<alive, varDiff, pending, timers, stage, newDiff, work, earned, held>>
      /\ varDiff \/ (chosen' = d /\ late' = UnderWay)
  BY DEF Suggest, SetDifficulty
<1>2. Shape' /\ Watched' /\ PendingIsMinded' /\ StaticKept' /\ CreditEarned'
  BY <1>1 DEF IInv, Shape, Watched, PendingIsMinded, StaticKept, CreditEarned
<1>3. Quiet'
  BY <1>0, <1>1, NothingUnderWay DEF Quiet
<1>4. Judged'
  BY <1>0, <1>1 DEF Judged
<1> QED
  BY <1>2, <1>3, <1>4 DEF IInv

\* Publishing a share stops the timers, and an update that starts the next is due.
LEMMA AcceptStep ==
  ASSUME IInv, NEW w, NEW d, NEW ds, Accept(w, d, ds), stage["request"] \notin Applying,
         d <= w \/ d \in ds,
         UNCHANGED <<alive, varDiff, diffVars, newDiff, chosen, late>>
  PROVE  IInv'
<1> USE DEF diffVars
<1>0. "request" \in Threads
  BY SomeThreads
<1>1. PICK s \in {"enter", "none"} : Goto("request", s) /\ (varDiff => s = "enter")
  BY DEF Accept
<1>2. /\ stage' \in [Threads -> Stages] /\ stage'["request"] = s
      /\ \A u \in Threads : u # "request" => stage'[u] = stage[u]
  BY <1>0, <1>1, GotoType DEF Stages
<1>3. timers' \in [0..TargetTime -> Nat]
  BY DEF Accept, NoTimers
<1>4. Shape'
  BY <1>2, <1>3 DEF IInv, Shape
<1>5. Watched'
  BY <1>0, <1>1, <1>2 DEF Watched
<1>6. PendingIsMinded' /\ Quiet'
  BY <1>0, <1>2 DEF IInv, PendingIsMinded, Quiet
<1>7. Judged' /\ StaticKept'
  BY <1>2 DEF IInv, Judged, StaticKept
<1>8. CreditEarned'
  BY DEF Accept, CreditEarned
<1> QED
  BY <1>4, <1>5, <1>6, <1>7, <1>8 DEF IInv

LEMMA SubmitStep ==
  ASSUME IInv, NEW w, NEW n, Submit(w, n)
  PROVE  IInv'
<1>0. "request" \in Threads /\ stage["request"] = "none"
  BY SomeThreads DEF Submit, Request
<1>1. UNCHANGED <<alive, varDiff, diffVars, newDiff, chosen, late>>
  BY DEF Submit
<1>2. CASE Accept(w, difficulty, {difficulty})
  BY <1>0, <1>1, <1>2, AcceptStep
<1>4. CASE w >= difficulty /\ Accept(w, difficulty, {})
  BY <1>0, <1>1, <1>4, AcceptStep
<1>3. CASE earned' = TRUE /\ Goto("request", "judge") /\ UNCHANGED timers
  <2>1. /\ stage' \in [Threads -> Stages] /\ stage'["request"] = "judge"
        /\ \A u \in Threads : u # "request" => stage'[u] = stage[u]
    BY <1>0, <1>3, GotoType DEF Stages
  <2>2. Shape' /\ Watched'
    BY <2>1, <1>0, <1>1, <1>3 DEF IInv, Shape, Watched
  <2>3. PendingIsMinded' /\ Quiet'
    BY <2>1, <1>0, <1>1 DEF IInv, PendingIsMinded, Quiet, diffVars
  <2>4. Judged' /\ StaticKept' /\ CreditEarned'
    BY <2>1, <1>1, <1>3 DEF IInv, Judged, StaticKept, CreditEarned, diffVars
  <2> QED
    BY <2>2, <2>3, <2>4 DEF IInv
<1> QED
  BY <1>2, <1>3, <1>4 DEF Submit

LEMMA JudgeStep == IInv /\ Judge => IInv'
<1> SUFFICES ASSUME IInv, Judge PROVE IInv'
  OBVIOUS
<1>0. "request" \in Threads /\ stage["request"] = "judge"
  BY SomeThreads DEF Judge
<1>1. UNCHANGED <<alive, varDiff, diffVars, timers, newDiff, chosen, late, earned>>
  BY DEF Judge, Compared
<1> USE DEF diffVars
<1>2. PICK s \in {"credit", "none"} :
        Goto("request", s) /\ (s = "credit" => work >= previous /\ work' = work)
  BY DEF Judge, Compared
<1>3. /\ stage' \in [Threads -> Stages] /\ stage'["request"] = s
      /\ \A u \in Threads : u # "request" => stage'[u] = stage[u]
  BY <1>0, <1>2, GotoType DEF Stages
<1>5. Shape' /\ Watched'
  BY <1>0, <1>1, <1>3 DEF IInv, Shape, Watched
<1>6. PendingIsMinded' /\ Quiet'
  BY <1>0, <1>1, <1>3 DEF IInv, PendingIsMinded, Quiet
<1>7. Judged' /\ StaticKept' /\ CreditEarned'
  BY <1>1, <1>2, <1>3 DEF IInv, Judged, StaticKept, CreditEarned
<1> QED
  BY <1>5, <1>6, <1>7 DEF IInv

LEMMA CreditStep == IInv /\ Credit => IInv'
<1> SUFFICES ASSUME IInv, Credit PROVE IInv'
  OBVIOUS
<1>1. /\ stage["request"] = "credit" /\ Accept(work, previous, held)
      /\ UNCHANGED <<alive, varDiff, diffVars, newDiff, chosen, late>>
  BY DEF Credit
<1>2. previous <= work \/ previous \in held
  BY <1>1 DEF IInv, Judged
<1> QED
  BY <1>1, <1>2, AcceptStep

LEMMA DisconnectStep == IInv /\ (Disconnect \/ UNCHANGED vars) => IInv'
<1> SUFFICES ASSUME IInv, Disconnect \/ UNCHANGED vars PROVE IInv'
  OBVIOUS
<1>1. /\ alive' = FALSE \/ alive' = alive
      /\ UNCHANGED <<varDiff, diffVars, timers, stage, newDiff, work, historyVars>>
  BY DEF Disconnect, vars
<1>2. alive' \in BOOLEAN
  <2>1. alive \in BOOLEAN
    BY DEF IInv, Shape
  <2> QED
    BY <2>1, <1>1, Zenon
<1>3. Shape'
  BY <1>1, <1>2 DEF IInv, Shape
<1>4. Watched'
  BY <1>1 DEF IInv, Watched
<1>5. PendingIsMinded' /\ Quiet' /\ Judged' /\ StaticKept' /\ CreditEarned'
  BY <1>1 DEF IInv, PendingIsMinded, Quiet, Judged, StaticKept, CreditEarned, diffVars, historyVars
<1> QED
  BY <1>3, <1>4, <1>5 DEF IInv

-----------------------------------------------------------------------------
LEMMA StepIInv == IInv /\ [Next]_vars => IInv'
BY TickStep, FireStep, LockStep, UpdateStep, PendingStep, CastStep, AuthorizeStep, SuggestStep,
   SubmitStep, JudgeStep, CreditStep, DisconnectStep DEF Next, Step

LEMMA Invariance == Spec => []IInv
BY InitIInv, StepIInv, PTL DEF Spec

\* UpdateVarDiffAsync and the idle timers: a connection with variable difficulty is always
\* watched by a timer or an update that starts one.
THEOREM AlwaysWatched == Spec => []Watched
<1>1. IInv => Watched
  BY DEF IInv
<1> QED
  BY <1>1, Invariance, PTL

\* OnAuthorizeAsync: a static difficulty stays, unless an update was past the lock when it
\* was set.
THEOREM StaticDifficultyKept == Spec => []StaticKept
<1>1. IInv => StaticKept
  BY DEF IInv
<1> QED
  BY <1>1, Invariance, PTL

\* ProcessShareInternal: a share that is no block is credited with its work at most, unless
\* the difficulty moved between the comparison and the credit; then it is credited with one
\* that was the client's while it was judged.
THEOREM CreditIsEarned == Spec => []CreditEarned
<1>1. IInv => CreditEarned
  BY DEF IInv
<1> QED
  BY <1>1, Invariance, PTL

-----------------------------------------------------------------------------
(***************************************************************************)
(* Types.  Timers are bounded because they are tokens: an update that is   *)
(* due (Entering) starts one timer, a timer that fires makes one update    *)
(* due, and a share, which makes an update due of itself, stops all timers.*)
(***************************************************************************)
Entering == {t \in Threads : stage[t] = "enter"}
Waiting == SumFunctionOnSet(timers, 0..TargetTime)

TimersCounted ==
  /\ Waiting + Cardinality(Entering) <= Cardinality(Idle) + 1
  /\ stage["cast"] # "enter"

LEMMA EnteringIsFinite ==
  /\ IsFiniteSet(Entering) /\ Cardinality(Entering) \in Nat
  /\ IsFiniteSet(Idle) /\ Cardinality(Idle) \in Nat
<1>1. IsFiniteSet(Idle)
  BY SessionAssumption
<1>2. IsFiniteSet(Idle \cup {"request"})
  BY <1>1, FS_AddElement
<1>3. IsFiniteSet((Idle \cup {"request"}) \cup {"cast"})
  BY <1>2, FS_AddElement
<1>4. Entering \subseteq (Idle \cup {"request"}) \cup {"cast"}
  BY DEF Entering, Threads
<1>5. IsFiniteSet(Entering)
  BY <1>3, <1>4, FS_Subset
<1> QED
  BY <1>1, <1>5, FS_CardinalityType

LEMMA WaitingType ==
  ASSUME IInv
  PROVE  /\ IsFiniteSet(0..TargetTime) /\ Waiting \in Nat
         /\ \A r \in 0..TargetTime : timers[r] \in Nat /\ timers[r] <= Waiting
<1>1. IsFiniteSet(0..TargetTime)
  BY FS_Interval, SessionAssumption
<1>2. \A r \in 0..TargetTime : timers[r] \in Nat
  BY DEF IInv, Shape
<1>3. Waiting \in Nat
  BY <1>1, <1>2, SumNat DEF Waiting
<1>4. \A r \in 0..TargetTime : timers[r] <= Waiting
  BY <1>1, <1>2, SumBounds DEF Waiting
<1> QED
  BY <1>1, <1>2, <1>3, <1>4

\* One more or one timer less.
LEMMA WaitingExcept ==
  ASSUME IInv, NEW r \in 0..TargetTime, NEW n \in Nat,
         timers' = [timers EXCEPT ![r] = n]
  PROVE  Waiting' = Waiting + (n - timers[r])
<1>1. timers \in [0..TargetTime -> Nat]
  BY DEF IInv, Shape
<1>2. /\ timers'[r] = n
      /\ \A q \in 0..TargetTime : timers[q] \in Int /\ timers'[q] \in Int /\ (q # r => timers'[q] = timers[q])
  BY <1>1
<1>3. IsFiniteSet(0..TargetTime)
  BY WaitingType
<1>4. SumFunctionOnSet(timers', 0..TargetTime)
        = SumFunctionOnSet(timers, 0..TargetTime) + (timers'[r] - timers[r])
  BY <1>2, <1>3, SumExcept
<1> QED
  BY <1>2, <1>4 DEF Waiting

\* A thread begins an update, or is no longer about to.
LEMMA EnteringMoves ==
  ASSUME IInv, NEW t \in Threads, NEW s \in Stages, Goto(t, s)
  PROVE  /\ s = "enter" => Entering' = Entering \cup {t}
         /\ s # "enter" => Entering' = Entering \ {t}
         /\ t # "cast" => stage'["cast"] = stage["cast"]
<1>1. /\ stage'[t] = s
      /\ \A u \in Threads : u # t => stage'[u] = stage[u]
  BY GotoType
<1> QED
  BY <1>1, SomeThreads DEF Entering

\* Steps that have nothing to do with timers.
LEMMA CountKept ==
  ASSUME IInv, TimersCounted, NEW t \in Threads, stage[t] # "enter",
         NEW s \in Stages, s # "enter", Goto(t, s), timers' = timers
  PROVE  TimersCounted'
<1>1. Entering' = Entering
  BY EnteringMoves DEF Entering
<1>2. stage'["cast"] # "enter"
  <2>1. stage'[t] = s /\ \A u \in Threads : u # t => stage'[u] = stage[u]
    BY GotoType
  <2> QED
    BY <2>1, SomeThreads DEF TimersCounted
<1>3. Waiting' = Waiting
  BY DEF Waiting
<1> QED
  BY <1>1, <1>2, <1>3 DEF TimersCounted

LEMMA FireCounted ==
  ASSUME IInv, TimersCounted, NEW i \in Idle, Fire(i)
  PROVE  TimersCounted'
<1>0. 0 \in 0..TargetTime /\ timers[0] \in Nat /\ timers[0] - 1 \in Nat
  BY SessionAssumption, WaitingType DEF Fire
<1>1. timers' = [timers EXCEPT ![0] = timers[0] - 1]
  BY DEF Fire
<1>2. Waiting' = Waiting + ((timers[0] - 1) - timers[0])
  BY <1>0, <1>1, WaitingExcept
<1>3. Waiting' = Waiting - 1
  BY <1>0, <1>2, WaitingType
<1>4. i \in Threads /\ i # "cast" /\ stage[i] # "enter"
  BY SessionAssumption DEF Threads, Fire
<1>5. CASE alive /\ varDiff
  <2>1. Goto(i, "enter") /\ "enter" \in Stages
    BY <1>5 DEF Fire, Stages
  <2>2. Entering' = Entering \cup {i} /\ i \notin Entering /\ stage'["cast"] = stage["cast"]
    BY <1>4, <2>1, EnteringMoves DEF Entering
  <2>3. Cardinality(Entering') = Cardinality(Entering) + 1
    BY <2>2, EnteringIsFinite, FS_AddElement
  <2> QED
    BY <1>3, <2>2, <2>3, EnteringIsFinite, WaitingType DEF TimersCounted
<1>6. CASE ~(alive /\ varDiff)
  <2>1. stage' = stage /\ Entering' = Entering
    BY <1>6 DEF Fire, Entering
  <2> QED
    BY <1>3, <2>1, EnteringIsFinite, WaitingType DEF TimersCounted
<1> QED
  BY <1>5, <1>6

LEMMA LockCounted ==
  ASSUME IInv, TimersCounted, NEW t \in Threads, Lock(t)
  PROVE  TimersCounted'
<1>0. stage[t] = "enter" /\ t \in Entering /\ t # "cast"
  BY DEF Lock, Entering, TimersCounted
<1>1. ASSUME NEW s \in {"update", "none"}, Goto(t, s)
      PROVE  Cardinality(Entering') = Cardinality(Entering) - 1 /\ stage'["cast"] = stage["cast"]
  <2>1. Entering' = Entering \ {t} /\ stage'["cast"] = stage["cast"]
    BY <1>0, <1>1, EnteringMoves DEF Stages
  <2> QED
    BY <1>0, <2>1, EnteringIsFinite, FS_RemoveElement
<1>2. CASE varDiff
  <2>1. TargetTime \in 0..TargetTime /\ timers[TargetTime] \in Nat /\ timers[TargetTime] + 1 \in Nat
    BY SessionAssumption, WaitingType
  <2>2. timers' = [timers EXCEPT ![TargetTime] = timers[TargetTime] + 1]
    BY <1>2 DEF Lock, StartVarDiffIdleUpdate
  <2>3. Waiting' = Waiting + ((timers[TargetTime] + 1) - timers[TargetTime])
    BY <2>1, <2>2, WaitingExcept
  <2>4. Waiting' = Waiting + 1
    BY <2>1, <2>3, WaitingType
  <2>5. Cardinality(Entering') = Cardinality(Entering) - 1 /\ stage'["cast"] = stage["cast"]
    BY <1>1, <1>2 DEF Lock
  <2> QED
    BY <2>4, <2>5, EnteringIsFinite, WaitingType DEF TimersCounted
<1>3. CASE ~varDiff
  <2>1. Waiting' = Waiting
    BY <1>3 DEF Lock, Waiting
  <2>2. Cardinality(Entering') = Cardinality(Entering) - 1 /\ stage'["cast"] = stage["cast"]
    BY <1>1, <1>3 DEF Lock
  <2> QED
    BY <2>1, <2>2, EnteringIsFinite, WaitingType DEF TimersCounted
<1> QED
  BY <1>2, <1>3

\* No timer is left, and there are no more updates due than threads that make them.
LEMMA AcceptCounted ==
  ASSUME IInv, TimersCounted, NEW w, NEW d, NEW ds, Accept(w, d, ds)
  PROVE  TimersCounted'
<1>1. PICK s \in {"enter", "none"} : Goto("request", s)
  BY DEF Accept
<1>2. stage'["cast"] # "enter"
  BY <1>1, SomeThreads, EnteringMoves DEF Stages, TimersCounted
<1>3. Entering' \subseteq Idle \cup {"request"}
  BY <1>2 DEF Entering, Threads
<1>4. /\ IsFiniteSet(Idle \cup {"request"})
      /\ Cardinality(Idle \cup {"request"}) = Cardinality(Idle) + 1
  BY SessionAssumption, FS_AddElement
<1>5. IsFiniteSet(Entering') /\ Cardinality(Entering') <= Cardinality(Idle) + 1
  BY <1>3, <1>4, FS_Subset
<1>6. Waiting' = 0
  <2>1. \A r \in 0..TargetTime : timers'[r] = 0
    BY DEF Accept, NoTimers
  <2> QED
    BY <2>1, WaitingType, SumZero DEF Waiting
<1>7. Cardinality(Entering') \in Nat /\ Cardinality(Idle) \in Nat
  BY <1>5, FS_CardinalityType, EnteringIsFinite
<1> QED
  BY <1>2, <1>5, <1>6, <1>7 DEF TimersCounted

\* A tick moves the timers: their number stays.
LEMMA TickCounted ==
  ASSUME IInv, TimersCounted, Tick
  PROVE  TimersCounted'
<1> DEFINE All == 0..TargetTime
           Low == 0..(TargetTime - 1)
           High == 1..TargetTime
           next == [r \in All |-> IF r < TargetTime THEN timers[r + 1] ELSE 0]
           due == [r \in All |-> IF r = 0 THEN timers[0] ELSE 0]
           up == [r \in Low |-> r + 1]
<1>0. TargetTime \in Nat /\ TargetTime > 0 /\ \A r \in All : timers[r] \in Nat
  BY SessionAssumption, WaitingType
<1>1. IsFiniteSet(All) /\ IsFiniteSet(Low) /\ IsFiniteSet(High)
  BY <1>0, FS_Interval
<1>2. \A r \in All : due[r] \in Int /\ next[r] \in Int /\ timers'[r] = due[r] + next[r]
  <2> TAKE r \in All
  <2>1. r < TargetTime => r + 1 \in All
    BY <1>0
  <2>2. 0 \in All
    BY <1>0
  <2>3. timers'[r] = (IF r = 0 THEN timers[0] ELSE 0) + (IF r < TargetTime THEN timers[r + 1] ELSE 0)
    BY DEF Tick
  <2> QED
    BY <1>0, <2>1, <2>2, <2>3
<1>3. SumFunctionOnSet(timers', All) = SumFunctionOnSet(due, All) + SumFunctionOnSet(next, All)
  <2> HIDE DEF due, next, All
  <2> QED
    BY <1>1, <1>2, SumPlus
<1>4. SumFunctionOnSet(due, All) = timers[0]
  <2> DEFINE Rest == All \ {0}
  <2>1. 0 \in All /\ due[0] = timers[0] /\ IsFiniteSet(Rest) /\ \A r \in Rest : due[r] = 0
    BY <1>0, <1>1, FS_Subset
  <2>2. \A r \in All : due[r] \in Int
    BY <1>2
  <2> HIDE DEF due, All
  <2>3. SumFunctionOnSet(due, All) = due[0] + SumFunctionOnSet(due, Rest)
    BY <1>1, <2>1, <2>2, SumRemove
  <2> HIDE DEF Rest
  <2>4. SumFunctionOnSet(due, Rest) = 0
    BY <2>1, SumZero
  <2>5. timers[0] \in Nat
    BY <1>0, <2>1
  <2> QED
    BY <2>1, <2>3, <2>4, <2>5
<1>5. SumFunctionOnSet(next, All) = SumFunctionOnSet(next, Low)
  <2>1. Low \in SUBSET All /\ \A r \in All \ Low : next[r] = 0
    BY <1>0
  <2>2. \A r \in All \ Low : next[r] >= 0
    BY <2>1
  <2>3. \A r \in All : next[r] \in Int
    BY <1>2
  <2> HIDE DEF next, All, Low
  <2> QED
    BY <1>1, <2>1, <2>2, <2>3, SumSubset
<1>6. SumFunctionOnSet(next, Low) = SumFunctionOnSet(timers, High)
  <2>1. \A r \in Low : up[r] = r + 1 /\ up[r] \in High /\ up[r] \in All /\ r < TargetTime /\ r \in All
    BY <1>0
  <2>2. \A r \in Low : timers[up[r]] \in Int /\ next[r] = timers[up[r]]
    BY <1>0, <2>1
  <2>3. \A q, r \in Low : up[q] = up[r] => q = r
    BY <1>0
  <2>4. {up[r] : r \in Low} = High
    <3>1. \A q \in High : q - 1 \in Low /\ up[q - 1] = q
      BY <1>0
    <3> QED
      BY <2>1, <3>1
  <2> HIDE DEF next, Low, High, up
  <2>5. IsFiniteSet({up[r] : r \in Low})
    BY <1>1, <2>4
  <2>6. SumFunctionOnSet(next, Low) = SumFunctionOnSet(timers, {up[r] : r \in Low})
    BY <1>1, <2>2, <2>3, <2>5, SumMoved
  <2> QED
    BY <2>4, <2>6
<1>7. SumFunctionOnSet(timers, All) = timers[0] + SumFunctionOnSet(timers, High)
  <2>1. 0 \in All /\ All \ {0} = High
    BY <1>0
  <2>2. \A r \in All : timers[r] \in Int
    BY <1>0
  <2> HIDE DEF All, High
  <2> QED
    BY <1>1, <2>1, <2>2, SumRemove
<1>8. Waiting' = Waiting
  BY <1>3, <1>4, <1>5, <1>6, <1>7 DEF Waiting
<1>9. Entering' = Entering /\ stage' = stage
  BY DEF Tick, Entering
<1> QED
  BY <1>8, <1>9 DEF TimersCounted

-----------------------------------------------------------------------------
Clock ==
  /\ lastTs \in Ages \cup {Null} /\ lastRtc \in Ages
  /\ times \in BoundedSeq(Ages, BufferSize)

\* A share that is credited with the previous difficulty has found one.
Worth ==
  /\ difficulty \in Diffs /\ previous \in Diffs \cup {Null} /\ pending \in Diffs \cup {Null}
  /\ newDiff \in [Threads -> MinDiff..MaxDiff \cup {Null}]
  /\ work \in Diffs /\ chosen \in Diffs \cup {Null}
  /\ stage["request"] = "credit" => previous # Null

Flags ==
  /\ lastUpdate \in BOOLEAN /\ late \in BOOLEAN /\ earned \in BOOLEAN
  /\ held \subseteq Diffs

TInv == IInv /\ TimersCounted /\ Clock /\ Worth /\ Flags /\ events \in 0..MaxEvents

LEMMA DiffsFacts ==
  /\ Diffs \subseteq Nat /\ Null \notin Diffs /\ MinDiff..MaxDiff \subseteq Diffs
  /\ Asked \subseteq Diffs /\ Torn \in Diffs /\ BaseDiff \in Diffs
<1>1. /\ MinDiff \in Nat /\ MaxDiff \in Nat /\ BaseDiff \in Nat /\ Asked \subseteq Nat
      /\ Null \notin Nat
  BY SessionAssumption
<1> DEFINE Limits == MinDiff..MaxDiff
<1>2. Limits \subseteq Nat /\ Torn \in Nat
  BY <1>1 DEF Torn
<1>3. Diffs = Limits \cup Asked \cup {BaseDiff, Torn}
  BY DEF Diffs
<1> HIDE DEF Limits
<1>4. /\ Diffs \subseteq Nat /\ Null \notin Diffs /\ Limits \subseteq Diffs
      /\ Asked \subseteq Diffs /\ Torn \in Diffs /\ BaseDiff \in Diffs
  BY <1>1, <1>2, <1>3
<1> QED
  BY <1>4 DEF Limits

LEMMA AgesFacts ==
  MaxAge \in Nat /\ Ages \subseteq Nat /\ Null \notin Ages /\ 0 \in Ages /\ MaxAge \in Ages
BY SessionAssumption DEF Ages

LEMMA OlderType ==
  ASSUME NEW a \in Ages \cup {Null}
  PROVE  Older(a) \in Ages \cup {Null} /\ (a \in Ages => Older(a) \in Ages)
BY SessionAssumption DEF Ages, Older

LEMMA BoundedSeqType ==
  ASSUME NEW S, NEW n \in Nat, NEW s
  PROVE  s \in BoundedSeq(S, n) <=> s \in Seq(S) /\ Len(s) <= n
<1>1. ASSUME s \in BoundedSeq(S, n) PROVE s \in Seq(S) /\ Len(s) <= n
  <2>1. PICK m \in 0..n : s \in [1..m -> S]
    BY <1>1 DEF BoundedSeq, SeqOf
  <2> QED
    BY <2>1
<1>2. ASSUME s \in Seq(S), Len(s) <= n PROVE s \in BoundedSeq(S, n)
  <2>1. Len(s) \in 0..n /\ s \in [1..Len(s) -> S]
    BY <1>2
  <2> QED
    BY <2>1 DEF BoundedSeq, SeqOf
<1> QED
  BY <1>1, <1>2

\* The oldest time gives way when the buffer is full.
LEMMA PushType ==
  ASSUME NEW s \in BoundedSeq(Ages, BufferSize), NEW x \in Ages
  PROVE  Push(s, x) \in BoundedSeq(Ages, BufferSize)
<1>0. BufferSize \in Nat \ {0}
  BY SessionAssumption
<1>1. s \in Seq(Ages) /\ Len(s) <= BufferSize
  BY <1>0, BoundedSeqType
<1>2. CASE Len(s) = BufferSize
  <2>1. s # <<>>
    BY <1>0, <1>2
  <2>2. Tail(s) \in Seq(Ages) /\ Len(Tail(s)) = Len(s) - 1
    BY <1>1, <2>1
  <2>3. Append(Tail(s), x) \in Seq(Ages) /\ Len(Append(Tail(s), x)) = Len(s)
    BY <1>1, <2>2
  <2> QED
    BY <1>0, <1>2, <2>3, BoundedSeqType DEF Push
<1>3. CASE Len(s) # BufferSize
  <2>1. Append(s, x) \in Seq(Ages) /\ Len(Append(s, x)) = Len(s) + 1
    BY <1>1
  <2>2. Len(Append(s, x)) <= BufferSize
    BY <1>0, <1>1, <1>3, <2>1
  <2> QED
    BY <1>0, <1>3, <2>1, <2>2, BoundedSeqType DEF Push
<1> QED
  BY <1>2, <1>3

\* The interval between the first share of the buffer and now.
LEMMA IntervalsType ==
  ASSUME NEW s \in BoundedSeq(Ages, BufferSize)
  PROVE  SumFunction(s) \in Nat /\ Len(s) \in Nat
<1>1. s \in Seq(Ages)
  BY SessionAssumption, BoundedSeqType
<1>2. DOMAIN s = 1..Len(s) /\ Len(s) \in Nat /\ \A i \in DOMAIN s : s[i] \in Nat
  <2>1. DOMAIN s = 1..Len(s) /\ Len(s) \in Nat
    BY <1>1
  <2>2. \A i \in 1..Len(s) : s[i] \in Ages
    BY <1>1
  <2> QED
    BY <2>1, <2>2, AgesFacts
<1>3. IsFiniteSet(DOMAIN s)
  BY <1>2, FS_Interval
<1>4. SumFunctionOnSet(s, DOMAIN s) \in Nat
  BY <1>2, <1>3, SumNat
<1> QED
  BY <1>2, <1>4 DEF SumFunction

LEMMA ScaledType ==
  ASSUME NEW d \in Nat, NEW sum \in Nat, sum > 0, NEW n \in Nat
  PROVE  Scaled(d, sum, n) \in Int
<1> DEFINE p == d * TargetTime * n
<1>1. p \in Nat /\ d * sum \in Nat
  BY SessionAssumption
<1> HIDE DEF p
<1>2. p + sum - 1 \in Int
  BY <1>1
<1>3. (p + sum - 1) \div sum \in Int /\ p \div sum \in Int
  BY <1>1, <1>2
<1> QED
  BY <1>3 DEF Scaled, p

LEMMA LimitedType ==
  ASSUME NEW d \in Int, NEW x \in Int
  PROVE  Limited(d, x) \in Int
<1>1. MaxDelta \in Int
  BY SessionAssumption
<1> DEFINE a == d - MaxDelta
           b == d + MaxDelta
           m == Min({b, x})
<1>2. a \in Int /\ b \in Int
  BY <1>1
<1> HIDE DEF a, b
<1>3. Min({b, x}) = IF b <= x THEN b ELSE x
  BY <1>2, MinMaxPair
<1>4. m \in Int
  BY <1>2, <1>3
<1> HIDE DEF m
<1>5. Max({a, m}) = IF a >= m THEN a ELSE m
  BY <1>2, <1>4, MinMaxPair
<1>6. Max({a, m}) \in Int
  BY <1>2, <1>4, <1>5
<1> QED
  BY <1>6 DEF Limited, a, b, m

\* VarDiffManager: whatever the average, the result is within the configured limits.
LEMMA ClampedType ==
  ASSUME NEW x \in Int
  PROVE  Clamped(x) \in MinDiff..MaxDiff
<1>1. MinDiff \in Int /\ MaxDiff \in Int /\ MinDiff <= MaxDiff
  BY SessionAssumption
<1> DEFINE m == Max({MinDiff, x})
<1>2. m \in Int /\ m >= MinDiff
  <2>1. Max({MinDiff, x}) = IF MinDiff >= x THEN MinDiff ELSE x
    BY <1>1, MinMaxPair
  <2> QED
    BY <1>1, <2>1
<1> HIDE DEF m
<1>3. Min({MaxDiff, m}) = IF MaxDiff <= m THEN MaxDiff ELSE m
  BY <1>1, <1>2, MinMaxPair
<1>4. Min({MaxDiff, m}) \in MinDiff..MaxDiff
  BY <1>1, <1>2, <1>3
<1> QED
  BY <1>4 DEF Clamped, m

LEMMA RetargetType ==
  ASSUME NEW d \in Diffs, NEW sum \in Nat, NEW n \in Nat, Retarget(d, sum, n) # d
  PROVE  Retarget(d, sum, n) \in MinDiff..MaxDiff
<1>0. d \in Nat /\ MaxDiff \in MinDiff..MaxDiff
  BY DiffsFacts, SessionAssumption
<1>1. CASE sum > 0
  <2> DEFINE x == Limited(d, Scaled(d, sum, n))
  <2>1. x \in Int
    <3> DEFINE y == Scaled(d, sum, n)
    <3>1. y \in Int
      BY <1>0, <1>1, ScaledType
    <3> HIDE DEF y
    <3>2. Limited(d, y) \in Int
      BY <1>0, <3>1, LimitedType
    <3> QED
      BY <3>2 DEF y
  <2>2. Retarget(d, sum, n) = Clamped(x)
    BY <1>1 DEF Retarget
  <2> HIDE DEF x
  <2> QED
    BY <2>1, <2>2, ClampedType
<1>2. CASE sum = 0 /\ MaxDelta = 0 /\ d > 0
  BY <1>0, <1>2 DEF Retarget
<1>3. CASE ~(sum > 0) /\ ~(sum = 0 /\ MaxDelta = 0 /\ d > 0)
  BY <1>3 DEF Retarget
<1> QED
  BY <1>1, <1>2, <1>3

-----------------------------------------------------------------------------
LEMMA InitTInv == Init => TInv
<1> SUFFICES ASSUME Init PROVE TInv
  OBVIOUS
<1>1. IInv
  BY InitIInv
<1>2. Clock
  <2>1. times \in BoundedSeq(Ages, BufferSize)
    <3>1. times \in Seq(Ages) /\ Len(times) <= BufferSize
      BY SessionAssumption DEF Init
    <3> QED
      BY <3>1, SessionAssumption, BoundedSeqType
  <2> QED
    BY <2>1, AgesFacts DEF Init, Clock
<1>3. Worth
  <2>1. stage["request"] = "none"
    BY SomeThreads DEF Init
  <2>2. newDiff \in [Threads -> MinDiff..MaxDiff \cup {Null}]
    BY DEF Init
  <2> QED
    BY <2>1, <2>2, DiffsFacts DEF Init, Worth
<1>4. Flags
  BY Zenon DEF Init, Flags
<1>5. events \in 0..MaxEvents
  BY SessionAssumption DEF Init
<1>6. TimersCounted
  <2>1. Entering = {} /\ stage["cast"] = "none"
    BY SomeThreads DEF Init, Entering
  <2>2. Cardinality(Entering) = 0
    BY <2>1, FS_EmptySet
  <2>3. Waiting \in {0, 1}
    <3> DEFINE none == NoTimers
    <3>0. TargetTime \in 0..TargetTime /\ IsFiniteSet(0..TargetTime)
      BY SessionAssumption, FS_Interval
    <3>1. \A r \in 0..TargetTime : none[r] = 0
      BY DEF NoTimers
    <3>2. SumFunctionOnSet(none, 0..TargetTime) = 0
      <4> HIDE DEF none
      <4> QED
        BY <3>0, <3>1, SumZero
    <3>3. CASE varDiff
      <4>1. timers = [none EXCEPT ![TargetTime] = 1]
        BY <3>3 DEF Init
      <4>2. none \in [0..TargetTime -> Nat]
        BY DEF NoTimers
      <4> HIDE DEF none
      <4>3. /\ timers[TargetTime] = 1 /\ none[TargetTime] = 0
            /\ \A r \in 0..TargetTime : none[r] \in Int /\ timers[r] \in Int
                                         /\ (r # TargetTime => timers[r] = none[r])
        BY <3>0, <3>1, <4>1, <4>2
      <4>4. SumFunctionOnSet(timers, 0..TargetTime)
              = SumFunctionOnSet(none, 0..TargetTime) + (timers[TargetTime] - none[TargetTime])
        BY <3>0, <4>3, SumExcept
      <4> QED
        BY <3>2, <4>3, <4>4 DEF Waiting
    <3>4. CASE ~varDiff
      BY <3>2, <3>4 DEF Init, Waiting
    <3> QED
      BY <3>3, <3>4
  <2> QED
    BY <2>1, <2>2, <2>3, EnteringIsFinite DEF TimersCounted
<1> QED
  BY <1>1, <1>2, <1>3, <1>4, <1>5, <1>6 DEF TInv

LEMMA TickTypes ==
  ASSUME TInv, Tick
  PROVE  TInv'
<1>1. IInv' /\ TimersCounted'
  BY TickStep, TickCounted DEF TInv
<1>2. Clock'
  BY OlderType, AgesFacts DEF TInv, Clock, Tick
<1>3. Worth' /\ Flags' /\ events' \in 0..MaxEvents
  BY DEF TInv, Worth, Flags, Tick, diffVars, historyVars
<1> QED
  BY <1>1, <1>2, <1>3 DEF TInv

LEMMA FireTypes ==
  ASSUME TInv, NEW i \in Idle, Fire(i)
  PROVE  TInv'
<1>1. IInv' /\ TimersCounted'
  BY FireStep, FireCounted DEF TInv
<1>2. i \in Threads /\ i # "request"
  BY SessionAssumption DEF Threads
<1>3. stage'["request"] = stage["request"]
  <2>1. CASE alive /\ varDiff
    BY <1>2, <2>1, SomeThreads, GotoType DEF Fire, Stages, TInv
  <2>2. CASE ~(alive /\ varDiff)
    BY <2>2 DEF Fire
  <2> QED
    BY <2>1, <2>2
<1>4. Clock' /\ Worth' /\ Flags' /\ events' \in 0..MaxEvents
  BY <1>3 DEF TInv, Clock, Worth, Flags, Fire, contextVars, diffVars, historyVars
<1> QED
  BY <1>1, <1>4 DEF TInv

\* A step to a stage other than "credit" leaves what is known of a share to be credited.
LEMMA CreditKept ==
  ASSUME TInv, NEW t \in Threads, NEW s \in Stages, s # "credit", Goto(t, s),
         previous = Null \/ previous' # Null
  PROVE  stage'["request"] = "credit" => previous' # Null
<1>1. stage'[t] = s /\ \A u \in Threads : u # t => stage'[u] = stage[u]
  BY GotoType DEF TInv
<1>2. stage'["request"] = "credit" => stage["request"] = "credit"
  BY <1>1, SomeThreads
<1> QED
  BY <1>2 DEF TInv, Worth

LEMMA LockTypes ==
  ASSUME TInv, NEW t \in Threads, Lock(t)
  PROVE  TInv'
<1>1. IInv' /\ TimersCounted'
  BY LockStep, LockCounted DEF TInv
<1>2. PICK s \in {"update", "none"} : Goto(t, s)
  BY DEF Lock
<1>3. UNCHANGED <<contextVars, diffVars, newDiff, work, events, historyVars>>
  BY DEF Lock
<1> USE DEF contextVars, diffVars, historyVars
<1>4. stage'["request"] = "credit" => previous' # Null
  BY <1>2, <1>3, CreditKept DEF Stages
<1>5. Clock' /\ Worth' /\ Flags' /\ events' \in 0..MaxEvents
  BY <1>3, <1>4 DEF TInv, Clock, Worth, Flags
<1> QED
  BY <1>1, <1>5 DEF TInv

LEMMA FirstUpdateTypes ==
  ASSUME TInv, NEW t \in Threads, FirstUpdate(t)
  PROVE  /\ Clock' /\ lastUpdate' \in BOOLEAN
         /\ newDiff' \in [Threads -> MinDiff..MaxDiff \cup {Null}]
         /\ Goto(t, "none")
<1>1. times' \in BoundedSeq(Ages, BufferSize)
  <2>1. times' \in Seq(Ages) /\ Len(times') <= BufferSize
    BY SessionAssumption DEF FirstUpdate
  <2> QED
    BY <2>1, SessionAssumption, BoundedSeqType
<1>2. lastTs' \in Ages \cup {Null} /\ lastRtc' \in Ages
  BY AgesFacts DEF FirstUpdate
<1> QED
  BY <1>1, <1>2 DEF FirstUpdate, Clock, TInv, Flags, Worth

LEMMA LaterUpdateTypes ==
  ASSUME TInv, NEW t \in Threads, LaterUpdate(t, t \in Idle)
  PROVE  /\ Clock' /\ lastUpdate' \in BOOLEAN
         /\ newDiff' \in [Threads -> MinDiff..MaxDiff \cup {Null}]
         /\ \E s \in {"write", "none"} : Goto(t, s)
<1> DEFINE sum == lastTs + SumFunction(times)
           n == Len(times) + 1
           d == Retarget(difficulty, sum, n)
           Out == lastRtc >= RetargetTime /\ OutOfRange(sum, n) /\ d # difficulty
<1>0. /\ lastTs \in Ages /\ lastRtc \in Ages /\ times \in BoundedSeq(Ages, BufferSize)
      /\ lastUpdate \in BOOLEAN /\ newDiff \in [Threads -> MinDiff..MaxDiff \cup {Null}]
      /\ difficulty \in Diffs
  BY DEF LaterUpdate, TInv, Clock, Flags, Worth
<1>1. sum \in Nat /\ n \in Nat
  BY <1>0, IntervalsType, AgesFacts
<1>2. d # difficulty => d \in MinDiff..MaxDiff
  <2> HIDE DEF sum, n
  <2> QED
    BY <1>0, <1>1, RetargetType
<1>3. /\ lastTs' = IF t \in Idle THEN lastTs ELSE 0
      /\ IF Out
         THEN /\ lastRtc' = 0 /\ lastUpdate' = TRUE /\ times' = <<>>
              /\ newDiff' = [newDiff EXCEPT ![t] = d]
              /\ Goto(t, "write")
         ELSE /\ times' = IF t \in Idle THEN times ELSE Push(times, lastTs)
              /\ Goto(t, "none")
              /\ UNCHANGED <<lastRtc, lastUpdate, newDiff>>
  BY DEF LaterUpdate
<1>4. Out => d # difficulty
  OBVIOUS
<1> HIDE DEF sum, n, d, Out
<1>5. lastTs' \in Ages \cup {Null}
  BY <1>0, <1>3, AgesFacts
<1>6. CASE Out
  <2>1. lastUpdate' = TRUE
    BY <1>3, <1>6
  <2>2. lastUpdate' \in BOOLEAN
    BY <2>1, Zenon
  <2>3. times' \in BoundedSeq(Ages, BufferSize)
    <3>1. times' \in Seq(Ages) /\ Len(times') <= BufferSize
      BY <1>3, <1>6, SessionAssumption
    <3> QED
      BY <3>1, SessionAssumption, BoundedSeqType
  <2>4. newDiff' \in [Threads -> MinDiff..MaxDiff \cup {Null}]
    <3> DEFINE V == MinDiff..MaxDiff \cup {Null}
    <3>1. newDiff \in [Threads -> V] /\ d \in V /\ newDiff' = [newDiff EXCEPT ![t] = d]
      BY <1>0, <1>2, <1>3, <1>4, <1>6
    <3> HIDE DEF V
    <3>2. newDiff' \in [Threads -> V]
      BY <3>1
    <3> QED
      BY <3>2 DEF V
  <2>5. lastRtc' \in Ages /\ Goto(t, "write")
    BY <1>3, <1>6, AgesFacts
  <2> QED
    BY <1>5, <2>2, <2>3, <2>4, <2>5 DEF Clock
<1>7. CASE ~Out
  <2>1. times' \in BoundedSeq(Ages, BufferSize)
    BY <1>0, <1>3, <1>7, PushType
  <2>2. lastUpdate' = lastUpdate /\ lastRtc' = lastRtc /\ newDiff' = newDiff /\ Goto(t, "none")
    BY <1>3, <1>7
  <2>3. lastUpdate' \in BOOLEAN
    BY <1>0, <2>2
  <2> QED
    BY <1>0, <1>5, <2>1, <2>2, <2>3 DEF Clock
<1> QED
  BY <1>6, <1>7

LEMMA UpdateTypes ==
  ASSUME TInv, NEW t \in Threads, Update(t)
  PROVE  TInv'
<1>0. stage[t] = "update" /\ UNCHANGED <<diffVars, timers, work, events, historyVars>>
  BY DEF Update
<1> USE DEF diffVars, historyVars
<1>1. /\ Clock' /\ lastUpdate' \in BOOLEAN
      /\ newDiff' \in [Threads -> MinDiff..MaxDiff \cup {Null}]
      /\ \E s \in {"write", "none"} : Goto(t, s)
  <2>1. CASE FirstUpdate(t)
    BY <2>1, FirstUpdateTypes
  <2>2. CASE LaterUpdate(t, t \in Idle)
    BY <2>2, LaterUpdateTypes
  <2>3. CASE ~varDiff /\ Goto(t, "none") /\ UNCHANGED <<contextVars, newDiff>>
    BY <2>3 DEF TInv, Clock, Flags, Worth, contextVars
  <2> QED
    BY <2>1, <2>2, <2>3 DEF Update
<1>2. PICK s \in {"write", "none"} : Goto(t, s)
  BY <1>1
<1>3. IInv' /\ TimersCounted'
  BY <1>0, <1>2, UpdateStep, CountKept DEF TInv, Stages
<1>4. stage'["request"] = "credit" => previous' # Null
  BY <1>0, <1>2, CreditKept DEF Stages
<1>5. Worth' /\ Flags' /\ events' \in 0..MaxEvents
  BY <1>0, <1>1, <1>4 DEF TInv, Worth, Flags
<1> QED
  BY <1>1, <1>3, <1>5 DEF TInv

\* The threads that apply a pending difficulty.
LEMMA PendingTypes ==
  ASSUME TInv, NEW t \in Threads,
         BeginEnqueue(t) \/ EndEnqueue(t) \/ Test(t) \/ Set(t) \/ Clear(t)
  PROVE  TInv'
<1> USE DEF contextVars, diffVars, historyVars
<1>0. /\ difficulty \in Diffs /\ previous \in Diffs \cup {Null} /\ pending \in Diffs \cup {Null}
      /\ newDiff \in [Threads -> MinDiff..MaxDiff \cup {Null}] /\ held \subseteq Diffs
  BY DEF TInv, Worth, Flags
<1>1. UNCHANGED <<contextVars, timers, work, events, chosen, late, earned>>
  BY DEF BeginEnqueue, EndEnqueue, Test, Set, Clear
<1>2. stage[t] \in Applying /\ \E s \in Applying \cup {"none"} : Goto(t, s)
  BY DEF BeginEnqueue, EndEnqueue, Test, Set, Clear
<1>3. PICK s \in Applying \cup {"none"} : Goto(t, s)
  BY <1>2
<1>4. IInv' /\ TimersCounted'
  BY <1>1, <1>2, <1>3, PendingStep, CountKept DEF TInv, Stages
<1>5. pending' \in Diffs \cup {Null} /\ newDiff' \in [Threads -> MinDiff..MaxDiff \cup {Null}]
  <2>1. CASE BeginEnqueue(t)
    BY <1>0, <2>1, DiffsFacts DEF BeginEnqueue
  <2>2. CASE EndEnqueue(t)
    <3> DEFINE V == MinDiff..MaxDiff \cup {Null}
    <3>1. newDiff \in [Threads -> V] /\ Null \in V /\ V \subseteq Diffs \cup {Null}
      BY <1>0, DiffsFacts
    <3> HIDE DEF V
    <3>2. newDiff' \in [Threads -> V] /\ newDiff[t] \in V
      BY <2>2, <3>1 DEF EndEnqueue
    <3>3. pending' \in Diffs \cup {Null}
      BY <2>2, <3>1, <3>2 DEF EndEnqueue
    <3> QED
      BY <3>2, <3>3 DEF V
  <2>3. CASE Test(t) \/ Set(t)
    BY <1>0, <2>3 DEF Test, Set
  <2>4. CASE Clear(t)
    BY <1>0, <2>4 DEF Clear
  <2> QED
    BY <2>1, <2>2, <2>3, <2>4
<1>6. /\ difficulty' \in Diffs /\ previous' \in Diffs \cup {Null}
      /\ previous = Null \/ previous' # Null
  <2>1. CASE BeginEnqueue(t) \/ EndEnqueue(t) \/ Test(t) \/ Clear(t)
    BY <1>0, <2>1 DEF BeginEnqueue, EndEnqueue, Test, Clear
  <2>2. CASE Set(t)
    BY <1>0, <2>2, DiffsFacts DEF Set, SetDifficulty
  <2> QED
    BY <2>1, <2>2
<1>7. held' \subseteq Diffs
  BY <1>0 DEF BeginEnqueue, EndEnqueue, Test, Set, Clear
<1>8. stage'["request"] = "credit" => previous' # Null
  BY <1>3, <1>6, CreditKept DEF Stages
<1>9. Clock' /\ Worth' /\ Flags' /\ events' \in 0..MaxEvents
  BY <1>1, <1>5, <1>6, <1>7, <1>8 DEF TInv, Clock, Worth, Flags
<1> QED
  BY <1>4, <1>9 DEF TInv

LEMMA CastTypes ==
  ASSUME TInv, Cast
  PROVE  TInv'
<1>0. /\ "cast" \in Threads /\ stage["cast"] = "none" /\ Goto("cast", "set") /\ events' \in 0..MaxEvents
      /\ UNCHANGED <<contextVars, diffVars, timers, newDiff, work, historyVars>>
  BY SomeThreads, SessionAssumption DEF Cast, TInv
<1> USE DEF contextVars, diffVars, historyVars
<1>1. IInv' /\ TimersCounted'
  BY <1>0, CastStep, CountKept DEF TInv, Stages
<1>2. stage'["request"] = "credit" => previous' # Null
  BY <1>0, CreditKept DEF Stages
<1>3. Clock' /\ Worth' /\ Flags'
  BY <1>0, <1>2 DEF TInv, Clock, Worth, Flags
<1> QED
  BY <1>0, <1>1, <1>3 DEF TInv

\* A difficulty set by the client.
LEMMA AskedTypes ==
  ASSUME TInv, NEW d \in Asked, Authorize(d) \/ Suggest(d)
  PROVE  TInv'
<1>0. /\ stage["request"] = "none" /\ events' \in 0..MaxEvents
      /\ difficulty' = d /\ previous' = difficulty
      /\ UNCHANGED <<contextVars, pending, timers, stage, newDiff, work, earned, held>>
      /\ (chosen' = d /\ late' = UnderWay) \/ UNCHANGED <<chosen, late>>
  BY SessionAssumption DEF Authorize, Suggest, Request, SetDifficulty, TInv
<1> USE DEF contextVars
<1>1. IInv'
  BY AuthorizeStep, SuggestStep DEF TInv
<1>2. TimersCounted'
  BY <1>0 DEF TInv, TimersCounted, Waiting, Entering
<1>3. late' \in BOOLEAN
  <2>1. late \in BOOLEAN
    BY DEF TInv, Flags
  <2>2. CASE late' = UnderWay
    BY <2>2, Zenon DEF UnderWay
  <2>3. CASE late' = late
    BY <2>1, <2>3
  <2> QED
    BY <1>0, <2>2, <2>3
<1>4. Clock' /\ Worth' /\ Flags'
  BY <1>0, <1>3, DiffsFacts DEF TInv, Clock, Worth, Flags
<1> QED
  BY <1>0, <1>1, <1>2, <1>4 DEF TInv

LEMMA AcceptTypes ==
  ASSUME TInv, NEW w \in Nat, NEW d \in Nat, NEW ds, Accept(w, d, ds)
  PROVE  /\ work' \in Diffs /\ earned' \in BOOLEAN /\ held' = {}
         /\ stage'["request"] # "credit"
<1>1. earned' = (d <= w \/ d \in ds)
  BY DEF Accept
<1>2. earned' \in BOOLEAN
  BY <1>1, Zenon
<1>3. PICK s \in {"enter", "none"} : Goto("request", s)
  BY DEF Accept
<1>4. stage'["request"] = s
  BY <1>3, SomeThreads, GotoType DEF TInv, Stages
<1> QED
  BY <1>2, <1>4, DiffsFacts DEF Accept

LEMMA SubmitTypes ==
  ASSUME TInv, NEW w \in Diffs, NEW n, Submit(w, n)
  PROVE  TInv'
<1>0. /\ stage["request"] = "none" /\ events' \in 0..MaxEvents
      /\ UNCHANGED <<contextVars, diffVars, newDiff, chosen, late>>
  BY SessionAssumption DEF Submit, Request, TInv
<1> USE DEF contextVars, diffVars
<1>2. IInv'
  BY SubmitStep DEF TInv
<1>3. /\ TimersCounted' /\ work' \in Diffs /\ earned' \in BOOLEAN /\ held' = {}
      /\ stage'["request"] # "credit"
  <2>1. ASSUME NEW ds, Accept(w, difficulty, ds)
        PROVE  /\ TimersCounted' /\ work' \in Diffs /\ earned' \in BOOLEAN /\ held' = {}
               /\ stage'["request"] # "credit"
    <3>1. w \in Nat /\ difficulty \in Nat
      BY DiffsFacts DEF TInv, Worth
    <3> QED
      BY <2>1, <3>1, AcceptTypes, AcceptCounted DEF TInv
  <2>2. CASE /\ work' = w /\ earned' = TRUE /\ held' = {}
             /\ Goto("request", "judge") /\ UNCHANGED timers
    <3>1. earned' \in BOOLEAN
      BY <2>2, Zenon
    <3>2. stage'["request"] = "judge"
      BY <2>2, SomeThreads, GotoType DEF TInv, Stages
    <3>3. TimersCounted'
      BY <1>0, <2>2, SomeThreads, CountKept DEF TInv, Stages
    <3> QED
      BY <2>2, <3>1, <3>2, <3>3
  <2> QED
    BY <2>1, <2>2 DEF Submit
<1>4. Clock' /\ Worth' /\ Flags'
  BY <1>0, <1>3 DEF TInv, Clock, Worth, Flags
<1> QED
  BY <1>0, <1>2, <1>3, <1>4 DEF TInv

LEMMA JudgeTypes ==
  ASSUME TInv, Judge
  PROVE  TInv'
<1>0. /\ stage["request"] = "judge" /\ "request" \in Threads
      /\ UNCHANGED <<contextVars, diffVars, timers, newDiff, events, chosen, late, earned>>
  BY SomeThreads DEF Judge, Compared
<1> USE DEF contextVars, diffVars
<1>1. PICK s \in {"credit", "none"} : Goto("request", s) /\ (s = "credit" => previous # Null)
  BY DEF Judge, Compared
<1>2. stage'["request"] = s
  BY <1>0, <1>1, GotoType DEF TInv, Stages
<1>3. IInv' /\ TimersCounted'
  BY <1>0, <1>1, JudgeStep, CountKept DEF TInv, Stages
<1>4. work' \in Diffs /\ held' \subseteq Diffs
  BY DiffsFacts DEF Judge, Compared, TInv, Worth, Flags
<1>5. Clock' /\ Worth' /\ Flags' /\ events' \in 0..MaxEvents
  BY <1>0, <1>1, <1>2, <1>4 DEF TInv, Clock, Worth, Flags
<1> QED
  BY <1>3, <1>5 DEF TInv

LEMMA CreditTypes ==
  ASSUME TInv, Credit
  PROVE  TInv'
<1>0. /\ stage["request"] = "credit" /\ Accept(work, previous, held)
      /\ UNCHANGED <<contextVars, diffVars, newDiff, events, chosen, late>>
  BY DEF Credit
<1> USE DEF contextVars, diffVars
<1>1. work \in Nat /\ previous \in Nat
  BY <1>0, DiffsFacts DEF TInv, Worth
<1>2. work' \in Diffs /\ earned' \in BOOLEAN /\ held' = {} /\ stage'["request"] # "credit"
  BY <1>0, <1>1, AcceptTypes
<1>3. IInv' /\ TimersCounted'
  BY <1>0, CreditStep, AcceptCounted DEF TInv
<1>4. Clock' /\ Worth' /\ Flags' /\ events' \in 0..MaxEvents
  BY <1>0, <1>2 DEF TInv, Clock, Worth, Flags
<1> QED
  BY <1>3, <1>4 DEF TInv

LEMMA DisconnectTypes ==
  ASSUME TInv, Disconnect \/ UNCHANGED vars
  PROVE  TInv'
<1>0. UNCHANGED <<contextVars, diffVars, timers, stage, newDiff, work, events, historyVars>>
  BY DEF Disconnect, vars
<1> USE DEF contextVars, diffVars, historyVars
<1>1. IInv'
  BY DisconnectStep DEF TInv
<1>2. TimersCounted'
  BY <1>0 DEF TInv, TimersCounted, Waiting, Entering
<1>3. Clock' /\ Worth' /\ Flags' /\ events' \in 0..MaxEvents
  BY <1>0 DEF TInv, Clock, Worth, Flags
<1> QED
  BY <1>1, <1>2, <1>3 DEF TInv

LEMMA StepTInv == TInv /\ [Next]_vars => TInv'
BY TickTypes, FireTypes, LockTypes, UpdateTypes, PendingTypes, CastTypes, AskedTypes,
   SubmitTypes, JudgeTypes, CreditTypes, DisconnectTypes DEF Next, Step

LEMMA TypesFollow == TInv => TypeOK
<1> SUFFICES ASSUME TInv PROVE TypeOK
  OBVIOUS
<1>1. IInv /\ TimersCounted
  BY DEF TInv
<1>2. Waiting \in Nat /\ Waiting <= Cardinality(Idle) + 1
  BY <1>1, WaitingType, EnteringIsFinite DEF TimersCounted
<1>3. \A r \in 0..TargetTime : timers[r] \in 0..(Cardinality(Idle) + 1)
  BY <1>1, <1>2, WaitingType, EnteringIsFinite
<1>4. timers \in [0..TargetTime -> 0..(Cardinality(Idle) + 1)]
  <2> DEFINE V == 0..(Cardinality(Idle) + 1)
             D == 0..TargetTime
  <2>1. timers \in [D -> Nat] /\ \A r \in D : timers[r] \in V
    BY <1>1, <1>3 DEF IInv, Shape
  <2> HIDE DEF V, D
  <2>2. timers \in [D -> V]
    BY <2>1
  <2> QED
    BY <2>2 DEF V, D
<1>5. alive \in BOOLEAN /\ varDiff \in BOOLEAN /\ stage \in [Threads -> Stages]
  BY <1>1 DEF IInv, Shape
<1>6. Clock /\ Worth /\ Flags /\ events \in 0..MaxEvents
  BY DEF TInv
<1> QED
  BY <1>4, <1>5, <1>6 DEF TypeOK, Clock, Worth, Flags

\* VarDiffContext and WorkerContextBase: whatever interferes, a difficulty is one that was
\* asked for, configured or within the limits of the variable difficulty, the buffer holds
\* BufferSize times at most, and there are never more idle timers under way than callbacks
\* that can run, and one.
THEOREM TypeCorrect == Spec => []TypeOK
<1>1. Spec => []TInv
  BY InitTInv, StepTInv, PTL DEF Spec
<1> QED
  BY <1>1, TypesFollow, PTL
=============================================================================
