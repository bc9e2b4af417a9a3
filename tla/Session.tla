------------------------------ MODULE Session -------------------------------
(***************************************************************************)
(* The difficulty of one stratum connection: WorkerContextBase, the        *)
(* variable difficulty (VarDiffManager, PoolBase), and the requests of     *)
(* ExchangeCoinPoolBase that set it or are judged by it.                   *)
(*                                                                         *)
(* Three kinds of threads change it.  The requests of the client are       *)
(* handled one after the other; an accepted share ends in an update of the *)
(* variable difficulty.  Idle timers do the same when no share came for    *)
(* TargetTime.  A broadcast applies a difficulty that is still pending.    *)
(* The manager works under a lock, but what it has computed is enqueued,   *)
(* applied and cleared without one.                                        *)
(*                                                                         *)
(* The client has subscribed, and authorized without a static difficulty;  *)
(* it may authorize again with one.  What the client is told is left out.  *)
(* Difficulties are whole numbers; a quotient is rounded away from the     *)
(* present difficulty, so that what is a change in the code is one here.   *)
(* Times are whole numbers of ticks and are kept as ages.                  *)
(***************************************************************************)
EXTENDS Integers, Sequences, SequencesExt, FiniteSetsExt

CONSTANTS
  Idle,             \* bound: the idle callbacks that can be under way
  BaseDiff,         \* Difficulty of the pool's endpoint
  MinDiff, MaxDiff, MaxDelta,        \* VarDiffConfig; MaxDelta = 0 for none
  TargetTime, TMin, TMax, RetargetTime,
  BufferSize,       \* share times that are kept (10)
  Asked,            \* difficulties clients ask for; nothing limits them
  NetworkDiffs,     \* difficulties of blocks
  Null,
  MaxAge,           \* bound: ages saturate here
  MaxEvents         \* bound: requests, and broadcasts that meet a pending difficulty

\* The value of a Nullable<double> whose HasValue has been written first.
Torn == 0
Diffs == MinDiff..MaxDiff \cup Asked \cup {BaseDiff, Torn}
Ages == 0..MaxAge
Threads == Idle \cup {"request", "cast"}

ASSUME SessionAssumption ==
  /\ MinDiff \in Nat \ {0} /\ MaxDiff \in Nat /\ MinDiff <= MaxDiff
  /\ BaseDiff \in Nat \ {0} /\ Asked \subseteq Nat \ {0}
  /\ NetworkDiffs \subseteq Nat \ {0}
  /\ MaxDelta \in Nat /\ TMin \in Nat /\ TMax \in Nat
  /\ TMin <= TargetTime /\ TargetTime <= TMax /\ TargetTime \in Nat \ {0}
  /\ RetargetTime \in Nat \ {0} /\ BufferSize \in Nat \ {0}
  /\ MaxAge \in Nat /\ MaxAge > TMax * (BufferSize + 1) /\ MaxAge > RetargetTime
  /\ Null \notin Nat /\ {"request", "cast"} \cap Idle = {} /\ IsFiniteSet(Idle)
  /\ MaxEvents \in Nat

VARIABLES
  alive,
  varDiff,          \* context.VarDiff is not null
  lastTs, lastRtc, times, lastUpdate,    \* VarDiffContext
  difficulty, previous, pending,         \* WorkerContextBase
  timers,           \* how many timers fire in r ticks, for each r
  stage,            \* what each thread is about to do
  newDiff,          \* what an update has computed
  work,             \* of the share that is judged
  events,
  chosen, late,     \* history: the static difficulty; an update was under way
  earned, held      \* history: the last share had its credit; what was replaced meanwhile

contextVars == <<lastTs, lastRtc, times, lastUpdate>>
diffVars    == <<difficulty, previous, pending>>
historyVars == <<chosen, late, earned, held>>
vars == <<alive, varDiff, contextVars, diffVars, timers, stage, newDiff, work, events,
          historyVars>>

Stages == {"none", "enter", "update", "write", "enqueue", "test", "set", "clear",
           "judge", "credit"}

TypeOK ==
  /\ alive \in BOOLEAN /\ varDiff \in BOOLEAN
  /\ lastTs \in Ages \cup {Null} /\ lastRtc \in Ages
  /\ times \in BoundedSeq(Ages, BufferSize) /\ lastUpdate \in BOOLEAN
  /\ difficulty \in Diffs /\ previous \in Diffs \cup {Null} /\ pending \in Diffs \cup {Null}
  /\ timers \in [0..TargetTime -> 0..(Cardinality(Idle) + 1)]
  /\ stage \in [Threads -> Stages]
  /\ newDiff \in [Threads -> MinDiff..MaxDiff \cup {Null}]
  /\ work \in Diffs /\ events \in 0..MaxEvents
  /\ chosen \in Diffs \cup {Null} /\ late \in BOOLEAN
  /\ earned \in BOOLEAN /\ held \subseteq Diffs

NoTimers == [r \in 0..TargetTime |-> 0]

\* OnConnect, on a port with or without variable difficulty.
Init ==
  /\ alive = TRUE /\ varDiff \in BOOLEAN
  /\ lastTs = Null /\ lastRtc = 0 /\ times = <<>> /\ lastUpdate = FALSE
  /\ difficulty = BaseDiff /\ previous = Null /\ pending = Null
  /\ timers = IF varDiff THEN [NoTimers EXCEPT ![TargetTime] = 1] ELSE NoTimers
  /\ stage = [t \in Threads |-> "none"] /\ newDiff = [t \in Threads |-> Null]
  /\ work = Torn /\ events = 0
  /\ chosen = BaseDiff /\ late = FALSE /\ earned = TRUE /\ held = {}

Goto(t, s) == stage' = [stage EXCEPT ![t] = s]
-----------------------------------------------------------------------------
(***************************************************************************)
(* Time and timers                                                         *)
(***************************************************************************)
Older(a) == IF a = Null \/ a = MaxAge THEN a ELSE a + 1

\* A timer that is due may be late.
Tick ==
  /\ lastTs' = Older(lastTs) /\ lastRtc' = Older(lastRtc)
  /\ timers' = [r \in 0..TargetTime |->
                  (IF r = 0 THEN timers[0] ELSE 0) + (IF r < TargetTime THEN timers[r + 1] ELSE 0)]
  /\ UNCHANGED <<alive, varDiff, times, lastUpdate, diffVars, stage, newDiff, work, events,
                 historyVars>>

\* A timer fires: nothing happens if the client is gone or has a static difficulty.
Fire(i) ==
  /\ stage[i] = "none" /\ timers[0] > 0
  /\ timers' = [timers EXCEPT ![0] = @ - 1]
  /\ IF alive /\ varDiff THEN Goto(i, "enter") ELSE UNCHANGED stage
  /\ UNCHANGED <<alive, varDiff, contextVars, diffVars, newDiff, work, events, historyVars>>

StartVarDiffIdleUpdate == timers' = [timers EXCEPT ![TargetTime] = @ + 1]
-----------------------------------------------------------------------------
(***************************************************************************)
(* UpdateVarDiffAsync and VarDiffManager.Update                            *)
(***************************************************************************)

\* Mutant of Lock: an idle check does not start the next timer.
LockNoTimer(t) ==
  /\ stage[t] = "enter"
  /\ IF varDiff
     THEN /\ \A u \in Threads : stage[u] # "update"
          /\ IF t \in Idle THEN UNCHANGED timers ELSE StartVarDiffIdleUpdate
          /\ Goto(t, "update")
     ELSE Goto(t, "none") /\ UNCHANGED timers
  /\ UNCHANGED <<alive, varDiff, contextVars, diffVars, newDiff, work, events, historyVars>>

\* context.VarDiff was found; if it is gone by now, the lock statement throws.
Lock(t) ==
  /\ stage[t] = "enter"
  /\ IF varDiff
     THEN /\ \A u \in Threads : stage[u] # "update"
          /\ StartVarDiffIdleUpdate
          /\ Goto(t, "update")
     ELSE Goto(t, "none") /\ UNCHANGED timers
  /\ UNCHANGED <<alive, varDiff, contextVars, diffVars, newDiff, work, events, historyVars>>

\* Mutant of OutOfRange: only shares that come too fast are noticed.
OutOfRangeFast(sum, n) == sum < TMin * n

\* The average of n intervals that add up to sum is outside the range.
OutOfRange(sum, n) == sum < TMin * n \/ sum > TMax * n

\* difficulty * TargetTime / avg
Scaled(d, sum, n) ==
  LET p == d * TargetTime * n
  IN IF p > d * sum THEN (p + sum - 1) \div sum ELSE p \div sum

Limited(d, x) == IF MaxDelta > 0 THEN Max({d - MaxDelta, Min({d + MaxDelta, x})}) ELSE x

\* Mutant of Clamped: MinDiff is not looked at.
ClampedAbove(x) == Min({MaxDiff, x})

Clamped(x) == Min({MaxDiff, Max({MinDiff, x})})

\* An average of 0 makes the quotient infinite, and with a MaxDelta not a number, which
\* is not different from the present difficulty.
Retarget(d, sum, n) ==
  CASE sum > 0 -> Clamped(Limited(d, Scaled(d, sum, n)))
    [] sum = 0 /\ MaxDelta = 0 /\ d > 0 -> MaxDiff
    [] OTHER -> d

Push(s, x) == IF Len(s) = BufferSize THEN Append(Tail(s), x) ELSE Append(s, x)

\* The first update only starts the clock.
FirstUpdate(t) ==
  /\ lastTs = Null
  /\ lastTs' = 0 /\ lastRtc' = 0 /\ times' = <<>>
  /\ Goto(t, "none")
  /\ UNCHANGED <<lastUpdate, newDiff>>

\* Only a share is an observation; an idle check looks at the time that has passed.
LaterUpdate(t, idle) ==
  LET sum == lastTs + SumFunction(times)
      n   == Len(times) + 1
      d   == Retarget(difficulty, sum, n)
  IN /\ lastTs # Null
     /\ lastTs' = IF idle THEN lastTs ELSE 0
     /\ IF lastRtc >= RetargetTime /\ OutOfRange(sum, n) /\ d # difficulty
        THEN /\ lastRtc' = 0 /\ lastUpdate' = TRUE /\ times' = <<>>
             /\ newDiff' = [newDiff EXCEPT ![t] = d]
             /\ Goto(t, "write")
        ELSE /\ times' = IF idle THEN times ELSE Push(times, lastTs)
             /\ Goto(t, "none")
             /\ UNCHANGED <<lastRtc, lastUpdate, newDiff>>

\* Mutant of Update: what was found before the lock is used without another look.
UpdateUnchecked(t) ==
  /\ stage[t] = "update"
  /\ FirstUpdate(t) \/ LaterUpdate(t, t \in Idle)
  /\ UNCHANGED <<alive, varDiff, diffVars, timers, work, events, historyVars>>

\* Under the lock; context.VarDiff is read once more, and must not be null.
Update(t) ==
  /\ stage[t] = "update"
  /\ \/ /\ varDiff
        /\ FirstUpdate(t) \/ LaterUpdate(t, t \in Idle)
     \/ /\ ~varDiff
        /\ Goto(t, "none")
        /\ UNCHANGED <<contextVars, newDiff>>
  /\ UNCHANGED <<alive, varDiff, diffVars, timers, work, events, historyVars>>
-----------------------------------------------------------------------------
(***************************************************************************)
(* The pending difficulty: EnqueueNewDifficulty and ApplyPendingDifficulty *)
(***************************************************************************)

\* pendingDifficulty is written in two stores.
BeginEnqueue(t) ==
  /\ stage[t] = "write"
  /\ pending' = IF pending = Null THEN Torn ELSE pending
  /\ Goto(t, "enqueue")
  /\ UNCHANGED <<alive, varDiff, contextVars, difficulty, previous, timers, newDiff, work,
                 events, historyVars>>

EndEnqueue(t) ==
  /\ stage[t] = "enqueue"
  /\ pending' = newDiff[t] /\ newDiff' = [newDiff EXCEPT ![t] = Null]
  /\ Goto(t, "test")
  /\ UNCHANGED <<alive, varDiff, contextVars, difficulty, previous, timers, work, events,
                 historyVars>>

\* pendingDifficulty.HasValue
Test(t) ==
  /\ stage[t] = "test"
  /\ Goto(t, IF pending # Null THEN "set" ELSE "none")
  /\ UNCHANGED <<alive, varDiff, contextVars, diffVars, timers, newDiff, work, events,
                 historyVars>>

SetDifficulty(d) == previous' = difficulty /\ difficulty' = d

Judging == stage["request"] \in {"judge", "credit"}

\* pendingDifficulty.Value throws when another thread has cleared it.
Set(t) ==
  /\ stage[t] = "set"
  /\ \/ /\ pending # Null
        /\ SetDifficulty(pending)
        /\ held' = IF Judging THEN held \cup {difficulty} ELSE held
        /\ Goto(t, "clear")
     \/ /\ pending = Null
        /\ Goto(t, "none")
        /\ UNCHANGED <<difficulty, previous, held>>
  /\ UNCHANGED <<alive, varDiff, contextVars, pending, timers, newDiff, work, events,
                 chosen, late, earned>>

\* OnNewJob, that finds a difficulty pending.
Cast ==
  /\ alive /\ stage["cast"] = "none" /\ events < MaxEvents
  /\ events' = events + 1
  /\ pending # Null
  /\ Goto("cast", "set")
  /\ UNCHANGED <<alive, varDiff, contextVars, diffVars, timers, newDiff, work, historyVars>>

Clear(t) ==
  /\ stage[t] = "clear"
  /\ pending' = Null
  /\ Goto(t, "none")
  /\ UNCHANGED <<alive, varDiff, contextVars, difficulty, previous, timers, newDiff, work,
                 events, historyVars>>
-----------------------------------------------------------------------------
(***************************************************************************)
(* Requests                                                                *)
(***************************************************************************)
Request ==
  /\ alive /\ stage["request"] = "none" /\ events < MaxEvents
  /\ events' = events + 1

\* Another thread is about to apply a difficulty.
UnderWay ==
  \E t \in Threads \ {"request"} : stage[t] \in {"write", "enqueue", "test", "set", "clear"}

\* OnAuthorizeAsync, with a static difficulty in the password.
Authorize(d) ==
  /\ Request
  /\ IF varDiff THEN d >= MinDiff ELSE d > difficulty
  /\ varDiff' = FALSE
  /\ SetDifficulty(d)
  /\ chosen' = d /\ late' = UnderWay
  /\ UNCHANGED <<alive, contextVars, pending, timers, stage, newDiff, work, earned, held>>

\* OnSuggestDifficultyAsync
Suggest(d) ==
  /\ Request
  /\ d > BaseDiff
  /\ SetDifficulty(d)
  /\ IF varDiff THEN UNCHANGED <<chosen, late>> ELSE chosen' = d /\ late' = UnderWay
  /\ UNCHANGED <<alive, varDiff, contextVars, pending, timers, stage, newDiff, work, earned, held>>

\* The share is accepted, with d for its credit: it meets d, or d is among those in ds that
\* excuse it.  Publishing it stops all timers, and the variable difficulty is updated.
Accept(w, d, ds) ==
  /\ earned' = (d <= w \/ d \in ds) /\ held' = {} /\ work' = Torn
  /\ timers' = NoTimers
  /\ Goto("request", IF varDiff THEN "enter" ELSE "none")

\* ProcessShareInternal: w is the greatest difficulty the share meets, n that of a block.  A
\* block candidate is taken whatever the client's difficulty, which it is credited with; any
\* other share is first compared with the present difficulty.
Submit(w, n) ==
  /\ Request
  /\ \/ w >= n /\ Accept(w, difficulty, {difficulty})
     \/ w < n /\ w >= difficulty /\ Accept(w, difficulty, {})
     \/ /\ w < n /\ w < difficulty
        /\ work' = w /\ earned' = TRUE /\ held' = {}
        /\ Goto("request", "judge")
        /\ UNCHANGED timers
  /\ UNCHANGED <<alive, varDiff, contextVars, diffVars, newDiff, chosen, late>>

\* The share is rejected, or it has passed the comparison.
Compared(ok) ==
  /\ Goto("request", IF ok THEN "credit" ELSE "none")
  /\ IF ok THEN UNCHANGED <<work, held>> ELSE work' = Torn /\ held' = {}
  /\ UNCHANGED <<alive, varDiff, contextVars, diffVars, timers, newDiff, events, chosen, late,
                 earned>>

\* Mutant of Judge: any share after a retarget is let through.
JudgeLeniently ==
  /\ stage["request"] = "judge"
  /\ Compared(varDiff /\ lastUpdate /\ previous # Null)

\* After a retarget, the previous difficulty will do; otherwise the share is rejected.
Judge ==
  /\ stage["request"] = "judge"
  /\ Compared(varDiff /\ lastUpdate /\ previous # Null /\ work >= previous)

\* PreviousDifficulty is read again.
Credit ==
  /\ stage["request"] = "credit"
  /\ Accept(work, previous, held)
  /\ UNCHANGED <<alive, varDiff, contextVars, diffVars, newDiff, events, chosen, late>>

Disconnect ==
  /\ alive
  /\ alive' = FALSE
  /\ UNCHANGED <<varDiff, contextVars, diffVars, timers, stage, newDiff, work, events,
                 historyVars>>
-----------------------------------------------------------------------------
Step(t) ==
  \/ Lock(t) \/ Update(t)
  \/ BeginEnqueue(t) \/ EndEnqueue(t) \/ Test(t) \/ Set(t) \/ Clear(t)

Next ==
  \/ Tick
  \/ \E i \in Idle : Fire(i)
  \/ \E t \in Threads : Step(t)
  \/ \E d \in Asked : Authorize(d) \/ Suggest(d)
  \/ \E w \in Diffs \ {Torn}, n \in NetworkDiffs : Submit(w, n)
  \/ Judge \/ Credit \/ Cast \/ Disconnect

Spec == Init /\ [][Next]_vars

\* Time passes, timers fire, and the threads of the pool run on.
FairSpec ==
  /\ Spec
  /\ WF_vars(Tick) /\ WF_vars(\E i \in Idle : Fire(i))
  /\ \A t \in Threads : WF_vars(Step(t))
  /\ WF_vars(Judge \/ Credit)
-----------------------------------------------------------------------------
\* A connected client with variable difficulty always has a timer that will look at it, or
\* an update is about to start one: the timer is one-shot, every share stops it, and the
\* chain is only kept up because each update starts the next.
Watched ==
  alive /\ varDiff =>
    (\E r \in 0..TargetTime : timers[r] > 0) \/ (\E t \in Threads : stage[t] = "enter")

\* A client that has been given a static difficulty keeps it, unless an update was already
\* past the lock when it was set: updates that come later find no VarDiffContext.
StaticKept == ~varDiff /\ ~late => difficulty = chosen

\* A share that is no block is credited with more than its work only when the difficulty
\* moved between the two looks at it, and then with one that was the client's own after the
\* share had come in: PreviousDifficulty is another one than was compared.  A block is
\* credited with the client's difficulty, however high it was asked for.
CreditEarned == earned

\* A miner who stops submitting comes down to MinDiff, however the updates interfere.
IdleReachesFloor == <>[](alive /\ varDiff => difficulty = MinDiff)

\* "Diff must be dropped once changed": an update by an idle timer lowers the difficulty.
IdleNeverRaises ==
  [][\A i \in Idle : stage[i] = "update" /\ stage'[i] = "write" => newDiff'[i] < difficulty]_vars
=============================================================================
