-------------------------------- MODULE Jobs --------------------------------
(***************************************************************************)
(* ExchangeCoinJobManager and ExchangeCoinPoolBase: the daemon's work is    *)
(* turned into jobs, the jobs are kept while shares for them are accepted,  *)
(* and they are broadcast to the subscribed clients.                        *)
(*                                                                          *)
(* Two pipelines run at the same time.  In the first the triggers (polling, *)
(* an accepted block, the refresh timer) run UpdateJob one after the other. *)
(* Its results are queued for the second, in which OnNewJob sends one job   *)
(* to all clients before it turns to the next.  Clients subscribe and       *)
(* authorize meanwhile.  A broadcast that ends with an exception ends the   *)
(* subscription of the second pipeline, and with its only subscriber gone   *)
(* the first one stops too.                                                 *)
(*                                                                          *)
(* A job is an object that both pipelines share: its parameters are an      *)
(* array whose last element, the clean flag, GetJobParams overwrites.       *)
(***************************************************************************)
EXTENDS Integers, Sequences

CONSTANTS
  Clients,
  Branches,        \* tells blocks of the same height apart
  MaxHeight,       \* bound: height of the chain
  MaxActiveJobs,   \* _maxActiveJobs (4)
  IdLimit,         \* number of job ids, after which the counter wraps (2^31)
  NoJob,           \* null
  Failed,          \* the daemon's answer is an error, or cannot be parsed
  MaxMoves,        \* bound: changes of the daemon's best block
  MaxErrors,       \* bound: failed requests for work
  MaxBreaks,       \* bound: connections that break during a broadcast
  MaxQueue         \* bound: jobs waiting for their broadcast

Ids == 1..IdLimit

\* What the work of a daemon is about: the block it builds on.
Tips == (1..MaxHeight) \X Branches

ASSUME JobsAssumption ==
  /\ MaxHeight \in Nat \ {0} /\ Branches # {}
  /\ MaxActiveJobs \in Nat \ {0}
  /\ IdLimit \in Nat \ {0}
  /\ NoJob \notin Ids /\ NoJob \notin [tip : Tips, clean : BOOLEAN]
  /\ Failed \notin Tips
  /\ MaxMoves \in Nat /\ MaxErrors \in Nat /\ MaxBreaks \in Nat
  /\ MaxQueue \in Nat \ {0}

VARIABLES
  tip,           \* the block the daemon's work builds on
  asked,         \* UpdateJob waits for the daemon
  force, answer, \* its trigger and the daemon's answer
  counter,       \* jobId
  jobs,          \* the job objects: block and clean flag
  validJobs, currentJob,
  emitted,       \* jobs waiting for their broadcast
  gate,          \* the stratum ports are open
  dead,          \* the pipelines have ended with an exception
  params,        \* currentJobParams, by job
  broadcasting, sending, broken,   \* the broadcast, clients left, an exception
  connected, subscribed, authorized,
  subscribing,   \* OnSubscribe: "no", about to "read" or to "send"
  reading,       \* the parameters it has read, by job
  told,          \* the last job sent to each client
  moves, errors, breaks

chainVars  == <<tip, moves>>
updateVars == <<asked, force, answer, errors>>
jobVars    == <<counter, jobs, validJobs, currentJob>>
castVars   == <<params, broadcasting, sending, broken>>
subVars    == <<subscribing, reading>>
clientVars == <<connected, subscribed, authorized, subVars, breaks>>
vars == <<chainVars, updateVars, jobVars, emitted, gate, dead, castVars, clientVars, told>>

Height(t) == t[1]

Told == [job : Ids \cup {NoJob}, tip : Tips, clean : BOOLEAN]

ChainType == tip \in Tips /\ moves \in 0..MaxMoves

UpdateType ==
  /\ asked \in BOOLEAN /\ force \in BOOLEAN /\ answer \in Tips \cup {Failed}
  /\ errors \in 0..MaxErrors

JobType ==
  /\ counter \in 0..(IdLimit - 1)
  /\ jobs \in [Ids -> [tip : Tips, clean : BOOLEAN] \cup {NoJob}]
  /\ validJobs \in Seq(Ids)
  /\ currentJob \in Ids \cup {NoJob}

EmitType == emitted \in Seq(Ids \cup {NoJob}) /\ gate \in BOOLEAN

CastType ==
  /\ params \in Ids \cup {NoJob}
  /\ broadcasting \in BOOLEAN /\ sending \subseteq Clients /\ broken \in BOOLEAN
  /\ dead \in BOOLEAN

ClientType ==
  /\ connected \subseteq Clients /\ subscribed \subseteq Clients
  /\ authorized \subseteq Clients
  /\ breaks \in 0..MaxBreaks

SubscribeType ==
  /\ subscribing \in [Clients -> {"no", "read", "send"}]
  /\ reading \in [Clients -> Ids \cup {NoJob}]

TypeOK ==
  /\ ChainType /\ UpdateType /\ JobType /\ EmitType /\ CastType
  /\ ClientType /\ SubscribeType
  /\ told \in [Clients -> Told]

Init ==
  /\ tip \in Tips /\ moves = 0
  /\ asked = FALSE /\ force = FALSE /\ answer = Failed /\ errors = 0
  /\ counter = 0
  /\ jobs = [i \in Ids |-> NoJob]
  /\ validJobs = <<>> /\ currentJob = NoJob
  /\ emitted = <<>> /\ gate = FALSE /\ dead = FALSE
  /\ params = NoJob /\ broadcasting = FALSE /\ sending = {} /\ broken = FALSE
  /\ connected = {} /\ subscribed = {} /\ authorized = {}
  /\ subscribing = [c \in Clients |-> "no"] /\ reading = [c \in Clients |-> NoJob]
  /\ told = [c \in Clients |-> [job |-> NoJob, tip |-> tip, clean |-> FALSE]]
  /\ breaks = 0

-----------------------------------------------------------------------------
(***************************************************************************)
(* UpdateJob                                                               *)
(***************************************************************************)

\* The best block changes: a new block, a reorganisation, or another of several
\* daemons, which may lag behind, is the first to answer from now on.
ChainMoves ==
  /\ moves < MaxMoves /\ moves' = moves + 1
  /\ tip' \in Tips \ {tip}
  /\ UNCHANGED <<updateVars, jobVars, emitted, gate, dead, castVars, clientVars, told>>

\* Jobs that are in use under their id.  Their number is far below IdLimit: no id
\* is given out again while it is.
InUse == {validJobs[i] : i \in 1..Len(validJobs)} \cup {emitted[i] : i \in 1..Len(emitted)}
           \cup {currentJob, params} \cup {reading[c] : c \in Clients}

NextJobId == counter + 1

\* Mutant of Wrapped: the counter runs on.
WrappedNever(id) == id

\* The counter after the id was given out: it restarts when it reaches its limit.
Wrapped(id) == IF id = IdLimit THEN 0 ELSE id

Ready ==
  /\ ~dead /\ ~asked
  /\ Len(emitted) < MaxQueue
  /\ NextJobId \notin InUse

\* A trigger starts UpdateJob; the daemon answers with the work of this moment.
Ask(forced) ==
  /\ Ready
  /\ asked' = TRUE /\ force' = forced /\ answer' = tip
  /\ UNCHANGED <<chainVars, errors, jobVars, emitted, gate, dead, castVars, clientVars, told>>

\* Polling, or a block of ours that the daemon accepted.
Poll == Ask(FALSE)

\* Mutant of Refresh: the timer only polls.
RefreshPolls == Ask(FALSE)

\* The refresh timer.
Refresh == Ask(TRUE)

AskFails(forced) ==
  /\ Ready
  /\ errors < MaxErrors /\ errors' = errors + 1
  /\ asked' = TRUE /\ force' = forced /\ answer' = Failed
  /\ UNCHANGED <<chainVars, jobVars, emitted, gate, dead, castVars, clientVars, told>>

\* Mutant of IsNew: a block is a new one only if it is two ahead.
IsNewLater ==
  currentJob # NoJob => Height(answer) > Height(jobs[currentJob].tip) + 1

\* The PrevBlock arrays are compared by reference and always differ.
IsNew == currentJob # NoJob => Height(answer) > Height(jobs[currentJob].tip)

\* Mutant of Trimmed: one job too many stays active.
TrimmedLate(js) ==
  IF Len(js) > MaxActiveJobs THEN SubSeq(js, Len(js) - MaxActiveJobs + 1, Len(js)) ELSE js

\* while(_validJobs.Count > _maxActiveJobs - 1) _validJobs.RemoveAt(0)
Trimmed(js) ==
  IF Len(js) > MaxActiveJobs - 1
  THEN SubSeq(js, Len(js) - MaxActiveJobs + 2, Len(js)) ELSE js

\* What stays active beside the job that is added.
Kept == IF IsNew THEN <<>> ELSE Trimmed(validJobs)

\* A job for the new work.  GetJobParams sets its clean flag.  Objects that are no
\* longer referenced are gone.
MakeJob ==
  /\ counter' = Wrapped(NextJobId)
  /\ jobs' = [i \in Ids |-> IF i = NextJobId THEN [tip |-> answer, clean |-> IsNew]
                            ELSE IF i \in InUse THEN jobs[i] ELSE NoJob]
  /\ validJobs' = Append(Kept, NextJobId)
  /\ currentJob' = NextJobId

\* Jobs are emitted if there is a new block or the trigger was forced; the first
\* one, whatever it holds, opens the ports.
Emit(job) ==
  /\ emitted' = Append(emitted, job)
  /\ gate' = TRUE

Answered == asked' = FALSE /\ force' = FALSE /\ answer' = Failed

UpdateJob ==
  /\ asked /\ answer # Failed /\ ~dead
  /\ Answered
  /\ \/ (IsNew \/ force) /\ MakeJob /\ Emit(NextJobId)
     \/ ~IsNew /\ ~force /\ UNCHANGED <<jobVars, emitted, gate>>
  /\ UNCHANGED <<chainVars, errors, dead, castVars, clientVars, told>>

\* A forced update that failed emits the current job again, if any, and overwrites
\* the clean flag of its parameters.
UpdateJobFails ==
  /\ asked /\ answer = Failed /\ ~dead
  /\ Answered
  /\ \/ /\ force /\ Emit(currentJob)
        /\ jobs' = [i \in Ids |-> IF i = currentJob THEN [tip |-> jobs[i].tip, clean |-> FALSE]
                                                   ELSE jobs[i]]
     \/ ~force /\ UNCHANGED <<emitted, gate, jobs>>
  /\ UNCHANGED <<chainVars, errors, counter, validJobs, currentJob, dead, castVars,
                 clientVars, told>>

-----------------------------------------------------------------------------
(***************************************************************************)
(* OnNewJob                                                                *)
(***************************************************************************)

BeginBroadcast ==
  /\ ~dead /\ ~broadcasting /\ emitted # <<>>
  /\ broadcasting' = TRUE
  /\ params' = Head(emitted) /\ emitted' = Tail(emitted)
  /\ sending' = connected
  /\ UNCHANGED <<chainVars, updateVars, jobVars, gate, dead, broken, clientVars, told>>

Mining(c) == c \in connected /\ c \in subscribed /\ c \in authorized

\* mining.notify: the parameters are serialized as they are now.
Notify(c, job) ==
  told' = [told EXCEPT ![c] =
    IF job = NoJob THEN [job |-> NoJob, tip |-> told[c].tip, clean |-> told[c].clean]
    ELSE [job |-> job, tip |-> jobs[job].tip, clean |-> jobs[job].clean]]

\* Clients that are not subscribed and authorized are passed over.
SendJob(c) ==
  /\ broadcasting /\ c \in sending
  /\ sending' = sending \ {c}
  /\ IF Mining(c) THEN Notify(c, params) ELSE UNCHANGED told
  /\ UNCHANGED <<chainVars, updateVars, jobVars, emitted, gate, dead, params, broadcasting,
                 broken, clientVars>>

\* The client's connection is broken: SendAsync throws an IOException, and the
\* client is unregistered when its receive loop ends.
SendJobThrows(c) ==
  /\ broadcasting /\ c \in sending /\ Mining(c)
  /\ breaks < MaxBreaks /\ breaks' = breaks + 1
  /\ sending' = sending \ {c}
  /\ broken' = TRUE
  /\ connected' = connected \ {c}
  /\ UNCHANGED <<chainVars, updateVars, jobVars, emitted, gate, dead, params, broadcasting,
                 subscribed, authorized, subVars, told>>

\* The client was silent for longer than ClientConnectionTimeout.
BootZombie(c) ==
  /\ broadcasting /\ c \in sending /\ Mining(c)
  /\ sending' = sending \ {c}
  /\ connected' = connected \ {c}
  /\ UNCHANGED <<chainVars, updateVars, jobVars, emitted, gate, dead, params, broadcasting,
                 broken, subscribed, authorized, subVars, breaks, told>>

\* Task.WhenAll ends when every client was served, with their exceptions.
EndBroadcast ==
  /\ broadcasting /\ sending = {}
  /\ broadcasting' = FALSE
  /\ dead' = broken /\ broken' = FALSE
  /\ UNCHANGED <<chainVars, updateVars, jobVars, emitted, gate, params, sending, clientVars, told>>

-----------------------------------------------------------------------------
(***************************************************************************)
(* Clients                                                                 *)
(***************************************************************************)

Connect(c) ==
  /\ gate /\ c \notin connected /\ c \notin subscribed /\ c \notin authorized
  /\ connected' = connected \cup {c}
  /\ UNCHANGED <<chainVars, updateVars, jobVars, emitted, gate, dead, castVars, subscribed,
                 authorized, subVars, breaks, told>>

\* OnSubscribeAsync up to the setting of the difficulty.
Subscribe(c) ==
  /\ c \in connected /\ c \notin subscribed
  /\ subscribed' = subscribed \cup {c}
  /\ subscribing' = [subscribing EXCEPT ![c] = "read"]
  /\ UNCHANGED <<chainVars, updateVars, jobVars, emitted, gate, dead, castVars, connected,
                 authorized, reading, breaks, told>>

\* It reads currentJobParams ...
SubscribeRead(c) ==
  /\ subscribing[c] = "read" /\ subscribing' = [subscribing EXCEPT ![c] = "send"]
  /\ reading' = [reading EXCEPT ![c] = params]
  /\ UNCHANGED <<chainVars, updateVars, jobVars, emitted, gate, dead, castVars, connected,
                 subscribed, authorized, breaks, told>>

\* ... and sends them, while a broadcast may have sent a later job in between.
SubscribeSend(c) ==
  /\ subscribing[c] = "send" /\ subscribing' = [subscribing EXCEPT ![c] = "no"]
  /\ Notify(c, reading[c])
  /\ reading' = [reading EXCEPT ![c] = NoJob]
  /\ UNCHANGED <<chainVars, updateVars, jobVars, emitted, gate, dead, castVars, connected,
                 subscribed, authorized, breaks>>

\* OnAuthorizeAsync sends no job.
Authorize(c) ==
  /\ c \in connected /\ c \notin authorized
  /\ subscribing[c] = "no"
  /\ authorized' = authorized \cup {c}
  /\ UNCHANGED <<chainVars, updateVars, jobVars, emitted, gate, dead, castVars, connected,
                 subscribed, subVars, breaks, told>>

\* The address is not valid: the client is banned and disconnected.
AuthorizeFails(c) ==
  /\ c \in connected
  /\ subscribing[c] = "no"
  /\ authorized' = authorized \ {c} /\ connected' = connected \ {c}
  /\ UNCHANGED <<chainVars, updateVars, jobVars, emitted, gate, dead, castVars, subscribed,
                 subVars, breaks, told>>

\* The client leaves.  What is still sent to it is dropped.
Disconnect(c) ==
  /\ c \in connected /\ connected' = connected \ {c}
  /\ UNCHANGED <<chainVars, updateVars, jobVars, emitted, gate, dead, castVars, subscribed,
                 authorized, subVars, breaks, told>>

Update == Poll \/ Refresh \/ UpdateJob \/ UpdateJobFails

Broadcast == BeginBroadcast \/ EndBroadcast \/ \E c \in Clients : SendJob(c)

Session(c) ==
  \/ Connect(c) \/ Subscribe(c) \/ SubscribeRead(c) \/ SubscribeSend(c)
  \/ Authorize(c) \/ AuthorizeFails(c) \/ Disconnect(c)

Next ==
  \/ ChainMoves
  \/ Update
  \/ \E forced \in BOOLEAN : AskFails(forced)
  \/ Broadcast
  \/ \E c \in Clients : SendJobThrows(c) \/ BootZombie(c) \/ Session(c)

Spec == Init /\ [][Next]_vars

\* Both pipelines keep going.  The triggers are served in the order they fire, so
\* that polling does not keep the refresh timer out.
FairSpec ==
  /\ Spec
  /\ WF_vars(UpdateJob \/ UpdateJobFails) /\ SF_vars(Refresh)
  /\ WF_vars(Broadcast)
  /\ \A c \in Clients : WF_vars(SubscribeRead(c) \/ SubscribeSend(c))

-----------------------------------------------------------------------------
\* There are at most MaxActiveJobs jobs shares are accepted for, the last of them is
\* the current one, and no two have the same id.
ActiveJobs ==
  /\ Len(validJobs) <= MaxActiveJobs
  /\ IF currentJob = NoJob THEN validJobs = <<>>
     ELSE validJobs # <<>> /\ validJobs[Len(validJobs)] = currentJob
  /\ \A i, j \in 1..Len(validJobs) : validJobs[i] = validJobs[j] => i = j

\* A job never stays active beside a later job of a greater height: a new block ends the
\* jobs there were for its predecessor.  A forced refresh from a daemon that lags behind
\* may put a job of a smaller height after it.
NoJobOutlivesItsBlock ==
  \A i, j \in 1..Len(validJobs) :
    i < j => Height(jobs[validJobs[i]].tip) >= Height(jobs[validJobs[j]].tip)

\* Only the first of the active jobs can tell miners to drop their work.
CleanIsFirst ==
  \A i \in 2..Len(validJobs) : ~jobs[validJobs[i]].clean

\* Without broken connections the current job is eventually for the daemon's best block,
\* also after a reorganisation that polling takes for no news, and every client that mines
\* works on it, also one that missed its broadcast between subscribing and authorizing or
\* was sent an older job after a newer one.
EventuallyCurrent ==
  <>dead \/ <>[](/\ currentJob # NoJob /\ jobs[currentJob].tip = tip
                 /\ \A c \in Clients : Mining(c) => told[c].job # NoJob /\ told[c].tip = tip)
=============================================================================
