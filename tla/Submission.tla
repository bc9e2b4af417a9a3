----------------------------- MODULE Submission -----------------------------
(***************************************************************************)
(* The way of a share: OnSubmitAsync, SubmitShareAsync, ProcessShare and    *)
(* SubmitBlockAsync.  The requests of one client are served one after the   *)
(* other, those of several clients at the same time, while jobs come and go *)
(* and connections break.  A share that solves a block is given to the      *)
(* daemon, and the wallet is asked for its reward, before the miner has its *)
(* answer; only then the share is published to be recorded.                 *)
(*                                                                          *)
(* What is looked up to find duplicates are the strings as they were sent,  *)
(* but for their case, in a set of the job.  The header and the solution    *)
(* are parsed from them afterwards, and one header can be written in many   *)
(* ways: hexadecimal numbers of any length, digits that decode alike.       *)
(*                                                                          *)
(* A connection that is broken makes sends throw.  One that the pool has    *)
(* closed swallows them.  In both cases requests that were received before  *)
(* are still served, and the client is gone afterwards.  An exception other *)
(* than StratumException ends the client at once.                           *)
(***************************************************************************)
EXTENDS Integers, FiniteSets

CONSTANTS
  Clients,
  Contents,        \* what can be submitted: the strings job, extra nonce, nonce and solution
  Keys, KeyOf,     \* the strings of a submission in lower case
  Headers,         \* block headers with their solutions
  HeaderOf,        \* the one that the strings parse to
  JobOf,           \* the job of each
  NonceOf,         \* the extra nonce of the client it is meant for
  GradeOf,         \* what ProcessShareInternal finds out about it, once at most
  ExtraNonces,
  MaxJobs,         \* bound: jobs
  CheckThreshold,  \* Banning.CheckThreshold
  InvalidPercent,  \* Banning.InvalidPercent
  BanningEnabled,  \* Banning.Enabled of the pool, BanOnInvalidShares of the cluster
  MaxRequests,     \* bound: submissions of a client
  MaxFaults,       \* bound: failing requests to daemon and wallet
  MaxBreaks        \* bound: connections that break

Jobs == 1..MaxJobs

Grades == {"malformed", "invalid", "low", "share", "block"}

ASSUME SubmissionAssumption ==
  /\ MaxJobs \in Nat \ {0} /\ Contents # {}
  /\ JobOf \in [Contents -> Jobs]
  /\ KeyOf \in [Contents -> Keys] /\ HeaderOf \in [Contents -> Headers]
  /\ NonceOf \in [Contents -> ExtraNonces]
  /\ GradeOf \in [Contents -> Grades]
  /\ CheckThreshold \in Nat /\ InvalidPercent \in 0..100 /\ BanningEnabled \in BOOLEAN
  /\ MaxRequests \in Nat /\ MaxFaults \in Nat /\ MaxBreaks \in Nat

VARIABLES
  newest, validJobs,   \* the jobs made so far and the ones that are active
  registered,          \* submissions of all jobs, each the key of one
  nonce,               \* ExtraNonce1 of each client; the provider may give one out twice
  ready,               \* subscribed and authorized
  conn,                \* "up", "broken", "closed" or "gone"
  banned,              \* each client has an address of its own
  stage,               \* of the client's request
  working,             \* what the request submits
  candidate,           \* IsBlockCandidate
  valid, invalid,      \* Stats
  chain,               \* headers of the blocks the daemon has taken
  shares, blocks,      \* how often a submission was published, and as a block
  requests, faults, breaks

jobVars    == <<newest, validJobs>>
clientVars == <<nonce, ready, conn, banned>>
reqVars    == <<stage, working, candidate>>
statVars   == <<valid, invalid>>
outVars    == <<chain, shares, blocks>>
boundVars  == <<requests, faults, breaks>>
vars == <<jobVars, registered, clientVars, reqVars, statVars, outVars, boundVars>>

Stages == {"idle", "found", "reject", "submit", "wallet", "respond"}

TypeOK ==
  /\ newest \in 0..MaxJobs /\ validJobs \subseteq Jobs
  /\ registered \subseteq Jobs \X Keys
  /\ nonce \in [Clients -> ExtraNonces]
  /\ ready \in [Clients -> BOOLEAN]
  /\ conn \in [Clients -> {"up", "broken", "closed", "gone"}]
  /\ banned \in [Clients -> BOOLEAN]
  /\ stage \in [Clients -> Stages]
  /\ working \in [Clients -> Contents]
  /\ candidate \in [Clients -> BOOLEAN]
  /\ valid \in [Clients -> 0..MaxRequests] /\ invalid \in [Clients -> 0..MaxRequests]
  /\ chain \subseteq Headers
  /\ shares \in [Contents -> Nat] /\ blocks \in [Contents -> Nat]
  /\ requests \in [Clients -> 0..MaxRequests]
  /\ faults \in 0..MaxFaults /\ breaks \in 0..MaxBreaks

Init ==
  /\ newest = 0 /\ validJobs = {} /\ registered = {}
  /\ nonce \in [Clients -> ExtraNonces]
  /\ ready = [c \in Clients |-> FALSE]
  /\ conn = [c \in Clients |-> "up"]
  /\ banned = [c \in Clients |-> FALSE]
  /\ stage = [c \in Clients |-> "idle"]
  /\ working \in [Clients -> {CHOOSE s \in Contents : TRUE}]
  /\ candidate = [c \in Clients |-> FALSE]
  /\ valid = [c \in Clients |-> 0] /\ invalid = [c \in Clients |-> 0]
  /\ chain = {}
  /\ shares = [s \in Contents |-> 0] /\ blocks = [s \in Contents |-> 0]
  /\ requests = [c \in Clients |-> 0] /\ faults = 0 /\ breaks = 0

-----------------------------------------------------------------------------
\* UpdateJob (see Jobs): a job is added, some of the active ones are dropped.
NewJob ==
  /\ newest < MaxJobs /\ newest' = newest + 1
  /\ \E kept \in SUBSET validJobs : validJobs' = kept \cup {newest'}
  /\ UNCHANGED <<registered, clientVars, reqVars, statVars, outVars, boundVars>>

\* mining.subscribe and mining.authorize.
Handshake(c) ==
  /\ stage[c] = "idle" /\ conn[c] # "gone" /\ ~banned[c] /\ ~ready[c]
  /\ ready' = [ready EXCEPT ![c] = TRUE]
  /\ UNCHANGED <<jobVars, registered, nonce, conn, banned, reqVars, statVars, outVars, boundVars>>

Goto(c, s) == stage' = [stage EXCEPT ![c] = s]

\* The exception leaves the receive loop: OnReceiveError disconnects the client.
Throw(c) ==
  /\ Goto(c, "idle")
  /\ conn' = [conn EXCEPT ![c] = "gone"]

\* mining.submit, up to the look for the job, under the lock.  Requests of banned
\* clients are not served, and one that has waited too long is dropped.
Receive(c, s) ==
  /\ stage[c] = "idle" /\ conn[c] # "gone" /\ ~banned[c]
  /\ requests[c] < MaxRequests /\ requests' = [requests EXCEPT ![c] = @ + 1]
  /\ working' = [working EXCEPT ![c] = s]
  /\ candidate' = [candidate EXCEPT ![c] = FALSE]
  /\ Goto(c, IF ready[c] /\ JobOf[s] \in validJobs THEN "found" ELSE "reject")
  /\ UNCHANGED <<jobVars, registered, clientVars, statVars, outVars, faults, breaks>>

\* The key of RegisterSubmit, in the submissions of its job.
Key(s) == <<JobOf[s], KeyOf[s]>>

\* Mutant of RegisterSubmit: the submission is looked up, but not added.
RegisterSubmitForgets(s) == UNCHANGED registered

RegisterSubmit(s) == registered' = registered \cup {Key(s)}

\* A parameter is missing or does not parse: no StratumException, and not registered.
Misparse(c) ==
  /\ stage[c] = "found"
  /\ Throw(c)
  /\ UNCHANGED <<jobVars, registered, nonce, ready, banned, working, candidate, statVars, outVars,
                 boundVars>>

\* ProcessShare.  The job may not be active any more.
Refused(c) == NonceOf[working[c]] # nonce[c] \/ Key(working[c]) \in registered

\* A share that is not to be refused is refused for its worker name, its sizes or its time,
\* which is no part of what is registered.
Refuse(c) ==
  /\ stage[c] = "found"
  /\ Goto(c, "reject")
  /\ UNCHANGED <<jobVars, registered, clientVars, working, candidate, statVars, outVars, boundVars>>

Grade(c) == GradeOf[working[c]]

\* The header of the request, from the parsed strings.
Header(c) == HeaderOf[working[c]]

Process(c) ==
  /\ stage[c] = "found" /\ ~Refused(c)
  /\ RegisterSubmit(working[c])
  /\ CASE Grade(c) = "malformed" -> Throw(c) /\ UNCHANGED candidate
       [] Grade(c) \in {"invalid", "low"} -> Goto(c, "reject") /\ UNCHANGED <<conn, candidate>>
       [] Grade(c) = "share" -> Goto(c, "respond") /\ UNCHANGED <<conn, candidate>>
       [] Grade(c) = "block" -> /\ Goto(c, "submit") /\ UNCHANGED conn
                                /\ candidate' = [candidate EXCEPT ![c] = TRUE]
  /\ UNCHANGED <<jobVars, nonce, ready, banned, working, statVars, outVars, boundVars>>

-----------------------------------------------------------------------------
(***************************************************************************)
(* SubmitBlockAsync: the block is submitted and asked for in one batch      *)
(***************************************************************************)

SubmitAccepted(c) ==
  /\ stage[c] = "submit"
  /\ chain' = chain \cup {Header(c)}
  /\ Goto(c, "wallet")
  /\ UNCHANGED <<jobVars, registered, clientVars, working, candidate, statVars, shares, blocks,
                 boundVars>>

\* Mutant of NoCandidate: the share stays a candidate although the block was not found.
StillCandidate(c) == UNCHANGED candidate

NoCandidate(c) == candidate' = [candidate EXCEPT ![c] = FALSE]

\* The daemon reports an error or does not find the block: the share is a share only.
SubmitRejected(c) ==
  /\ stage[c] = "submit"
  /\ NoCandidate(c)
  /\ Goto(c, "respond")
  /\ UNCHANGED <<jobVars, registered, clientVars, working, statVars, outVars, boundVars>>

Fault == faults < MaxFaults /\ faults' = faults + 1

\* The same answer, but a daemon has taken the block: the first of several to answer
\* has not, or it does not find the block yet.
SubmitUnconfirmed(c) ==
  /\ stage[c] = "submit" /\ Fault
  /\ chain' = chain \cup {Header(c)}
  /\ NoCandidate(c)
  /\ Goto(c, "respond")
  /\ UNCHANGED <<jobVars, registered, clientVars, working, statVars, shares, blocks, requests,
                 breaks>>

\* The batch fails: reading the result of the faulted task throws.
SubmitLost(c) ==
  /\ stage[c] = "submit" /\ Fault
  /\ chain' \in {chain, chain \cup {Header(c)}}
  /\ Throw(c)
  /\ UNCHANGED <<jobVars, registered, nonce, ready, banned, working, candidate, statVars, shares,
                 blocks, requests, breaks>>

\* Mutant of WalletAnswers: a transaction the wallet does not know is no block.
WalletAnswersStrictly(c) ==
  /\ stage[c] = "wallet"
  /\ UNCHANGED candidate \/ NoCandidate(c)
  /\ Goto(c, "respond")
  /\ UNCHANGED <<jobVars, registered, clientVars, working, statVars, outVars, boundVars>>

\* The reward is what the wallet says of the coinbase transaction, 0 if it reports an
\* error.
WalletAnswers(c) ==
  /\ stage[c] = "wallet"
  /\ Goto(c, "respond")
  /\ UNCHANGED <<jobVars, registered, clientVars, working, candidate, statVars, outVars, boundVars>>

\* The request fails, or the answer has no details and the cast throws.
WalletThrows(c) ==
  /\ stage[c] = "wallet" /\ Fault
  /\ Throw(c)
  /\ UNCHANGED <<jobVars, registered, nonce, ready, banned, working, candidate, statVars, outVars,
                 requests, breaks>>

-----------------------------------------------------------------------------
(***************************************************************************)
(* The end of OnSubmitAsync                                                *)
(***************************************************************************)

\* The miner has its answer, and the share is published.
Respond(c) ==
  LET s == working[c] IN
  /\ stage[c] = "respond" /\ conn[c] # "broken"
  /\ shares' = [shares EXCEPT ![s] = @ + 1]
  /\ blocks' = IF candidate[c] THEN [blocks EXCEPT ![s] = @ + 1] ELSE blocks
  /\ valid' = [valid EXCEPT ![c] = @ + 1]
  /\ Goto(c, "idle")
  /\ UNCHANGED <<jobVars, registered, clientVars, working, candidate, invalid, chain, boundVars>>

\* The answer cannot be written, be it a good or a bad one.
SendThrows(c) ==
  /\ stage[c] \in {"respond", "reject"} /\ conn[c] = "broken"
  /\ Throw(c)
  /\ UNCHANGED <<jobVars, registered, nonce, ready, banned, working, candidate, statVars, outVars,
                 boundVars>>

\* Mutant of ConsiderBan: the rejection is counted again.
ConsiderBanCountsTwice(c, good, bad) ==
  /\ invalid' = [invalid EXCEPT ![c] = bad + 1]
  /\ UNCHANGED <<valid, banned, conn>>

\* ConsiderBan, with the statistics that include this rejection.
ConsiderBan(c, good, bad) ==
  LET total == good + bad IN
  IF total <= CheckThreshold
  THEN /\ valid' = valid /\ invalid' = [invalid EXCEPT ![c] = bad]
       /\ UNCHANGED <<banned, conn>>
  ELSE IF bad * 100 < InvalidPercent * total
  THEN /\ valid' = [valid EXCEPT ![c] = 0] /\ invalid' = [invalid EXCEPT ![c] = 0]
       /\ UNCHANGED <<banned, conn>>
  ELSE /\ valid' = valid /\ invalid' = [invalid EXCEPT ![c] = bad]
       /\ IF BanningEnabled
          THEN /\ banned' = [banned EXCEPT ![c] = TRUE]
               /\ conn' = [conn EXCEPT ![c] = "closed"]
          ELSE UNCHANGED <<banned, conn>>

\* The catch block for StratumException.
Reject(c) ==
  /\ stage[c] = "reject" /\ conn[c] # "broken"
  /\ ConsiderBan(c, valid[c], invalid[c] + 1)
  /\ Goto(c, "idle")
  /\ UNCHANGED <<jobVars, registered, nonce, ready, working, candidate, outVars, boundVars>>

-----------------------------------------------------------------------------
\* The miner's side resets the connection.
Break(c) ==
  /\ conn[c] = "up" /\ breaks < MaxBreaks /\ breaks' = breaks + 1
  /\ conn' = [conn EXCEPT ![c] = "broken"]
  /\ UNCHANGED <<jobVars, registered, nonce, ready, banned, reqVars, statVars, outVars, requests,
                 faults>>

\* The pool disconnects the client, as one that was silent for too long.
Close(c) ==
  /\ conn[c] \in {"up", "broken"} /\ conn' = [conn EXCEPT ![c] = "closed"]
  /\ UNCHANGED <<jobVars, registered, nonce, ready, banned, reqVars, statVars, outVars, boundVars>>

\* The receive loop ends.
End(c) ==
  /\ stage[c] = "idle" /\ conn[c] \in {"broken", "closed"}
  /\ conn' = [conn EXCEPT ![c] = "gone"]
  /\ UNCHANGED <<jobVars, registered, nonce, ready, banned, reqVars, statVars, outVars, boundVars>>

\* A request that was received goes on by itself.
Progress(c) ==
  \/ Misparse(c) \/ Refuse(c) \/ Process(c)
  \/ SubmitAccepted(c) \/ SubmitRejected(c) \/ SubmitUnconfirmed(c) \/ SubmitLost(c)
  \/ WalletAnswers(c) \/ WalletThrows(c)
  \/ Respond(c) \/ SendThrows(c) \/ Reject(c)

Next ==
  \/ NewJob
  \/ \E c \in Clients :
       \/ Handshake(c) \/ Progress(c) \/ Break(c) \/ Close(c) \/ End(c)
       \/ \E s \in Contents : Receive(c, s)

Spec == Init /\ [][Next]_vars

-----------------------------------------------------------------------------
\* What is submitted is recorded at most once, however often and by however many clients at
\* the same time, also when two clients have the same extra nonce, and of submissions that
\* differ in the case of letters only one: all that RegisterSubmit can promise, for the same
\* header in other words has a key of its own.
CountedOnce ==
  \A s \in Contents :
    /\ shares[s] <= 1 /\ blocks[s] <= shares[s]
    /\ \A t \in Contents : Key(s) = Key(t) /\ shares[s] > 0 /\ shares[t] > 0 => s = t

\* What is recorded as a block has been taken by a daemon.
BlocksAreReal == \A s \in Contents : blocks[s] > 0 => HeaderOf[s] \in chain

\* A request is still under way to record the block.
Pending(h) ==
  \E c \in Clients : Header(c) = h /\ candidate[c] /\ stage[c] \in {"wallet", "respond"}

Recorded(h) == \E s \in Contents : HeaderOf[s] = h /\ blocks[s] > 0

\* A block the daemon has taken gets lost only by a fault of daemon or wallet, or by the
\* miner's connection.
BlocksLostByFaultsOnly ==
  Cardinality({h \in chain : ~Recorded(h) /\ ~Pending(h)}) <= faults + breaks

\* "Persist the coinbase transaction-hash to allow the payment processor to verify later on
\* that the pool has received the reward": a block the daemon has accepted is recorded.
AcceptedBlockIsRecorded == \A h \in chain : Recorded(h) \/ Pending(h)
=============================================================================
