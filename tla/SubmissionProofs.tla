-------------------------- MODULE SubmissionProofs --------------------------
(***************************************************************************)
(* Proofs about Submission, for any number of clients, jobs, submissions   *)
(* and faults, and about Equihash, the verification it calls.              *)
(*                                                                         *)
(* That a share is counted once is not inductive by itself: two requests   *)
(* past the duplicate check could be about to publish the same one.  The   *)
(* invariant says that the key of what is past the check is registered,    *)
(* that nothing of this key is published, and that a single client has it. *)
(*                                                                         *)
(* The invariant of Equihash relates the accumulator to the bits that were *)
(* read, and the rows that are left to the nodes of the tree of indices.   *)
(***************************************************************************)
EXTENDS Submission, Equihash, SumTheorems, SequenceTheorems, FiniteSetTheorems, TLAPS

\* The request is past the duplicate check.
Past(c) == stage[c] \in {"submit", "wallet", "respond"}

PublishedIsRegistered == \A s \in Contents : shares[s] > 0 => Key(s) \in registered

PastIsRegistered ==
  \A c \in Clients :
    Past(c) => /\ Key(working[c]) \in registered
               /\ \A s \in Contents : Key(s) = Key(working[c]) => shares[s] = 0

OneClient ==
  \A c, d \in Clients : Past(c) /\ Past(d) /\ Key(working[c]) = Key(working[d]) => c = d

\* A share is a candidate after the check only, and from then on a block of the chain.
CandidateIsTaken ==
  \A c \in Clients :
    /\ candidate[c] => stage[c] # "found"
    /\ candidate[c] /\ stage[c] \in {"wallet", "respond"} => Header(c) \in chain

\* Every request is counted in the statistics at most once.
Accounted ==
  \A c \in Clients :
    /\ valid[c] + invalid[c] <= requests[c]
    /\ stage[c] # "idle" => valid[c] + invalid[c] < requests[c]

IInv ==
  /\ TypeOK /\ Accounted
  /\ PublishedIsRegistered /\ PastIsRegistered /\ OneClient /\ CandidateIsTaken
  /\ CountedOnce /\ BlocksAreReal

\* What the invariant says beside the types.
Safe ==
  /\ PublishedIsRegistered /\ PastIsRegistered /\ OneClient /\ CandidateIsTaken
  /\ CountedOnce /\ BlocksAreReal

-----------------------------------------------------------------------------
LEMMA KeyType == \A s \in Contents : Key(s) \in Jobs \X Keys /\ HeaderOf[s] \in Headers
BY SubmissionAssumption DEF Key

LEMMA InitInv == Init => IInv
<1> SUFFICES ASSUME Init PROVE IInv
  OBVIOUS
<1>0. (CHOOSE s \in Contents : TRUE) \in Contents
  BY SubmissionAssumption
<1>1. TypeOK
  <2>1. working \in [Clients -> Contents]
    BY <1>0 DEF Init
  <2>2. /\ ready \in [Clients -> BOOLEAN] /\ banned \in [Clients -> BOOLEAN]
        /\ candidate \in [Clients -> BOOLEAN]
    BY DEF Init
  <2> QED
    BY <2>1, <2>2, SubmissionAssumption DEF Init, TypeOK, Stages
<1>2. Accounted
  BY DEF Init, Accounted
<1>3. PublishedIsRegistered /\ PastIsRegistered /\ OneClient /\ CandidateIsTaken
  BY DEF Init, PublishedIsRegistered, PastIsRegistered, OneClient, CandidateIsTaken, Past
<1>4. CountedOnce /\ BlocksAreReal
  BY DEF Init, CountedOnce, BlocksAreReal
<1> QED
  BY <1>1, <1>2, <1>3, <1>4 DEF IInv

\* A step that takes no request past the check, and publishes nothing, keeps Safe.
LEMMA NothingNew ==
  ASSUME IInv, UNCHANGED <<shares, blocks>>,
         registered \subseteq registered', chain \subseteq chain',
         \A c \in Clients : Past(c)' => Past(c) /\ working'[c] = working[c],
         CandidateIsTaken'
  PROVE  Safe'
BY DEF IInv, Safe, PublishedIsRegistered, PastIsRegistered, OneClient, CandidateIsTaken,
       CountedOnce, BlocksAreReal, Past

\* A step of one client that leaves its submission alone.
LEMMA OneStep ==
  ASSUME IInv, NEW c \in Clients, NEW st \in Stages \ {"found"},
         stage' = [stage EXCEPT ![c] = st], working' = working,
         UNCHANGED <<shares, blocks>>, registered \subseteq registered', chain \subseteq chain',
         st \in {"submit", "wallet", "respond"} => Past(c),
         (candidate'[c] /\ st \in {"wallet", "respond"}) => Header(c) \in chain',
         \A d \in Clients \ {c} : candidate'[d] <=> candidate[d]
  PROVE  Safe'
<1>1. \A d \in Clients : stage'[d] = IF d = c THEN st ELSE stage[d]
  BY DEF IInv, TypeOK
<1>2. \A d \in Clients : Past(d)' => Past(d) /\ working'[d] = working[d]
  BY <1>1 DEF Past
<1>3. CandidateIsTaken'
  BY <1>1 DEF IInv, CandidateIsTaken, Header
<1> QED
  BY <1>2, <1>3, NothingNew

\* The statistics stay as they are while requests are neither received nor answered.
LEMMA SameAccount ==
  ASSUME IInv, UNCHANGED <<valid, invalid, requests>>,
         \A c \in Clients : stage'[c] # "idle" => stage[c] # "idle"
  PROVE  Accounted'
BY DEF IInv, Accounted

-----------------------------------------------------------------------------
(***************************************************************************)
(* One lemma per action or group of actions                                *)
(***************************************************************************)

\* Steps that change only the jobs or the state of a connection.
LEMMA EnvironmentInv ==
  ASSUME IInv,
         NewJob \/ \E c \in Clients : Handshake(c) \/ Break(c) \/ Close(c) \/ End(c)
  PROVE  IInv'
<1>1. UNCHANGED <<registered, nonce, reqVars, statVars, outVars, requests>>
  BY DEF NewJob, Handshake, Break, Close, End, clientVars, boundVars
<1>2. newest' \in 0..MaxJobs /\ validJobs' \subseteq Jobs
  <2>1. CASE NewJob
    <3>1. newest' \in 1..MaxJobs
      BY <2>1, SubmissionAssumption DEF IInv, TypeOK, NewJob
    <3>2. validJobs' \subseteq validJobs \cup {newest'}
      BY <2>1 DEF NewJob
    <3> QED BY <3>1, <3>2, SubmissionAssumption DEF IInv, TypeOK, Jobs
  <2>2. CASE ~NewJob
    BY <2>2 DEF IInv, TypeOK, Handshake, Break, Close, End, jobVars
  <2> QED BY <2>1, <2>2
<1>3. ready' \in [Clients -> BOOLEAN] /\ banned' \in [Clients -> BOOLEAN]
  BY DEF IInv, TypeOK, NewJob, Handshake, Break, Close, End, clientVars
<1>4. conn' \in [Clients -> {"up", "broken", "closed", "gone"}]
  BY DEF IInv, TypeOK, NewJob, Handshake, Break, Close, End, clientVars
<1>5. faults' \in 0..MaxFaults /\ breaks' \in 0..MaxBreaks
  BY SubmissionAssumption DEF IInv, TypeOK, NewJob, Handshake, Break, Close, End, boundVars
<1>6. TypeOK'
  BY <1>1, <1>2, <1>3, <1>4, <1>5 DEF IInv, TypeOK, reqVars, statVars, outVars
<1>7. Accounted'
  BY <1>1, SameAccount DEF reqVars, statVars
<1>8. Safe'
  BY <1>1, NothingNew DEF reqVars, outVars, Past, IInv, CandidateIsTaken, Header
<1> QED
  BY <1>6, <1>7, <1>8 DEF IInv, Safe

LEMMA ReceiveInv ==
  ASSUME IInv, NEW c \in Clients, NEW s \in Contents, Receive(c, s)
  PROVE  IInv'
<1> DEFINE st == IF ready[c] /\ JobOf[s] \in validJobs THEN "found" ELSE "reject"
<1>1. st \in {"found", "reject"} /\ stage' = [stage EXCEPT ![c] = st]
  BY DEF Receive, Goto
<1> HIDE DEF st
<1>2. candidate' \in [Clients -> BOOLEAN]
  BY DEF IInv, TypeOK, Receive
<1>3. stage' \in [Clients -> Stages] /\ working' \in [Clients -> Contents]
  BY <1>1 DEF IInv, TypeOK, Stages, Receive
<1>4. requests' \in [Clients -> 0..MaxRequests]
  BY SubmissionAssumption DEF IInv, TypeOK, Receive
<1>5. TypeOK'
  BY <1>2, <1>3, <1>4 DEF IInv, TypeOK, Receive, jobVars, clientVars, statVars, outVars
<1>6. Accounted'
  <2>1. \A d \in Clients :
          /\ valid[d] \in Int /\ invalid[d] \in Int /\ requests[d] \in Int
          /\ requests'[d] = IF d = c THEN requests[d] + 1 ELSE requests[d]
          /\ stage'[d] = IF d = c THEN st ELSE stage[d]
    BY <1>1, SubmissionAssumption DEF IInv, TypeOK, Receive
  <2> QED BY <2>1 DEF IInv, Accounted, Receive, statVars
<1>7. Safe'
  <2>1. \A d \in Clients : stage'[d] = IF d = c THEN st ELSE stage[d]
    BY <1>1 DEF IInv, TypeOK
  <2>2. \A d \in Clients \ {c} : working'[d] = working[d] /\ (candidate'[d] <=> candidate[d])
    BY DEF IInv, TypeOK, Receive
  <2>3. \A d \in Clients : Past(d)' => Past(d) /\ working'[d] = working[d]
    BY <1>1, <2>1, <2>2 DEF Past
  <2>4. ~candidate'[c]
    BY DEF IInv, TypeOK, Receive
  <2>5. CandidateIsTaken'
    BY <1>1, <2>1, <2>2, <2>4 DEF IInv, CandidateIsTaken, Header, Receive, outVars
  <2> QED BY <2>3, <2>5, NothingNew DEF Receive, outVars
<1> QED
  BY <1>5, <1>6, <1>7 DEF IInv, Safe

\* What all steps of a request beyond its reception have in common: the types.
LEMMA ProgressType ==
  ASSUME IInv, NEW c \in Clients, NEW st \in Stages,
         stage' = [stage EXCEPT ![c] = st],
         candidate' \in [Clients -> BOOLEAN],
         conn' \in [Clients -> {"up", "broken", "closed", "gone"}],
         banned' \in [Clients -> BOOLEAN],
         registered' \subseteq Jobs \X Keys, chain' \subseteq Headers,
         valid' \in [Clients -> 0..MaxRequests], invalid' \in [Clients -> 0..MaxRequests],
         shares' \in [Contents -> Nat], blocks' \in [Contents -> Nat],
         faults' \in 0..MaxFaults,
         UNCHANGED <<jobVars, nonce, ready, working, requests, breaks>>
  PROVE  TypeOK'
BY DEF IInv, TypeOK, jobVars

LEMMA ThrowType ==
  ASSUME IInv, NEW c \in Clients, Throw(c)
  PROVE  /\ stage' = [stage EXCEPT ![c] = "idle"]
         /\ conn' \in [Clients -> {"up", "broken", "closed", "gone"}]
BY DEF IInv, TypeOK, Throw, Goto

\* Steps within a request that answer nothing and publish nothing.
LEMMA InnerStep ==
  ASSUME IInv, NEW c \in Clients, NEW st \in Stages \ {"found"},
         stage[c] # "idle", stage' = [stage EXCEPT ![c] = st],
         candidate' \in [Clients -> BOOLEAN],
         \A d \in Clients \ {c} : candidate'[d] <=> candidate[d],
         conn' \in [Clients -> {"up", "broken", "closed", "gone"}],
         registered' \subseteq Jobs \X Keys, chain' \subseteq Headers,
         registered \subseteq registered', chain \subseteq chain',
         faults' \in 0..MaxFaults,
         UNCHANGED <<jobVars, nonce, ready, banned, working, statVars, shares, blocks, requests,
                     breaks>>,
         st \in {"submit", "wallet", "respond"} => Past(c),
         (candidate'[c] /\ st \in {"wallet", "respond"}) => Header(c) \in chain'
  PROVE  IInv'
<1>1. /\ valid' \in [Clients -> 0..MaxRequests] /\ invalid' \in [Clients -> 0..MaxRequests]
      /\ shares' \in [Contents -> Nat] /\ blocks' \in [Contents -> Nat]
      /\ banned' \in [Clients -> BOOLEAN]
  BY DEF IInv, TypeOK, statVars
<1>2. TypeOK'
  BY <1>1, ProgressType
<1>3. \A d \in Clients : stage'[d] # "idle" => stage[d] # "idle"
  BY DEF IInv, TypeOK
<1>4. Accounted'
  BY <1>3, SameAccount DEF statVars
<1>5. Safe'
  BY OneStep
<1> QED
  BY <1>2, <1>4, <1>5 DEF IInv, Safe

LEMMA MisparseInv == ASSUME IInv, NEW c \in Clients, Misparse(c) PROVE IInv'
<1>1. stage[c] # "idle" /\ stage' = [stage EXCEPT ![c] = "idle"] /\ "idle" \in Stages \ {"found"}
  BY DEF Misparse, Throw, Goto, Stages
<1>2. /\ candidate' \in [Clients -> BOOLEAN]
      /\ \A d \in Clients \ {c} : candidate'[d] <=> candidate[d]
  BY DEF IInv, TypeOK, Misparse
<1>3. conn' \in [Clients -> {"up", "broken", "closed", "gone"}]
  BY ThrowType DEF IInv, TypeOK, Misparse
<1>4. /\ registered' \subseteq Jobs \X Keys /\ chain' \subseteq Headers
      /\ registered \subseteq registered' /\ chain \subseteq chain'
  BY DEF IInv, TypeOK, Misparse, outVars
<1>5. faults' \in 0..MaxFaults
  BY SubmissionAssumption DEF IInv, TypeOK, Misparse, Fault, boundVars
<1>6. UNCHANGED <<jobVars, nonce, ready, banned, working, statVars, shares, blocks, requests,
                  breaks>>
  BY DEF Misparse, clientVars, outVars, boundVars
<1> QED
  BY <1>1, <1>2, <1>3, <1>4, <1>5, <1>6, InnerStep

LEMMA RefuseInv == ASSUME IInv, NEW c \in Clients, Refuse(c) PROVE IInv'
<1>1. stage[c] # "idle" /\ stage' = [stage EXCEPT ![c] = "reject"] /\ "reject" \in Stages \ {"found"}
  BY DEF Refuse, Goto, Stages
<1>2. /\ candidate' \in [Clients -> BOOLEAN]
      /\ \A d \in Clients \ {c} : candidate'[d] <=> candidate[d]
      /\ conn' \in [Clients -> {"up", "broken", "closed", "gone"}]
      /\ registered' \subseteq Jobs \X Keys /\ chain' \subseteq Headers
      /\ registered \subseteq registered' /\ chain \subseteq chain'
      /\ faults' \in 0..MaxFaults
  BY DEF IInv, TypeOK, Refuse, clientVars, outVars, boundVars
<1>3. UNCHANGED <<jobVars, nonce, ready, banned, working, statVars, shares, blocks, requests,
                  breaks>>
  BY DEF Refuse, clientVars, outVars, boundVars
<1> QED
  BY <1>1, <1>2, <1>3, InnerStep

\* The step past the check: the submission is nobody else's.
LEMMA ProcessInv == ASSUME IInv, NEW c \in Clients, Process(c) PROVE IInv'
<1>0. /\ stage[c] = "found" /\ working[c] \in Contents /\ Key(working[c]) \notin registered
      /\ registered' = registered \cup {Key(working[c])}
      /\ UNCHANGED <<jobVars, nonce, ready, banned, working, statVars, outVars, boundVars>>
  BY DEF IInv, TypeOK, Process, Refused, RegisterSubmit
<1>a. Grade(c) \in Grades
  BY <1>0, SubmissionAssumption DEF Grade
<1>b. \/ Throw(c) /\ candidate' = candidate
      \/ stage' = [stage EXCEPT ![c] = "reject"] /\ conn' = conn /\ candidate' = candidate
      \/ stage' = [stage EXCEPT ![c] = "respond"] /\ conn' = conn /\ candidate' = candidate
      \/ /\ stage' = [stage EXCEPT ![c] = "submit"] /\ conn' = conn
         /\ candidate' = [candidate EXCEPT ![c] = TRUE]
  <2>1. CASE Grade(c) = "malformed"
    BY <2>1 DEF Process
  <2>2. CASE Grade(c) \in {"invalid", "low"}
    BY <2>2 DEF Process, Goto
  <2>3. CASE Grade(c) = "share"
    BY <2>3 DEF Process, Goto
  <2>4. CASE Grade(c) = "block"
    BY <2>4 DEF Process, Goto
  <2> QED BY <1>a, <2>1, <2>2, <2>3, <2>4 DEF Grades
<1>1. PICK st \in {"idle", "reject", "respond", "submit"} : stage' = [stage EXCEPT ![c] = st]
  BY <1>b DEF Throw, Goto
<1>2. /\ candidate' \in [Clients -> BOOLEAN]
      /\ \A d \in Clients \ {c} : candidate'[d] <=> candidate[d]
  <2>1. candidate' = candidate \/ candidate' = [candidate EXCEPT ![c] = TRUE]
    BY <1>b
  <2> QED BY <2>1 DEF IInv, TypeOK
<1>3. conn' \in [Clients -> {"up", "broken", "closed", "gone"}]
  <2>1. conn' = conn \/ conn' = [conn EXCEPT ![c] = "gone"]
    BY <1>b DEF Throw
  <2> QED BY <2>1 DEF IInv, TypeOK
<1>4. st = "respond" => candidate' = candidate
  <2>1. stage'[c] = st
    BY <1>1 DEF IInv, TypeOK
  <2>2. candidate' = candidate \/ stage' = [stage EXCEPT ![c] = "submit"]
    BY <1>b
  <2>3. stage' = [stage EXCEPT ![c] = "submit"] => stage'[c] = "submit"
    BY DEF IInv, TypeOK
  <2> QED BY <2>1, <2>2, <2>3
<1>5. TypeOK'
  <2>1. st \in Stages
    BY DEF Stages
  <2>2. /\ valid' \in [Clients -> 0..MaxRequests] /\ invalid' \in [Clients -> 0..MaxRequests]
        /\ shares' \in [Contents -> Nat] /\ blocks' \in [Contents -> Nat]
        /\ banned' \in [Clients -> BOOLEAN] /\ registered' \subseteq Jobs \X Keys
        /\ chain' \subseteq Headers /\ faults' \in 0..MaxFaults
    BY <1>0, KeyType DEF IInv, TypeOK, statVars, outVars, boundVars
  <2> QED BY <1>0, <1>1, <1>2, <1>3, <2>1, <2>2, ProgressType DEF boundVars
<1>6. \A d \in Clients : stage'[d] = IF d = c THEN st ELSE stage[d]
  BY <1>1 DEF IInv, TypeOK
<1>7. Accounted'
  BY <1>0, <1>6, SameAccount DEF statVars, boundVars
<1>8. ~candidate[c]
  BY <1>0 DEF IInv, CandidateIsTaken
<1>9. working' = working /\ shares' = shares /\ blocks' = blocks /\ chain' = chain
  BY <1>0 DEF outVars
<1>10. PublishedIsRegistered' /\ CountedOnce' /\ BlocksAreReal'
  BY <1>0, <1>9 DEF IInv, PublishedIsRegistered, CountedOnce, BlocksAreReal
<1>11. \A d \in Clients \ {c} : Past(d)' => Past(d) /\ Key(working[d]) \in registered
  BY <1>6 DEF Past, IInv, PastIsRegistered
<1>12. PastIsRegistered'
  <2>1. ASSUME NEW s \in Contents, Key(s) = Key(working[c]) PROVE shares[s] = 0
    <3>1. ~(shares[s] > 0) /\ shares[s] \in Nat
      BY <1>0, <2>1 DEF IInv, PublishedIsRegistered, TypeOK
    <3> QED BY <3>1
  <2> QED BY <1>0, <1>9, <1>11, <2>1 DEF IInv, PastIsRegistered
<1>13. OneClient'
  BY <1>0, <1>9, <1>11 DEF IInv, OneClient
<1>14. CandidateIsTaken'
  <2>1. candidate'[c] /\ stage'[c] \in {"wallet", "respond"} => FALSE
    BY <1>4, <1>6, <1>8
  <2>2. stage'[c] # "found"
    BY <1>6
  <2> QED BY <1>2, <1>6, <1>9, <2>1, <2>2 DEF IInv, CandidateIsTaken, Header
<1> QED
  BY <1>5, <1>7, <1>10, <1>12, <1>13, <1>14 DEF IInv

LEMMA SubmitAcceptedInv == ASSUME IInv, NEW c \in Clients, SubmitAccepted(c) PROVE IInv'
<1>1. stage[c] # "idle" /\ stage' = [stage EXCEPT ![c] = "wallet"] /\ "wallet" \in Stages \ {"found"}
  BY DEF SubmitAccepted, Goto, Stages
<1>2. /\ candidate' \in [Clients -> BOOLEAN]
      /\ \A d \in Clients \ {c} : candidate'[d] <=> candidate[d]
  BY DEF IInv, TypeOK, SubmitAccepted
<1>3. conn' \in [Clients -> {"up", "broken", "closed", "gone"}]
  BY DEF IInv, TypeOK, SubmitAccepted, clientVars
<1>4. /\ registered' \subseteq Jobs \X Keys /\ chain' \subseteq Headers
      /\ registered \subseteq registered' /\ chain \subseteq chain'
  BY KeyType DEF Header, IInv, TypeOK, SubmitAccepted, outVars
<1>5. faults' \in 0..MaxFaults
  BY SubmissionAssumption DEF IInv, TypeOK, SubmitAccepted, Fault, boundVars
<1>6. UNCHANGED <<jobVars, nonce, ready, banned, working, statVars, shares, blocks, requests,
                  breaks>>
  BY DEF SubmitAccepted, clientVars, outVars, boundVars
<1>7. Past(c) /\ (candidate'[c] => Header(c) \in chain')
  BY DEF SubmitAccepted, Past, IInv, TypeOK, CandidateIsTaken, outVars
<1> QED
  BY <1>1, <1>2, <1>3, <1>4, <1>5, <1>6, <1>7, InnerStep

LEMMA SubmitRejectedInv == ASSUME IInv, NEW c \in Clients, SubmitRejected(c) PROVE IInv'
<1>1. stage[c] # "idle" /\ stage' = [stage EXCEPT ![c] = "respond"] /\ "respond" \in Stages \ {"found"}
  BY DEF SubmitRejected, Goto, Stages
<1>2. /\ candidate' \in [Clients -> BOOLEAN]
      /\ \A d \in Clients \ {c} : candidate'[d] <=> candidate[d]
  BY DEF IInv, TypeOK, SubmitRejected, NoCandidate
<1>3. conn' \in [Clients -> {"up", "broken", "closed", "gone"}]
  BY DEF IInv, TypeOK, SubmitRejected, clientVars
<1>4. /\ registered' \subseteq Jobs \X Keys /\ chain' \subseteq Headers
      /\ registered \subseteq registered' /\ chain \subseteq chain'
  BY DEF IInv, TypeOK, SubmitRejected, outVars
<1>5. faults' \in 0..MaxFaults
  BY SubmissionAssumption DEF IInv, TypeOK, SubmitRejected, Fault, boundVars
<1>6. UNCHANGED <<jobVars, nonce, ready, banned, working, statVars, shares, blocks, requests,
                  breaks>>
  BY DEF SubmitRejected, clientVars, outVars, boundVars
<1>7. Past(c) /\ (candidate'[c] => Header(c) \in chain')
  BY DEF SubmitRejected, Past, IInv, TypeOK, CandidateIsTaken, outVars, NoCandidate
<1> QED
  BY <1>1, <1>2, <1>3, <1>4, <1>5, <1>6, <1>7, InnerStep

LEMMA SubmitUnconfirmedInv == ASSUME IInv, NEW c \in Clients, SubmitUnconfirmed(c) PROVE IInv'
<1>1. stage[c] # "idle" /\ stage' = [stage EXCEPT ![c] = "respond"] /\ "respond" \in Stages \ {"found"}
  BY DEF SubmitUnconfirmed, Goto, Stages
<1>2. /\ candidate' \in [Clients -> BOOLEAN]
      /\ \A d \in Clients \ {c} : candidate'[d] <=> candidate[d]
  BY DEF IInv, TypeOK, SubmitUnconfirmed, NoCandidate
<1>3. conn' \in [Clients -> {"up", "broken", "closed", "gone"}]
  BY DEF IInv, TypeOK, SubmitUnconfirmed, clientVars
<1>4. /\ registered' \subseteq Jobs \X Keys /\ chain' \subseteq Headers
      /\ registered \subseteq registered' /\ chain \subseteq chain'
  BY KeyType DEF Header, IInv, TypeOK, SubmitUnconfirmed, outVars
<1>5. faults' \in 0..MaxFaults
  BY SubmissionAssumption DEF IInv, TypeOK, SubmitUnconfirmed, Fault, boundVars
<1>6. UNCHANGED <<jobVars, nonce, ready, banned, working, statVars, shares, blocks, requests,
                  breaks>>
  BY DEF SubmitUnconfirmed, clientVars, outVars, boundVars
<1>7. Past(c) /\ (candidate'[c] => Header(c) \in chain')
  BY DEF SubmitUnconfirmed, Past, IInv, TypeOK, CandidateIsTaken, outVars, NoCandidate
<1> QED
  BY <1>1, <1>2, <1>3, <1>4, <1>5, <1>6, <1>7, InnerStep

LEMMA SubmitLostInv == ASSUME IInv, NEW c \in Clients, SubmitLost(c) PROVE IInv'
<1>1. stage[c] # "idle" /\ stage' = [stage EXCEPT ![c] = "idle"] /\ "idle" \in Stages \ {"found"}
  BY DEF SubmitLost, Throw, Goto, Stages
<1>2. /\ candidate' \in [Clients -> BOOLEAN]
      /\ \A d \in Clients \ {c} : candidate'[d] <=> candidate[d]
  BY DEF IInv, TypeOK, SubmitLost
<1>3. conn' \in [Clients -> {"up", "broken", "closed", "gone"}]
  BY ThrowType DEF IInv, TypeOK, SubmitLost
<1>4. /\ registered' \subseteq Jobs \X Keys /\ chain' \subseteq Headers
      /\ registered \subseteq registered' /\ chain \subseteq chain'
  BY KeyType DEF Header, IInv, TypeOK, SubmitLost, outVars
<1>5. faults' \in 0..MaxFaults
  BY SubmissionAssumption DEF IInv, TypeOK, SubmitLost, Fault, boundVars
<1>6. UNCHANGED <<jobVars, nonce, ready, banned, working, statVars, shares, blocks, requests,
                  breaks>>
  BY DEF SubmitLost, clientVars, outVars, boundVars
<1> QED
  BY <1>1, <1>2, <1>3, <1>4, <1>5, <1>6, InnerStep

LEMMA WalletAnswersInv == ASSUME IInv, NEW c \in Clients, WalletAnswers(c) PROVE IInv'
<1>1. stage[c] # "idle" /\ stage' = [stage EXCEPT ![c] = "respond"] /\ "respond" \in Stages \ {"found"}
  BY DEF WalletAnswers, Goto, Stages
<1>2. /\ candidate' \in [Clients -> BOOLEAN]
      /\ \A d \in Clients \ {c} : candidate'[d] <=> candidate[d]
  BY DEF IInv, TypeOK, WalletAnswers
<1>3. conn' \in [Clients -> {"up", "broken", "closed", "gone"}]
  BY DEF IInv, TypeOK, WalletAnswers, clientVars
<1>4. /\ registered' \subseteq Jobs \X Keys /\ chain' \subseteq Headers
      /\ registered \subseteq registered' /\ chain \subseteq chain'
  BY DEF IInv, TypeOK, WalletAnswers, outVars
<1>5. faults' \in 0..MaxFaults
  BY SubmissionAssumption DEF IInv, TypeOK, WalletAnswers, Fault, boundVars
<1>6. UNCHANGED <<jobVars, nonce, ready, banned, working, statVars, shares, blocks, requests,
                  breaks>>
  BY DEF WalletAnswers, clientVars, outVars, boundVars
<1>7. Past(c) /\ (candidate'[c] => Header(c) \in chain')
  BY DEF WalletAnswers, Past, IInv, TypeOK, CandidateIsTaken, outVars
<1> QED
  BY <1>1, <1>2, <1>3, <1>4, <1>5, <1>6, <1>7, InnerStep

LEMMA WalletThrowsInv == ASSUME IInv, NEW c \in Clients, WalletThrows(c) PROVE IInv'
<1>1. stage[c] # "idle" /\ stage' = [stage EXCEPT ![c] = "idle"] /\ "idle" \in Stages \ {"found"}
  BY DEF WalletThrows, Throw, Goto, Stages
<1>2. /\ candidate' \in [Clients -> BOOLEAN]
      /\ \A d \in Clients \ {c} : candidate'[d] <=> candidate[d]
  BY DEF IInv, TypeOK, WalletThrows
<1>3. conn' \in [Clients -> {"up", "broken", "closed", "gone"}]
  BY ThrowType DEF IInv, TypeOK, WalletThrows
<1>4. /\ registered' \subseteq Jobs \X Keys /\ chain' \subseteq Headers
      /\ registered \subseteq registered' /\ chain \subseteq chain'
  BY DEF IInv, TypeOK, WalletThrows, outVars
<1>5. faults' \in 0..MaxFaults
  BY SubmissionAssumption DEF IInv, TypeOK, WalletThrows, Fault, boundVars
<1>6. UNCHANGED <<jobVars, nonce, ready, banned, working, statVars, shares, blocks, requests,
                  breaks>>
  BY DEF WalletThrows, clientVars, outVars, boundVars
<1> QED
  BY <1>1, <1>2, <1>3, <1>4, <1>5, <1>6, InnerStep

LEMMA SendThrowsInv == ASSUME IInv, NEW c \in Clients, SendThrows(c) PROVE IInv'
<1>1. stage[c] # "idle" /\ stage' = [stage EXCEPT ![c] = "idle"] /\ "idle" \in Stages \ {"found"}
  BY DEF SendThrows, Throw, Goto, Stages
<1>2. /\ candidate' \in [Clients -> BOOLEAN]
      /\ \A d \in Clients \ {c} : candidate'[d] <=> candidate[d]
  BY DEF IInv, TypeOK, SendThrows
<1>3. conn' \in [Clients -> {"up", "broken", "closed", "gone"}]
  BY ThrowType DEF IInv, TypeOK, SendThrows
<1>4. /\ registered' \subseteq Jobs \X Keys /\ chain' \subseteq Headers
      /\ registered \subseteq registered' /\ chain \subseteq chain'
  BY DEF IInv, TypeOK, SendThrows, outVars
<1>5. faults' \in 0..MaxFaults
  BY SubmissionAssumption DEF IInv, TypeOK, SendThrows, Fault, boundVars
<1>6. UNCHANGED <<jobVars, nonce, ready, banned, working, statVars, shares, blocks, requests,
                  breaks>>
  BY DEF SendThrows, clientVars, outVars, boundVars
<1> QED
  BY <1>1, <1>2, <1>3, <1>4, <1>5, <1>6, InnerStep

\* The share is published: nobody else holds it, and it was not published before.
LEMMA RespondInv == ASSUME IInv, NEW c \in Clients, Respond(c) PROVE IInv'
<1> DEFINE s == working[c]
<1>1. /\ s \in Contents /\ Key(s) \in registered /\ shares[s] = 0 /\ blocks[s] \in Nat
      /\ stage[c] = "respond" /\ Past(c)
      /\ blocks[s] <= shares[s]
  BY DEF IInv, TypeOK, Respond, PastIsRegistered, Past, CountedOnce
<1>2. blocks[s] = 0
  BY <1>1
<1>3. shares' = [shares EXCEPT ![s] = 1]
  BY <1>1 DEF Respond
<1>4. blocks' = IF candidate[c] THEN [blocks EXCEPT ![s] = 1] ELSE blocks
  BY <1>2 DEF Respond
<1>5. /\ stage' = [stage EXCEPT ![c] = "idle"]
      /\ UNCHANGED <<jobVars, registered, nonce, ready, conn, banned, working, candidate, invalid,
                     chain, requests, faults, breaks>>
  BY DEF Respond, Goto, clientVars, boundVars
<1>6. candidate[c] => HeaderOf[s] \in chain
  BY <1>1 DEF IInv, CandidateIsTaken, Header
<1>0. \A x \in Contents : Key(x) = Key(s) => shares[x] = 0
  BY <1>1 DEF IInv, PastIsRegistered
<1> HIDE DEF s
<1>7. /\ shares' \in [Contents -> Nat] /\ blocks' \in [Contents -> Nat]
      /\ \A x \in Contents : shares'[x] = IF x = s THEN 1 ELSE shares[x]
      /\ \A x \in Contents : blocks'[x] = IF x = s /\ candidate[c] THEN 1 ELSE blocks[x]
  BY <1>1, <1>3, <1>4 DEF IInv, TypeOK
<1>8. \A d \in Clients :
        /\ valid[d] \in 0..MaxRequests /\ invalid[d] \in 0..MaxRequests
        /\ requests[d] \in 0..MaxRequests
        /\ stage'[d] = IF d = c THEN "idle" ELSE stage[d]
        /\ valid'[d] = IF d = c THEN valid[d] + 1 ELSE valid[d]
  BY <1>5 DEF IInv, TypeOK, Respond
<1>9. valid[c] + invalid[c] < requests[c]
  BY <1>1 DEF IInv, Accounted
<1>10. valid' \in [Clients -> 0..MaxRequests]
  <2>1. valid[c] + 1 \in 0..MaxRequests
    BY <1>8, <1>9, SubmissionAssumption
  <2> QED BY <2>1 DEF IInv, TypeOK, Respond
<1>11. TypeOK'
  <2>1. "idle" \in Stages
    BY DEF Stages
  <2>2. /\ candidate' \in [Clients -> BOOLEAN] /\ banned' \in [Clients -> BOOLEAN]
        /\ conn' \in [Clients -> {"up", "broken", "closed", "gone"}]
        /\ registered' \subseteq Jobs \X Keys /\ chain' \subseteq Headers
        /\ invalid' \in [Clients -> 0..MaxRequests] /\ faults' \in 0..MaxFaults
    BY <1>5 DEF IInv, TypeOK
  <2> QED BY <1>5, <1>7, <1>10, <2>1, <2>2, ProgressType
<1>12. Accounted'
  <2>1. ASSUME NEW d \in Clients
        PROVE  /\ valid'[d] + invalid[d] <= requests[d]
               /\ stage'[d] # "idle" => valid'[d] + invalid[d] < requests[d]
    <3>1. CASE d = c
      BY <3>1, <1>8, <1>9, SubmissionAssumption
    <3>2. CASE d # c
      BY <3>2, <1>8 DEF IInv, Accounted
    <3> QED BY <3>1, <3>2
  <2> QED BY <1>5, <2>1 DEF Accounted
<1>13. PublishedIsRegistered' /\ CountedOnce' /\ BlocksAreReal'
  <2>1. PublishedIsRegistered' /\ BlocksAreReal'
    BY <1>1, <1>2, <1>5, <1>6, <1>7 DEF IInv, PublishedIsRegistered, BlocksAreReal
  <2>2. ASSUME NEW x \in Contents
        PROVE  /\ shares'[x] <= 1 /\ blocks'[x] <= shares'[x]
               /\ \A y \in Contents :
                    Key(x) = Key(y) /\ shares'[x] > 0 /\ shares'[y] > 0 => x = y
    <3>1. shares'[x] <= 1 /\ blocks'[x] <= shares'[x]
      BY <1>1, <1>2, <1>7 DEF IInv, CountedOnce
    <3>2. \A y \in Contents : Key(x) = Key(y) /\ shares'[x] > 0 /\ shares'[y] > 0 => x = y
      BY <1>0, <1>1, <1>7 DEF IInv, CountedOnce
    <3> QED BY <3>1, <3>2
  <2> QED BY <2>1, <2>2 DEF CountedOnce
<1>14. \A d \in Clients : Past(d)' => Past(d) /\ d # c
  BY <1>8 DEF Past
<1>15. PastIsRegistered'
  <2> SUFFICES ASSUME NEW d \in Clients, Past(d)'
               PROVE  /\ Key(working[d]) \in registered
                      /\ \A x \in Contents : Key(x) = Key(working[d]) => shares'[x] = 0
    BY <1>5 DEF PastIsRegistered
  <2>1. Key(working[d]) # Key(s)
    BY <1>1, <1>14 DEF IInv, OneClient, s
  <2> QED BY <1>7, <1>14, <2>1 DEF IInv, TypeOK, PastIsRegistered
<1>16. OneClient' /\ CandidateIsTaken'
  BY <1>5, <1>8, <1>14 DEF IInv, OneClient, CandidateIsTaken, Header
<1> QED
  BY <1>11, <1>12, <1>13, <1>15, <1>16 DEF IInv

\* The rejection is counted, or the statistics start again, and the client may be banned.
LEMMA RejectInv == ASSUME IInv, NEW c \in Clients, Reject(c) PROVE IInv'
<1>1. /\ stage[c] = "reject" /\ stage' = [stage EXCEPT ![c] = "idle"] /\ "idle" \in Stages \ {"found"}
      /\ ConsiderBan(c, valid[c], invalid[c] + 1)
      /\ UNCHANGED <<jobVars, registered, nonce, ready, working, candidate, chain, shares, blocks,
                     requests, faults, breaks>>
  BY DEF Reject, Goto, Stages, outVars, boundVars
<1>2. /\ \/ valid' = valid /\ invalid' = [invalid EXCEPT ![c] = invalid[c] + 1]
         \/ valid' = [valid EXCEPT ![c] = 0] /\ invalid' = [invalid EXCEPT ![c] = 0]
      /\ \/ banned' = banned /\ conn' = conn
         \/ banned' = [banned EXCEPT ![c] = TRUE] /\ conn' = [conn EXCEPT ![c] = "closed"]
  BY <1>1, Zenon DEF ConsiderBan
<1>3. \A d \in Clients :
        /\ valid[d] \in 0..MaxRequests /\ invalid[d] \in 0..MaxRequests
        /\ requests[d] \in 0..MaxRequests
        /\ stage'[d] = IF d = c THEN "idle" ELSE stage[d]
  BY <1>1 DEF IInv, TypeOK
<1>4. valid[c] + invalid[c] < requests[c]
  BY <1>1 DEF IInv, Accounted
<1>5. invalid[c] + 1 \in 0..MaxRequests /\ 0 \in 0..MaxRequests
  BY <1>3, <1>4, SubmissionAssumption
<1>6. valid' \in [Clients -> 0..MaxRequests] /\ invalid' \in [Clients -> 0..MaxRequests]
  BY <1>2, <1>5 DEF IInv, TypeOK
<1>7. banned' \in [Clients -> BOOLEAN]
  BY <1>2 DEF IInv, TypeOK
<1>8. conn' \in [Clients -> {"up", "broken", "closed", "gone"}]
  BY <1>2 DEF IInv, TypeOK
<1>9. TypeOK'
  <2>1. /\ candidate' \in [Clients -> BOOLEAN]
        /\ registered' \subseteq Jobs \X Keys /\ chain' \subseteq Headers
        /\ shares' \in [Contents -> Nat] /\ blocks' \in [Contents -> Nat]
        /\ faults' \in 0..MaxFaults
    BY <1>1 DEF IInv, TypeOK
  <2> QED BY <1>1, <1>6, <1>7, <1>8, <2>1, ProgressType
<1>10. Accounted'
  <2>1. ASSUME NEW d \in Clients
        PROVE  /\ valid'[d] + invalid'[d] <= requests[d]
               /\ stage'[d] # "idle" => valid'[d] + invalid'[d] < requests[d]
    <3>1. CASE d = c
      <4>1. \/ valid'[c] = valid[c] /\ invalid'[c] = invalid[c] + 1
            \/ valid'[c] = 0 /\ invalid'[c] = 0
        BY <1>2 DEF IInv, TypeOK
      <4> QED BY <3>1, <4>1, <1>3, <1>4, SubmissionAssumption
    <3>2. CASE d # c
      <4>1. valid'[d] = valid[d] /\ invalid'[d] = invalid[d]
        BY <1>2, <3>2 DEF IInv, TypeOK
      <4> QED BY <3>2, <4>1, <1>3 DEF IInv, Accounted
    <3> QED BY <3>1, <3>2
  <2> QED BY <1>1, <2>1 DEF Accounted
<1>11. Safe'
  BY <1>1, OneStep
<1> QED
  BY <1>9, <1>10, <1>11 DEF IInv, Safe

-----------------------------------------------------------------------------
LEMMA NextInv == ASSUME IInv, [Next]_vars PROVE IInv'
<1>1. CASE NewJob \/ \E c \in Clients : Handshake(c) \/ Break(c) \/ Close(c) \/ End(c)
  BY <1>1, EnvironmentInv
<1>2. CASE \E c \in Clients : \E s \in Contents : Receive(c, s)
  BY <1>2, ReceiveInv
<1>3. CASE \E c \in Clients : Progress(c)
  <2>1. PICK c \in Clients : Progress(c)
    BY <1>3
  <2>2. CASE Misparse(c) \/ Refuse(c) \/ Process(c)
    BY <2>2, MisparseInv, RefuseInv, ProcessInv
  <2>3. CASE SubmitAccepted(c) \/ SubmitRejected(c) \/ SubmitUnconfirmed(c) \/ SubmitLost(c)
    BY <2>3, SubmitAcceptedInv, SubmitRejectedInv, SubmitUnconfirmedInv, SubmitLostInv
  <2>4. CASE WalletAnswers(c) \/ WalletThrows(c)
    BY <2>4, WalletAnswersInv, WalletThrowsInv
  <2>5. CASE Respond(c) \/ SendThrows(c) \/ Reject(c)
    BY <2>5, RespondInv, SendThrowsInv, RejectInv
  <2> QED
    BY <2>1, <2>2, <2>3, <2>4, <2>5 DEF Progress
<1>4. CASE UNCHANGED vars
  <2>1. UNCHANGED <<newest, validJobs, registered, nonce, ready, conn, banned, stage, working,
                    candidate, valid, invalid, chain, shares, blocks, requests, faults, breaks>>
    BY <1>4 DEF vars, jobVars, clientVars, reqVars, statVars, outVars, boundVars
  <2> QED
    BY <2>1 DEF IInv, TypeOK, Accounted, PublishedIsRegistered, PastIsRegistered, OneClient, Past,
                CandidateIsTaken, Header, CountedOnce, BlocksAreReal
<1> QED
  BY <1>1, <1>2, <1>3, <1>4 DEF Next

LEMMA Invariance == Spec => []IInv
BY InitInv, NextInv, PTL DEF Spec

\* Types hold for every configuration: in particular a client's statistics never exceed its
\* requests, so OnSubmitAsync counts each request at most once.
THEOREM TypeCorrect == Spec => []TypeOK
<1>1. IInv => TypeOK
  BY DEF IInv
<1> QED
  BY <1>1, Invariance, PTL

\* However many clients submit the same strings at the same time, whatever the case of their
\* letters, they are published at most once: RegisterSubmit under the job's lock is enough.
\* It says nothing of strings that differ otherwise and parse to the same header.
THEOREM ShareCountedOnce == Spec => []CountedOnce
<1>1. IInv => CountedOnce
  BY DEF IInv
<1> QED
  BY <1>1, Invariance, PTL

\* SubmitShareAsync publishes no block that the daemon has not taken.
THEOREM OnlyRealBlocks == Spec => []BlocksAreReal
<1>1. IInv => BlocksAreReal
  BY DEF IInv
<1> QED
  BY <1>1, Invariance, PTL

-----------------------------------------------------------------------------
(***************************************************************************)
(* The lost blocks.  A block is lost by a fault of daemon or wallet, or by *)
(* an answer that cannot be sent; the latter uses up a break of the        *)
(* connection, since the client is gone afterwards.  So the breaks that    *)
(* have cost nothing yet, the broken connections, have to be counted too.  *)
(***************************************************************************)
Lost == {h \in chain : ~Recorded(h) /\ ~Pending(h)}

Broken == {c \in Clients : conn[c] = "broken"}

LossCharged ==
  /\ IsFiniteSet(Lost) /\ IsFiniteSet(Broken)
  /\ Cardinality(Lost) + Cardinality(Broken) <= faults + breaks

\* The block that is submitted is a candidate.
SubmitsCandidate == \A c \in Clients : stage[c] = "submit" => candidate[c]

LInv == IInv /\ SubmitsCandidate /\ LossCharged

\* The request of c is on its way to record a block: c is a reason for Pending.
Holds(c) == candidate[c] /\ stage[c] \in {"wallet", "respond"}

\* One element more at most.
LEMMA OneMore ==
  ASSUME NEW S, IsFiniteSet(S), NEW x, NEW T \in SUBSET (S \cup {x})
  PROVE  /\ IsFiniteSet(T) /\ Cardinality(T) \in Nat /\ Cardinality(S) \in Nat
         /\ Cardinality(T) <= Cardinality(S) + 1
<1> DEFINE U == S \cup {x}
<1>1. IsFiniteSet(U) /\ (Cardinality(U) = Cardinality(S) \/ Cardinality(U) = Cardinality(S) + 1)
  BY FS_AddElement
<1>2. IsFiniteSet(T) /\ Cardinality(T) <= Cardinality(U)
  BY <1>1, FS_Subset
<1>3. Cardinality(S) \in Nat /\ Cardinality(T) \in Nat /\ Cardinality(U) \in Nat
  BY <1>1, <1>2, FS_CardinalityType
<1> HIDE DEF U
<1> QED BY <1>1, <1>2, <1>3

\* No element more.
LEMMA NoMore ==
  ASSUME NEW S, IsFiniteSet(S), NEW T \in SUBSET S
  PROVE  /\ IsFiniteSet(T) /\ Cardinality(T) \in Nat /\ Cardinality(S) \in Nat
         /\ Cardinality(T) <= Cardinality(S)
BY FS_Subset, FS_CardinalityType

\* A step that loses nothing and breaks nothing.
LEMMA ChargeNothing ==
  ASSUME LInv, TypeOK', Lost' \subseteq Lost, Broken' \subseteq Broken,
         UNCHANGED <<faults, breaks>>
  PROVE  LossCharged'
<1>1. /\ IsFiniteSet(Lost') /\ Cardinality(Lost') \in Nat /\ Cardinality(Lost) \in Nat
      /\ Cardinality(Lost') <= Cardinality(Lost)
  BY NoMore DEF LInv, LossCharged
<1>2. /\ IsFiniteSet(Broken') /\ Cardinality(Broken') \in Nat /\ Cardinality(Broken) \in Nat
      /\ Cardinality(Broken') <= Cardinality(Broken)
  BY NoMore DEF LInv, LossCharged
<1>3. faults \in Nat /\ breaks \in Nat
  BY SubmissionAssumption DEF LInv, IInv, TypeOK
<1>4. Cardinality(Lost') + Cardinality(Broken') <= faults + breaks
  BY <1>1, <1>2, <1>3 DEF LInv, LossCharged
<1> QED BY <1>1, <1>2, <1>4 DEF LossCharged

\* A fault of daemon or wallet loses one block at most.
LEMMA ChargeFault ==
  ASSUME LInv, TypeOK', NEW x, Lost' \subseteq Lost \cup {x}, Broken' \subseteq Broken,
         faults' = faults + 1, breaks' = breaks
  PROVE  LossCharged'
<1>1. /\ IsFiniteSet(Lost') /\ Cardinality(Lost') \in Nat /\ Cardinality(Lost) \in Nat
      /\ Cardinality(Lost') <= Cardinality(Lost) + 1
  BY OneMore DEF LInv, LossCharged
<1>2. /\ IsFiniteSet(Broken') /\ Cardinality(Broken') \in Nat /\ Cardinality(Broken) \in Nat
      /\ Cardinality(Broken') <= Cardinality(Broken)
  BY NoMore DEF LInv, LossCharged
<1>3. faults \in Nat /\ breaks \in Nat
  BY SubmissionAssumption DEF LInv, IInv, TypeOK
<1>4. Cardinality(Lost') + Cardinality(Broken') <= (faults + 1) + breaks
  BY <1>1, <1>2, <1>3 DEF LInv, LossCharged
<1> QED BY <1>1, <1>2, <1>4 DEF LossCharged

\* A connection breaks.
LEMMA ChargeBreak ==
  ASSUME LInv, TypeOK', NEW c, Lost' \subseteq Lost, Broken' \subseteq Broken \cup {c},
         faults' = faults, breaks' = breaks + 1
  PROVE  LossCharged'
<1>1. /\ IsFiniteSet(Lost') /\ Cardinality(Lost') \in Nat /\ Cardinality(Lost) \in Nat
      /\ Cardinality(Lost') <= Cardinality(Lost)
  BY NoMore DEF LInv, LossCharged
<1>2. /\ IsFiniteSet(Broken') /\ Cardinality(Broken') \in Nat /\ Cardinality(Broken) \in Nat
      /\ Cardinality(Broken') <= Cardinality(Broken) + 1
  BY OneMore DEF LInv, LossCharged
<1>3. faults \in Nat /\ breaks \in Nat
  BY SubmissionAssumption DEF LInv, IInv, TypeOK
<1>4. Cardinality(Lost') + Cardinality(Broken') <= faults + (breaks + 1)
  BY <1>1, <1>2, <1>3 DEF LInv, LossCharged
<1> QED BY <1>1, <1>2, <1>4 DEF LossCharged

\* A broken connection loses one block at most, and is broken no more.
LEMMA ChargeBroken ==
  ASSUME LInv, TypeOK', NEW x, NEW c \in Broken, Lost' \subseteq Lost \cup {x},
         Broken' \subseteq Broken \ {c}, faults' = faults, breaks' = breaks
  PROVE  LossCharged'
<1>1. /\ IsFiniteSet(Lost') /\ Cardinality(Lost') \in Nat /\ Cardinality(Lost) \in Nat
      /\ Cardinality(Lost') <= Cardinality(Lost) + 1
  BY OneMore DEF LInv, LossCharged
<1> DEFINE R == Broken \ {c}
<1>2. /\ IsFiniteSet(R) /\ Cardinality(R) = Cardinality(Broken) - 1
      /\ Cardinality(Broken) \in Nat
  BY FS_RemoveElement, FS_CardinalityType DEF LInv, LossCharged
<1>3. /\ IsFiniteSet(Broken') /\ Cardinality(Broken') \in Nat /\ Cardinality(R) \in Nat
      /\ Cardinality(Broken') <= Cardinality(R)
  <2> HIDE DEF R
  <2>1. Broken' \in SUBSET R
    BY DEF R
  <2> QED BY <1>2, <2>1, NoMore
<1>4. faults \in Nat /\ breaks \in Nat
  BY SubmissionAssumption DEF LInv, IInv, TypeOK
<1> HIDE DEF R
<1>5. Cardinality(Lost') + Cardinality(Broken') <= faults + breaks
  BY <1>1, <1>2, <1>3, <1>4 DEF LInv, LossCharged
<1> QED BY <1>1, <1>3, <1>5 DEF LossCharged

\* A step of client c: the requests of the others keep holding what they hold.
LEMMA LossOfOne ==
  ASSUME IInv, TypeOK', NEW c \in Clients,
         \A d \in Clients \ {c} : /\ stage'[d] = stage[d] /\ working'[d] = working[d]
                                  /\ candidate'[d] = candidate[d],
         chain' \subseteq chain \cup {Header(c)},
         \A s \in Contents : blocks'[s] = 0 => blocks[s] = 0
  PROVE  /\ Lost' \subseteq Lost \cup {Header(c)}
         /\ chain' = chain /\ ~Holds(c) => Lost' \subseteq Lost
<1>1. ASSUME NEW h, Pending(h), ~Pending(h)' PROVE Header(c) = h /\ Holds(c)
  BY <1>1 DEF Pending, Holds, Header
<1>2. ASSUME NEW h, Recorded(h) PROVE Recorded(h)'
  <2>1. PICK s \in Contents : HeaderOf[s] = h /\ blocks[s] > 0
    BY <1>2 DEF Recorded
  <2>2. blocks[s] # 0 /\ blocks'[s] \in Nat
    BY <2>1 DEF IInv, TypeOK
  <2>3. blocks'[s] > 0
    BY <2>2
  <2> QED BY <2>1, <2>3 DEF Recorded
<1>3. ASSUME NEW h \in Lost', h \notin Lost
      PROVE  h = Header(c) /\ (chain' = chain => Holds(c))
  <2>1. h \in chain' /\ ~Recorded(h) /\ ~Pending(h)'
    BY <1>2, <1>3 DEF Lost
  <2>2. h \notin chain \/ Pending(h)
    BY <1>3, <2>1 DEF Lost
  <2> QED BY <1>1, <2>1, <2>2
<1> QED BY <1>3

LEMMA LInvInit == Init => LInv
<1> SUFFICES ASSUME Init PROVE LInv
  OBVIOUS
<1>1. Lost = {} /\ Broken = {}
  BY DEF Init, Lost, Broken
<1>2. LossCharged
  BY <1>1, FS_EmptySet DEF LossCharged, Init
<1>3. SubmitsCandidate
  BY DEF Init, SubmitsCandidate
<1> QED BY <1>2, <1>3, InitInv DEF LInv

\* Steps that change only the jobs or the state of a connection.
LEMMA EnvironmentLoss ==
  ASSUME LInv, IInv',
         NewJob \/ \E c \in Clients : Handshake(c) \/ Break(c) \/ Close(c) \/ End(c)
  PROVE  LInv'
<1>1. UNCHANGED <<stage, working, candidate, chain, blocks, faults>>
  BY DEF NewJob, Handshake, Break, Close, End, reqVars, outVars, boundVars
<1>2. Lost' = Lost /\ SubmitsCandidate'
  BY <1>1 DEF LInv, Lost, Recorded, Pending, Header, SubmitsCandidate
<1>3. TypeOK' /\ TypeOK
  BY DEF LInv, IInv
<1>4. CASE \E c \in Clients : Break(c)
  <2>1. PICK c \in Clients : Break(c)
    BY <1>4
  <2>2. Broken' \subseteq Broken \cup {c} /\ breaks' = breaks + 1
    BY <1>3, <2>1 DEF Break, Broken, TypeOK
  <2> QED BY <1>1, <1>2, <1>3, <2>2, ChargeBreak DEF LInv
<1>5. CASE NewJob \/ \E c \in Clients : Handshake(c) \/ Close(c) \/ End(c)
  <2>1. Broken' \subseteq Broken /\ breaks' = breaks
    BY <1>3, <1>5 DEF NewJob, Handshake, Close, End, Broken, TypeOK, clientVars, boundVars
  <2> QED BY <1>1, <1>2, <1>3, <2>1, ChargeNothing DEF LInv
<1> QED BY <1>4, <1>5

\* A request is received, turned down, checked or rejected: it holds no block before.
LEMMA RequestLoss ==
  ASSUME LInv, IInv', NEW c \in Clients,
         \/ \E s \in Contents : Receive(c, s)
         \/ Misparse(c) \/ Refuse(c) \/ Process(c) \/ SubmitRejected(c) \/ Reject(c)
  PROVE  LInv'
<1>0. TypeOK /\ TypeOK' /\ IInv
  BY DEF LInv, IInv
<1>1. /\ UNCHANGED <<chain, blocks, faults, breaks>>
      /\ stage[c] \in {"idle", "found", "submit", "reject"}
  BY DEF Receive, Misparse, Refuse, Process, SubmitRejected, Reject, outVars, boundVars
<1>2. \A d \in Clients \ {c} : /\ stage'[d] = stage[d] /\ working'[d] = working[d]
                               /\ candidate'[d] = candidate[d]
  <2>1. CASE \E s \in Contents : Receive(c, s)
    BY <1>0, <2>1 DEF Receive, Goto, TypeOK
  <2>2. CASE Misparse(c) \/ Refuse(c) \/ SubmitRejected(c) \/ Reject(c)
    BY <1>0, <2>2 DEF Misparse, Throw, Refuse, SubmitRejected, NoCandidate, Reject, Goto, TypeOK
  <2>3. CASE Process(c)
    <3>1. Grade(c) \in Grades
      BY <1>0, SubmissionAssumption DEF Grade, TypeOK
    <3> QED BY <1>0, <2>3, <3>1 DEF Process, Throw, Goto, Grades, TypeOK
  <2> QED BY <2>1, <2>2, <2>3
<1>3. Lost' \subseteq Lost
  <2>1. ~Holds(c)
    BY <1>1 DEF Holds
  <2> QED BY <1>0, <1>1, <1>2, <2>1, LossOfOne
<1>4. Broken' \subseteq Broken
  <2>1. CASE (\E s \in Contents : Receive(c, s)) \/ Refuse(c) \/ SubmitRejected(c)
    BY <2>1 DEF Receive, Refuse, SubmitRejected, clientVars, Broken
  <2>2. CASE Misparse(c)
    BY <1>0, <2>2 DEF Misparse, Throw, Broken, TypeOK
  <2>3. CASE Process(c)
    <3>1. Grade(c) \in Grades
      BY <1>0, SubmissionAssumption DEF Grade, TypeOK
    <3>2. conn' = conn \/ conn' = [conn EXCEPT ![c] = "gone"]
      BY <2>3, <3>1 DEF Process, Throw, Grades
    <3> QED BY <1>0, <3>2 DEF Broken, TypeOK
  <2>4. CASE Reject(c)
    <3>1. conn' = conn \/ conn' = [conn EXCEPT ![c] = "closed"]
      BY <2>4 DEF Reject, ConsiderBan
    <3> QED BY <1>0, <3>1 DEF Broken, TypeOK
  <2> QED BY <2>1, <2>2, <2>3, <2>4
<1>5. LossCharged'
  BY <1>0, <1>1, <1>3, <1>4, ChargeNothing
<1>6. stage'[c] = "submit" => candidate'[c]
  <2>1. CASE \E s \in Contents : Receive(c, s)
    BY <1>0, <2>1 DEF Receive, Goto, TypeOK
  <2>2. CASE Misparse(c) \/ Refuse(c) \/ SubmitRejected(c) \/ Reject(c)
    BY <1>0, <2>2 DEF Misparse, Throw, Refuse, SubmitRejected, Reject, Goto, TypeOK
  <2>3. CASE Process(c)
    <3>1. Grade(c) \in Grades
      BY <1>0, SubmissionAssumption DEF Grade, TypeOK
    <3> QED BY <1>0, <2>3, <3>1 DEF Process, Throw, Goto, Grades, TypeOK
  <2> QED BY <2>1, <2>2, <2>3
<1>7. SubmitsCandidate'
  BY <1>2, <1>6 DEF LInv, SubmitsCandidate
<1> QED BY <1>5, <1>7 DEF LInv

\* The block is submitted, the wallet asked, the answer sent: here blocks get lost.
LEMMA BlockLoss ==
  ASSUME LInv, IInv', NEW c \in Clients,
         \/ SubmitAccepted(c) \/ SubmitUnconfirmed(c) \/ SubmitLost(c)
         \/ WalletAnswers(c) \/ WalletThrows(c) \/ Respond(c) \/ SendThrows(c)
  PROVE  LInv'
<1>0. TypeOK /\ TypeOK' /\ IInv
  BY DEF LInv, IInv
<1>1. /\ stage' = [stage EXCEPT ![c] = stage'[c]]
      /\ stage'[c] \in {"wallet", "respond", "idle"}
      /\ working' = working
      /\ chain' \subseteq chain \cup {Header(c)}
  BY <1>0 DEF SubmitAccepted, SubmitUnconfirmed, SubmitLost, WalletAnswers, WalletThrows,
              Respond, SendThrows, Throw, Goto, TypeOK, outVars
<1>2. candidate' = candidate \/ candidate' = [candidate EXCEPT ![c] = FALSE]
  BY DEF SubmitAccepted, SubmitUnconfirmed, NoCandidate, SubmitLost, WalletAnswers, WalletThrows,
         Respond, SendThrows
<1>3. \A d \in Clients \ {c} : /\ stage'[d] = stage[d] /\ working'[d] = working[d]
                               /\ candidate'[d] = candidate[d]
  BY <1>0, <1>1, <1>2 DEF TypeOK
<1>4. \A s \in Contents : blocks'[s] = 0 => blocks[s] = 0
  <2>1. CASE Respond(c)
    BY <1>0, <2>1 DEF Respond, TypeOK
  <2>2. CASE ~Respond(c)
    BY <2>2 DEF SubmitAccepted, SubmitUnconfirmed, SubmitLost, WalletAnswers, WalletThrows,
                SendThrows, outVars
  <2> QED BY <2>1, <2>2
<1>5. Lost' \subseteq Lost \cup {Header(c)}
  BY <1>0, <1>1, <1>3, <1>4, LossOfOne
<1>6. SubmitsCandidate'
  BY <1>1, <1>3 DEF LInv, SubmitsCandidate
<1>7. CASE SubmitAccepted(c) \/ WalletAnswers(c)
  <2>1. stage'[c] \in {"wallet", "respond"} /\ candidate' = candidate
    BY <1>0, <1>7 DEF SubmitAccepted, WalletAnswers, Goto, TypeOK
  <2>2. Header(c) \notin Lost' \/ Header(c) \in Lost
    <3>1. CASE candidate[c]
      <4>1. ASSUME NEW h, h = Header(c) PROVE Pending(h)'
        BY <1>1, <2>1, <3>1, <4>1 DEF Pending, Header
      <4> QED BY <4>1 DEF Lost
    <3>2. CASE ~candidate[c]
      <4>1. WalletAnswers(c)
        BY <1>7, <3>2 DEF LInv, SubmitsCandidate, SubmitAccepted
      <4>2. chain' = chain /\ ~Holds(c)
        BY <3>2, <4>1 DEF WalletAnswers, outVars, Holds
      <4> QED BY <1>0, <1>1, <1>3, <1>4, <4>2, LossOfOne
    <3> QED BY <3>1, <3>2
  <2>3. Lost' \subseteq Lost
    BY <1>5, <2>2
  <2>4. Broken' \subseteq Broken /\ UNCHANGED <<faults, breaks>>
    BY <1>7 DEF SubmitAccepted, WalletAnswers, clientVars, boundVars, Broken
  <2> QED BY <1>0, <1>6, <2>3, <2>4, ChargeNothing DEF LInv
<1>8. CASE Respond(c)
  <2>1. Lost' \subseteq Lost
    <3>1. CASE candidate[c]
      <4>1. working[c] \in Contents /\ blocks'[working[c]] > 0
        BY <1>0, <1>8, <3>1 DEF Respond, TypeOK
      <4>2. ASSUME NEW h, h = Header(c) PROVE Recorded(h)'
        BY <4>1, <4>2 DEF Recorded, Header
      <4> QED BY <1>5, <4>2 DEF Lost
    <3>2. CASE ~candidate[c]
      <4>1. chain' = chain /\ ~Holds(c)
        BY <1>8, <3>2 DEF Respond, Holds
      <4> QED BY <1>0, <1>1, <1>3, <1>4, <4>1, LossOfOne
    <3> QED BY <3>1, <3>2
  <2>2. Broken' \subseteq Broken /\ UNCHANGED <<faults, breaks>>
    BY <1>8 DEF Respond, clientVars, boundVars, Broken
  <2> QED BY <1>0, <1>6, <2>1, <2>2, ChargeNothing DEF LInv
<1>9. CASE SubmitUnconfirmed(c) \/ SubmitLost(c) \/ WalletThrows(c)
  <2>1. faults' = faults + 1 /\ breaks' = breaks
    BY <1>9 DEF SubmitUnconfirmed, SubmitLost, WalletThrows, Fault
  <2>2. conn' = conn \/ conn' = [conn EXCEPT ![c] = "gone"]
    BY <1>9 DEF SubmitUnconfirmed, SubmitLost, WalletThrows, Throw, clientVars
  <2>3. Broken' \subseteq Broken
    BY <1>0, <2>2 DEF Broken, TypeOK
  <2> QED BY <1>0, <1>5, <1>6, <2>1, <2>3, ChargeFault DEF LInv
<1>10. CASE SendThrows(c)
  <2>1. c \in Broken /\ conn' = [conn EXCEPT ![c] = "gone"] /\ UNCHANGED <<faults, breaks>>
    BY <1>10 DEF SendThrows, Throw, boundVars, Broken
  <2>2. Broken' \subseteq Broken \ {c}
    BY <1>0, <2>1 DEF Broken, TypeOK
  <2> QED BY <1>0, <1>5, <1>6, <2>1, <2>2, ChargeBroken DEF LInv
<1> QED BY <1>7, <1>8, <1>9, <1>10

\* A block the daemon has taken gets lost only by a fault of daemon or wallet, or by a
\* broken connection, and each of these loses one at most (SubmitBlockAsync, and the order
\* of answer and publication in OnSubmitAsync).
THEOREM LossesHaveCauses == Spec => []BlocksLostByFaultsOnly
<1>1. LInv /\ [Next]_vars => LInv'
  <2> SUFFICES ASSUME LInv, [Next]_vars PROVE LInv'
    OBVIOUS
  <2>1. IInv'
    BY NextInv DEF LInv
  <2>2. CASE NewJob \/ \E c \in Clients : Handshake(c) \/ Break(c) \/ Close(c) \/ End(c)
    BY <2>1, <2>2, EnvironmentLoss
  <2>3. ASSUME NEW c \in Clients, Progress(c) \/ \E s \in Contents : Receive(c, s)
        PROVE  LInv'
    BY <2>1, <2>3, RequestLoss, BlockLoss DEF Progress
  <2>4. CASE UNCHANGED vars
    <3>1. UNCHANGED <<conn, stage, working, candidate, chain, blocks, faults, breaks>>
      BY <2>4 DEF vars, clientVars, reqVars, outVars, boundVars
    <3> QED BY <2>1, <3>1 DEF LInv, LossCharged, Lost, Recorded, Broken, Pending, Header, SubmitsCandidate
  <2> QED BY <2>2, <2>3, <2>4 DEF Next
<1>2. LInv => BlocksLostByFaultsOnly
  <2> SUFFICES ASSUME LInv PROVE BlocksLostByFaultsOnly
    OBVIOUS
  <2>1. Cardinality(Lost) \in Nat /\ Cardinality(Broken) \in Nat
    BY FS_CardinalityType DEF LInv, LossCharged
  <2>2. faults \in Nat /\ breaks \in Nat
    BY SubmissionAssumption DEF LInv, IInv, TypeOK
  <2>3. Cardinality(Lost) <= faults + breaks
    BY <2>1, <2>2 DEF LInv, LossCharged
  <2> QED BY <2>3 DEF BlocksLostByFaultsOnly, Lost
<1> QED BY <1>1, <1>2, LInvInit, PTL DEF Spec
-----------------------------------------------------------------------------
(***************************************************************************)
(* Equihash: the bits in the accumulator                                   *)
(***************************************************************************)

\* The widths: what the assertions of ExpandArray give, and that the solution holds 2^K indices.
LEMMA Sizes ==
  /\ K \in Nat /\ K > 0 /\ ByteBits \in Nat /\ ByteBits > 0 /\ BitLen \in Nat /\ BitLen > 0
  /\ WordBits \in Nat /\ ByteBits <= BitLen /\ ByteBits - 1 + BitLen <= WordBits
  /\ 2^K \in Nat /\ 2^K > 0
  /\ SolutionWidth \in Nat /\ SolutionWidth * ByteBits = 2^K * BitLen
<1>1. /\ K \in Nat /\ K > 0 /\ ByteBits \in Nat /\ ByteBits > 0 /\ BitLen \in Nat /\ BitLen > 0
      /\ WordBits \in Nat /\ ByteBits <= BitLen /\ ByteBits - 1 + BitLen <= WordBits
  BY EquihashAssumption DEF BitLen
<1>2. 2^K \in Nat /\ 2^K > 0
  BY <1>1, PowerPositive
<1> DEFINE x == 2^K * BitLen
<1>3. x \in Nat
  BY <1>1, <1>2
<1>4. x % ByteBits = 0 /\ SolutionWidth = x \div ByteBits
  BY EquihashAssumption DEF SolutionWidth
<1> HIDE DEF x
<1>5. x = ByteBits * (x \div ByteBits) + (x % ByteBits) /\ x \div ByteBits \in Nat
  BY <1>1, <1>3, DivModParts
<1>6. x = SolutionWidth * ByteBits /\ SolutionWidth \in Nat
  BY <1>1, <1>4, <1>5
<1> QED BY <1>1, <1>2, <1>6 DEF x

\* The powers of two that bytes, indices and the accumulator are bounded by.
LEMMA PowerOfSizes ==
  /\ 2^ByteBits \in Nat /\ 2^ByteBits > 0
  /\ 2^BitLen \in Nat /\ 2^BitLen > 0
  /\ 2^WordBits \in Nat /\ 2^WordBits > 0
BY Sizes, PowerPositive

\* The bits of a byte, from its lowest, are bits of the stream.
LEMMA BitsOfByte ==
  ASSUME NEW n \in Nat, NEW b \in Nat, b < ByteBits
  PROVE  Bit((n + 1) * ByteBits - 1 - b) = BitOf(soln[n + 1], b)
<1> DEFINE d == ByteBits
           r == d - 1 - b
           p == (n + 1) * d - 1 - b
<1>1. d \in Nat /\ d > 0 /\ r \in Int /\ 0 <= r /\ r < d /\ d - 1 - r = b
  BY Sizes
<1>2. p = d * n + r
  BY <1>1
<1> HIDE DEF d, r, p
<1>3. p \div d = n /\ p % d = r
  BY <1>1, <1>2, DivMod
<1>4. Bit(p) = (soln[p \div d + 1] \div 2^(d - 1 - (p % d))) % 2
  BY DEF Bit, d
<1>5. Bit(p) = BitOf(soln[n + 1], b)
  BY <1>1, <1>3, <1>4 DEF BitOf
<1> QED BY <1>5 DEF p, d

-----------------------------------------------------------------------------
\* The state of ExpandArray: as many bits are in the accumulator as are read and not part of
\* an index; they are the last ones of the stream, the lowest bit the last one read.
Accumulated ==
  /\ read \in 0..Len(soln)
  /\ acc.value \in Nat /\ acc.bits \in 0..(BitLen - 1)
  /\ indices \in Seq(Indices)
  /\ acc.bits = read * ByteBits - Len(indices) * BitLen
  /\ \A b \in 0..(acc.bits - 1) : BitOf(acc.value, b) = Bit(read * ByteBits - 1 - b)
  /\ \A n \in 1..Len(indices) : indices[n] = IndexOf(n)

\* A byte is shifted in: what falls out of the accumulator at its top was used before.
LEMMA ShiftedBits ==
  ASSUME Accumulated, soln \in Seq(Bytes), read < Len(soln), 
         NEW b \in Nat, b < acc.bits + ByteBits
  PROVE  /\ Shifted(acc.value, soln[read + 1]) \in Nat
         /\ BitOf(Shifted(acc.value, soln[read + 1]), b) = Bit((read + 1) * ByteBits - 1 - b)
<1> DEFINE a == acc.value
           s == soln[read + 1]
           p == 2^ByteBits
           z == a * p + s
<1>1. /\ a \in Nat /\ acc.bits \in Nat /\ acc.bits < BitLen /\ read \in Nat
      /\ read + 1 \in 1..Len(soln)
  BY Sizes DEF Accumulated
<1>2. p \in Nat /\ p > 0 /\ s \in Nat /\ s < p
  <2>1. s \in Bytes
    BY <1>1, ElementOfSeq
  <2> QED BY <2>1, PowerOfSizes DEF Bytes
<1>3. z \in Nat /\ b < WordBits /\ ByteBits \in Nat /\ WordBits \in Nat
  <2>1. b < WordBits /\ ByteBits \in Nat /\ WordBits \in Nat
    BY <1>1, Sizes
  <2> HIDE DEF a, s, p
  <2> QED BY <1>1, <1>2, <2>1
<1>4. Shifted(a, s) = z % 2^WordBits
  BY DEF Shifted
<1>5. Shifted(a, s) \in Nat
  <2> HIDE DEF z
  <2> QED BY <1>3, <1>4, PowerOfSizes, DivModParts
<1>6. BitOf(Shifted(a, s), b) = BitOf(z, b)
  <2> HIDE DEF z
  <2> QED BY <1>3, <1>4, BitOfMod
<1>7. BitOf(z, b) = IF b < ByteBits THEN BitOf(s, b) ELSE BitOf(a, b - ByteBits)
  <2> HIDE DEF a, s
  <2>1. a \in Nat /\ s \in Nat /\ s < 2^ByteBits /\ b \in Nat /\ ByteBits \in Nat
    BY <1>1, <1>2, <1>3
  <2>2. /\ b < ByteBits => BitOf(Appended(a, ByteBits, s), b) = BitOf(s, b)
        /\ ~(b < ByteBits) => BitOf(Appended(a, ByteBits, s), b) = BitOf(a, b - ByteBits)
    BY <2>1, BitOfAppended
  <2> QED BY <2>2 DEF Appended
<1>8. BitOf(z, b) = Bit((read + 1) * ByteBits - 1 - b)
  <2>1. CASE b < ByteBits
    <3> HIDE DEF z, a
    <3> QED BY <1>1, <1>7, <2>1, BitsOfByte
  <2>2. CASE ~(b < ByteBits)
    <3> DEFINE c == b - ByteBits
    <3>1. c \in 0..(acc.bits - 1)
      BY <1>1, <1>3, <2>2
    <3>2. BitOf(a, c) = Bit(read * ByteBits - 1 - c)
      BY <3>1 DEF Accumulated
    <3>3. read * ByteBits - 1 - c = (read + 1) * ByteBits - 1 - b
      BY <1>1, <1>3
    <3> HIDE DEF z, a
    <3> QED BY <1>7, <2>2, <3>2, <3>3
  <2> QED BY <2>1, <2>2
<1> QED BY <1>5, <1>6, <1>8

\* What is taken from the accumulator is the next group of bits.
LEMMA ElementIsIndex ==
  ASSUME Accumulated, soln \in Seq(Bytes), read < Len(soln), acc.bits + ByteBits >= BitLen
  PROVE  LET e == Element(Shifted(acc.value, soln[read + 1]), acc.bits + ByteBits)
         IN  e \in Indices /\ e = IndexOf(Len(indices) + 1)
<1> DEFINE v == Shifted(acc.value, soln[read + 1])
           bits == acc.bits + ByteBits
           o == bits - BitLen
           n == Len(indices) + 1
           y == v \div 2^o
<1>1. /\ acc.bits \in Nat /\ bits \in Nat /\ o \in Nat /\ BitLen \in Nat /\ BitLen > 0
      /\ ByteBits \in Nat /\ read \in Nat /\ Len(indices) \in Nat /\ bits = o + BitLen
  BY Sizes DEF Accumulated
<1>2. v \in Nat
  <2>1. 0 < acc.bits + ByteBits /\ 0 \in Nat
    BY <1>1
  <2> QED BY <2>1, ShiftedBits
<1>3. (read + 1) * ByteBits - o = n * BitLen
  <2>1. acc.bits = read * ByteBits - Len(indices) * BitLen
    BY DEF Accumulated
  <2> QED BY <1>1, <2>1
<1>4. \A b \in 0..(BitLen - 1) : BitOf(y, b) = Bit(n * BitLen - 1 - b)
  <2> TAKE b \in 0..(BitLen - 1)
  <2>1. o + b \in Nat /\ o + b < bits /\ b \in Nat
    BY <1>1
  <2>2. BitOf(v, o + b) = Bit((read + 1) * ByteBits - 1 - (o + b))
    BY <2>1, ShiftedBits
  <2>3. BitOf(y, b) = BitOf(v, o + b)
    <3> HIDE DEF v, o
    <3> QED BY <1>1, <1>2, <2>1, BitOfShifted
  <2>4. (read + 1) * ByteBits - 1 - (o + b) = n * BitLen - 1 - b
    <3> DEFINE x == (read + 1) * ByteBits
               z == n * BitLen
    <3>1. x \in Int /\ z \in Int /\ x - o = z
      BY <1>1, <1>3
    <3> HIDE DEF x, z, o
    <3>2. x - 1 - (o + b) = z - 1 - b
      BY <1>1, <2>1, <3>1
    <3> QED BY <3>2 DEF x, z
  <2> QED BY <2>2, <2>3, <2>4
<1>5. y \in Nat
  <2> HIDE DEF v, o
  <2> QED BY <1>1, <1>2, PowerPositive, DivModParts
<1> HIDE DEF y, n
<1>6. SumFunctionOnSet([b \in 0..(BitLen - 1) |-> 2^b * BitOf(y, b)], 0..(BitLen - 1)) = y % 2^BitLen
  BY <1>1, <1>5, SumOfBits
<1>7. [b \in 0..(BitLen - 1) |-> 2^b * BitOf(y, b)]
        = [b \in 0..(BitLen - 1) |-> 2^b * Bit(n * BitLen - 1 - b)]
  BY <1>4
<1>8. IndexOf(n) = y % 2^BitLen
  BY <1>6, <1>7 DEF IndexOf, SumFunction
<1>9. y % 2^BitLen \in Indices
  BY <1>5, PowerOfSizes, DivModParts DEF Indices
<1>10. Element(v, bits) = y % 2^BitLen
  BY DEF Element, y
<1> QED BY <1>8, <1>9, <1>10 DEF n

-----------------------------------------------------------------------------
(***************************************************************************)
(* Equihash: the tree                                                      *)
(***************************************************************************)

\* ExpandArray is done and the hashes are there.
Ready ==
  /\ indices = [n \in 1..2^K |-> IndexOf(n)] /\ indices \in Seq(Indices)
  /\ hash \in [Indices -> [1..(K + 1) -> Digits]]

\* The nodes of level r.
Nodes(r) == 1..2^(K - r)

\* Digit d of the hashes below a node, added up without carry.
Xor(r, j, d) == SumFunction([n \in DOMAIN Leaves(r, j) |-> hash[Leaves(r, j)[n]][d]]) % 2

\* The row that IsValidSolution should have for node j of level r.
Row(r, j) == [hash |-> [d \in 1..(K + 1 - r) |-> Xor(r, j, r + d)], indices |-> Leaves(r, j)]

\* The subtree of a node has no fault at its root, and no index twice.
Sound(r, j) == IsInjective(Leaves(r, j)) /\ (r > 0 => GoodNode(r, j))

\* The nodes of a level times the leaves of a node are all leaves.
LEMMA LevelSizes ==
  ASSUME NEW r \in 0..K
  PROVE  /\ r \in Nat /\ K - r \in Nat /\ 2^r \in Nat /\ 2^r > 0
         /\ 2^(K - r) \in Nat /\ 2^(K - r) > 0 /\ 2^(K - r) * 2^r = 2^K
<1>1. r \in Nat /\ K - r \in Nat /\ (K - r) + r = K
  BY Sizes
<1>2. 2^((K - r) + r) = 2^(K - r) * 2^r
  BY <1>1, PowerPlus
<1> QED BY <1>1, <1>2, PowerPositive

\* Where the leaves of a node are among the indices.
LEMMA LeavesFacts ==
  ASSUME Ready, NEW r \in 0..K, NEW j \in Nodes(r)
  PROVE  /\ j \in Nat
         /\ Leaves(r, j) \in Seq(Indices) /\ Len(Leaves(r, j)) = 2^r
         /\ DOMAIN Leaves(r, j) = 1..2^r
         /\ \A n \in 1..2^r : /\ Leaves(r, j)[n] = IndexOf((j - 1) * 2^r + n)
                              /\ Leaves(r, j)[n] \in Indices
                              /\ (j - 1) * 2^r + n \in 1..2^K
<1> DEFINE p == 2^r
           q == 2^(K - r)
           s == Leaves(r, j)
<1>1. p \in Nat /\ p > 0 /\ q \in Nat /\ q > 0 /\ q * p = 2^K /\ 2^K \in Nat
  BY LevelSizes, Sizes
<1>2. j \in Nat /\ 1 <= j /\ j <= q
  BY <1>1 DEF Nodes
<1> HIDE DEF q
<1>3. \A n \in 1..p : (j - 1) * p + n \in 1..2^K
  <2> HIDE DEF p
  <2> TAKE n \in 1..p
  <2>1. (j - 1) * p \in Nat /\ n \in Nat /\ n <= p /\ 1 <= n
    BY <1>1, <1>2
  <2>2. (j - 1) * p + p = j * p /\ j * p \in Nat
    BY <1>1, <1>2
  <2>3. j * p <= q * p
    BY <1>1, <1>2
  <2> DEFINE u == (j - 1) * p
             w == j * p
  <2> HIDE DEF u, w
  <2>4. u \in Nat /\ u + p = w /\ w \in Nat /\ w <= 2^K
    BY <1>1, <2>1, <2>2, <2>3 DEF u, w
  <2>5. u + n \in 1..2^K
    BY <1>1, <2>1, <2>4
  <2> QED BY <2>5 DEF u
<1>4. \A m \in 1..2^K : IndexOf(m) \in Indices
  <2> TAKE m \in 1..2^K
  <2>1. Len(indices) = 2^K /\ indices[m] = IndexOf(m)
    BY <1>1 DEF Ready
  <2> QED BY <2>1, ElementOfSeq DEF Ready
<1>5. s = [n \in 1..p |-> IndexOf((j - 1) * p + n)]
  BY DEF Leaves
<1> HIDE DEF s
<1>6. \A n \in 1..p : s[n] = IndexOf((j - 1) * p + n) /\ s[n] \in Indices
  BY <1>3, <1>4, <1>5
<1>7. s \in [1..p -> Indices]
  BY <1>5, <1>6
<1>8. s \in Seq(Indices) /\ Len(s) = p
  <2> HIDE DEF p
  <2> QED BY <1>1, <1>7
<1> QED BY <1>2, <1>3, <1>5, <1>6, <1>8 DEF s

\* The leaves of a node are those of its children.
LEMMA LeavesSplit ==
  ASSUME Ready, NEW r \in 0..K, r < K, NEW j \in Nodes(r + 1)
  PROVE  /\ r + 1 \in 0..K /\ 2 * j - 1 \in Nodes(r) /\ 2 * j \in Nodes(r) /\ 2^(r + 1) = 2^r + 2^r
         /\ Leaves(r + 1, j) = Leaves(r, 2 * j - 1) \o Leaves(r, 2 * j)
         /\ \A n \in 1..2^r : /\ Leaves(r + 1, j)[n] = Leaves(r, 2 * j - 1)[n]
                              /\ Leaves(r + 1, j)[2^r + n] = Leaves(r, 2 * j)[n]
<1> DEFINE p == 2^r
           h == 2 * j - 1
           k == 2 * j
           a == Leaves(r, h)
           b == Leaves(r, k)
           s == Leaves(r + 1, j)
<1>1. r \in Nat /\ r + 1 \in 0..K /\ K - (r + 1) \in Nat /\ (K - (r + 1)) + 1 = K - r
  BY Sizes
<1>2. 2^(K - r) = 2 * 2^(K - (r + 1))
  BY <1>1, PowerStep
<1>3. h \in Nodes(r) /\ k \in Nodes(r) /\ j \in Nat /\ j >= 1 /\ h \in Nat /\ k \in Nat
  <2> DEFINE q == 2^(K - (r + 1))
  <2>1. q \in Nat /\ j \in 1..q
    BY <1>1, LevelSizes DEF Nodes
  <2> HIDE DEF q
  <2>2. h \in 1..(2 * q) /\ k \in 1..(2 * q)
    BY <2>1
  <2> QED BY <1>2, <2>1, <2>2 DEF Nodes, q
<1>4. 2^(r + 1) = p + p /\ p \in Nat /\ p > 0
  BY <1>1, PowerStep, PowerPositive
<1>5. /\ a \in Seq(Indices) /\ Len(a) = p /\ DOMAIN a = 1..p
      /\ \A n \in 1..p : a[n] = IndexOf((h - 1) * p + n)
  BY <1>3, LeavesFacts
<1>6. /\ b \in Seq(Indices) /\ Len(b) = p /\ DOMAIN b = 1..p
      /\ \A n \in 1..p : b[n] = IndexOf((k - 1) * p + n)
  BY <1>3, LeavesFacts
<1>7. /\ s \in Seq(Indices) /\ Len(s) = p + p /\ DOMAIN s = 1..(p + p)
      /\ \A n \in 1..(p + p) : s[n] = IndexOf((j - 1) * (p + p) + n)
  <2> DEFINE t == r + 1
  <2>1. t \in 0..K /\ j \in Nodes(t) /\ 2^t = p + p
    BY <1>1, <1>4
  <2> HIDE DEF t, p
  <2>2. /\ Leaves(t, j) \in Seq(Indices) /\ Len(Leaves(t, j)) = 2^t
        /\ DOMAIN Leaves(t, j) = 1..2^t
        /\ \A n \in 1..2^t : Leaves(t, j)[n] = IndexOf((j - 1) * 2^t + n)
    BY <2>1, LeavesFacts
  <2> QED BY <2>1, <2>2 DEF t
<1> HIDE DEF a, b, s, p
<1>8. ASSUME NEW n \in 1..p PROVE s[n] = a[n] /\ s[p + n] = b[n]
  <2>1. n \in 1..(p + p) /\ p + n \in 1..(p + p)
    BY <1>4
  <2>2. (j - 1) * (p + p) + n = (h - 1) * p + n
    BY <1>3, <1>4
  <2>3. (j - 1) * (p + p) + (p + n) = (k - 1) * p + n
    BY <1>3, <1>4
  <2>4. s[n] = IndexOf((j - 1) * (p + p) + n)
    BY <1>7, <2>1
  <2>5. s[p + n] = IndexOf((j - 1) * (p + p) + (p + n))
    BY <1>7, <2>1
  <2> HIDE DEF h, k
  <2> QED BY <1>5, <1>6, <2>2, <2>3, <2>4, <2>5
<1>9. s = a \o b
  <2>1. /\ a \o b \in Seq(Indices) /\ Len(a \o b) = p + p
        /\ \A n \in 1..(p + p) : (a \o b)[n] = IF n <= p THEN a[n] ELSE b[n - p]
    BY <1>4, <1>5, <1>6, ConcatProperties
  <2>2. ASSUME NEW n \in 1..(p + p) PROVE s[n] = (a \o b)[n]
    <3>1. CASE n <= p
      <4>1. n \in 1..p
        BY <1>4, <3>1
      <4> QED BY <1>8, <2>1, <3>1, <4>1
    <3>2. CASE ~(n <= p)
      <4>1. n - p \in 1..p /\ p + (n - p) = n
        BY <1>4, <3>2
      <4>2. s[p + (n - p)] = b[n - p]
        BY <1>8, <4>1
      <4> QED BY <2>1, <3>2, <4>1, <4>2
    <3> QED BY <3>1, <3>2
  <2> QED BY <1>4, <1>7, <2>1, <2>2, SeqEqual
<1> QED BY <1>1, <1>3, <1>4, <1>8, <1>9 DEF a, b, s, p

\* The digits below a node.
LEMMA XorFacts ==
  ASSUME Ready, NEW r \in 0..K, NEW j \in Nodes(r), NEW d \in 1..(K + 1)
  PROVE  LET f == [n \in 1..2^r |-> hash[Leaves(r, j)[n]][d]]
         IN  /\ \A n \in 1..2^r : f[n] \in 0..1
             /\ SumFunctionOnSet(f, 1..2^r) \in Nat
             /\ Xor(r, j, d) = SumFunctionOnSet(f, 1..2^r) % 2
             /\ Xor(r, j, d) \in 0..1
             /\ XorIsZero(Leaves(r, j), d) <=> Xor(r, j, d) = 0
<1> DEFINE p == 2^r
           s == Leaves(r, j)
           f == [n \in 1..p |-> hash[s[n]][d]]
<1>1. p \in Nat /\ DOMAIN s = 1..p /\ \A n \in 1..p : s[n] \in Indices
  BY LevelSizes, LeavesFacts
<1> HIDE DEF p, s
<1>2. \A n \in 1..p : f[n] \in 0..1
  BY <1>1 DEF Ready, Digits
<1>3. SumFunctionOnSet(f, 1..p) \in Nat
  <2> DEFINE A == 1..p
  <2>1. IsFiniteSet(A)
    BY <1>1, FS_Interval
  <2>2. \A n \in A : f[n] \in Nat
    BY <1>2
  <2> HIDE DEF A, f
  <2>3. SumFunctionOnSet(f, A) \in Nat
    BY <2>1, <2>2, SumNat
  <2> QED BY <2>3 DEF A
<1>4. SumFunction([n \in DOMAIN s |-> hash[s[n]][d]]) = SumFunctionOnSet(f, 1..p)
  BY <1>1 DEF SumFunction
<1>5. Xor(r, j, d) = SumFunctionOnSet(f, 1..p) % 2
  BY <1>4 DEF Xor, s
<1>6. XorIsZero(s, d) <=> Xor(r, j, d) = 0
  BY <1>4, <1>5 DEF XorIsZero
<1>7. Xor(r, j, d) \in 0..1
  <2> HIDE DEF f
  <2> QED BY <1>3, <1>5
<1> QED BY <1>2, <1>3, <1>5, <1>6, <1>7 DEF f, p, s

\* The digits of a node are those of its children together.
LEMMA XorSplit ==
  ASSUME Ready, NEW r \in 0..K, r < K, NEW j \in Nodes(r + 1), NEW d \in 1..(K + 1)
  PROVE  Xor(r + 1, j, d) = (Xor(r, 2 * j - 1, d) + Xor(r, 2 * j, d)) % 2
<1> DEFINE p == 2^r
           h == 2 * j - 1
           k == 2 * j
           t == r + 1
           a == [n \in 1..p |-> hash[Leaves(r, h)[n]][d]]
           b == [n \in 1..p |-> hash[Leaves(r, k)[n]][d]]
           c == [n \in 1..2^t |-> hash[Leaves(t, j)[n]][d]]
<1>1. /\ t \in 0..K /\ h \in Nodes(r) /\ k \in Nodes(r) /\ j \in Nodes(t) /\ 2^t = p + p
      /\ \A n \in 1..p : Leaves(t, j)[n] = Leaves(r, h)[n] /\ Leaves(t, j)[p + n] = Leaves(r, k)[n]
  BY LeavesSplit
<1>2. p \in Nat
  BY LevelSizes
<1> HIDE DEF p, h, k, t
<1>3. SumFunctionOnSet(a, 1..p) \in Nat /\ Xor(r, h, d) = SumFunctionOnSet(a, 1..p) % 2
  BY <1>1, XorFacts DEF p
<1>4. SumFunctionOnSet(b, 1..p) \in Nat /\ Xor(r, k, d) = SumFunctionOnSet(b, 1..p) % 2
  BY <1>1, XorFacts DEF p
<1>5. /\ \A n \in 1..(p + p) : c[n] \in Int
      /\ Xor(t, j, d) = SumFunctionOnSet(c, 1..(p + p)) % 2
  <2>1. (\A n \in 1..2^t : c[n] \in 0..1) /\ Xor(t, j, d) = SumFunctionOnSet(c, 1..2^t) % 2
    BY <1>1, XorFacts
  <2> HIDE DEF c
  <2> QED BY <1>1, <2>1
<1>6. \A n \in 1..p : a[n] = c[n] /\ b[n] = c[p + n]
  <2> TAKE n \in 1..p
  <2>1. n \in 1..2^t /\ p + n \in 1..2^t
    BY <1>1, <1>2
  <2> QED BY <1>1, <2>1
<1> HIDE DEF a, b, c
<1>7. SumFunctionOnSet(c, 1..(p + p)) = SumFunctionOnSet(a, 1..p) + SumFunctionOnSet(b, 1..p)
  BY <1>2, <1>5, <1>6, SumSplit
<1> DEFINE x == SumFunctionOnSet(a, 1..p)
           y == SumFunctionOnSet(b, 1..p)
<1> HIDE DEF x, y
<1>8. (x + y) % 2 = ((x % 2) + (y % 2)) % 2
  BY <1>3, <1>4 DEF x, y
<1>9. Xor(t, j, d) = (Xor(r, h, d) + Xor(r, k, d)) % 2
  BY <1>3, <1>4, <1>5, <1>7, <1>8 DEF x, y
<1> QED BY <1>9 DEF t, h, k

\* The digits that are left in a row.
LEMMA RowFacts ==
  ASSUME NEW r \in 0..K, NEW j
  PROVE  /\ Row(r, j).indices = Leaves(r, j)
         /\ Len(Row(r, j).hash) = K + 1 - r
         /\ \A d \in 1..(K + 1 - r) : Row(r, j).hash[d] = Xor(r, j, r + d)
<1> DEFINE m == K + 1 - r
           f == [d \in 1..m |-> Xor(r, j, r + d)]
<1>1. m \in Nat
  BY Sizes
<1>2. Row(r, j).indices = Leaves(r, j) /\ Row(r, j).hash = f
  BY DEF Row
<1> HIDE DEF m
<1>3. Len(f) = m /\ \A d \in 1..m : f[d] = Xor(r, j, r + d)
  BY <1>1
<1> HIDE DEF f
<1> QED BY <1>2, <1>3 DEF m

\* What is merged is the row of the parent.
LEMMA RowMerge ==
  ASSUME Ready, NEW r \in 0..K, r < K, NEW j \in Nodes(r + 1),
         IndicesBefore(Row(r, 2 * j - 1), Row(r, 2 * j))
  PROVE  FullStepRow(Row(r, 2 * j - 1), Row(r, 2 * j)) = Row(r + 1, j)
<1> DEFINE a == Row(r, 2 * j - 1)
           b == Row(r, 2 * j)
           m == K + 1 - r
           f == [d \in 1..(m - 1) |-> (a.hash[d + 1] + b.hash[d + 1]) % 2]
           g == [d \in 1..(K + 1 - (r + 1)) |-> Xor(r + 1, j, (r + 1) + d)]
<1>1. /\ a.indices = Leaves(r, 2 * j - 1) /\ Len(a.hash) = m
      /\ \A d \in 1..m : a.hash[d] = Xor(r, 2 * j - 1, r + d)
  BY RowFacts
<1>2. /\ b.indices = Leaves(r, 2 * j)
      /\ \A d \in 1..m : b.hash[d] = Xor(r, 2 * j, r + d)
  BY RowFacts
<1> HIDE DEF a, b
<1>3. a.indices \o b.indices = Leaves(r + 1, j)
  BY <1>1, <1>2, LeavesSplit
<1>4. m - 1 = K + 1 - (r + 1) /\ m \in Nat /\ r \in Nat /\ K \in Nat
  BY Sizes
<1>5. f = g
  <2> SUFFICES ASSUME NEW d \in 1..(m - 1)
               PROVE  (a.hash[d + 1] + b.hash[d + 1]) % 2 = Xor(r + 1, j, (r + 1) + d)
    BY <1>4
  <2>1. d + 1 \in 1..m /\ (r + 1) + d \in 1..(K + 1) /\ r + (d + 1) = (r + 1) + d
    BY <1>4
  <2> DEFINE e == (r + 1) + d
  <2>2. Xor(r + 1, j, e) = (Xor(r, 2 * j - 1, e) + Xor(r, 2 * j, e)) % 2
    <3> HIDE DEF e
    <3> QED BY <2>1, XorSplit DEF e
  <2> QED BY <1>1, <1>2, <2>1, <2>2
<1>6. FullStepRow(a, b) = [hash |-> f, indices |-> a.indices \o b.indices]
  BY <1>1 DEF FullStepRow, a, b
<1>7. Row(r + 1, j) = [hash |-> g, indices |-> Leaves(r + 1, j)]
  BY DEF Row
<1> QED BY <1>3, <1>5, <1>6, <1>7 DEF a, b

\* IsValidSolution goes on after these two rows.
Passes(a, b) == HasCollision(a, b) /\ ~IndicesBefore(b, a) /\ DistinctIndices(a, b)

\* Two rows collide when the digit they lose is 0 in the parent.
LEMMA CollisionIsZero ==
  ASSUME Ready, NEW r \in 0..K, r < K, NEW j \in Nodes(r + 1)
  PROVE  HasCollision(Row(r, 2 * j - 1), Row(r, 2 * j)) <=> XorIsZero(Leaves(r + 1, j), r + 1)
<1> DEFINE h == 2 * j - 1
           k == 2 * j
           d == r + 1
<1>1. d \in 1..(K + 1) /\ d \in 0..K /\ j \in Nodes(d) /\ h \in Nodes(r) /\ k \in Nodes(r)
  BY Sizes, LeavesSplit
<1>2. 1 \in 1..(K + 1 - r)
  BY Sizes
<1>3. Row(r, h).hash[1] = Xor(r, h, d) /\ Row(r, k).hash[1] = Xor(r, k, d)
  BY <1>2, RowFacts
<1>4. Xor(d, j, d) = (Xor(r, h, d) + Xor(r, k, d)) % 2
  BY <1>1, XorSplit
<1> HIDE DEF h, k, d
<1>5. Xor(r, h, d) \in 0..1 /\ Xor(r, k, d) \in 0..1
  BY <1>1, XorFacts
<1>6. XorIsZero(Leaves(d, j), d) <=> Xor(d, j, d) = 0
  BY <1>1, XorFacts
<1>7. (Xor(r, h, d) + Xor(r, k, d)) % 2 = 0 <=> Xor(r, h, d) = Xor(r, k, d)
  BY <1>5
<1> QED BY <1>3, <1>4, <1>6, <1>7 DEF HasCollision, h, k, d

\* The first leaves of two children, and what the comparison of their rows says of them.
LEMMA OrderOfRows ==
  ASSUME Ready, NEW r \in 0..K, NEW h \in Nodes(r), NEW k \in Nodes(r)
  PROVE  LET a == Leaves(r, h)
             b == Leaves(r, k)
         IN  /\ a[1] \in Nat /\ b[1] \in Nat
             /\ a[1] < b[1] => IndicesBefore(Row(r, h), Row(r, k))
             /\ IndicesBefore(Row(r, h), Row(r, k)) => a[1] <= b[1]
<1> DEFINE a == Leaves(r, h)
           b == Leaves(r, k)
           p == 2^r
<1>1. p \in Nat /\ 1 \in 1..p
  BY LevelSizes
<1>2. /\ Len(a) = p /\ \A n \in 1..p : a[n] \in Indices /\ b[n] \in Indices
  BY LeavesFacts
<1>3. Row(r, h).indices = a /\ Row(r, k).indices = b
  BY RowFacts
<1> HIDE DEF a, b, p
<1>4. a[1] \in Nat /\ b[1] \in Nat
  BY <1>1, <1>2, PowerOfSizes DEF Indices
<1>5. ASSUME a[1] < b[1] PROVE IndicesBefore(Row(r, h), Row(r, k))
  <2>1. 1..(1 - 1) = {}
    OBVIOUS
  <2> QED BY <1>1, <1>2, <1>3, <1>5, <2>1 DEF IndicesBefore
<1>6. ASSUME IndicesBefore(Row(r, h), Row(r, k)) PROVE a[1] <= b[1]
  <2>1. PICK n \in 1..p : a[n] < b[n] /\ \A m \in 1..(n - 1) : a[m] = b[m]
    BY <1>2, <1>3, <1>6 DEF IndicesBefore
  <2>2. CASE n = 1
    BY <1>4, <2>1, <2>2
  <2>3. CASE n # 1
    <3>1. 1 \in 1..(n - 1)
      BY <1>1, <2>3
    <3> QED BY <1>4, <2>1, <3>1
  <2> QED BY <2>2, <2>3
<1> QED BY <1>4, <1>5, <1>6 DEF a, b

\* Two rows that pass make a sound node.
LEMMA NodePasses ==
  ASSUME Ready, NEW r \in 0..K, r < K, NEW j \in Nodes(r + 1),
         Sound(r, 2 * j - 1), Sound(r, 2 * j), Passes(Row(r, 2 * j - 1), Row(r, 2 * j))
  PROVE  IndicesBefore(Row(r, 2 * j - 1), Row(r, 2 * j)) /\ Sound(r + 1, j)
<1> DEFINE h == 2 * j - 1
           k == 2 * j
           t == r + 1
           p == 2^r
           a == Leaves(r, h)
           b == Leaves(r, k)
           s == Leaves(t, j)
<1>1. /\ r \in Nat /\ K \in Nat /\ t \in 0..K /\ h \in Nodes(r) /\ k \in Nodes(r) /\ 2^t = p + p
      /\ \A n \in 1..p : s[n] = a[n] /\ s[p + n] = b[n]
  BY Sizes, LeavesSplit
<1>2. p \in Nat /\ p > 0 /\ 1 \in 1..p
  BY LevelSizes
<1>3. DOMAIN a = 1..p /\ DOMAIN b = 1..p
  BY <1>1, LeavesFacts
<1>4. DOMAIN s = 1..(p + p)
  <2>1. DOMAIN s = 1..2^t
    <3> HIDE DEF t
    <3> QED BY <1>1, LeavesFacts DEF t
  <2> QED BY <1>1, <2>1
<1>5. Row(r, h).indices = a /\ Row(r, k).indices = b
  BY RowFacts
<1>6. HasCollision(Row(r, h), Row(r, k)) /\ ~IndicesBefore(Row(r, k), Row(r, h)) /\ Range(a) \cap Range(b) = {}
  BY <1>5 DEF Passes, DistinctIndices
<1>7. IsInjective(a) /\ IsInjective(b)
  BY DEF Sound
<1>8. a[1] < b[1] /\ IndicesBefore(Row(r, h), Row(r, k))
  <2>1. /\ a[1] \in Nat /\ b[1] \in Nat
        /\ a[1] < b[1] => IndicesBefore(Row(r, h), Row(r, k))
        /\ b[1] < a[1] => IndicesBefore(Row(r, k), Row(r, h))
    BY <1>1, OrderOfRows
  <2>2. a[1] # b[1]
    <3> HIDE DEF a, b
    <3> QED BY <1>2, <1>3, <1>6 DEF Range
  <2> HIDE DEF a, b, h, k
  <2> QED BY <1>6, <2>1, <2>2
<1>9. \A d \in 1..t : XorIsZero(s, d)
  <2> TAKE d \in 1..t
  <2>1. CASE d = t
    <3>1. XorIsZero(s, t)
      BY <1>6, CollisionIsZero
    <3> HIDE DEF s, t
    <3> QED BY <2>1, <3>1
  <2>2. CASE d # t
    <3>1. d \in 1..r /\ r > 0 /\ d \in 1..(K + 1)
      BY <1>1, <2>2
    <3>2. XorIsZero(a, d) /\ XorIsZero(b, d)
      BY <3>1 DEF Sound, GoodNode
    <3>3. Xor(r, h, d) = 0 /\ Xor(r, k, d) = 0
      <4> HIDE DEF h, k
      <4> QED BY <1>1, <3>1, <3>2, XorFacts DEF a, b
    <3>4. Xor(t, j, d) = (Xor(r, h, d) + Xor(r, k, d)) % 2
      BY <3>1, XorSplit
    <3>5. Xor(t, j, d) = 0
      BY <3>3, <3>4
    <3> HIDE DEF t
    <3> QED BY <1>1, <3>1, <3>5, XorFacts DEF t
  <2> QED BY <2>1, <2>2
<1>10. IsInjective(s)
  <2> HIDE DEF a, b, s, p
  <2> SUFFICES ASSUME NEW m \in 1..(p + p), NEW n \in 1..(p + p), s[m] = s[n] PROVE m = n
    BY <1>4 DEF IsInjective
  <2>1. ASSUME NEW u \in 1..(p + p)
        PROVE  (u \in 1..p /\ s[u] = a[u]) \/ (u - p \in 1..p /\ s[u] = b[u - p])
    <3>1. CASE u <= p
      BY <1>1, <1>2, <3>1
    <3>2. CASE ~(u <= p)
      <4>1. u - p \in 1..p /\ p + (u - p) = u
        BY <1>2, <3>2
      <4>2. s[p + (u - p)] = b[u - p]
        BY <1>1, <4>1
      <4> QED BY <4>1, <4>2
    <3> QED BY <3>1, <3>2
  <2>2. (m \in 1..p /\ s[m] = a[m]) \/ (m - p \in 1..p /\ s[m] = b[m - p])
    BY <2>1
  <2>3. (n \in 1..p /\ s[n] = a[n]) \/ (n - p \in 1..p /\ s[n] = b[n - p])
    BY <2>1
  <2>4. \A u, w \in 1..p : a[u] # b[w]
    BY <1>3, <1>6 DEF Range
  <2>5. \A u, w \in 1..p : (a[u] = a[w] => u = w) /\ (b[u] = b[w] => u = w)
    BY <1>3, <1>7 DEF IsInjective
  <2>6. CASE m \in 1..p /\ s[m] = a[m]
    BY <2>3, <2>4, <2>5, <2>6
  <2>7. CASE m - p \in 1..p /\ s[m] = b[m - p]
    <3>1. n - p \in 1..p /\ s[n] = b[n - p]
      BY <2>3, <2>4, <2>7
    <3>2. m - p = n - p
      BY <2>5, <2>7, <3>1
    <3> QED BY <1>2, <3>2
  <2> QED BY <2>2, <2>6, <2>7
<1>11. GoodNode(t, j)
  <2>1. t - 1 = r
    BY <1>1
  <2> QED BY <1>8, <1>9, <2>1 DEF GoodNode
<1> QED BY <1>8, <1>10, <1>11 DEF Sound

\* Two rows that do not pass show that there is no solution.
LEMMA NodeFails ==
  ASSUME Ready, NEW r \in 0..K, r < K, NEW j \in Nodes(r + 1),
         ~Passes(Row(r, 2 * j - 1), Row(r, 2 * j))
  PROVE  ~IsSolution
<1> DEFINE h == 2 * j - 1
           k == 2 * j
           t == r + 1
           p == 2^r
           a == Leaves(r, h)
           b == Leaves(r, k)
<1> SUFFICES ASSUME IsSolution PROVE FALSE
  OBVIOUS
<1>1. r \in Nat /\ K \in Nat /\ t \in 1..K /\ h \in Nodes(r) /\ k \in Nodes(r) /\ t - 1 = r
  BY Sizes, LeavesSplit
<1>2. GoodNode(t, j)
  BY <1>1 DEF IsSolution, Nodes
<1>3. a[1] < b[1] /\ XorIsZero(Leaves(t, j), t)
  BY <1>1, <1>2 DEF GoodNode
<1>4. HasCollision(Row(r, h), Row(r, k))
  BY <1>3, CollisionIsZero
<1>5. ~IndicesBefore(Row(r, k), Row(r, h))
  <2>1. a[1] \in Nat /\ b[1] \in Nat /\ (IndicesBefore(Row(r, k), Row(r, h)) => b[1] <= a[1])
    BY <1>1, OrderOfRows
  <2> HIDE DEF a, b, h, k
  <2> QED BY <1>3, <2>1
<1>6. Range(a) \cap Range(b) = {}
  <2> SUFFICES ASSUME NEW m \in DOMAIN a, NEW n \in DOMAIN b, a[m] = b[n] PROVE FALSE
    BY DEF Range
  <2>1. DOMAIN a = 1..p /\ DOMAIN b = 1..p /\ p \in Nat
    BY <1>1, LeavesFacts, LevelSizes
  <2> DEFINE u == (h - 1) * p + m
             w == (k - 1) * p + n
  <2>2. a[m] = IndexOf(u) /\ u \in 1..2^K
    BY <1>1, <2>1, LeavesFacts
  <2>3. b[n] = IndexOf(w) /\ w \in 1..2^K
    BY <1>1, <2>1, LeavesFacts
  <2>4. /\ DOMAIN Leaves(K, 1) = 1..2^K
        /\ \A v \in 1..2^K : Leaves(K, 1)[v] = IndexOf((1 - 1) * 2^K + v)
    <3>1. K \in 0..K /\ 1 \in Nodes(K)
      <4>1. K - K = 0 /\ 2^0 = 1
        BY <1>1
      <4> QED BY <1>1, <4>1 DEF Nodes
    <3> QED BY <3>1, LeavesFacts
  <2>5. \A v \in 1..2^K : Leaves(K, 1)[v] = IndexOf(v)
    <3> TAKE v \in 1..2^K
    <3>1. (1 - 1) * 2^K + v = v
      BY Sizes
    <3> QED BY <2>4, <3>1
  <2>6. u = w
    <3> HIDE DEF u, w, a, b
    <3> QED BY <2>2, <2>3, <2>4, <2>5 DEF IsSolution, IsInjective
  <2>7. u # w
    <3>0. h \in Nat
      BY <1>1, LeavesFacts
    <3>1. m \in 1..p /\ n \in 1..p /\ k = h + 1 /\ h \in Nat
      <4>1. 2^(K - t) \in Nat /\ j \in 1..2^(K - t)
        BY <1>1, PowerPositive DEF Nodes
      <4>2. j \in Nat
        BY <4>1
      <4> QED BY <2>1, <3>0, <4>2
    <3> HIDE DEF h, k, p
    <3>2. ((h + 1) - 1) * p = (h - 1) * p + p
      BY <2>1, <3>1
    <3> DEFINE x == (h - 1) * p
    <3>3. x \in Int
      BY <2>1, <3>1
    <3> HIDE DEF x
    <3>4. w = (x + p) + n /\ u = x + m
      BY <3>1, <3>2 DEF x
    <3> QED BY <2>1, <3>1, <3>3, <3>4
  <2> QED BY <2>6, <2>7
<1>7. DistinctIndices(Row(r, h), Row(r, k))
  BY <1>6, RowFacts DEF DistinctIndices
<1> QED BY <1>4, <1>5, <1>7 DEF Passes

-----------------------------------------------------------------------------
(***************************************************************************)
(* Equihash: the inductive invariant                                       *)
(***************************************************************************)

Rows == {Row(r, j) : r \in Nat, j \in Nat}

\* All nodes up to level r are sound, and the first m of the next level; X has the rows that
\* are left of level r, Xc the new ones.
Merging(r, m) ==
  /\ 2 * m <= 2^(K - r)
  /\ X = [t \in 1..(2^(K - r) - 2 * m) |-> Row(r, 2 * m + t)]
  /\ Xc = [t \in 1..m |-> Row(r + 1, t)]
  /\ \A s \in 0..r : \A j \in Nodes(s) : Sound(s, j)
  /\ \A j \in 1..m : Sound(r + 1, j)

EquihashInv ==
  /\ soln \in Seq(Bytes)
  /\ phase \in {"size", "expand"} => Accumulated /\ Xc = <<>>
  /\ phase \in {"expand", "merge"} => header /\ Len(soln) = SolutionWidth
  /\ phase = "merge" => Ready /\ \E r \in 0..K : \E m \in Nat : Merging(r, m)
  /\ AcceptsSolutions

\* Nothing is read yet, hence nothing is in the accumulator.
LEMMA InitEquihashInv == EquihashInit => EquihashInv
<1> SUFFICES ASSUME EquihashInit PROVE EquihashInv
  OBVIOUS
<1>1. phase = "size" /\ read = 0 /\ indices = <<>> /\ acc.value = 0 /\ acc.bits = 0 /\ Xc = <<>>
  BY DEF EquihashInit
<1>2. PICK in \in Inputs : soln = in[2]
  BY DEF EquihashInit
<1>3. soln \in Seq(Bytes)
  <2>1. CASE in \in {TRUE} \X [1..SolutionWidth -> Bytes]
    <3>1. soln \in [1..SolutionWidth -> Bytes] /\ SolutionWidth \in Nat
      BY <1>2, <2>1, Sizes
    <3> HIDE DEF SolutionWidth
    <3> QED BY <3>1
  <2>2. CASE in \in BOOLEAN \X {[b \in 1..w |-> 0] : w \in (SolutionWidth - 1)..(SolutionWidth + 1)}
    <3>1. PICK w \in (SolutionWidth - 1)..(SolutionWidth + 1) : soln = [b \in 1..w |-> 0]
      BY <1>2, <2>2
    <3>2. w \in Nat
      BY Sizes
    <3>3. 0 \in Bytes
      BY PowerOfSizes DEF Bytes
    <3> QED BY <3>1, <3>2, <3>3
  <2> QED BY <2>1, <2>2 DEF Inputs
<1>4. Accumulated
  <2>1. Len(soln) \in Nat /\ indices \in Seq(Indices) /\ Len(indices) = 0
    BY <1>1, <1>3, LenProperties, EmptySeq
  <2>2. 0 = 0 * ByteBits - 0 * BitLen /\ 0 \in 0..(BitLen - 1) /\ 0..(0 - 1) = {} /\ 1..0 = {}
    BY Sizes
  <2>3. 0 \in 0..Len(soln)
    BY <2>1
  <2> QED BY <1>1, <2>1, <2>2, <2>3 DEF Accumulated
<1> QED BY <1>1, <1>3, <1>4 DEF EquihashInv, AcceptsSolutions

\* A wrong length is refused, and no solution has it.
LEMMA CheckSizeStep == EquihashInv /\ CheckSize => EquihashInv'
<1> SUFFICES ASSUME EquihashInv, CheckSize PROVE EquihashInv'
  OBVIOUS
<1>1. UNCHANGED <<header, soln, hash, read, acc, indices, X, Xc>> /\ phase = "size"
  BY DEF CheckSize, inputVars
<1>2. Accumulated'
  BY <1>1 DEF EquihashInv, Accumulated, IndexOf, Bit
<1>3. CASE header /\ Len(soln) = SolutionWidth
  <2>1. phase' = "expand"
    BY <1>3 DEF CheckSize
  <2> QED BY <1>1, <1>2, <1>3, <2>1 DEF EquihashInv, AcceptsSolutions
<1>4. CASE ~(header /\ Len(soln) = SolutionWidth)
  <2>1. phase' = "done" /\ accepted' = FALSE
    BY <1>4 DEF CheckSize, Return
  <2>2. AcceptsSolutions'
    BY <1>1, <1>4, <2>1 DEF AcceptsSolutions
  <2> QED BY <1>1, <1>2, <2>1, <2>2 DEF EquihashInv
<1> QED BY <1>3, <1>4

\* A byte more in the accumulator, and perhaps an index out of it.
LEMMA ExpandArrayStep == EquihashInv /\ ExpandArray => EquihashInv'
<1> SUFFICES ASSUME EquihashInv, ExpandArray PROVE EquihashInv'
  OBVIOUS
<1> DEFINE v == Shifted(acc.value, soln[read + 1])
           bits == acc.bits + ByteBits
           len == Len(indices)
<1>1. /\ UNCHANGED <<header, soln, hash, phase, X, Xc, accepted>> /\ phase = "expand"
      /\ read < Len(soln) /\ read' = read + 1
  BY DEF ExpandArray, inputVars
<1>2. Accumulated /\ soln \in Seq(Bytes)
  BY <1>1 DEF EquihashInv
<1>3. /\ read \in Nat /\ Len(soln) \in Nat /\ acc.bits \in Nat /\ acc.bits < BitLen /\ bits \in Nat
      /\ indices \in Seq(Indices) /\ len \in Nat /\ ByteBits \in Nat /\ ByteBits > 0
      /\ BitLen \in Nat /\ BitLen > 0 /\ ByteBits <= BitLen
  BY <1>2, Sizes, LenProperties DEF Accumulated
<1>4. v \in Nat /\ \A b \in 0..(bits - 1) : BitOf(v, b) = Bit((read + 1) * ByteBits - 1 - b)
  <2>1. 0 \in Nat /\ 0 < acc.bits + ByteBits
    BY <1>3
  <2>2. v \in Nat
    BY <1>1, <1>2, <2>1, ShiftedBits
  <2>3. ASSUME NEW b \in 0..(bits - 1) PROVE BitOf(v, b) = Bit((read + 1) * ByteBits - 1 - b)
    <3>1. b \in Nat /\ b < acc.bits + ByteBits
      BY <1>3
    <3> QED BY <1>1, <1>2, <3>1, ShiftedBits
  <2> QED BY <2>2, <2>3
<1>5. bits = (read + 1) * ByteBits - len * BitLen
  <2>1. acc.bits = read * ByteBits - len * BitLen
    BY <1>2 DEF Accumulated
  <2> QED BY <1>3, <2>1
<1>6. \A n \in 1..len : indices[n] = IndexOf(n)
  BY <1>2 DEF Accumulated
<1>7. \A n : IndexOf(n)' = IndexOf(n)
  BY <1>1 DEF IndexOf, Bit
<1>8. \A b : Bit(read * ByteBits - 1 - b)' = Bit((read + 1) * ByteBits - 1 - b)
  BY <1>1 DEF Bit
<1>9. read' \in 0..Len(soln')
  BY <1>1, <1>3
<1>10. Accumulated'
  <2>1. CASE bits >= BitLen
    <3> DEFINE e == Element(v, bits)
    <3>1. indices' = Append(indices, e) /\ acc' = [value |-> v, bits |-> bits - BitLen]
      BY <2>1 DEF ExpandArray
    <3>2. e \in Indices /\ e = IndexOf(len + 1)
      BY <1>1, <1>2, <2>1, ElementIsIndex
    <3> HIDE DEF e, v, bits
    <3>3. /\ indices' \in Seq(Indices) /\ Len(indices') = len + 1
          /\ \A n \in 1..len : indices'[n] = indices[n]
          /\ indices'[len + 1] = e
      BY <1>3, <3>1, <3>2, AppendProperties
    <3>4. acc'.value = v /\ acc'.bits = bits - BitLen
      BY <3>1
    <3>5. acc'.bits \in 0..(BitLen - 1)
      BY <1>3, <2>1, <3>4 DEF bits
    <3>6. acc'.bits = read' * ByteBits - Len(indices') * BitLen
      <4>1. (len + 1) * BitLen = len * BitLen + BitLen
        BY <1>3
      <4> DEFINE x == (read + 1) * ByteBits
                 y == len * BitLen
      <4>2. x \in Int /\ y \in Int
        BY <1>3
      <4> HIDE DEF x, y
      <4>3. bits = x - y /\ (len + 1) * BitLen = y + BitLen
        BY <1>5, <4>1 DEF x, y
      <4>4. bits - BitLen = x - (y + BitLen)
        BY <1>3, <4>2, <4>3
      <4> QED BY <1>1, <3>3, <3>4, <4>3, <4>4 DEF x
    <3>7. \A n \in 1..Len(indices') : indices'[n] = IndexOf(n)'
      <4> TAKE n \in 1..Len(indices')
      <4>1. n \in 1..len \/ n = len + 1
        BY <1>3, <3>3
      <4> QED BY <1>6, <1>7, <3>2, <3>3, <4>1
    <3>8. \A b \in 0..(acc'.bits - 1) : BitOf(acc'.value, b) = Bit(read * ByteBits - 1 - b)'
      <4> TAKE b \in 0..(acc'.bits - 1)
      <4>1. b \in 0..(bits - 1)
        BY <1>3, <3>4
      <4> QED BY <1>1, <1>4, <1>8, <3>4, <4>1
    <3> QED BY <1>4, <1>9, <3>3, <3>4, <3>5, <3>6, <3>7, <3>8 DEF Accumulated
  <2>2. CASE ~(bits >= BitLen)
    <3>1. indices' = indices /\ acc' = [value |-> v, bits |-> bits]
      BY <2>2 DEF ExpandArray
    <3> HIDE DEF v, bits
    <3>2. acc'.value = v /\ acc'.bits = bits /\ bits \in 0..(BitLen - 1)
      BY <1>3, <2>2, <3>1
    <3>3. \A n \in 1..Len(indices') : indices'[n] = IndexOf(n)'
      BY <1>6, <1>7, <3>1
    <3>4. \A b \in 0..(acc'.bits - 1) : BitOf(acc'.value, b) = Bit(read * ByteBits - 1 - b)'
      BY <1>1, <1>4, <1>8, <3>2
    <3>5. acc'.bits = read' * ByteBits - Len(indices') * BitLen
      BY <1>1, <1>5, <3>1, <3>2
    <3> QED BY <1>3, <1>4, <1>9, <3>1, <3>2, <3>3, <3>4, <3>5 DEF Accumulated
  <2> QED BY <2>1, <2>2
<1> QED BY <1>1, <1>10 DEF EquihashInv, AcceptsSolutions

\* At the end of the bytes there are 2^K indices, and no bit is left.
LEMMA AllUnpacked ==
  ASSUME Accumulated, read = Len(soln), Len(soln) = SolutionWidth
  PROVE  indices = [n \in 1..2^K |-> IndexOf(n)] /\ indices \in Seq(Indices) /\ Len(indices) = 2^K
<1> DEFINE len == Len(indices)
           p == 2^K
           d == BitLen
<1>1. /\ indices \in Seq(Indices) /\ len \in Nat /\ acc.bits \in 0..(d - 1)
      /\ acc.bits = SolutionWidth * ByteBits - len * d
      /\ \A n \in 1..len : indices[n] = IndexOf(n)
  BY LenProperties DEF Accumulated
<1>2. p \in Nat /\ d \in Nat /\ d > 0 /\ SolutionWidth * ByteBits = p * d
  BY Sizes
<1>3. len = p
  <2> DEFINE e == acc.bits
  <2> HIDE DEF len, p, d, e
  <2>1. e \in Int /\ 0 <= e /\ e < d /\ e = p * d - len * d
    BY <1>1, <1>2 DEF e
  <2>2. d * len + e = d * p + 0
    BY <1>1, <1>2, <2>1
  <2>3. (d * len + e) \div d = len
    BY <1>1, <1>2, <2>1, DivMod
  <2>4. (d * p + 0) \div d = p
    <3> DEFINE z == 0
    <3>1. z \in Int /\ 0 <= z /\ z < d
      BY <1>2
    <3> HIDE DEF z
    <3>2. (d * p + z) \div d = p
      BY <1>2, <3>1, DivMod
    <3> QED BY <3>2 DEF z
  <2> QED BY <2>2, <2>3, <2>4
<1> DEFINE f == [n \in 1..p |-> IndexOf(n)]
<1>4. indices = f
  <2>1. indices \in [1..len -> Indices]
    BY <1>1, LenProperties
  <2> HIDE DEF len, p
  <2> QED BY <1>1, <1>3, <2>1
<1> QED BY <1>1, <1>3, <1>4

\* The rows the merge begins with.
LEMMA LeafRow ==
  ASSUME Ready, NEW n \in 1..2^K
  PROVE  /\ Row(0, n) = [hash |-> hash[indices[n]], indices |-> <<indices[n]>>]
         /\ Sound(0, n)
<1> DEFINE i == indices[n]
           z == 0
<1>1. K - 0 = K /\ 0 \in 0..K /\ 2^0 = 1 /\ K + 1 - 0 = K + 1
  BY Sizes
<1>2. n \in Nodes(0) /\ n \in Nat /\ i = IndexOf(n)
  BY <1>1, Sizes DEF Nodes, Ready
<1>3. /\ Leaves(0, n) \in Seq(Indices) /\ Len(Leaves(0, n)) = 1 /\ DOMAIN Leaves(0, n) = 1..1
      /\ Leaves(0, n)[1] = IndexOf((n - 1) * 1 + 1) /\ Leaves(0, n)[1] \in Indices
  <2>1. 1 \in 1..2^0
    BY <1>1
  <2> QED BY <1>1, <1>2, <2>1, LeavesFacts
<1>4. Leaves(0, n)[1] = i /\ i \in Indices
  <2>1. (n - 1) * 1 + 1 = n
    BY <1>2
  <2> QED BY <1>2, <1>3, <2>1
<1> HIDE DEF i
<1>5. Leaves(0, n) = <<i>>
  BY <1>3, <1>4
<1>6. ASSUME NEW d \in 1..(K + 1) PROVE Xor(0, n, d) = hash[i][d]
  <2> DEFINE f == [m \in 1..2^0 |-> hash[Leaves(0, n)[m]][d]]
  <2>1. Xor(0, n, d) = SumFunctionOnSet(f, 1..2^0) % 2 /\ \A m \in 1..2^0 : f[m] \in 0..1
    BY <1>1, <1>2, XorFacts
  <2>2. 1..2^0 = {1} /\ f[1] = hash[i][d]
    BY <1>1, <1>4
  <2> HIDE DEF f
  <2>3. SumFunctionOnSet(f, {1}) = f[1] + SumFunctionOnSet(f, {})
    <3>1. IsFiniteSet({1}) /\ {1} \ {1} = {}
      BY FS_Singleton
    <3>4. \A x \in {1} : f[x] \in Int
      <4>1. f[1] \in 0..1
        BY <2>1, <2>2
      <4> QED BY <4>1
    <3> DEFINE A == {1}
    <3>2. 1 \in A
      OBVIOUS
    <3> HIDE DEF A
    <3>3. SumFunctionOnSet(f, A) = f[1] + SumFunctionOnSet(f, A \ {1})
      BY <3>1, <3>2, <3>4, SumRemove DEF A
    <3> QED BY <3>1, <3>3 DEF A
  <2>4. f[1] \in 0..1
    BY <2>1, <2>2
  <2>5. SumFunctionOnSet(f, {1}) = f[1]
    BY <2>3, <2>4, SumEmpty
  <2> QED BY <2>1, <2>2, <2>4, <2>5
<1>7. hash[i] \in [1..(K + 1) -> Digits]
  BY <1>4 DEF Ready
<1>8. [d \in 1..(K + 1 - 0) |-> Xor(0, n, 0 + d)] = hash[i]
  <2>1. \A d \in 1..(K + 1) : 0 + d = d
    BY Sizes
  <2>2. [d \in 1..(K + 1 - 0) |-> Xor(0, n, 0 + d)] = [d \in 1..(K + 1) |-> hash[i][d]]
    BY <1>1, <1>6, <2>1
  <2> QED BY <1>7, <2>2
<1>9. Sound(0, n)
  BY <1>3 DEF Sound, IsInjective
<1> QED BY <1>5, <1>8, <1>9 DEF Row, i

\* The tree depends on the solution and the hash only.
LEMMA SameTree ==
  ASSUME soln' = soln, hash' = hash
  PROVE  /\ \A r, j : Row(r, j)' = Row(r, j) /\ (Sound(r, j)' <=> Sound(r, j))
         /\ IsSolution' <=> IsSolution
         /\ \A n : IndexOf(n)' = IndexOf(n)
<1>1. \A n : IndexOf(n)' = IndexOf(n)
  BY DEF IndexOf, Bit
<1>2. \A r, j : Leaves(r, j)' = Leaves(r, j)
  BY <1>1 DEF Leaves
<1>3. \A r, j, d : Xor(r, j, d)' = Xor(r, j, d) /\ (XorIsZero(Leaves(r, j), d)' <=> XorIsZero(Leaves(r, j), d))
  BY <1>2 DEF Xor, XorIsZero
<1>4. \A r, j : Row(r, j)' = Row(r, j)
  BY <1>2, <1>3 DEF Row
<1>5. \A r, j : GoodNode(r, j)' <=> GoodNode(r, j)
  BY <1>2, <1>3 DEF GoodNode
<1>6. \A r, j : Sound(r, j)' <=> Sound(r, j)
  BY <1>2, <1>5 DEF Sound
<1>7. IsSolution' <=> IsSolution
  BY <1>2, <1>3, <1>5 DEF IsSolution
<1> QED BY <1>1, <1>4, <1>6, <1>7

\* The same in a form that can be used of the next state.
LEMMA LeafRows ==
  Ready => \A n \in 1..2^K :
             /\ Row(0, n) = [hash |-> hash[indices[n]], indices |-> <<indices[n]>>]
             /\ Sound(0, n)
BY LeafRow

\* The new row comes after those of the nodes before.
LEMMA AppendRow ==
  ASSUME NEW r \in Nat, NEW m \in Nat
  PROVE  Append([t \in 1..m |-> Row(r, t)], Row(r, m + 1)) = [t \in 1..(m + 1) |-> Row(r, t)]
<1> DEFINE f == [t \in 1..m |-> Row(r, t)]
           g == [t \in 1..(m + 1) |-> Row(r, t)]
           e == Row(r, m + 1)
           a == Append(f, e)
<1>1. f \in Seq(Rows) /\ Len(f) = m /\ e \in Rows
  <2>1. \A t \in 1..(m + 1) : Row(r, t) \in Rows
    BY DEF Rows
  <2> HIDE DEF Rows
  <2> QED BY <2>1
<1>2. g \in Seq(Rows) /\ Len(g) = m + 1
  <2>1. \A t \in 1..(m + 1) : Row(r, t) \in Rows
    BY DEF Rows
  <2> HIDE DEF Rows
  <2> QED BY <2>1
<1>3. (\A t \in 1..m : f[t] = Row(r, t)) /\ (\A t \in 1..(m + 1) : g[t] = Row(r, t))
  OBVIOUS
<1> HIDE DEF f, g, e
<1>4. a \in Seq(Rows) /\ Len(a) = m + 1 /\ (\A t \in 1..m : a[t] = f[t]) /\ a[m + 1] = e
  BY <1>1, AppendProperties
<1>5. \A t \in 1..(m + 1) : a[t] = g[t]
  <2> TAKE t \in 1..(m + 1)
  <2>1. t \in 1..m \/ t = m + 1
    OBVIOUS
  <2> QED BY <1>3, <1>4, <2>1 DEF e
<1> HIDE DEF a
<1>6. a = g
  BY <1>2, <1>4, <1>5, SeqEqual
<1> QED BY <1>6 DEF a, e, f, g

\* Without the two merged rows the others are left.
LEMMA DropRows ==
  ASSUME NEW r \in Nat, NEW k \in Nat, NEW n \in Nat, n >= 2
  PROVE  SubSeq([t \in 1..n |-> Row(r, k + t)], 3, n) = [t \in 1..(n - 2) |-> Row(r, (k + 2) + t)]
<1> DEFINE f == [t \in 1..n |-> Row(r, k + t)]
           g == [t \in 1..(n - 2) |-> Row(r, (k + 2) + t)]
           s == SubSeq(f, 3, n)
           c == 3
<1>1. \A i \in c..n : f[i] \in Rows
  BY DEF Rows
<1>2. g \in Seq(Rows) /\ Len(g) = n - 2
  <2>1. n - 2 \in Nat /\ \A t \in 1..(n - 2) : Row(r, (k + 2) + t) \in Rows
    BY DEF Rows
  <2> HIDE DEF Rows
  <2> QED BY <2>1
<1>3. (\A t \in 1..n : f[t] = Row(r, k + t)) /\ (\A t \in 1..(n - 2) : g[t] = Row(r, (k + 2) + t))
  OBVIOUS
<1> HIDE DEF f, g
<1>4. /\ s \in Seq(Rows) /\ Len(s) = (IF 3 <= n THEN n - 3 + 1 ELSE 0)
      /\ \A i \in 1..(n - 3 + 1) : s[i] = f[3 + i - 1]
  <2>1. c \in Int /\ n \in Int
    OBVIOUS
  <2> HIDE DEF c
  <2>2. /\ SubSeq(f, c, n) \in Seq(Rows) /\ Len(SubSeq(f, c, n)) = (IF c <= n THEN n - c + 1 ELSE 0)
        /\ \A i \in 1..(n - c + 1) : SubSeq(f, c, n)[i] = f[c + i - 1]
    BY <1>1, <2>1, SubSeqProperties
  <2> QED BY <2>2 DEF c
<1>5. Len(s) = n - 2
  BY <1>4
<1>6. \A t \in 1..(n - 2) : s[t] = g[t]
  <2> TAKE t \in 1..(n - 2)
  <2>1. t \in 1..(n - 3 + 1) /\ 3 + t - 1 \in 1..n /\ k + (3 + t - 1) = (k + 2) + t
    OBVIOUS
  <2>2. s[t] = f[3 + t - 1]
    BY <1>4, <2>1
  <2> QED BY <1>3, <2>1, <2>2
<1> HIDE DEF s
<1>7. s = g
  BY <1>2, <1>4, <1>5, <1>6, SeqEqual
<1> QED BY <1>7 DEF s, f, g

\* The rows of the leaves, before any merge.
LEMMA MakeRowsStep == EquihashInv /\ MakeRows => EquihashInv'
<1> SUFFICES ASSUME EquihashInv, MakeRows PROVE EquihashInv'
  OBVIOUS
<1>1. /\ UNCHANGED <<header, soln, read, acc, indices, Xc, accepted>> /\ phase = "expand"
      /\ phase' = "merge" /\ read = Len(soln) /\ hash' \in Hashes
      /\ X' = [n \in 1..Len(indices) |-> [hash |-> hash'[indices[n]], indices |-> <<indices[n]>>]]
  BY DEF MakeRows
<1>2. Accumulated /\ Xc = <<>> /\ header /\ Len(soln) = SolutionWidth
  BY <1>1 DEF EquihashInv
<1>3. indices = [n \in 1..2^K |-> IndexOf(n)] /\ indices \in Seq(Indices) /\ Len(indices) = 2^K
  BY <1>1, <1>2, AllUnpacked
<1>4. Ready'
  <2>1. \A n : IndexOf(n)' = IndexOf(n)
    BY <1>1 DEF IndexOf, Bit
  <2>2. hash' \in [Indices -> [1..(K + 1) -> Digits]]
    BY <1>1, EquihashAssumption
  <2> QED BY <1>1, <1>3, <2>1, <2>2 DEF Ready
<1>5. (Ready => \A n \in 1..2^K :
             /\ Row(0, n) = [hash |-> hash[indices[n]], indices |-> <<indices[n]>>]
             /\ Sound(0, n))'
  BY LeafRows, PTL
<1>6. \A n \in 1..2^K : /\ Row(0, n)' = [hash |-> hash'[indices[n]], indices |-> <<indices[n]>>]
                        /\ Sound(0, n)'
  BY <1>1, <1>4, <1>5
<1>7. Merging(0, 0)'
  <2>1. /\ K - 0 = K /\ 2^K \in Nat /\ 2 * 0 = 0 /\ 2^K - 0 = 2^K /\ 1..0 = {} /\ 0..0 = {0}
        /\ 0 <= 2^K
    BY Sizes
  <2>2. \A n \in 1..2^K : 0 + n = n
    BY <2>1
  <2>3. X' = [n \in 1..2^K |-> Row(0, n)']
    BY <1>1, <1>3, <1>6
  <2>4. [n \in 1..2^K |-> Row(0, n)'] = [n \in 1..(2^(K - 0) - 2 * 0) |-> Row(0, 2 * 0 + n)']
    BY <2>1, <2>2
  <2>5. Xc' = [t \in 1..0 |-> Row(0 + 1, t)']
    <3>1. Xc' = <<>>
      BY <1>1, <1>2
    <3> QED BY <2>1, <3>1
  <2>6. \A s \in 0..0 : \A j \in Nodes(s) : Sound(s, j)'
    <3>1. Nodes(0) = 1..2^K
      BY <2>1 DEF Nodes
    <3> QED BY <1>6, <2>1, <3>1
  <2>7. X' = [t \in 1..(2^(K - 0) - 2 * 0) |-> Row(0, 2 * 0 + t)']
    BY <2>3, <2>4
  <2>8. 2 * 0 <= 2^(K - 0) /\ \A j \in 1..0 : Sound(0 + 1, j)'
    BY <2>1
  <2> QED BY <2>5, <2>6, <2>7, <2>8 DEF Merging
<1>8. 0 \in 0..K /\ 0 \in Nat
  BY Sizes
<1>9. (\E r \in 0..K : \E m \in Nat : Merging(r, m))'
  BY <1>7, <1>8
<1> QED BY <1>1, <1>2, <1>4, <1>9 DEF EquihashInv, AcceptsSolutions

\* A level below the root has twice as many nodes as the next one; the root is alone in its own.
LEMMA LevelAbove ==
  ASSUME NEW r \in 0..K
  PROVE  /\ r < K => r + 1 \in 0..K /\ 2^(K - (r + 1)) \in Nat /\ 2^(K - (r + 1)) > 0
                      /\ 2^(K - r) = 2 * 2^(K - (r + 1))
         /\ r < K <=> 2^(K - r) > 1
<1>1. ASSUME r < K
      PROVE  /\ r + 1 \in 0..K /\ 2^(K - (r + 1)) \in Nat /\ 2^(K - (r + 1)) > 0
             /\ 2^(K - r) = 2 * 2^(K - (r + 1))
  <2>1. r + 1 \in 0..K /\ K - (r + 1) \in Nat /\ (K - (r + 1)) + 1 = K - r
    BY <1>1, Sizes
  <2>2. 2^((K - (r + 1)) + 1) = 2 * 2^(K - (r + 1))
    BY <2>1, PowerStep
  <2> QED BY <2>1, <2>2, PowerPositive
<1>2. ASSUME r < K PROVE 2^(K - r) > 1
  <2> DEFINE h == 2^(K - (r + 1))
  <2>1. h \in Nat /\ h > 0 /\ 2^(K - r) = 2 * h
    BY <1>1, <1>2
  <2> HIDE DEF h
  <2> QED BY <2>1
<1>3. ASSUME ~(r < K) PROVE ~(2^(K - r) > 1)
  <2>1. K - r = 0
    BY <1>3, Sizes
  <2>2. 2^0 = 1
    OBVIOUS
  <2>3. 2^(K - r) = 1
    BY <2>1, <2>2
  <2> DEFINE q == 2^(K - r)
  <2> HIDE DEF q
  <2>4. q = 1
    BY <2>3 DEF q
  <2>5. ~(q > 1)
    BY <2>4
  <2> QED BY <2>5 DEF q
<1> QED BY <1>1, <1>2, <1>3

\* How many rows there are while the rows of level r are merged.
LEMMA MergingSizes ==
  ASSUME NEW r \in 0..K, NEW m \in Nat, Merging(r, m)
  PROVE  /\ 2^(K - r) \in Nat /\ 2^(K - r) > 0 /\ 2 * m <= 2^(K - r)
         /\ Len(X) = 2^(K - r) - 2 * m
         /\ \A t \in 1..(2^(K - r) - 2 * m) : X[t] = Row(r, 2 * m + t)
         /\ Len(Xc) = m
<1> DEFINE q == 2^(K - r)
           n == q - 2 * m
<1>1. q \in Nat /\ q > 0 /\ 2 * m <= q
  BY LevelSizes DEF Merging
<1> HIDE DEF q
<1>2. n \in Nat
  BY <1>1
<1>3. X = [t \in 1..n |-> Row(r, 2 * m + t)] /\ Xc = [t \in 1..m |-> Row(r + 1, t)]
  BY DEF Merging, q
<1> HIDE DEF n
<1>4. Len(X) = n /\ \A t \in 1..n : X[t] = Row(r, 2 * m + t)
  BY <1>2, <1>3
<1>5. Len(Xc) = m
  BY <1>3
<1> QED BY <1>1, <1>4, <1>5 DEF q, n

\* The two rows that are merged next are those of the children of node m + 1.
LEMMA NextPair ==
  ASSUME NEW r \in 0..K, NEW m \in Nat, Merging(r, m), Len(X) > 1
  PROVE  /\ r < K /\ r + 1 \in 0..K /\ m + 1 \in Nodes(r + 1) /\ m + 1 \in Nat
         /\ 2^(K - r) - 2 * m >= 2
         /\ X[1] = Row(r, 2 * (m + 1) - 1) /\ X[2] = Row(r, 2 * (m + 1))
         /\ 2 * (m + 1) - 1 \in Nodes(r) /\ 2 * (m + 1) \in Nodes(r)
<1> DEFINE q == 2^(K - r)
           h == 2^(K - (r + 1))
<1>1. /\ q \in Nat /\ q > 0 /\ 2 * m <= q /\ Len(X) = q - 2 * m
      /\ \A t \in 1..(q - 2 * m) : X[t] = Row(r, 2 * m + t)
  BY MergingSizes
<1> HIDE DEF q
<1>2. q > 1 /\ q - 2 * m >= 2
  BY <1>1
<1>3. r < K /\ r + 1 \in 0..K /\ h \in Nat /\ h > 0 /\ q = 2 * h
  BY <1>2, LevelAbove DEF q
<1> HIDE DEF h
<1>4. m + 1 \in 1..h
  BY <1>2, <1>3
<1>5. 1 \in 1..(q - 2 * m) /\ 2 \in 1..(q - 2 * m)
  BY <1>1, <1>2
<1>6. 2 * m + 1 = 2 * (m + 1) - 1 /\ 2 * m + 2 = 2 * (m + 1)
  OBVIOUS
<1>7. X[1] = Row(r, 2 * m + 1) /\ X[2] = Row(r, 2 * m + 2)
  BY <1>1, <1>5
<1>8. 2 * (m + 1) - 1 \in 1..q /\ 2 * (m + 1) \in 1..q
  BY <1>1, <1>2
<1>9. m + 1 \in Nodes(r + 1)
  BY <1>4 DEF Nodes, h
<1>10. 2 * (m + 1) - 1 \in Nodes(r) /\ 2 * (m + 1) \in Nodes(r)
  BY <1>8 DEF Nodes, q
<1> QED BY <1>2, <1>3, <1>6, <1>7, <1>9, <1>10 DEF q

\* Either the pair shows that there is no solution, or its parent is sound.
LEMMA MergePairStep == EquihashInv /\ MergePair => EquihashInv'
<1> SUFFICES ASSUME EquihashInv, MergePair PROVE EquihashInv'
  OBVIOUS
<1>1. UNCHANGED <<header, soln, hash, read, acc, indices>> /\ phase = "merge" /\ Len(X) > 1
  BY DEF MergePair, inputVars
<1>2. Ready /\ header /\ Len(soln) = SolutionWidth
  BY <1>1 DEF EquihashInv
<1>3. PICK r \in 0..K, m \in Nat : Merging(r, m)
  BY <1>1 DEF EquihashInv
<1> DEFINE j == m + 1
           a == Row(r, 2 * j - 1)
           b == Row(r, 2 * j)
<1>4. /\ r < K /\ r + 1 \in 0..K /\ j \in Nodes(r + 1) /\ 2^(K - r) - 2 * m >= 2
      /\ X[1] = a /\ X[2] = b /\ 2 * j - 1 \in Nodes(r) /\ 2 * j \in Nodes(r)
  BY <1>1, <1>3, NextPair
<1>5. /\ \A s, i : Row(s, i)' = Row(s, i) /\ (Sound(s, i)' <=> Sound(s, i))
      /\ IsSolution' <=> IsSolution
      /\ \A n : IndexOf(n)' = IndexOf(n)
  BY <1>1, SameTree
<1>6. CASE ~Passes(a, b)
  <2>1. phase' = "done" /\ accepted' = FALSE
    <3>1. ~Passes(X[1], X[2])
      BY <1>4, <1>6
    <3> HIDE DEF a, b
    <3> QED BY <3>1 DEF MergePair, Passes, Return
  <2>2. ~IsSolution
    BY <1>2, <1>4, <1>6, NodeFails
  <2>3. AcceptsSolutions'
    BY <1>5, <2>1, <2>2 DEF AcceptsSolutions
  <2> QED BY <1>1, <2>1, <2>3 DEF EquihashInv
<1>7. CASE Passes(a, b)
  <2>1. /\ Xc' = Append(Xc, FullStepRow(X[1], X[2])) /\ X' = SubSeq(X, 3, Len(X))
        /\ phase' = "merge"
    <3>1. Passes(X[1], X[2])
      BY <1>4, <1>7
    <3> HIDE DEF a, b
    <3> QED BY <1>1, <3>1 DEF MergePair, Passes
  <2>2. /\ \A s \in 0..r : \A i \in Nodes(s) : Sound(s, i)
        /\ \A i \in 1..m : Sound(r + 1, i)
    BY <1>3 DEF Merging
  <2>3. IndicesBefore(a, b) /\ Sound(r + 1, j)
    <3>1. Sound(r, 2 * j - 1) /\ Sound(r, 2 * j)
      <4>1. r \in 0..r
        BY LevelSizes
      <4> QED BY <1>4, <2>2, <4>1
    <3> QED BY <1>2, <1>4, <1>7, <3>1, NodePasses
  <2>4. FullStepRow(a, b) = Row(r + 1, j)
    BY <1>2, <1>4, <2>3, RowMerge
  <2>5. Xc' = [t \in 1..(m + 1) |-> Row(r + 1, t)]
    <3>1. Xc = [t \in 1..m |-> Row(r + 1, t)]
      BY <1>3 DEF Merging
    <3> DEFINE s == r + 1
    <3>2. s \in Nat
      BY <1>4
    <3> HIDE DEF s, a, b
    <3>3. Append([t \in 1..m |-> Row(s, t)], Row(s, m + 1)) = [t \in 1..(m + 1) |-> Row(s, t)]
      BY <3>2, AppendRow
    <3> QED BY <1>4, <2>1, <2>4, <3>1, <3>3 DEF s
  <2>6. X' = [t \in 1..(2^(K - r) - 2 * (m + 1)) |-> Row(r, 2 * (m + 1) + t)]
    <3> DEFINE q == 2^(K - r)
               n == q - 2 * m
               k == 2 * m
    <3>1. q \in Nat /\ Len(X) = n /\ r \in Nat
      BY <1>3, MergingSizes, LevelSizes
    <3>2. X = [t \in 1..n |-> Row(r, k + t)]
      BY <1>3 DEF Merging
    <3>3. n >= 2
      BY <1>4
    <3> HIDE DEF q
    <3>4. n \in Nat /\ k \in Nat /\ n - 2 = q - 2 * (m + 1) /\ k + 2 = 2 * (m + 1)
      BY <3>1, <3>3
    <3> HIDE DEF n, k
    <3>5. SubSeq([t \in 1..n |-> Row(r, k + t)], 3, n) = [t \in 1..(n - 2) |-> Row(r, (k + 2) + t)]
      BY <3>1, <3>3, <3>4, DropRows
    <3> QED BY <2>1, <3>1, <3>2, <3>4, <3>5 DEF q
  <2>7. 2 * (m + 1) <= 2^(K - r)
    <3> DEFINE q == 2^(K - r)
    <3>1. q \in Nat /\ q - 2 * m >= 2
      BY <1>4, LevelSizes
    <3> HIDE DEF q
    <3>2. 2 * (m + 1) <= q
      BY <3>1
    <3> QED BY <3>2 DEF q
  <2>8. \A i \in 1..(m + 1) : Sound(r + 1, i)
    <3> TAKE i \in 1..(m + 1)
    <3>1. i \in 1..m \/ i = m + 1
      OBVIOUS
    <3> QED BY <2>2, <2>3, <3>1
  <2>9. Merging(r, m + 1)'
    BY <1>5, <2>2, <2>5, <2>6, <2>7, <2>8 DEF Merging, Nodes
  <2>10. (\E s \in 0..K : \E n \in Nat : Merging(s, n))'
    <3>1. m + 1 \in Nat
      OBVIOUS
    <3> QED BY <2>9, <3>1
  <2>11. Ready'
    BY <1>1, <1>2, <1>5 DEF Ready
  <2> QED BY <1>1, <1>2, <2>1, <2>10, <2>11 DEF EquihashInv, AcceptsSolutions
<1> QED BY <1>6, <1>7

\* All rows of a level are used: the next level has half as many.
LEMMA NextLevelStep == EquihashInv /\ NextLevel => EquihashInv'
<1> SUFFICES ASSUME EquihashInv, NextLevel PROVE EquihashInv'
  OBVIOUS
<1>1. /\ UNCHANGED <<header, soln, hash, read, acc, indices, phase, accepted>> /\ phase = "merge"
      /\ X = <<>> /\ X' = Xc /\ Xc' = <<>>
  BY DEF NextLevel, inputVars
<1>2. Ready /\ header /\ Len(soln) = SolutionWidth
  BY <1>1 DEF EquihashInv
<1>3. PICK r \in 0..K, m \in Nat : Merging(r, m)
  BY <1>1 DEF EquihashInv
<1> DEFINE q == 2^(K - r)
           h == 2^(K - (r + 1))
<1>4. q \in Nat /\ q > 0 /\ q = 2 * m
  <2>1. q \in Nat /\ q > 0 /\ 2 * m <= q /\ Len(X) = q - 2 * m
    BY <1>3, MergingSizes
  <2> HIDE DEF q
  <2>2. Len(X) = 0
    BY <1>1
  <2> QED BY <2>1, <2>2
<1>5. r < K /\ r + 1 \in 0..K /\ h = m
  <2> HIDE DEF q, h
  <2>1. q > 1
    BY <1>4
  <2>2. r < K /\ r + 1 \in 0..K /\ h \in Nat /\ q = 2 * h
    BY <2>1, LevelAbove DEF q, h
  <2> QED BY <1>4, <2>2
<1>6. /\ \A s, i : Row(s, i)' = Row(s, i) /\ (Sound(s, i)' <=> Sound(s, i))
      /\ \A n : IndexOf(n)' = IndexOf(n)
  BY <1>1, SameTree
<1>7. /\ Xc = [t \in 1..m |-> Row(r + 1, t)]
      /\ \A s \in 0..r : \A i \in Nodes(s) : Sound(s, i)
      /\ \A i \in 1..m : Sound(r + 1, i)
  BY <1>3 DEF Merging
<1>8. \A s \in 0..(r + 1) : \A i \in Nodes(s) : Sound(s, i)
  <2> TAKE s \in 0..(r + 1)
  <2>1. s \in 0..r \/ s = r + 1
    BY LevelSizes
  <2>2. Nodes(r + 1) = 1..m
    BY <1>5 DEF Nodes
  <2> QED BY <1>7, <2>1, <2>2
<1>9. Merging(r + 1, 0)'
  <2> DEFINE z == 0
  <2>1. 2 * z <= m /\ m - 2 * z = m /\ (\A t \in 1..m : 2 * z + t = t) /\ 1..z = {}
    OBVIOUS
  <2>2. Xc' = [t \in 1..z |-> Row((r + 1) + 1, t)]
    BY <1>1, <2>1
  <2>3. X' = [t \in 1..(m - 2 * z) |-> Row(r + 1, 2 * z + t)]
    <3>1. [t \in 1..(m - 2 * z) |-> Row(r + 1, 2 * z + t)] = [t \in 1..m |-> Row(r + 1, t)]
      BY <2>1
    <3> QED BY <1>1, <1>7, <3>1
  <2>4. \A i \in 1..z : Sound((r + 1) + 1, i)
    BY <2>1
  <2>5. 2 * z <= h /\ X' = [t \in 1..(h - 2 * z) |-> Row(r + 1, 2 * z + t)]
    BY <1>5, <2>1, <2>3
  <2> HIDE DEF z
  <2>6. Merging(r + 1, z)'
    BY <1>6, <1>8, <2>2, <2>4, <2>5 DEF Merging, Nodes, z
  <2> QED BY <2>6 DEF z
<1>10. (\E s \in 0..K : \E n \in Nat : Merging(s, n))'
  <2>1. 0 \in Nat
    OBVIOUS
  <2> QED BY <1>5, <1>9, <2>1
<1>11. Ready'
  BY <1>1, <1>2, <1>6 DEF Ready
<1> QED BY <1>1, <1>2, <1>10, <1>11 DEF EquihashInv, AcceptsSolutions

\* The last row is that of the root, and all nodes are sound.
LEMMA FinishStep == EquihashInv /\ Finish => EquihashInv'
<1> SUFFICES ASSUME EquihashInv, Finish PROVE EquihashInv'
  OBVIOUS
<1>1. /\ UNCHANGED <<header, soln, hash, read, acc, indices>> /\ phase = "merge"
      /\ Len(X) = 1 /\ Xc = <<>> /\ phase' = "done" /\ accepted' = IsZero(X[1])
  BY DEF Finish, Return, inputVars
<1>2. Ready /\ header /\ Len(soln) = SolutionWidth
  BY <1>1 DEF EquihashInv
<1>3. PICK r \in 0..K, m \in Nat : Merging(r, m)
  BY <1>1 DEF EquihashInv
<1>4. r = K /\ X[1] = Row(K, 1)
  <2> DEFINE q == 2^(K - r)
  <2>1. /\ q \in Nat /\ Len(X) = q - 2 * m /\ Len(Xc) = m
        /\ \A t \in 1..(q - 2 * m) : X[t] = Row(r, 2 * m + t)
    BY <1>3, MergingSizes
  <2> HIDE DEF q
  <2>2. m = 0
    BY <1>1, <2>1
  <2>3. q = 1 /\ 1 \in 1..(q - 2 * m) /\ 2 * m + 1 = 1
    BY <1>1, <2>1, <2>2
  <2>4. ~(q > 1)
    BY <2>3
  <2>5. r = K
    <3>1. ~(r < K)
      BY <2>4, LevelAbove DEF q
    <3> QED BY <3>1, Sizes
  <2> QED BY <2>1, <2>3, <2>5
<1>5. K \in 0..K /\ 1 \in Nodes(K) /\ K + 1 \in 1..(K + 1) /\ K + 1 - K = 1
  <2>1. K \in Nat /\ K - K = 0 /\ 2^0 = 1
    BY Sizes
  <2> QED BY <2>1 DEF Nodes
<1>6. IsZero(Row(K, 1)) <=> XorIsZero(Leaves(K, 1), K + 1)
  <2>1. Len(Row(K, 1).hash) = 1 /\ \A d \in 1..1 : Row(K, 1).hash[d] = Xor(K, 1, K + d)
    BY <1>5, RowFacts
  <2>2. IsZero(Row(K, 1)) <=> Xor(K, 1, K + 1) = 0
    BY <2>1 DEF IsZero
  <2>3. XorIsZero(Leaves(K, 1), K + 1) <=> Xor(K, 1, K + 1) = 0
    BY <1>2, <1>5, XorFacts
  <2> QED BY <2>2, <2>3
<1>7. IsSolution <=> XorIsZero(Leaves(K, 1), K + 1)
  <2>1. \A s \in 0..K : \A i \in Nodes(s) : Sound(s, i)
    BY <1>3, <1>4 DEF Merging
  <2>2. IsInjective(Leaves(K, 1))
    BY <1>5, <2>1 DEF Sound
  <2>3. \A s \in 1..K : \A i \in 1..2^(K - s) : GoodNode(s, i)
    <3> TAKE s \in 1..K
    <3>1. s \in 0..K /\ s > 0
      BY Sizes
    <3> QED BY <2>1, <3>1 DEF Nodes, Sound
  <2> QED BY <2>2, <2>3 DEF IsSolution
<1>8. IsSolution' <=> IsSolution
  BY <1>1, SameTree
<1>9. AcceptsSolutions'
  <2>1. accepted' <=> IsSolution
    BY <1>1, <1>4, <1>6, <1>7
  <2> QED BY <1>1, <1>2, <1>8, <2>1 DEF AcceptsSolutions
<1> QED BY <1>1, <1>9 DEF EquihashInv

\* The invariant is about the variables of Equihash only.
LEMMA StutterEquihash == EquihashInv /\ UNCHANGED equihashVars => EquihashInv'
<1> SUFFICES ASSUME EquihashInv, UNCHANGED equihashVars PROVE EquihashInv'
  OBVIOUS
<1>1. UNCHANGED <<header, soln, hash, phase, read, acc, indices, X, Xc, accepted>>
  BY DEF equihashVars, inputVars
<1>2. /\ \A r, j : Row(r, j)' = Row(r, j) /\ (Sound(r, j)' <=> Sound(r, j))
      /\ IsSolution' <=> IsSolution
      /\ \A n : IndexOf(n)' = IndexOf(n)
  BY <1>1, SameTree
<1>3. Accumulated' <=> Accumulated
  BY <1>1 DEF Accumulated, IndexOf, Bit
<1>4. Ready' <=> Ready
  BY <1>1, <1>2 DEF Ready
<1>5. \A r, m : Merging(r, m)' <=> Merging(r, m)
  BY <1>1, <1>2 DEF Merging, Nodes
<1>6. AcceptsSolutions' <=> AcceptsSolutions
  BY <1>1, <1>2 DEF AcceptsSolutions
<1> QED BY <1>1, <1>3, <1>4, <1>5, <1>6 DEF EquihashInv

\* Every step of IsValidSolution preserves the invariant.
LEMMA StepEquihashInv == EquihashInv /\ [IsValidSolution]_equihashVars => EquihashInv'
BY CheckSizeStep, ExpandArrayStep, MakeRowsStep, MergePairStep, NextLevelStep, FinishStep,
   StutterEquihash DEF IsValidSolution

\* EquihashInv is inductive.
THEOREM EquihashInvariant == EquihashSpec => []EquihashInv
BY InitEquihashInv, StepEquihashInv, PTL DEF EquihashSpec

\* For every K, every width of the bytes, of the indices and of the accumulator that satisfy
\* the assertions of ExpandArray, and every solution: what ExpandArray unpacks are the
\* consecutive groups of BitLen bits.
THEOREM UnpackingIsExact == EquihashSpec => []UnpacksBits
<1>1. EquihashInv => UnpacksBits
  BY DEF EquihashInv, UnpacksBits, Ready
<1> QED BY <1>1, EquihashInvariant, PTL

\* For every depth K of the tree, every solution and every hash: IsValidSolution returns true
\* exactly for the solutions of the definition of Equihash.
THEOREM AcceptsExactlySolutions == EquihashSpec => []AcceptsSolutions
<1>1. EquihashInv => AcceptsSolutions
  BY DEF EquihashInv
<1> QED BY <1>1, EquihashInvariant, PTL
=============================================================================
