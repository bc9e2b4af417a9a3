----------------------------- MODULE JobsProofs -----------------------------
(***************************************************************************)
(* Proofs about Jobs, for any number of clients, blocks and active jobs.   *)
(*                                                                         *)
(* NoJobOutlivesItsBlock is inductive only together with ActiveJobs (the   *)
(* current job, whose height UpdateJob compares, is the last active one)   *)
(* and with two facts about the job objects: every job that is referred to *)
(* exists, and the id UpdateJob will give out is not referred to, so that  *)
(* the new job replaces none of the active ones.                           *)
(***************************************************************************)
EXTENDS Jobs, SequenceTheorems, TLAPS

Job == [tip : Tips, clean : BOOLEAN]

\* Every job referred to exists.
Exists == \A i \in InUse : i = NoJob \/ (i \in Ids /\ jobs[i] \in Job)

\* The next id is not referred to while UpdateJob waits for the daemon.
Fresh == asked => NextJobId \notin InUse

IInv ==
  /\ TypeOK /\ Exists /\ Fresh
  /\ ActiveJobs /\ NoJobOutlivesItsBlock /\ CleanIsFirst

USE DEF Job

-----------------------------------------------------------------------------
(***************************************************************************)
(* Lemmas about the list of active jobs                                    *)
(***************************************************************************)

\* RemoveAt(0) in a loop leaves a suffix with room for one more job.
LEMMA TrimmedIsSuffix ==
  ASSUME NEW js \in Seq(Ids)
  PROVE  \E off \in Nat :
           /\ Trimmed(js) \in Seq(Ids)
           /\ Len(Trimmed(js)) \in Nat
           /\ Len(Trimmed(js)) + 1 <= MaxActiveJobs
           /\ Len(js) = Len(Trimmed(js)) + off
           /\ \A i \in 1..Len(Trimmed(js)) : Trimmed(js)[i] = js[i + off]
<1>1. Len(js) \in Nat /\ MaxActiveJobs \in Nat \ {0}
  BY LenProperties, JobsAssumption
<1>2. CASE Len(js) > MaxActiveJobs - 1
  <2> DEFINE m == Len(js) - MaxActiveJobs + 2
             t == SubSeq(js, m, Len(js))
  <2>1. Trimmed(js) = t
    BY <1>2 DEF Trimmed
  <2>2. m \in Int /\ Len(js) \in Int /\ m >= 1 /\ m - 1 \in Nat
    BY <1>1, <1>2
  <2>3. \A i \in m..Len(js) : js[i] \in Ids
    BY <1>1, <2>2, ElementOfSeq
  <2> HIDE DEF m
  <2>4. /\ t \in Seq(Ids)
        /\ Len(t) = IF m <= Len(js) THEN Len(js) - m + 1 ELSE 0
        /\ \A i \in 1..(Len(js) - m + 1) : t[i] = js[m + i - 1]
    BY <2>2, <2>3, SubSeqProperties
  <2>5. m <= Len(js) + 1
    BY <1>1 DEF m
  <2>6. Len(t) = Len(js) - m + 1
    BY <2>2, <2>4, <2>5, <1>1
  <2>7. /\ Len(t) \in Nat /\ Len(t) + 1 <= MaxActiveJobs
        /\ Len(js) = Len(t) + (m - 1)
    BY <1>1, <2>2, <2>5, <2>6 DEF m
  <2>8. \A i \in 1..Len(t) : t[i] = js[i + (m - 1)]
    <3> TAKE i \in 1..Len(t)
    <3>1. t[i] = js[m + i - 1]
      BY <2>4, <2>6
    <3>2. m + i - 1 = i + (m - 1)
      BY <2>2, <2>7
    <3> QED BY <3>1, <3>2
  <2> QED
    BY <2>1, <2>2, <2>4, <2>7, <2>8
<1>3. CASE ~(Len(js) > MaxActiveJobs - 1)
  <2>1. Trimmed(js) = js
    BY <1>3 DEF Trimmed
  <2>2. \A i \in 1..Len(js) : js[i] = js[i + 0]
    BY <1>1
  <2> QED
    BY <1>1, <1>3, <2>1, <2>2
<1> QED
  BY <1>2, <1>3

\* What stays active beside a new job: nothing after a new block, else a suffix.
LEMMA KeptIsSuffix ==
  ASSUME validJobs \in Seq(Ids)
  PROVE  \E off \in Nat :
           /\ Kept \in Seq(Ids)
           /\ Len(Kept) \in Nat
           /\ Len(Kept) + 1 <= MaxActiveJobs
           /\ IsNew => Kept = <<>>
           /\ ~IsNew => Len(validJobs) = Len(Kept) + off
           /\ \A i \in 1..Len(Kept) : ~IsNew /\ Kept[i] = validJobs[i + off]
<1>1. CASE IsNew
  <2>1. Kept = <<>> /\ Len(Kept) = 0
    BY <1>1 DEF Kept
  <2> QED
    BY <1>1, <2>1, JobsAssumption
<1>2. CASE ~IsNew
  <2>1. Kept = Trimmed(validJobs)
    BY <1>2 DEF Kept
  <2> QED
    BY <1>2, <2>1, TrimmedIsSuffix
<1> QED
  BY <1>1, <1>2

-----------------------------------------------------------------------------
(***************************************************************************)
(* The invariant is inductive                                              *)
(***************************************************************************)

\* Facts about the active jobs depend on the job objects and their list only.
JobInv == ActiveJobs /\ NoJobOutlivesItsBlock /\ CleanIsFirst

LEMMA JobInvUnchanged ==
  ASSUME JobInv, UNCHANGED jobVars
  PROVE  JobInv'
BY DEF JobInv, jobVars, ActiveJobs, NoJobOutlivesItsBlock, CleanIsFirst, Height

\* A step that makes no job and refers to no other one keeps everything but types.
LEMMA FewerReferences ==
  ASSUME Exists, Fresh, JobInv, UNCHANGED jobVars, InUse' \subseteq InUse, asked' => asked
  PROVE  Exists' /\ Fresh' /\ JobInv'
<1>1. Exists'
  BY DEF Exists, jobVars
<1>2. Fresh'
  BY DEF Fresh, NextJobId, jobVars
<1> QED
  BY <1>1, <1>2, JobInvUnchanged

LEMMA ReferencesUnchanged ==
  ASSUME UNCHANGED <<jobVars, emitted, params, reading>>
  PROVE  InUse' \subseteq InUse
BY DEF InUse, jobVars

\* What a client is told has its type.
LEMMA NotifyType ==
  ASSUME told \in [Clients -> Told], Exists,
         NEW c \in Clients, NEW job \in InUse, Notify(c, job)
  PROVE  told' \in [Clients -> Told]
<1> DEFINE new == IF job = NoJob
                  THEN [job |-> NoJob, tip |-> told[c].tip, clean |-> told[c].clean]
                  ELSE [job |-> job, tip |-> jobs[job].tip, clean |-> jobs[job].clean]
<1>1. told[c] \in Told
  OBVIOUS
<1>2. told' = [told EXCEPT ![c] = new]
  BY DEF Notify
<1>3. CASE job = NoJob
  <2>1. new = [job |-> NoJob, tip |-> told[c].tip, clean |-> told[c].clean]
    BY <1>3
  <2>2. new \in Told
    BY <1>1, <2>1 DEF Told
  <2> HIDE DEF new
  <2> QED BY <1>2, <2>2
<1>4. CASE job # NoJob
  <2>1. job \in Ids /\ jobs[job] \in Job
    BY <1>4 DEF Exists
  <2>2. new = [job |-> job, tip |-> jobs[job].tip, clean |-> jobs[job].clean]
    BY <1>4
  <2>3. new \in Told
    BY <2>1, <2>2 DEF Told
  <2> HIDE DEF new
  <2> QED BY <1>2, <2>3
<1> QED
  BY <1>3, <1>4

\* The next id is one of the ids.
LEMMA NextIsId ==
  ASSUME JobType
  PROVE  NextJobId \in Ids /\ Wrapped(NextJobId) \in 0..(IdLimit - 1)
<1>1. counter \in 0..(IdLimit - 1) /\ IdLimit \in Nat \ {0}
  BY JobsAssumption DEF JobType
<1> QED
  BY <1>1 DEF NextJobId, Wrapped, Ids

LEMMA InitInv == Init => IInv
<1> SUFFICES ASSUME Init PROVE IInv
  OBVIOUS
<1>0. /\ asked \in BOOLEAN /\ force \in BOOLEAN /\ gate \in BOOLEAN /\ dead \in BOOLEAN
      /\ broadcasting \in BOOLEAN /\ broken \in BOOLEAN
  BY Zenon DEF Init
<1>1. ChainType /\ ClientType /\ SubscribeType
  BY JobsAssumption DEF Init, ChainType, ClientType, SubscribeType
<1>2. UpdateType /\ EmitType
  BY JobsAssumption, <1>0 DEF Init, UpdateType, EmitType
<1>3. JobType
  BY JobsAssumption DEF Init, JobType
<1>4. CastType
  BY JobsAssumption, <1>0 DEF Init, CastType
<1>5. told \in [Clients -> Told]
  <2>1. tip \in Tips
    BY DEF Init
  <2>2. [job |-> NoJob, tip |-> tip, clean |-> FALSE] \in Told
    BY <2>1 DEF Told
  <2> QED BY <2>2 DEF Init
<1>6. InUse \subseteq {NoJob}
  BY DEF Init, InUse
<1>7. Exists
  BY <1>6 DEF Exists
<1>8. Fresh
  BY DEF Init, Fresh
<1>9. ActiveJobs /\ NoJobOutlivesItsBlock /\ CleanIsFirst
  BY JobsAssumption DEF Init, ActiveJobs, NoJobOutlivesItsBlock, CleanIsFirst
<1> QED
  BY <1>1, <1>2, <1>3, <1>4, <1>5, <1>7, <1>8, <1>9 DEF IInv, TypeOK

-----------------------------------------------------------------------------
(***************************************************************************)
(* UpdateJob with a new job                                                *)
(***************************************************************************)

\* The list after the new job was added: a suffix of the old one, whose job objects
\* are as before, and the new job.
LEMMA MakeJobList ==
  ASSUME IInv, asked, answer \in Tips, MakeJob
  PROVE  /\ NextJobId \in Ids /\ NextJobId \notin InUse
         /\ jobs'[NextJobId] = [tip |-> answer, clean |-> IsNew]
         /\ jobs'[NextJobId] \in Job
         /\ \A i \in InUse \cap Ids : jobs'[i] = jobs[i]
         /\ JobType'
         /\ \E off \in Nat :
              /\ Len(Kept) \in Nat /\ Len(Kept) + 1 <= MaxActiveJobs
              /\ Len(validJobs') = Len(Kept) + 1
              /\ validJobs'[Len(Kept) + 1] = NextJobId
              /\ ~IsNew => Len(validJobs) = Len(Kept) + off
              /\ \A i \in 1..Len(Kept) :
                   /\ ~IsNew
                   /\ i + off \in 1..Len(validJobs)
                   /\ validJobs'[i] = validJobs[i + off]
                   /\ validJobs'[i] \in InUse \cap Ids
<1>1. JobType /\ Fresh
  BY DEF IInv, TypeOK
<1>2. NextJobId \in Ids /\ Wrapped(NextJobId) \in 0..(IdLimit - 1)
  BY <1>1, NextIsId
<1>3. NextJobId \notin InUse
  BY <1>1 DEF Fresh
<1>4. IsNew \in BOOLEAN
  BY Zenon DEF IsNew
<1>5. [tip |-> answer, clean |-> IsNew] \in Job
  BY <1>4
<1>6. /\ jobs'[NextJobId] = [tip |-> answer, clean |-> IsNew]
      /\ \A i \in InUse \cap Ids : jobs'[i] = jobs[i]
      /\ jobs' \in [Ids -> Job \cup {NoJob}]
  <2> DEFINE new == [tip |-> answer, clean |-> IsNew]
  <2>1. jobs' = [i \in Ids |-> IF i = NextJobId THEN new
                               ELSE IF i \in InUse THEN jobs[i] ELSE NoJob]
    BY DEF MakeJob
  <2>2. new \in Job
    BY <1>5
  <2>3. jobs \in [Ids -> Job \cup {NoJob}]
    BY <1>1 DEF JobType
  <2> HIDE DEF new, Job
  <2>4. /\ jobs'[NextJobId] = new
        /\ \A i \in InUse \cap Ids : jobs'[i] = jobs[i]
        /\ jobs' \in [Ids -> Job \cup {NoJob}]
    BY <2>1, <2>2, <2>3, <1>2, <1>3
  <2> QED BY <2>4 DEF new
<1>7. validJobs \in Seq(Ids) /\ Len(validJobs) \in Nat
  BY <1>1, LenProperties DEF JobType
<1>8. PICK off \in Nat :
           /\ Kept \in Seq(Ids)
           /\ Len(Kept) \in Nat
           /\ Len(Kept) + 1 <= MaxActiveJobs
           /\ IsNew => Kept = <<>>
           /\ ~IsNew => Len(validJobs) = Len(Kept) + off
           /\ \A i \in 1..Len(Kept) : ~IsNew /\ Kept[i] = validJobs[i + off]
  BY <1>7, KeptIsSuffix
<1>9. /\ validJobs' \in Seq(Ids)
      /\ Len(validJobs') = Len(Kept) + 1
      /\ \A i \in 1..Len(Kept) : validJobs'[i] = Kept[i]
      /\ validJobs'[Len(Kept) + 1] = NextJobId
  BY <1>2, <1>8, AppendProperties DEF MakeJob
<1>10. ASSUME NEW i \in 1..Len(Kept)
       PROVE  /\ ~IsNew
              /\ i + off \in 1..Len(validJobs)
              /\ validJobs'[i] = validJobs[i + off]
              /\ validJobs'[i] \in InUse \cap Ids
  <2>1. ~IsNew /\ validJobs'[i] = validJobs[i + off]
    BY <1>8, <1>9
  <2>2. i + off \in 1..Len(validJobs)
    BY <1>7, <1>8, <2>1
  <2>3. validJobs[i + off] \in Ids
    BY <1>7, <2>2, ElementOfSeq
  <2>4. validJobs[i + off] \in InUse
    BY <2>2 DEF InUse
  <2> QED BY <2>1, <2>2, <2>3, <2>4
<1>11. JobType'
  BY <1>2, <1>6, <1>9 DEF JobType, MakeJob
<1> QED
  BY <1>2, <1>3, <1>5, <1>6, <1>8, <1>9, <1>10, <1>11

LEMMA MakeJobInv ==
  ASSUME IInv, asked, answer \in Tips, MakeJob
  PROVE  JobInv'
<1>1. PICK off \in Nat :
              /\ Len(Kept) \in Nat /\ Len(Kept) + 1 <= MaxActiveJobs
              /\ Len(validJobs') = Len(Kept) + 1
              /\ validJobs'[Len(Kept) + 1] = NextJobId
              /\ ~IsNew => Len(validJobs) = Len(Kept) + off
              /\ \A i \in 1..Len(Kept) :
                   /\ ~IsNew
                   /\ i + off \in 1..Len(validJobs)
                   /\ validJobs'[i] = validJobs[i + off]
                   /\ validJobs'[i] \in InUse \cap Ids
  BY MakeJobList
<1> DEFINE L == Len(Kept)
           n == NextJobId
<1>2. /\ n \in Ids /\ n \notin InUse
      /\ jobs'[n] = [tip |-> answer, clean |-> IsNew]
      /\ \A i \in InUse \cap Ids : jobs'[i] = jobs[i]
  BY MakeJobList
<1>3. currentJob' = n /\ n # NoJob /\ Len(validJobs) \in Nat
  BY <1>2, JobsAssumption, LenProperties DEF MakeJob, IInv, TypeOK, JobType
<1> HIDE DEF n
<1>4. ASSUME NEW i \in 1..L
      PROVE  /\ ~IsNew /\ i + off \in 1..Len(validJobs)
             /\ validJobs'[i] = validJobs[i + off]
             /\ validJobs'[i] # n
             /\ jobs'[validJobs'[i]] = jobs[validJobs[i + off]]
             /\ jobs[validJobs[i + off]] \in Job
             /\ validJobs[i + off] # NoJob
  <2>1. /\ ~IsNew /\ i + off \in 1..Len(validJobs)
        /\ validJobs'[i] = validJobs[i + off] /\ validJobs'[i] \in InUse \cap Ids
    BY <1>1
  <2>2. validJobs[i + off] # NoJob
    BY <2>1, JobsAssumption
  <2>3. jobs[validJobs[i + off]] \in Job
    BY <2>1, <2>2 DEF IInv, Exists
  <2> QED BY <1>2, <2>1, <2>2, <2>3
<1> HIDE DEF L
<1>5. L \in Nat /\ L + 1 <= MaxActiveJobs /\ Len(validJobs') = L + 1
      /\ validJobs'[L + 1] = n
  BY <1>1 DEF L, n
<1>6. ActiveJobs'
  <2>1. Len(validJobs') <= MaxActiveJobs
    BY <1>5
  <2>2. currentJob' # NoJob /\ validJobs' # <<>>
        /\ validJobs'[Len(validJobs')] = currentJob'
    BY <1>3, <1>5
  <2>3. ASSUME NEW i \in 1..Len(validJobs'), NEW j \in 1..Len(validJobs'),
               validJobs'[i] = validJobs'[j]
        PROVE  i = j
    <3>1. CASE i \in 1..L /\ j \in 1..L
      <4>1. i + off = j + off
        BY <1>4, <3>1, <2>3 DEF IInv, ActiveJobs
      <4> QED BY <4>1, <3>1
    <3>2. CASE i = L + 1 /\ j \in 1..L
      BY <1>4, <1>5, <3>2, <2>3
    <3>3. CASE j = L + 1 /\ i \in 1..L
      BY <1>4, <1>5, <3>3, <2>3
    <3>4. CASE i = L + 1 /\ j = L + 1
      BY <3>4
    <3> QED BY <1>5, <3>1, <3>2, <3>3, <3>4
  <2> QED BY <2>1, <2>2, <2>3 DEF ActiveJobs
<1>7. NoJobOutlivesItsBlock'
  <2> SUFFICES ASSUME NEW i \in 1..(L + 1), NEW j \in 1..(L + 1), i < j
               PROVE  Height(jobs'[validJobs'[i]].tip) >= Height(jobs'[validJobs'[j]].tip)
    BY <1>5 DEF NoJobOutlivesItsBlock, Height
  <2>1. i \in 1..L
    BY <1>5
  <2>2. CASE j \in 1..L
    <3>1. i + off < j + off
      BY <2>1, <2>2
    <3>2. Height(jobs[validJobs[i + off]].tip) >= Height(jobs[validJobs[j + off]].tip)
      BY <3>1, <1>4, <2>1, <2>2 DEF IInv, NoJobOutlivesItsBlock
    <3> QED BY <3>2, <1>4, <2>1, <2>2
  <2>3. CASE j = L + 1
    <3> DEFINE h(k) == Height(jobs[validJobs[k]].tip)
               last == Len(validJobs)
    <3>1. jobs'[validJobs'[j]].tip = answer
      BY <1>2, <1>5, <2>3
    <3>2. currentJob # NoJob /\ validJobs[last] = currentJob
      BY <1>4, <2>1 DEF IInv, ActiveJobs
    <3>3. Height(answer) <= h(last)
      <4>1. currentJob \in InUse
        BY DEF InUse
      <4>2. jobs[currentJob] \in Job
        BY <3>2, <4>1 DEF IInv, Exists
      <4>3. Height(answer) \in Int /\ Height(jobs[currentJob].tip) \in Int
        BY <4>2, JobsAssumption DEF Height, Tips
      <4>4. ~(Height(answer) > Height(jobs[currentJob].tip))
        BY <1>4, <2>1, <3>2 DEF IsNew
      <4> QED BY <3>2, <4>3, <4>4
    <3>4. i + off \in 1..last /\ last \in 1..last
      BY <1>3, <1>4, <2>1
    <3>5. h(i + off) >= h(last)
      <4>1. CASE i + off = last
        <5>1. h(last) \in Int
          BY <1>4, <2>1, <4>1, JobsAssumption DEF Height, Tips
        <5> HIDE DEF h
        <5> QED BY <4>1, <5>1
      <4>2. CASE i + off < last
        BY <3>4, <4>2 DEF IInv, NoJobOutlivesItsBlock
      <4> QED BY <1>3, <3>4, <4>1, <4>2
    <3>6. h(i + off) \in Int /\ Height(answer) \in Int /\ h(last) \in Int
      <4>1. h(i + off) \in Int /\ Height(answer) \in Int
        BY <1>4, <2>1, JobsAssumption DEF Height, Tips
      <4>2. jobs[currentJob] \in Job
        BY <3>2 DEF IInv, Exists, InUse
      <4>3. h(last) \in Int
        BY <4>2, <3>2, JobsAssumption DEF Height, Tips
      <4> QED BY <4>1, <4>3
    <3>7. Height(jobs'[validJobs'[i]].tip) = h(i + off)
      BY <1>4, <2>1
    <3>8. Height(jobs'[validJobs'[j]].tip) = Height(answer)
      BY <3>1
    <3> HIDE DEF h, last
    <3> QED BY <3>3, <3>5, <3>6, <3>7, <3>8
  <2> QED BY <1>5, <2>2, <2>3
<1>8. CleanIsFirst'
  <2> SUFFICES ASSUME NEW i \in 2..(L + 1)
               PROVE  ~jobs'[validJobs'[i]].clean
    BY <1>5 DEF CleanIsFirst
  <2>1. CASE i \in 1..L
    <3>1. i + off \in 2..Len(validJobs)
      BY <1>3, <1>4, <2>1
    <3> QED BY <3>1, <1>4, <2>1 DEF IInv, CleanIsFirst
  <2>2. CASE i = L + 1
    <3>1. 1 \in 1..L
      BY <1>5, <2>2
    <3>2. ~IsNew
      BY <1>4, <3>1
    <3>3. jobs'[validJobs'[i]].clean = IsNew
      BY <1>2, <1>5, <2>2
    <3> QED BY <3>2, <3>3
  <2> QED BY <1>5, <2>1, <2>2
<1> QED
  BY <1>6, <1>7, <1>8 DEF JobInv

-----------------------------------------------------------------------------
(***************************************************************************)
(* One lemma per group of actions                                          *)
(***************************************************************************)

LEMMA ChainMovesInv == IInv /\ ChainMoves => IInv'
<1> SUFFICES ASSUME IInv, ChainMoves PROVE IInv'
  OBVIOUS
<1>1. ChainType'
  BY JobsAssumption DEF IInv, TypeOK, ChainType, ChainMoves
<1>2. UpdateType' /\ JobType' /\ EmitType' /\ CastType' /\ ClientType' /\ SubscribeType'
  BY DEF IInv, TypeOK, UpdateType, JobType, EmitType, CastType, ClientType, SubscribeType,
         ChainMoves, updateVars, jobVars, castVars, clientVars, subVars
<1>3. told' \in [Clients -> Told]
  BY DEF IInv, TypeOK, ChainMoves
<1>4. InUse' \subseteq InUse
  BY ReferencesUnchanged DEF ChainMoves, castVars, clientVars, subVars
<1>5. Exists' /\ Fresh' /\ JobInv'
  BY <1>4, FewerReferences DEF IInv, JobInv, ChainMoves, updateVars
<1> QED
  BY <1>1, <1>2, <1>3, <1>5 DEF IInv, TypeOK, JobInv

LEMMA AskInv ==
  ASSUME IInv, Ready, asked', force' \in BOOLEAN, answer' \in Tips \cup {Failed},
         asked' \in BOOLEAN, errors' \in 0..MaxErrors,
         UNCHANGED <<chainVars, jobVars, emitted, gate, dead, castVars, clientVars, told>>
  PROVE  IInv'
<1>1. UpdateType'
  BY DEF UpdateType
<1>2. ChainType' /\ JobType' /\ EmitType' /\ CastType' /\ ClientType' /\ SubscribeType'
  BY DEF IInv, TypeOK, ChainType, JobType, EmitType, CastType, ClientType, SubscribeType,
         chainVars, jobVars, castVars, clientVars, subVars
<1>3. told' \in [Clients -> Told]
  BY DEF IInv, TypeOK
<1>4. InUse' = InUse /\ NextJobId' = NextJobId
  BY DEF InUse, NextJobId, jobVars, castVars, clientVars, subVars
<1>5. Fresh'
  BY <1>4 DEF Ready, Fresh
<1>6. Exists'
  BY <1>4 DEF IInv, Exists, jobVars
<1>7. JobInv'
  BY JobInvUnchanged DEF IInv, JobInv
<1> QED
  BY <1>1, <1>2, <1>3, <1>5, <1>6, <1>7 DEF IInv, TypeOK, JobInv

LEMMA AskAnswersInv == ASSUME NEW forced \in BOOLEAN, IInv, Ask(forced) PROVE IInv'
<1>1. asked' /\ asked' \in BOOLEAN /\ force' \in BOOLEAN
  BY Zenon DEF Ask
<1>2. answer' \in Tips \cup {Failed} /\ errors' \in 0..MaxErrors
  BY DEF Ask, IInv, TypeOK, ChainType, UpdateType
<1> QED
  BY <1>1, <1>2, AskInv DEF Ask

LEMMA AskFailsInv == ASSUME NEW forced \in BOOLEAN, IInv, AskFails(forced) PROVE IInv'
<1>1. asked' /\ asked' \in BOOLEAN /\ force' \in BOOLEAN
  BY Zenon DEF AskFails
<1>2. answer' \in Tips \cup {Failed} /\ errors' \in 0..MaxErrors
  BY JobsAssumption DEF AskFails, IInv, TypeOK, UpdateType
<1> QED
  BY <1>1, <1>2, AskInv DEF AskFails

\* UpdateJob has its answer.
LEMMA AnsweredType ==
  ASSUME UpdateType, Answered, UNCHANGED errors
  PROVE  UpdateType' /\ ~asked'
<1>1. asked' \in BOOLEAN /\ force' \in BOOLEAN /\ ~asked'
  BY Zenon DEF Answered
<1> QED BY <1>1 DEF UpdateType, Answered

LEMMA EmitIsTyped ==
  ASSUME EmitType, NEW job \in Ids \cup {NoJob}, Emit(job)
  PROVE  /\ EmitType'
         /\ {emitted'[i] : i \in 1..Len(emitted')}
              \subseteq {emitted[i] : i \in 1..Len(emitted)} \cup {job}
<1>1. emitted \in Seq(Ids \cup {NoJob}) /\ Len(emitted) \in Nat
  BY LenProperties DEF EmitType
<1>2. gate' \in BOOLEAN
  BY Zenon DEF Emit
<1>3. /\ emitted' \in Seq(Ids \cup {NoJob})
      /\ Len(emitted') = Len(emitted) + 1
      /\ \A i \in 1..Len(emitted) : emitted'[i] = emitted[i]
      /\ emitted'[Len(emitted) + 1] = job
  BY <1>1, AppendProperties DEF Emit
<1>4. ASSUME NEW i \in 1..Len(emitted')
      PROVE  emitted'[i] = job \/ \E k \in 1..Len(emitted) : emitted'[i] = emitted[k]
  <2>1. i \in 1..Len(emitted) \/ i = Len(emitted) + 1
    BY <1>1, <1>3
  <2> QED BY <1>3, <2>1
<1> QED
  BY <1>2, <1>3, <1>4 DEF EmitType

LEMMA UpdateJobInv == IInv /\ UpdateJob => IInv'
<1> SUFFICES ASSUME IInv, UpdateJob PROVE IInv'
  OBVIOUS
<1>1. UpdateType' /\ ~asked'
  BY AnsweredType DEF IInv, TypeOK, UpdateJob
<1>2. ChainType' /\ CastType' /\ ClientType' /\ SubscribeType'
  BY DEF IInv, TypeOK, ChainType, CastType, ClientType, SubscribeType,
         UpdateJob, chainVars, castVars, clientVars, subVars
<1>3. told' \in [Clients -> Told]
  BY DEF IInv, TypeOK, UpdateJob
<1>4. Fresh'
  BY <1>1 DEF Fresh
<1>5. CASE MakeJob /\ Emit(NextJobId)
  <2>1. asked /\ answer \in Tips
    BY DEF IInv, TypeOK, UpdateType, UpdateJob
  <2>2. /\ NextJobId \in Ids
        /\ jobs'[NextJobId] \in Job
        /\ \A i \in InUse \cap Ids : jobs'[i] = jobs[i]
        /\ JobType'
    BY <1>5, <2>1, MakeJobList
  <2>3. JobInv'
    BY <1>5, <2>1, MakeJobInv
  <2>4. /\ EmitType'
        /\ {emitted'[i] : i \in 1..Len(emitted')}
              \subseteq {emitted[i] : i \in 1..Len(emitted)} \cup {NextJobId}
    BY <1>5, <2>2, EmitIsTyped DEF IInv, TypeOK
  <2>5. {validJobs'[i] : i \in 1..Len(validJobs')} \subseteq InUse \cup {NextJobId}
    <3>1. PICK off \in Nat :
              /\ Len(Kept) \in Nat
              /\ Len(validJobs') = Len(Kept) + 1
              /\ validJobs'[Len(Kept) + 1] = NextJobId
              /\ \A i \in 1..Len(Kept) : validJobs'[i] \in InUse
      BY <1>5, <2>1, MakeJobList
    <3>2. ASSUME NEW i \in 1..Len(validJobs')
          PROVE  validJobs'[i] \in InUse \cup {NextJobId}
      <4>1. i \in 1..Len(Kept) \/ i = Len(Kept) + 1
        BY <3>1
      <4> QED BY <3>1, <4>1
    <3> QED BY <3>2
  <2>6. currentJob' = NextJobId /\ params' = params /\ reading' = reading
    BY <1>5 DEF MakeJob, UpdateJob, castVars, clientVars, subVars
  <2>7. InUse' \subseteq InUse \cup {NextJobId}
    <3>1. /\ {emitted[i] : i \in 1..Len(emitted)} \subseteq InUse
          /\ params \in InUse
          /\ {reading[c] : c \in Clients} \subseteq InUse
      BY DEF InUse
    <3>2. {emitted'[i] : i \in 1..Len(emitted')} \subseteq InUse \cup {NextJobId}
      BY <2>4, <3>1
    <3>3. currentJob' \in InUse \cup {NextJobId} /\ params' \in InUse
          /\ {reading'[c] : c \in Clients} \subseteq InUse
      BY <2>6, <3>1
    <3>4. InUse' = {validJobs'[i] : i \in 1..Len(validJobs')}
                   \cup {emitted'[i] : i \in 1..Len(emitted')}
                   \cup {currentJob', params'} \cup {reading'[c] : c \in Clients}
      BY DEF InUse
    <3> QED BY <2>5, <3>2, <3>3, <3>4
  <2>8. Exists'
    <3> SUFFICES ASSUME NEW i \in InUse', i # NoJob
                 PROVE  i \in Ids /\ jobs'[i] \in Job
      BY DEF Exists
    <3>1. CASE i = NextJobId
      BY <2>2, <3>1
    <3>2. CASE i \in InUse
      <4>1. i \in Ids /\ jobs[i] \in Job
        BY <3>2 DEF IInv, Exists
      <4> QED BY <2>2, <3>2, <4>1
    <3> QED BY <2>7, <3>1, <3>2
  <2> QED
    BY <1>1, <1>2, <1>3, <1>4, <2>2, <2>3, <2>4, <2>8 DEF IInv, TypeOK, JobInv
<1>6. CASE UNCHANGED <<jobVars, emitted, gate>>
  <2>1. JobType' /\ EmitType'
    BY <1>6 DEF IInv, TypeOK, JobType, EmitType, jobVars
  <2>2. InUse' \subseteq InUse
    BY <1>6, ReferencesUnchanged DEF UpdateJob, castVars, clientVars, subVars
  <2>3. Exists' /\ Fresh' /\ JobInv'
    BY <1>1, <1>6, <2>2, FewerReferences DEF IInv, JobInv
  <2> QED
    BY <1>1, <1>2, <1>3, <2>1, <2>3 DEF IInv, TypeOK, JobInv
<1> QED
  BY <1>5, <1>6 DEF UpdateJob

\* The clean flag of the current job is taken back, its block stays.
LEMMA FlagTakenBack ==
  ASSUME IInv, UNCHANGED <<validJobs, currentJob>>,
         jobs' = [i \in Ids |-> IF i = currentJob THEN [tip |-> jobs[i].tip, clean |-> FALSE]
                                                  ELSE jobs[i]]
  PROVE  /\ jobs' \in [Ids -> Job \cup {NoJob}]
         /\ \A i \in InUse \cap Ids : jobs'[i] \in Job /\ jobs'[i].tip = jobs[i].tip
                                      /\ (jobs'[i].clean => jobs[i].clean)
         /\ JobInv'
<1>1. jobs \in [Ids -> Job \cup {NoJob}] /\ validJobs \in Seq(Ids)
  BY DEF IInv, TypeOK, JobType
<1>2. ASSUME NEW i \in InUse \cap Ids
      PROVE  /\ jobs'[i] \in Job /\ jobs'[i].tip = jobs[i].tip
             /\ (jobs'[i].clean => jobs[i].clean)
  <2>1. jobs[i] \in Job
    BY JobsAssumption DEF IInv, Exists
  <2>2. CASE i = currentJob
    <3>1. jobs'[i] = [tip |-> jobs[i].tip, clean |-> FALSE]
      BY <2>2
    <3>2. jobs[i].tip \in Tips
      BY <2>1
    <3>3. [tip |-> jobs[i].tip, clean |-> FALSE] \in Job
      BY <3>2
    <3>4. jobs'[i] \in Job
      BY Zenon, <3>1, <3>3
    <3> QED BY <3>1, <3>4
  <2>3. CASE i # currentJob
    BY <2>1, <2>3
  <2> QED BY <2>2, <2>3
<1>3. jobs' \in [Ids -> Job \cup {NoJob}]
  <2>1. currentJob \in InUse
    BY DEF InUse
  <2>2. ASSUME NEW i \in Ids PROVE jobs'[i] \in Job \cup {NoJob}
    <3>1. CASE i = currentJob
      BY <1>2, <2>1, <3>1
    <3>2. CASE i # currentJob
      BY <1>1, <3>2
    <3> QED BY <3>1, <3>2
  <2> HIDE DEF Job
  <2> QED BY <2>2
<1>4. ASSUME NEW i \in 1..Len(validJobs) PROVE validJobs[i] \in InUse \cap Ids
  BY <1>1, ElementOfSeq DEF InUse
<1>5. ActiveJobs'
  BY DEF IInv, ActiveJobs
<1>6. NoJobOutlivesItsBlock'
  BY <1>2, <1>4 DEF IInv, NoJobOutlivesItsBlock, Height
<1>7. CleanIsFirst'
  <2> SUFFICES ASSUME NEW i \in 2..Len(validJobs) PROVE ~jobs'[validJobs[i]].clean
    BY DEF CleanIsFirst
  <2>1. i \in 1..Len(validJobs)
    BY <1>1, LenProperties
  <2>2. ~jobs[validJobs[i]].clean
    BY DEF IInv, CleanIsFirst
  <2> QED BY <1>2, <1>4, <2>1, <2>2
<1> QED
  BY <1>2, <1>3, <1>5, <1>6, <1>7 DEF JobInv

LEMMA UpdateJobFailsInv == IInv /\ UpdateJobFails => IInv'
<1> SUFFICES ASSUME IInv, UpdateJobFails PROVE IInv'
  OBVIOUS
<1>1. UpdateType' /\ ~asked'
  BY AnsweredType DEF IInv, TypeOK, UpdateJobFails
<1>2. ChainType' /\ CastType' /\ ClientType' /\ SubscribeType'
  BY DEF IInv, TypeOK, ChainType, CastType, ClientType, SubscribeType,
         UpdateJobFails, chainVars, castVars, clientVars, subVars
<1>3. told' \in [Clients -> Told]
  BY DEF IInv, TypeOK, UpdateJobFails
<1>4. /\ UNCHANGED <<counter, validJobs, currentJob, params, reading>>
  BY DEF UpdateJobFails, castVars, clientVars, subVars
<1>5. CASE /\ Emit(currentJob)
           /\ jobs' = [i \in Ids |-> IF i = currentJob
                                     THEN [tip |-> jobs[i].tip, clean |-> FALSE] ELSE jobs[i]]
  <2>1. /\ jobs' \in [Ids -> Job \cup {NoJob}]
        /\ \A i \in InUse \cap Ids : jobs'[i] \in Job
        /\ JobInv'
    BY <1>4, <1>5, FlagTakenBack
  <2>2. JobType'
    BY <1>4, <2>1 DEF IInv, TypeOK, JobType
  <2>3. currentJob \in Ids \cup {NoJob}
    BY DEF IInv, TypeOK, JobType
  <2>4. /\ EmitType'
        /\ {emitted'[i] : i \in 1..Len(emitted')}
              \subseteq {emitted[i] : i \in 1..Len(emitted)} \cup {currentJob}
    BY <1>5, <2>3, EmitIsTyped DEF IInv, TypeOK
  <2>5. InUse' \subseteq InUse
    BY <1>4, <2>4 DEF InUse
  <2>6. Exists'
    BY <2>1, <2>5 DEF IInv, Exists
  <2>7. Fresh'
    BY <1>1 DEF Fresh
  <2> QED
    BY <1>1, <1>2, <1>3, <2>1, <2>2, <2>4, <2>6, <2>7 DEF IInv, TypeOK, JobInv
<1>6. CASE UNCHANGED <<emitted, gate, jobs>>
  <2>1. UNCHANGED jobVars
    BY <1>4, <1>6 DEF jobVars
  <2>2. JobType' /\ EmitType'
    BY <1>6, <2>1 DEF IInv, TypeOK, JobType, EmitType, jobVars
  <2>3. InUse' \subseteq InUse
    BY <1>4, <1>6, <2>1, ReferencesUnchanged
  <2>4. Exists' /\ Fresh' /\ JobInv'
    BY <1>1, <2>1, <2>3, FewerReferences DEF IInv, JobInv
  <2> QED
    BY <1>1, <1>2, <1>3, <2>2, <2>4 DEF IInv, TypeOK, JobInv
<1> QED
  BY <1>5, <1>6 DEF UpdateJobFails

\* A step outside UpdateJob keeps the invariant if what it changes keeps its type and
\* it refers to no other job.
LEMMA OutsideUpdateJob ==
  ASSUME IInv, UNCHANGED <<chainVars, updateVars, jobVars>>, InUse' \subseteq InUse,
         EmitType', CastType', ClientType', SubscribeType', told' \in [Clients -> Told]
  PROVE  IInv'
<1>1. ChainType' /\ UpdateType' /\ JobType'
  BY DEF IInv, TypeOK, ChainType, UpdateType, JobType, chainVars, updateVars, jobVars
<1>2. Exists' /\ Fresh' /\ JobInv'
  BY FewerReferences DEF IInv, JobInv, updateVars
<1> QED
  BY <1>1, <1>2 DEF IInv, TypeOK, JobInv

LEMMA BeginBroadcastInv == IInv /\ BeginBroadcast => IInv'
<1> SUFFICES ASSUME IInv, BeginBroadcast PROVE IInv'
  OBVIOUS
<1>1. emitted \in Seq(Ids \cup {NoJob}) /\ emitted # <<>>
  BY DEF IInv, TypeOK, EmitType, BeginBroadcast
<1>2. /\ params' = emitted[1] /\ params' \in Ids \cup {NoJob}
      /\ emitted' \in Seq(Ids \cup {NoJob})
      /\ Len(emitted) \in Nat \ {0}
      /\ Len(emitted') = Len(emitted) - 1
      /\ \A i \in 1..Len(emitted') : emitted'[i] = emitted[i + 1]
  BY <1>1, HeadTailProperties, EmptySeq, LenProperties DEF BeginBroadcast
<1>3. broadcasting' \in BOOLEAN
  BY Zenon DEF BeginBroadcast
<1>4. EmitType' /\ CastType'
  BY <1>2, <1>3 DEF IInv, TypeOK, EmitType, CastType, ClientType, BeginBroadcast
<1>5. ClientType' /\ SubscribeType' /\ told' \in [Clients -> Told]
  BY DEF IInv, TypeOK, ClientType, SubscribeType, BeginBroadcast, clientVars, subVars
<1>6. InUse' \subseteq InUse
  <2>1. params' \in {emitted[i] : i \in 1..Len(emitted)}
    BY <1>2
  <2>2. ASSUME NEW i \in 1..Len(emitted')
        PROVE  \E k \in 1..Len(emitted) : emitted'[i] = emitted[k]
    <3>1. i + 1 \in 1..Len(emitted)
      BY <1>2
    <3> QED BY <1>2, <3>1
  <2>3. {emitted'[i] : i \in 1..Len(emitted')} \subseteq {emitted[i] : i \in 1..Len(emitted)}
    BY <2>2
  <2>4. validJobs' = validJobs /\ currentJob' = currentJob /\ reading' = reading
    BY DEF BeginBroadcast, jobVars, clientVars, subVars
  <2> QED BY <2>1, <2>3, <2>4 DEF InUse
<1> QED
  BY <1>4, <1>5, <1>6, OutsideUpdateJob DEF BeginBroadcast

LEMMA SendJobInv == ASSUME NEW c \in Clients, IInv, SendJob(c) PROVE IInv'
<1>1. EmitType' /\ CastType' /\ ClientType' /\ SubscribeType'
  BY DEF IInv, TypeOK, EmitType, CastType, ClientType, SubscribeType, SendJob, clientVars, subVars
<1>2. told' \in [Clients -> Told]
  <2>1. params \in InUse
    BY DEF InUse
  <2>2. CASE Notify(c, params)
    BY <2>1, <2>2, NotifyType DEF IInv, TypeOK
  <2>3. CASE UNCHANGED told
    BY <2>3 DEF IInv, TypeOK
  <2> QED BY <2>2, <2>3 DEF SendJob
<1>3. InUse' \subseteq InUse
  BY ReferencesUnchanged DEF SendJob, clientVars, subVars
<1> QED
  BY <1>1, <1>2, <1>3, OutsideUpdateJob DEF SendJob

LEMMA SendJobThrowsInv == ASSUME NEW c \in Clients, IInv, SendJobThrows(c) PROVE IInv'
<1>1. broken' \in BOOLEAN
  BY Zenon DEF SendJobThrows
<1>2. EmitType' /\ CastType' /\ SubscribeType'
  BY <1>1 DEF IInv, TypeOK, EmitType, CastType, SubscribeType, SendJobThrows, subVars
<1>3. ClientType'
  BY JobsAssumption DEF IInv, TypeOK, ClientType, SendJobThrows
<1>4. told' \in [Clients -> Told]
  BY DEF IInv, TypeOK, SendJobThrows
<1>5. InUse' \subseteq InUse
  BY ReferencesUnchanged DEF SendJobThrows, subVars
<1> QED
  BY <1>2, <1>3, <1>4, <1>5, OutsideUpdateJob DEF SendJobThrows

LEMMA BootZombieInv == ASSUME NEW c \in Clients, IInv, BootZombie(c) PROVE IInv'
<1>1. EmitType' /\ CastType' /\ SubscribeType' /\ ClientType'
  BY DEF IInv, TypeOK, EmitType, CastType, SubscribeType, ClientType, BootZombie, subVars
<1>2. told' \in [Clients -> Told]
  BY DEF IInv, TypeOK, BootZombie
<1>3. InUse' \subseteq InUse
  BY ReferencesUnchanged DEF BootZombie, subVars
<1> QED
  BY <1>1, <1>2, <1>3, OutsideUpdateJob DEF BootZombie

LEMMA EndBroadcastInv == IInv /\ EndBroadcast => IInv'
<1> SUFFICES ASSUME IInv, EndBroadcast PROVE IInv'
  OBVIOUS
<1>1. broadcasting' \in BOOLEAN /\ broken' \in BOOLEAN
  BY Zenon DEF EndBroadcast
<1>2. dead' \in BOOLEAN
  BY Zenon DEF IInv, TypeOK, CastType, EndBroadcast
<1>3. EmitType' /\ CastType'
  BY <1>1, <1>2 DEF IInv, TypeOK, EmitType, CastType, EndBroadcast
<1>4. ClientType' /\ SubscribeType' /\ told' \in [Clients -> Told]
  BY DEF IInv, TypeOK, ClientType, SubscribeType, EndBroadcast, clientVars, subVars
<1>5. InUse' \subseteq InUse
  BY ReferencesUnchanged DEF EndBroadcast, clientVars, subVars
<1> QED
  BY <1>3, <1>4, <1>5, OutsideUpdateJob DEF EndBroadcast

LEMMA SessionInv == ASSUME NEW c \in Clients, IInv, Session(c) PROVE IInv'
<1>1. ASSUME Connect(c) \/ Subscribe(c) \/ Authorize(c) \/ AuthorizeFails(c) \/ Disconnect(c) PROVE IInv'
  <2>1. EmitType' /\ CastType' /\ told' \in [Clients -> Told]
    BY <1>1 DEF IInv, TypeOK, EmitType, CastType, Connect, Subscribe, Authorize,
                AuthorizeFails, Disconnect, castVars
  <2>2. ClientType' /\ SubscribeType'
    BY <1>1 DEF IInv, TypeOK, ClientType, SubscribeType, Connect, Subscribe, Authorize,
                AuthorizeFails, Disconnect, subVars
  <2>3. InUse' \subseteq InUse
    BY <1>1, ReferencesUnchanged DEF Connect, Subscribe, Authorize, AuthorizeFails,
                                   Disconnect, castVars, subVars
  <2> QED
    BY <1>1, <2>1, <2>2, <2>3, OutsideUpdateJob
       DEF Connect, Subscribe, Authorize, AuthorizeFails, Disconnect
<1>2. ASSUME SubscribeRead(c) PROVE IInv'
  <2>1. EmitType' /\ CastType' /\ ClientType' /\ told' \in [Clients -> Told]
    BY <1>2 DEF IInv, TypeOK, EmitType, CastType, ClientType, SubscribeRead, castVars
  <2>2. SubscribeType'
    BY <1>2 DEF IInv, TypeOK, SubscribeType, CastType, SubscribeRead
  <2>3. \A d \in Clients : reading'[d] = params \/ reading'[d] = reading[d]
    BY <1>2 DEF IInv, TypeOK, SubscribeType, SubscribeRead
  <2>4. InUse' \subseteq InUse
    BY <1>2, <2>3 DEF InUse, SubscribeRead, jobVars, castVars
  <2> QED
    BY <1>2, <2>1, <2>2, <2>4, OutsideUpdateJob DEF SubscribeRead
<1>3. ASSUME SubscribeSend(c) PROVE IInv'
  <2>1. EmitType' /\ CastType' /\ ClientType'
    BY <1>3 DEF IInv, TypeOK, EmitType, CastType, ClientType, SubscribeSend, castVars
  <2>2. SubscribeType'
    BY <1>3 DEF IInv, TypeOK, SubscribeType, SubscribeSend
  <2>3. told' \in [Clients -> Told]
    <3>1. reading[c] \in InUse
      BY DEF InUse
    <3> QED BY <1>3, <3>1, NotifyType DEF IInv, TypeOK, SubscribeSend
  <2>4. \A d \in Clients : reading'[d] = NoJob \/ reading'[d] = reading[d]
    BY <1>3 DEF IInv, TypeOK, SubscribeType, SubscribeSend
  <2>5. InUse' \subseteq InUse \cup {NoJob}
    BY <1>3, <2>4 DEF InUse, SubscribeSend, jobVars, castVars
  <2>6. ChainType' /\ UpdateType' /\ JobType'
    BY <1>3 DEF IInv, TypeOK, ChainType, UpdateType, JobType, SubscribeSend,
                chainVars, updateVars, jobVars
  <2>7. Exists'
    BY <1>3, <2>5 DEF IInv, Exists, SubscribeSend, jobVars
  <2>8. Fresh'
    <3>1. NextJobId' = NextJobId /\ (asked' => asked)
      BY <1>3 DEF NextJobId, SubscribeSend, jobVars, updateVars
    <3>2. NextJobId # NoJob
      BY NextIsId, JobsAssumption DEF IInv, TypeOK
    <3> QED BY <2>5, <3>1, <3>2 DEF IInv, Fresh
  <2>9. JobInv'
    BY <1>3, JobInvUnchanged DEF IInv, JobInv, SubscribeSend
  <2> QED
    BY <2>1, <2>2, <2>3, <2>6, <2>7, <2>8, <2>9 DEF IInv, TypeOK, JobInv
<1> QED
  BY <1>1, <1>2, <1>3 DEF Session

LEMMA NextInv == IInv /\ [Next]_vars => IInv'
<1> SUFFICES ASSUME IInv, [Next]_vars PROVE IInv'
  OBVIOUS
<1>1. CASE ChainMoves
  BY <1>1, ChainMovesInv
<1>2. CASE Poll \/ Refresh
  BY <1>2, AskAnswersInv DEF Poll, Refresh
<1>3. CASE UpdateJob
  BY <1>3, UpdateJobInv
<1>4. CASE UpdateJobFails
  BY <1>4, UpdateJobFailsInv
<1>5. CASE \E forced \in BOOLEAN : AskFails(forced)
  BY <1>5, AskFailsInv
<1>6. CASE BeginBroadcast
  BY <1>6, BeginBroadcastInv
<1>7. CASE EndBroadcast
  BY <1>7, EndBroadcastInv
<1>8. CASE \E c \in Clients : SendJob(c)
  BY <1>8, SendJobInv
<1>9. CASE \E c \in Clients : SendJobThrows(c) \/ BootZombie(c) \/ Session(c)
  BY <1>9, SendJobThrowsInv, BootZombieInv, SessionInv
<1>10. CASE UNCHANGED vars
  <2>1. UNCHANGED <<chainVars, updateVars, jobVars, emitted, gate, dead, castVars, clientVars,
                    told>>
    BY <1>10 DEF vars
  <2>2. InUse' \subseteq InUse
    BY <2>1, ReferencesUnchanged DEF castVars, clientVars, subVars
  <2>3. EmitType' /\ CastType' /\ ClientType' /\ SubscribeType' /\ told' \in [Clients -> Told]
    BY <2>1 DEF IInv, TypeOK, EmitType, CastType, ClientType, SubscribeType, castVars,
                clientVars, subVars
  <2> QED
    BY <2>1, <2>2, <2>3, OutsideUpdateJob
<1> QED
  BY <1>1, <1>2, <1>3, <1>4, <1>5, <1>6, <1>7, <1>8, <1>9, <1>10 DEF Next, Update, Broadcast

LEMMA Invariance == Spec => []IInv
BY InitInv, NextInv, PTL DEF Spec

-----------------------------------------------------------------------------
\* The pipelines, the jobs and the clients stay well typed; the job counter stays below
\* its limit (JobManagerBase.NextJobId).
THEOREM TypeCorrect == Spec => []TypeOK
<1>1. IInv => TypeOK
  BY DEF IInv
<1> QED BY <1>1, Invariance, PTL

\* For any number of active jobs, clients and blocks, the list GetJob searches stays
\* within its limit, ends with the current job and holds no id twice.
THEOREM ActiveJobsHold == Spec => []ActiveJobs
<1>1. IInv => ActiveJobs
  BY DEF IInv
<1> QED BY <1>1, Invariance, PTL

\* Whatever the daemons answer, and in whatever order polls, refreshes and failures come,
\* UpdateJob never leaves a job active beside a later job of a greater height.
THEOREM NoShareForOutgrownBlock == Spec => []NoJobOutlivesItsBlock
<1>1. IInv => NoJobOutlivesItsBlock
  BY DEF IInv
<1> QED BY <1>1, Invariance, PTL

\* The parameters two pipelines share never tell miners to drop their work for a job
\* that is not the first of its block.
THEOREM CleanOnlyFirst == Spec => []CleanIsFirst
<1>1. IInv => CleanIsFirst
  BY DEF IInv
<1> QED BY <1>1, Invariance, PTL
=============================================================================
