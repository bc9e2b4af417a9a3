-------------------------- MODULE RecordingProofs ---------------------------
(***************************************************************************)
(* Proofs about ShareRecorder, for any number of shares, batch size,       *)
(* retries, outages and losses, and, at the end, about ShareRecovery, the  *)
(* command that imports the recorder's file.                               *)
(*                                                                         *)
(* The strengthening says where a share can be.  It is in one of queue,    *)
(* buffer and batch at most, and once there (OnePlace), it is not in the   *)
(* recovery file while it is (NotFiled), and its rows are then only those  *)
(* of commits whose acknowledgement was lost (OnlyUnacked).  A batch is    *)
(* given up only when it is done with (IdleIsEmpty).                       *)
(***************************************************************************)
EXTENDS ShareRecorder, ShareRecovery, SequenceTheorems, FiniteSetTheorems, TLAPS

OnePlace ==
  /\ IsInjective(queue) /\ IsInjective(buffer) /\ IsInjective(batch)
  /\ ToSet(queue) \cap ToSet(buffer) = {}
  /\ ToSet(queue) \cap ToSet(batch) = {}
  /\ ToSet(buffer) \cap ToSet(batch) = {}

\* Only published shares get anywhere.
Arrived == Pending \cup ToSet(file) \subseteq published

NotFiled == ToSet(file) \cap Pending = {}

OnlyUnacked ==
  \A s \in Shares : s \in Pending \/ s \notin published => rows[s] <= unacked[s]

IdleIsEmpty == pc = "idle" => batch = <<>>

IInv ==
  /\ TypeOK
  /\ OnePlace /\ Arrived /\ NotFiled /\ OnlyUnacked /\ IdleIsEmpty
  /\ NoSilentLoss /\ NoDuplicates /\ BlockWithShare

-----------------------------------------------------------------------------
(***************************************************************************)
(* Lemmas about sequences without repetition                               *)
(***************************************************************************)
LEMMA ToSetType ==
  ASSUME NEW S, NEW q \in Seq(S)
  PROVE  ToSet(q) \subseteq S /\ DOMAIN q = 1..Len(q) /\ Len(q) \in Nat
BY LenProperties, ElementOfSeq DEF ToSet

LEMMA EmptyToSet == ToSet(<<>>) = {} /\ IsInjective(<<>>)
<1>1. DOMAIN <<>> = {}
  OBVIOUS
<1> QED
  BY <1>1 DEF ToSet, IsInjective

\* What is appended is added.
LEMMA AppendToSet ==
  ASSUME NEW S, NEW q \in Seq(S), NEW x \in S
  PROVE  /\ Append(q, x) \in Seq(S) /\ Len(Append(q, x)) = Len(q) + 1
         /\ ToSet(Append(q, x)) = ToSet(q) \cup {x}
         /\ IsInjective(q) /\ x \notin ToSet(q) => IsInjective(Append(q, x))
<1>1. /\ DOMAIN q = 1..Len(q) /\ Len(q) \in Nat
      /\ Append(q, x) \in Seq(S) /\ Len(Append(q, x)) = Len(q) + 1
      /\ DOMAIN Append(q, x) = 1..(Len(q) + 1)
      /\ \A i \in 1..Len(q) : Append(q, x)[i] = q[i]
      /\ Append(q, x)[Len(q) + 1] = x
  BY ToSetType
<1> QED
  BY <1>1 DEF ToSet, IsInjective

\* Head and tail share nothing.
LEMMA TailToSet ==
  ASSUME NEW S, NEW q \in Seq(S), q # <<>>
  PROVE  /\ Tail(q) \in Seq(S) /\ Head(q) \in S
         /\ ToSet(q) = ToSet(Tail(q)) \cup {Head(q)}
         /\ IsInjective(q) => IsInjective(Tail(q)) /\ Head(q) \notin ToSet(Tail(q))
<1>1. /\ DOMAIN q = 1..Len(q) /\ Len(q) \in Nat \ {0} /\ Head(q) = q[1]
      /\ Tail(q) \in Seq(S) /\ Head(q) \in S
      /\ Len(Tail(q)) = Len(q) - 1
      /\ \A i \in 1..(Len(q) - 1) : Tail(q)[i] = q[i + 1]
  BY ToSetType, EmptySeq, HeadTailProperties
<1>2. DOMAIN Tail(q) = 1..(Len(q) - 1)
  BY <1>1, ToSetType
<1>3. ToSet(Tail(q)) = {q[i + 1] : i \in 1..(Len(q) - 1)}
  BY <1>1, <1>2 DEF ToSet
<1>4. ASSUME NEW y \in ToSet(q)
      PROVE  y \in ToSet(Tail(q)) \cup {Head(q)}
  <2>1. PICK i \in 1..Len(q) : y = q[i]
    BY <1>1 DEF ToSet
  <2>2. CASE i = 1
    BY <2>1, <2>2, <1>1
  <2>3. CASE i # 1
    <3>1. i - 1 \in 1..(Len(q) - 1) /\ (i - 1) + 1 = i
      BY <2>3, <1>1
    <3> QED
      BY <3>1, <2>1, <1>3
  <2> QED
    BY <2>2, <2>3
<1>5. ASSUME NEW y \in ToSet(Tail(q)) \cup {Head(q)}
      PROVE  y \in ToSet(q)
  BY <1>1, <1>3 DEF ToSet
<1>6. ASSUME IsInjective(q)
      PROVE  IsInjective(Tail(q)) /\ Head(q) \notin ToSet(Tail(q))
  BY <1>1, <1>2, <1>3, <1>6 DEF IsInjective
<1> QED
  BY <1>1, <1>4, <1>5, <1>6

\* Sequences with nothing in common are joined without repetition.
LEMMA ConcatToSet ==
  ASSUME NEW S, NEW p \in Seq(S), NEW q \in Seq(S)
  PROVE  /\ p \o q \in Seq(S)
         /\ ToSet(p \o q) = ToSet(p) \cup ToSet(q)
         /\ IsInjective(p) /\ IsInjective(q) /\ ToSet(p) \cap ToSet(q) = {}
              => IsInjective(p \o q)
<1>1. /\ DOMAIN p = 1..Len(p) /\ Len(p) \in Nat
      /\ DOMAIN q = 1..Len(q) /\ Len(q) \in Nat
      /\ p \o q \in Seq(S) /\ Len(p \o q) = Len(p) + Len(q)
      /\ \A i \in 1..(Len(p) + Len(q)) :
           (p \o q)[i] = IF i <= Len(p) THEN p[i] ELSE q[i - Len(p)]
  BY ToSetType, ConcatProperties
<1>2. DOMAIN (p \o q) = 1..(Len(p) + Len(q))
  BY <1>1, ToSetType
<1> DEFINE pq == p \o q
<1>3. ASSUME NEW y \in ToSet(p) \cup ToSet(q) PROVE y \in ToSet(pq)
  <2>1. CASE y \in ToSet(p)
    <3>1. PICK i \in 1..Len(p) : y = p[i]
      BY <2>1, <1>1 DEF ToSet
    <3>2. i \in 1..(Len(p) + Len(q)) /\ pq[i] = y
      BY <3>1, <1>1
    <3> QED
      BY <3>2, <1>2 DEF ToSet
  <2>2. CASE y \in ToSet(q)
    <3>1. PICK i \in 1..Len(q) : y = q[i]
      BY <2>2, <1>1 DEF ToSet
    <3>2. i + Len(p) \in 1..(Len(p) + Len(q)) /\ ~(i + Len(p) <= Len(p)) /\ (i + Len(p)) - Len(p) = i
      BY <3>1, <1>1
    <3>3. pq[i + Len(p)] = y
      BY <3>1, <3>2, <1>1
    <3> QED
      BY <3>2, <3>3, <1>2 DEF ToSet
  <2> QED
    BY <2>1, <2>2
<1>4. ASSUME NEW i \in 1..(Len(p) + Len(q))
      PROVE  \/ i \in 1..Len(p) /\ pq[i] = p[i] /\ pq[i] \in ToSet(p)
             \/ i - Len(p) \in 1..Len(q) /\ pq[i] = q[i - Len(p)] /\ pq[i] \in ToSet(q)
  <2>1. CASE i <= Len(p)
    BY <2>1, <1>1 DEF ToSet
  <2>2. CASE ~(i <= Len(p))
    <3>1. i - Len(p) \in 1..Len(q)
      BY <2>2, <1>1
    <3> QED
      BY <3>1, <2>2, <1>1 DEF ToSet
  <2> QED
    BY <2>1, <2>2
<1>5. ASSUME NEW y \in ToSet(pq) PROVE y \in ToSet(p) \cup ToSet(q)
  BY <1>2, <1>4 DEF ToSet
<1>6. ASSUME IsInjective(p), IsInjective(q), ToSet(p) \cap ToSet(q) = {}
      PROVE  IsInjective(pq)
  <2> HIDE DEF pq
  <2> SUFFICES ASSUME NEW i \in 1..(Len(p) + Len(q)), NEW j \in 1..(Len(p) + Len(q)), pq[i] = pq[j]
               PROVE  i = j
    BY <1>2 DEF IsInjective, pq
  <2>1. CASE pq[i] \in ToSet(p)
    <3>1. i \in 1..Len(p) /\ j \in 1..Len(p) /\ p[i] = p[j]
      BY <2>1, <1>4, <1>6
    <3> QED
      BY <3>1, <1>1, <1>6 DEF IsInjective
  <2>2. CASE pq[i] \in ToSet(q)
    <3>1. i - Len(p) \in 1..Len(q) /\ j - Len(p) \in 1..Len(q) /\ q[i - Len(p)] = q[j - Len(p)]
      BY <2>2, <1>4, <1>6
    <3>2. i - Len(p) = j - Len(p)
      BY <3>1, <1>1, <1>6 DEF IsInjective
    <3> QED
      BY <3>2, <1>1
  <2> QED
    BY <2>1, <2>2, <1>4
<1> QED
  BY <1>1, <1>3, <1>5, <1>6

\* A sequence cut in two.
LEMMA SplitToSet ==
  ASSUME NEW S, NEW q \in Seq(S), NEW k \in 0..Len(q)
  PROVE  /\ SubSeq(q, 1, k) \in Seq(S)
         /\ ToSet(SubSeq(q, 1, k)) \subseteq ToSet(q)
         /\ ToSet(q) \subseteq ToSet(SubSeq(q, 1, k)) \cup ToSet(SubSeq(q, k + 1, Len(q)))
         /\ IsInjective(q) => IsInjective(SubSeq(q, 1, k))
<1> DEFINE p == SubSeq(q, 1, k)
           r == SubSeq(q, k + 1, Len(q))
<1>0. Len(q) \in Nat /\ k \in Nat /\ k <= Len(q)
  BY ToSetType
<1>1. /\ DOMAIN q = 1..Len(q) /\ Len(q) \in Nat /\ k \in Nat /\ k <= Len(q)
      /\ \A i \in 1..Len(q) : q[i] \in S
  BY ToSetType, ElementOfSeq
<1>2. /\ p \in Seq(S) /\ Len(p) = k
      /\ \A i \in 1..k : p[i] = q[i]
  <2>1. \A i \in 1..k : q[i] \in S
    BY <1>1
  <2>2. /\ p \in Seq(S) /\ Len(p) = IF 1 <= k THEN k - 1 + 1 ELSE 0
        /\ \A i \in 1..(k - 1 + 1) : p[i] = q[1 + i - 1]
    BY <2>1, <1>1, SubSeqProperties
  <2> HIDE DEF p
  <2> QED
    BY <2>2, <1>1
<1>3. /\ r \in Seq(S) /\ Len(r) = Len(q) - k
      /\ \A i \in 1..(Len(q) - k) : r[i] = q[k + i]
  <2>1. \A i \in (k + 1)..Len(q) : q[i] \in S
    BY <1>1
  <2>2. /\ r \in Seq(S) /\ Len(r) = IF k + 1 <= Len(q) THEN Len(q) - (k + 1) + 1 ELSE 0
        /\ \A i \in 1..(Len(q) - (k + 1) + 1) : r[i] = q[(k + 1) + i - 1]
    BY <2>1, <1>1, SubSeqProperties
  <2> HIDE DEF r
  <2>3. Len(r) = Len(q) - k
    <3>1. CASE k = Len(q)
      BY <3>1, <2>2, <1>1
    <3>2. CASE k < Len(q)
      <4>1. k + 1 <= Len(q) /\ Len(q) - (k + 1) + 1 = Len(q) - k
        BY <3>2, <1>1
      <4> QED
        BY <4>1, <2>2
    <3>3. k = Len(q) \/ k < Len(q)
      BY <1>0
    <3> QED
      BY <3>1, <3>2, <3>3
  <2>4. ASSUME NEW i \in 1..(Len(q) - k) PROVE r[i] = q[k + i]
    <3>1. i \in 1..(Len(q) - (k + 1) + 1) /\ (k + 1) + i - 1 = k + i
      BY <1>1
    <3> QED
      BY <3>1, <2>2
  <2> QED
    BY <2>2, <2>3, <2>4
<1> HIDE DEF p, r
<1>4. DOMAIN p = 1..k /\ DOMAIN r = 1..(Len(q) - k)
  BY <1>1, <1>2, <1>3, ToSetType
<1>5. ToSet(p) \subseteq ToSet(q) /\ (IsInjective(q) => IsInjective(p))
  BY <1>1, <1>2, <1>4 DEF ToSet, IsInjective
<1>6. ASSUME NEW i \in 1..Len(q) PROVE q[i] \in ToSet(p) \cup ToSet(r)
  <2>1. CASE i <= k
    BY <2>1, <1>1, <1>2, <1>4 DEF ToSet
  <2>2. CASE ~(i <= k)
    <3>1. i - k \in 1..(Len(q) - k) /\ k + (i - k) = i
      BY <2>2, <1>1
    <3>2. r[i - k] = q[i]
      BY <3>1, <1>3
    <3> QED
      BY <3>1, <3>2, <1>4 DEF ToSet
  <2> QED
    BY <2>1, <2>2
<1> QED
  BY <1>1, <1>2, <1>5, <1>6 DEF ToSet, p, r

-----------------------------------------------------------------------------
(***************************************************************************)
(* Types                                                                   *)
(***************************************************************************)

\* What the policies do with a failure stays within their counters.
LEMMA AfterFailureType ==
  ASSUME TypeOK, AfterFailure, pc = "try"
  PROVE  /\ batch' = batch /\ pc' \in {"try", "fallback"}
         /\ attempt' \in 0..RetryCount
         /\ breaker' \in {"closed", "open", "halfOpen"}
         /\ failures' \in 0..BreakAfter
<1>1. attempt \in 0..RetryCount /\ failures \in 0..BreakAfter /\ RetryCount \in Nat /\ BreakAfter \in Nat
  BY RecorderAssumption DEF TypeOK
<1>2. CASE attempt < RetryCount
  BY <1>1, <1>2 DEF AfterFailure, TypeOK, policyVars
<1>3. CASE ~(attempt < RetryCount)
  BY <1>1, <1>3 DEF AfterFailure, TypeOK
<1> QED
  BY <1>2, <1>3

\* The rows of a batch's transaction.
LEMMA InsertType ==
  ASSUME TypeOK, Insert
  PROVE  /\ rows' \in [Shares -> Nat] /\ blockRows' \in [Shares -> Nat] /\ notes' \in [Shares -> Nat]
         /\ \A s \in Shares : rows'[s] = rows[s] + (IF s \in ToSet(batch) THEN 1 ELSE 0)
         /\ BlockWithShare => BlockWithShare'
<1>1. \A s \in Shares : rows[s] \in Nat /\ blockRows[s] \in Nat /\ notes[s] \in Nat
  BY DEF TypeOK
<1>2. /\ rows' \in [Shares -> Nat] /\ blockRows' \in [Shares -> Nat] /\ notes' \in [Shares -> Nat]
  BY <1>1 DEF Insert
<1>3. \A s \in Shares : rows'[s] = rows[s] + (IF s \in ToSet(batch) THEN 1 ELSE 0)
  BY DEF Insert, InBatch
<1>4. ASSUME BlockWithShare, NEW s \in Candidates
      PROVE  rows'[s] = blockRows'[s] /\ blockRows'[s] <= notes'[s]
  <2>1. s \in Shares
    BY RecorderAssumption
  <2>2. rows[s] = blockRows[s] /\ blockRows[s] <= notes[s]
    BY <1>4 DEF BlockWithShare
  <2>3. CASE InBatch(s)
    BY <2>1, <2>2, <2>3, <1>1 DEF Insert
  <2>4. CASE ~InBatch(s)
    BY <2>1, <2>2, <2>4, <1>1 DEF Insert
  <2> QED
    BY <2>3, <2>4
<1> QED
  BY <1>2, <1>3, <1>4 DEF BlockWithShare

LEMMA LossType ==
  ASSUME TypeOK, Loss
  PROVE  losses' \in 0..MaxLosses
BY RecorderAssumption DEF TypeOK, Loss

LEMMA InitIInv == Init => IInv
<1> SUFFICES ASSUME Init PROVE IInv
  OBVIOUS
<1>1. <<>> \in Seq(Shares) /\ Len(<<>>) = 0
  BY EmptySeq
<1>2. TypeOK
  <2>1. running \in BOOLEAN /\ dbUp \in BOOLEAN
    BY Zenon DEF Init
  <2> QED
    BY <1>1, <2>1, RecorderAssumption DEF Init, TypeOK
<1> QED
  BY <1>2, EmptyToSet, RecorderAssumption DEF Init, IInv, OnePlace, Arrived, NotFiled, OnlyUnacked,
     IdleIsEmpty, NoSilentLoss, NoDuplicates, BlockWithShare, Pending

-----------------------------------------------------------------------------
(***************************************************************************)
(* Shares on their way to a batch                                          *)
(***************************************************************************)

LEMMA PublishStep ==
  ASSUME IInv, NEW s \in Shares, Publish(s)
  PROVE  IInv'
<1>0. TypeOK
  BY DEF IInv
<1>1. /\ queue' \in Seq(Shares) /\ ToSet(queue') = ToSet(queue) \cup {s}
      /\ IsInjective(queue) /\ s \notin ToSet(queue) => IsInjective(queue')
  BY <1>0, AppendToSet DEF Publish, TypeOK
<1>2. /\ s \notin published /\ published' = published \cup {s}
      /\ UNCHANGED <<running, buffer, workVars, policyVars, dbVars, envVars, file, lossVars>>
  BY DEF Publish
<1> USE DEF workVars, policyVars, dbVars, envVars, lossVars
<1>3. TypeOK'
  BY <1>0, <1>1, <1>2 DEF TypeOK
<1>4. s \notin Pending /\ s \notin ToSet(file)
  BY <1>2 DEF IInv, Arrived
<1>5. OnePlace' /\ Arrived' /\ NotFiled' /\ IdleIsEmpty'
  BY <1>1, <1>2, <1>4 DEF IInv, OnePlace, Arrived, NotFiled, IdleIsEmpty, Pending
<1>6. OnlyUnacked' /\ NoSilentLoss' /\ NoDuplicates' /\ BlockWithShare'
  BY <1>1, <1>2 DEF IInv, OnlyUnacked, NoSilentLoss, NoDuplicates, BlockWithShare, Pending
<1> QED
  BY <1>3, <1>5, <1>6 DEF IInv

\* A share changes its place, or a batch is begun: what is pending stays the same.
LEMMA MoveStep ==
  ASSUME IInv,
         queue' \in Seq(Shares),
         buffer' \in Seq(Shares), Len(buffer') < BufferCount,
         batch' \in Seq(Shares), Len(batch') <= BufferCount,
         pc' \in {"idle", "try", "fallback"}, attempt' \in 0..RetryCount,
         OnePlace', IdleIsEmpty', Pending' = Pending,
         UNCHANGED <<running, published, policyVars, dbVars, envVars, file, lossVars>>
  PROVE  IInv'
<1> USE DEF policyVars, dbVars, envVars, lossVars
<1>1. TypeOK'
  BY DEF IInv, TypeOK
<1>2. Arrived' /\ NotFiled' /\ OnlyUnacked' /\ NoSilentLoss' /\ NoDuplicates' /\ BlockWithShare'
  BY DEF IInv, Arrived, NotFiled, OnlyUnacked, NoSilentLoss, NoDuplicates, BlockWithShare
<1> QED
  BY <1>1, <1>2 DEF IInv

LEMMA TakeStep == IInv /\ Take => IInv'
<1> SUFFICES ASSUME IInv, Take PROVE IInv'
  OBVIOUS
<1> DEFINE x == Head(queue)
           filled == Append(buffer, x)
<1>0. TypeOK /\ pc = "idle" /\ batch = <<>> /\ queue # <<>> /\ queue' = Tail(queue)
  BY DEF IInv, Take, IdleIsEmpty
<1>1. /\ queue' \in Seq(Shares) /\ x \in Shares
      /\ ToSet(queue) = ToSet(queue') \cup {x}
      /\ IsInjective(queue') /\ x \notin ToSet(queue')
  BY <1>0, TailToSet DEF TypeOK, IInv, OnePlace
<1>2. x \notin ToSet(buffer) /\ ToSet(queue') \cap ToSet(buffer) = {} /\ IsInjective(buffer)
  BY <1>1 DEF IInv, OnePlace
<1>3. /\ filled \in Seq(Shares) /\ Len(filled) = Len(buffer) + 1
      /\ ToSet(filled) = ToSet(buffer) \cup {x} /\ IsInjective(filled)
  BY <1>0, <1>1, <1>2, AppendToSet DEF TypeOK
<1>4. Len(buffer) \in Nat /\ Len(buffer) < BufferCount /\ BufferCount \in Nat
  BY <1>0, ToSetType, RecorderAssumption DEF TypeOK
<1>5. <<>> \in Seq(Shares) /\ Len(<<>>) = 0 /\ ToSet(<<>>) = {} /\ IsInjective(<<>>)
  BY EmptySeq, EmptyToSet
<1>6. UNCHANGED <<running, published, policyVars, dbVars, envVars, file, lossVars>>
  BY DEF Take
<1>7. CASE Len(filled) = BufferCount
  <2>1. buffer' = <<>> /\ batch' = filled /\ attempt' = 0 /\ pc' \in {"try", "fallback"}
    BY <1>7 DEF Take, Enter
  <2>2. ToSet(buffer') = {} /\ ToSet(batch') = ToSet(buffer) \cup {x} /\ IsInjective(buffer')
        /\ IsInjective(batch')
    BY <2>1, <1>3, <1>5
  <2>3. OnePlace' /\ IdleIsEmpty' /\ Pending' = Pending
    BY <2>1, <2>2, <1>0, <1>1, <1>2, <1>5 DEF OnePlace, IdleIsEmpty, Pending
  <2>4. batch' \in Seq(Shares) /\ Len(batch') <= BufferCount /\ buffer' \in Seq(Shares)
        /\ Len(buffer') < BufferCount /\ attempt' \in 0..RetryCount
    BY <2>1, <1>3, <1>4, <1>5, <1>7, RecorderAssumption
  <2> QED
    BY <2>1, <2>3, <2>4, <1>1, <1>6, MoveStep
<1>8. CASE Len(filled) # BufferCount
  <2>1. buffer' = filled /\ UNCHANGED <<batch, pc, attempt>>
    BY <1>8 DEF Take, workVars
  <2>2. Len(buffer') < BufferCount
    BY <2>1, <1>3, <1>4, <1>8
  <2>3. ToSet(buffer') = ToSet(buffer) \cup {x} /\ ToSet(batch') = {} /\ IsInjective(batch')
        /\ IsInjective(buffer') /\ ToSet(batch) = {}
    BY <2>1, <1>0, <1>3, <1>5
  <2>4. OnePlace' /\ IdleIsEmpty' /\ Pending' = Pending
    BY <2>1, <2>3, <1>0, <1>1, <1>2 DEF OnePlace, IdleIsEmpty, Pending
  <2>5. batch' \in Seq(Shares) /\ Len(batch') <= BufferCount /\ buffer' \in Seq(Shares)
        /\ pc' = "idle" /\ attempt' \in 0..RetryCount
    BY <2>1, <1>0, <1>3 DEF TypeOK
  <2> QED
    BY <2>2, <2>4, <2>5, <1>1, <1>6, MoveStep
<1> QED
  BY <1>7, <1>8

LEMMA FlushStep == IInv /\ Flush => IInv'
<1> SUFFICES ASSUME IInv, Flush PROVE IInv'
  OBVIOUS
<1>0. TypeOK /\ batch = <<>>
  BY DEF IInv, Flush, IdleIsEmpty
<1>1. buffer' = <<>> /\ batch' = buffer /\ queue' = queue /\ attempt' = 0 /\ pc' \in {"try", "fallback"}
  BY DEF Flush, Enter
<1>2. <<>> \in Seq(Shares) /\ Len(<<>>) = 0 /\ ToSet(<<>>) = {} /\ IsInjective(<<>>)
  BY EmptySeq, EmptyToSet
<1>3. OnePlace' /\ IdleIsEmpty' /\ Pending' = Pending
  BY <1>0, <1>1, <1>2 DEF IInv, OnePlace, IdleIsEmpty, Pending
<1>4. /\ batch' \in Seq(Shares) /\ Len(batch') <= BufferCount /\ queue' \in Seq(Shares)
      /\ buffer' \in Seq(Shares) /\ Len(buffer') < BufferCount /\ attempt' \in 0..RetryCount
  <2>1. Len(buffer) \in Nat
    BY <1>0, ToSetType DEF TypeOK
  <2> QED
    BY <2>1, <1>0, <1>1, <1>2, RecorderAssumption DEF TypeOK
<1>5. UNCHANGED <<running, published, policyVars, dbVars, envVars, file, lossVars>>
  BY DEF Flush
<1> QED
  BY <1>1, <1>3, <1>4, <1>5, MoveStep

-----------------------------------------------------------------------------
(***************************************************************************)
(* The batch leaves the pipeline                                           *)
(***************************************************************************)

\* Types after the batch is done with.
LEMMA FinishType ==
  ASSUME TypeOK, Finish, OnePlace, UNCHANGED pipeVars
  PROVE  /\ batch' \in Seq(Shares) /\ Len(batch') <= BufferCount
         /\ pc' = "idle" /\ attempt' \in 0..RetryCount
         /\ OnePlace' /\ IdleIsEmpty'
         /\ Pending' = ToSet(queue) \cup ToSet(buffer) /\ ToSet(batch') = {}
<1>1. <<>> \in Seq(Shares) /\ Len(<<>>) = 0 /\ ToSet(<<>>) = {} /\ IsInjective(<<>>)
  BY EmptySeq, EmptyToSet
<1> QED
  BY <1>1, RecorderAssumption DEF Finish, TypeOK, OnePlace, IdleIsEmpty, Pending, pipeVars

LEMMA PersistSharesStep == IInv /\ PersistShares => IInv'
<1> SUFFICES ASSUME IInv, PersistShares PROVE IInv'
  OBVIOUS
<1>0. TypeOK /\ OnePlace
  BY DEF IInv
<1>1. /\ Insert /\ Finish /\ breaker' = "closed" /\ failures' = 0
      /\ UNCHANGED <<running, published, pipeVars, unacked, envVars, file, lossVars>>
  BY DEF PersistShares
<1> USE DEF pipeVars, envVars, lossVars
<1>2. /\ rows' \in [Shares -> Nat] /\ blockRows' \in [Shares -> Nat] /\ notes' \in [Shares -> Nat]
      /\ \A s \in Shares : rows'[s] = rows[s] + (IF s \in ToSet(batch) THEN 1 ELSE 0)
      /\ BlockWithShare'
  BY <1>0, <1>1, InsertType DEF IInv
<1>3. /\ batch' \in Seq(Shares) /\ Len(batch') <= BufferCount
      /\ pc' = "idle" /\ attempt' \in 0..RetryCount
      /\ OnePlace' /\ IdleIsEmpty'
      /\ Pending' = ToSet(queue) \cup ToSet(buffer)
  BY <1>0, <1>1, FinishType
<1>4. TypeOK'
  BY <1>0, <1>1, <1>2, <1>3, RecorderAssumption DEF TypeOK
<1>5. Arrived' /\ NotFiled'
  BY <1>1, <1>3 DEF IInv, Arrived, NotFiled, Pending
<1>6. \A s \in Shares : rows[s] \in Nat /\ unacked[s] \in Nat
  BY <1>0 DEF TypeOK
<1>7. OnlyUnacked'
  <2> SUFFICES ASSUME NEW s \in Shares, s \in Pending' \/ s \notin published
               PROVE  rows'[s] <= unacked[s]
    BY <1>1 DEF OnlyUnacked
  <2>1. s \notin ToSet(batch)
    BY <1>0, <1>3 DEF IInv, OnePlace, Arrived, Pending
  <2>2. rows[s] <= unacked[s]
    BY <1>3 DEF IInv, OnlyUnacked, Pending
  <2> QED
    BY <2>1, <2>2, <1>2, <1>6
<1>8. NoSilentLoss'
  <2> SUFFICES ASSUME NEW s \in published
               PROVE  s \in Pending' \/ rows'[s] > 0 \/ s \in ToSet(file) \/ s \in excused
    BY <1>1 DEF NoSilentLoss
  <2>1. s \in Shares
    BY <1>0 DEF TypeOK
  <2>2. CASE s \in ToSet(batch)
    BY <2>1, <2>2, <1>2, <1>6
  <2>3. CASE s \notin ToSet(batch)
    <3>1. rows'[s] = rows[s]
      BY <2>1, <2>3, <1>2, <1>6
    <3> QED
      BY <3>1, <2>3, <1>3 DEF IInv, NoSilentLoss, Pending
  <2> QED
    BY <2>2, <2>3
<1>9. NoDuplicates'
  <2> SUFFICES ASSUME NEW s \in Shares
               PROVE  rows'[s] <= unacked[s] + (IF s \in ToSet(file) THEN 0 ELSE 1)
    BY <1>1 DEF IInv, NoDuplicates
  <2>1. CASE s \in ToSet(batch)
    <3>1. s \notin ToSet(file) /\ rows[s] <= unacked[s]
      BY <2>1 DEF IInv, NotFiled, OnlyUnacked, Pending
    <3> QED
      BY <3>1, <2>1, <1>2, <1>6
  <2>2. CASE s \notin ToSet(batch)
    <3>1. rows'[s] = rows[s]
      BY <2>2, <1>2, <1>6
    <3> QED
      BY <3>1 DEF IInv, NoDuplicates
  <2> QED
    BY <2>1, <2>2
<1> QED
  BY <1>2, <1>3, <1>4, <1>5, <1>7, <1>8, <1>9 DEF IInv

\* Shares leave the pipeline for the file, or are accounted for; the tables stay.
LEMMA LeaveStep ==
  ASSUME IInv, TypeOK', OnePlace', IdleIsEmpty',
         UNCHANGED <<published, dbVars>>,
         Pending' \subseteq Pending,
         IsInjective(file'), ToSet(file) \subseteq ToSet(file'),
         ToSet(file') \subseteq ToSet(file) \cup (Pending \ Pending'),
         excused \subseteq excused',
         Pending \subseteq Pending' \cup ToSet(file') \cup excused'
  PROVE  IInv'
<1> USE DEF dbVars
<1>0. TypeOK /\ \A s \in Shares : rows[s] \in Nat /\ unacked[s] \in Nat
  BY DEF IInv, TypeOK
<1>1. Arrived' /\ NotFiled' /\ OnlyUnacked'
  BY DEF IInv, Arrived, NotFiled, OnlyUnacked
<1>2. NoSilentLoss'
  BY DEF IInv, NoSilentLoss
<1>3. ASSUME NEW s \in Shares
      PROVE  rows[s] <= unacked[s] + (IF s \in ToSet(file') THEN 0 ELSE 1)
  <2>1. CASE s \in Pending
    BY <2>1, <1>0 DEF IInv, OnlyUnacked
  <2>2. CASE s \notin Pending
    <3>1. s \in ToSet(file') <=> s \in ToSet(file)
      BY <2>2
    <3> QED
      BY <3>1 DEF IInv, NoDuplicates
  <2> QED
    BY <2>1, <2>2
<1>4. NoDuplicates' /\ BlockWithShare'
  BY <1>3 DEF IInv, NoDuplicates, BlockWithShare
<1> QED
  BY <1>1, <1>2, <1>4 DEF IInv

LEMMA FallbackStep == IInv /\ Fallback => IInv'
<1> SUFFICES ASSUME IInv, Fallback PROVE IInv'
  OBVIOUS
<1>0. TypeOK /\ OnePlace
  BY DEF IInv
<1>1. /\ Finish /\ file' = file \o batch
      /\ UNCHANGED <<running, published, pipeVars, policyVars, dbVars, envVars, lossVars>>
  BY DEF Fallback
<1>2. /\ file' \in Seq(Shares) /\ ToSet(file') = ToSet(file) \cup ToSet(batch)
      /\ IsInjective(file')
  <2>1. IsInjective(file) /\ IsInjective(batch) /\ ToSet(file) \cap ToSet(batch) = {}
    BY DEF IInv, OnePlace, NoDuplicates, NotFiled, Pending
  <2> QED
    BY <2>1, <1>0, <1>1, ConcatToSet DEF TypeOK
<1>3. /\ batch' \in Seq(Shares) /\ Len(batch') <= BufferCount
      /\ pc' = "idle" /\ attempt' \in 0..RetryCount
      /\ OnePlace' /\ IdleIsEmpty'
      /\ Pending' = ToSet(queue) \cup ToSet(buffer)
  BY <1>0, <1>1, FinishType DEF pipeVars
<1>4. TypeOK'
  BY <1>0, <1>1, <1>2, <1>3 DEF TypeOK, pipeVars, policyVars, dbVars, envVars, lossVars
<1>5. /\ Pending' \subseteq Pending
      /\ ToSet(file') \subseteq ToSet(file) \cup (Pending \ Pending')
      /\ Pending \subseteq Pending' \cup ToSet(file')
  BY <1>0, <1>2, <1>3 DEF OnePlace, Pending
<1> QED
  BY <1>1, <1>2, <1>3, <1>4, <1>5, LeaveStep DEF lossVars

LEMMA FallbackFailsStep == IInv /\ FallbackFails => IInv'
<1> SUFFICES ASSUME IInv, FallbackFails PROVE IInv'
  OBVIOUS
<1>0. TypeOK /\ OnePlace /\ Len(batch) \in Nat
  BY ToSetType DEF IInv, TypeOK
<1>1. PICK k \in 0..(Len(batch) - 1) :
        /\ file' = file \o SubSeq(batch, 1, k)
        /\ excused' = excused \cup ToSet(SubSeq(batch, k + 1, Len(batch)))
  BY DEF FallbackFails
<1>2. /\ Finish /\ Loss
      /\ UNCHANGED <<running, published, pipeVars, policyVars, dbVars, envVars>>
  BY DEF FallbackFails
<1> DEFINE p == SubSeq(batch, 1, k)
           r == SubSeq(batch, k + 1, Len(batch))
<1>3. k \in 0..Len(batch)
  BY <1>0
<1>4. /\ p \in Seq(Shares) /\ ToSet(p) \subseteq ToSet(batch)
      /\ ToSet(batch) \subseteq ToSet(p) \cup ToSet(r)
      /\ IsInjective(p)
  <2>1. batch \in Seq(Shares) /\ IsInjective(batch)
    BY <1>0 DEF TypeOK, OnePlace
  <2> QED
    BY <2>1, <1>3, SplitToSet
<1>5. ToSet(r) \subseteq Shares
  <2>1. r \in Seq(Shares)
    <3>1. \A i \in (k + 1)..Len(batch) : batch[i] \in Shares
      <4>1. \A i \in 1..Len(batch) : batch[i] \in Shares
        BY <1>0, ElementOfSeq DEF TypeOK
      <4> QED
        BY <4>1, <1>0
    <3> QED
      BY <3>1, <1>0, SubSeqProperties
  <2> QED
    BY <2>1, ToSetType
<1> HIDE DEF p, r
<1>6. /\ file' \in Seq(Shares) /\ ToSet(file') = ToSet(file) \cup ToSet(p)
      /\ IsInjective(file')
  <2>1. IsInjective(file) /\ ToSet(file) \cap ToSet(p) = {}
    BY <1>4 DEF IInv, NoDuplicates, NotFiled, Pending
  <2>2. file' = file \o p /\ file \in Seq(Shares)
    BY <1>0, <1>1 DEF p, TypeOK
  <2> QED
    BY <2>1, <2>2, <1>4, ConcatToSet
<1>7. /\ batch' \in Seq(Shares) /\ Len(batch') <= BufferCount
      /\ pc' = "idle" /\ attempt' \in 0..RetryCount
      /\ OnePlace' /\ IdleIsEmpty'
      /\ Pending' = ToSet(queue) \cup ToSet(buffer)
  BY <1>0, <1>2, FinishType DEF pipeVars
<1>8. losses' \in 0..MaxLosses /\ excused' = excused \cup ToSet(r)
  BY <1>0, <1>1, <1>2, LossType DEF r
<1>9. TypeOK'
  BY <1>0, <1>2, <1>5, <1>6, <1>7, <1>8 DEF TypeOK, pipeVars, policyVars, dbVars, envVars
<1>10. /\ Pending' \subseteq Pending
       /\ ToSet(file') \subseteq ToSet(file) \cup (Pending \ Pending')
       /\ Pending \subseteq Pending' \cup ToSet(file') \cup excused'
       /\ excused \subseteq excused' /\ ToSet(file) \subseteq ToSet(file')
  BY <1>0, <1>4, <1>6, <1>7, <1>8 DEF OnePlace, Pending
<1> QED
  BY <1>2, <1>6, <1>7, <1>9, <1>10, LeaveStep

LEMMA PersistThrowsStep == IInv /\ PersistThrows => IInv'
<1> SUFFICES ASSUME IInv, PersistThrows PROVE IInv'
  OBVIOUS
<1>0. TypeOK /\ OnePlace /\ ToSet(batch) \subseteq Shares
  BY ToSetType DEF IInv, TypeOK
<1>1. /\ Finish /\ Loss /\ excused' = excused \cup ToSet(batch)
      /\ breaker' = (IF breaker = "halfOpen" THEN "open" ELSE breaker)
      /\ UNCHANGED <<running, published, pipeVars, failures, dbVars, envVars, file>>
  BY DEF PersistThrows
<1>2. /\ batch' \in Seq(Shares) /\ Len(batch') <= BufferCount
      /\ pc' = "idle" /\ attempt' \in 0..RetryCount
      /\ OnePlace' /\ IdleIsEmpty'
      /\ Pending' = ToSet(queue) \cup ToSet(buffer)
  BY <1>0, <1>1, FinishType DEF pipeVars
<1>3. losses' \in 0..MaxLosses
  BY <1>0, <1>1, LossType
<1>4. TypeOK'
  BY <1>0, <1>1, <1>2, <1>3 DEF TypeOK, pipeVars, dbVars, envVars
<1>5. Pending' \subseteq Pending /\ Pending \subseteq Pending' \cup excused' /\ IsInjective(file)
  BY <1>1, <1>2 DEF IInv, NoDuplicates, Pending
<1> QED
  BY <1>1, <1>2, <1>4, <1>5, LeaveStep

\* A stop empties queue and buffer.
LEMMA StopStep == IInv /\ Stop => IInv'
<1> SUFFICES ASSUME IInv, Stop PROVE IInv'
  OBVIOUS
<1>0. TypeOK /\ ToSet(queue) \subseteq Shares /\ ToSet(buffer) \subseteq Shares
  BY ToSetType DEF IInv, TypeOK
<1>1. /\ Loss /\ running' = FALSE /\ queue' = <<>> /\ buffer' = <<>>
      /\ excused' = excused \cup ToSet(queue) \cup ToSet(buffer)
      /\ UNCHANGED <<published, batch, pc, attempt, policyVars, dbVars, envVars, file>>
  BY DEF Stop, workVars
<1>2. <<>> \in Seq(Shares) /\ Len(<<>>) = 0 /\ ToSet(<<>>) = {} /\ IsInjective(<<>>)
  BY EmptySeq, EmptyToSet
<1>3. losses' \in 0..MaxLosses
  BY <1>0, <1>1, LossType
<1>4. running' \in BOOLEAN
  BY <1>1, Zenon
<1>5. TypeOK'
  BY <1>0, <1>1, <1>2, <1>3, <1>4, RecorderAssumption DEF TypeOK, policyVars, dbVars, envVars
<1>6. OnePlace' /\ IdleIsEmpty' /\ Pending' = ToSet(batch) /\ IsInjective(file)
  BY <1>1, <1>2 DEF IInv, OnePlace, IdleIsEmpty, Pending, NoDuplicates
<1>7. Pending' \subseteq Pending /\ Pending \subseteq Pending' \cup excused'
  BY <1>1, <1>6 DEF Pending
<1> QED
  BY <1>1, <1>5, <1>6, <1>7, LeaveStep

LEMMA CrashStep == IInv /\ Crash => IInv'
<1> SUFFICES ASSUME IInv, Crash PROVE IInv'
  OBVIOUS
<1>0. TypeOK /\ ToSet(queue) \subseteq Shares /\ ToSet(buffer) \subseteq Shares
      /\ ToSet(batch) \subseteq Shares
  BY ToSetType DEF IInv, TypeOK
<1>1. /\ Loss /\ running' = FALSE /\ queue' = <<>> /\ buffer' = <<>>
      /\ excused' = excused \cup ToSet(queue) \cup ToSet(buffer) \cup ToSet(batch)
      /\ batch' = <<>> /\ pc' = "idle" /\ attempt' = 0
      /\ breaker' = "closed" /\ failures' = 0
      /\ UNCHANGED <<published, dbVars, envVars, file>>
  BY DEF Crash, Finish
<1>2. <<>> \in Seq(Shares) /\ Len(<<>>) = 0 /\ ToSet(<<>>) = {} /\ IsInjective(<<>>)
  BY EmptySeq, EmptyToSet
<1>3. losses' \in 0..MaxLosses
  BY <1>0, <1>1, LossType
<1>4. running' \in BOOLEAN
  BY <1>1, Zenon
<1>5. TypeOK'
  BY <1>0, <1>1, <1>2, <1>3, <1>4, RecorderAssumption DEF TypeOK, dbVars, envVars
<1>6. OnePlace' /\ IdleIsEmpty' /\ Pending' = {} /\ IsInjective(file)
  BY <1>1, <1>2 DEF IInv, OnePlace, IdleIsEmpty, Pending, NoDuplicates
<1>7. Pending \subseteq excused'
  BY <1>1 DEF Pending
<1> QED
  BY <1>1, <1>5, <1>6, <1>7, LeaveStep

-----------------------------------------------------------------------------
(***************************************************************************)
(* The batch is tried again                                                *)
(***************************************************************************)

\* A failing transaction leaves nothing but notifications.
LEMMA PersistFailsStep == IInv /\ PersistFails => IInv'
<1> SUFFICES ASSUME IInv, PersistFails PROVE IInv'
  OBVIOUS
<1>0. TypeOK
  BY DEF IInv
<1>1. PICK k \in 0..Len(batch) :
        notes' = [s \in Shares |-> notes[s] +
          (IF s \in Candidates /\ s \in ToSet(SubSeq(batch, 1, k)) THEN 1 ELSE 0)]
  BY DEF PersistFails
<1>2. /\ pc = "try" /\ AfterFailure
      /\ UNCHANGED <<running, published, pipeVars, rows, blockRows, unacked, envVars, file, lossVars>>
  BY DEF PersistFails
<1> USE DEF pipeVars, envVars, lossVars
<1>3. /\ batch' = batch /\ pc' \in {"try", "fallback"}
      /\ attempt' \in 0..RetryCount
      /\ breaker' \in {"closed", "open", "halfOpen"}
      /\ failures' \in 0..BreakAfter
  BY <1>0, <1>2, AfterFailureType
<1>4. notes' \in [Shares -> Nat] /\ \A s \in Shares : notes'[s] >= notes[s] /\ notes[s] \in Nat
                                     /\ blockRows[s] \in Nat
  <2>1. \A s \in Shares : notes[s] \in Nat /\ blockRows[s] \in Nat
    BY <1>0 DEF TypeOK
  <2> QED
    BY <2>1, <1>1
<1>5. TypeOK'
  BY <1>0, <1>2, <1>3, <1>4 DEF TypeOK
<1>6. /\ OnePlace' /\ Arrived' /\ NotFiled' /\ OnlyUnacked' /\ IdleIsEmpty'
      /\ NoSilentLoss' /\ NoDuplicates'
  BY <1>2, <1>3 DEF IInv, OnePlace, Arrived, NotFiled, OnlyUnacked, IdleIsEmpty, NoSilentLoss,
     NoDuplicates, Pending
<1>7. BlockWithShare'
  <2> SUFFICES ASSUME NEW s \in Candidates
               PROVE  rows[s] = blockRows[s] /\ blockRows[s] <= notes'[s]
    BY <1>2 DEF BlockWithShare
  <2>1. s \in Shares
    BY RecorderAssumption
  <2>2. notes'[s] \in Nat /\ notes'[s] >= notes[s] /\ notes[s] \in Nat /\ blockRows[s] \in Nat
    BY <2>1, <1>4
  <2>3. rows[s] = blockRows[s] /\ blockRows[s] <= notes[s]
    BY DEF IInv, BlockWithShare
  <2> QED
    BY <2>2, <2>3
<1> QED
  BY <1>5, <1>6, <1>7 DEF IInv

\* The rows are there although the policies see a failure.
LEMMA PersistUnacknowledgedStep == IInv /\ PersistUnacknowledged => IInv'
<1> SUFFICES ASSUME IInv, PersistUnacknowledged PROVE IInv'
  OBVIOUS
<1>0. TypeOK
  BY DEF IInv
<1>1. /\ pc = "try" /\ Insert /\ AfterFailure
      /\ outages < MaxOutages /\ outages' = outages + 1 /\ dbUp' = FALSE
      /\ unacked' = [s \in Shares |-> unacked[s] + (IF InBatch(s) THEN 1 ELSE 0)]
      /\ UNCHANGED <<running, published, pipeVars, file, lossVars>>
  BY DEF PersistUnacknowledged
<1> USE DEF pipeVars, lossVars
<1>2. /\ batch' = batch /\ pc' \in {"try", "fallback"}
      /\ attempt' \in 0..RetryCount
      /\ breaker' \in {"closed", "open", "halfOpen"}
      /\ failures' \in 0..BreakAfter
  BY <1>0, <1>1, AfterFailureType
<1>3. /\ rows' \in [Shares -> Nat] /\ blockRows' \in [Shares -> Nat] /\ notes' \in [Shares -> Nat]
      /\ \A s \in Shares : rows'[s] = rows[s] + (IF s \in ToSet(batch) THEN 1 ELSE 0)
      /\ BlockWithShare'
  BY <1>0, <1>1, InsertType DEF IInv
<1>4. \A s \in Shares : rows[s] \in Nat /\ unacked[s] \in Nat
  BY <1>0 DEF TypeOK
<1>5. /\ unacked' \in [Shares -> Nat]
      /\ \A s \in Shares : unacked'[s] = unacked[s] + (IF s \in ToSet(batch) THEN 1 ELSE 0)
  BY <1>1, <1>4 DEF InBatch
<1>6. TypeOK'
  <2>1. dbUp' \in BOOLEAN
    BY <1>1, Zenon
  <2>2. outages' \in 0..MaxOutages
    BY <1>0, <1>1, RecorderAssumption DEF TypeOK
  <2> QED
    BY <2>1, <2>2, <1>0, <1>1, <1>2, <1>3, <1>5 DEF TypeOK
<1>7. OnePlace' /\ Arrived' /\ NotFiled' /\ IdleIsEmpty' /\ Pending' = Pending
  BY <1>1, <1>2 DEF IInv, OnePlace, Arrived, NotFiled, IdleIsEmpty, Pending
<1>8. ASSUME NEW s \in Shares
      PROVE  \/ rows'[s] = rows[s] /\ unacked'[s] = unacked[s]
             \/ rows'[s] = rows[s] + 1 /\ unacked'[s] = unacked[s] + 1
  BY <1>3, <1>4, <1>5
<1>9. OnlyUnacked'
  BY <1>1, <1>4, <1>7, <1>8 DEF IInv, OnlyUnacked
<1>10. NoSilentLoss'
  <2> SUFFICES ASSUME NEW s \in published
               PROVE  s \in Pending \/ rows'[s] > 0 \/ s \in ToSet(file) \/ s \in excused
    BY <1>1, <1>7 DEF NoSilentLoss
  <2>1. s \in Shares
    BY <1>0 DEF TypeOK
  <2>2. rows[s] > 0 => rows'[s] > 0
    BY <2>1, <1>4, <1>8
  <2> QED
    BY <2>2 DEF IInv, NoSilentLoss
<1>11. NoDuplicates'
  <2> SUFFICES ASSUME NEW s \in Shares
               PROVE  rows'[s] <= unacked'[s] + (IF s \in ToSet(file) THEN 0 ELSE 1)
    BY <1>1 DEF IInv, NoDuplicates
  <2>1. rows[s] <= unacked[s] + (IF s \in ToSet(file) THEN 0 ELSE 1)
    BY DEF IInv, NoDuplicates
  <2> QED
    BY <2>1, <1>4, <1>8
<1> QED
  BY <1>3, <1>6, <1>7, <1>9, <1>10, <1>11 DEF IInv

-----------------------------------------------------------------------------
\* Steps that move no share.
LEMMA RestStep ==
  ASSUME IInv, BreakerTimeout \/ DatabaseDown \/ DatabaseUp \/ Start \/ UNCHANGED vars
  PROVE  IInv'
<1>0. TypeOK
  BY DEF IInv
<1>1. UNCHANGED <<published, pipeVars, workVars, dbVars, file, lossVars>>
  BY DEF BreakerTimeout, DatabaseDown, DatabaseUp, Start, vars
<1>2. breaker' \in {"closed", "open", "halfOpen"} /\ failures' \in 0..BreakAfter
  BY <1>0, RecorderAssumption DEF BreakerTimeout, DatabaseDown, DatabaseUp, Start, vars, policyVars,
     TypeOK
<1>3. running' = running \/ running' = TRUE
  BY DEF BreakerTimeout, DatabaseDown, DatabaseUp, Start, vars
<1>4. dbUp' = dbUp \/ dbUp' = TRUE \/ dbUp' = FALSE
  BY DEF BreakerTimeout, DatabaseDown, DatabaseUp, Start, vars, envVars
<1>5. outages' \in 0..MaxOutages
  BY <1>0, RecorderAssumption DEF BreakerTimeout, DatabaseDown, DatabaseUp, Start, vars, envVars, TypeOK
<1>6. running' \in BOOLEAN /\ dbUp' \in BOOLEAN
  <2>1. running \in BOOLEAN /\ dbUp \in BOOLEAN
    BY <1>0 DEF TypeOK
  <2> QED
    BY <2>1, <1>3, <1>4, Zenon
<1>7. TypeOK'
  BY <1>0, <1>1, <1>2, <1>5, <1>6 DEF TypeOK, pipeVars, workVars, dbVars, lossVars
<1>8. OnePlace' /\ IdleIsEmpty' /\ Pending' = Pending /\ IsInjective(file)
  BY <1>1 DEF IInv, OnePlace, IdleIsEmpty, Pending, NoDuplicates, pipeVars, workVars
<1> QED
  BY <1>1, <1>7, <1>8, LeaveStep DEF lossVars

LEMMA StepIInv == IInv /\ [Next]_vars => IInv'
BY PublishStep, TakeStep, FlushStep, PersistSharesStep, PersistFailsStep, FallbackStep,
   PersistUnacknowledgedStep, PersistThrowsStep, FallbackFailsStep, StopStep, CrashStep, RestStep
   DEF Next, Recorder

LEMMA Invariance == Spec => []IInv
BY InitIInv, StepIInv, PTL DEF Spec

-----------------------------------------------------------------------------
\* Types, with the sizes of buffer and batch and the policies' counters.
THEOREM TypeCorrect == Spec => []TypeOK
<1>1. IInv => TypeOK
  BY DEF IInv
<1> QED
  BY <1>1, Invariance, PTL

\* The queue, the buffer and the policies lose no share without a crash, a stop, a file that
\* cannot be written or an exception no policy handles.
THEOREM NothingLostSilently == Spec => []NoSilentLoss
<1>1. IInv => NoSilentLoss
  BY DEF IInv
<1> QED
  BY <1>1, Invariance, PTL

\* Retry, breaker and fallback record a share twice only after a lost acknowledgement.
THEOREM RecordedOnce == Spec => []NoDuplicates
<1>1. IInv => NoDuplicates
  BY DEF IInv
<1> QED
  BY <1>1, Invariance, PTL

\* PersistShares: a share and the block it found are recorded together, and announced.
THEOREM BlockGoesWithShare == Spec => []BlockWithShare
<1>1. IInv => BlockWithShare
  BY DEF IInv
<1> QED
  BY <1>1, Invariance, PTL

-----------------------------------------------------------------------------
(***************************************************************************)
(* ShareRecovery: files of any length, any batch size, any number of       *)
(* failing imports and of runs.                                            *)
(*                                                                         *)
(* That a share is imported at most once, and in a clean run exactly once, *)
(* is not inductive: it depends on where the share is.  A line that is not *)
(* read yet has no new row; one in the list has none but by commits that   *)
(* looked like failures (Listed); in a run without failures a line that    *)
(* was read is either in the list or has its row, never both (Clean).      *)
(***************************************************************************)
Working == {"read", "import", "last"}

Read == \A i \in shares : i <= pos

AtEnd == step \in {"last", "done"} => pos = Len(lines)

\* Rows are only added in a run.
Growing == \A i \in Lines : before[i] <= imported[i]

Unread == \A i \in Lines : i > pos => imported[i] = before[i] /\ doubtful[i] = 0

Listed == step \in Working => \A i \in shares : imported[i] <= before[i] + doubtful[i]

Clean ==
  failCount = 0 =>
    /\ \A i \in 1..pos : lines[i] # "bad"
    /\ \A i \in Lines : doubtful[i] = 0
    /\ \A i \in ShareLines : i <= pos =>
         imported[i] = before[i] + (IF i \in shares /\ step \in Working THEN 0 ELSE 1)

Counted ==
  /\ failCount <= pos + errors
  /\ step \in Working => successCount = 0

RInv ==
  RecoveryTypeOK /\ Read /\ AtEnd /\ Growing /\ Unread /\ Listed /\ Clean /\ Counted
    /\ NothingDropped /\ ImportedOnce

-----------------------------------------------------------------------------
\* The list is finite and no longer than the file: only lines of it are in it.
LEMMA ListIsBounded ==
  ASSUME RecoveryTypeOK
  PROVE  Cardinality(shares) \in 0..MaxLines
<1>1. shares \subseteq 1..MaxLines
  BY RecoveryAssumption DEF RecoveryTypeOK, ShareLines
<1>2. IsFiniteSet(1..MaxLines) /\ Cardinality(1..MaxLines) = MaxLines
  BY FS_Interval, RecoveryAssumption
<1>3. IsFiniteSet(shares) /\ Cardinality(shares) <= Cardinality(1..MaxLines)
  BY <1>1, <1>2, FS_Subset
<1>4. Cardinality(shares) \in Nat
  BY <1>3, FS_CardinalityType
<1> QED
  BY <1>2, <1>3, <1>4, RecoveryAssumption

\* The share of a line is one of Lines.
LEMMA ShareLinesAreLines ==
  ASSUME RecoveryTypeOK
  PROVE  ShareLines \subseteq Lines /\ shares \subseteq Lines
BY RecoveryAssumption DEF RecoveryTypeOK, ShareLines, Lines

LEMMA InitRInv == RecoveryInit => RInv
<1> SUFFICES ASSUME RecoveryInit PROVE RInv
  OBVIOUS
<1>1. PICK n \in 0..MaxLines : lines \in [1..n -> Kinds]
  BY DEF RecoveryInit
<1>2. lines \in Seq(Kinds) /\ Len(lines) = n /\ n \in Nat /\ n <= MaxLines
  BY <1>1, RecoveryAssumption
<1>3. RecoveryTypeOK
  BY <1>2, RecoveryAssumption DEF RecoveryInit, RecoveryTypeOK
<1> QED
  BY <1>2, <1>3, RecoveryAssumption DEF RecoveryInit, RInv, Read, AtEnd, Growing, Unread, Listed, Clean,
     Counted, NothingDropped, ImportedOnce, Lines, ShareLines, Working

-----------------------------------------------------------------------------
\* Reading a line moves its share from the unread lines to the list.
LEMMA ReadLineStep == RInv /\ ReadLine => RInv'
<1> SUFFICES ASSUME RInv, ReadLine PROVE RInv'
  OBVIOUS
<1> USE RecoveryAssumption
<1>0. RecoveryTypeOK /\ ShareLines \subseteq Lines /\ shares \subseteq Lines
  BY ShareLinesAreLines DEF RInv
<1>1. /\ pos' = pos + 1 /\ pos \in Nat /\ pos < Len(lines) /\ Len(lines) \in Nat /\ pos + 1 \in Lines
      /\ step = "read" /\ step' \in {"read", "import"} /\ failCount \in Nat
      /\ lines[pos + 1] \in Kinds
  BY <1>0 DEF ReadLine, RecoveryTypeOK, Lines
<1>2. ShareLines' = ShareLines
  BY DEF ReadLine, ShareLines
<1>3. shares' \subseteq ShareLines /\ shares \subseteq shares'
      /\ (\A i \in shares' : i \in shares \/ i = pos + 1)
      /\ (lines[pos + 1] = "share" => pos + 1 \in shares')
  BY <1>0, <1>1 DEF ReadLine, RecoveryTypeOK, ShareLines
<1>4. failCount' \in Nat /\ failCount' <= pos' + errors'
      /\ (failCount' = 0 => failCount = 0 /\ lines[pos + 1] # "bad")
  BY <1>0, <1>1 DEF ReadLine, RecoveryTypeOK, RInv, Counted
<1>5. RecoveryTypeOK'
  BY <1>0, <1>1, <1>2, <1>3, <1>4 DEF ReadLine, RecoveryTypeOK
<1>6. Read' /\ AtEnd' /\ Growing' /\ Unread' /\ Counted'
  BY <1>0, <1>1, <1>3, <1>4 DEF RInv, ReadLine, Read, AtEnd, Growing, Unread, Counted, Working, RecoveryTypeOK, Lines
<1>7. Listed'
  <2> SUFFICES ASSUME NEW i \in shares' PROVE imported[i] <= before[i] + doubtful[i]
    BY DEF Listed, ReadLine
  <2>1. CASE i \in shares
    BY <2>1, <1>1 DEF RInv, Listed, Working
  <2>2. CASE i = pos + 1
    BY <2>2, <1>0, <1>1 DEF RInv, Unread, RecoveryTypeOK, Lines
  <2> QED
    BY <2>1, <2>2, <1>3
<1>8. Clean'
  <2> SUFFICES ASSUME failCount' = 0
               PROVE  /\ \A i \in 1..pos' : lines[i] # "bad"
                      /\ \A i \in Lines : doubtful[i] = 0
                      /\ \A i \in ShareLines : i <= pos' =>
                           imported[i] = before[i] + (IF i \in shares' THEN 0 ELSE 1)
    BY <1>1, <1>2 DEF Clean, ReadLine, Working
  <2>1. failCount = 0 /\ lines[pos + 1] # "bad"
    BY <1>4
  <2>2. \A i \in 1..pos' : i \in 1..pos \/ i = pos + 1
    BY <1>1
  <2>3. ASSUME NEW i \in ShareLines, i <= pos'
        PROVE  imported[i] = before[i] + (IF i \in shares' THEN 0 ELSE 1)
    <3>1. i \in Nat /\ i \in Lines /\ imported[i] \in Nat /\ before[i] \in Nat
      BY <1>0 DEF Lines, RecoveryTypeOK
    <3>2. CASE i <= pos
      <4>1. i \in shares' <=> i \in shares
        BY <3>1, <3>2, <1>1, <1>3
      <4> QED
        BY <4>1, <3>2, <2>1, <1>1 DEF RInv, Clean, Working
    <3>3. CASE i = pos + 1
      BY <3>1, <3>3, <1>1, <1>3 DEF RInv, Unread, ShareLines
    <3> QED
      BY <2>3, <3>1, <3>2, <3>3, <1>1
  <2> QED
    BY <2>1, <2>2, <2>3 DEF RInv, Clean
<1>9. NothingDropped' /\ ImportedOnce'
  <2>1. ASSUME NEW i \in ShareLines, i <= pos'
        PROVE  imported[i] > before[i] \/ i \in shares'
    <3>1. i \in Nat
      BY <1>0 DEF Lines
    <3>2. CASE i <= pos
      BY <3>2, <1>3 DEF RInv, NothingDropped, Imported
    <3>3. CASE i = pos + 1
      BY <3>3, <1>3 DEF ShareLines
    <3> QED
      BY <2>1, <3>1, <3>2, <3>3, <1>1
  <2> QED
    BY <2>1, <1>2 DEF RInv, NothingDropped, ImportedOnce, Imported, ReadLine
<1> QED
  BY <1>5, <1>6, <1>7, <1>8, <1>9 DEF RInv

LEMMA EndOfStreamStep == RInv /\ EndOfStream => RInv'
<1> SUFFICES ASSUME RInv, EndOfStream PROVE RInv'
  OBVIOUS
<1>0. RecoveryTypeOK /\ ShareLines \subseteq Lines
  BY ShareLinesAreLines DEF RInv
<1>1. ShareLines' = ShareLines /\ step = "read" /\ step' \in {"last", "done"} /\ (step' = "done" => shares = {})
  BY DEF EndOfStream, ShareLines
<1>2. RecoveryTypeOK'
  BY <1>0, <1>1 DEF EndOfStream, RecoveryTypeOK
<1>3. Read' /\ AtEnd' /\ Growing' /\ Unread' /\ Counted' /\ Listed' /\ NothingDropped' /\ ImportedOnce'
  BY <1>0, <1>1 DEF RInv, EndOfStream, Read, AtEnd, Growing, Unread, Counted, Listed, NothingDropped,
     ImportedOnce, Imported, Working
<1>4. Clean'
  BY <1>0, <1>1 DEF RInv, EndOfStream, Clean, Working
<1> QED
  BY <1>2, <1>3, <1>4 DEF RInv

\* An import gives every share of the list a row.
LEMMA ImportStep == RInv /\ ImportShares => RInv'
<1> SUFFICES ASSUME RInv, ImportShares PROVE RInv'
  OBVIOUS
<1> USE RecoveryAssumption
<1>0. RecoveryTypeOK /\ ShareLines \subseteq Lines /\ shares \subseteq Lines /\ shares \subseteq ShareLines
  BY ShareLinesAreLines DEF RInv, RecoveryTypeOK
<1>1. ShareLines' = ShareLines
  BY DEF ImportShares, ShareLines
<1>2. /\ step \in Working
      /\ \/ step' = "read" /\ shares' = {}
         \/ step' = "done" /\ shares' = shares
      /\ step' = "done" => step = "last"
  BY DEF ImportShares, Working
<1>3. successCount' \in 0..MaxLines /\ (step' = "read" => successCount' = 0)
  <2>1. Cardinality({}) = 0
    BY FS_EmptySet
  <2>2. Cardinality(shares) \in 0..MaxLines
    BY <1>0, ListIsBounded
  <2>3. successCount = 0
    BY <1>2 DEF RInv, Counted
  <2> QED
    BY <2>1, <2>2, <2>3 DEF ImportShares
<1>4. /\ imported' \in [Lines -> Nat]
      /\ \A i \in Lines : imported'[i] = imported[i] + (IF i \in shares THEN 1 ELSE 0)
      /\ \A i \in Lines : imported[i] \in Nat /\ before[i] \in Nat /\ doubtful[i] \in Nat
  BY <1>0 DEF ImportShares, ImportRows, RecoveryTypeOK
<1>5. RecoveryTypeOK'
  BY <1>0, <1>1, <1>2, <1>3, <1>4 DEF ImportShares, RecoveryTypeOK
<1>6. \A i \in shares : imported'[i] <= before[i] + 1 + doubtful[i]
  BY <1>0, <1>2, <1>4 DEF RInv, Listed
<1>7. Read' /\ AtEnd' /\ Counted'
  BY <1>2, <1>3 DEF RInv, ImportShares, Read, AtEnd, Counted, Working
<1>8. Growing'
  BY <1>4 DEF RInv, ImportShares, Growing
<1>9. Unread'
  <2>1. \A i \in Lines : i > pos => i \notin shares
    BY <1>0 DEF RInv, Read, RecoveryTypeOK, Lines
  <2> QED
    BY <2>1, <1>4 DEF RInv, ImportShares, Unread
<1>10. Listed'
  BY <1>2 DEF Listed, Working
<1>11. Clean'
  <2> SUFFICES ASSUME failCount = 0, NEW i \in ShareLines, i <= pos
               PROVE  imported'[i] = before[i] + 1
    BY <1>1, <1>2 DEF RInv, Clean, ImportShares, Working
  <2>1. i \in Lines
    BY <1>0
  <2>2. imported[i] = before[i] + (IF i \in shares THEN 0 ELSE 1)
    BY <1>2 DEF RInv, Clean
  <2> QED
    BY <2>1, <2>2, <1>4
<1>12. NothingDropped'
  <2> SUFFICES ASSUME NEW i \in ShareLines, i <= pos
               PROVE  imported'[i] > before[i]
    BY <1>1 DEF NothingDropped, Imported, ImportShares
  <2>1. i \in Lines /\ imported[i] >= before[i]
    BY <1>0, <1>4 DEF RInv, Growing
  <2>2. imported[i] > before[i] \/ i \in shares
    BY DEF RInv, NothingDropped, Imported
  <2> QED
    BY <2>1, <2>2, <1>4
<1>13. ImportedOnce'
  BY <1>4, <1>6 DEF RInv, ImportedOnce, ImportShares
<1> QED
  BY <1>5, <1>7, <1>8, <1>9, <1>10, <1>11, <1>12, <1>13 DEF RInv

\* A failed import keeps the list; a row it left behind is accounted for by doubtful.
LEMMA ImportFailsStep == RInv /\ ImportFails => RInv'
<1> SUFFICES ASSUME RInv, ImportFails PROVE RInv'
  OBVIOUS
<1> USE RecoveryAssumption
<1>0. RecoveryTypeOK /\ ShareLines \subseteq Lines /\ shares \subseteq Lines
  BY ShareLinesAreLines DEF RInv
<1>1. /\ ShareLines' = ShareLines /\ shares' = shares /\ step \in Working
      /\ failCount' = failCount + 1 /\ errors' = errors + 1 /\ failCount' # 0
      /\ errors' \in 0..MaxFailures /\ failCount \in Nat
  BY <1>0 DEF ImportFails, Kept, ShareLines, Working, RecoveryTypeOK
<1>2. /\ imported' \in [Lines -> Nat] /\ doubtful' \in [Lines -> Nat]
      /\ \A i \in Lines : imported[i] \in Nat /\ before[i] \in Nat /\ doubtful[i] \in Nat
      /\ \A i \in Lines \ shares : imported'[i] = imported[i] /\ doubtful'[i] = doubtful[i]
      /\ \A i \in shares : \/ imported'[i] = imported[i] /\ doubtful'[i] = doubtful[i]
                           \/ imported'[i] = imported[i] + 1 /\ doubtful'[i] = doubtful[i] + 1
  <2>1. CASE UNCHANGED <<imported, doubtful>>
    BY <2>1, <1>0 DEF RecoveryTypeOK
  <2>2. CASE ImportRows /\ doubtful' = [i \in Lines |-> doubtful[i] + (IF i \in shares THEN 1 ELSE 0)]
    BY <2>2, <1>0 DEF ImportRows, RecoveryTypeOK
  <2> QED
    BY <2>1, <2>2 DEF ImportFails
<1>3. Counted' /\ Read' /\ AtEnd' /\ Clean'
  BY <1>0, <1>1 DEF RInv, ImportFails, Counted, Read, AtEnd, Clean, Working, RecoveryTypeOK
<1>4. failCount' \in 0..(MaxLines + MaxFailures)
  BY <1>0, <1>1 DEF RInv, Counted, RecoveryTypeOK
<1>5. RecoveryTypeOK'
  BY <1>0, <1>1, <1>2, <1>4 DEF ImportFails, RecoveryTypeOK
<1>6. Growing'
  BY <1>0, <1>2 DEF RInv, ImportFails, Growing
<1>7. Unread'
  <2>1. \A i \in Lines : i > pos => i \notin shares
    BY <1>0 DEF RInv, Read, RecoveryTypeOK, Lines
  <2> QED
    BY <2>1, <1>2 DEF RInv, ImportFails, Unread
<1>8. Listed'
  <2>1. \A i \in shares : imported'[i] <= before[i] + doubtful'[i]
    BY <1>0, <1>1, <1>2 DEF RInv, Listed
  <2> QED
    BY <2>1, <1>1 DEF Listed, ImportFails
<1>9. NothingDropped'
  BY <1>0, <1>1, <1>2 DEF RInv, ImportFails, NothingDropped, Imported
<1>10. ImportedOnce'
  BY <1>0, <1>2 DEF RInv, ImportFails, ImportedOnce
<1> QED
  BY <1>3, <1>5, <1>6, <1>7, <1>8, <1>9, <1>10 DEF RInv

\* A further run counts from the rows that are there.
LEMMA RunAgainStep == RInv /\ RunAgain => RInv'
<1> SUFFICES ASSUME RInv, RunAgain PROVE RInv'
  OBVIOUS
<1> USE RecoveryAssumption
<1>0. RecoveryTypeOK /\ ShareLines \subseteq Lines
  BY ShareLinesAreLines DEF RInv
<1>1. ShareLines' = ShareLines
  BY DEF RunAgain, ShareLines
<1>2. RecoveryTypeOK'
  BY <1>0 DEF RunAgain, RecoveryTypeOK, ShareLines
<1>3. Read' /\ AtEnd' /\ Growing' /\ Unread' /\ Listed' /\ Counted' /\ ImportedOnce'
  BY <1>0 DEF RunAgain, RecoveryTypeOK, Read, AtEnd, Growing, Unread, Listed, Counted, ImportedOnce
<1>4. \A i \in ShareLines : ~(i <= 0)
  BY DEF ShareLines
<1>5. Clean' /\ NothingDropped'
  BY <1>1, <1>4 DEF RunAgain, Clean, NothingDropped
<1> QED
  BY <1>2, <1>3, <1>5 DEF RInv

LEMMA StepRInv == RInv /\ [RecoveryNext]_recoveryVars => RInv'
<1> SUFFICES ASSUME RInv, [RecoveryNext]_recoveryVars PROVE RInv'
  OBVIOUS
<1>1. CASE UNCHANGED recoveryVars
  BY <1>1 DEF RInv, recoveryVars, RecoveryTypeOK, Read, AtEnd, Growing, Unread, Listed, Clean, Counted,
     NothingDropped, ImportedOnce, Imported, ShareLines
<1> QED
  BY <1>1, ReadLineStep, EndOfStreamStep, ImportStep, ImportFailsStep, RunAgainStep
     DEF RecoveryNext, RecoverShares

-----------------------------------------------------------------------------
LEMMA RecoveryInvariance == RecoverySpec => []RInv
BY InitRInv, StepRInv, PTL DEF RecoverySpec

\* RecoverShares: whatever imports fail, a share that has been read is in the database or
\* still in the list that the next import takes.
THEOREM NothingIsDropped == RecoverySpec => []NothingDropped
<1>1. RInv => NothingDropped
  BY DEF RInv
<1> QED
  BY <1>1, RecoveryInvariance, PTL

\* RecoverShares: within a run a share gets a second row only by a commit that looked like a
\* failure.
THEOREM NoShareTwice == RecoverySpec => []ImportedOnce
<1>1. RInv => ImportedOnce
  BY DEF RInv
<1> QED
  BY <1>1, RecoveryInvariance, PTL

\* RecoverShares: a run that reports no failure has imported each share of the file once.
THEOREM CleanRunIsComplete == RecoverySpec => []CleanRunImportsOnce
<1>1. RInv => CleanRunImportsOnce
  <2> SUFFICES ASSUME RInv, step = "done", failCount = 0, NEW i \in 1..Len(lines)
               PROVE  lines[i] # "bad" /\ (lines[i] = "share" => imported[i] = before[i] + 1)
    BY DEF CleanRunImportsOnce
  <2>1. pos = Len(lines) /\ i \in 1..pos
    BY DEF RInv, AtEnd
  <2>2. Len(lines) \in Nat
    BY DEF RInv, RecoveryTypeOK
  <2>3. lines[i] # "bad"
    BY <2>1 DEF RInv, Clean
  <2>4. lines[i] = "share" => i \in ShareLines /\ i <= pos
    BY <2>1, <2>2 DEF ShareLines
  <2> QED
    BY <2>3, <2>4 DEF RInv, Clean, Working
<1> QED
  BY <1>1, RecoveryInvariance, PTL
=============================================================================
