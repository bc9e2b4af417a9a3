----------------------------- MODULE DagProofs ------------------------------
(***************************************************************************)
(* Proofs about Dag, for any number of callers, Dag objects, epochs,       *)
(* chunks of a file, failures and crashes.                                 *)
(*                                                                         *)
(* That a handle maps complete data rests on the magic number: a file has  *)
(* one only when its data is complete (Sealed), a handle is made only when *)
(* the file has one (Mapped), and a file that has one is never written     *)
(* again, because a generation that writes has found none (Progress) and   *)
(* no two generations run at a time (Exclusive).  Sealed is about the      *)
(* files alone, hence survives a crash.                                    *)
(*                                                                         *)
(* That a Dag in use is not evicted rests on the order of the cache: since *)
(* a Dag in use was asked for, only Dags of the two recent epochs, or of   *)
(* the one before when a new epoch has begun since, went behind it         *)
(* (Recent), and the Dags of the cache are of different epochs (Objects).  *)
(***************************************************************************)
EXTENDS Dag, SequenceTheorems, FiniteSetTheorems, TLAPS

Filling == {"create", "size", "map", "fill", "seal"}
Generating == {"open", "match"} \cup Filling

\* Dags, files and steps are records.
Records ==
  /\ \A d \in DOMAIN dags : DOMAIN dags[d] = {"epoch", "handle"}
  /\ DOMAIN file = Epochs
  /\ \A e \in Epochs : DOMAIN file[e] = {"size", "magic", "filled"} /\ file[e].filled \in Nat
  /\ DOMAIN at = Actors
  /\ \A a \in Actors : DOMAIN at[a] = {"pc", "dag"}

\* Every Dag that is referred to is there, and the Dags of the cache are of different epochs.
Objects ==
  /\ DOMAIN dags \subseteq Ids
  /\ \A d \in DOMAIN dags : dags[d].epoch \in Epochs
  /\ caches \in Seq(Ids)
  /\ \A i \in DOMAIN caches : caches[i] \in DOMAIN dags
  /\ \A i, j \in DOMAIN caches : dags[caches[i]].epoch = dags[caches[j]].epoch => i = j
  /\ future # Null => future \in DOMAIN dags
  /\ \A a \in Actors : at[a].pc # "none" => at[a].dag \in DOMAIN dags
  /\ \A a \in Actors : at[a].pc = "none" => at[a].dag = Null
  /\ tip \in 1..MaxTip

\* A magic number says that the data is complete.
Sealed == \A e \in Epochs : file[e].magic => file[e].size = "full" /\ file[e].filled = Chunks

\* A handle was made from a file with its magic number, and the file keeps it.
Mapped == \A d \in DOMAIN dags : dags[d].handle => file[dags[d].epoch].magic

Exclusive == \A a \in Actors : at[a].pc \in Generating => sem = a

\* What a generation has found or done.
Found(f, pc) ==
  /\ pc \in Filling => ~f.magic
  /\ pc \in {"size", "map"} => f.filled = 0
  /\ pc \in {"map", "fill", "seal"} => f.size = "full"
  /\ pc = "fill" => f.filled < Chunks
  /\ pc = "seal" => f.filled = Chunks
  /\ pc = "match" => f.magic

Progress == \A a \in Actors : at[a].pc \in Generating => Found(file[EpochOf(a)], at[a].pc)

GInv == Records /\ Objects /\ Sealed /\ Mapped /\ Exclusive /\ Progress

\* A Dag in use is of the present epoch or the one before, and so are those used since.
Recent ==
  \A c \in Callers, i \in DOMAIN caches :
    at[c].dag = caches[i] =>
      /\ dags[caches[i]].epoch \in {tip - 1, tip}
      /\ \A j \in DOMAIN caches : j > i =>
           /\ dags[caches[j]].epoch \in {tip - 2, tip - 1, tip}
           /\ dags[caches[i]].epoch = tip => dags[caches[j]].epoch = tip - 1

UInv == GInv /\ InUseIsCached /\ Recent

USE DEF Filling, Generating

-----------------------------------------------------------------------------
LEMMA EpochsFacts ==
  /\ MaxTip \in Nat \ {0} /\ Null \notin Ids /\ Null \notin Actors /\ Chunks \in Nat \ {0}
  /\ Epochs \subseteq Nat
  /\ Callers \subseteq Actors /\ Pre \subseteq Actors
  /\ \A t \in 1..MaxTip : \A e \in {t - 1, t} : e \in Epochs /\ e + 1 \in Epochs
BY DagAssumption DEF Epochs, Actors

\* An identity that is not in use.
LEMMA NewIdFacts ==
  ASSUME DOMAIN dags \subseteq Ids, Ids # DOMAIN dags
  PROVE  NewId \in Ids /\ NewId \notin DOMAIN dags /\ NewId # Null
<1> DEFINE T == Ids \ DOMAIN dags
           R == OpToRel(<, Nat)
<1>1. T # {} /\ T \subseteq Nat
  BY DagAssumption
<1>2. IsWellFoundedOn(R, Nat)
  BY NatLessThanWellFounded
<1>3. PICK x \in T : \A y \in T : <<y, x>> \notin R
  <2> HIDE DEF T, R
  <2> QED
    BY <1>1, <1>2, WFMin
<1>4. \A y \in T : x <= y
  <2> TAKE y \in T
  <2>1. x \in Nat /\ y \in Nat
    BY <1>1
  <2>2. y < x => <<y, x>> \in R
    BY <2>1 DEF OpToRel
  <2> HIDE DEF R
  <2> QED
    BY <1>3, <2>1, <2>2
<1>5. Min(T) \in T
  <2> HIDE DEF T
  <2> QED
    BY <1>3, <1>4 DEF Min
<1> QED
  BY <1>5, DagAssumption DEF NewId

\* What is collected is referred to by nothing.
LEMMA CollectedFacts ==
  ASSUME NEW ds, dags' = Collected(ds)
  PROVE  /\ DOMAIN dags' \subseteq DOMAIN ds
         /\ \A d \in DOMAIN dags' : dags'[d] = ds[d]
         /\ \A i \in DOMAIN caches' :
              caches'[i] \in DOMAIN ds /\ caches'[i] # Null => caches'[i] \in DOMAIN dags'
         /\ future' \in DOMAIN ds /\ future' # Null => future' \in DOMAIN dags'
         /\ \A a \in Actors : at'[a].dag \in DOMAIN ds /\ at'[a].dag # Null => at'[a].dag \in DOMAIN dags'
<1>1. DOMAIN dags' = DOMAIN ds \cap Live' /\ \A d \in DOMAIN dags' : dags'[d] = ds[d]
  BY DEF Collected
<1>2. Live' = (Range(caches') \cup {future'} \cup {at'[a].dag : a \in Actors}) \ {Null}
  BY DEF Live
<1>3. \A i \in DOMAIN caches' : caches'[i] \in Range(caches')
  BY DEF Range
<1> QED
  BY <1>1, <1>2, <1>3

LEMMA InitUInv == Init => UInv
<1> SUFFICES ASSUME Init PROVE UInv
  OBVIOUS
<1>1. dags = <<>> /\ DOMAIN dags = {} /\ caches = <<>> /\ DOMAIN caches = {} /\ caches \in Seq(Ids)
  BY DEF Init
<1>2. DOMAIN at = Actors /\ \A a \in Actors : at[a] = AtRest
  BY DEF Init
<1>3. \A a \in Actors : at[a].pc = "none" /\ at[a].dag = Null /\ DOMAIN at[a] = {"pc", "dag"}
  BY <1>2 DEF AtRest
<1>4. /\ DOMAIN file = Epochs
      /\ \A e \in Epochs : /\ DOMAIN file[e] = {"size", "magic", "filled"}
                           /\ file[e].filled \in Nat /\ ~file[e].magic
  BY DEF Init, NoFile
<1>5. Records
  BY <1>1, <1>2, <1>3, <1>4 DEF Records
<1>6. Objects
  BY <1>1, <1>3, EpochsFacts DEF Objects, Init
<1>7. Sealed /\ Mapped /\ Exclusive /\ Progress
  BY <1>1, <1>3, <1>4 DEF Sealed, Mapped, Exclusive, Progress
<1>8. InUseIsCached /\ Recent
  BY <1>1, <1>3, EpochsFacts DEF InUseIsCached, Recent
<1> QED
  BY <1>5, <1>6, <1>7, <1>8 DEF UInv, GInv

-----------------------------------------------------------------------------
(***************************************************************************)
(* One actor takes a step of a generation                                  *)
(***************************************************************************)
LEMMA StepFacts ==
  ASSUME GInv, NEW a \in Actors, NEW from, NEW to, Step(a, from, to)
  PROVE  /\ at[a].pc = from /\ at'[a].pc = to /\ at'[a].dag = at[a].dag
         /\ \A b \in Actors : b # a => at'[b] = at[b]
         /\ DOMAIN at' = Actors
         /\ \A b \in Actors : DOMAIN at'[b] = {"pc", "dag"} /\ at'[b].dag = at[b].dag
<1>1. DOMAIN at = Actors /\ \A b \in Actors : DOMAIN at[b] = {"pc", "dag"}
  BY DEF GInv, Records
<1>2. at' = [at EXCEPT ![a] = [at[a] EXCEPT !.pc = to]] /\ at[a].pc = from
  BY DEF Step
<1>3. at'[a] = [at[a] EXCEPT !.pc = to] /\ \A b \in Actors : b # a => at'[b] = at[b]
  BY <1>1, <1>2
<1>4. at'[a].pc = to /\ at'[a].dag = at[a].dag /\ DOMAIN at'[a] = {"pc", "dag"}
  BY <1>1, <1>3
<1> QED
  BY <1>1, <1>2, <1>3, <1>4

\* The generation goes on: only the file of its epoch may change, and what it has found
\* holds of it.  Nobody maps that file without its magic number.
LEMMA GenerationStep ==
  ASSUME GInv, NEW a \in Actors, at[a].pc \in Generating,
         NEW to \in Generating, Step(a, at[a].pc, to),
         UNCHANGED <<dags, caches, future, sem, tip>>,
         DOMAIN file' = Epochs,
         \A e \in Epochs : e # EpochOf(a) => file'[e] = file[e],
         DOMAIN file'[EpochOf(a)] = {"size", "magic", "filled"}, file'[EpochOf(a)].filled \in Nat,
         Found(file'[EpochOf(a)], to),
         file' = file \/ (at[a].pc \in Filling /\ ~file'[EpochOf(a)].magic)
  PROVE  GInv'
<1>1. /\ at'[a].pc = to /\ DOMAIN at' = Actors
      /\ \A b \in Actors : b # a => at'[b] = at[b]
      /\ \A b \in Actors : DOMAIN at'[b] = {"pc", "dag"} /\ at'[b].dag = at[b].dag
  BY StepFacts
<1>2. at[a].dag \in DOMAIN dags /\ EpochOf(a) \in Epochs
  BY DEF GInv, Objects, EpochOf
<1>3. \A b \in Actors : b # a => at[b].pc \notin Generating
  BY DEF GInv, Exclusive
<1>4. Records'
  BY <1>1 DEF GInv, Records
<1>5. Objects'
  BY <1>1 DEF GInv, Objects
<1>6. Sealed'
  BY DEF GInv, Sealed
<1>7. Mapped'
  <2> SUFFICES ASSUME NEW d \in DOMAIN dags, dags[d].handle PROVE file'[dags[d].epoch].magic
    BY DEF Mapped
  <2>1. dags[d].epoch \in Epochs /\ file[dags[d].epoch].magic
    BY DEF GInv, Mapped, Objects
  <2>2. CASE file' = file
    BY <2>1, <2>2
  <2>3. CASE at[a].pc \in Filling
    BY <2>1, <2>3 DEF GInv, Progress, Found
  <2> QED
    BY <2>2, <2>3
<1>8. Exclusive'
  BY <1>1, <1>3 DEF GInv, Exclusive
<1>9. Progress'
  BY <1>1, <1>3 DEF Progress, EpochOf
<1> QED
  BY <1>4, <1>5, <1>6, <1>7, <1>8, <1>9 DEF GInv

\* A file with one field changed.
LEMMA FileFacts ==
  ASSUME GInv, NEW e \in Epochs
  PROVE  /\ DOMAIN file = Epochs
         /\ DOMAIN file[e] = {"size", "magic", "filled"} /\ file[e].filled \in Nat
BY DEF GInv, Records

LEMMA OpenStep ==
  ASSUME GInv, NEW a \in Actors, at[a].pc = "open", UNCHANGED <<file, caches, future, tip, dags, sem>>,
         Step(a, "open", IF Matches(file[EpochOf(a)]) THEN "match" ELSE "create")
  PROVE  GInv'
<1>1. at[a].dag \in DOMAIN dags /\ EpochOf(a) \in Epochs
  BY DEF GInv, Objects, EpochOf
<1>2. CASE Matches(file[EpochOf(a)])
  <2>1. Step(a, at[a].pc, "match") /\ Found(file'[EpochOf(a)], "match")
    BY <1>2 DEF Matches, Found
  <2> QED
    BY <1>1, <2>1, FileFacts, GenerationStep
<1>3. CASE ~Matches(file[EpochOf(a)])
  <2>1. Step(a, at[a].pc, "create")
    BY <1>3
  <2>2. Found(file'[EpochOf(a)], "create")
    BY <1>1, <1>3 DEF GInv, Sealed, Matches, Found
  <2> QED
    BY <1>1, <2>1, <2>2, FileFacts, GenerationStep
<1> QED
  BY <1>2, <1>3

LEMMA CreateStep ==
  ASSUME GInv, NEW a \in Actors, at[a].pc = "create", UNCHANGED <<caches, future, tip, dags, sem>>,
         Step(a, "create", "size"),
         file' = [file EXCEPT ![EpochOf(a)] = [size |-> "wrong", magic |-> FALSE, filled |-> 0]]
  PROVE  GInv'
<1> DEFINE f == [size |-> "wrong", magic |-> FALSE, filled |-> 0]
<1>1. EpochOf(a) \in Epochs
  BY DEF GInv, Objects, EpochOf
<1>2. /\ DOMAIN file' = Epochs /\ file'[EpochOf(a)] = f
      /\ \A e \in Epochs : e # EpochOf(a) => file'[e] = file[e]
  BY <1>1, FileFacts
<1>3. DOMAIN f = {"size", "magic", "filled"} /\ f.filled = 0 /\ f.filled \in Nat /\ ~f.magic
  OBVIOUS
<1>4. Found(f, "size")
  BY <1>3 DEF Found
<1>5. at[a].pc = "create" /\ Step(a, at[a].pc, "size") /\ UNCHANGED <<dags, caches, future, sem, tip>>
  OBVIOUS
<1> HIDE DEF f
<1>6. DOMAIN file'[EpochOf(a)] = {"size", "magic", "filled"} /\ file'[EpochOf(a)].filled \in Nat
      /\ ~file'[EpochOf(a)].magic /\ Found(file'[EpochOf(a)], "size")
  <2>1. file'[EpochOf(a)] = f
    BY <1>2
  <2> QED
    BY <2>1, <1>3, <1>4, Zenon
<1> QED
  BY <1>2, <1>5, <1>6, GenerationStep

LEMMA SizeStep ==
  ASSUME GInv, NEW a \in Actors, at[a].pc = "size", UNCHANGED <<caches, future, tip, dags, sem>>,
         Step(a, "size", "map"),
         file' = [file EXCEPT ![EpochOf(a)].size = "full"]
  PROVE  GInv'
<1> DEFINE f == file[EpochOf(a)]
           g == [f EXCEPT !.size = "full"]
<1>1. EpochOf(a) \in Epochs
  BY DEF GInv, Objects, EpochOf
<1>2. /\ DOMAIN file' = Epochs /\ file'[EpochOf(a)] = g
      /\ \A e \in Epochs : e # EpochOf(a) => file'[e] = file[e]
  BY <1>1, FileFacts
<1>3. DOMAIN f = {"size", "magic", "filled"} /\ f.filled = 0 /\ ~f.magic
  BY <1>1, FileFacts DEF GInv, Progress, Found
<1> HIDE DEF f
<1>4. DOMAIN g = {"size", "magic", "filled"} /\ g.filled = 0 /\ g.size = "full" /\ g.magic = f.magic
  BY <1>3
<1> HIDE DEF g
<1>5. Found(g, "map")
  BY <1>3, <1>4 DEF Found
<1> QED
  BY <1>2, <1>3, <1>4, <1>5, GenerationStep

LEMMA MapStep ==
  ASSUME GInv, NEW a \in Actors, at[a].pc = "map", UNCHANGED <<file, caches, future, tip, dags, sem>>,
         Step(a, "map", "fill")
  PROVE  GInv'
<1>1. EpochOf(a) \in Epochs
  BY DEF GInv, Objects, EpochOf
<1>2. Found(file[EpochOf(a)], "fill")
  <2>1. Found(file[EpochOf(a)], "map")
    BY DEF GInv, Progress
  <2> QED
    BY <2>1, EpochsFacts DEF Found
<1> QED
  BY <1>1, <1>2, FileFacts, GenerationStep

LEMMA FillStep ==
  ASSUME GInv, NEW a \in Actors, Fill(a)
  PROVE  GInv'
<1> DEFINE f == file[EpochOf(a)]
           n == f.filled + 1
           g == [f EXCEPT !.filled = n]
           to == IF n = Chunks THEN "seal" ELSE "fill"
<1>0. /\ at[a].pc = "fill" /\ Step(a, "fill", to) /\ UNCHANGED <<dags, caches, future, sem, tip>>
      /\ file' = [file EXCEPT ![EpochOf(a)].filled = n]
  BY DEF Fill, Step
<1>1. EpochOf(a) \in Epochs
  BY <1>0 DEF GInv, Objects, EpochOf
<1>2. /\ DOMAIN file' = Epochs /\ file'[EpochOf(a)] = g
      /\ \A e \in Epochs : e # EpochOf(a) => file'[e] = file[e]
  BY <1>0, <1>1, FileFacts
<1>3. Found(f, "fill") /\ DOMAIN f = {"size", "magic", "filled"} /\ f.filled \in Nat
  BY <1>0, <1>1, FileFacts DEF GInv, Progress
<1>4. n \in Nat /\ n <= Chunks /\ Chunks \in Nat
  BY <1>3, EpochsFacts DEF Found
<1> HIDE DEF f, n
<1>5. DOMAIN g = {"size", "magic", "filled"} /\ g.filled = n /\ g.size = f.size /\ g.magic = f.magic
  BY <1>3
<1> HIDE DEF g
<1>6. Found(g, to) /\ to \in Generating /\ ~g.magic
  BY <1>3, <1>4, <1>5 DEF Found
<1> HIDE DEF to
<1> QED
  BY <1>0, <1>2, <1>4, <1>5, <1>6, GenerationStep

-----------------------------------------------------------------------------
(***************************************************************************)
(* An actor is done with a generation or with its Dag                      *)
(***************************************************************************)

\* Dags that are not referred to are collected; the others keep their epochs.
LEMMA LeaveStep ==
  ASSUME GInv, NEW a \in Actors, at[a].pc # "none",
         NEW x, at' = [at EXCEPT ![a] = x], DOMAIN x = {"pc", "dag"}, x.pc \notin Generating,
         (x.pc = "none" /\ x.dag = Null) \/ (x.pc # "none" /\ x.dag = at[a].dag),
         NEW ds, dags' = Collected(ds), DOMAIN ds = DOMAIN dags,
         \A d \in DOMAIN ds : DOMAIN ds[d] = {"epoch", "handle"} /\ ds[d].epoch = dags[d].epoch,
         \A d \in DOMAIN ds : ds[d].handle => dags[d].handle \/ file'[dags[d].epoch].magic,
         UNCHANGED <<caches, future, tip>>,
         sem' = sem \/ at[a].pc \in Generating,
         DOMAIN file' = Epochs,
         \A e \in Epochs : e # EpochOf(a) => file'[e] = file[e],
         DOMAIN file'[EpochOf(a)] = {"size", "magic", "filled"}, file'[EpochOf(a)].filled \in Nat,
         file'[EpochOf(a)].magic => file'[EpochOf(a)].size = "full" /\ file'[EpochOf(a)].filled = Chunks,
         file' = file \/ at[a].pc \in Filling
  PROVE  GInv'
<1>1. /\ DOMAIN at' = Actors /\ at'[a] = x /\ \A b \in Actors : b # a => at'[b] = at[b]
      /\ \A b \in Actors : DOMAIN at'[b] = {"pc", "dag"}
  BY DEF GInv, Records
<1>2. /\ DOMAIN dags' \subseteq DOMAIN dags
      /\ \A d \in DOMAIN dags' : dags'[d] = ds[d] /\ dags'[d].epoch = dags[d].epoch
      /\ \A i \in DOMAIN caches : caches[i] \in DOMAIN dags /\ caches[i] # Null => caches[i] \in DOMAIN dags'
      /\ future \in DOMAIN dags /\ future # Null => future \in DOMAIN dags'
      /\ \A b \in Actors : at'[b].dag \in DOMAIN dags /\ at'[b].dag # Null => at'[b].dag \in DOMAIN dags'
  BY CollectedFacts
<1>3. Null \notin DOMAIN dags
  BY EpochsFacts DEF GInv, Objects
<1>4. Records'
  <2>1. \A d \in DOMAIN dags' : DOMAIN dags'[d] = {"epoch", "handle"}
    BY <1>2
  <2>2. \A e \in Epochs : DOMAIN file'[e] = {"size", "magic", "filled"} /\ file'[e].filled \in Nat
    <3> TAKE e \in Epochs
    <3>1. CASE e = EpochOf(a)
      BY <3>1
    <3>2. CASE e # EpochOf(a)
      BY <3>2 DEF GInv, Records
    <3> QED
      BY <3>1, <3>2
  <2> QED
    BY <1>1, <2>1, <2>2 DEF Records
<1>5. \A b \in Actors : /\ at'[b].pc # "none" => at'[b].dag = at[b].dag /\ at'[b].dag \in DOMAIN dags'
                        /\ at'[b].pc = "none" => at'[b].dag = Null
  BY <1>1, <1>2, <1>3 DEF GInv, Objects
<1>6. \A i \in DOMAIN caches : caches[i] \in DOMAIN dags' /\ dags'[caches[i]].epoch = dags[caches[i]].epoch
  BY <1>2, <1>3 DEF GInv, Objects
<1>7. Objects'
  <2>1. DOMAIN dags' \subseteq Ids /\ \A d \in DOMAIN dags' : dags'[d].epoch \in Epochs
    BY <1>2 DEF GInv, Objects
  <2>2. caches' \in Seq(Ids) /\ tip' \in 1..MaxTip /\ caches' = caches
    BY DEF GInv, Objects
  <2>3. \A i, j \in DOMAIN caches : dags'[caches[i]].epoch = dags'[caches[j]].epoch => i = j
    BY <1>6 DEF GInv, Objects
  <2>4. future' # Null => future' \in DOMAIN dags'
    BY <1>2 DEF GInv, Objects
  <2> QED
    BY <1>5, <1>6, <2>1, <2>2, <2>3, <2>4 DEF Objects
<1>8. Sealed'
  BY DEF GInv, Sealed
<1>9. Mapped'
  <2> SUFFICES ASSUME NEW d \in DOMAIN dags', dags'[d].handle PROVE file'[dags'[d].epoch].magic
    BY DEF Mapped
  <2>1. d \in DOMAIN dags /\ ds[d].handle /\ dags'[d].epoch = dags[d].epoch /\ dags[d].epoch \in Epochs
    BY <1>2 DEF GInv, Objects
  <2>2. CASE dags[d].handle
    <3>1. file[dags[d].epoch].magic
      BY <2>1, <2>2 DEF GInv, Mapped
    <3>2. CASE file' = file
      BY <2>1, <3>1, <3>2
    <3>3. CASE at[a].pc \in Filling
      BY <2>1, <3>1, <3>3 DEF GInv, Progress, Found
    <3> QED
      BY <3>2, <3>3
  <2>3. CASE file'[dags[d].epoch].magic
    BY <2>1, <2>3
  <2> QED
    BY <2>1, <2>2, <2>3
<1>10. Exclusive'
  BY <1>1 DEF GInv, Exclusive
<1>11. Progress'
  <2> SUFFICES ASSUME NEW b \in Actors, at'[b].pc \in Generating
               PROVE  Found(file'[EpochOf(b)'], at'[b].pc)
    BY DEF Progress
  <2>1. b # a /\ at'[b] = at[b] /\ at[b].pc \in Generating
    BY <1>1
  <2>2. at[a].pc \notin Generating
    BY <2>1 DEF GInv, Exclusive
  <2>3. file' = file
    BY <2>2
  <2>4. EpochOf(b)' = EpochOf(b)
    BY <1>2, <1>5, <2>1 DEF EpochOf
  <2> QED
    BY <2>1, <2>3, <2>4 DEF GInv, Progress
<1> QED
  BY <1>4, <1>7, <1>8, <1>9, <1>10, <1>11 DEF GInv

\* A generation that failed, or a call that is over.
LEMMA RestStep ==
  ASSUME GInv, NEW a \in Actors, at[a].pc # "none",
         at' = [at EXCEPT ![a] = AtRest], dags' = Collected(dags), UNCHANGED <<caches, future, tip>>,
         sem' = sem \/ at[a].pc \in Generating,
         file' = file
  PROVE  GInv'
<1>1. DOMAIN AtRest = {"pc", "dag"} /\ AtRest.pc = "none" /\ AtRest.dag = Null
  BY DEF AtRest
<1>2. EpochOf(a) \in Epochs
  BY DEF GInv, Objects, EpochOf
<1>3. /\ DOMAIN file' = Epochs /\ DOMAIN file'[EpochOf(a)] = {"size", "magic", "filled"}
      /\ file'[EpochOf(a)].filled \in Nat
      /\ file'[EpochOf(a)].magic => file'[EpochOf(a)].size = "full" /\ file'[EpochOf(a)].filled = Chunks
  BY <1>2, FileFacts DEF GInv, Sealed
<1>4. \A d \in DOMAIN dags : DOMAIN dags[d] = {"epoch", "handle"}
  BY DEF GInv, Records
<1> HIDE DEF AtRest
<1> QED
  BY <1>1, <1>3, <1>4, LeaveStep

LEMMA GeneratedFacts ==
  ASSUME GInv, NEW a \in Actors, at[a].pc # "none"
  PROVE  /\ DOMAIN Generated(a) = {"pc", "dag"} /\ Generated(a).pc \notin Generating
         /\ \/ Generated(a).pc = "none" /\ Generated(a).dag = Null
            \/ Generated(a).pc # "none" /\ Generated(a).dag = at[a].dag
<1>1. DOMAIN at[a] = {"pc", "dag"}
  BY DEF GInv, Records
<1>2. CASE a \in Callers
  <2>1. Generated(a) = [at[a] EXCEPT !.pc = "have"]
    BY <1>2 DEF Generated
  <2> QED
    BY <1>1, <2>1
<1>3. CASE a \notin Callers
  <2>1. Generated(a) = AtRest
    BY <1>3 DEF Generated
  <2> QED
    BY <2>1 DEF AtRest
<1> QED
  BY <1>2, <1>3

\* The handle is made while the file has its magic number.
LEMMA DoneStep ==
  ASSUME GInv, NEW a \in Actors, at[a].pc \in Generating, Done(a), UNCHANGED <<caches, future, tip>>,
         DOMAIN file' = Epochs,
         \A e \in Epochs : e # EpochOf(a) => file'[e] = file[e],
         DOMAIN file'[EpochOf(a)] = {"size", "magic", "filled"}, file'[EpochOf(a)].filled \in Nat,
         file'[EpochOf(a)].magic, file'[EpochOf(a)].size = "full", file'[EpochOf(a)].filled = Chunks,
         file' = file \/ at[a].pc \in Filling
  PROVE  GInv'
<1> DEFINE x == Generated(a)
           d0 == at[a].dag
           ds == [dags EXCEPT ![d0].handle = TRUE]
<1>1. /\ DOMAIN x = {"pc", "dag"} /\ x.pc \notin Generating
      /\ \/ x.pc = "none" /\ x.dag = Null
         \/ x.pc # "none" /\ x.dag = at[a].dag
  BY GeneratedFacts
<1>2. at' = [at EXCEPT ![a] = x] /\ dags' = Collected(ds)
  BY DEF Done
<1>3. d0 \in DOMAIN dags /\ \A d \in DOMAIN dags : DOMAIN dags[d] = {"epoch", "handle"}
  BY DEF GInv, Objects, Records
<1>4. DOMAIN ds = DOMAIN dags
  OBVIOUS
<1>5. ASSUME NEW d \in DOMAIN dags
      PROVE  /\ DOMAIN ds[d] = {"epoch", "handle"} /\ ds[d].epoch = dags[d].epoch
             /\ ds[d].handle => dags[d].handle \/ file'[dags[d].epoch].magic
  <2>1. CASE d = d0
    <3>1. ds[d] = [dags[d] EXCEPT !.handle = TRUE]
      BY <2>1, <1>3
    <3>2. DOMAIN ds[d] = {"epoch", "handle"} /\ ds[d].epoch = dags[d].epoch
      BY <3>1, <1>3
    <3>3. file'[dags[d].epoch].magic
      BY <2>1 DEF EpochOf
    <3> QED
      BY <3>2, <3>3
  <2>2. CASE d # d0
    <3>1. ds[d] = dags[d]
      BY <2>2, <1>3
    <3> QED
      BY <3>1, <1>3
  <2> QED
    BY <2>1, <2>2
<1> HIDE DEF x, ds, d0
<1>6. \A d \in DOMAIN ds : DOMAIN ds[d] = {"epoch", "handle"} /\ ds[d].epoch = dags[d].epoch
  BY <1>4, <1>5
<1>7. \A d \in DOMAIN ds : ds[d].handle => dags[d].handle \/ file'[dags[d].epoch].magic
  BY <1>4, <1>5
<1>8. at[a].pc # "none" /\ (sem' = sem \/ at[a].pc \in Generating)
  OBVIOUS
<1> QED
  BY <1>1, <1>2, <1>4, <1>6, <1>7, <1>8, LeaveStep

LEMMA FailsStep ==
  ASSUME GInv, NEW a \in Actors, at[a].pc \in Generating, Fails(a), UNCHANGED <<caches, future, tip, file>>
  PROVE  GInv'
<1>1. at[a].pc # "none"
  OBVIOUS
<1> QED
  BY <1>1, RestStep DEF Fails

\* The data is complete when the magic number is written, and the flush may fail all the same.
LEMMA SealStep ==
  ASSUME GInv, NEW a \in Actors, Seal(a)
  PROVE  GInv'
<1> DEFINE e0 == EpochOf(a)
           f == file[e0]
<1>0. at[a].pc = "seal" /\ UNCHANGED <<caches, future, tip>>
  BY DEF Seal
<1>1. e0 \in Epochs /\ DOMAIN file = Epochs
  BY <1>0 DEF GInv, Objects, EpochOf, Records
<1>2. /\ DOMAIN f = {"size", "magic", "filled"} /\ f.filled \in Nat
      /\ f.size = "full" /\ f.filled = Chunks
  BY <1>0, <1>1, FileFacts DEF GInv, Progress, Found
<1>3. ASSUME NEW m, file' = [file EXCEPT ![EpochOf(a)].magic = m]
      PROVE  /\ DOMAIN file' = Epochs
             /\ \A e \in Epochs : e # e0 => file'[e] = file[e]
             /\ DOMAIN file'[e0] = {"size", "magic", "filled"} /\ file'[e0].filled \in Nat
             /\ file'[e0].size = "full" /\ file'[e0].filled = Chunks /\ file'[e0].magic = m
  <2> DEFINE g == [f EXCEPT !.magic = m]
  <2>1. DOMAIN file' = Epochs /\ file'[e0] = g /\ \A e \in Epochs : e # e0 => file'[e] = file[e]
    BY <1>1, <1>3
  <2> HIDE DEF f, e0
  <2>2. DOMAIN g = {"size", "magic", "filled"} /\ g.filled = f.filled /\ g.size = f.size /\ g.magic = m
    BY <1>2
  <2> HIDE DEF g
  <2> QED
    BY <2>1, <2>2, <1>2
<1>4. CASE file' = [file EXCEPT ![EpochOf(a)].magic = TRUE] /\ Done(a)
  <2>1. file'[e0].magic = TRUE
    BY <1>3, <1>4
  <2>2. file'[e0].magic
    BY <2>1
  <2>3. /\ DOMAIN file' = Epochs
        /\ \A e \in Epochs : e # e0 => file'[e] = file[e]
        /\ DOMAIN file'[e0] = {"size", "magic", "filled"} /\ file'[e0].filled \in Nat
        /\ file'[e0].size = "full" /\ file'[e0].filled = Chunks
    BY <1>3, <1>4
  <2>4. at[a].pc \in Filling /\ Done(a)
    BY <1>0, <1>4
  <2> QED
    BY <1>0, <2>2, <2>3, <2>4, DoneStep
<1>5. ASSUME NEW m \in BOOLEAN, file' = [file EXCEPT ![EpochOf(a)].magic = m], Fails(a)
      PROVE  GInv'
  <2>1. /\ DOMAIN file' = Epochs
        /\ \A e \in Epochs : e # e0 => file'[e] = file[e]
        /\ DOMAIN file'[e0] = {"size", "magic", "filled"} /\ file'[e0].filled \in Nat
        /\ file'[e0].size = "full" /\ file'[e0].filled = Chunks
    BY <1>3, <1>5
  <2>2. at' = [at EXCEPT ![a] = AtRest] /\ dags' = Collected(dags)
    BY <1>5 DEF Fails
  <2>3. DOMAIN AtRest = {"pc", "dag"} /\ AtRest.pc = "none" /\ AtRest.dag = Null
    BY DEF AtRest
  <2>4. \A d \in DOMAIN dags : DOMAIN dags[d] = {"epoch", "handle"}
    BY DEF GInv, Records
  <2>5. at[a].pc # "none" /\ at[a].pc \in Filling
    BY <1>0
  <2> QED
    BY <1>0, <2>1, <2>2, <2>3, <2>4, <2>5, LeaveStep
<1> QED
  BY <1>4, <1>5 DEF Seal

LEMMA AcquireStep ==
  ASSUME GInv, NEW a \in Actors, Acquire(a)
  PROVE  GInv'
<1>0. at[a].pc = "wait" /\ sem = Null /\ UNCHANGED <<file, caches, future, tip>>
  BY DEF Acquire
<1>1. EpochOf(a) \in Epochs
  BY <1>0 DEF GInv, Objects, EpochOf
<1>2. CASE dags[at[a].dag].handle
  <2> DEFINE x == Generated(a)
  <2>1. at' = [at EXCEPT ![a] = x] /\ sem' = sem /\ dags' = Collected(dags)
    BY <1>2 DEF Acquire
  <2>2. /\ DOMAIN x = {"pc", "dag"} /\ x.pc \notin Generating
        /\ \/ x.pc = "none" /\ x.dag = Null
           \/ x.pc # "none" /\ x.dag = at[a].dag
    BY <1>0, GeneratedFacts
  <2>3. /\ DOMAIN file' = Epochs /\ DOMAIN file'[EpochOf(a)] = {"size", "magic", "filled"}
        /\ file'[EpochOf(a)].filled \in Nat
        /\ file'[EpochOf(a)].magic => file'[EpochOf(a)].size = "full" /\ file'[EpochOf(a)].filled = Chunks
    BY <1>0, <1>1, FileFacts DEF GInv, Sealed
  <2>4. \A d \in DOMAIN dags : DOMAIN dags[d] = {"epoch", "handle"}
    BY DEF GInv, Records
  <2>5. at[a].pc # "none"
    BY <1>0
  <2> HIDE DEF x
  <2> QED
    BY <1>0, <2>1, <2>2, <2>3, <2>4, <2>5, LeaveStep
<1>3. CASE ~dags[at[a].dag].handle
  <2>0. Step(a, "wait", "open") /\ sem' = a /\ UNCHANGED dags
    BY <1>3 DEF Acquire
  <2>1. /\ at'[a].pc = "open" /\ DOMAIN at' = Actors
        /\ \A b \in Actors : b # a => at'[b] = at[b]
        /\ \A b \in Actors : DOMAIN at'[b] = {"pc", "dag"} /\ at'[b].dag = at[b].dag
    BY <2>0, StepFacts
  <2>2. \A b \in Actors : at[b].pc \notin Generating
    BY <1>0, EpochsFacts DEF GInv, Exclusive
  <2>3. Records' /\ Objects' /\ Sealed' /\ Mapped'
    BY <1>0, <2>0, <2>1 DEF GInv, Records, Objects, Sealed, Mapped
  <2>4. Exclusive' /\ Progress'
    BY <2>0, <2>1, <2>2 DEF Exclusive, Progress, Found
  <2> QED
    BY <2>3, <2>4 DEF GInv
<1> QED
  BY <1>2, <1>3

LEMMA GenerateStep ==
  ASSUME GInv, NEW a \in Actors, Generate(a)
  PROVE  GInv'
<1>1. CASE Open(a)
  BY <1>1, OpenStep, FailsStep DEF Open
<1>2. CASE Create(a)
  BY <1>2, CreateStep, FailsStep DEF Create
<1>3. CASE Size(a)
  BY <1>3, SizeStep, FailsStep DEF Size
<1>4. CASE Map(a)
  <2>1. CASE at[a].pc = "map" /\ Step(a, "map", "fill") /\ UNCHANGED <<dags, sem>>
    BY <1>4, <2>1, MapStep DEF Map
  <2>2. CASE at[a].pc = "match" /\ Done(a)
    <3>1. UNCHANGED <<file, caches, future, tip>>
      BY <1>4 DEF Map
    <3>2. EpochOf(a) \in Epochs
      BY <2>2 DEF GInv, Objects, EpochOf
    <3>3. file[EpochOf(a)].magic
      BY <2>2 DEF GInv, Progress, Found
    <3>4. file[EpochOf(a)].size = "full" /\ file[EpochOf(a)].filled = Chunks
      BY <3>2, <3>3 DEF GInv, Sealed
    <3> QED
      BY <2>2, <3>1, <3>2, <3>3, <3>4, FileFacts, DoneStep
  <2>3. CASE Fails(a)
    BY <1>4, <2>3, FailsStep DEF Map
  <2> QED
    BY <1>4, <2>1, <2>2, <2>3 DEF Map
<1> QED
  BY <1>1, <1>2, <1>3, <1>4, AcquireStep, FillStep, SealStep DEF Generate

LEMMA ComputeStep ==
  ASSUME GInv, NEW c \in Callers, Compute(c)
  PROVE  GInv'
BY EpochsFacts, RestStep DEF Compute

LEMMA NextEpochStep ==
  ASSUME GInv, NextEpoch
  PROVE  GInv'
<1>1. tip' \in 1..MaxTip /\ UNCHANGED <<file, dags, caches, future, sem, at>>
  BY EpochsFacts DEF GInv, Objects, NextEpoch
<1>2. Records' /\ Sealed' /\ Mapped' /\ Exclusive' /\ Progress'
  BY <1>1 DEF GInv, Records, Sealed, Mapped, Exclusive, Progress, EpochOf
<1>3. Objects'
  BY <1>1 DEF GInv, Objects
<1> QED
  BY <1>2, <1>3 DEF GInv

\* The files stay: those with a magic number are complete.
LEMMA CrashStep ==
  ASSUME GInv, Crash
  PROVE  GInv' /\ (InUseIsCached /\ Recent)'
<1>1. /\ DOMAIN dags' = {} /\ caches' = <<>> /\ DOMAIN caches' = {} /\ caches' \in Seq(Ids)
      /\ UNCHANGED <<file, tip>> /\ future' = Null
  BY DEF Crash
<1>2. DOMAIN at' = Actors /\ \A a \in Actors : at'[a] = AtRest
  BY DEF Crash
<1>3. \A a \in Actors : at'[a].pc = "none" /\ at'[a].dag = Null /\ DOMAIN at'[a] = {"pc", "dag"}
  BY <1>2 DEF AtRest
<1>4. Records' /\ Sealed' /\ Mapped' /\ Exclusive' /\ Progress'
  BY <1>1, <1>2, <1>3 DEF GInv, Records, Sealed, Mapped, Exclusive, Progress
<1>5. Objects'
  BY <1>1, <1>3 DEF GInv, Objects
<1>6. InUseIsCached' /\ Recent'
  BY <1>1, <1>3, EpochsFacts DEF InUseIsCached, Recent
<1> QED
  BY <1>4, <1>5, <1>6 DEF GInv

-----------------------------------------------------------------------------
(***************************************************************************)
(* GetDagAsync: a Dag goes to the end of the cache                         *)
(***************************************************************************)

\* The Dags of a call: new ones have no handle, the others keep their epochs.
Supplied(ds) ==
  /\ DOMAIN dags \subseteq DOMAIN ds /\ DOMAIN ds \subseteq Ids
  /\ \A d \in DOMAIN ds : DOMAIN ds[d] = {"epoch", "handle"} /\ ds[d].epoch \in Epochs
  /\ \A d \in DOMAIN dags : ds[d].epoch = dags[d].epoch
  /\ \A d \in DOMAIN ds : ds[d].handle => d \in DOMAIN dags /\ dags[d].handle

\* The cache is K of its Dags, in the order that they had, and then the one of epoch e.
Requeued(ds, K, m, d, e) ==
  /\ caches' \in Seq(Ids) /\ DOMAIN caches' = 1..(K + 1)
  /\ caches'[K + 1] = d /\ d \in DOMAIN ds /\ ds[d].epoch = e
  /\ \A j \in 1..K : m[j] \in DOMAIN caches /\ caches'[j] = caches[m[j]] /\ dags[caches[m[j]]].epoch # e
  /\ \A j, k \in 1..K : j < k => m[j] < m[k]

\* An actor is where it was, or starts on one of the Dags.
Called(ds) ==
  /\ DOMAIN at' = Actors
  /\ \A b \in Actors : DOMAIN at'[b] = {"pc", "dag"}
  /\ \A b \in Actors : at'[b] = at[b] \/ (at'[b].pc \in {"have", "wait"} /\ at'[b].dag \in DOMAIN ds)

LEMMA RequeuedFacts ==
  ASSUME GInv, NEW ds, Supplied(ds), NEW K \in Nat, NEW m, NEW d, NEW e, Requeued(ds, K, m, d, e)
  PROVE  /\ \A j \in DOMAIN caches' : caches'[j] \in DOMAIN ds
         /\ \A j, k \in DOMAIN caches' : ds[caches'[j]].epoch = ds[caches'[k]].epoch => j = k
<1> DEFINE L == K + 1
<1>0. DOMAIN caches \subseteq Int
  BY DEF GInv, Objects
<1>1. DOMAIN caches' = 1..L /\ L \in Nat /\ L = K + 1
  BY DEF Requeued
<1>2. \A j \in 1..K : /\ m[j] \in DOMAIN caches /\ caches'[j] = caches[m[j]]
                      /\ caches[m[j]] \in DOMAIN dags
                      /\ ds[caches'[j]].epoch = dags[caches[m[j]]].epoch
                      /\ ds[caches'[j]].epoch # e
  BY DEF Requeued, GInv, Objects, Supplied
<1>3. caches'[L] \in DOMAIN ds /\ ds[caches'[L]].epoch = e
  BY DEF Requeued
<1>4. \A j, k \in 1..K : j < k => m[j] < m[k]
  BY DEF Requeued
<1> HIDE DEF L
<1>5. \A j \in DOMAIN caches' : j \in 1..K \/ j = L
  BY <1>1
<1>6. \A j \in DOMAIN caches' : caches'[j] \in DOMAIN ds
  BY <1>2, <1>3, <1>5 DEF Supplied
<1>7. \A j, k \in 1..K : ds[caches'[j]].epoch = ds[caches'[k]].epoch => j = k
  <2> TAKE j, k \in 1..K
  <2> HAVE ds[caches'[j]].epoch = ds[caches'[k]].epoch
  <2>1. m[j] = m[k]
    BY <1>2 DEF GInv, Objects
  <2>2. m[j] \in Int /\ m[k] \in Int
    BY <1>0, <1>2
  <2> QED
    BY <1>4, <2>1, <2>2
<1>8. \A j, k \in DOMAIN caches' : ds[caches'[j]].epoch = ds[caches'[k]].epoch => j = k
  BY <1>2, <1>3, <1>5, <1>7
<1> QED
  BY <1>6, <1>8

LEMMA CallStep ==
  ASSUME GInv, NEW ds, Supplied(ds), NEW K \in Nat, NEW m, NEW d, NEW e, Requeued(ds, K, m, d, e),
         Called(ds), dags' = Collected(ds) \/ dags' = ds,
         future' # Null => future' \in DOMAIN ds,
         UNCHANGED <<file, sem, tip>>
  PROVE  GInv'
<1>0. Null \notin DOMAIN ds
  BY EpochsFacts DEF Supplied
<1>1. /\ \A j \in DOMAIN caches' : caches'[j] \in DOMAIN ds
      /\ \A j, k \in DOMAIN caches' : ds[caches'[j]].epoch = ds[caches'[k]].epoch => j = k
  BY RequeuedFacts
<1>2. \A b \in Actors : at'[b].pc # "none" => at'[b].dag \in DOMAIN ds
  BY DEF Called, GInv, Objects, Supplied
<1>3. DOMAIN dags' \subseteq DOMAIN ds /\ \A x \in DOMAIN dags' : dags'[x] = ds[x]
  BY CollectedFacts
<1>4. \A j \in DOMAIN caches' : caches'[j] \in DOMAIN dags'
  BY <1>0, <1>1, CollectedFacts
<1>5. future' # Null => future' \in DOMAIN dags'
  BY CollectedFacts
<1>6. \A b \in Actors : at'[b].pc # "none" => at'[b].dag \in DOMAIN dags'
  BY <1>0, <1>2, CollectedFacts
<1>7. Records'
  BY <1>3 DEF GInv, Records, Called, Supplied
<1>8. Objects'
  <2>1. DOMAIN dags' \subseteq Ids /\ \A x \in DOMAIN dags' : dags'[x].epoch \in Epochs
    BY <1>3 DEF Supplied
  <2>2. caches' \in Seq(Ids) /\ tip' \in 1..MaxTip
    BY DEF Requeued, GInv, Objects
  <2>3. \A j, k \in DOMAIN caches' : dags'[caches'[j]].epoch = dags'[caches'[k]].epoch => j = k
    BY <1>1, <1>3, <1>4
  <2>4. \A b \in Actors : at'[b].pc = "none" => at'[b].dag = Null
    BY DEF Called, GInv, Objects
  <2> QED
    BY <1>4, <1>5, <1>6, <2>1, <2>2, <2>3, <2>4 DEF Objects
<1>9. Sealed'
  BY DEF GInv, Sealed
<1>10. Mapped'
  BY <1>3 DEF GInv, Mapped, Supplied
<1>11. \A b \in Actors : at'[b].pc \in Generating => at'[b] = at[b] /\ EpochOf(b)' = EpochOf(b)
  <2> SUFFICES ASSUME NEW b \in Actors, at'[b].pc \in Generating
               PROVE  at'[b] = at[b] /\ EpochOf(b)' = EpochOf(b)
    OBVIOUS
  <2>1. at'[b] = at[b]
    BY DEF Called
  <2>2. at[b].dag \in DOMAIN dags /\ at[b].dag \in DOMAIN dags'
    BY <1>6, <2>1 DEF GInv, Objects
  <2> QED
    BY <1>3, <2>1, <2>2 DEF EpochOf, Supplied
<1>12. Exclusive' /\ Progress'
  BY <1>11 DEF GInv, Exclusive, Progress
<1> QED
  BY <1>7, <1>8, <1>9, <1>10, <1>12 DEF GInv

\* Where every other call's Dag is still in the cache, what is known of their order carries over.
LEMMA RecentStep ==
  ASSUME GInv, Recent, NEW ds, Supplied(ds), NEW K \in Nat, NEW m, NEW d, NEW e \in {tip - 1, tip},
         Requeued(ds, K, m, d, e), Called(ds), dags' = Collected(ds) \/ dags' = ds, tip' = tip,
         \A b \in Callers : at'[b] = at[b] \/ at'[b].dag = d
  PROVE  Recent'
<1> DEFINE L == K + 1
<1>1. DOMAIN caches' = 1..L /\ L \in Nat /\ L = K + 1 /\ caches'[L] = d /\ d \in DOMAIN ds /\ ds[d].epoch = e
  BY DEF Requeued
<1>2. \A j \in 1..K : /\ m[j] \in DOMAIN caches /\ caches'[j] = caches[m[j]]
                      /\ caches[m[j]] \in DOMAIN dags
                      /\ dags[caches[m[j]]].epoch # e
  BY DEF Requeued, GInv, Objects
<1>3. \A j, k \in 1..K : j < k => m[j] < m[k]
  BY DEF Requeued
<1>4. DOMAIN dags' \subseteq DOMAIN ds /\ \A x \in DOMAIN dags' : dags'[x] = ds[x]
  BY CollectedFacts
<1>5. \A j \in DOMAIN caches' : caches'[j] \in DOMAIN dags'
  <2>1. \A j \in DOMAIN caches' : caches'[j] \in DOMAIN ds
    BY RequeuedFacts
  <2>2. Null \notin DOMAIN ds
    BY EpochsFacts DEF Supplied
  <2> QED
    BY <2>1, <2>2, CollectedFacts
<1> HIDE DEF L
<1>6. \A j \in 1..L : j \in 1..K \/ j = L
  BY <1>1
<1>7. dags'[caches'[L]].epoch = e /\ \A j \in 1..K : dags'[caches'[j]].epoch = dags[caches[m[j]]].epoch
  <2>1. L \in 1..L /\ \A j \in 1..K : j \in 1..L
    BY <1>1
  <2>2. \A j \in 1..L : dags'[caches'[j]] = ds[caches'[j]]
    BY <1>1, <1>4, <1>5
  <2>3. \A j \in 1..K : ds[caches[m[j]]].epoch = dags[caches[m[j]]].epoch
    BY <1>2 DEF Supplied
  <2> QED
    BY <1>1, <1>2, <2>1, <2>2, <2>3
<1> SUFFICES ASSUME NEW c \in Callers, NEW i \in 1..L, at'[c].dag = caches'[i]
             PROVE  /\ dags'[caches'[i]].epoch \in {tip - 1, tip}
                    /\ \A j \in 1..L : j > i =>
                         /\ dags'[caches'[j]].epoch \in {tip - 2, tip - 1, tip}
                         /\ dags'[caches'[i]].epoch = tip => dags'[caches'[j]].epoch = tip - 1
  BY <1>1 DEF Recent
<1>8. CASE i = L
  BY <1>1, <1>7, <1>8
<1>9. CASE i \in 1..K
  <2>1. caches'[i] = caches[m[i]] /\ caches[m[i]] # d
    <3>1. dags[d].epoch = e \/ d \notin DOMAIN dags
      BY <1>1 DEF Supplied
    <3> QED
      BY <1>2, <1>9, <3>1
  <2>2. at[c].dag = caches[m[i]] /\ m[i] \in DOMAIN caches
    BY <1>2, <1>9, <2>1
  <2>3. /\ dags[caches[m[i]]].epoch \in {tip - 1, tip}
        /\ \A j \in DOMAIN caches : j > m[i] =>
             /\ dags[caches[j]].epoch \in {tip - 2, tip - 1, tip}
             /\ dags[caches[m[i]]].epoch = tip => dags[caches[j]].epoch = tip - 1
    BY <2>2 DEF Recent
  <2>4. dags'[caches'[i]].epoch = dags[caches[m[i]]].epoch
    BY <1>7, <1>9
  <2>5. ASSUME NEW j \in 1..L, j > i
        PROVE  /\ dags'[caches'[j]].epoch \in {tip - 2, tip - 1, tip}
               /\ dags'[caches'[i]].epoch = tip => dags'[caches'[j]].epoch = tip - 1
    <3>1. CASE j = L
      BY <3>1, <1>2, <1>7, <1>9, <2>4
    <3>2. CASE j \in 1..K
      <4>1. m[i] < m[j] /\ m[j] \in DOMAIN caches
        BY <3>2, <1>2, <1>3, <1>9, <2>5
      <4>2. DOMAIN caches \subseteq Int
        BY DEF GInv, Objects
      <4>3. m[j] > m[i]
        BY <4>1, <4>2, <2>2
      <4>4. dags'[caches'[j]].epoch = dags[caches[m[j]]].epoch
        BY <3>2, <1>7
      <4> QED
        BY <4>1, <4>3, <4>4, <2>3, <2>4
    <3> QED
      BY <3>1, <3>2, <1>6
  <2> QED
    BY <2>3, <2>4, <2>5
<1> QED
  BY <1>6, <1>8, <1>9

LEMMA RemoveAtFacts ==
  ASSUME NEW S, NEW s \in Seq(S), NEW i \in 1..Len(s)
  PROVE  /\ RemoveAt(s, i) \in Seq(S) /\ Len(RemoveAt(s, i)) = Len(s) - 1
         /\ \A j \in 1..(Len(s) - 1) : RemoveAt(s, i)[j] = IF j < i THEN s[j] ELSE s[j + 1]
<1> DEFINE n == Len(s)
           p == i - 1
           q == n - i
           k == i + 1
           t == SubSeq(s, 1, p)
           u == SubSeq(s, k, n)
<1>1. /\ n \in Nat /\ i \in Nat /\ p \in Nat /\ q \in Nat /\ p + q = n - 1 /\ \A j \in 1..n : s[j] \in S
      /\ p = i - 1 /\ q = n - i /\ k = i + 1 /\ 1 <= i /\ i <= n
  OBVIOUS
<1> HIDE DEF n, p, q, k
<1>2. t \in Seq(S) /\ Len(t) = p /\ \A j \in 1..p : t[j] = s[j]
  <2>1. \A j \in 1..p : s[j] \in S /\ p - 1 + 1 = p /\ 1 + j - 1 = j
    BY <1>1
  <2>2. /\ t \in Seq(S) /\ Len(t) = IF 1 <= p THEN p - 1 + 1 ELSE 0
        /\ \A j \in 1..(p - 1 + 1) : t[j] = s[1 + j - 1]
    BY <1>1, <2>1, SubSeqProperties
  <2> HIDE DEF t
  <2> QED
    BY <1>1, <2>1, <2>2
<1>3. u \in Seq(S) /\ Len(u) = q /\ \A j \in 1..q : u[j] = s[i + j]
  <2>1. k \in Int /\ n \in Int /\ \A j \in k..n : s[j] \in S
    BY <1>1
  <2>2. /\ u \in Seq(S) /\ Len(u) = IF k <= n THEN n - k + 1 ELSE 0
        /\ \A j \in 1..(n - k + 1) : u[j] = s[k + j - 1]
    <3>1. u \in Seq(S)
      BY <2>1, SubSeqProperties
    <3>2. Len(u) = IF k <= n THEN n - k + 1 ELSE 0
      BY <2>1, SubSeqProperties
    <3>3. \A j \in 1..(n - k + 1) : u[j] = s[k + j - 1]
      BY <2>1, SubSeqProperties
    <3> QED
      BY <3>1, <3>2, <3>3
  <2>3. n - k + 1 = q /\ \A j \in 1..q : k + j - 1 = i + j
    BY <1>1
  <2>4. (IF k <= n THEN n - k + 1 ELSE 0) = q
    BY <1>1
  <2> HIDE DEF u
  <2> QED
    BY <2>2, <2>3, <2>4
<1>4. RemoveAt(s, i) = t \o u
  BY DEF RemoveAt, p, k, n
<1> HIDE DEF t, u
<1>5. /\ t \o u \in Seq(S) /\ Len(t \o u) = p + q
      /\ \A j \in 1..(p + q) : (t \o u)[j] = IF j <= p THEN t[j] ELSE u[j - p]
  <2>1. /\ t \o u \in Seq(S) /\ Len(t \o u) = Len(t) + Len(u)
        /\ \A j \in 1..(Len(t) + Len(u)) : (t \o u)[j] = IF j <= Len(t) THEN t[j] ELSE u[j - Len(t)]
    <3>1. t \in Seq(S) /\ u \in Seq(S)
      BY <1>2, <1>3
    <3> QED
      BY <3>1, ConcatProperties, Zenon
  <2> QED
    BY <2>1, <1>2, <1>3
<1>6. \A j \in 1..(n - 1) : (t \o u)[j] = IF j < i THEN s[j] ELSE s[j + 1]
  <2> TAKE j \in 1..(n - 1)
  <2>1. CASE j < i
    <3>1. j \in 1..p /\ j <= p
      BY <1>1, <2>1
    <3> QED
      BY <1>1, <1>2, <1>5, <2>1, <3>1
  <2>2. CASE ~(j < i)
    <3>1. j - p \in 1..q /\ ~(j <= p) /\ i + (j - p) = j + 1 /\ j \in 1..(p + q)
      BY <1>1, <2>2
    <3>2. (t \o u)[j] = u[j - p]
      BY <1>5, <3>1
    <3>3. u[j - p] = s[i + (j - p)]
      BY <1>3, <3>1
    <3> QED
      BY <2>2, <3>1, <3>2, <3>3
  <2> QED
    BY <2>1, <2>2
<1> QED
  BY <1>1, <1>4, <1>5, <1>6 DEF n

\* A Dag that is cached goes to the end.
LEMMA HitOrder ==
  ASSUME GInv, NEW e, NEW i \in Cached(e), caches' = Append(RemoveAt(caches, i), caches[i]),
         NEW ds, Supplied(ds)
  PROVE  /\ \E K, m : K \in Nat /\ Requeued(ds, K, m, caches[i], e)
         /\ \A j \in DOMAIN caches : caches[j] \in Range(caches')
<1> DEFINE n == Len(caches)
           K == n - 1
           m == [j \in 1..K |-> IF j < i THEN j ELSE j + 1]
           u == RemoveAt(caches, i)
<1>1. caches \in Seq(Ids) /\ n \in Nat /\ DOMAIN caches = 1..n /\ i \in 1..n
  BY DEF GInv, Objects, Cached
<1>4. K \in Nat /\ n = K + 1 /\ 1..n = 1..(K + 1)
  BY <1>1
<1>5. /\ u \in Seq(Ids) /\ Len(u) = K
      /\ \A j \in 1..K : u[j] = IF j < i THEN caches[j] ELSE caches[j + 1]
  BY <1>1, RemoveAtFacts
<1> HIDE DEF u
<1>6. \A j \in 1..K : m[j] \in 1..n /\ m[j] # i /\ u[j] = caches[m[j]]
  BY <1>1, <1>5
<1>7. \A j, k \in 1..K : j < k => m[j] < m[k]
  BY <1>1
<1>8. caches' = Append(u, caches[i]) /\ caches[i] \in Ids
  BY <1>1 DEF u
<1> HIDE DEF K
<1>9. /\ caches' \in Seq(Ids) /\ DOMAIN caches' = 1..(K + 1) /\ caches'[K + 1] = caches[i]
      /\ \A j \in 1..K : caches'[j] = u[j]
  BY <1>4, <1>5, <1>8, AppendProperties
<1> USE DEF K
<1>10. \A j \in 1..n : j # i => \E k \in 1..K : m[k] = j
  <2> SUFFICES ASSUME NEW j \in 1..n, j # i PROVE \E k \in 1..K : m[k] = j
    OBVIOUS
  <2>1. CASE j < i
    <3>1. j \in 1..K /\ m[j] = j
      BY <1>1, <2>1
    <3> QED
      BY <3>1
  <2>2. CASE j > i
    <3>1. j - 1 \in 1..K /\ m[j - 1] = j
      BY <1>1, <2>2
    <3> QED
      BY <3>1
  <2> QED
    BY <1>1, <2>1, <2>2
<1> HIDE DEF m, K, n
<1>11. caches[i] \in DOMAIN dags /\ dags[caches[i]].epoch = e
  BY DEF GInv, Objects, Cached
<1>12. Requeued(ds, K, m, caches[i], e)
  <2>1. caches[i] \in DOMAIN ds /\ ds[caches[i]].epoch = e
    BY <1>11 DEF Supplied
  <2>2. \A j \in 1..K : m[j] \in DOMAIN caches /\ caches'[j] = caches[m[j]] /\ dags[caches[m[j]]].epoch # e
    <3> TAKE j \in 1..K
    <3>1. m[j] \in DOMAIN caches /\ i \in DOMAIN caches /\ m[j] # i /\ caches'[j] = caches[m[j]]
      BY <1>1, <1>6, <1>9
    <3> QED
      BY <3>1, <1>11 DEF GInv, Objects
  <2> QED
    BY <1>7, <1>9, <2>1, <2>2 DEF Requeued
<1>13. \A j \in DOMAIN caches : caches[j] \in Range(caches')
  <2> SUFFICES ASSUME NEW j \in 1..n PROVE \E k \in DOMAIN caches' : caches'[k] = caches[j]
    BY <1>1 DEF Range
  <2>1. CASE j = i
    <3>1. K + 1 \in DOMAIN caches'
      BY <1>4, <1>9
    <3> QED
      BY <2>1, <3>1, <1>9
  <2>2. CASE j # i
    <3>1. PICK k \in 1..K : m[k] = j
      BY <1>10, <2>2
    <3>2. k \in 1..(K + 1)
      BY <1>4
    <3> QED
      BY <3>1, <3>2, <1>6, <1>9
  <2> QED
    BY <2>1, <2>2
<1> QED
  BY <1>4, <1>12, <1>13

\* A Dag that is not cached is put at the end, after the oldest one where the cache is full.
LEMMA MissOrder ==
  ASSUME GInv, NEW e, Cached(e) = {}, NEW d \in Ids, caches' = Append(Remaining, d),
         NEW ds, Supplied(ds), d \in DOMAIN ds, ds[d].epoch = e
  PROVE  /\ \E K, m : K \in Nat /\ Requeued(ds, K, m, d, e)
         /\ \A j \in DOMAIN caches : caches[j] \in Range(caches') \/ (j = 1 /\ Len(caches) >= NumCaches)
<1> DEFINE n == Len(caches)
           full == n >= NumCaches
           r == Remaining
           K == IF full THEN n - 1 ELSE n
           m == [j \in 1..K |-> IF full THEN j + 1 ELSE j]
<1>1. caches \in Seq(Ids) /\ n \in Nat /\ DOMAIN caches = 1..n /\ NumCaches \in Nat \ {0}
  BY DagAssumption DEF GInv, Objects
<1>2. /\ r \in Seq(Ids) /\ Len(r) = K /\ K \in Nat /\ K <= n
      /\ \A j \in 1..K : m[j] \in 1..n /\ r[j] = caches[m[j]]
  <2>1. CASE full
    <3>1. r = Tail(caches) /\ K = n - 1 /\ caches # <<>> /\ \A j \in 1..K : m[j] = j + 1
      BY <1>1, <2>1 DEF Remaining
    <3>2. /\ Tail(caches) \in Seq(Ids) /\ Len(Tail(caches)) = n - 1
          /\ \A j \in 1..(n - 1) : Tail(caches)[j] = caches[j + 1]
      BY <1>1, <3>1, HeadTailProperties
    <3> HIDE DEF r, K, m
    <3> QED
      BY <1>1, <3>1, <3>2
  <2>2. CASE ~full
    <3>1. r = caches /\ K = n /\ \A j \in 1..K : m[j] = j
      BY <1>1, <2>2 DEF Remaining
    <3> HIDE DEF r, K, m
    <3> QED
      BY <1>1, <3>1
  <2> QED
    BY <2>1, <2>2
<1>3. \A j, k \in 1..K : j < k => m[j] < m[k]
  BY <1>1
<1>4. \A j \in 1..n : (j = 1 /\ full) \/ \E k \in 1..K : m[k] = j
  <2> SUFFICES ASSUME NEW j \in 1..n, ~(j = 1 /\ full) PROVE \E k \in 1..K : m[k] = j
    OBVIOUS
  <2>1. CASE full
    <3>1. j - 1 \in 1..K /\ m[j - 1] = j
      BY <1>1, <2>1
    <3> QED
      BY <3>1
  <2>2. CASE ~full
    <3>1. j \in 1..K /\ m[j] = j
      BY <1>1, <2>2
    <3> QED
      BY <3>1
  <2> QED
    BY <2>1, <2>2
<1> HIDE DEF r, K, m
<1>5. /\ caches' \in Seq(Ids) /\ DOMAIN caches' = 1..(K + 1) /\ caches'[K + 1] = d
      /\ \A j \in 1..K : caches'[j] = r[j]
  <2>1. caches' = Append(r, d)
    BY DEF r
  <2> QED
    BY <1>2, <2>1
<1>6. Requeued(ds, K, m, d, e)
  <2>1. \A j \in 1..K : m[j] \in DOMAIN caches /\ caches'[j] = caches[m[j]] /\ dags[caches[m[j]]].epoch # e
    <3> TAKE j \in 1..K
    <3>1. m[j] \in DOMAIN caches /\ caches'[j] = caches[m[j]]
      BY <1>1, <1>2, <1>5
    <3> QED
      BY <3>1 DEF Cached
  <2> QED
    BY <1>3, <1>5, <2>1 DEF Requeued
<1>7. \A j \in DOMAIN caches : caches[j] \in Range(caches') \/ (j = 1 /\ full)
  <2> SUFFICES ASSUME NEW j \in 1..n, ~(j = 1 /\ full) PROVE \E k \in DOMAIN caches' : caches'[k] = caches[j]
    BY <1>1 DEF Range
  <2>1. PICK k \in 1..K : m[k] = j
    BY <1>4
  <2>2. k \in 1..(K + 1)
    BY <1>2
  <2> QED
    BY <2>1, <2>2, <1>2, <1>5
<1> QED
  BY <1>2, <1>6, <1>7

\* A new Dag has no handle.
LEMMA NewDagFacts ==
  ASSUME GInv, NEW ds, Supplied(ds), DOMAIN ds = DOMAIN dags, Ids # DOMAIN dags, NEW e \in Epochs
  PROVE  /\ Supplied(NewDag(ds, NewId, e))
         /\ NewId \in DOMAIN NewDag(ds, NewId, e) /\ NewDag(ds, NewId, e)[NewId].epoch = e
         /\ NewId \in Ids
<1> DEFINE d == NewId
           n == [epoch |-> e, handle |-> FALSE]
           r == NewDag(ds, d, e)
<1>1. d \in Ids /\ d \notin DOMAIN dags
  BY NewIdFacts DEF GInv, Objects
<1> HIDE DEF d
<1>2. DOMAIN r = DOMAIN dags \cup {d} /\ r[d] = n /\ \A x \in DOMAIN dags : r[x] = ds[x]
  BY <1>1 DEF NewDag
<1>3. DOMAIN n = {"epoch", "handle"} /\ n.epoch = e /\ ~n.handle
  OBVIOUS
<1> HIDE DEF n, r
<1>4. DOMAIN r[d] = {"epoch", "handle"} /\ r[d].epoch = e /\ ~r[d].handle
  <2>1. r[d] = n
    BY <1>2
  <2> QED
    BY <2>1, <1>3, Zenon
<1>5. Supplied(r)
  BY <1>1, <1>2, <1>4 DEF Supplied
<1> QED
  BY <1>1, <1>2, <1>4, <1>5 DEF d, r

\* The Dags as they are.
LEMMA SuppliedFacts ==
  ASSUME GInv
  PROVE  Supplied(dags)
BY DEF GInv, Records, Objects, Supplied

LEMMA CalledFacts ==
  ASSUME GInv, NEW c \in Actors, NEW x, NEW ds, at' = [at EXCEPT ![c] = x],
         DOMAIN x = {"pc", "dag"}, x.pc \in {"have", "wait"}, x.dag \in DOMAIN ds
  PROVE  Called(ds) /\ at'[c].dag = x.dag /\ \A b \in Actors : b # c => at'[b] = at[b]
BY DEF GInv, Records, Called

LEMMA HitStep ==
  ASSUME GInv, NEW c \in Callers, NEW e \in {tip - 1, tip}, NEW i \in Cached(e), Hit(c, e, i),
         UNCHANGED <<file, sem, tip>>
  PROVE  GInv' /\ (InUseIsCached /\ Recent => InUseIsCached' /\ Recent')
<1> DEFINE d == caches[i]
           x == [pc |-> IF dags[d].handle THEN "have" ELSE "wait", dag |-> d]
           y == [pc |-> "wait", dag |-> NewId]
<1>1. d \in DOMAIN dags /\ e \in Epochs /\ e + 1 \in Epochs /\ c \in Actors /\ DOMAIN at = Actors
  BY EpochsFacts DEF GInv, Objects, Records, Cached
<1>2. DOMAIN x = {"pc", "dag"} /\ x.pc \in {"have", "wait"} /\ x.dag = d
  OBVIOUS
<1>3. DOMAIN y = {"pc", "dag"} /\ y.pc = "wait" /\ y.dag = NewId
  OBVIOUS
<1>4. Await(c, d) = [at EXCEPT ![c] = x]
  BY DEF Await
<1>5. caches' = Append(RemoveAt(caches, i), caches[i])
  BY DEF Hit
<1>6. \A b \in Callers : b \notin Pre
  BY DagAssumption
<1> HIDE DEF x, y
<1>7. ASSUME NEW ds, Supplied(ds), Called(ds), dags' = Collected(ds) \/ dags' = ds,
             future' # Null => future' \in DOMAIN ds,
             \A b \in Callers : at'[b] = at[b] \/ at'[b].dag = d
      PROVE  GInv' /\ (InUseIsCached /\ Recent => InUseIsCached' /\ Recent')
  <2>1. PICK K, m : K \in Nat /\ Requeued(ds, K, m, d, e)
    BY <1>5, <1>7, HitOrder
  <2>2. \A j \in DOMAIN caches : caches[j] \in Range(caches')
    BY <1>5, <1>7, HitOrder
  <2> HIDE DEF d
  <2>3. GInv'
    BY <1>7, <2>1, CallStep
  <2>4. ASSUME Recent PROVE Recent'
    BY <1>7, <2>1, <2>4, RecentStep
  <2>5. ASSUME InUseIsCached PROVE InUseIsCached'
    <3> SUFFICES ASSUME NEW b \in Callers, at'[b].pc # "none" PROVE at'[b].dag \in Range(caches')
      BY DEF InUseIsCached
    <3>1. CASE at'[b] = at[b]
      <4>1. PICK j \in DOMAIN caches : at[b].dag = caches[j]
        BY <2>5, <3>1 DEF InUseIsCached, Range
      <4> QED
        BY <3>1, <4>1, <2>2
    <3>2. CASE at'[b].dag = d
      BY <3>2, <2>2 DEF d, Cached
    <3> QED
      BY <3>1, <3>2, <1>7
  <2> QED
    BY <2>3, <2>4, <2>5
<1>8. CASE future = Null \/ dags[future].epoch <= e
  <2> DEFINE ds == NewDag(dags, NewId, e + 1)
             z == [at EXCEPT ![c] = x]
  <2>1. PICK p \in Pre : /\ Ids # DOMAIN dags /\ future' = NewId
                         /\ at' = [z EXCEPT ![p] = y]
                         /\ dags' = Collected(ds)
    BY <1>4, <1>8 DEF Hit, y
  <2>2. Supplied(ds) /\ NewId \in DOMAIN ds
    BY <1>1, <2>1, SuppliedFacts, NewDagFacts
  <2>3. p \in Actors /\ p # c /\ p \notin Callers
    BY <1>6 DEF Actors
  <2>4. /\ DOMAIN at' = Actors /\ at'[c] = x /\ at'[p] = y
        /\ \A b \in Actors : b # c /\ b # p => at'[b] = at[b]
    <3>1. DOMAIN z = Actors /\ z[c] = x /\ \A b \in Actors : b # c => z[b] = at[b]
      BY <1>1
    <3> HIDE DEF z
    <3> QED
      BY <1>1, <2>1, <2>3, <3>1
  <2>5. Called(ds)
    <3>1. d \in DOMAIN ds
      BY <1>1, <2>2 DEF Supplied
    <3> HIDE DEF ds, d
    <3> QED
      BY <1>2, <1>3, <2>2, <2>4, <3>1 DEF GInv, Records, Called
  <2>6. \A b \in Callers : at'[b] = at[b] \/ at'[b].dag = d
    BY <1>2, <2>3, <2>4, EpochsFacts
  <2> HIDE DEF ds, d
  <2> QED
    BY <1>7, <2>1, <2>2, <2>5, <2>6
<1>9. CASE ~(future = Null \/ dags[future].epoch <= e)
  <2>1. at' = [at EXCEPT ![c] = x] /\ future' = future /\ dags' = dags
    BY <1>4, <1>9 DEF Hit
  <2>2. Called(dags) /\ at'[c].dag = d /\ \A b \in Actors : b # c => at'[b] = at[b]
    BY <1>1, <1>2, <2>1, CalledFacts
  <2>3. future' # Null => future' \in DOMAIN dags
    BY <2>1 DEF GInv, Objects
  <2>4. \A b \in Callers : at'[b] = at[b] \/ at'[b].dag = d
    BY <2>2, EpochsFacts
  <2> HIDE DEF d
  <2> QED
    BY <1>7, <2>1, <2>2, <2>3, <2>4, SuppliedFacts
<1> QED
  BY <1>8, <1>9

\* Behind a Dag in use there is at most one other epoch that is not asked for: with three
\* caches such a Dag is never the oldest of a full cache.
LEMMA OldestIsIdle ==
  ASSUME GInv, Recent, NumCaches >= 3, Len(caches) >= NumCaches,
         NEW e \in {tip - 1, tip}, Cached(e) = {}, NEW b \in Callers
  PROVE  at[b].dag # caches[1]
<1> DEFINE E(j) == dags[caches[j]].epoch
<1>1. SUFFICES ASSUME at[b].dag = caches[1] PROVE FALSE
  OBVIOUS
<1>2. caches \in Seq(Ids) /\ NumCaches \in Nat
  BY DagAssumption DEF GInv, Objects
<1>3. 1 \in DOMAIN caches /\ 2 \in DOMAIN caches /\ 3 \in DOMAIN caches
  BY <1>2
<1>4. E(1) # E(2) /\ E(1) # E(3) /\ E(2) # E(3)
  BY <1>3 DEF GInv, Objects
<1>5. E(1) # e /\ E(2) # e /\ E(3) # e
  BY <1>3 DEF Cached
<1>6. /\ E(1) \in {tip - 1, tip}
      /\ E(2) \in {tip - 2, tip - 1, tip} /\ E(3) \in {tip - 2, tip - 1, tip}
      /\ E(1) = tip => E(2) = tip - 1 /\ E(3) = tip - 1
  BY <1>1, <1>3 DEF Recent
<1>7. tip \in Int
  BY DEF GInv, Objects
<1> HIDE DEF E
<1> QED
  BY <1>4, <1>5, <1>6, <1>7

LEMMA MissStep ==
  ASSUME GInv, NEW c \in Callers, at[c].pc = "none", NEW e \in {tip - 1, tip}, Cached(e) = {}, Miss(c, e),
         UNCHANGED <<file, sem, tip>>
  PROVE  /\ GInv'
         /\ Recent => Recent'
         /\ NumCaches >= 3 /\ InUseIsCached /\ Recent => InUseIsCached'
<1> DEFINE ready == future # Null /\ dags[future].epoch = e
           d == IF ready THEN future ELSE NewId
           ds == [x \in DOMAIN dags |-> [dags[x] EXCEPT !.handle = @ /\ x \notin Evicted]]
           dt == IF ready THEN ds ELSE NewDag(ds, d, e)
           has == ready /\ dags[future].handle
           x == [pc |-> IF has THEN "have" ELSE "wait", dag |-> d]
<1>1. /\ ready \/ Ids # DOMAIN dags
      /\ caches' = Append(Remaining, d)
      /\ future' = IF ready THEN Null ELSE future
      /\ at' = [at EXCEPT ![c] = x]
      /\ dags' = Collected(dt)
  BY DEF Miss
<1>2. e \in Epochs /\ c \in Actors
  BY EpochsFacts DEF GInv, Objects
<1>3. Supplied(ds) /\ DOMAIN ds = DOMAIN dags
  <2>1. DOMAIN ds = DOMAIN dags
    OBVIOUS
  <2>2. \A y \in DOMAIN dags : DOMAIN dags[y] = {"epoch", "handle"} /\ dags[y].epoch \in Epochs
    BY DEF GInv, Records, Objects
  <2>3. \A y \in DOMAIN dags : /\ DOMAIN ds[y] = {"epoch", "handle"} /\ ds[y].epoch = dags[y].epoch
                               /\ ds[y].handle = (dags[y].handle /\ y \notin Evicted)
    BY <2>2
  <2> HIDE DEF ds
  <2> QED
    BY <2>1, <2>2, <2>3 DEF Supplied, GInv, Objects
<1>4. Supplied(dt) /\ d \in DOMAIN dt /\ dt[d].epoch = e /\ d \in Ids
  <2> HIDE DEF ds
  <2>1. CASE ready
    <3>1. d = future /\ dt = ds /\ future \in DOMAIN dags /\ future \in Ids
      BY <2>1 DEF GInv, Objects
    <3> QED
      BY <1>3, <2>1, <3>1 DEF Supplied
  <2>2. CASE ~ready
    <3>1. d = NewId /\ dt = NewDag(ds, NewId, e) /\ Ids # DOMAIN dags
      BY <1>1, <2>2
    <3> QED
      BY <1>2, <1>3, <3>1, NewDagFacts
  <2> QED
    BY <2>1, <2>2
<1>5. DOMAIN x = {"pc", "dag"} /\ x.pc \in {"have", "wait"} /\ x.dag = d
  OBVIOUS
<1>6. future' # Null => future' \in DOMAIN dt
  BY <1>1, <1>4 DEF Supplied, GInv, Objects
<1> HIDE DEF x, d, ds, dt
<1>7. Called(dt) /\ at'[c].dag = d /\ \A b \in Actors : b # c => at'[b] = at[b]
  BY <1>1, <1>2, <1>4, <1>5, CalledFacts
<1>8. \A b \in Callers : at'[b] = at[b] \/ at'[b].dag = d
  BY <1>7, EpochsFacts
<1>9. /\ \E K, m : K \in Nat /\ Requeued(dt, K, m, d, e)
      /\ \A j \in DOMAIN caches : caches[j] \in Range(caches') \/ (j = 1 /\ Len(caches) >= NumCaches)
  BY <1>1, <1>4, MissOrder
<1>10. PICK K, m : K \in Nat /\ Requeued(dt, K, m, d, e)
  BY <1>9
<1>11. GInv'
  BY <1>1, <1>4, <1>6, <1>7, <1>10, CallStep
<1>12. ASSUME Recent PROVE Recent'
  BY <1>1, <1>4, <1>7, <1>8, <1>10, <1>12, RecentStep
<1>13. ASSUME NumCaches >= 3, InUseIsCached, Recent PROVE InUseIsCached'
  <2> SUFFICES ASSUME NEW b \in Callers, at'[b].pc # "none" PROVE at'[b].dag \in Range(caches')
    BY DEF InUseIsCached
  <2>1. CASE at'[b] = at[b]
    <3>1. PICK j \in DOMAIN caches : at[b].dag = caches[j]
      BY <1>13, <2>1 DEF InUseIsCached, Range
    <3>2. ~(j = 1 /\ Len(caches) >= NumCaches)
      BY <1>13, <3>1, OldestIsIdle
    <3> QED
      BY <1>9, <2>1, <3>1, <3>2
  <2>2. CASE at'[b].dag = d
    <3>1. K + 1 \in DOMAIN caches' /\ caches'[K + 1] = d
      BY <1>10 DEF Requeued
    <3> QED
      BY <2>2, <3>1 DEF Range
  <2> QED
    BY <1>8, <2>1, <2>2
<1> QED
  BY <1>11, <1>12, <1>13

-----------------------------------------------------------------------------
(***************************************************************************)
(* The other steps leave the cache alone                                   *)
(***************************************************************************)
LEMMA UseKept ==
  ASSUME GInv, InUseIsCached, Recent, UNCHANGED <<caches, tip>>,
         NEW a \in Actors, NEW x, at' = [at EXCEPT ![a] = x],
         (x.pc = "none" /\ x.dag = Null) \/ (at[a].pc # "none" /\ x.dag = at[a].dag),
         NEW ds, dags' = Collected(ds) \/ dags' = ds, DOMAIN ds = DOMAIN dags,
         \A d \in DOMAIN ds : ds[d].epoch = dags[d].epoch
  PROVE  InUseIsCached' /\ Recent'
<1>1. at'[a] = x /\ \A b \in Actors : b # a => at'[b] = at[b]
  BY DEF GInv, Records
<1>2. \A i \in DOMAIN caches : caches[i] \in DOMAIN dags /\ caches[i] # Null
  BY EpochsFacts DEF GInv, Objects
<1>3. \A i \in DOMAIN caches : dags'[caches[i]].epoch = dags[caches[i]].epoch
  <2> TAKE i \in DOMAIN caches
  <2>1. CASE dags' = ds
    BY <1>2, <2>1
  <2>2. CASE dags' = Collected(ds)
    <3>1. caches[i] \in DOMAIN dags' /\ \A d \in DOMAIN dags' : dags'[d] = ds[d]
      BY <1>2, <2>2, CollectedFacts
    <3> QED
      BY <1>2, <3>1
  <2> QED
    BY <2>1, <2>2
<1>4. \A c \in Callers : /\ at'[c].pc # "none" => at'[c].dag = at[c].dag /\ at[c].pc # "none"
                         /\ at'[c].dag # Null => at'[c].dag = at[c].dag
  BY <1>1, EpochsFacts
<1>5. InUseIsCached'
  BY <1>4 DEF InUseIsCached
<1>6. Recent'
  <2> SUFFICES ASSUME NEW c \in Callers, NEW i \in DOMAIN caches, at'[c].dag = caches[i]
               PROVE  /\ dags'[caches[i]].epoch \in {tip - 1, tip}
                      /\ \A j \in DOMAIN caches : j > i =>
                           /\ dags'[caches[j]].epoch \in {tip - 2, tip - 1, tip}
                           /\ dags'[caches[i]].epoch = tip => dags'[caches[j]].epoch = tip - 1
    BY DEF Recent
  <2>1. at[c].dag = caches[i]
    BY <1>2, <1>4
  <2>2. /\ dags[caches[i]].epoch \in {tip - 1, tip}
        /\ \A j \in DOMAIN caches : j > i =>
             /\ dags[caches[j]].epoch \in {tip - 2, tip - 1, tip}
             /\ dags[caches[i]].epoch = tip => dags[caches[j]].epoch = tip - 1
    BY <2>1 DEF Recent
  <2> QED
    BY <1>3, <2>2
<1> QED
  BY <1>5, <1>6

LEMMA RestKeepsUse ==
  ASSUME GInv, InUseIsCached, Recent, UNCHANGED <<caches, tip>>,
         NEW a \in Actors, at' = [at EXCEPT ![a] = AtRest], dags' = Collected(dags)
  PROVE  InUseIsCached' /\ Recent'
<1>1. AtRest.pc = "none" /\ AtRest.dag = Null
  BY DEF AtRest
<1> HIDE DEF AtRest
<1> QED
  BY <1>1, UseKept

LEMMA StepKeepsUse ==
  ASSUME GInv, InUseIsCached, Recent, UNCHANGED <<caches, tip, dags>>,
         NEW a \in Actors, NEW from, NEW to, from # "none", Step(a, from, to)
  PROVE  InUseIsCached' /\ Recent'
<1> DEFINE x == [at[a] EXCEPT !.pc = to]
<1>1. DOMAIN at[a] = {"pc", "dag"}
  BY DEF GInv, Records
<1>2. at' = [at EXCEPT ![a] = x] /\ at[a].pc # "none"
  BY DEF Step
<1>3. x.dag = at[a].dag
  BY <1>1
<1> HIDE DEF x
<1> QED
  BY <1>2, <1>3, UseKept

LEMMA DoneKeepsUse ==
  ASSUME GInv, InUseIsCached, Recent, UNCHANGED <<caches, tip>>,
         NEW a \in Actors, at[a].pc # "none", Done(a)
  PROVE  InUseIsCached' /\ Recent'
<1> DEFINE x == Generated(a)
           d0 == at[a].dag
           ds == [dags EXCEPT ![d0].handle = TRUE]
<1>1. (x.pc = "none" /\ x.dag = Null) \/ x.dag = at[a].dag
  BY GeneratedFacts
<1>2. at' = [at EXCEPT ![a] = x] /\ dags' = Collected(ds)
  BY DEF Done
<1>3. \A d \in DOMAIN dags : DOMAIN dags[d] = {"epoch", "handle"}
  BY DEF GInv, Records
<1> HIDE DEF d0
<1>4. DOMAIN ds = DOMAIN dags /\ \A d \in DOMAIN ds : ds[d].epoch = dags[d].epoch
  BY <1>3
<1> HIDE DEF x, ds
<1> QED
  BY <1>1, <1>2, <1>4, UseKept

LEMMA GenerateKeepsUse ==
  ASSUME GInv, InUseIsCached, Recent, NEW a \in Actors, Generate(a)
  PROVE  InUseIsCached' /\ Recent'
<1>1. CASE Acquire(a)
  <2>1. UNCHANGED <<caches, tip>> /\ at[a].pc # "none"
    BY <1>1 DEF Acquire
  <2>2. CASE dags[at[a].dag].handle
    <3> DEFINE x == Generated(a)
    <3>1. at' = [at EXCEPT ![a] = x] /\ dags' = Collected(dags)
      BY <1>1, <2>2 DEF Acquire
    <3>2. (x.pc = "none" /\ x.dag = Null) \/ x.dag = at[a].dag
      BY <2>1, GeneratedFacts
    <3> HIDE DEF x
    <3> QED
      BY <2>1, <3>1, <3>2, UseKept
  <2>3. CASE ~dags[at[a].dag].handle
    BY <1>1, <2>3, StepKeepsUse DEF Acquire
  <2> QED
    BY <2>2, <2>3
<1>2. CASE Open(a)
  <2>1. CASE Fails(a)
    BY <1>2, <2>1, RestKeepsUse DEF Open, Fails
  <2>2. CASE ~Fails(a)
    BY <1>2, <2>2, StepKeepsUse DEF Open
  <2> QED
    BY <2>1, <2>2
<1>3. CASE Create(a)
  <2>1. CASE Fails(a)
    BY <1>3, <2>1, RestKeepsUse DEF Create, Fails
  <2>2. CASE ~Fails(a)
    BY <1>3, <2>2, StepKeepsUse DEF Create
  <2> QED
    BY <2>1, <2>2
<1>4. CASE Size(a)
  <2>1. CASE Fails(a)
    BY <1>4, <2>1, RestKeepsUse DEF Size, Fails
  <2>2. CASE ~Fails(a)
    BY <1>4, <2>2, StepKeepsUse DEF Size
  <2> QED
    BY <2>1, <2>2
<1>5. CASE Map(a)
  <2>1. UNCHANGED <<caches, tip>> /\ at[a].pc # "none"
    BY <1>5 DEF Map
  <2>2. CASE Fails(a)
    BY <2>1, <2>2, RestKeepsUse DEF Fails
  <2>3. CASE Done(a)
    BY <2>1, <2>3, DoneKeepsUse
  <2>4. CASE Step(a, "map", "fill") /\ UNCHANGED dags
    BY <2>1, <2>4, StepKeepsUse
  <2> QED
    BY <1>5, <2>2, <2>3, <2>4 DEF Map
<1>6. CASE Fill(a)
  <2> DEFINE to == IF file[EpochOf(a)].filled + 1 = Chunks THEN "seal" ELSE "fill"
  <2>1. Step(a, "fill", to) /\ UNCHANGED <<caches, tip, dags>>
    BY <1>6 DEF Fill
  <2> HIDE DEF to
  <2> QED
    BY <2>1, StepKeepsUse
<1>7. CASE Seal(a)
  <2>1. UNCHANGED <<caches, tip>> /\ at[a].pc # "none" /\ (Fails(a) \/ Done(a))
    BY <1>7 DEF Seal
  <2>2. CASE Fails(a)
    BY <2>1, <2>2, RestKeepsUse DEF Fails
  <2>3. CASE Done(a)
    BY <2>1, <2>3, DoneKeepsUse
  <2> QED
    BY <2>1, <2>2, <2>3
<1> QED
  BY <1>1, <1>2, <1>3, <1>4, <1>5, <1>6, <1>7 DEF Generate

\* What was used since a Dag of the present epoch is of the one before; when the next epoch
\* begins these are the two before it.
LEMMA NextEpochKeepsUse ==
  ASSUME GInv, InUseIsCached, Recent, NextEpoch
  PROVE  InUseIsCached' /\ Recent'
<1>1. /\ UNCHANGED <<dags, caches, at>> /\ tip' = tip + 1
      /\ \A c \in Callers : at[c].dag # Null => EpochOf(c) = tip
  BY DEF NextEpoch
<1>2. tip \in Int /\ \A i \in DOMAIN caches : caches[i] # Null
  BY EpochsFacts DEF GInv, Objects
<1>3. InUseIsCached'
  BY <1>1 DEF InUseIsCached
<1>4. Recent'
  <2> SUFFICES ASSUME NEW c \in Callers, NEW i \in DOMAIN caches, at[c].dag = caches[i]
               PROVE  /\ dags[caches[i]].epoch \in {tip' - 1, tip'}
                      /\ \A j \in DOMAIN caches : j > i =>
                           /\ dags[caches[j]].epoch \in {tip' - 2, tip' - 1, tip'}
                           /\ dags[caches[i]].epoch = tip' => dags[caches[j]].epoch = tip' - 1
    BY <1>1 DEF Recent
  <2>1. dags[caches[i]].epoch = tip
    BY <1>1, <1>2 DEF EpochOf
  <2>2. \A j \in DOMAIN caches : j > i => dags[caches[j]].epoch = tip - 1
    BY <2>1 DEF Recent
  <2>3. tip' - 1 = tip /\ tip' - 2 = tip - 1 /\ tip' # tip
    BY <1>1, <1>2
  <2> QED
    BY <2>1, <2>2, <2>3
<1> QED
  BY <1>3, <1>4

-----------------------------------------------------------------------------
LEMMA GInvStep ==
  ASSUME GInv, [Next]_vars
  PROVE  GInv'
<1>1. ASSUME NEW c \in Callers, GetDagAsync(c) PROVE GInv'
  BY <1>1, HitStep, MissStep DEF GetDagAsync
<1>2. ASSUME NEW c \in Callers, Compute(c) PROVE GInv'
  BY <1>2, ComputeStep
<1>3. ASSUME NEW a \in Actors, Generate(a) PROVE GInv'
  BY <1>3, GenerateStep
<1>4. CASE NextEpoch
  BY <1>4, NextEpochStep
<1>5. CASE Crash
  BY <1>5, CrashStep
<1>6. CASE UNCHANGED vars
  BY <1>6 DEF vars, GInv, Records, Objects, Sealed, Mapped, Exclusive, Progress, EpochOf
<1> QED
  BY <1>1, <1>2, <1>3, <1>4, <1>5, <1>6 DEF Next

LEMMA UInvStep ==
  ASSUME NumCaches >= 3, UInv, [Next]_vars
  PROVE  UInv'
<1>1. GInv'
  BY GInvStep DEF UInv
<1> SUFFICES InUseIsCached' /\ Recent'
  BY <1>1 DEF UInv
<1> USE DEF UInv
<1>2. ASSUME NEW c \in Callers, GetDagAsync(c) PROVE InUseIsCached' /\ Recent'
  BY <1>2, HitStep, MissStep DEF GetDagAsync
<1>3. ASSUME NEW c \in Callers, Compute(c) PROVE InUseIsCached' /\ Recent'
  BY <1>3, EpochsFacts, RestKeepsUse DEF Compute
<1>4. ASSUME NEW a \in Actors, Generate(a) PROVE InUseIsCached' /\ Recent'
  BY <1>4, GenerateKeepsUse
<1>5. CASE NextEpoch
  BY <1>5, NextEpochKeepsUse
<1>6. CASE Crash
  BY <1>6, CrashStep
<1>7. CASE UNCHANGED vars
  BY <1>7 DEF vars, InUseIsCached, Recent
<1> QED
  BY <1>2, <1>3, <1>4, <1>5, <1>6, <1>7 DEF Next

\* A Dag that has a handle maps a complete file: the handle was made when the file had its
\* magic number, a file with a magic number is filled (Sealed), and a generation changes only
\* files without one, of its own epoch, alone (Exclusive).
THEOREM HandlesAreComplete == Spec => []ServesComplete
<1>1. Init => GInv
  BY InitUInv DEF UInv
<1>2. GInv /\ [Next]_vars => GInv'
  BY GInvStep
<1>3. GInv => ServesComplete
  BY DEF GInv, Objects, Mapped, Sealed, ServesComplete
<1> QED
  BY <1>1, <1>2, <1>3, PTL DEF Spec

\* With three caches, the number that EthashFull is made with, no Dag is disposed of while a
\* call waits for it or computes with it.
THEOREM EvictionSparesUsers ==
  ASSUME NumCaches >= 3
  PROVE  Spec => []InUseIsCached
<1>1. Init => UInv
  BY InitUInv
<1>2. UInv /\ [Next]_vars => UInv'
  BY UInvStep
<1>3. UInv => InUseIsCached
  BY DEF UInv
<1> QED
  BY <1>1, <1>2, <1>3, PTL DEF Spec

-----------------------------------------------------------------------------
(***************************************************************************)
(* Types                                                                   *)
(***************************************************************************)
FileType == [size : {"none", "wrong", "full"}, magic : BOOLEAN, filled : 0..Chunks]
DagType == [epoch : Epochs, handle : BOOLEAN]
StepType == [pc : Pcs, dag : Ids \cup {Null}]

\* What TypeOK says beyond GInv; a Dag that is referred to is there by Objects.
Typed ==
  /\ file \in [Epochs -> FileType]
  /\ \A d \in DOMAIN dags : dags[d] \in DagType
  /\ Len(caches) <= NumCaches
  /\ sem \in Actors \cup {Null}
  /\ at \in [Actors -> StepType]
  /\ faults \in 0..MaxFaults

LEMMA TypedIsTypeOK == GInv /\ Typed => TypeOK
<1> SUFFICES ASSUME GInv, Typed PROVE TypeOK
  OBVIOUS
<1>1. DOMAIN dags \subseteq Ids /\ Range(caches) \subseteq DOMAIN dags /\ tip \in 1..MaxTip
  BY DEF GInv, Objects, Range
<1>2. IsInjective(caches)
  BY DEF GInv, Objects, IsInjective
<1>3. future \in DOMAIN dags \cup {Null}
  BY DEF GInv, Objects
<1>4. at \in [Actors -> [pc : Pcs, dag : DOMAIN dags \cup {Null}]]
  <2>1. \A a \in Actors : at[a].dag \in DOMAIN dags \cup {Null}
    BY DEF GInv, Objects
  <2>2. \A a \in Actors : at[a] \in [pc : Pcs, dag : DOMAIN dags \cup {Null}]
    <3> TAKE a \in Actors
    <3>1. at[a] \in [pc : Pcs, dag : Ids \cup {Null}]
      BY DEF Typed, StepType
    <3> DEFINE U == DOMAIN dags \cup {Null}
    <3>2. at[a].dag \in U
      BY <2>1
    <3> HIDE DEF U
    <3>3. at[a] \in [pc : Pcs, dag : U]
      BY <3>1, <3>2
    <3> QED
      BY <3>3 DEF U
  <2>3. at \in [Actors -> StepType]
    BY DEF Typed
  <2> QED
    BY <2>2, <2>3
<1> QED
  BY <1>1, <1>2, <1>3, <1>4 DEF Typed, FileType, DagType, TypeOK

\* A field of a record is set.
LEMMA FileFields ==
  ASSUME NEW S, NEW B, NEW N, NEW f \in [size : S, magic : B, filled : N]
  PROVE  /\ \A s \in S : [f EXCEPT !.size = s] \in [size : S, magic : B, filled : N]
         /\ \A m \in B : [f EXCEPT !.magic = m] \in [size : S, magic : B, filled : N]
         /\ \A n \in N : [f EXCEPT !.filled = n] \in [size : S, magic : B, filled : N]
OBVIOUS

LEMMA DagFields ==
  ASSUME NEW E, NEW B, NEW r \in [epoch : E, handle : B], NEW h \in B
  PROVE  [r EXCEPT !.handle = h] \in [epoch : E, handle : B]
OBVIOUS

LEMMA StepFields ==
  ASSUME NEW P, NEW U, NEW r \in [pc : P, dag : U], NEW p \in P
  PROVE  [r EXCEPT !.pc = p] \in [pc : P, dag : U]
OBVIOUS

LEMMA MakeFields ==
  /\ \A S, B, N : \A s \in S, m \in B, n \in N :
       [size |-> s, magic |-> m, filled |-> n] \in [size : S, magic : B, filled : N]
  /\ \A E, B : \A e \in E, h \in B : [epoch |-> e, handle |-> h] \in [epoch : E, handle : B]
  /\ \A P, U : \A p \in P, u \in U : [pc |-> p, dag |-> u] \in [pc : P, dag : U]
OBVIOUS

LEMMA CollectedType ==
  ASSUME NEW ds, \A d \in DOMAIN ds : ds[d] \in DagType, dags' = Collected(ds)
  PROVE  \A d \in DOMAIN dags' : dags'[d] \in DagType
BY CollectedFacts

LEMMA RestType == AtRest \in StepType
<1>1. "none" \in Pcs /\ Null \in Ids \cup {Null}
  BY DEF Pcs
<1> HIDE DEF Pcs
<1> QED
  BY <1>1, MakeFields DEF AtRest, StepType

LEMMA GeneratedType ==
  ASSUME Typed, NEW a \in Actors
  PROVE  Generated(a) \in StepType
<1>1. at[a] \in [pc : Pcs, dag : Ids \cup {Null}]
  BY DEF Typed, StepType
<1>2. "have" \in Pcs
  BY DEF Pcs
<1>3. [at[a] EXCEPT !.pc = "have"] \in StepType
  BY <1>1, <1>2, StepFields DEF StepType
<1> QED
  BY <1>3, RestType DEF Generated

LEMMA StepType1 ==
  ASSUME Typed, NEW a \in Actors, NEW from, NEW to \in Pcs, Step(a, from, to)
  PROVE  at' \in [Actors -> StepType]
<1>1. at \in [Actors -> StepType] /\ at[a] \in [pc : Pcs, dag : Ids \cup {Null}]
  BY DEF Typed, StepType
<1>2. [at[a] EXCEPT !.pc = to] \in StepType
  BY <1>1, StepFields DEF StepType
<1>3. at' = [at EXCEPT ![a] = [at[a] EXCEPT !.pc = to]]
  BY DEF Step
<1> HIDE DEF StepType
<1> QED
  BY <1>1, <1>2, <1>3

LEMMA FailsType ==
  ASSUME Typed, NEW a \in Actors, Fails(a)
  PROVE  /\ at' \in [Actors -> StepType] /\ sem' \in Actors \cup {Null} /\ faults' \in 0..MaxFaults
         /\ \A d \in DOMAIN dags' : dags'[d] \in DagType
<1>1. at' \in [Actors -> StepType]
  BY RestType DEF Typed, Fails
<1>2. faults' \in 0..MaxFaults
  BY DagAssumption DEF Typed, Fails
<1>3. \A d \in DOMAIN dags' : dags'[d] \in DagType
  BY CollectedType DEF Typed, Fails
<1> QED
  BY <1>1, <1>2, <1>3 DEF Fails

LEMMA DoneType ==
  ASSUME Typed, NEW a \in Actors, Done(a)
  PROVE  /\ at' \in [Actors -> StepType] /\ sem' \in Actors \cup {Null}
         /\ \A d \in DOMAIN dags' : dags'[d] \in DagType
<1> DEFINE d0 == at[a].dag
           ds == [dags EXCEPT ![d0].handle = TRUE]
<1>1. at' \in [Actors -> StepType] /\ sem' \in Actors \cup {Null}
  BY GeneratedType DEF Typed, Done
<1>2. dags' = Collected(ds)
  BY DEF Done
<1> HIDE DEF d0
<1>3. \A d \in DOMAIN ds : ds[d] \in DagType
  <2> TAKE d \in DOMAIN ds
  <2>1. d \in DOMAIN dags /\ dags[d] \in [epoch : Epochs, handle : BOOLEAN]
    BY DEF Typed, DagType
  <2>2. [dags[d] EXCEPT !.handle = TRUE] \in [epoch : Epochs, handle : BOOLEAN]
    <3>1. TRUE \in BOOLEAN
      BY Zenon
    <3> QED
      BY <2>1, <3>1, DagFields, Zenon
  <2>3. ds[d] = dags[d] \/ ds[d] = [dags[d] EXCEPT !.handle = TRUE]
    BY <2>1
  <2> HIDE DEF ds
  <2> QED
    BY <2>1, <2>2, <2>3, Zenon DEF DagType
<1> HIDE DEF ds
<1> QED
  BY <1>1, <1>2, <1>3, CollectedType

\* Steps that write the file of a generation.
LEMMA WriteType ==
  ASSUME Typed, NEW e \in Epochs, NEW f \in FileType, file' = [file EXCEPT ![e] = f]
  PROVE  file' \in [Epochs -> FileType]
BY DEF Typed

LEMMA GenerateType ==
  ASSUME GInv, Typed, NEW a \in Actors, Generate(a)
  PROVE  Typed'
<1> DEFINE e == EpochOf(a)
           f == file[e]
           B == BOOLEAN
           S == {"none", "wrong", "full"}
           N == 0..Chunks
<1>0. /\ \A p \in Generating : p \in Pcs
      /\ FileType = [size : S, magic : B, filled : N]
  BY DEF Pcs, FileType
<1>1. e \in Epochs /\ f \in [size : S, magic : B, filled : N]
  <2>1. at[a].pc # "none"
    BY DEF Generate, Acquire, Open, Create, Size, Map, Fill, Seal, Step
  <2>2. e \in Epochs
    BY <2>1 DEF GInv, Objects, EpochOf
  <2> HIDE DEF e
  <2> QED
    BY <2>2, <1>0 DEF Typed
<1>2. TRUE \in B /\ FALSE \in B
  BY Zenon
<1>3. Chunks \in Nat /\ 0 \in N /\ "wrong" \in S /\ "full" \in S
  BY EpochsFacts
<1> HIDE DEF e, f, B, S, N
<1>4. CASE Acquire(a)
  <2>1. UNCHANGED <<file, caches, faults>>
    BY <1>4 DEF Acquire
  <2>2. CASE dags[at[a].dag].handle
    <3>1. at' \in [Actors -> StepType] /\ sem' = sem
      BY <1>4, <2>2, GeneratedType DEF Typed, Acquire
    <3>2. \A d \in DOMAIN dags' : dags'[d] \in DagType
      BY <1>4, <2>2, CollectedType DEF Typed, Acquire
    <3> QED
      BY <2>1, <3>1, <3>2 DEF Typed
  <2>3. CASE ~dags[at[a].dag].handle
    <3>1. at' \in [Actors -> StepType] /\ sem' = a /\ dags' = dags
      BY <1>4, <2>3, <1>0, StepType1 DEF Acquire
    <3> QED
      BY <2>1, <3>1 DEF Typed
  <2> QED
    BY <2>2, <2>3
<1>5. CASE Open(a)
  <2>1. UNCHANGED <<file, caches>>
    BY <1>5 DEF Open
  <2>2. CASE Fails(a)
    BY <2>1, <2>2, FailsType DEF Typed
  <2>3. CASE ~Fails(a)
    <3> DEFINE to == IF Matches(file[EpochOf(a)]) THEN "match" ELSE "create"
    <3>1. to \in Pcs /\ Step(a, "open", to) /\ UNCHANGED <<dags, sem, faults>>
      BY <1>0, <1>5, <2>3 DEF Open
    <3> HIDE DEF to
    <3>2. at' \in [Actors -> StepType]
      BY <3>1, StepType1
    <3> QED
      BY <2>1, <3>1, <3>2 DEF Typed
  <2> QED
    BY <2>2, <2>3
<1>6. CASE Create(a)
  <2>1. UNCHANGED caches
    BY <1>6 DEF Create
  <2>2. CASE Fails(a) /\ UNCHANGED file
    BY <2>1, <2>2, FailsType DEF Typed
  <2>3. CASE ~(Fails(a) /\ UNCHANGED file)
    <3> DEFINE g == [size |-> "wrong", magic |-> FALSE, filled |-> 0]
    <3>1. /\ Step(a, "create", "size") /\ UNCHANGED <<dags, sem, faults>>
          /\ file' = [file EXCEPT ![e] = g]
      BY <1>6, <2>3 DEF Create, e
    <3>2. g \in [size : S, magic : B, filled : N]
      BY <1>2, <1>3, MakeFields, Zenon
    <3> HIDE DEF g
    <3>3. file' \in [Epochs -> FileType]
      BY <1>0, <1>1, <3>1, <3>2, WriteType
    <3>4. at' \in [Actors -> StepType]
      BY <1>0, <3>1, StepType1
    <3> QED
      BY <2>1, <3>1, <3>3, <3>4 DEF Typed
  <2> QED
    BY <2>2, <2>3
<1>7. CASE Size(a)
  <2>1. UNCHANGED caches
    BY <1>7 DEF Size
  <2>2. CASE Fails(a) /\ UNCHANGED file
    BY <2>1, <2>2, FailsType DEF Typed
  <2>3. CASE ~(Fails(a) /\ UNCHANGED file)
    <3> DEFINE g == [f EXCEPT !.size = "full"]
    <3>1. /\ Step(a, "size", "map") /\ UNCHANGED <<dags, sem, faults>>
          /\ file' = [file EXCEPT ![e] = g]
      BY <1>7, <2>3 DEF Size, e, f
    <3>2. g \in [size : S, magic : B, filled : N]
      BY <1>1, <1>3, FileFields
    <3> HIDE DEF g
    <3>3. file' \in [Epochs -> FileType]
      BY <1>0, <1>1, <3>1, <3>2, WriteType
    <3>4. at' \in [Actors -> StepType]
      BY <1>0, <3>1, StepType1
    <3> QED
      BY <2>1, <3>1, <3>3, <3>4 DEF Typed
  <2> QED
    BY <2>2, <2>3
<1>8. CASE Map(a)
  <2>1. UNCHANGED <<file, caches>>
    BY <1>8 DEF Map
  <2>2. CASE Fails(a)
    BY <2>1, <2>2, FailsType DEF Typed
  <2>3. CASE Done(a) /\ UNCHANGED faults
    BY <2>1, <2>3, DoneType DEF Typed
  <2>4. CASE Step(a, "map", "fill") /\ UNCHANGED <<dags, sem, faults>>
    <3>1. at' \in [Actors -> StepType]
      BY <1>0, <2>4, StepType1
    <3> QED
      BY <2>1, <2>4, <3>1 DEF Typed
  <2> QED
    BY <1>8, <2>2, <2>3, <2>4 DEF Map
<1>9. CASE Fill(a)
  <2> DEFINE n == f.filled + 1
             g == [f EXCEPT !.filled = n]
             to == IF n = Chunks THEN "seal" ELSE "fill"
  <2>1. /\ Step(a, "fill", to) /\ UNCHANGED <<dags, caches, sem, faults>>
        /\ file' = [file EXCEPT ![e] = g]
    BY <1>9 DEF Fill, e, f
  <2>2. n \in N
    <3>1. f.filled \in Nat /\ f.filled < Chunks
      <4>1. at[a].pc = "fill"
        BY <1>9 DEF Fill, Step
      <4>2. Found(f, "fill")
        BY <4>1 DEF GInv, Progress, e, f
      <4>3. f.filled \in Nat
        BY <1>1, FileFacts DEF f
      <4> QED
        BY <4>2, <4>3 DEF Found
    <3> QED
      BY <1>3, <3>1 DEF N
  <2>3. to \in Pcs
    BY <1>0
  <2> HIDE DEF n, to
  <2>4. g \in [size : S, magic : B, filled : N]
    BY <1>1, <2>2, FileFields
  <2> HIDE DEF g
  <2>5. file' \in [Epochs -> FileType]
    BY <1>0, <1>1, <2>1, <2>4, WriteType
  <2>6. at' \in [Actors -> StepType]
    BY <2>1, <2>3, StepType1
  <2> QED
    BY <2>1, <2>5, <2>6 DEF Typed
<1>10. CASE Seal(a)
  <2>1. PICK m \in BOOLEAN : file' = [file EXCEPT ![EpochOf(a)].magic = m]
    <3>1. \/ file' = [file EXCEPT ![EpochOf(a)].magic = TRUE]
          \/ \E m \in BOOLEAN : file' = [file EXCEPT ![EpochOf(a)].magic = m]
      BY <1>10 DEF Seal
    <3>2. TRUE \in BOOLEAN
      BY Zenon
    <3> QED
      BY <3>1, <3>2, Zenon
  <2> DEFINE g == [f EXCEPT !.magic = m]
  <2>2. file' = [file EXCEPT ![e] = g]
    BY <2>1 DEF e, f
  <2>3. g \in [size : S, magic : B, filled : N]
    <3>1. m \in B
      BY Zenon DEF B
    <3> QED
      BY <1>1, <3>1, FileFields, Zenon
  <2> HIDE DEF g
  <2>4. file' \in [Epochs -> FileType]
    BY <1>0, <1>1, <2>2, <2>3, WriteType
  <2>5. UNCHANGED caches /\ (Fails(a) \/ (Done(a) /\ UNCHANGED faults))
    BY <1>10 DEF Seal
  <2> QED
    BY <2>4, <2>5, FailsType, DoneType DEF Typed
<1> QED
  BY <1>4, <1>5, <1>6, <1>7, <1>8, <1>9, <1>10 DEF Generate

LEMMA CallType ==
  ASSUME GInv, Typed, NEW c \in Callers, at[c].pc = "none", GetDagAsync(c)
  PROVE  Typed'
<1>0. c \in Actors /\ UNCHANGED <<file, sem, faults>> /\ NumCaches \in Nat \ {0} /\ caches \in Seq(Ids)
  BY EpochsFacts, DagAssumption DEF GetDagAsync, GInv, Objects
<1>1. "have" \in Pcs /\ "wait" \in Pcs
  BY DEF Pcs
<1>2. \A d \in Ids : [pc |-> "have", dag |-> d] \in StepType /\ [pc |-> "wait", dag |-> d] \in StepType
  BY <1>1, MakeFields, Zenon DEF StepType
<1>3. DOMAIN dags \subseteq Ids
  BY DEF GInv, Objects
<1>4. \A e \in Epochs : [epoch |-> e, handle |-> FALSE] \in DagType
  <2>1. FALSE \in BOOLEAN
    BY Zenon
  <2> QED
    BY <2>1, MakeFields, Zenon DEF DagType
<1>5. ASSUME NEW ds, \A d \in DOMAIN ds : ds[d] \in DagType, NEW x, NEW e \in Epochs
      PROVE  \A d \in DOMAIN NewDag(ds, x, e) : NewDag(ds, x, e)[d] \in DagType
  BY <1>4, <1>5 DEF NewDag
<1>6. PICK e \in {tip - 1, tip} : \/ \E i \in Cached(e) : Hit(c, e, i)
                                  \/ Cached(e) = {} /\ Miss(c, e)
  BY DEF GetDagAsync
<1>7. e \in Epochs /\ e + 1 \in Epochs
  BY EpochsFacts DEF GInv, Objects
<1> HIDE DEF StepType, DagType, FileType
<1>8. ASSUME NEW i \in Cached(e), Hit(c, e, i) PROVE Typed'
  <2> DEFINE d == caches[i]
             x == [pc |-> IF dags[d].handle THEN "have" ELSE "wait", dag |-> d]
             y == [pc |-> "wait", dag |-> NewId]
             z == [at EXCEPT ![c] = x]
  <2>1. d \in Ids /\ i \in 1..Len(caches)
    BY <1>0, <1>3 DEF Cached, GInv, Objects
  <2>2. x \in StepType
    BY <1>2, <2>1
  <2>3. Len(caches') <= NumCaches
    <3>1. caches' = Append(RemoveAt(caches, i), d)
      BY <1>8 DEF Hit
    <3>2. RemoveAt(caches, i) \in Seq(Ids) /\ Len(RemoveAt(caches, i)) = Len(caches) - 1
      BY <1>0, <2>1, RemoveAtFacts
    <3>3. Len(caches') = Len(caches) - 1 + 1 /\ Len(caches) \in Nat
      BY <1>0, <2>1, <3>1, <3>2, AppendProperties
    <3> QED
      BY <1>0, <3>3 DEF Typed
  <2>4. z \in [Actors -> StepType]
    <3> HIDE DEF x
    <3> QED
      BY <2>2 DEF Typed
  <2>5. CASE future = Null \/ dags[future].epoch <= e
    <3>1. PICK p \in Pre : /\ Ids # DOMAIN dags /\ at' = [z EXCEPT ![p] = y]
                           /\ dags' = Collected(NewDag(dags, NewId, e + 1))
      BY <1>8, <2>5 DEF Hit, Await
    <3>2. NewId \in Ids
      BY <1>3, <3>1, NewIdFacts
    <3>3. y \in StepType
      BY <1>2, <3>2
    <3> HIDE DEF z, y
    <3>4. at' \in [Actors -> StepType]
      BY <2>4, <3>1, <3>3
    <3>5. \A k \in DOMAIN dags' : dags'[k] \in DagType
      <4> DEFINE ds == NewDag(dags, NewId, e + 1)
      <4>1. \A k \in DOMAIN ds : ds[k] \in DagType
        BY <1>5, <1>7 DEF Typed
      <4> HIDE DEF ds
      <4>2. dags' = Collected(ds)
        BY <3>1 DEF ds
      <4> QED
        BY <4>1, <4>2, CollectedType
    <3> QED
      BY <1>0, <2>3, <3>4, <3>5 DEF Typed
  <2>6. CASE ~(future = Null \/ dags[future].epoch <= e)
    <3>1. at' = z /\ dags' = dags
      BY <1>8, <2>6 DEF Hit, Await
    <3> HIDE DEF z
    <3> QED
      BY <1>0, <2>3, <2>4, <3>1 DEF Typed
  <2> QED
    BY <2>5, <2>6
<1>9. ASSUME Miss(c, e) PROVE Typed'
  <2> DEFINE ready == future # Null /\ dags[future].epoch = e
             d == IF ready THEN future ELSE NewId
             ds == [x \in DOMAIN dags |-> [dags[x] EXCEPT !.handle = @ /\ x \notin Evicted]]
             dt == IF ready THEN ds ELSE NewDag(ds, d, e)
             has == ready /\ dags[future].handle
             x == [pc |-> IF has THEN "have" ELSE "wait", dag |-> d]
  <2>1. /\ ready \/ Ids # DOMAIN dags
        /\ caches' = Append(Remaining, d)
        /\ at' = [at EXCEPT ![c] = x]
        /\ dags' = Collected(dt)
    BY <1>9 DEF Miss
  <2>2. d \in Ids
    <3>1. CASE ready
      BY <3>1 DEF GInv, Objects
    <3>2. CASE ~ready
      BY <1>3, <2>1, <3>2, NewIdFacts
    <3> QED
      BY <3>1, <3>2
  <2>3. \A k \in DOMAIN ds : ds[k] \in DagType
    <3> TAKE k \in DOMAIN ds
    <3> DEFINE h == dags[k].handle /\ k \notin Evicted
    <3>1. dags[k] \in [epoch : Epochs, handle : BOOLEAN] /\ ds[k] = [dags[k] EXCEPT !.handle = h]
      BY DEF Typed, DagType
    <3>2. h \in BOOLEAN
      BY Zenon
    <3> HIDE DEF h, ds
    <3>3. [dags[k] EXCEPT !.handle = h] \in [epoch : Epochs, handle : BOOLEAN]
      BY <3>1, <3>2, DagFields, Zenon
    <3> QED
      BY <3>1, <3>3, Zenon DEF DagType
  <2> HIDE DEF ds
  <2>4. \A k \in DOMAIN dt : dt[k] \in DagType
    BY <1>5, <1>7, <2>3
  <2>5. x \in StepType
    BY <1>2, <2>2
  <2> HIDE DEF x, dt, d
  <2>6. at' \in [Actors -> StepType]
    BY <2>1, <2>5 DEF Typed
  <2>7. \A k \in DOMAIN dags' : dags'[k] \in DagType
    BY <2>1, <2>4, CollectedType
  <2>8. Len(caches') <= NumCaches
    <3>1. Remaining \in Seq(Ids) /\ Len(Remaining) < NumCaches /\ Len(Remaining) \in Nat
      <4>1. CASE Len(caches) >= NumCaches
        <5>1. Len(caches) = NumCaches /\ caches # <<>>
          BY <1>0, <4>1 DEF Typed
        <5>2. Tail(caches) \in Seq(Ids) /\ Len(Tail(caches)) = Len(caches) - 1
          BY <1>0, <5>1, HeadTailProperties
        <5> QED
          BY <1>0, <4>1, <5>1, <5>2 DEF Remaining
      <4>2. CASE ~(Len(caches) >= NumCaches)
        BY <1>0, <4>2 DEF Remaining
      <4> QED
        BY <4>1, <4>2
    <3>2. Len(caches') = Len(Remaining) + 1
      BY <2>1, <2>2, <3>1, AppendProperties
    <3> QED
      BY <1>0, <3>1, <3>2
  <2> QED
    BY <1>0, <2>6, <2>7, <2>8 DEF Typed
<1> QED
  BY <1>6, <1>8, <1>9

\* The state has its types, and the cache at most NumCaches Dags, each once.
THEOREM TypeCorrect == Spec => []TypeOK
<1>1. Init => GInv /\ Typed
  <2> SUFFICES ASSUME Init PROVE Typed
    BY InitUInv DEF UInv
  <2>1. NoFile \in FileType
    <3>1. FALSE \in BOOLEAN
      BY Zenon
    <3>2. 0 \in 0..Chunks
      BY EpochsFacts
    <3> QED
      BY <3>1, <3>2, MakeFields, Zenon DEF NoFile, FileType
  <2>2. file \in [Epochs -> FileType] /\ at \in [Actors -> StepType]
    BY <2>1, RestType DEF Init
  <2>3. DOMAIN dags = {} /\ Len(caches) = 0 /\ sem = Null /\ faults = 0
    BY DEF Init
  <2> QED
    BY <2>2, <2>3, DagAssumption DEF Typed
<1>2. (GInv /\ Typed) /\ [Next]_vars => (GInv /\ Typed)'
  <2> SUFFICES ASSUME GInv, Typed, [Next]_vars PROVE Typed'
    BY GInvStep
  <2>1. ASSUME NEW c \in Callers, GetDagAsync(c) PROVE Typed'
    BY <2>1, CallType DEF GetDagAsync
  <2>2. ASSUME NEW c \in Callers, Compute(c) PROVE Typed'
    <3>1. at' \in [Actors -> StepType]
      BY <2>2, RestType DEF Compute, Typed
    <3>2. \A d \in DOMAIN dags' : dags'[d] \in DagType
      BY <2>2, CollectedType DEF Compute, Typed
    <3> QED
      BY <2>2, <3>1, <3>2 DEF Compute, Typed
  <2>3. ASSUME NEW a \in Actors, Generate(a) PROVE Typed'
    BY <2>3, GenerateType
  <2>4. CASE NextEpoch
    BY <2>4 DEF NextEpoch, Typed
  <2>5. CASE Crash
    <3>1. at' \in [Actors -> StepType]
      BY <2>5, RestType DEF Crash
    <3>2. faults' \in 0..MaxFaults
      BY <2>5, DagAssumption DEF Crash, Typed
    <3>3. DOMAIN dags' = {} /\ Len(caches') = 0 /\ sem' = Null /\ file' = file
      BY <2>5 DEF Crash
    <3> QED
      BY <3>1, <3>2, <3>3, DagAssumption DEF Typed
  <2>6. CASE UNCHANGED vars
    BY <2>6 DEF vars, Typed
  <2> QED
    BY <2>1, <2>2, <2>3, <2>4, <2>5, <2>6 DEF Next
<1> QED
  BY <1>1, <1>2, TypedIsTypeOK, PTL DEF Spec
=============================================================================
