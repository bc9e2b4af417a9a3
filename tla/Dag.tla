-------------------------------- MODULE Dag ---------------------------------
(***************************************************************************)
(* The Ethash data sets (DAGs): EthashFull caches one Dag per epoch,       *)
(* Dag.GenerateAsync makes its native handle, and libethash keeps the data *)
(* in a memory-mapped file that is finished by a magic number at its       *)
(* start.  A file outlives a crash of the process, at whatever step.       *)
(*                                                                         *)
(* Callers verify shares; each asks for the Dag of its block's epoch,      *)
(* waits until it is generated, and computes with it.  One semaphore lets  *)
(* a single generation run at a time.  A hit of the cache starts the       *)
(* generation of the next epoch's Dag in the background.                   *)
(*                                                                         *)
(* A file that is there can be opened, and the machine itself stays up:    *)
(* what the process has written is in the file.                            *)
(***************************************************************************)
EXTENDS Integers, Sequences, SequencesExt, FiniteSetsExt

CONSTANTS
  Callers, Pre,     \* bound: calls, and background generations, at a time
  NumCaches,        \* EthashFull(3, ..)
  Chunks,           \* steps in which a file is filled
  Ids,              \* bound: Dag objects that are in use
  Null,
  MaxTip,           \* bound: epochs
  MaxFaults         \* bound: failures and crashes

Epochs == 0..(MaxTip + 1)
Actors == Callers \cup Pre

ASSUME DagAssumption ==
  /\ NumCaches \in Nat \ {0} /\ Chunks \in Nat \ {0} /\ MaxTip \in Nat \ {0}
  /\ MaxFaults \in Nat /\ Ids \subseteq Nat /\ Null \notin Ids \cup Actors
  /\ Callers \cap Pre = {}

VARIABLES
  file,             \* file of each epoch
  dags,             \* Dag objects: epoch, and whether they have a handle
  caches,           \* Ids of the cached Dags, by LastUsed
  future,           \* Id of the pre-generated Dag
  sem,              \* who holds the semaphore
  at,               \* step and Dag of each actor
  tip,              \* epoch of the chain's tip
  faults

vars == <<file, dags, caches, future, sem, at, tip, faults>>

NoFile == [size |-> "none", magic |-> FALSE, filled |-> 0]
AtRest == [pc |-> "none", dag |-> Null]

Pcs == {"none", "wait", "open", "create", "size", "map", "fill", "seal", "match", "have"}

TypeOK ==
  /\ file \in [Epochs -> [size : {"none", "wrong", "full"}, magic : BOOLEAN, filled : 0..Chunks]]
  /\ DOMAIN dags \subseteq Ids
  /\ \A d \in DOMAIN dags : dags[d] \in [epoch : Epochs, handle : BOOLEAN]
  /\ IsInjective(caches) /\ Range(caches) \subseteq DOMAIN dags /\ Len(caches) <= NumCaches
  /\ future \in DOMAIN dags \cup {Null} /\ sem \in Actors \cup {Null}
  /\ at \in [Actors -> [pc : Pcs, dag : DOMAIN dags \cup {Null}]]
  /\ tip \in 1..MaxTip /\ faults \in 0..MaxFaults

Init ==
  /\ file = [e \in Epochs |-> NoFile]
  /\ dags = <<>> /\ caches = <<>> /\ future = Null /\ sem = Null
  /\ at = [a \in Actors |-> AtRest]
  /\ tip = 1 /\ faults = 0

\* Objects that are reachable; the others are collected, without closing a handle.
Live == (Range(caches) \cup {future} \cup {at[a].dag : a \in Actors}) \ {Null}
Collected(ds) == [d \in DOMAIN ds \cap Live' |-> ds[d]]
-----------------------------------------------------------------------------
(***************************************************************************)
(* EthashFull.GetDagAsync, up to its await                                 *)
(***************************************************************************)
Cached(e) == {i \in DOMAIN caches : dags[caches[i]].epoch = e}
NewId == Min(Ids \ DOMAIN dags)

\* A new Dag beside others.
NewDag(ds, d, e) ==
  [x \in DOMAIN ds \cup {d} |-> IF x = d THEN [epoch |-> e, handle |-> FALSE] ELSE ds[x]]

\* GenerateAsync returns at once when there is a handle.
Await(c, d) == [at EXCEPT ![c] = [pc |-> IF dags[d].handle THEN "have" ELSE "wait", dag |-> d]]

\* The Dag is cached.  A future Dag that is missing or outdated is replaced, and generated.
Hit(c, e, i) ==
  /\ caches' = Append(RemoveAt(caches, i), caches[i])
  /\ IF future = Null \/ dags[future].epoch <= e
     THEN \E p \in Pre :
            /\ at[p].pc = "none" /\ Ids # DOMAIN dags
            /\ future' = NewId
            /\ at' = [Await(c, caches[i]) EXCEPT ![p] = [pc |-> "wait", dag |-> NewId]]
            /\ dags' = Collected(NewDag(dags, NewId, e + 1))
     ELSE at' = Await(c, caches[i]) /\ UNCHANGED <<future, dags>>

\* Mutant of Remaining: the Dag that was used last goes.
RemainingOldest == IF Len(caches) >= NumCaches THEN Front(caches) ELSE caches

\* The Dag that was not used for longest is disposed of when the cache is full.
Remaining == IF Len(caches) >= NumCaches THEN Tail(caches) ELSE caches

Evicted == Range(caches) \ Range(Remaining)

\* The Dag is not cached: the future Dag is taken, or a new one.
Miss(c, e) ==
  LET ready == future # Null /\ dags[future].epoch = e
      d     == IF ready THEN future ELSE NewId
      ds    == [x \in DOMAIN dags |-> [dags[x] EXCEPT !.handle = @ /\ x \notin Evicted]]
      has   == ready /\ dags[future].handle
  IN /\ ready \/ Ids # DOMAIN dags
     /\ caches' = Append(Remaining, d)
     /\ future' = IF ready THEN Null ELSE future
     /\ at' = [at EXCEPT ![c] = [pc |-> IF has THEN "have" ELSE "wait", dag |-> d]]
     /\ dags' = Collected(IF ready THEN ds ELSE NewDag(ds, d, e))

\* The block of a share has the tip's epoch or, a few blocks after its start, the one before.
GetDagAsync(c) ==
  /\ at[c].pc = "none"
  /\ \E e \in {tip - 1, tip} :
       \/ \E i \in Cached(e) : Hit(c, e, i)
       \/ Cached(e) = {} /\ Miss(c, e)
  /\ UNCHANGED <<file, sem, tip, faults>>
-----------------------------------------------------------------------------
(***************************************************************************)
(* Dag.GenerateAsync and ethash_full_new_internal                          *)
(***************************************************************************)
EpochOf(a) == dags[at[a].dag].epoch
Step(a, from, to) == at[a].pc = from /\ at' = [at EXCEPT ![a].pc = to]

\* A caller goes on with the Dag; a background generation is over.
Generated(a) == IF a \in Callers THEN [at[a] EXCEPT !.pc = "have"] ELSE AtRest

\* The handle is looked at once more under the semaphore.
Acquire(a) ==
  /\ at[a].pc = "wait" /\ sem = Null
  /\ UNCHANGED <<file, caches, future, tip, faults>>
  /\ IF dags[at[a].dag].handle
     THEN /\ at' = [at EXCEPT ![a] = Generated(a)] /\ UNCHANGED sem
          /\ dags' = Collected(dags)
     ELSE Step(a, "wait", "open") /\ sem' = a /\ UNCHANGED dags

\* An I/O or memory error is thrown; the Dag stays where it is, without a handle.
Fails(a) ==
  /\ faults < MaxFaults /\ faults' = faults + 1
  /\ at' = [at EXCEPT ![a] = AtRest]
  /\ sem' = Null
  /\ dags' = Collected(dags)

\* Mutant of Matches: the size will do.
MatchesSize(f) == f.size = "full"

Matches(f) == f.size = "full" /\ f.magic

\* ethash_io_prepare: a file of the wrong size or without the magic number is made anew.
Open(a) ==
  /\ at[a].pc = "open"
  /\ UNCHANGED <<file, caches, future, tip>>
  /\ \/ /\ Step(a, "open", IF Matches(file[EpochOf(a)]) THEN "match" ELSE "create")
        /\ UNCHANGED <<dags, sem, faults>>
     \/ Fails(a)

\* fopen "wb+" truncates.
Create(a) ==
  /\ at[a].pc = "create"
  /\ UNCHANGED <<caches, future, tip>>
  /\ \/ /\ Step(a, "create", "size")
        /\ file' = [file EXCEPT ![EpochOf(a)] = [size |-> "wrong", magic |-> FALSE, filled |-> 0]]
        /\ UNCHANGED <<dags, sem, faults>>
     \/ Fails(a) /\ UNCHANGED file

\* A byte is written at the end.
Size(a) ==
  /\ at[a].pc = "size"
  /\ UNCHANGED <<caches, future, tip>>
  /\ \/ /\ Step(a, "size", "map")
        /\ file' = [file EXCEPT ![EpochOf(a)].size = "full"]
        /\ UNCHANGED <<dags, sem, faults>>
     \/ Fails(a) /\ UNCHANGED file

\* The handle is there, and the semaphore is released.
Done(a) ==
  /\ at' = [at EXCEPT ![a] = Generated(a)]
  /\ sem' = Null
  /\ dags' = Collected([dags EXCEPT ![at[a].dag].handle = TRUE])

Map(a) ==
  /\ at[a].pc \in {"map", "match"}
  /\ UNCHANGED <<file, caches, future, tip>>
  /\ \/ at[a].pc = "map" /\ Step(a, "map", "fill") /\ UNCHANGED <<dags, sem, faults>>
     \/ at[a].pc = "match" /\ Done(a) /\ UNCHANGED faults
     \/ Fails(a)

\* Mutant of Fill: the loop does not advance.
FillStuck(a) ==
  /\ Step(a, "fill", "fill")
  /\ UNCHANGED <<file, dags, caches, future, sem, tip, faults>>

\* ethash_compute_full_data
Fill(a) ==
  LET n == file[EpochOf(a)].filled + 1
  IN /\ Step(a, "fill", IF n = Chunks THEN "seal" ELSE "fill")
     /\ file' = [file EXCEPT ![EpochOf(a)].filled = n]
     /\ UNCHANGED <<dags, caches, future, sem, tip, faults>>

\* The magic number is written and flushed; when that fails it may be there all the same.
Seal(a) ==
  /\ at[a].pc = "seal"
  /\ UNCHANGED <<caches, future, tip>>
  /\ \/ /\ file' = [file EXCEPT ![EpochOf(a)].magic = TRUE]
        /\ Done(a)
        /\ UNCHANGED faults
     \/ /\ \E m \in BOOLEAN : file' = [file EXCEPT ![EpochOf(a)].magic = m]
        /\ Fails(a)

Generate(a) ==
  Acquire(a) \/ Open(a) \/ Create(a) \/ Size(a) \/ Map(a) \/ Fill(a) \/ Seal(a)
-----------------------------------------------------------------------------
\* Dag.Compute, and the call is over.
Compute(c) ==
  /\ at[c].pc = "have"
  /\ at' = [at EXCEPT ![c] = AtRest]
  /\ UNCHANGED <<file, caches, future, sem, tip, faults>>
  /\ dags' = Collected(dags)

\* The chain reaches the next epoch.  An epoch is thousands of blocks: no call that was made
\* for an earlier epoch than the present one is still under way.
NextEpoch ==
  /\ tip < MaxTip
  /\ \A c \in Callers : at[c].dag # Null => EpochOf(c) = tip
  /\ tip' = tip + 1
  /\ UNCHANGED <<file, dags, caches, future, sem, at, faults>>

\* The process dies and is started again; the files stay.
Crash ==
  /\ faults < MaxFaults /\ faults' = faults + 1
  /\ dags' = <<>> /\ caches' = <<>> /\ future' = Null /\ sem' = Null
  /\ at' = [a \in Actors |-> AtRest]
  /\ UNCHANGED <<file, tip>>

Next ==
  \/ \E c \in Callers : GetDagAsync(c) \/ Compute(c)
  \/ \E a \in Actors : Generate(a)
  \/ NextEpoch \/ Crash

\* A generation that is under way runs on.
Fairness == \A a \in Actors : WF_vars(Generate(a))

Spec == Init /\ [][Next]_vars /\ Fairness
-----------------------------------------------------------------------------
\* A Dag with a handle maps complete data, whichever crashes and failures left their files
\* behind, and whatever another Dag of the same epoch does to the file.
ServesComplete == \A d \in DOMAIN dags : dags[d].handle => file[dags[d].epoch].filled = Chunks

\* A Dag that a call waits for or computes with is cached, hence has not been disposed of:
\* with three caches the least recently used one is never one of the two recent epochs.
InUseIsCached == \A c \in Callers : at[c].pc # "none" => at[c].dag \in Range(caches)

\* The semaphore comes back after every generation, also one that fails: otherwise no share
\* could be verified any more.
SemaphoreReturns == sem # Null ~> sem = Null
=============================================================================
