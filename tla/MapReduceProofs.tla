--------------------------- MODULE MapReduceProofs --------------------------
(***************************************************************************)
(* That the output of a MapReduce job is the sequential program's, for any *)
(* number of files, buckets and workers, whatever Map emits, and however   *)
(* often tasks are given out again.                                        *)
(*                                                                         *)
(* The argument: a file has one possible content, whoever writes it; a     *)
(* task is done only after its files have their names; and no worker looks *)
(* for the files of a bucket before every map task is done, so it finds    *)
(* them all, although tasks are still being repeated behind its back.  It  *)
(* reads each file once, and no pair is in two files.                      *)
(***************************************************************************)
EXTENDS MapReduce, WellFoundedInduction, TLAPS

Tasks == MapTasks \cup ReduceTasks

\* The buckets for which file i has pairs, and those pairs.
BucketsOf(i) == {IHash[kv[1]] : kv \in Emits[i]}
PairsOf(i, y) == {kv \in Emits[i] : IHash[kv[1]] = y}

\* The list that has every pair of bucket y once.
BucketList(y) == [kv \in AllPairs |-> IF IHash[kv[1]] = y THEN 1 ELSE 0]

FileName == {MapFile(i, y) : i \in MapTasks, y \in Bucket}
            \cup {OutFile(y) : y \in Bucket}

WorkerType ==
  [pc : {"idle", "map", "reduce", "read", "complete", "left", "crashed"},
   task : Tasks, todo : SUBSET (Bucket \cup FileName), kvs : [AllPairs -> Nat]]

JobTypeOK ==
  /\ taskStates \in [Tasks -> {"unassigned", "executing", "done"}]
  /\ state \in {"map", "reduce", "finished", "exited"}
  /\ worker \in [Worker -> WorkerType]

\* Every file has the one content that its name allows.
FileInv ==
  /\ \A i \in MapTasks, y \in Bucket : MapFile(i, y) \in DOMAIN files =>
       files[MapFile(i, y)] = PairsOf(i, y)
  /\ \A y \in Bucket : OutFile(y) \in DOMAIN files =>
       files[OutFile(y)] = SequentialPart(y)

\* All files of task i are among names.
Written(i, names) ==
  /\ i \in MapTasks => \A y \in BucketsOf(i) : MapFile(i, y) \in names
  /\ i \in ReduceTasks => OutFile(i - NFiles) \in names

DoneInv == \A i \in Tasks : taskStates[i] = "done" => Written(i, DOMAIN files)

PhaseInv ==
  /\ state # "map" => AllDone(MapTasks)
  /\ state \in {"finished", "exited"} => AllDone(ReduceTasks)

\* Map task: the buckets that are not to do any more have their files.
MapOK(k, names) ==
  /\ k.task \in MapTasks
  /\ k.todo \subseteq BucketsOf(k.task)
  /\ \A y \in BucketsOf(k.task) \ k.todo : MapFile(k.task, y) \in names

\* Reduce task: the pairs of an input file have been read once, or their file is
\* among those still to be read.
ReadOK(k, names) ==
  LET y == k.task - NFiles
  IN  /\ k.todo \subseteq names \cap ({MapFile(i, y) : i \in MapTasks} \cup {OutFile(y)})
      /\ \A i \in MapTasks : \A kv \in Emits[i] :
           k.kvs[kv] = IF IHash[kv[1]] = y /\ MapFile(i, y) \notin k.todo
                       THEN 1 ELSE 0

\* What a worker with the locals k relies on, while the files in names exist
\* and the coordinator is in phase st.
WorkerOK(k, names, st) ==
  /\ k.pc = "map" => MapOK(k, names)
  /\ k.pc \in {"reduce", "read"} => k.task \in ReduceTasks /\ st # "map"
  /\ k.pc = "reduce" => k.kvs = NoPairs
  /\ k.pc = "read" => ReadOK(k, names)
  /\ k.pc = "complete" => Written(k.task, names)
  /\ k.pc = "left" => st \in {"finished", "exited"}

WorkerInv == \A w \in Worker : WorkerOK(worker[w], DOMAIN files, state)

JobInv == JobTypeOK /\ FileInv /\ DoneInv /\ PhaseInv /\ WorkerInv

-----------------------------------------------------------------------------
(* Facts about the operators.                                              *)

\* The least-number principle: Min picks an element.
LEMMA MinInSet ==
  ASSUME NEW T \in SUBSET Nat, T # {}
  PROVE  Min(T) \in T
<1> DEFINE R == {ss \in Nat \X Nat : ss[1] < ss[2]}
<1>1. IsWellFoundedOn(R, Nat)
  BY NatLessThanWellFounded DEF OpToRel
<1>2. \A x, y \in Nat : <<y, x>> \in R <=> y < x
  OBVIOUS
<1> HIDE DEF R
<1>3. PICK x \in T : \A y \in T : ~ (<<y, x>> \in R)
  BY <1>1, WFMin
<1>4. \A y \in T : ~ (y < x)
  BY <1>2, <1>3
<1>5. \A y \in T : x <= y
  BY <1>4
<1> QED BY <1>5 DEF Min

\* No two files share a name.
LEMMA NamesDiffer ==
  /\ \A i, j, y, z : MapFile(i, y) = MapFile(j, z) => i = j /\ y = z
  /\ \A y, z : OutFile(y) = OutFile(z) => y = z
  /\ \A i, y, z : MapFile(i, y) # OutFile(z)
  /\ \A i, y : MapFile(i, y)[1] = "mr" /\ OutFile(y)[1] = "mr-out"
BY DEF MapFile, OutFile

\* The tasks of the two kinds are different numbers.
LEMMA TaskNumbers ==
  /\ MapTasks \cap ReduceTasks = {} /\ 0 \in MapTasks
  /\ Tasks \subseteq Nat /\ Bucket \subseteq Nat
  /\ \A i \in ReduceTasks : i - NFiles \in Bucket
  /\ \A y \in Bucket : y + NFiles \in ReduceTasks /\ (y + NFiles) - NFiles = y
BY SizeAssumption DEF MapTasks, ReduceTasks, Tasks, Bucket

\* What Map emits for a file lands in buckets that exist.
LEMMA Buckets == \A i \in MapTasks : BucketsOf(i) \subseteq Bucket
BY MapAssumption DEF BucketsOf

\* The number of a pair's file is the only one.
LEMMA OneFile ==
  /\ \A kv \in AllPairs : \E i \in MapTasks : kv \in Emits[i]
  /\ \A i \in MapTasks : Emits[i] \subseteq AllPairs
  /\ \A i, j \in MapTasks : \A kv \in Emits[i] : kv \in Emits[j] => i = j
BY MapAssumption DEF AllPairs

\* Reduce of all pairs of a bucket is the sequential program's part of it.
LEMMA ReduceIsSequential ==
  ASSUME NEW y \in Bucket
  PROVE  ReduceAll(BucketList(y)) = SequentialPart(y)
<1> DEFINE once == [kv \in AllPairs |-> 1]
           L == BucketList(y)
           F(l, k) == Restrict(l, {kv \in InList(l) : kv[1] = k})
<1>1. InList(L) = {kv \in AllPairs : IHash[kv[1]] = y} /\ InList(once) = AllPairs
  BY DEF InList, BucketList
<1>2. KeysOf(L) = {k \in KeysOf(once) : IHash[k] = y}
  BY <1>1 DEF KeysOf
<1>3. ASSUME NEW k, IHash[k] = y PROVE F(L, k) = F(once, k)
  <2>1. {kv \in InList(L) : kv[1] = k} = {kv \in InList(once) : kv[1] = k}
    BY <1>1, <1>3
  <2>2. \A kv \in {kv \in InList(once) : kv[1] = k} : L[kv] = once[kv]
    BY <1>1, <1>3 DEF BucketList
  <2> HIDE DEF L, once
  <2> QED BY <2>1, <2>2 DEF Restrict
<1>4. ReduceAll(L) = [k \in KeysOf(L) |-> F(L, k)]
  BY DEF ReduceAll
<1>5. Sequential = [k \in KeysOf(once) |-> F(once, k)]
  BY DEF Sequential, ReduceAll
<1>0. L = BucketList(y)
  OBVIOUS
<1> HIDE DEF F, L, once
<1>6. SequentialPart(y) = [k \in KeysOf(L) |-> F(once, k)]
  BY <1>2, <1>5 DEF SequentialPart, Restrict
<1>7. \A k \in KeysOf(L) : F(L, k) = F(once, k)
  BY <1>2, <1>3
<1>8. ReduceAll(L) = SequentialPart(y)
  BY <1>4, <1>6, <1>7
<1> QED BY <1>0, <1>8

\* A worker that has nothing left to read has every pair of its bucket once.
LEMMA AllRead ==
  ASSUME NEW k, NEW names, k.task \in ReduceTasks, ReadOK(k, names), k.todo = {},
         k.kvs \in [AllPairs -> Nat]
  PROVE  k.kvs = BucketList(k.task - NFiles)
<1> DEFINE y == k.task - NFiles
<1>1. ASSUME NEW kv \in AllPairs PROVE k.kvs[kv] = IF IHash[kv[1]] = y THEN 1 ELSE 0
  <2>1. PICK i \in MapTasks : kv \in Emits[i]
    BY OneFile
  <2> QED BY <2>1 DEF ReadOK
<1> HIDE DEF y
<1>2. k.kvs = BucketList(y)
  BY <1>1 DEF BucketList
<1> QED BY <1>2 DEF y

\* More files disturb no finished task ...
LEMMA WrittenStays ==
  ASSUME NEW i, NEW names, NEW more, names \subseteq more, Written(i, names)
  PROVE  Written(i, more)
BY DEF Written

\* ... and, with a later phase too, no worker.
LEMMA WorkerStays ==
  ASSUME NEW k, NEW names, NEW more, NEW st, NEW later,
         WorkerOK(k, names, st), names \subseteq more,
         st # "map" => later # "map",
         st \in {"finished", "exited"} => later \in {"finished", "exited"}
  PROVE  WorkerOK(k, more, later)
<1>1. k.pc = "read" => ReadOK(k, more)
  BY DEF WorkerOK, ReadOK
<1>2. k.pc = "map" => MapOK(k, more)
  BY DEF WorkerOK, MapOK
<1> QED BY <1>1, <1>2, WrittenStays DEF WorkerOK

\* A rename adds one name, and keeps FileInv if the content is the right one.
LEMMA RenameKeeps ==
  ASSUME FileInv, NEW name, NEW content, Rename(name, content),
         \A i \in MapTasks, y \in Bucket : name = MapFile(i, y) => content = PairsOf(i, y),
         \A y \in Bucket : name = OutFile(y) => content = SequentialPart(y)
  PROVE  FileInv' /\ DOMAIN files' = DOMAIN files \cup {name}
BY DEF Rename, FileInv

-----------------------------------------------------------------------------
(* The steps.                                                              *)

\* The job starts with nothing done and no files.
LEMMA JobInit == Init => JobInv
<1> SUFFICES ASSUME Init PROVE JobInv
  OBVIOUS
<1>1. Idle \in WorkerType
  BY TaskNumbers DEF Idle, NoPairs, Tasks, WorkerType
<1>2. JobTypeOK
  BY <1>1 DEF Init, JobTypeOK, Tasks
<1>3. FileInv /\ DoneInv /\ PhaseInv
  BY DEF Init, FileInv, DoneInv, PhaseInv, Tasks
<1>4. WorkerInv
  BY DEF Init, WorkerInv, WorkerOK, Idle
<1> QED BY <1>2, <1>3, <1>4 DEF JobInv

\* A step of worker w that leaves the coordinator alone.
LEMMA OneWorker ==
  ASSUME JobInv, NEW w \in Worker, NEW k,
         worker' = [worker EXCEPT ![w] = k],
         DOMAIN files \subseteq DOMAIN files',
         WorkerOK(k, DOMAIN files', state'),
         state # "map" => state' # "map",
         state \in {"finished", "exited"} => state' \in {"finished", "exited"}
  PROVE  WorkerInv'
<1> SUFFICES ASSUME NEW v \in Worker
             PROVE  WorkerOK(worker'[v], DOMAIN files', state')
  BY DEF WorkerInv
<1>1. CASE v = w
  BY <1>1 DEF JobInv, JobTypeOK
<1>2. CASE v # w
  <2>1. worker'[v] = worker[v] /\ WorkerOK(worker[v], DOMAIN files, state)
    BY <1>2 DEF JobInv, JobTypeOK, WorkerInv
  <2> QED BY <2>1, WorkerStays
<1> QED BY <1>1, <1>2

\* Steps of a worker on its own: no task changes, and files only appear.
LEMMA WorkerAlone ==
  ASSUME JobInv, NEW w \in Worker,
         NEW k \in WorkerType,
         worker' = [worker EXCEPT ![w] = k],
         UNCHANGED <<taskStates, state>>,
         FileInv', DOMAIN files \subseteq DOMAIN files',
         WorkerOK(k, DOMAIN files', state)
  PROVE  JobInv'
<1>1. JobTypeOK'
  BY DEF JobInv, JobTypeOK
<1>2. DoneInv'
  BY WrittenStays DEF JobInv, DoneInv
<1>3. PhaseInv'
  BY DEF JobInv, PhaseInv, AllDone
<1>4. WorkerInv'
  BY OneWorker
<1> QED BY <1>1, <1>2, <1>3, <1>4 DEF JobInv

\* A map task: one bucket more has its file, and the last step.
LEMMA MapSteps ==
  ASSUME JobInv, NEW w \in Worker, WriteBucket(w) \/ MapEnds(w)
  PROVE  JobInv'
<1> DEFINE k == worker[w]
<1>0. WorkerOK(k, DOMAIN files, state) /\ k.pc = "map" /\ MapOK(k, DOMAIN files)
  BY DEF JobInv, WorkerInv, WorkerOK, WriteBucket, MapEnds
<1>t. k \in WorkerType
  BY DEF JobInv, JobTypeOK
<1>1. CASE WriteBucket(w)
  <2> DEFINE y == Min(k.todo)
             l == [k EXCEPT !.todo = @ \ {y}]
  <2>1. y \in k.todo
    <3>1. k.todo \subseteq Nat
      BY <1>0, Buckets, TaskNumbers DEF MapOK
    <3> QED BY <1>1, <3>1, MinInSet DEF WriteBucket
  <2>2. k.task \in MapTasks /\ y \in Bucket /\ y \in BucketsOf(k.task)
    BY <1>0, <2>1, Buckets DEF MapOK
  <2>3. Rename(MapFile(k.task, y), PairsOf(k.task, y))
    BY <1>1 DEF WriteBucket, PairsOf
  <2>4. FileInv' /\ DOMAIN files' = DOMAIN files \cup {MapFile(k.task, y)}
    <3> HIDE DEF k, y
    <3>1. \A i \in MapTasks, z \in Bucket :
            MapFile(k.task, y) = MapFile(i, z) => PairsOf(k.task, y) = PairsOf(i, z)
      BY NamesDiffer
    <3>2. \A z \in Bucket : MapFile(k.task, y) = OutFile(z)
            => PairsOf(k.task, y) = SequentialPart(z)
      BY NamesDiffer
    <3> QED BY <2>3, <3>1, <3>2, RenameKeeps DEF JobInv
  <2>5. l.pc = "map" /\ l.task = k.task /\ l.todo = k.todo \ {y} /\ l.kvs = k.kvs
    BY <1>0, <1>t DEF WorkerType
  <2>6. WorkerOK(l, DOMAIN files', state)
    <3> HIDE DEF k, y, l
    <3>1. MapOK(l, DOMAIN files')
      BY <1>0, <2>4, <2>5 DEF MapOK
    <3> QED BY <3>1, <2>5 DEF WorkerOK
  <2>7. worker' = [worker EXCEPT ![w] = l] /\ UNCHANGED <<taskStates, state>>
    BY <1>1 DEF WriteBucket
  <2>8. l \in WorkerType
    BY <1>t DEF WorkerType
  <2> HIDE DEF l, k, y
  <2> QED BY <2>4, <2>6, <2>7, <2>8, WorkerAlone
<1>2. CASE MapEnds(w)
  <2> DEFINE l == [k EXCEPT !.pc = "complete"]
  <2>1. l.pc = "complete" /\ l.task = k.task
    BY <1>t DEF WorkerType
  <2>2. k.task \in MapTasks /\ Written(k.task, DOMAIN files)
    BY <1>0, <1>2, TaskNumbers DEF MapEnds, MapOK, Written
  <2>3. WorkerOK(l, DOMAIN files, state)
    BY <2>1, <2>2 DEF WorkerOK
  <2>4. worker' = [worker EXCEPT ![w] = l] /\ UNCHANGED <<taskStates, state, files>>
    BY <1>2 DEF MapEnds
  <2>5. l \in WorkerType
    BY <1>t DEF WorkerType
  <2>6. FileInv'
    BY <2>4 DEF JobInv, FileInv
  <2> HIDE DEF l, k
  <2> QED BY <2>3, <2>4, <2>5, <2>6, WorkerAlone
<1> QED BY <1>1, <1>2

\* A reduce task: the files are listed, read one by one, and the output gets
\* its name.
LEMMA ReduceSteps ==
  ASSUME JobInv, NEW w \in Worker, FindFiles(w) \/ ReadFile(w) \/ WriteOutput(w)
  PROVE  JobInv'
<1> DEFINE k == worker[w]
           y == k.task - NFiles
<1>0. /\ WorkerOK(k, DOMAIN files, state)
      /\ k.pc \in {"reduce", "read"} /\ k.task \in ReduceTasks /\ state # "map"
      /\ y \in Bucket
  BY TaskNumbers DEF JobInv, WorkerInv, WorkerOK, FindFiles, ReadFile, WriteOutput
<1>t. k \in WorkerType
  BY DEF JobInv, JobTypeOK
<1>f. ASSUME UNCHANGED files PROVE FileInv'
  BY <1>f DEF JobInv, FileInv
<1>1. CASE FindFiles(w)
  <2> DEFINE l == [k EXCEPT !.pc = "read", !.todo = Glob(y)]
  <2>1. l.pc = "read" /\ l.task = k.task /\ l.todo = Glob(y) /\ l.kvs = k.kvs
    BY <1>t DEF WorkerType
  <2>2. worker' = [worker EXCEPT ![w] = l] /\ UNCHANGED <<taskStates, state, files>>
    BY <1>1, <1>t DEF FindFiles, WorkerType
  <2>3. Glob(y) \subseteq FileName
    BY <1>0 DEF Glob, FileName
  <2>4. l \in WorkerType
    BY <1>t, <2>3 DEF WorkerType
  <2>5. k.kvs = NoPairs
    BY <1>0, <1>1 DEF WorkerOK, FindFiles
  <2>6. \A i \in MapTasks : y \in BucketsOf(i) => MapFile(i, y) \in Glob(y)
    <3>1. \A i \in MapTasks : i \in Tasks /\ taskStates[i] = "done"
      BY <1>0 DEF JobInv, PhaseInv, AllDone, Tasks
    <3>2. \A i \in MapTasks : Written(i, DOMAIN files)
      BY <3>1 DEF JobInv, DoneInv
    <3> QED BY <3>2 DEF Written, Glob
  <2>7. ReadOK(l, DOMAIN files)
    <3> HIDE DEF l
    <3>1. \A i \in MapTasks : \A kv \in Emits[i] :
            l.kvs[kv] = 0 /\ (IHash[kv[1]] = y => MapFile(i, y) \in l.todo)
      BY <2>1, <2>5, <2>6, OneFile DEF NoPairs, BucketsOf
    <3> QED BY <2>1, <3>1 DEF ReadOK, Glob
  <2> HIDE DEF l, k
  <2>8. WorkerOK(l, DOMAIN files, state)
    BY <1>0, <2>1, <2>7 DEF WorkerOK
  <2> QED BY <1>f, <2>2, <2>4, <2>8, WorkerAlone
<1>2. CASE ReadFile(w)
  <2> DEFINE name == CHOOSE n \in k.todo : TRUE
             l == [k EXCEPT !.todo = @ \ {name}, !.kvs = Appended(@, Decode(name))]
  <2>1. k.pc = "read" /\ name \in k.todo /\ ReadOK(k, DOMAIN files)
    BY <1>0, <1>2 DEF ReadFile, WorkerOK
  <2>2. /\ l.pc = "read" /\ l.task = k.task /\ l.todo = k.todo \ {name}
        /\ l.kvs = Appended(k.kvs, Decode(name))
    BY <1>t, <2>1 DEF WorkerType
  <2>3. worker' = [worker EXCEPT ![w] = l] /\ UNCHANGED <<taskStates, state, files>>
    BY <1>2, <1>t DEF ReadFile, WorkerType
  <2> HIDE DEF name
  <2>4. \/ name = OutFile(y) /\ Decode(name) = {}
        \/ \E j \in MapTasks : name = MapFile(j, y) /\ Decode(name) = PairsOf(j, y)
    <3>1. /\ name \in DOMAIN files
          /\ \/ \E j \in MapTasks : name = MapFile(j, y)
             \/ name = OutFile(y)
      BY <2>1 DEF ReadOK
    <3>2. \A j \in MapTasks : name = MapFile(j, y) => Decode(name) = PairsOf(j, y)
      BY <1>0, <3>1, NamesDiffer DEF Decode, JobInv, FileInv
    <3>3. name = OutFile(y) => Decode(name) = {}
      BY NamesDiffer DEF Decode
    <3> QED BY <3>1, <3>2, <3>3
  <2>5. l \in WorkerType
    <3>1. k.kvs \in [AllPairs -> Nat]
      BY <1>t DEF WorkerType
    <3>2. Appended(k.kvs, Decode(name)) \in [AllPairs -> Nat]
      BY <3>1 DEF Appended
    <3> QED BY <1>t, <3>2 DEF WorkerType
  <2> HIDE DEF l, k
  <2>6. ReadOK(l, DOMAIN files)
    <3>1. ASSUME NEW i \in MapTasks, NEW kv \in Emits[i]
          PROVE  l.kvs[kv] = IF IHash[kv[1]] = y /\ MapFile(i, y) \notin l.todo THEN 1 ELSE 0
      <4>1. /\ kv \in AllPairs
            /\ k.kvs[kv] = IF IHash[kv[1]] = y /\ MapFile(i, y) \notin k.todo THEN 1 ELSE 0
        BY <2>1, OneFile DEF ReadOK
      <4>2. l.kvs[kv] = IF kv \in Decode(name) THEN k.kvs[kv] + 1 ELSE k.kvs[kv]
        BY <2>2, <4>1 DEF Appended
      <4>3. CASE name = MapFile(i, y)
        <5>1. kv \in Decode(name) <=> IHash[kv[1]] = y
          BY <2>4, <4>3, NamesDiffer DEF PairsOf
        <5> QED BY <2>1, <2>2, <4>1, <4>2, <4>3, <5>1
      <4>4. CASE name # MapFile(i, y)
        <5>1. kv \notin Decode(name)
          BY <2>4, <4>4, OneFile DEF PairsOf
        <5> QED BY <2>2, <4>1, <4>2, <4>4, <5>1
      <4> QED BY <4>3, <4>4
    <3> QED BY <2>1, <2>2, <3>1 DEF ReadOK
  <2>7. WorkerOK(l, DOMAIN files, state)
    BY <1>0, <2>2, <2>6 DEF WorkerOK
  <2> QED BY <1>f, <2>3, <2>5, <2>7, WorkerAlone
<1>3. CASE WriteOutput(w)
  <2> DEFINE l == [k EXCEPT !.pc = "complete", !.kvs = NoPairs]
  <2>1. l.pc = "complete" /\ l.task = k.task
    BY <1>t DEF WorkerType
  <2>2. k.kvs = BucketList(y)
    <3>1. k.pc = "read" /\ k.todo = {} /\ ReadOK(k, DOMAIN files)
      BY <1>0, <1>3 DEF WriteOutput, WorkerOK
    <3>2. k.kvs \in [AllPairs -> Nat]
      BY <1>t DEF WorkerType
    <3> QED BY <1>0, <3>1, <3>2, AllRead
  <2>3. Rename(OutFile(y), SequentialPart(y))
    BY <1>0, <1>3, <2>2, ReduceIsSequential DEF WriteOutput
  <2>4. FileInv' /\ DOMAIN files' = DOMAIN files \cup {OutFile(y)}
    <3> HIDE DEF y
    <3>1. \A i \in MapTasks, z \in Bucket :
            OutFile(y) = MapFile(i, z) => SequentialPart(y) = PairsOf(i, z)
      BY NamesDiffer
    <3>2. \A z \in Bucket : OutFile(y) = OutFile(z)
            => SequentialPart(y) = SequentialPart(z)
      BY NamesDiffer
    <3> QED BY <2>3, <3>1, <3>2, RenameKeeps DEF JobInv
  <2>5. worker' = [worker EXCEPT ![w] = l] /\ UNCHANGED <<taskStates, state>>
    BY <1>3, <1>t DEF WriteOutput, WorkerType
  <2>6. l \in WorkerType
    BY <1>t DEF WorkerType, NoPairs
  <2>7. Written(k.task, DOMAIN files')
    BY <1>0, <2>4, TaskNumbers DEF Written
  <2> HIDE DEF l, k
  <2>8. WorkerOK(l, DOMAIN files', state)
    BY <2>1, <2>7 DEF WorkerOK
  <2> QED BY <2>4, <2>5, <2>6, <2>8, WorkerAlone
<1> QED BY <1>1, <1>2, <1>3

\* A worker loses the coordinator, or dies.
LEMMA WorkerEnds ==
  ASSUME JobInv, NEW w \in Worker, NobodyAnswers(w) \/ Crash(w)
  PROVE  JobInv'
<1> PICK p \in {"left", "crashed"} :
      /\ worker' = [worker EXCEPT ![w] = [Idle EXCEPT !.pc = p]]
      /\ p = "left" => state = "exited"
      /\ UNCHANGED <<taskStates, state, files>>
  BY DEF NobodyAnswers, Crash
<1> DEFINE l == [Idle EXCEPT !.pc = p]
<1>1. l.pc = p /\ l \in WorkerType
  BY TaskNumbers DEF Idle, NoPairs, WorkerType, Tasks
<1>2. FileInv'
  BY DEF JobInv, FileInv
<1> HIDE DEF l
<1>3. WorkerOK(l, DOMAIN files, state)
  BY <1>1 DEF WorkerOK
<1>4. worker' = [worker EXCEPT ![w] = l]
  BY DEF l
<1> QED BY <1>1, <1>2, <1>3, <1>4, WorkerAlone

\* The coordinator marks a task done only when a worker has completed it.
LEMMA CompleteTaskInv ==
  ASSUME JobInv, NEW w \in Worker, CompleteTask(w)
  PROVE  JobInv'
<1> DEFINE i == worker[w].task
<1>1. i \in Tasks /\ Written(i, DOMAIN files)
  BY DEF CompleteTask, JobInv, JobTypeOK, WorkerType, WorkerInv, WorkerOK
<1>2. Idle \in WorkerType /\ Idle.pc = "idle"
  BY TaskNumbers DEF Idle, NoPairs, WorkerType, Tasks
<1> HIDE DEF i
<1>3. /\ taskStates' = [taskStates EXCEPT ![i] = IF @ = "executing" THEN "done" ELSE @]
      /\ worker' = [worker EXCEPT ![w] = Idle]
      /\ UNCHANGED <<state, files>>
  BY DEF CompleteTask, i
<1>4. JobTypeOK'
  BY <1>1, <1>2, <1>3 DEF JobInv, JobTypeOK
<1>5. FileInv' /\ DoneInv'
  BY <1>1, <1>3 DEF JobInv, JobTypeOK, FileInv, DoneInv
<1>6. PhaseInv'
  BY <1>1, <1>3 DEF JobInv, JobTypeOK, PhaseInv, AllDone, Tasks
<1>7. WorkerOK(Idle, DOMAIN files', state')
  BY <1>2 DEF WorkerOK
<1>8. WorkerInv'
  BY <1>3, <1>7, OneWorker
<1> QED BY <1>4, <1>5, <1>6, <1>8 DEF JobInv

\* The phase never goes back, and leaves one only when its tasks are done.
LEMMA PhaseNowInv ==
  ASSUME JobInv
  PROVE  /\ PhaseNow \in {"map", "reduce", "finished", "exited"}
         /\ state # "map" => PhaseNow # "map"
         /\ state \in {"finished", "exited"} => PhaseNow = state
         /\ PhaseNow # "map" => AllDone(MapTasks)
         /\ PhaseNow \in {"finished", "exited"} => AllDone(ReduceTasks)
BY DEF JobInv, JobTypeOK, PhaseInv, PhaseNow

\* A worker asks for a task.
LEMMA GetTaskInv ==
  ASSUME JobInv, NEW w \in Worker, GetTask(w)
  PROVE  JobInv'
<1> DEFINE free == Unassigned(TasksOf(PhaseNow))
           i == Min(free)
           todo == IF PhaseNow = "map" THEN {IHash[kv[1]] : kv \in Emits[i]} ELSE {}
           given == [Idle EXCEPT !.pc = PhaseNow, !.task = i, !.todo = todo]
           asked == [worker[w] EXCEPT !.pc = IF PhaseNow = "finished" THEN "left"
                                            ELSE "idle"]
<1>1. state' = PhaseNow /\ UNCHANGED files
  BY DEF GetTask
<1>2. CASE free # {}
  <2>1. i \in free
    <3>1. free \subseteq Nat
      BY TaskNumbers DEF Unassigned, TasksOf, Tasks
    <3> HIDE DEF free
    <3> QED BY <1>2, <3>1, MinInSet
  <2>2. /\ PhaseNow \in {"map", "reduce"}
        /\ PhaseNow = "map" => i \in MapTasks
        /\ PhaseNow = "reduce" => i \in ReduceTasks
        /\ taskStates[i] = "unassigned"
    BY <2>1 DEF Unassigned, TasksOf
  <2>3. /\ taskStates' = [taskStates EXCEPT ![i] = "executing"]
        /\ worker' = [worker EXCEPT ![w] = given]
    BY <1>2 DEF GetTask
  <2> HIDE DEF free, i
  <2>4. todo \subseteq Bucket
    BY <2>2, Buckets DEF BucketsOf
  <2>5. /\ given.pc = PhaseNow /\ given.task = i /\ given.todo = todo
        /\ given.kvs = NoPairs /\ given \in WorkerType
    BY <2>2, <2>4 DEF Idle, NoPairs, WorkerType, Tasks
  <2>6. PhaseNow = "map" => todo = BucketsOf(i)
    BY DEF BucketsOf
  <2> HIDE DEF given, todo
  <2>7. WorkerOK(given, DOMAIN files', state')
    <3>1. PhaseNow = "map" => MapOK(given, DOMAIN files')
      BY <2>2, <2>5, <2>6 DEF MapOK
    <3> QED BY <1>1, <2>2, <2>5, <3>1 DEF WorkerOK
  <2>8. WorkerInv'
    BY <1>1, <2>3, <2>7, OneWorker, PhaseNowInv
  <2>9. JobTypeOK'
    BY <1>1, <2>2, <2>3, <2>5 DEF JobInv, JobTypeOK, Tasks
  <2>10. FileInv' /\ DoneInv'
    BY <1>1, <2>3 DEF JobInv, JobTypeOK, FileInv, DoneInv
  <2>11. PhaseInv'
    <3>1. \A j \in Tasks : taskStates[j] = "done" => taskStates'[j] = "done"
      BY <2>2, <2>3 DEF JobInv, JobTypeOK
    <3> QED BY <1>1, <3>1, PhaseNowInv DEF PhaseInv, AllDone, Tasks
  <2> QED BY <2>8, <2>9, <2>10, <2>11 DEF JobInv
<1>3. CASE free = {}
  <2>1. /\ worker' = [worker EXCEPT ![w] = asked]
        /\ UNCHANGED taskStates
    BY <1>3 DEF GetTask
  <2>2. asked \in WorkerType /\ asked.pc = IF PhaseNow = "finished" THEN "left" ELSE "idle"
    BY DEF JobInv, JobTypeOK, WorkerType
  <2> HIDE DEF asked
  <2>3. WorkerOK(asked, DOMAIN files', state')
    BY <1>1, <2>2 DEF WorkerOK
  <2>4. WorkerInv'
    BY <1>1, <2>1, <2>3, OneWorker, PhaseNowInv
  <2>5. JobTypeOK'
    BY <1>1, <2>1, <2>2, PhaseNowInv DEF JobInv, JobTypeOK
  <2>6. FileInv' /\ DoneInv'
    BY <1>1, <2>1 DEF JobInv, FileInv, DoneInv
  <2>7. PhaseInv'
    BY <1>1, <2>1, PhaseNowInv DEF PhaseInv, AllDone
  <2> QED BY <2>4, <2>5, <2>6, <2>7 DEF JobInv
<1> QED BY <1>2, <1>3

\* A timer expires, or the coordinator's process ends.
LEMMA CoordinatorInv ==
  ASSUME JobInv, CoordinatorExits \/ \E i \in Tasks : Timer(i)
  PROVE  JobInv'
<1>1. CASE CoordinatorExits
  <2>1. JobTypeOK' /\ FileInv' /\ DoneInv' /\ PhaseInv'
    BY <1>1 DEF CoordinatorExits, JobInv, JobTypeOK, FileInv, DoneInv, PhaseInv, AllDone
  <2>2. WorkerInv'
    BY <1>1, WorkerStays DEF CoordinatorExits, JobInv, WorkerInv
  <2> QED BY <2>1, <2>2 DEF JobInv
<1>2. CASE \E i \in Tasks : Timer(i)
  <2> PICK i \in Tasks : Timer(i)
    BY <1>2
  <2>1. JobTypeOK' /\ FileInv' /\ DoneInv'
    BY DEF Timer, TimedOut, JobInv, JobTypeOK, FileInv, DoneInv
  <2>2. PhaseInv'
    BY DEF Timer, TimedOut, JobInv, JobTypeOK, PhaseInv, AllDone, Tasks
  <2>3. WorkerInv'
    BY DEF Timer, JobInv, WorkerInv
  <2> QED BY <2>1, <2>2, <2>3 DEF JobInv
<1> QED BY <1>1, <1>2

\* JobInv is inductive.
LEMMA JobStep == JobInv /\ [Next]_vars => JobInv'
<1> SUFFICES ASSUME JobInv, [Next]_vars PROVE JobInv'
  OBVIOUS
<1>1. ASSUME NEW w \in Worker, WorkerStep(w) \/ Crash(w) PROVE JobInv'
  BY <1>1, GetTaskInv, MapSteps, ReduceSteps, CompleteTaskInv, WorkerEnds
     DEF WorkerStep
<1>2. CASE UNCHANGED vars
  BY <1>2 DEF vars, JobInv, JobTypeOK, FileInv, DoneInv, PhaseInv, AllDone, WorkerInv
<1> QED BY <1>1, <1>2, CoordinatorInv DEF Next, Tasks

\* mr/coordinator.go and mr/worker.go: the output files are those of
\* mrsequential.go, and all of them are there when the first worker or the
\* coordinator leaves, whatever workers crash, are slow, or repeat: no pair is
\* lost and none is counted twice.
THEOREM JobOutputIsSequential == FairSpec => []OutputIsSequential
<1>1. JobInv => OutputIsSequential
  <2> SUFFICES ASSUME JobInv PROVE OutputIsSequential
    OBVIOUS
  <2>1. \A y \in Bucket : OutFile(y) \in DOMAIN files => files[OutFile(y)] = SequentialPart(y)
    BY DEF JobInv, FileInv
  <2>2. ASSUME state = "exited" \/ \E w \in Worker : worker[w].pc = "left",
               NEW y \in Bucket
        PROVE  OutFile(y) \in DOMAIN files
    <3>1. state \in {"finished", "exited"}
      BY <2>2 DEF JobInv, WorkerInv, WorkerOK
    <3>2. y + NFiles \in ReduceTasks /\ (y + NFiles) - NFiles = y
      BY TaskNumbers
    <3>3. Written(y + NFiles, DOMAIN files)
      BY <3>1, <3>2 DEF JobInv, PhaseInv, AllDone, DoneInv, Tasks
    <3> QED BY <3>2, <3>3 DEF Written
  <2> QED BY <2>1, <2>2 DEF OutputIsSequential
<1> QED BY <1>1, JobInit, JobStep, PTL DEF FairSpec
=============================================================================
