----------------------------- MODULE MapReduce ------------------------------
(***************************************************************************)
(* MapReduce: the coordinator (mr/coordinator.go), the worker processes    *)
(* (mr/worker.go), the files they share, and the sequential program        *)
(* (main/mrsequential.go) whose output the distributed one must have.      *)
(*                                                                         *)
(* Tasks are numbered from 0: the map tasks, one per input file, and then  *)
(* the reduce tasks.  Map and Reduce are functions of their arguments (the *)
(* applications of mrapps/ are).  Map emits a list of pairs: an element is *)
(* named by its key, its value and the place where it was emitted, so that *)
(* no two are the same; whoever has read pairs knows how often he has read *)
(* each.  Reduce is named by its arguments.                                *)
(***************************************************************************)
EXTENDS Integers, FiniteSets, FiniteSetsExt, Functions

CONSTANTS
  Worker,   \* worker processes
  Prompt,   \* workers that never crash and end a task within 10 seconds
  NFiles,   \* number of input files
  NReduce,  \* number of reduce tasks
  Emits,    \* Map: the pairs <<key, value, place>> of each input file
  IHash     \* ihash(key) % NReduce

MapTasks == 0 .. NFiles - 1
ReduceTasks == NFiles .. NFiles + NReduce - 1
Bucket == 0 .. NReduce - 1
Keys == DOMAIN IHash
AllPairs == UNION {Emits[i] : i \in MapTasks}

ASSUME WorkerAssumption == Prompt \subseteq Worker
ASSUME SizeAssumption == NFiles \in Nat \ {0} /\ NReduce \in Nat \ {0}
ASSUME MapAssumption ==
  /\ IHash \in [Keys -> Bucket]
  /\ DOMAIN Emits = MapTasks
  /\ \A i \in MapTasks : \A kv \in Emits[i] : kv[1] \in Keys
  /\ \A i, j \in MapTasks : i # j => Emits[i] \cap Emits[j] = {}

VARIABLES
  taskStates,  \* of the coordinator: state of each task
  state,       \* of the coordinator: its phase; "exited" when its process is gone
  worker,      \* per worker: pc and the locals of the task it works on
  files        \* the files with a final name, by name

vars == <<taskStates, state, worker, files>>

MapFile(i, y) == <<"mr", i, y>>
OutFile(y) == <<"mr-out", y>>

-----------------------------------------------------------------------------
(* The coordinator.                                                        *)

Unassigned(tasks) == {i \in tasks : taskStates[i] = "unassigned"}

\* Seeded fault: a phase ends when its last task has been given out.
AllDoneAssigned(tasks) == \A i \in tasks : taskStates[i] # "unassigned"

AllDone(tasks) == \A i \in tasks : taskStates[i] = "done"

\* The phase in which GetTask answers: it moves on when all tasks are done.
PhaseNow ==
  LET afterMap == IF state = "map" /\ AllDone(MapTasks) THEN "reduce" ELSE state
  IN  IF afterMap = "reduce" /\ AllDone(ReduceTasks) THEN "finished"
      ELSE afterMap

TasksOf(p) == IF p = "map" THEN MapTasks ELSE IF p = "reduce" THEN ReduceTasks
              ELSE {}

\* How often each pair has been read: not at all.
NoPairs == [kv \in AllPairs |-> 0]

Idle == [pc |-> "idle", task |-> 0, todo |-> {}, kvs |-> NoPairs]

\* GetTask: the first task of the phase that nobody works on, "wait" or "done".
GetTask(w) ==
  LET free == Unassigned(TasksOf(PhaseNow))
      i == Min(free)
  IN  /\ worker[w].pc = "idle" /\ state # "exited"
      /\ state' = PhaseNow
      /\ IF free # {}
         THEN /\ taskStates' = [taskStates EXCEPT ![i] = "executing"]
              /\ worker' = [worker EXCEPT ![w] =
                   [Idle EXCEPT !.pc = PhaseNow, !.task = i,
                                !.todo = IF PhaseNow = "map"
                                         THEN {IHash[kv[1]] : kv \in Emits[i]}
                                         ELSE {}]]
         ELSE /\ worker' = [worker EXCEPT ![w].pc =
                              IF PhaseNow = "finished" THEN "left" ELSE "idle"]
              /\ UNCHANGED taskStates
      /\ UNCHANGED files

\* Seeded fault: the timer expires and the task stays with its worker.
TimedOutNever(i) == taskStates[i]

TimedOut(i) == "unassigned"

WorksOn(w, i) ==
  worker[w].pc \in {"map", "reduce", "read", "complete"} /\ worker[w].task = i

\* The timer of a task expires.  A prompt worker is ready before that.
Timer(i) ==
  /\ taskStates[i] = "executing"
  /\ \A w \in Prompt : ~WorksOn(w, i)
  /\ taskStates' = [taskStates EXCEPT ![i] = TimedOut(i)]
  /\ UNCHANGED <<state, worker, files>>

\* CompleteTask, of whichever worker had the task at some time.
CompleteTask(w) ==
  LET i == worker[w].task
  IN  /\ worker[w].pc = "complete" /\ state # "exited"
      /\ taskStates' = [taskStates EXCEPT ![i] =
                          IF @ = "executing" THEN "done" ELSE @]
      /\ worker' = [worker EXCEPT ![w] = Idle]
      /\ UNCHANGED <<state, files>>

\* The process of the coordinator ends after Done.
CoordinatorExits ==
  /\ state = "finished"
  /\ state' = "exited"
  /\ UNCHANGED <<taskStates, worker, files>>

-----------------------------------------------------------------------------
(* A worker.                                                               *)

\* What json.Decoder reads: the pairs of an intermediate file, and nothing in
\* an output file, whose first line is no JSON.
Decode(name) == IF name[1] = "mr" THEN files[name] ELSE {}

\* Glob("mr-*-y"), which also finds the output of an earlier attempt.
Glob(y) ==
  DOMAIN files \cap ({MapFile(i, y) : i \in MapTasks} \cup {OutFile(y)})

\* The list after the pairs of a file have been appended to it.
Appended(kvs, more) ==
  [kv \in AllPairs |-> IF kv \in more THEN kvs[kv] + 1 ELSE kvs[kv]]

InList(kvs) == {kv \in AllPairs : kvs[kv] > 0}

KeysOf(kvs) == {kv[1] : kv \in InList(kvs)}

\* The loop over the sorted list: for each key, Reduce of its values, each as
\* often as the list has it.
ReduceAll(kvs) ==
  [k \in KeysOf(kvs) |-> Restrict(kvs, {kv \in InList(kvs) : kv[1] = k})]

\* A file gets its final name: at once, with all its content.
Rename(name, content) ==
  files' = [n \in DOMAIN files \cup {name} |-> IF n = name THEN content
                                               ELSE files[n]]

\* Map task: the pairs of bucket y are written to a temporary file, which is
\* renamed.  A bucket without pairs has no file.
WriteBucket(w) ==
  LET k == worker[w]
      y == Min(k.todo)
  IN  /\ k.pc = "map" /\ k.todo # {}
      /\ Rename(MapFile(k.task, y),
                {kv \in Emits[k.task] : IHash[kv[1]] = y})
      /\ worker' = [worker EXCEPT ![w].todo = @ \ {y}]
      /\ UNCHANGED <<taskStates, state>>

MapEnds(w) ==
  /\ worker[w].pc = "map" /\ worker[w].todo = {}
  /\ worker' = [worker EXCEPT ![w].pc = "complete"]
  /\ UNCHANGED <<taskStates, state, files>>

\* Reduce task: the names of the files first, ...
FindFiles(w) ==
  /\ worker[w].pc = "reduce"
  /\ worker' = [worker EXCEPT ![w].pc = "read",
                              ![w].todo = Glob(worker[w].task - NFiles)]
  /\ UNCHANGED <<taskStates, state, files>>

\* ... then one after the other (their order does not matter: the pairs are
\* sorted) ...
ReadFile(w) ==
  LET name == CHOOSE n \in worker[w].todo : TRUE
  IN  /\ worker[w].pc = "read" /\ worker[w].todo # {}
      /\ worker' = [worker EXCEPT ![w].todo = @ \ {name},
                                  ![w].kvs = Appended(@, Decode(name))]
      /\ UNCHANGED <<taskStates, state, files>>

\* ... and the output, likewise by way of a temporary file.
WriteOutput(w) ==
  /\ worker[w].pc = "read" /\ worker[w].todo = {}
  /\ Rename(OutFile(worker[w].task - NFiles), ReduceAll(worker[w].kvs))
  /\ worker' = [worker EXCEPT ![w].pc = "complete", ![w].kvs = NoPairs]
  /\ UNCHANGED <<taskStates, state>>

\* A call to a coordinator that is gone: log.Fatal or, in GetTask, NoReply.
NobodyAnswers(w) ==
  /\ worker[w].pc \in {"idle", "complete"} /\ state = "exited"
  /\ worker' = [worker EXCEPT ![w] = [Idle EXCEPT !.pc = "left"]]
  /\ UNCHANGED <<taskStates, state, files>>

\* The process of a worker dies, between any two steps.
Crash(w) ==
  /\ w \notin Prompt /\ worker[w].pc \notin {"left", "crashed"}
  /\ worker' = [worker EXCEPT ![w] = [Idle EXCEPT !.pc = "crashed"]]
  /\ UNCHANGED <<taskStates, state, files>>

WorkerStep(w) ==
  \/ GetTask(w) \/ WriteBucket(w) \/ MapEnds(w)
  \/ FindFiles(w) \/ ReadFile(w) \/ WriteOutput(w)
  \/ CompleteTask(w) \/ NobodyAnswers(w)

-----------------------------------------------------------------------------
\* MakeCoordinator; no file of an earlier job is left.
Init ==
  /\ taskStates = [i \in MapTasks \cup ReduceTasks |-> "unassigned"]
  /\ state = "map"
  /\ worker = [w \in Worker |-> Idle]
  /\ files = [n \in {} |-> {}]

Next ==
  \/ \E w \in Worker : WorkerStep(w) \/ Crash(w)
  \/ \E i \in MapTasks \cup ReduceTasks : Timer(i)
  \/ CoordinatorExits

\* Prompt workers go on, a timer that runs expires, and a prompt worker, which
\* asks every second, does not find the free task gone each time it asks.
FairSpec ==
  /\ Init /\ [][Next]_vars
  /\ \A w \in Prompt : WF_vars(WorkerStep(w)) /\ SF_vars(GetTask(w))
  /\ \A i \in MapTasks \cup ReduceTasks : WF_vars(Timer(i))

-----------------------------------------------------------------------------
(* Correctness.                                                            *)

\* mrsequential: all the pairs in one list.
Sequential == ReduceAll([kv \in AllPairs |-> 1])

SequentialPart(y) == Restrict(Sequential, {k \in DOMAIN Sequential : IHash[k] = y})

\* An output file, whoever wrote it and however often tasks were given out
\* again, has the lines of the sequential program for its bucket, with no pair
\* lost and none counted twice; and when the first worker or the coordinator
\* leaves, all the output is there.
OutputIsSequential ==
  /\ \A y \in Bucket : OutFile(y) \in DOMAIN files =>
       files[OutFile(y)] = SequentialPart(y)
  /\ (state = "exited" \/ \E w \in Worker : worker[w].pc = "left") =>
       \A y \in Bucket : OutFile(y) \in DOMAIN files

\* A job ends if one worker is prompt, however many crash, and wherever.
JobFinishes == <>(state \in {"finished", "exited"})
=============================================================================
