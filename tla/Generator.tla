----------------------------- MODULE Generator -----------------------------
(***************************************************************************)
(* ollama1/lib/o1gen.py, class Generator: the life of a picture or video   *)
(* job.  Device calls (create, status, result, cancel), the worker thread  *)
(* of each job and the gateway's once-a-second sweep share the jobs table, *)
(* the GPU slot and the activity count that keeps the server awake.        *)
(*                                                                         *)
(* The lock is dropped between the parts of a call, so a call is several   *)
(* actions: its sweep, its look-up, its answer.  Time is the age of each   *)
(* job's finish and of its last poll, up to Keep.  A job id that nothing   *)
(* remembers stands for a fresh one.                                       *)
(***************************************************************************)
EXTENDS Naturals, FiniteSets

CONSTANTS
  Jobs,          \* job ids
  Callers,       \* handler threads of the device that makes the jobs
  Keep,          \* RESULT_KEEP_S
  Tail,          \* ACTIVITY_TAIL_S
  Idle,          \* IDLE_CANCEL_S
  KeepFinished,  \* KEEP_FINISHED
  None

ASSUME GeneratorAssumption ==
  /\ IsFiniteSet(Jobs)
  /\ {Keep, Tail, Idle, KeepFinished} \subseteq Nat \ {0}
  /\ Tail < Keep
  /\ Jobs \cap Callers = {}
  /\ {None, "chat"} \cap (Jobs \cup Callers) = {}
  /\ None # "chat"

VARIABLES
  jobs,      \* ids in Generator.jobs
  active,    \* Generator.active
  worker,    \* where each job's thread is in _run
  state,     \* Job.state
  held,      \* jobs counted as activity (Job.held)
  cancelled, \* Job.cancel is set
  dropped,   \* Job.dropped
  data,      \* jobs whose bytes are in memory (Job.data)
  fin,       \* age of Job.finished
  touch,     \* age of Job.last_touch
  letting,   \* jobs a thread of _drop_old_locked is about to release
  caller,    \* what each caller is doing
  slot,      \* who has the GPU slot: None, "chat", a caller or a job
  inflight   \* Activity.inflight

table == <<jobs, dropped, data>>
vars == <<jobs, active, worker, state, held, cancelled, dropped, data, fin, touch,
          letting, caller, slot, inflight>>

Reads == {"status", "result", "cancel"}
CallerStates ==
  [at : {"idle", "create", "took"}]
    \cup [at : {"find", "found"}, call : Reads, job : Jobs]
AtRest == [at |-> "idle"]

TypeOK ==
  /\ jobs \in SUBSET Jobs
  /\ active \in Jobs \cup {None}
  /\ worker \in [Jobs -> {"none", "start", "comfy", "stopping", "end", "over"}]
  /\ state \in [Jobs -> {"queued", "running", "done", "failed"}]
  /\ held \in SUBSET Jobs
  /\ cancelled \in SUBSET Jobs
  /\ dropped \in SUBSET Jobs
  /\ data \in SUBSET Jobs
  /\ fin \in [Jobs -> 0..Keep]
  /\ touch \in [Jobs -> 0..Keep]
  /\ letting \in SUBSET Jobs
  /\ caller \in [Callers -> CallerStates]
  /\ slot \in {None, "chat"} \cup Callers \cup Jobs
  /\ inflight \in Nat

Init ==
  /\ jobs = {}
  /\ active = None
  /\ worker = [j \in Jobs |-> "none"]
  /\ state = [j \in Jobs |-> "queued"]
  /\ held = {}
  /\ cancelled = {}
  /\ dropped = {}
  /\ data = {}
  /\ fin = [j \in Jobs |-> 0]
  /\ touch = [j \in Jobs |-> 0]
  /\ letting = {}
  /\ caller = [c \in Callers |-> AtRest]
  /\ slot = None
  /\ inflight = 0

Finished(j) == worker[j] \in {"end", "over"}
Younger(a, b) == IF a < b THEN a ELSE b

\* Ids nothing refers to any more: not the table, the count, a thread or a call.
Fresh == {j \in Jobs : /\ worker[j] \in {"none", "over"}
                       /\ j \notin jobs \cup held \cup letting
                       /\ \A c \in Callers : caller[c].at = "found" => caller[c].job # j}

\* Activity.end, n times: the count never goes below nothing.
EndActivity(n) == inflight' = IF inflight > n THEN inflight - n ELSE 0

\* Mutants: released without a look at held and with no floor, or held never
\* cleared.
LetGoAnyway(js) ==
  /\ held' = held \ js
  /\ inflight' = inflight - Cardinality(js)

LetGoStillHeld(js) ==
  /\ held' = held
  /\ EndActivity(Cardinality(held \cap js))

\* _release for a set of jobs: each is let go of once.
LetGo(js) ==
  /\ held' = held \ js
  /\ EndActivity(Cardinality(held \cap js))

-----------------------------------------------------------------------------
(* sweep: by the stats loop once a second, and first thing in every call *)

Expired == {j \in jobs : Finished(j) /\ fin[j] >= Keep}

\* Finished, and neither finished nor polled within the tail.
Quiet == {j \in jobs \ Expired : Finished(j) /\ Younger(fin[j], touch[j]) >= Tail}

\* Still running, and nobody has polled for a while.
Abandoned == {j \in jobs : ~Finished(j) /\ touch[j] >= Idle}

SweepNow ==
  /\ jobs' = jobs \ Expired
  /\ data' = data \ Expired
  /\ dropped' = dropped \cup Expired
  /\ LetGo(Quiet)
  /\ cancelled' = cancelled \cup Abandoned

Sweep ==
  /\ SweepNow
  /\ UNCHANGED <<active, worker, state, fin, touch, letting, caller, slot>>

-----------------------------------------------------------------------------
(* The device's calls *)

Call(c) ==
  /\ caller[c].at = "idle"
  /\ SweepNow
  /\ \E next \in [at : {"create"}] \cup [at : {"find"}, call : Reads, job : Jobs] :
       caller' = [caller EXCEPT ![c] = next]
  /\ UNCHANGED <<active, worker, state, fin, touch, letting, slot>>

\* _find: an id that is gone or cancelled is a 404.
Find(c) ==
  LET j == caller[c].job
  IN /\ caller[c].at = "find"
     /\ caller' = [caller EXCEPT
          ![c] = IF j \in jobs \ (dropped \cup cancelled) THEN [@ EXCEPT !.at = "found"]
                                                          ELSE AtRest]
     /\ UNCHANGED <<active, worker, state, held, cancelled, table, fin, touch,
                    letting, slot, inflight>>

\* status and result: the poll is noted, then the job is read, with no lock.
Answer(c) ==
  /\ caller[c].at = "found" /\ caller[c].call \in {"status", "result"}
  /\ touch' = [touch EXCEPT ![caller[c].job] = 0]
  /\ caller' = [caller EXCEPT ![c] = AtRest]
  /\ UNCHANGED <<active, worker, state, held, cancelled, table, fin, letting, slot,
                 inflight>>

\* cancel: a finished job is forgotten, a running one is told to stop; the
\* activity is let go of at once.
Cancel(c) ==
  LET j == caller[c].job
      gone == IF Finished(j) THEN {j} ELSE {}
  IN /\ caller[c].at = "found" /\ caller[c].call = "cancel"
     /\ cancelled' = cancelled \cup {j}
     /\ jobs' = jobs \ gone
     /\ dropped' = dropped \cup gone
     /\ data' = data \ gone
     /\ LetGo({j})
     /\ caller' = [caller EXCEPT ![c] = AtRest]
     /\ UNCHANGED <<active, worker, state, fin, touch, letting, slot>>

\* Mutant: create doesn't ask for the slot.
CreateSlotAnyway(c) ==
  /\ caller[c].at = "create"
  /\ active = None
  /\ slot' = c
  /\ caller' = [caller EXCEPT ![c] = [at |-> "took"]]
  /\ UNCHANGED <<active, worker, state, held, cancelled, table, fin, touch, letting,
                 inflight>>

\* create, the refusals (409) and the slot, which it never waits for.
CreateSlot(c) ==
  /\ caller[c].at = "create"
  /\ \/ /\ active = None /\ slot = None
        /\ slot' = c
        /\ caller' = [caller EXCEPT ![c] = [at |-> "took"]]
     \/ /\ active # None \/ slot # None
        /\ caller' = [caller EXCEPT ![c] = AtRest]
        /\ UNCHANGED slot
  /\ UNCHANGED <<active, worker, state, held, cancelled, table, fin, touch, letting,
                 inflight>>

\* _drop_old_locked: the oldest finished jobs, down to one less than are kept.
Old(olds) ==
  LET done == {j \in jobs : Finished(j)}
      over == Cardinality(done) + 1
  IN /\ olds \subseteq done
     /\ Cardinality(olds) = IF over > KeepFinished THEN over - KeepFinished ELSE 0
     /\ \A j \in olds, k \in done \ olds : fin[j] >= fin[k]

\* create under the lock, the activity's begin and the worker's start.
CreateJob(c) ==
  /\ caller[c].at = "took"
  /\ active = None
  /\ \E j \in Fresh, olds \in SUBSET jobs :
       /\ Old(olds)
       /\ active' = j
       /\ slot' = j
       /\ jobs' = (jobs \ olds) \cup {j}
       /\ data' = data \ (olds \cup {j})
       /\ dropped' = (dropped \cup olds) \ {j}
       /\ letting' = letting \cup (olds \cap held)
       /\ held' = held \cup {j}
       /\ inflight' = inflight + 1
       /\ cancelled' = cancelled \ {j}
       /\ worker' = [worker EXCEPT ![j] = "start"]
       /\ state' = [state EXCEPT ![j] = "queued"]
       /\ fin' = [fin EXCEPT ![j] = 0]
       /\ touch' = [touch EXCEPT ![j] = 0]
  /\ caller' = [caller EXCEPT ![c] = AtRest]

\* The thread _drop_old_locked started, because _release takes the lock.
LetGoOfOld(j) ==
  /\ j \in letting
  /\ letting' = letting \ {j}
  /\ LetGo({j})
  /\ UNCHANGED <<jobs, active, worker, state, cancelled, dropped, data, fin, touch,
                 caller, slot>>

-----------------------------------------------------------------------------
(* The worker, _run *)

WorkerStep(j, from, to) ==
  /\ worker[j] = from
  /\ worker' = [worker EXCEPT ![j] = to]

\* The models are unloaded, the prompt is sent to ComfyUI: cancelled before
\* that, refused, or running.
Start(j) ==
  /\ \/ /\ WorkerStep(j, "start", "stopping")
        /\ state' = IF j \in cancelled THEN state ELSE [state EXCEPT ![j] = "failed"]
     \/ /\ WorkerStep(j, "start", "comfy")
        /\ state' = [state EXCEPT ![j] = "running"]
  /\ UNCHANGED <<jobs, active, held, cancelled, dropped, data, fin, touch, letting,
                 caller, slot, inflight>>

\* The loop over /history: stopped by a cancel, failed (an error, the job's
\* timeout), or done with the file's bytes.  A cancel that comes while the
\* answer is being fetched is seen only afterwards.
ComfyEnds(j) ==
  /\ WorkerStep(j, "comfy", "stopping")
  /\ \/ j \in cancelled /\ UNCHANGED <<state, data>>
     \/ state' = [state EXCEPT ![j] = "failed"] /\ UNCHANGED data
     \/ state' = [state EXCEPT ![j] = "done"] /\ data' = data \cup {j}
  /\ UNCHANGED <<jobs, active, held, cancelled, dropped, fin, touch, letting, caller,
                 slot, inflight>>

\* finally, under the lock, once ComfyUI has been told to forget the prompt.
Finish(j) ==
  LET stopped == j \in cancelled /\ state[j] # "done"
  IN /\ WorkerStep(j, "stopping", "end")
     /\ fin' = [fin EXCEPT ![j] = 0]
     /\ state' = [state EXCEPT ![j] = IF @ \in {"queued", "running"} THEN "failed" ELSE @]
     /\ jobs' = IF stopped THEN jobs \ {j} ELSE jobs
     /\ dropped' = IF stopped THEN dropped \cup {j} ELSE dropped
     /\ active' = IF active = j THEN None ELSE active
     /\ UNCHANGED <<held, cancelled, data, touch, letting, caller, slot, inflight>>

\* Mutant: a dropped job's activity is forgotten.
GiveBackHolds(j) ==
  /\ WorkerStep(j, "end", "over")
  /\ slot' = None
  /\ UNCHANGED <<jobs, active, state, held, inflight, cancelled, dropped, data, fin,
                 touch, letting, caller>>

\* The slot goes back, and a dropped job's activity with it.
GiveBack(j) ==
  /\ WorkerStep(j, "end", "over")
  /\ slot' = None
  /\ IF j \in dropped THEN LetGo({j}) ELSE UNCHANGED <<held, inflight>>
  /\ UNCHANGED <<jobs, active, state, cancelled, dropped, data, fin, touch, letting,
                 caller>>

-----------------------------------------------------------------------------
(* A chat on the same slot, which counts as activity too, and time *)

ChatStarts ==
  /\ slot = None /\ active = None
  /\ slot' = "chat"
  /\ inflight' = inflight + 1
  /\ UNCHANGED <<jobs, active, worker, state, held, cancelled, dropped, data, fin,
                 touch, letting, caller>>

ChatEnds ==
  /\ slot = "chat"
  /\ slot' = None
  /\ EndActivity(1)
  /\ UNCHANGED <<jobs, active, worker, state, held, cancelled, dropped, data, fin,
                 touch, letting, caller>>

\* A tick is minutes and the stats loop sweeps every second: what is due has
\* been swept before the next.  Ages of jobs nothing remembers stay put.
Tick ==
  LET older(age, j) == IF j \in Fresh THEN age[j] ELSE Younger(age[j] + 1, Keep)
  IN /\ Expired = {} /\ Quiet \cap held = {} /\ Abandoned \subseteq cancelled
     /\ fin' = [j \in Jobs |-> IF Finished(j) THEN older(fin, j) ELSE fin[j]]
     /\ touch' = [j \in Jobs |-> older(touch, j)]
     /\ UNCHANGED <<jobs, active, worker, state, held, cancelled, dropped, data,
                    letting, caller, slot, inflight>>

-----------------------------------------------------------------------------

Work(j) == Start(j) \/ ComfyEnds(j) \/ Finish(j) \/ GiveBack(j)
Reply(c) == Find(c) \/ Answer(c) \/ Cancel(c) \/ CreateSlot(c) \/ CreateJob(c)

Next ==
  \/ Sweep
  \/ \E c \in Callers : Call(c) \/ Reply(c)
  \/ \E j \in Jobs : LetGoOfOld(j) \/ Work(j)
  \/ ChatStarts
  \/ ChatEnds
  \/ Tick

Spec == Init /\ [][Next]_vars

\* Threads run, ComfyUI's part ends by the job's timeout, time passes and the
\* stats loop sweeps once a second.  Devices need not call.
FairSpec ==
  /\ Spec
  /\ WF_vars(Tick) /\ WF_vars(Sweep)
  /\ \A j \in Jobs : WF_vars(Work(j)) /\ WF_vars(LetGoOfOld(j))
  /\ \A c \in Callers : WF_vars(Reply(c))

-----------------------------------------------------------------------------
(* Properties *)

\* The count auto sleep waits on is the held jobs and the chat: however cancel,
\* sweep, the worker's end and the thread of _drop_old_locked interleave, each
\* job's begin meets at most one end.
ActivityCounts == inflight = Cardinality(held) + IF slot = "chat" THEN 1 ELSE 0

\* One worker at a time, and the card is its for the whole job: the slot is
\* given back after active is cleared, so a create between the two gets a 409
\* and not a second worker.
OneWorker ==
  /\ \A j, k \in Jobs : {worker[j], worker[k]} \cap {"none", "over"} = {} => j = k
  /\ \A j \in Jobs : worker[j] \in {"start", "comfy", "stopping"} => active = j
  /\ \A j \in Jobs : worker[j] \notin {"none", "over"} => slot = j

\* A job that is held has something that will let go of it: the table (a sweep,
\* a cancel), its worker or the thread of _drop_old_locked.  Expiry is the one
\* way out of the table that forgets the count.
HeldIsReachable ==
  \A j \in held : \/ j \in jobs \cup letting
                  \/ worker[j] \in {"start", "comfy", "stopping", "end"}
                  \/ fin[j] = Keep

\* PROTOCOL.md: a job counts as work "from its start until two minutes after the
\* last poll or fetch of it", so it does not count for ever.
HoldEnds == \A j \in Jobs : j \in held ~> j \notin held

\* What status and result read after _find, with no lock: a done job they found
\* has its bytes (PROTOCOL.md section 5, 'a done job adds "type" ... and "bytes"',
\* and an id that expired or was stopped is a 404).
AnswerHasBytes ==
  \A c \in Callers :
    caller[c].at = "found" /\ caller[c].call # "cancel" /\ state[caller[c].job] = "done"
      => caller[c].job \in data
=============================================================================
