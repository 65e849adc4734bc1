-------------------------- MODULE GeneratorProofs --------------------------
(***************************************************************************)
(* For any finite set of job ids and any callers, keep, tail and idle      *)
(* limits: the activity count is the held jobs and the chat, one worker    *)
(* has the slot from its start to its end, and a held job is never out of  *)
(* the reach of everything that lets go.                                   *)
(***************************************************************************)
EXTENDS Generator, FiniteSetTheorems, TLAPS

Working == {"start", "comfy", "stopping"}

\* Who has the slot: a worker from its start until it gives it back, and a
\* create between its two looks at active.  A job that is active is being
\* worked on, so active = None under the slot means that nobody works.
SlotOK ==
  /\ \A j \in Jobs : worker[j] \in Working => active = j
  /\ \A j \in Jobs : worker[j] \in Working \cup {"end"} => slot = j
  /\ \A c \in Callers : caller[c].at = "took" => slot = c

\* What keeps a job in reach until its worker has ended: only what drops it
\* takes it out of the table, and the worker looks at dropped when it ends.
DroppedOK ==
  \A j \in Jobs : worker[j] \in Working \cup {"end"} => j \in jobs \cup dropped

IInv == TypeOK /\ SlotOK /\ DroppedOK /\ ActivityCounts /\ HeldIsReachable

LEMMA KeepIsNatural == Keep \in Nat /\ 0 \in 0..Keep
  BY GeneratorAssumption

-----------------------------------------------------------------------------
(* Counting *)

LEMMA HeldIsFinite ==
  ASSUME TypeOK, NEW js
  PROVE  /\ IsFiniteSet(held) /\ Cardinality(held) \in Nat
         /\ IsFiniteSet(held \cap js) /\ Cardinality(held \cap js) \in Nat
         /\ Cardinality(held \cap js) <= Cardinality(held)
         /\ Cardinality(held \ js) = Cardinality(held) - Cardinality(held \cap js)
<1>1. IsFiniteSet(held)
  BY GeneratorAssumption, FS_Subset DEF TypeOK
<1>2. IsFiniteSet(held \cap js) /\ Cardinality(held \cap js) <= Cardinality(held)
  BY <1>1, FS_Intersection
<1>3. Cardinality(held \ js) = Cardinality(held) - Cardinality(held \cap js)
  BY <1>1, FS_Difference
<1>4. QED
  BY <1>1, <1>2, <1>3, FS_CardinalityType

\* The floor in Activity.end is never met: what _release ends was begun.
LEMMA LetGoCounts ==
  ASSUME IInv, NEW js, LetGo(js), (slot' = "chat") = (slot = "chat")
  PROVE  /\ ActivityCounts' /\ inflight' \in Nat
         /\ held' = held \ js
<1> DEFINE n == Cardinality(held \cap js)
           m == Cardinality(held)
           chat == IF slot = "chat" THEN 1 ELSE 0
<1>1. n \in Nat /\ m \in Nat /\ n <= m /\ Cardinality(held \ js) = m - n
  BY HeldIsFinite DEF IInv
<1>2. held' = held \ js /\ inflight' = IF inflight > n THEN inflight - n ELSE 0
  BY DEF LetGo, EndActivity
<1>3. inflight = m + chat /\ chat \in {0, 1}
  BY DEF IInv, ActivityCounts
<1>4. chat' = chat
  OBVIOUS
<1> HIDE DEF n, m, chat
<1>5. inflight' = (m - n) + chat /\ inflight' \in Nat
  BY <1>1, <1>2, <1>3
<1>6. Cardinality(held') = m - n
  BY <1>1, <1>2
<1>7. inflight' = Cardinality(held') + chat'
  BY <1>4, <1>5, <1>6
<1>8. QED
  BY <1>2, <1>5, <1>7 DEF ActivityCounts, chat

LEMMA SameCounts ==
  ASSUME ActivityCounts, held' = held, inflight' = inflight,
         (slot' = "chat") = (slot = "chat")
  PROVE  ActivityCounts'
  BY DEF ActivityCounts

-----------------------------------------------------------------------------

LEMMA Start0 ==
  ASSUME Init
  PROVE  IInv
<1>1. TypeOK
  BY GeneratorAssumption DEF Init, TypeOK, CallerStates, AtRest
<1>2. SlotOK /\ DroppedOK /\ HeldIsReachable
  BY DEF Init, SlotOK, DroppedOK, HeldIsReachable, Working, AtRest
<1>3. ActivityCounts
  BY GeneratorAssumption, FS_EmptySet DEF Init, ActivityCounts
<1>4. QED
  BY <1>1, <1>2, <1>3 DEF IInv

\* Everything but who calls, of the sweep any call begins with.
LEMMA SweepKeeps ==
  ASSUME IInv, SweepNow, UNCHANGED <<active, worker, state, fin, touch, letting, slot>>,
         caller' \in [Callers -> CallerStates],
         \A c \in Callers : caller'[c].at = "took" => caller[c].at = "took"
  PROVE  IInv'
<1> USE DEF IInv
<1>1. ActivityCounts' /\ inflight' \in Nat /\ held' = held \ Quiet
  BY LetGoCounts DEF SweepNow
<1>2. TypeOK'
  BY <1>1 DEF TypeOK, SweepNow, Expired, Abandoned
<1>3. SlotOK'
  BY DEF SlotOK
<1>4. DroppedOK'
  BY DEF DroppedOK, SweepNow
<1>5. HeldIsReachable'
  <2>1. \A j \in Expired : fin[j] = Keep
    BY GeneratorAssumption DEF Expired, TypeOK
  <2>2. \A j \in held' : j \in held /\ (j \in jobs => j \in jobs' \/ fin[j] = Keep)
    BY <1>1, <2>1 DEF SweepNow
  <2>3. QED
    BY <2>2 DEF HeldIsReachable
<1>6. QED
  BY <1>1, <1>2, <1>3, <1>4, <1>5

LEMMA SweepStep ==
  ASSUME IInv, Sweep
  PROVE  IInv'
  BY SweepKeeps DEF Sweep, IInv, TypeOK

LEMMA CallStep ==
  ASSUME IInv, NEW c \in Callers, Call(c)
  PROVE  IInv'
<1>1. PICK next \in [at : {"create"}] \cup [at : {"find"}, call : Reads, job : Jobs] :
        caller' = [caller EXCEPT ![c] = next]
  BY DEF Call
<1>2. next \in CallerStates /\ next.at # "took"
  BY DEF CallerStates
<1>3. caller' \in [Callers -> CallerStates]
  BY <1>1, <1>2 DEF IInv, TypeOK
<1>4. \A d \in Callers : caller'[d].at = "took" => caller[d].at = "took"
  BY <1>1, <1>2 DEF IInv, TypeOK
<1>5. QED
  BY <1>3, <1>4, SweepKeeps DEF Call

\* A call that comes to rest or goes from its look-up to its answer.
LEMMA CallerMoves ==
  ASSUME IInv, NEW c \in Callers, NEW to, to \in CallerStates, to.at # "took",
         caller' = [caller EXCEPT ![c] = to]
  PROVE  /\ caller' \in [Callers -> CallerStates]
         /\ \A d \in Callers : caller'[d].at = "took" => d # c /\ caller[d].at = "took"
  BY DEF IInv, TypeOK

LEMMA AtRestIsCaller == AtRest \in CallerStates /\ AtRest.at # "took"
  BY DEF AtRest, CallerStates

LEMMA FindStep ==
  ASSUME IInv, NEW c \in Callers, Find(c)
  PROVE  IInv'
<1> USE DEF IInv
<1> DEFINE to == IF caller[c].job \in jobs \ (dropped \cup cancelled)
                 THEN [caller[c] EXCEPT !.at = "found"] ELSE AtRest
<1>1. caller[c] \in CallerStates /\ caller[c].at = "find"
  BY DEF Find, TypeOK
<1>2. [caller[c] EXCEPT !.at = "found"] \in CallerStates
      /\ [caller[c] EXCEPT !.at = "found"].at = "found"
  BY <1>1 DEF CallerStates
<1>3. to \in CallerStates /\ to.at # "took"
  BY <1>2, AtRestIsCaller
<1>4. caller' = [caller EXCEPT ![c] = to]
  BY DEF Find
<1> HIDE DEF to
<1>5. /\ caller' \in [Callers -> CallerStates]
      /\ \A d \in Callers : caller'[d].at = "took" => d # c /\ caller[d].at = "took"
  BY <1>3, <1>4, CallerMoves
<1>6. UNCHANGED <<active, worker, state, held, cancelled, jobs, dropped, data, fin,
                  touch, letting, slot, inflight>>
  BY DEF Find, table
<1>7. TypeOK'
  BY <1>5, <1>6 DEF TypeOK
<1>8. SlotOK' /\ DroppedOK' /\ HeldIsReachable'
  BY <1>5, <1>6 DEF SlotOK, DroppedOK, HeldIsReachable
<1>9. ActivityCounts'
  BY <1>6, SameCounts
<1>10. QED
  BY <1>7, <1>8, <1>9

LEMMA AnswerStep ==
  ASSUME IInv, NEW c \in Callers, Answer(c)
  PROVE  IInv'
<1> USE DEF IInv
<1>1. /\ caller' \in [Callers -> CallerStates]
      /\ \A d \in Callers : caller'[d].at = "took" => d # c /\ caller[d].at = "took"
  BY AtRestIsCaller, CallerMoves DEF Answer
<1>2. UNCHANGED <<active, worker, state, held, cancelled, jobs, dropped, data, fin,
                  letting, slot, inflight>>
  BY DEF Answer, table
<1>3. touch' \in [Jobs -> 0..Keep]
  <2>1. touch' = [touch EXCEPT ![caller[c].job] = 0] /\ touch \in [Jobs -> 0..Keep]
    BY DEF Answer, TypeOK
  <2>2. 0 \in 0..Keep
    BY KeepIsNatural
  <2>3. QED
    BY <2>1, <2>2
<1>4. TypeOK'
  BY <1>1, <1>2, <1>3 DEF TypeOK
<1>5. SlotOK' /\ DroppedOK' /\ HeldIsReachable'
  BY <1>1, <1>2 DEF SlotOK, DroppedOK, HeldIsReachable
<1>6. ActivityCounts'
  BY <1>2, SameCounts
<1>7. QED
  BY <1>4, <1>5, <1>6

LEMMA CancelStep ==
  ASSUME IInv, NEW c \in Callers, Cancel(c)
  PROVE  IInv'
<1> USE DEF IInv
<1> DEFINE j == caller[c].job
           gone == IF Finished(j) THEN {j} ELSE {}
<1>1. j \in Jobs
  <2>1. caller[c] \in CallerStates /\ caller[c].at = "found"
    BY DEF Cancel, TypeOK
  <2>2. QED
    BY <2>1 DEF CallerStates
<1>2. /\ cancelled' = cancelled \cup {j}
      /\ jobs' = jobs \ gone
      /\ dropped' = dropped \cup gone
      /\ data' = data \ gone
      /\ LetGo({j})
      /\ caller' = [caller EXCEPT ![c] = AtRest]
      /\ UNCHANGED <<active, worker, state, fin, touch, letting, slot>>
  BY DEF Cancel
<1>3. gone \subseteq {j}
  OBVIOUS
<1> HIDE DEF j, gone
<1>4. /\ caller' \in [Callers -> CallerStates]
      /\ \A d \in Callers : caller'[d].at = "took" => d # c /\ caller[d].at = "took"
  BY <1>2, AtRestIsCaller, CallerMoves
<1>5. ActivityCounts' /\ inflight' \in Nat /\ held' = held \ {j}
  BY <1>2, LetGoCounts
<1>6. TypeOK'
  BY <1>1, <1>2, <1>3, <1>4, <1>5 DEF TypeOK
<1>7. SlotOK' /\ DroppedOK'
  BY <1>2, <1>4 DEF SlotOK, DroppedOK
<1>8. HeldIsReachable'
  BY <1>2, <1>3, <1>5 DEF HeldIsReachable
<1>9. QED
  BY <1>5, <1>6, <1>7, <1>8

LEMMA CreateSlotStep ==
  ASSUME IInv, NEW c \in Callers, CreateSlot(c)
  PROVE  IInv'
<1> USE DEF IInv
<1>1. UNCHANGED <<active, worker, state, held, cancelled, jobs, dropped, data, fin,
                  touch, letting, inflight>>
  BY DEF CreateSlot, table
<1>2. CASE slot = None /\ slot' = c /\ caller' = [caller EXCEPT ![c] = [at |-> "took"]]
  <2>1. [at |-> "took"] \in CallerStates
    BY DEF CallerStates
  <2>2. TypeOK'
    BY <1>1, <1>2, <2>1 DEF TypeOK
  <2>3. \A j \in Jobs : worker[j] \notin Working \cup {"end"}
    BY <1>2, GeneratorAssumption DEF SlotOK
  <2>4. \A d \in Callers : caller'[d].at = "took" => d = c
    BY <1>2, GeneratorAssumption DEF SlotOK, TypeOK
  <2>5. SlotOK'
    BY <1>1, <1>2, <2>3, <2>4 DEF SlotOK, Working
  <2>6. ActivityCounts'
    BY <1>1, <1>2, SameCounts, GeneratorAssumption
  <2>7. DroppedOK' /\ HeldIsReachable'
    BY <1>1 DEF DroppedOK, HeldIsReachable
  <2>8. QED
    BY <2>2, <2>5, <2>6, <2>7
<1>3. CASE caller' = [caller EXCEPT ![c] = AtRest] /\ UNCHANGED slot
  <2>1. /\ caller' \in [Callers -> CallerStates]
        /\ \A d \in Callers : caller'[d].at = "took" => d # c /\ caller[d].at = "took"
    BY <1>3, AtRestIsCaller, CallerMoves
  <2>2. TypeOK'
    BY <1>1, <1>3, <2>1 DEF TypeOK
  <2>3. SlotOK' /\ DroppedOK' /\ HeldIsReachable'
    BY <1>1, <1>3, <2>1 DEF SlotOK, DroppedOK, HeldIsReachable
  <2>4. ActivityCounts'
    BY <1>1, <1>3, SameCounts
  <2>5. QED
    BY <2>2, <2>3, <2>4
<1>4. QED
  BY <1>2, <1>3 DEF CreateSlot

\* The slot a create took keeps every other worker out, so the new job's is the
\* only one; what falls out of the table goes to the threads that let go.
LEMMA CreateJobStep ==
  ASSUME IInv, NEW c \in Callers, CreateJob(c)
  PROVE  IInv'
<1> USE DEF IInv
<1>1. PICK j \in Fresh, olds \in SUBSET jobs :
       /\ active' = j
       /\ slot' = j
       /\ jobs' = (jobs \ olds) \cup {j}
       /\ data' = data \ (olds \cup {j})
       /\ dropped' = (dropped \cup olds) \ {j}
       /\ letting' = letting \cup (olds \cap held)
       /\ held' = held \cup {j}
       /\ inflight' = inflight + 1
       /\ cancelled' = cancelled \ {j}
       /\ worker' = [worker EXCEPT ![j] = "start"]
       /\ state' = [state EXCEPT ![j] = "queued"]
       /\ fin' = [fin EXCEPT ![j] = 0]
       /\ touch' = [touch EXCEPT ![j] = 0]
  BY DEF CreateJob
<1>2. caller[c].at = "took" /\ active = None /\ caller' = [caller EXCEPT ![c] = AtRest]
  BY DEF CreateJob
<1>3. j \in Jobs /\ j \notin jobs /\ j \notin held /\ j \notin letting
  BY DEF Fresh
<1>4. slot = c /\ slot # "chat" /\ j # "chat"
  BY <1>2, <1>3, GeneratorAssumption DEF SlotOK
<1>5. /\ caller' \in [Callers -> CallerStates]
      /\ \A d \in Callers : caller'[d].at = "took" => d # c /\ caller[d].at = "took"
  BY <1>2, AtRestIsCaller, CallerMoves
<1>6. \A d \in Callers : caller'[d].at # "took"
  BY <1>4, <1>5 DEF SlotOK
<1>7. \A k \in Jobs : worker[k] \notin Working \cup {"end"}
  BY <1>4, GeneratorAssumption DEF SlotOK
<1>8. ActivityCounts' /\ inflight' \in Nat
  <2>1. /\ Cardinality(held \cup {j}) = Cardinality(held) + 1
        /\ Cardinality(held) \in Nat
    BY <1>3, HeldIsFinite, FS_AddElement
  <2>2. inflight = Cardinality(held)
    BY <1>4, <2>1 DEF ActivityCounts
  <2>3. inflight' = Cardinality(held') /\ slot' # "chat"
    BY <1>1, <1>4, <2>1, <2>2
  <2>4. inflight' \in Nat
    BY <1>1, <2>1, <2>2
  <2>5. QED
    BY <2>1, <2>3, <2>4, <1>1 DEF ActivityCounts
<1>9. TypeOK'
  BY <1>1, <1>3, <1>5, <1>8, KeepIsNatural DEF TypeOK
<1>10. \A k \in Jobs : worker'[k] = IF k = j THEN "start" ELSE worker[k]
  BY <1>1, <1>3 DEF TypeOK
<1>11. SlotOK' /\ DroppedOK'
  BY <1>1, <1>6, <1>7, <1>10 DEF SlotOK, DroppedOK, Working
<1>12. HeldIsReachable'
  <2>1. \A k \in held : k # j /\ k \in Jobs
    BY <1>3 DEF TypeOK
  <2>2. \A k \in held : fin'[k] = fin[k] /\ worker'[k] = worker[k]
    BY <1>1, <1>10, <2>1 DEF TypeOK
  <2>3. \A k \in held : k \in jobs \cup letting => k \in jobs' \cup letting'
    BY <1>1
  <2>4. j \in jobs'
    BY <1>1
  <2>5. QED
    BY <1>1, <2>2, <2>3, <2>4 DEF HeldIsReachable
<1>13. QED
  BY <1>8, <1>9, <1>11, <1>12

LEMMA LetGoOfOldStep ==
  ASSUME IInv, NEW j \in Jobs, LetGoOfOld(j)
  PROVE  IInv'
<1> USE DEF IInv
<1>1. /\ letting' = letting \ {j} /\ LetGo({j})
      /\ UNCHANGED <<jobs, active, worker, state, cancelled, dropped, data, fin, touch,
                     caller, slot>>
  BY DEF LetGoOfOld
<1>2. ActivityCounts' /\ inflight' \in Nat /\ held' = held \ {j}
  BY <1>1, LetGoCounts
<1>3. TypeOK'
  BY <1>1, <1>2 DEF TypeOK
<1>4. SlotOK' /\ DroppedOK' /\ HeldIsReachable'
  BY <1>1, <1>2 DEF SlotOK, DroppedOK, HeldIsReachable
<1>5. QED
  BY <1>2, <1>3, <1>4

-----------------------------------------------------------------------------
(* The worker *)

\* Before its end: the thread moves on, and nothing it shares changes but what
\* it says of the job.
LEMMA WorkerMoves ==
  ASSUME IInv, NEW j \in Jobs, worker[j] \in Working, NEW to \in {"comfy", "stopping"},
         worker' = [worker EXCEPT ![j] = to],
         state' \in [Jobs -> {"queued", "running", "done", "failed"}],
         data' \in SUBSET Jobs,
         UNCHANGED <<jobs, active, held, cancelled, dropped, fin, touch, letting, caller,
                     slot, inflight>>
  PROVE  IInv'
<1> USE DEF IInv
<1>1. TypeOK'
  BY DEF TypeOK
<1>2. \A k \in Jobs : \/ worker'[k] = worker[k]
                      \/ worker[k] \in Working /\ worker'[k] \in Working
  BY DEF TypeOK, Working
<1>3. SlotOK' /\ DroppedOK'
  BY <1>2 DEF SlotOK, DroppedOK
<1>4. HeldIsReachable'
  BY <1>2 DEF HeldIsReachable, Working, TypeOK
<1>5. ActivityCounts'
  BY SameCounts
<1>6. QED
  BY <1>1, <1>3, <1>4, <1>5

LEMMA StartStep ==
  ASSUME IInv, NEW j \in Jobs, Start(j)
  PROVE  IInv'
<1>1. worker[j] \in Working
  BY DEF Start, WorkerStep, Working
<1>2. PICK to \in {"comfy", "stopping"} : worker' = [worker EXCEPT ![j] = to]
  BY DEF Start, WorkerStep
<1>3. state' \in [Jobs -> {"queued", "running", "done", "failed"}]
  BY DEF Start, IInv, TypeOK
<1>4. data' \in SUBSET Jobs
  BY DEF Start, IInv, TypeOK
<1>5. QED
  BY <1>1, <1>2, <1>3, <1>4, WorkerMoves DEF Start

LEMMA ComfyEndsStep ==
  ASSUME IInv, NEW j \in Jobs, ComfyEnds(j)
  PROVE  IInv'
<1>1. worker[j] \in Working /\ worker' = [worker EXCEPT ![j] = "stopping"]
  BY DEF ComfyEnds, WorkerStep, Working
<1>2. /\ state' \in [Jobs -> {"queued", "running", "done", "failed"}]
      /\ data' \in SUBSET Jobs
  BY DEF ComfyEnds, IInv, TypeOK
<1>3. QED
  BY <1>1, <1>2, WorkerMoves DEF ComfyEnds

LEMMA FinishStep ==
  ASSUME IInv, NEW j \in Jobs, Finish(j)
  PROVE  IInv'
<1> USE DEF IInv
<1>1. /\ worker[j] = "stopping" /\ worker' = [worker EXCEPT ![j] = "end"]
      /\ fin' = [fin EXCEPT ![j] = 0]
      /\ state' = [state EXCEPT ![j] = IF @ \in {"queued", "running"} THEN "failed" ELSE @]
      /\ active' = IF active = j THEN None ELSE active
      /\ UNCHANGED <<held, cancelled, data, touch, letting, caller, slot, inflight>>
  BY DEF Finish, WorkerStep
<1>2. \/ jobs' = jobs /\ dropped' = dropped
      \/ jobs' = jobs \ {j} /\ dropped' = dropped \cup {j}
  BY DEF Finish
<1>3. \A k \in Jobs : worker'[k] = IF k = j THEN "end" ELSE worker[k]
  BY <1>1 DEF TypeOK
<1>4. slot = j
  BY <1>1 DEF SlotOK, Working
<1>5. \A k \in Jobs : k # j => worker[k] \notin Working \cup {"end"}
  BY <1>4 DEF SlotOK
<1>6. TypeOK'
  BY <1>1, <1>2, KeepIsNatural DEF TypeOK
<1>7. SlotOK'
  BY <1>1, <1>3, <1>4, <1>5 DEF SlotOK, Working
<1>8. DroppedOK'
  <2>1. j \in jobs \cup dropped
    BY <1>1 DEF DroppedOK, Working
  <2>2. j \in jobs' \cup dropped'
    BY <1>2, <2>1
  <2>3. QED
    BY <1>3, <1>5, <2>2 DEF DroppedOK
<1>9. HeldIsReachable'
  <2>1. \A k \in held : k \in Jobs
    BY DEF TypeOK
  <2>2. \A k \in held : k # j => fin'[k] = fin[k] /\ worker'[k] = worker[k]
    BY <1>1, <1>3, <2>1 DEF TypeOK
  <2>3. \A k \in jobs : k # j => k \in jobs'
    BY <1>2
  <2>4. QED
    BY <1>1, <1>3, <2>2, <2>3 DEF HeldIsReachable
<1>10. ActivityCounts'
  BY <1>1, SameCounts
<1>11. QED
  BY <1>6, <1>7, <1>8, <1>9, <1>10

\* The end of a dropped job lets go of it; another one's is still in the table.
LEMMA GiveBackStep ==
  ASSUME IInv, NEW j \in Jobs, GiveBack(j)
  PROVE  IInv'
<1> USE DEF IInv
<1>1. /\ worker[j] = "end" /\ worker' = [worker EXCEPT ![j] = "over"] /\ slot' = None
      /\ UNCHANGED <<jobs, active, state, cancelled, dropped, data, fin, touch, letting,
                     caller>>
  BY DEF GiveBack, WorkerStep
<1>2. slot = j /\ slot # "chat" /\ slot' # "chat"
  BY <1>1, GeneratorAssumption DEF SlotOK
<1>3. \A k \in Jobs : worker'[k] = IF k = j THEN "over" ELSE worker[k]
  BY <1>1 DEF TypeOK
<1>4. \A k \in Jobs : worker'[k] \notin Working \cup {"end"}
  BY <1>2, <1>3 DEF SlotOK, Working
<1>5. \A d \in Callers : caller'[d].at # "took"
  BY <1>1, <1>2, GeneratorAssumption DEF SlotOK
<1>6. SlotOK' /\ DroppedOK'
  BY <1>4, <1>5 DEF SlotOK, DroppedOK
<1>7. /\ ActivityCounts' /\ inflight' \in Nat
      /\ held' = IF j \in dropped THEN held \ {j} ELSE held
  <2>1. CASE j \in dropped
    <3>1. LetGo({j})
      BY <2>1 DEF GiveBack
    <3>2. QED
      BY <1>2, <2>1, <3>1, LetGoCounts
  <2>2. CASE j \notin dropped
    <3>1. held' = held /\ inflight' = inflight
      BY <2>2 DEF GiveBack
    <3>2. QED
      BY <1>2, <2>2, <3>1, SameCounts DEF TypeOK
  <2>3. QED
    BY <2>1, <2>2
<1>8. TypeOK'
  BY <1>1, <1>7 DEF TypeOK
<1>9. HeldIsReachable'
  <2>1. j \in jobs \cup dropped
    BY <1>1 DEF DroppedOK
  <2>2. j \in held' => j \in jobs'
    BY <1>1, <1>7, <2>1
  <2>3. \A k \in held' : k \in held /\ k \in Jobs
    BY <1>7 DEF TypeOK
  <2>4. QED
    BY <1>1, <1>3, <2>2, <2>3 DEF HeldIsReachable
<1>10. QED
  BY <1>6, <1>7, <1>8, <1>9

-----------------------------------------------------------------------------
(* A chat, and time *)

LEMMA ChatStartsStep ==
  ASSUME IInv, ChatStarts
  PROVE  IInv'
<1> USE DEF IInv
<1>1. /\ slot = None /\ slot' = "chat" /\ inflight' = inflight + 1
      /\ UNCHANGED <<jobs, active, worker, state, held, cancelled, dropped, data, fin,
                     touch, letting, caller>>
  BY DEF ChatStarts
<1>2. TypeOK'
  BY <1>1 DEF TypeOK
<1>3. /\ \A k \in Jobs : worker[k] \notin Working \cup {"end"}
      /\ \A d \in Callers : caller[d].at # "took"
  BY <1>1, GeneratorAssumption DEF SlotOK
<1>4. SlotOK' /\ DroppedOK' /\ HeldIsReachable'
  BY <1>1, <1>3 DEF SlotOK, DroppedOK, HeldIsReachable
<1>5. ActivityCounts'
  <2>1. inflight = Cardinality(held) /\ Cardinality(held) \in Nat
    <3>1. slot # "chat"
      BY <1>1, GeneratorAssumption
    <3>2. Cardinality(held) \in Nat
      BY HeldIsFinite
    <3>3. QED
      BY <3>1, <3>2 DEF ActivityCounts
  <2>2. inflight' = Cardinality(held') + 1 /\ slot' = "chat"
    BY <1>1, <2>1
  <2>3. QED
    BY <2>2 DEF ActivityCounts
<1>6. QED
  BY <1>2, <1>4, <1>5

LEMMA ChatEndsStep ==
  ASSUME IInv, ChatEnds
  PROVE  IInv'
<1> USE DEF IInv
<1>1. /\ slot = "chat" /\ slot' = None /\ EndActivity(1)
      /\ UNCHANGED <<jobs, active, worker, state, held, cancelled, dropped, data, fin,
                     touch, letting, caller>>
  BY DEF ChatEnds
<1>2. inflight = Cardinality(held) + 1 /\ Cardinality(held) \in Nat
  BY <1>1, HeldIsFinite DEF ActivityCounts
<1>3. inflight' = Cardinality(held) /\ inflight' \in Nat
  BY <1>1, <1>2 DEF EndActivity
<1>4. TypeOK'
  BY <1>1, <1>3 DEF TypeOK
<1>5. /\ \A k \in Jobs : worker[k] \notin Working \cup {"end"}
      /\ \A d \in Callers : caller[d].at # "took"
  BY <1>1, GeneratorAssumption DEF SlotOK
<1>6. SlotOK' /\ DroppedOK' /\ HeldIsReachable'
  BY <1>1, <1>5 DEF SlotOK, DroppedOK, HeldIsReachable
<1>7. ActivityCounts'
  BY <1>1, <1>2, <1>3, GeneratorAssumption DEF ActivityCounts
<1>8. QED
  BY <1>4, <1>6, <1>7

LEMMA TickStep ==
  ASSUME IInv, Tick
  PROVE  IInv'
<1> USE DEF IInv
<1> DEFINE older(age, j) == IF j \in Fresh THEN age[j] ELSE Younger(age[j] + 1, Keep)
<1>1. /\ fin' = [j \in Jobs |-> IF Finished(j) THEN older(fin, j) ELSE fin[j]]
      /\ touch' = [j \in Jobs |-> older(touch, j)]
      /\ UNCHANGED <<jobs, active, worker, state, held, cancelled, dropped, data,
                     letting, caller, slot, inflight>>
  BY DEF Tick
<1>2. \A n \in 0..Keep : Younger(n + 1, Keep) \in 0..Keep
  BY KeepIsNatural DEF Younger
<1>3. Younger(Keep + 1, Keep) = Keep
  BY KeepIsNatural DEF Younger
<1>4. \A j \in Jobs : older(fin, j) \in 0..Keep /\ older(touch, j) \in 0..Keep
  BY <1>2 DEF TypeOK
<1>5. \A j \in Jobs : fin[j] = Keep => older(fin, j) = Keep
  BY <1>3
<1> HIDE DEF older
<1>6. fin' \in [Jobs -> 0..Keep] /\ touch' \in [Jobs -> 0..Keep]
  BY <1>1, <1>4 DEF TypeOK
<1>7. \A j \in Jobs : fin[j] = Keep => fin'[j] = Keep
  BY <1>1, <1>5
<1>8. TypeOK'
  BY <1>1, <1>6 DEF TypeOK
<1>9. SlotOK' /\ DroppedOK'
  BY <1>1 DEF SlotOK, DroppedOK
<1>10. HeldIsReachable'
  BY <1>1, <1>7 DEF HeldIsReachable, TypeOK
<1>11. ActivityCounts'
  BY <1>1, SameCounts
<1>12. QED
  BY <1>8, <1>9, <1>10, <1>11

LEMMA StepInv ==
  ASSUME IInv, [Next]_vars
  PROVE  IInv'
<1>1. CASE Sweep
  BY <1>1, SweepStep
<1>2. ASSUME NEW c \in Callers, Call(c) \/ Reply(c)
      PROVE  IInv'
  BY <1>2, CallStep, FindStep, AnswerStep, CancelStep, CreateSlotStep, CreateJobStep
     DEF Reply
<1>3. ASSUME NEW j \in Jobs, LetGoOfOld(j) \/ Work(j)
      PROVE  IInv'
  BY <1>3, LetGoOfOldStep, StartStep, ComfyEndsStep, FinishStep, GiveBackStep DEF Work
<1>4. CASE ChatStarts
  BY <1>4, ChatStartsStep
<1>5. CASE ChatEnds
  BY <1>5, ChatEndsStep
<1>6. CASE Tick
  BY <1>6, TickStep
<1>7. CASE UNCHANGED vars
  <2>1. TypeOK'
    BY <1>7 DEF vars, IInv, TypeOK
  <2>2. SlotOK' /\ DroppedOK' /\ HeldIsReachable'
    BY <1>7 DEF vars, IInv, SlotOK, DroppedOK, HeldIsReachable
  <2>3. ActivityCounts'
    BY <1>7 DEF vars, IInv, ActivityCounts
  <2>4. QED
    BY <2>1, <2>2, <2>3 DEF IInv
<1>8. QED
  BY <1>1, <1>2, <1>3, <1>4, <1>5, <1>6, <1>7 DEF Next

\* IInv holds throughout: the four properties below are its parts.
LEMMA Inductive == Spec => []IInv
<1>1. Init => IInv
  BY Start0
<1>2. IInv /\ [Next]_vars => IInv'
  BY StepInv
<1>3. QED
  BY <1>1, <1>2, PTL DEF Spec

-----------------------------------------------------------------------------

\* Every variable of the generator stays in its type: ages within Keep, the
\* activity count never below nothing.
THEOREM GeneratorTypes == Spec => []TypeOK
<1>1. IInv => TypeOK
  BY DEF IInv
<1>2. QED
  BY <1>1, Inductive, PTL

\* Whatever cancel, sweep, the worker's end and the thread of _drop_old_locked do
\* to the same job, its begin in create meets one end: the count auto sleep waits
\* on is the jobs held and the chat.
THEOREM EachBeginOneEnd == Spec => []ActivityCounts
<1>1. IInv => ActivityCounts
  BY DEF IInv
<1>2. QED
  BY <1>1, Inductive, PTL

\* One worker at a time, with the slot from create to the end of _run's finally,
\* however many callers create at once.
THEOREM WorkersAlone == Spec => []OneWorker
<1>1. IInv => OneWorker
  <2>1. ASSUME IInv
        PROVE  /\ \A j \in Jobs : worker[j] \in {"start", "comfy", "stopping"} => active = j
               /\ \A j \in Jobs : worker[j] \notin {"none", "over"} => slot = j
    BY <2>1 DEF IInv, TypeOK, SlotOK, Working
  <2>2. QED
    BY <2>1 DEF OneWorker
<1>2. QED
  BY <1>1, Inductive, PTL

\* A held job is in the table, at work, or with the thread that lets go of it,
\* unless it expired.
THEOREM HeldStaysInReach == Spec => []HeldIsReachable
<1>1. IInv => HeldIsReachable
  BY DEF IInv
<1>2. QED
  BY <1>1, Inductive, PTL
=============================================================================
