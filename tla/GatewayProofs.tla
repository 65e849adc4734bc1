--------------------------- MODULE GatewayProofs ---------------------------
(***************************************************************************)
(* For any requests, jobs, devices, models and restarts: one holder of the *)
(* slot, the phases and the slot agree, and no model remembers a prompt    *)
(* this gateway process sent for any device but last_device's.  Without    *)
(* the door, the model that answers is on the card with the right company, *)
(* and in the card's memory unless Ollama is restarted.                    *)
(*                                                                         *)
(* The slot comes first, for any finite set of threads and any queue_max:  *)
(* it is exclusive, counts right, keeps its queue bounded and loses no     *)
(* wakeup.  Each step of acquire and release preserves the four together.  *)
(***************************************************************************)
EXTENDS Gateway, FiniteSetTheorems, TLAPS

---------------------------------------------------------------------------
(* The slot *)

\* The invariants the runs check, inductive together: the count of the holders
\* needs exclusion, the bound needs the count, and no wakeup is lost only
\* because a free slot was released by a holder.
SlotInv ==
  /\ SlotTypeOK
  /\ SlotExclusive
  /\ SlotCounts
  /\ SlotBounded
  /\ SlotNoLostWakeup

\* What one thread can do to the slot.
SlotStep(t) ==
  \/ AcquireFull(t) \/ AcquireNow(t) \/ AcquireWait(t) \/ Deadline(t)
  \/ WakeTake(t) \/ WakeTimeout(t) \/ WakeAgain(t) \/ Release(t)

\* Nobody in the queue and nobody at work: where the process starts.
LEMMA SlotStart ==
  ASSUME SlotInit
  PROVE  SlotInv
<1>1. Queue = {} /\ Holders = {} /\ Asleep = {}
  BY DEF SlotInit, Queue, Holders, Asleep
<1>2. Cardinality({}) = 0
  BY FS_EmptySet
<1>3. SlotTypeOK
  BY DEF SlotInit, SlotTypeOK, SlotPlaces
<1>4. SlotExclusive /\ SlotNoLostWakeup
  BY <1>1 DEF SlotInit, SlotExclusive, SlotNoLostWakeup
<1>5. SlotCounts /\ SlotBounded
  BY <1>1, <1>2, SlotAssumption DEF SlotInit, SlotCounts, SlotBounded
<1>6. QED
  BY <1>3, <1>4, <1>5 DEF SlotInv

\* The same of a step that restarts the process.
LEMMA SlotRestart ==
  ASSUME SlotInit'
  PROVE  SlotInv'
<1>1. Queue' = {} /\ Holders' = {} /\ Asleep' = {}
  BY DEF SlotInit, Queue, Holders, Asleep
<1>2. Cardinality({}) = 0
  BY FS_EmptySet
<1>3. SlotTypeOK'
  BY DEF SlotInit, SlotTypeOK, SlotPlaces
<1>4. SlotExclusive' /\ SlotNoLostWakeup'
  BY <1>1 DEF SlotInit, SlotExclusive, SlotNoLostWakeup
<1>5. SlotCounts' /\ SlotBounded'
  BY <1>1, <1>2, SlotAssumption DEF SlotInit, SlotCounts, SlotBounded
<1>6. QED
  BY <1>3, <1>4, <1>5 DEF SlotInv

\* The queue and the holders are finite, so they can be counted.
LEMMA SlotFinite ==
  /\ IsFiniteSet(Queue) /\ Cardinality(Queue) \in Nat
  /\ IsFiniteSet(Holders) /\ Cardinality(Holders) \in Nat
<1>1. Queue \subseteq Threads /\ Holders \subseteq Threads
  BY DEF Queue, Holders
<1>2. QED
  BY <1>1, SlotAssumption, FS_Subset, FS_CardinalityType

\* A set with one element more or one less, in the form the steps need it.
LEMMA OneMore ==
  ASSUME NEW S, IsFiniteSet(S), NEW t, t \notin S
  PROVE  Cardinality(S \cup {t}) = Cardinality(S) + 1
  BY FS_AddElement

LEMMA OneLess ==
  ASSUME NEW S, IsFiniteSet(S), NEW t, t \in S
  PROVE  /\ Cardinality(S \ {t}) = Cardinality(S) - 1
         /\ Cardinality(S) > 0
<1>1. Cardinality(S \ {t}) = Cardinality(S) - 1
  BY FS_RemoveElement
<1>2. Cardinality(S \ {t}) \in Nat /\ Cardinality(S) \in Nat
  BY FS_RemoveElement, FS_CardinalityType
<1>3. QED
  BY <1>1, <1>2

\* A thread enters and finds the slot free.
LEMMA AcquireNowInv ==
  ASSUME SlotInv, NEW t \in Threads, AcquireNow(t)
  PROVE  SlotInv'
<1> USE DEF SlotInv, AcquireNow
<1>1. Holders = {} /\ Holders' = {t} /\ Queue' = Queue
  BY DEF SlotTypeOK, SlotPlaces, SlotExclusive, Holders, Queue
<1>2. Cardinality(Holders') = Cardinality(Holders) + 1
  BY <1>1, SlotFinite, OneMore
<1>3. SlotTypeOK'
  BY DEF SlotTypeOK, SlotPlaces
<1>4. SlotExclusive' /\ SlotCounts' /\ SlotBounded' /\ SlotNoLostWakeup'
  BY <1>1, <1>2 DEF SlotExclusive, SlotCounts, SlotBounded, SlotNoLostWakeup
<1>5. QED
  BY <1>3, <1>4

\* A thread joins the queue.
LEMMA AcquireWaitInv ==
  ASSUME SlotInv, NEW t \in Threads, AcquireWait(t)
  PROVE  SlotInv'
<1> USE DEF SlotInv, AcquireWait
<1>1. t \notin Queue /\ Queue' = Queue \cup {t} /\ Holders' = Holders
  BY DEF SlotTypeOK, SlotPlaces, Holders, Queue
<1>2. Cardinality(Queue') = Cardinality(Queue) + 1
  BY <1>1, SlotFinite, OneMore
<1>3. SlotTypeOK'
  BY DEF SlotTypeOK, SlotPlaces
<1>4. SlotExclusive' /\ SlotCounts' /\ SlotNoLostWakeup'
  BY <1>1, <1>2 DEF SlotExclusive, SlotCounts, SlotNoLostWakeup
<1>5. SlotBounded'
  BY SlotAssumption DEF SlotBounded, SlotFull, SlotTypeOK
<1>6. QED
  BY <1>3, <1>4, <1>5

\* A deadline passes, or a thread that was overtaken goes back to sleep: it
\* stays in the queue.
LEMMA StayInQueueInv ==
  ASSUME SlotInv, NEW t \in Threads, Deadline(t) \/ WakeAgain(t)
  PROVE  SlotInv'
<1>1. Queue' = Queue /\ Holders' = Holders
  BY DEF SlotInv, SlotTypeOK, SlotPlaces, Holders, Queue, Deadline, WakeAgain
<1>2. SlotTypeOK'
  BY DEF SlotInv, SlotTypeOK, SlotPlaces, Deadline, WakeAgain
<1>3. SlotExclusive' /\ SlotCounts' /\ SlotBounded'
  BY <1>1 DEF SlotInv, SlotExclusive, SlotCounts, SlotBounded, Deadline, WakeAgain
<1>4. SlotNoLostWakeup'
  BY DEF SlotInv, SlotTypeOK, SlotNoLostWakeup, Asleep, Queue, Deadline, WakeAgain
<1>5. QED
  BY <1>2, <1>3, <1>4 DEF SlotInv

\* A thread of the queue finds the slot free.
LEMMA WakeTakeInv ==
  ASSUME SlotInv, NEW t \in Threads, WakeTake(t)
  PROVE  SlotInv'
<1> USE DEF SlotInv, WakeTake
<1>1. /\ Holders = {} /\ Holders' = {t}
      /\ t \in Queue /\ Queue' = Queue \ {t}
  BY DEF SlotTypeOK, SlotPlaces, SlotExclusive, Holders, Queue
<1>2. Cardinality(Holders') = Cardinality(Holders) + 1
  BY <1>1, SlotFinite, OneMore
<1>3. Cardinality(Queue') = Cardinality(Queue) - 1 /\ Cardinality(Queue) > 0
  BY <1>1, SlotFinite, OneLess
<1>4. SlotTypeOK'
  BY <1>3, SlotFinite DEF SlotTypeOK, SlotPlaces, SlotCounts
<1>5. SlotExclusive' /\ SlotCounts' /\ SlotNoLostWakeup'
  BY <1>1, <1>2, <1>3 DEF SlotExclusive, SlotCounts, SlotNoLostWakeup
<1>6. SlotBounded'
  BY <1>3, SlotAssumption DEF SlotBounded, SlotTypeOK
<1>7. QED
  BY <1>4, <1>5, <1>6

\* A thread of the queue gives up.
LEMMA WakeTimeoutInv ==
  ASSUME SlotInv, NEW t \in Threads, WakeTimeout(t)
  PROVE  SlotInv'
<1> USE DEF SlotInv, WakeTimeout
<1>1. Holders' = Holders /\ t \in Queue /\ Queue' = Queue \ {t}
  BY DEF SlotTypeOK, SlotPlaces, Holders, Queue
<1>2. Cardinality(Queue') = Cardinality(Queue) - 1 /\ Cardinality(Queue) > 0
  BY <1>1, SlotFinite, OneLess
<1>3. SlotTypeOK'
  BY <1>2, SlotFinite DEF SlotTypeOK, SlotPlaces, SlotCounts
<1>4. SlotExclusive' /\ SlotCounts' /\ SlotNoLostWakeup'
  BY <1>1, <1>2 DEF SlotExclusive, SlotCounts, SlotNoLostWakeup
<1>5. SlotBounded'
  BY <1>2, SlotAssumption DEF SlotBounded, SlotTypeOK
<1>6. QED
  BY <1>3, <1>4, <1>5

\* The slot is given back: whoever slept may have been woken.
LEMMA ReleaseInv ==
  ASSUME SlotInv, NEW t \in Threads, Release(t)
  PROVE  SlotInv'
<1> USE DEF SlotInv, Release
<1>1. Holders = {t} /\ Holders' = {} /\ Queue' = Queue
  BY DEF SlotTypeOK, SlotPlaces, SlotExclusive, Holders, Queue, Asleep
<1>2. Cardinality(Holders) = 1 /\ Cardinality(Holders') = 0
  BY <1>1, FS_EmptySet, FS_Singleton
<1>3. SlotTypeOK'
  <2>1. at' \in [Threads -> SlotPlaces]
    <3>1. CASE at' = [at EXCEPT ![t] = "out"]
      BY <3>1 DEF SlotTypeOK, SlotPlaces
    <3>2. ASSUME NEW w \in Threads, at' = [at EXCEPT ![t] = "out", ![w] = "awake"]
          PROVE  at' \in [Threads -> SlotPlaces]
      BY <3>2 DEF SlotTypeOK, SlotPlaces
    <3>3. QED
      BY <3>1, <3>2 DEF Asleep
  <2>2. active' \in Nat
    BY DEF SlotTypeOK
  <2>3. busy' \in BOOLEAN /\ queued' \in Nat /\ late' \in SUBSET Threads
    BY DEF SlotTypeOK
  <2>4. QED
    BY <2>1, <2>2, <2>3 DEF SlotTypeOK
<1>4. SlotExclusive' /\ SlotCounts' /\ SlotBounded'
  BY <1>1, <1>2 DEF SlotExclusive, SlotCounts, SlotBounded
<1>5. SlotNoLostWakeup'
  BY DEF SlotNoLostWakeup, SlotTypeOK, Asleep
<1>6. QED
  BY <1>3, <1>4, <1>5

\* Every step of a thread on the slot keeps SlotInv.
LEMMA SlotStepInv ==
  ASSUME SlotInv, NEW t \in Threads, SlotStep(t)
  PROVE  SlotInv'
<1>1. CASE AcquireFull(t)
  BY <1>1 DEF AcquireFull, slotVars, SlotInv, SlotTypeOK, SlotExclusive, SlotCounts,
     SlotBounded, SlotNoLostWakeup, Queue, Holders, Asleep
<1>2. QED
  BY <1>1, AcquireNowInv, AcquireWaitInv, StayInQueueInv, WakeTakeInv, WakeTimeoutInv,
     ReleaseInv DEF SlotStep

\* Nor does a step that leaves the slot alone.
LEMMA SlotStutter ==
  ASSUME SlotInv, UNCHANGED slotVars
  PROVE  SlotInv'
  BY DEF slotVars, SlotInv, SlotTypeOK, SlotExclusive, SlotCounts, SlotBounded,
     SlotNoLostWakeup, Queue, Holders, Asleep

---------------------------------------------------------------------------
(* The gateway *)

\* From switch_device's success to the end of the answer.
DevicePhases == {"room", "load", "place", "settle", "recheck", "run", "relay"}

ControlOK ==
  /\ pc \in [Requests -> Phases]
  /\ gpc \in [Gens -> GenPhases]
  /\ dpc \in [Doors -> {"idle", "admitted", "chat"}]
  /\ gen \in Gens \cup {None}

\* What isn't loaded remembers nothing: seeing every model gone is enough.
OllamaOK ==
  /\ loaded \in SUBSET Models
  /\ spilled \in SUBSET loaded
  /\ cache \in [Models -> SUBSET Devices]
  /\ older \in [Models -> SUBSET Devices]
  /\ \A m \in Models \ loaded : cache[m] = {}

\* A request that passed switch_device works for last_device: nobody else can
\* have switched since, because it has the slot.
OnCardForDevice ==
  \A r \in Requests : pc[r] \in DevicePhases => lastDevice = DeviceOf[r]

DeviceOK ==
  /\ lastDevice \in Devices \cup {None}
  /\ OnCardForDevice
  /\ IsolationThisRun

\* The inductive invariant.
IInv ==
  /\ SlotInv
  /\ ControlOK
  /\ CardHeld
  /\ GenOwnsCard
  /\ OllamaOK
  /\ DeviceOK

-----------------------------------------------------------------------------
(* Ollama *)

\* Models that go take their prompts along.
LEMMA GoneOK ==
  ASSUME OllamaOK, NEW gone, Gone(gone)
  PROVE  /\ OllamaOK'
         /\ loaded' = loaded \ gone
         /\ \A m \in Models : cache'[m] \subseteq cache[m]
         /\ \A m \in gone \cap Models : cache'[m] = {}
  BY DEF OllamaOK, Gone

\* A load adds to the caches at most what the request brings.
LEMMA LoadFreshOK ==
  ASSUME OllamaOK, NEW m \in Models, NEW brought \in SUBSET Devices,
         LoadFresh(m, brought)
  PROVE  /\ OllamaOK'
         /\ cache'[m] = brought
         /\ \A x \in Models : cache'[x] \subseteq cache[x] \cup brought
<1>1. PICK evicted \in SUBSET (loaded \ (InUse \cup {m})), spill \in SUBSET {m} :
       /\ loaded' = (loaded \ evicted) \cup {m}
       /\ spilled' = (spilled \ (evicted \cup {m})) \cup spill
       /\ cache' = [x \in Models |-> IF x = m THEN brought
                                     ELSE IF x \in evicted THEN {} ELSE cache[x]]
       /\ older' = [x \in Models |-> IF x \in evicted \cup {m} THEN {} ELSE older[x]]
  BY DEF LoadFresh
<1>2. loaded' \in SUBSET Models /\ spilled' \in SUBSET loaded'
  BY <1>1 DEF OllamaOK
<1>3. cache' \in [Models -> SUBSET Devices] /\ older' \in [Models -> SUBSET Devices]
  BY <1>1 DEF OllamaOK
<1>4. \A x \in Models \ loaded' : cache'[x] = {}
  BY <1>1 DEF OllamaOK
<1>5. /\ cache'[m] = brought
      /\ \A x \in Models : cache'[x] \subseteq cache[x] \cup brought
  BY <1>1
<1>6. QED
  BY <1>2, <1>3, <1>4, <1>5 DEF OllamaOK

LEMMA LoadModelOK ==
  ASSUME OllamaOK, NEW m \in Models, LoadModel(m)
  PROVE  /\ OllamaOK'
         /\ \A x \in Models : cache'[x] \subseteq cache[x]
<1>1. CASE UNCHANGED ollamaVars
  BY <1>1 DEF ollamaVars, OllamaOK
<1>2. CASE LoadFresh(m, {})
  BY <1>2, LoadFreshOK
<1>3. QED
  BY <1>1, <1>2 DEF LoadModel

-----------------------------------------------------------------------------
(* The parts of a step *)

\* A request that has the slot moves on and keeps it.
LEMMA MoveOnCard ==
  ASSUME IInv, NEW r \in Requests, NEW p \in CardPhases,
         pc[r] \in CardPhases,
         pc' = [pc EXCEPT ![r] = p],
         UNCHANGED <<slotVars, gpc, dpc, gen>>,
         p \in DevicePhases => lastDevice' = DeviceOf[r]
  PROVE  SlotInv' /\ ControlOK' /\ CardHeld' /\ GenOwnsCard' /\ OnCardForDevice'
<1>1. SlotInv'
  BY SlotStutter DEF IInv
<1>2. ControlOK'
  BY DEF IInv, ControlOK, Phases
<1>3. CardHeld'
  BY DEF IInv, CardHeld, ControlOK, slotVars, Queue, CardPhases
<1>4. GenOwnsCard'
  BY DEF IInv, GenOwnsCard
<1>5. OnCardForDevice'
  <2> SUFFICES ASSUME NEW q \in Requests, pc'[q] \in DevicePhases
               PROVE  lastDevice' = DeviceOf[q]
    BY DEF OnCardForDevice
  <2>1. CASE q = r
    BY <2>1 DEF IInv, ControlOK
  <2>2. CASE q # r
    <3>1. pc[q] \in CardPhases
      BY <2>2 DEF IInv, ControlOK, DevicePhases, CardPhases
    <3>2. q \in Holders /\ r \in Holders
      BY <3>1, GatewayAssumption DEF IInv, CardHeld, Holders
    <3>3. QED
      BY <2>2, <3>2 DEF IInv, SlotInv, SlotExclusive
  <2>3. QED
    BY <2>1, <2>2
<1>6. QED
  BY <1>1, <1>2, <1>3, <1>4, <1>5

\* Caches that only shrink, under the same last_device.
LEMMA CacheShrinks ==
  ASSUME IInv, lastDevice' = lastDevice,
         \A m \in Models : cache'[m] \subseteq cache[m]
  PROVE  IsolationThisRun' /\ lastDevice' \in Devices \cup {None}
  BY DEF IInv, DeviceOK, IsolationThisRun

\* Ollama and last_device untouched.
LEMMA CardAlone ==
  ASSUME IInv, UNCHANGED <<lastDevice, ollamaVars>>
  PROVE  OllamaOK' /\ IsolationThisRun' /\ lastDevice' \in Devices \cup {None}
  BY DEF IInv, DeviceOK, IsolationThisRun, OllamaOK, ollamaVars

\* What a thread does to the slot, another thread's place doesn't notice.
LEMMA OthersStay ==
  ASSUME SlotInv, NEW t \in Threads, SlotStep(t)
  PROVE  \A u \in Threads \ {t} : /\ at'[u] = "in" <=> at[u] = "in"
                                  /\ u \in Queue' <=> u \in Queue
<1> USE DEF Queue, SlotInv, SlotTypeOK
<1>1. CASE Release(t)
  <2>1. CASE at' = [at EXCEPT ![t] = "out"]
    BY <1>1, <2>1 DEF Release
  <2>2. ASSUME NEW w \in Asleep, at' = [at EXCEPT ![t] = "out", ![w] = "awake"]
        PROVE  \A u \in Threads \ {t} : /\ at'[u] = "in" <=> at[u] = "in"
                                        /\ u \in Queue' <=> u \in Queue
    BY <2>2 DEF Asleep
  <2>3. QED
    BY <1>1, <2>1, <2>2 DEF Release
<1>2. CASE AcquireFull(t)
  BY <1>2 DEF AcquireFull, slotVars
<1>3. QED
  BY <1>1, <1>2 DEF SlotStep, AcquireNow, AcquireWait, Deadline, WakeTake, WakeTimeout,
     WakeAgain

\* Where a step of the slot leaves the thread itself.
LEMMA ItsPlace ==
  ASSUME SlotInv, NEW t \in Threads
  PROVE  /\ AcquireFull(t) \/ WakeTimeout(t) \/ Release(t) => at'[t] = "out"
         /\ AcquireNow(t) \/ WakeTake(t) => at'[t] = "in"
         /\ AcquireWait(t) \/ WakeAgain(t) \/ Deadline(t) => at'[t] \in {"waiting", "awake"}
         /\ at'[t] \in {"waiting", "awake"} <=> t \in Queue'
<1>1. Release(t) => at'[t] = "out"
  BY DEF SlotInv, SlotTypeOK, Release, Asleep
<1>2. QED
  BY <1>1 DEF SlotInv, SlotTypeOK, Queue, AcquireFull, slotVars, AcquireNow, AcquireWait,
     Deadline, WakeTake, WakeTimeout, WakeAgain

\* A request goes through acquire or release.
LEMMA MoveOnSlot ==
  ASSUME IInv, NEW r \in Requests, SlotStep(r), NEW p \in Phases \ DevicePhases,
         pc' = [pc EXCEPT ![r] = p],
         p \in CardPhases <=> at'[r] = "in",
         p = "queue" <=> r \in Queue',
         UNCHANGED <<gpc, dpc, gen, lastDevice, ollamaVars>>
  PROVE  IInv'
<1>1. r \in Threads /\ Requests \subseteq Threads /\ Gens \subseteq Threads /\ r \notin Gens
  BY GatewayAssumption
<1>2. SlotInv'
  BY <1>1, SlotStepInv DEF IInv
<1>3. ControlOK'
  BY DEF IInv, ControlOK
<1>4. \A u \in Threads \ {r} : /\ at'[u] = "in" <=> at[u] = "in"
                               /\ u \in Queue' <=> u \in Queue
  BY <1>1, OthersStay DEF IInv
<1>5. CardHeld'
  <2>1. ASSUME NEW q \in Requests
        PROVE  /\ pc'[q] \in CardPhases <=> at'[q] = "in"
               /\ pc'[q] = "queue" <=> q \in Queue'
    <3>1. CASE q = r
      BY <3>1 DEF IInv, ControlOK
    <3>2. CASE q # r
      BY <1>1, <1>4, <3>2 DEF IInv, ControlOK, CardHeld
    <3>3. QED
      BY <3>1, <3>2
  <2>2. ASSUME NEW g \in Gens
        PROVE  gpc'[g] \in GenCardPhases <=> at'[g] = "in"
    BY <1>1, <1>4 DEF IInv, CardHeld
  <2>3. QED
    BY <2>1, <2>2 DEF CardHeld
<1>6. GenOwnsCard'
  BY DEF IInv, GenOwnsCard
<1>7. OnCardForDevice'
  BY DEF IInv, ControlOK, DeviceOK, OnCardForDevice
<1>8. QED
  BY <1>2, <1>3, <1>5, <1>6, <1>7, CardAlone DEF IInv, DeviceOK

\* So does a generation job; gpc and gen go with it.
LEMMA GenOnSlot ==
  ASSUME IInv, NEW g \in Gens, SlotStep(g) \/ UNCHANGED slotVars, NEW p \in GenPhases,
         gpc' = [gpc EXCEPT ![g] = p],
         p \in GenCardPhases <=> at'[g] = "in",
         UNCHANGED <<pc, dpc, lastDevice>>,
         gen' \in Gens \cup {None}, GenOwnsCard',
         OllamaOK', \A m \in Models : cache'[m] \subseteq cache[m]
  PROVE  IInv'
<1>1. g \in Threads /\ Requests \subseteq Threads /\ Gens \subseteq Threads /\ g \notin Requests
  BY GatewayAssumption
<1>2. SlotInv'
  BY <1>1, SlotStepInv, SlotStutter DEF IInv
<1>3. ControlOK'
  BY DEF IInv, ControlOK
<1>4. \A u \in Threads \ {g} : /\ at'[u] = "in" <=> at[u] = "in"
                               /\ u \in Queue' <=> u \in Queue
  BY <1>1, OthersStay DEF IInv, slotVars, Queue
<1>5. CardHeld'
  <2>1. ASSUME NEW q \in Requests
        PROVE  /\ pc'[q] \in CardPhases <=> at'[q] = "in"
               /\ pc'[q] = "queue" <=> q \in Queue'
    BY <1>1, <1>4 DEF IInv, CardHeld
  <2>2. ASSUME NEW h \in Gens
        PROVE  gpc'[h] \in GenCardPhases <=> at'[h] = "in"
    <3>1. CASE h = g
      BY <3>1 DEF IInv, ControlOK
    <3>2. CASE h # g
      BY <1>1, <1>4, <3>2 DEF IInv, CardHeld, ControlOK
    <3>3. QED
      BY <3>1, <3>2
  <2>3. QED
    BY <2>1, <2>2 DEF CardHeld
<1>6. OnCardForDevice'
  BY DEF IInv, DeviceOK, OnCardForDevice
<1>7. QED
  BY <1>2, <1>3, <1>5, <1>6, CacheShrinks DEF IInv, DeviceOK

-----------------------------------------------------------------------------
(* A request, from its arrival to the queue *)

\* Nothing but pc changes for a request that isn't on the card.
LEMMA ArriveInv ==
  ASSUME IInv, NEW r \in Requests, Arrive(r)
  PROVE  IInv'
<1> USE DEF Arrive
<1>1. SlotInv' /\ GenOwnsCard'
  BY SlotStutter DEF IInv, GenOwnsCard
<1>2. ControlOK'
  BY DEF IInv, ControlOK, Phases
<1>3. CardHeld'
  BY DEF IInv, ControlOK, CardHeld, CardPhases, Queue, slotVars
<1>4. OnCardForDevice'
  BY DEF IInv, ControlOK, DeviceOK, OnCardForDevice, DevicePhases
<1>5. QED
  BY <1>1, <1>2, <1>3, <1>4, CardAlone DEF IInv, DeviceOK

LEMMA SlotPhases ==
  /\ {"idle", "queue", "unload", "switch", "leave"} \subseteq Phases \ DevicePhases
  /\ {"unload", "switch", "leave"} \subseteq CardPhases
  /\ {"idle", "queue"} \cap CardPhases = {}
  BY DEF Phases, DevicePhases, CardPhases

\* acquire's answer, or a place in the queue.
LEMMA AcquireInv ==
  ASSUME IInv, NEW r \in Requests, Acquire(r)
  PROVE  IInv'
<1>1. r \in Threads /\ SlotInv
  BY GatewayAssumption DEF IInv
<1>2. UNCHANGED <<gpc, dpc, gen, lastDevice, ollamaVars>>
  BY DEF Acquire
<1>3. CASE AcquireFull(r) /\ pc' = [pc EXCEPT ![r] = "idle"]
  BY <1>1, <1>2, <1>3, SlotPhases, ItsPlace, MoveOnSlot DEF SlotStep
<1>4. CASE AcquireNow(r) /\ pc' = [pc EXCEPT ![r] = FirstOnCard(r)]
  BY <1>1, <1>2, <1>4, SlotPhases, ItsPlace, MoveOnSlot DEF SlotStep, FirstOnCard
<1>5. CASE AcquireWait(r) /\ pc' = [pc EXCEPT ![r] = "queue"]
  BY <1>1, <1>2, <1>5, SlotPhases, ItsPlace, MoveOnSlot DEF SlotStep
<1>6. QED
  BY <1>3, <1>4, <1>5 DEF Acquire

\* The end of the wait, either way.
LEMMA WaitOverInv ==
  ASSUME IInv, NEW r \in Requests, WaitOver(r)
  PROVE  IInv'
<1>1. r \in Threads /\ SlotInv
  BY GatewayAssumption DEF IInv
<1>2. UNCHANGED <<gpc, dpc, gen, lastDevice, ollamaVars>>
  BY DEF WaitOver
<1>3. CASE WakeTake(r) /\ pc' = [pc EXCEPT ![r] = FirstOnCard(r)]
  BY <1>1, <1>2, <1>3, SlotPhases, ItsPlace, MoveOnSlot DEF SlotStep, FirstOnCard
<1>4. CASE WakeTimeout(r) /\ pc' = [pc EXCEPT ![r] = "idle"]
  BY <1>1, <1>2, <1>4, SlotPhases, ItsPlace, MoveOnSlot DEF SlotStep
<1>5. QED
  BY <1>3, <1>4 DEF WaitOver

\* Still in the queue, asleep or out of time.
LEMMA StillWaitingInv ==
  ASSUME IInv, NEW r \in Requests, WaitOn(r) \/ OutOfTime(r)
  PROVE  IInv'
<1>1. r \in Threads /\ SlotInv
  BY GatewayAssumption DEF IInv
<1>2. UNCHANGED <<gpc, dpc, gen, lastDevice, ollamaVars>>
  BY DEF WaitOn, OutOfTime
<1>3. pc' = [pc EXCEPT ![r] = "queue"]
  BY DEF WaitOn, OutOfTime, IInv, ControlOK
<1>4. WakeAgain(r) \/ Deadline(r)
  BY DEF WaitOn, OutOfTime
<1>5. QED
  BY <1>1, <1>2, <1>3, <1>4, SlotPhases, ItsPlace, MoveOnSlot DEF SlotStep

\* The finally.
LEMMA LeaveInv ==
  ASSUME IInv, NEW r \in Requests, Leave(r)
  PROVE  IInv'
<1>1. r \in Threads /\ SlotInv
  BY GatewayAssumption DEF IInv
<1>2. /\ UNCHANGED <<gpc, dpc, gen, lastDevice, ollamaVars>>
      /\ Release(r) /\ pc' = [pc EXCEPT ![r] = "idle"]
  BY DEF Leave
<1>3. QED
  BY <1>1, <1>2, SlotPhases, ItsPlace, MoveOnSlot DEF SlotStep

-----------------------------------------------------------------------------
(* A request on the card *)

\* Every step on the card that leaves the caches alone or shrinks them.
LEMMA ShrinkOnCard ==
  ASSUME IInv, NEW r \in Requests, NEW p \in CardPhases,
         pc[r] \in CardPhases,
         pc' = [pc EXCEPT ![r] = p],
         UNCHANGED <<slotVars, gpc, dpc, gen, lastDevice>>,
         p \in DevicePhases => pc[r] \in DevicePhases,
         OllamaOK', \A m \in Models : cache'[m] \subseteq cache[m]
  PROVE  IInv'
<1>1. p \in DevicePhases => lastDevice' = DeviceOf[r]
  BY DEF IInv, DeviceOK, OnCardForDevice
<1>2. QED
  BY <1>1, MoveOnCard, CacheShrinks DEF IInv, DeviceOK

\* switch_device: the caches it leaves are last_device's new ones, for either
\* it was this device already, or no model remembers anything.
LEMMA SwitchDeviceInv ==
  ASSUME IInv, NEW r \in Requests, SwitchDevice(r)
  PROVE  IInv'
<1>1. /\ pc[r] \in CardPhases /\ {"room", "leave"} \subseteq CardPhases
      /\ "leave" \notin DevicePhases
      /\ UNCHANGED <<slotVars, gpc, dpc, gen>>
  BY DEF SwitchDevice, CardPhases, DevicePhases
<1>2. DeviceOf[r] \in Devices /\ None \notin Devices
  BY GatewayAssumption
<1>3. CASE /\ lastDevice \in {None, DeviceOf[r]}
           /\ lastDevice' = DeviceOf[r]
           /\ pc' = [pc EXCEPT ![r] = "room"]
           /\ UNCHANGED ollamaVars
  <2>1. IsolationThisRun'
    BY <1>2, <1>3 DEF IInv, DeviceOK, OllamaOK, IsolationThisRun, ollamaVars
  <2>2. OllamaOK'
    BY <1>3 DEF IInv, OllamaOK, ollamaVars
  <2>3. QED
    BY <1>1, <1>2, <1>3, <2>1, <2>2, MoveOnCard DEF IInv, DeviceOK
<1>4. ASSUME NEW gone \in SUBSET (loaded \ InUse), Gone(gone), gone = loaded,
             lastDevice' = DeviceOf[r], pc' = [pc EXCEPT ![r] = "room"]
      PROVE  IInv'
  <2>1. OllamaOK' /\ \A m \in Models : cache'[m] = {}
    BY <1>4 DEF IInv, OllamaOK, Gone
  <2>2. IsolationThisRun'
    BY <2>1 DEF IsolationThisRun
  <2>3. QED
    BY <1>1, <1>2, <1>4, <2>1, <2>2, MoveOnCard DEF IInv, DeviceOK
<1>5. ASSUME NEW gone \in SUBSET (loaded \ InUse), Gone(gone),
             lastDevice' = lastDevice, pc' = [pc EXCEPT ![r] = "leave"]
      PROVE  IInv'
  <2>1. OllamaOK' /\ \A m \in Models : cache'[m] \subseteq cache[m]
    BY <1>5, GoneOK DEF IInv
  <2>2. QED
    BY <1>1, <1>5, <2>1, ShrinkOnCard
<1>6. QED
  BY <1>3, <1>4, <1>5 DEF SwitchDevice

\* make_room, warm_load, check_placement and settle_on_gpu only shrink the
\* caches, and go on only for the device they began for.
LEMMA MakeRoomInv ==
  ASSUME IInv, NEW r \in Requests, MakeRoom(r)
  PROVE  IInv'
<1>1. PICK gone : Gone(gone)
  BY DEF MakeRoom
<1>2. PICK p \in {"load", "leave"} : pc' = [pc EXCEPT ![r] = p]
  BY DEF MakeRoom
<1>3. OllamaOK' /\ \A m \in Models : cache'[m] \subseteq cache[m]
  BY <1>1, GoneOK DEF IInv
<1>4. /\ pc[r] \in CardPhases \cap DevicePhases /\ p \in CardPhases
      /\ UNCHANGED <<slotVars, gpc, dpc, gen, lastDevice>>
  BY DEF MakeRoom, CardPhases, DevicePhases
<1>5. QED
  BY <1>2, <1>3, <1>4, ShrinkOnCard

LEMMA LoadInv ==
  ASSUME IInv, NEW r \in Requests, WarmLoad(r) \/ SettleLoad(r)
  PROVE  IInv'
<1>1. ModelOf[r] \in Models
  BY GatewayAssumption
<1>2. PICK p \in {"run", "place", "recheck", "leave"} : pc' = [pc EXCEPT ![r] = p]
  BY DEF WarmLoad, SettleLoad
<1>3. LoadModel(ModelOf[r]) \/ UNCHANGED ollamaVars
  BY DEF WarmLoad, SettleLoad
<1>4. OllamaOK' /\ \A m \in Models : cache'[m] \subseteq cache[m]
  BY <1>1, <1>3, LoadModelOK DEF IInv, OllamaOK, ollamaVars
<1>5. /\ pc[r] \in CardPhases \cap DevicePhases /\ p \in CardPhases
      /\ UNCHANGED <<slotVars, gpc, dpc, gen, lastDevice>>
  BY DEF WarmLoad, SettleLoad, CardPhases, DevicePhases
<1>6. QED
  BY <1>2, <1>4, <1>5, ShrinkOnCard

LEMMA CheckInv ==
  ASSUME IInv, NEW r \in Requests, CheckPlacement(r) \/ SettleCheck(r)
  PROVE  IInv'
<1>1. PICK p \in {"run", "settle", "leave"} : pc' = [pc EXCEPT ![r] = p]
  BY DEF CheckPlacement, SettleCheck, Placed
<1>2. UNCHANGED ollamaVars \/ \E gone : Gone(gone)
  BY DEF CheckPlacement, SettleCheck
<1>3. OllamaOK' /\ \A m \in Models : cache'[m] \subseteq cache[m]
  BY <1>2, GoneOK DEF IInv, OllamaOK, ollamaVars
<1>4. /\ pc[r] \in CardPhases \cap DevicePhases /\ p \in CardPhases
      /\ UNCHANGED <<slotVars, gpc, dpc, gen, lastDevice>>
  BY DEF CheckPlacement, SettleCheck, CardPhases, DevicePhases
<1>5. QED
  BY <1>1, <1>3, <1>4, ShrinkOnCard

LEMMA UnloadJobInv ==
  ASSUME IInv, NEW r \in Requests, UnloadJob(r)
  PROVE  IInv'
<1>1. PICK gone : Gone(gone)
  BY DEF UnloadJob
<1>2. OllamaOK' /\ \A m \in Models : cache'[m] \subseteq cache[m]
  BY <1>1, GoneOK DEF IInv
<1>3. /\ pc[r] \in CardPhases /\ "leave" \in CardPhases \ DevicePhases
      /\ UNCHANGED <<slotVars, gpc, dpc, gen, lastDevice>>
      /\ pc' = [pc EXCEPT ![r] = "leave"]
  BY DEF UnloadJob, CardPhases, DevicePhases
<1>4. QED
  BY <1>2, <1>3, ShrinkOnCard

\* The prompt goes into a cache that knows only the same device.
LEMMA RelayInv ==
  ASSUME IInv, NEW r \in Requests, Relay(r)
  PROVE  IInv'
<1>1. ModelOf[r] \in Models /\ DeviceOf[r] \in Devices
  BY GatewayAssumption
<1>2. lastDevice = DeviceOf[r] /\ lastDevice' = DeviceOf[r]
  BY DEF Relay, IInv, DeviceOK, OnCardForDevice, DevicePhases
<1>3. OllamaOK' /\ \A m \in Models : cache'[m] \subseteq cache[m] \cup {DeviceOf[r]}
  <2>1. CASE /\ ModelOf[r] \in loaded
             /\ cache' = [cache EXCEPT ![ModelOf[r]] = @ \cup {DeviceOf[r]}]
             /\ UNCHANGED <<loaded, spilled, older>>
    BY <1>1, <2>1 DEF IInv, OllamaOK
  <2>2. CASE LoadFresh(ModelOf[r], {DeviceOf[r]})
    BY <1>1, <2>2, LoadFreshOK DEF IInv
  <2>3. QED
    BY <2>1, <2>2 DEF Relay
<1>4. IsolationThisRun'
  BY <1>2, <1>3 DEF IInv, DeviceOK, IsolationThisRun
<1>5. /\ pc[r] \in CardPhases /\ "relay" \in CardPhases
      /\ pc' = [pc EXCEPT ![r] = "relay"]
      /\ UNCHANGED <<slotVars, gpc, dpc, gen>>
  BY DEF Relay, CardPhases
<1>6. QED
  BY <1>1, <1>2, <1>3, <1>4, <1>5, MoveOnCard DEF IInv, DeviceOK

LEMMA RelayEndsInv ==
  ASSUME IInv, NEW r \in Requests, RelayEnds(r)
  PROVE  IInv'
<1>1. PICK p \in {"leave", "place"} : pc' = [pc EXCEPT ![r] = p]
  BY DEF RelayEnds
<1>2. OllamaOK' /\ \A m \in Models : cache'[m] \subseteq cache[m]
  BY DEF RelayEnds, IInv, OllamaOK, ollamaVars
<1>3. /\ pc[r] \in CardPhases \cap DevicePhases /\ p \in CardPhases
      /\ UNCHANGED <<slotVars, gpc, dpc, gen, lastDevice>>
  BY DEF RelayEnds, CardPhases, DevicePhases
<1>4. QED
  BY <1>1, <1>2, <1>3, ShrinkOnCard

-----------------------------------------------------------------------------
(* A generation job *)

LEMMA GenAskInv ==
  ASSUME IInv, NEW g \in Gens, GenAsk(g)
  PROVE  IInv'
<1>1. /\ UNCHANGED <<slotVars, pc, dpc, gen, lastDevice, ollamaVars>>
      /\ gpc' = [gpc EXCEPT ![g] = "asked"] /\ gpc[g] = "idle"
  BY DEF GenAsk
<1>2. "asked" \in GenPhases \ GenCardPhases /\ "idle" \notin GenCardPhases
  BY DEF GenPhases, GenCardPhases
<1>3. at'[g] # "in"
  BY <1>1, <1>2 DEF IInv, CardHeld, slotVars
<1>4. gen' \in Gens \cup {None} /\ GenOwnsCard'
  BY <1>1 DEF IInv, ControlOK, GenOwnsCard
<1>5. OllamaOK' /\ \A m \in Models : cache'[m] \subseteq cache[m]
  BY <1>1 DEF IInv, OllamaOK, ollamaVars
<1>6. QED
  BY <1>1, <1>2, <1>3, <1>4, <1>5, GenOnSlot

LEMMA GenSlotInv ==
  ASSUME IInv, NEW g \in Gens, GenSlot(g)
  PROVE  IInv'
<1>1. UNCHANGED <<pc, dpc, gen, lastDevice, ollamaVars>> /\ gpc[g] = "asked"
  BY DEF GenSlot
<1>2. /\ "took" \in GenPhases \cap GenCardPhases
      /\ "idle" \in GenPhases \ GenCardPhases /\ "asked" \notin GenCardPhases
  BY DEF GenPhases, GenCardPhases
<1>3. gen' \in Gens \cup {None}
  BY <1>1 DEF IInv, ControlOK
<1>4. OllamaOK' /\ \A m \in Models : cache'[m] \subseteq cache[m]
  BY <1>1 DEF IInv, OllamaOK, ollamaVars
<1>5. CASE AcquireNow(g) /\ gpc' = [gpc EXCEPT ![g] = "took"]
  <2>1. SlotStep(g) /\ at'[g] = "in"
    BY <1>5, ItsPlace, GatewayAssumption DEF SlotStep, IInv
  <2>2. GenOwnsCard'
    BY <1>1, <1>5 DEF IInv, ControlOK, GenOwnsCard
  <2>3. QED
    BY <1>1, <1>2, <1>3, <1>4, <1>5, <2>1, <2>2, GenOnSlot
<1>6. CASE UNCHANGED slotVars /\ gpc' = [gpc EXCEPT ![g] = "idle"]
  <2>1. at'[g] # "in"
    BY <1>1, <1>2, <1>6 DEF IInv, CardHeld, slotVars
  <2>2. GenOwnsCard'
    BY <1>1, <1>6 DEF IInv, ControlOK, GenOwnsCard
  <2>3. QED
    BY <1>1, <1>2, <1>3, <1>4, <1>6, <2>1, <2>2, GenOnSlot
<1>7. QED
  BY <1>5, <1>6 DEF GenSlot

LEMMA GenStartInv ==
  ASSUME IInv, NEW g \in Gens, GenStart(g)
  PROVE  IInv'
<1>1. UNCHANGED <<pc, dpc, lastDevice, ollamaVars>> /\ gpc[g] = "took"
  BY DEF GenStart
<1>2. /\ "unload" \in GenPhases \cap GenCardPhases /\ "took" \in GenCardPhases
      /\ "idle" \in GenPhases \ GenCardPhases
  BY DEF GenPhases, GenCardPhases
<1>3. OllamaOK' /\ \A m \in Models : cache'[m] \subseteq cache[m]
  BY <1>1 DEF IInv, OllamaOK, ollamaVars
<1>4. CASE gen = None /\ gen' = g /\ gpc' = [gpc EXCEPT ![g] = "unload"] /\ UNCHANGED slotVars
  <2>1. at'[g] = "in"
    BY <1>1, <1>2, <1>4 DEF IInv, CardHeld, slotVars
  <2>2. GenOwnsCard'
    BY <1>1, <1>4, GatewayAssumption DEF IInv, ControlOK, GenOwnsCard
  <2>3. QED
    BY <1>1, <1>2, <1>3, <1>4, <2>1, <2>2, GenOnSlot
<1>5. CASE Release(g) /\ gpc' = [gpc EXCEPT ![g] = "idle"] /\ UNCHANGED gen
  <2>1. SlotStep(g) /\ at'[g] = "out"
    BY <1>5, ItsPlace, GatewayAssumption DEF SlotStep, IInv
  <2>2. GenOwnsCard' /\ gen' \in Gens \cup {None}
    BY <1>1, <1>5 DEF IInv, ControlOK, GenOwnsCard
  <2>3. QED
    BY <1>1, <1>2, <1>3, <1>5, <2>1, <2>2, GenOnSlot
<1>6. QED
  BY <1>4, <1>5 DEF GenStart

\* The worker's unload, its ComfyUI part and its end keep the slot.
LEMMA GenWorkerInv ==
  ASSUME IInv, NEW g \in Gens, GenUnload(g) \/ GenComfyEnds(g) \/ GenFinish(g)
  PROVE  IInv'
<1>1. PICK p \in {"comfy", "cleanup", "ended"} :
        /\ gpc' = [gpc EXCEPT ![g] = p]
        /\ p = "ended" <=> GenFinish(g)
  BY DEF GenUnload, GenComfyEnds, GenFinish, IInv, ControlOK
<1>2. /\ UNCHANGED <<slotVars, pc, dpc, lastDevice>>
      /\ gpc[g] \in {"unload", "comfy", "cleanup"}
  BY DEF GenUnload, GenComfyEnds, GenFinish
<1>3. /\ p \in GenPhases \cap GenCardPhases
      /\ {"unload", "comfy", "cleanup"} \subseteq GenCardPhases
  BY DEF GenPhases, GenCardPhases
<1>4. at'[g] = "in"
  BY <1>2, <1>3 DEF IInv, CardHeld, slotVars
<1>5. gen = g
  BY <1>2 DEF IInv, GenOwnsCard
<1>6. gen' = IF p = "ended" THEN None ELSE gen
  BY <1>1, <1>5 DEF GenUnload, GenComfyEnds, GenFinish
<1>7. gen' \in Gens \cup {None}
  BY <1>6 DEF IInv, ControlOK
<1>8. GenOwnsCard'
  BY <1>1, <1>2, <1>5, <1>6, GatewayAssumption DEF IInv, ControlOK, GenOwnsCard
<1>9. OllamaOK' /\ \A m \in Models : cache'[m] \subseteq cache[m]
  <2>1. CASE GenUnload(g)
    BY <2>1, GoneOK DEF GenUnload, IInv
  <2>2. CASE GenComfyEnds(g) \/ GenFinish(g)
    BY <2>2 DEF GenComfyEnds, GenFinish, IInv, OllamaOK, ollamaVars
  <2>3. QED
    BY <2>1, <2>2
<1>10. QED
  BY <1>1, <1>2, <1>3, <1>4, <1>7, <1>8, <1>9, GenOnSlot

LEMMA GenLeaveInv ==
  ASSUME IInv, NEW g \in Gens, GenLeave(g)
  PROVE  IInv'
<1>1. /\ UNCHANGED <<pc, dpc, gen, lastDevice, ollamaVars>> /\ gpc[g] = "ended"
      /\ Release(g) /\ gpc' = [gpc EXCEPT ![g] = "idle"]
  BY DEF GenLeave
<1>2. "idle" \in GenPhases \ GenCardPhases
  BY DEF GenPhases, GenCardPhases
<1>3. SlotStep(g) /\ at'[g] = "out"
  BY <1>1, ItsPlace, GatewayAssumption DEF SlotStep, IInv
<1>4. GenOwnsCard' /\ gen' \in Gens \cup {None}
  BY <1>1 DEF IInv, ControlOK, GenOwnsCard
<1>5. OllamaOK' /\ \A m \in Models : cache'[m] \subseteq cache[m]
  BY <1>1 DEF IInv, OllamaOK, ollamaVars
<1>6. QED
  BY <1>1, <1>2, <1>3, <1>4, <1>5, GenOnSlot

-----------------------------------------------------------------------------
(* The door, keep_alive and the restarts *)

\* Who has the slot doesn't change, and the caches only shrink.
LEMMA OffSlot ==
  ASSUME IInv, UNCHANGED <<slotVars, pc, gpc, gen, lastDevice>>,
         dpc' \in [Doors -> {"idle", "admitted", "chat"}],
         OllamaOK', \A m \in Models : cache'[m] \subseteq cache[m]
  PROVE  IInv'
<1>1. SlotInv'
  BY SlotStutter DEF IInv
<1>2. CardHeld'
  BY DEF IInv, CardHeld, slotVars, Queue
<1>3. ControlOK' /\ GenOwnsCard' /\ OnCardForDevice'
  BY DEF IInv, ControlOK, GenOwnsCard, DeviceOK, OnCardForDevice
<1>4. QED
  BY <1>1, <1>2, <1>3, CacheShrinks DEF IInv, DeviceOK

LEMMA DoorInv ==
  ASSUME IInv, NEW d \in Doors, DoorOpen(d) \/ DoorChat(d) \/ DoorEnds(d)
  PROVE  IInv'
<1>1. ModelOf[d] \in Models
  BY GatewayAssumption
<1>2. LoadModel(ModelOf[d]) \/ UNCHANGED ollamaVars
  BY DEF DoorOpen, DoorChat, DoorEnds
<1>3. OllamaOK' /\ \A m \in Models : cache'[m] \subseteq cache[m]
  BY <1>1, <1>2, LoadModelOK DEF IInv, OllamaOK, ollamaVars
<1>4. dpc' \in [Doors -> {"idle", "admitted", "chat"}]
  BY DEF DoorOpen, DoorChat, DoorEnds, IInv, ControlOK
<1>5. UNCHANGED <<slotVars, pc, gpc, gen, lastDevice>>
  BY DEF DoorOpen, DoorChat, DoorEnds
<1>6. QED
  BY <1>3, <1>4, <1>5, OffSlot

LEMMA KeepAliveInv ==
  ASSUME IInv, NEW m \in Models, KeepAliveEnds(m)
  PROVE  IInv'
<1>1. OllamaOK' /\ \A x \in Models : cache'[x] \subseteq cache[x]
  BY GoneOK DEF KeepAliveEnds, IInv
<1>2. /\ UNCHANGED <<slotVars, pc, gpc, gen, lastDevice>>
      /\ dpc' \in [Doors -> {"idle", "admitted", "chat"}]
  BY DEF KeepAliveEnds, IInv, ControlOK
<1>3. QED
  BY <1>1, <1>2, OffSlot

\* The gateway forgets everything, and so does what it knows of the caches.
LEMMA GatewayRestartsInv ==
  ASSUME IInv, GatewayRestarts
  PROVE  IInv'
<1>1. SlotInv'
  BY SlotRestart DEF GatewayRestarts, SlotInit
<1>2. ControlOK'
  BY DEF GatewayRestarts, ControlOK, Phases, GenPhases
<1>3. CardHeld'
  BY GatewayAssumption DEF GatewayRestarts, CardHeld, CardPhases, GenCardPhases, Queue
<1>4. GenOwnsCard'
  BY GatewayAssumption DEF GatewayRestarts, GenOwnsCard
<1>5. OllamaOK'
  BY DEF GatewayRestarts, IInv, OllamaOK
<1>6. DeviceOK'
  BY DEF GatewayRestarts, DeviceOK, OnCardForDevice, IsolationThisRun, DevicePhases
<1>7. QED
  BY <1>1, <1>2, <1>3, <1>4, <1>5, <1>6 DEF IInv

\* Ollama forgets everything; who has the slot still has it.
LEMMA OllamaRestartsInv ==
  ASSUME IInv, OllamaRestarts
  PROVE  IInv'
<1>1. OllamaOK' /\ \A m \in Models : cache'[m] \subseteq cache[m]
  BY GoneOK DEF OllamaRestarts, IInv
<1>2. UNCHANGED <<slotVars, gpc, gen, lastDevice>>
  BY DEF OllamaRestarts
<1>3. \A r \in Requests : /\ pc'[r] \in CardPhases <=> pc[r] \in CardPhases
                          /\ pc'[r] = "queue" <=> pc[r] = "queue"
                          /\ pc'[r] \in DevicePhases => pc[r] \in DevicePhases
  BY DEF OllamaRestarts, CardPhases, DevicePhases
<1>4. SlotInv' /\ GenOwnsCard'
  BY <1>2, SlotStutter DEF IInv, GenOwnsCard
<1>5. ControlOK'
  BY <1>2 DEF OllamaRestarts, IInv, ControlOK, Phases, CardPhases
<1>6. CardHeld'
  BY <1>2, <1>3 DEF IInv, CardHeld, slotVars, Queue
<1>7. OnCardForDevice'
  BY <1>2, <1>3 DEF IInv, DeviceOK, OnCardForDevice
<1>8. QED
  BY <1>1, <1>2, <1>4, <1>5, <1>6, <1>7, CacheShrinks DEF IInv, DeviceOK

-----------------------------------------------------------------------------
(* The theorems *)

LEMMA InitInv ==
  ASSUME Init
  PROVE  IInv
<1>1. SlotInv
  BY SlotStart DEF Init
<1>2. ControlOK
  BY DEF Init, ControlOK, Phases, GenPhases
<1>3. CardHeld
  BY GatewayAssumption DEF Init, SlotInit, CardHeld, CardPhases, GenCardPhases, Queue
<1>4. GenOwnsCard
  BY GatewayAssumption DEF Init, GenOwnsCard
<1>5. OllamaOK
  BY DEF Init, OllamaOK
<1>6. DeviceOK
  BY DEF Init, DeviceOK, OnCardForDevice, IsolationThisRun, DevicePhases
<1>7. QED
  BY <1>1, <1>2, <1>3, <1>4, <1>5, <1>6 DEF IInv

LEMMA StepInv ==
  ASSUME IInv, [Next]_vars
  PROVE  IInv'
<1>1. CASE UNCHANGED vars
  <2>1. OllamaOK' /\ \A m \in Models : cache'[m] \subseteq cache[m]
    BY <1>1 DEF vars, ollamaVars, IInv, OllamaOK
  <2>2. /\ UNCHANGED <<slotVars, pc, gpc, gen, lastDevice>>
        /\ dpc' \in [Doors -> {"idle", "admitted", "chat"}]
    BY <1>1 DEF vars, IInv, ControlOK
  <2>3. QED
    BY <2>1, <2>2, OffSlot
<1>2. ASSUME NEW r \in Requests,
             Arrive(r) \/ Acquire(r) \/ WaitOver(r) \/ WaitOn(r) \/ OutOfTime(r) \/ OnCard(r)
      PROVE  IInv'
  BY <1>2, ArriveInv, AcquireInv, WaitOverInv, StillWaitingInv, LeaveInv, SwitchDeviceInv,
     MakeRoomInv, LoadInv, CheckInv, UnloadJobInv, RelayInv, RelayEndsInv DEF OnCard
<1>3. ASSUME NEW g \in Gens, GenAsk(g) \/ GenWork(g)
      PROVE  IInv'
  BY <1>3, GenAskInv, GenSlotInv, GenStartInv, GenWorkerInv, GenLeaveInv DEF GenWork
<1>4. ASSUME NEW d \in Doors, DoorOpen(d) \/ DoorChat(d) \/ DoorEnds(d)
      PROVE  IInv'
  BY <1>4, DoorInv
<1>5. ASSUME NEW m \in Models, KeepAliveEnds(m)
      PROVE  IInv'
  BY <1>5, KeepAliveInv
<1>6. QED
  BY <1>1, <1>2, <1>3, <1>4, <1>5, GatewayRestartsInv, OllamaRestartsInv DEF Next

\* The inductive invariant holds of every behaviour.
THEOREM Inductive == Spec => []IInv
<1>1. Init => IInv
  BY InitInv
<1>2. IInv /\ [Next]_vars => IInv'
  BY StepInv
<1>3. QED
  BY <1>1, <1>2, PTL DEF Spec

\* Type correctness of the gateway.
THEOREM TypeCorrect == Spec => []TypeOK
<1>1. IInv => TypeOK
  BY DEF IInv, SlotInv, ControlOK, OllamaOK, DeviceOK, TypeOK
<1>2. QED
  BY <1>1, Inductive, PTL

\* One job has the slot, whatever waits, times out, fails or restarts.
THEOREM SlotIsExclusive == Spec => []SlotExclusive
<1>1. IInv => SlotExclusive
  BY DEF IInv, SlotInv
<1>2. QED
  BY <1>1, Inductive, PTL

\* The counters are the threads, and at most queue_max wait.
THEOREM QueueIsCounted == Spec => [](SlotCounts /\ SlotBounded)
<1>1. IInv => SlotCounts /\ SlotBounded
  BY DEF IInv, SlotInv
<1>2. QED
  BY <1>1, Inductive, PTL

\* No thread sleeps on a free slot with nobody awake to take it.
THEOREM NoLostWakeup == Spec => []SlotNoLostWakeup
<1>1. IInv => SlotNoLostWakeup
  BY DEF IInv, SlotInv
<1>2. QED
  BY <1>1, Inductive, PTL

\* Every way through model_job, unload_job and _run takes the slot once and
\* gives it back once.
THEOREM SlotComesBack == Spec => [](CardHeld /\ GenOwnsCard)
<1>1. IInv => CardHeld /\ GenOwnsCard
  BY DEF IInv
<1>2. QED
  BY <1>1, Inductive, PTL

\* No model remembers a prompt this process sent for another device.
THEOREM DevicesAreIsolated == Spec => []IsolationThisRun
<1>1. IInv => IsolationThisRun
  BY DEF IInv, DeviceOK
<1>2. QED
  BY <1>1, Inductive, PTL

-----------------------------------------------------------------------------
(* The gateway implements module Card *)

\* CardHolder is the thread that has the slot.
LEMMA HolderIs ==
  /\ Holders = {} => CardHolder = None
  /\ \A t \in Threads : Holders = {t} => CardHolder = t
<1>1. ASSUME NEW t \in Threads, Holders = {t}
      PROVE  CardHolder = t
  <2>1. \A u \in Threads : at[u] = "in" <=> u = t
    BY <1>1 DEF Holders
  <2>2. QED
    BY <1>1, <2>1 DEF CardHolder
<1>2. QED
  BY <1>1 DEF CardHolder

LEMMA HolderIsNext ==
  /\ Holders' = {} => CardHolder' = None
  /\ \A t \in Threads : Holders' = {t} => CardHolder' = t
<1>1. ASSUME NEW t \in Threads, Holders' = {t}
      PROVE  CardHolder' = t
  <2>1. \A u \in Threads : at'[u] = "in" <=> u = t
    BY <1>1 DEF Holders
  <2>2. QED
    BY <1>1, <2>1 DEF CardHolder
<1>2. QED
  BY <1>1 DEF CardHolder

\* Caches that shrink are prompts the card forgets.
LEMMA PromptsShrink ==
  ASSUME \A m \in Models : cache'[m] \subseteq cache[m]
  PROVE  CardPrompts' \in SUBSET CardPrompts
  BY DEF CardPrompts

\* A step that leaves the slot's holder alone forgets, or does nothing.
LEMMA ForgetStep ==
  ASSUME UNCHANGED Holders, UNCHANGED at,
         \A m \in Models : cache'[m] \subseteq cache[m]
  PROVE  [Promise!Next]_<<CardHolder, CardPrompts>>
  BY PromptsShrink DEF Promise!Next, Promise!Forget, CardHolder, Holders

\* A thread takes the slot.
LEMMA TakeStep ==
  ASSUME SlotInv, NEW t \in Threads, AcquireNow(t) \/ WakeTake(t), UNCHANGED cache
  PROVE  [Promise!Next]_<<CardHolder, CardPrompts>>
<1>1. Holders = {} /\ Holders' = {t}
  BY DEF SlotInv, SlotTypeOK, SlotExclusive, Holders, AcquireNow, WakeTake
<1>2. CardHolder = None /\ CardHolder' = t
  BY <1>1, HolderIs, HolderIsNext
<1>3. CardPrompts' = CardPrompts
  BY DEF CardPrompts
<1>4. QED
  BY <1>2, <1>3 DEF Promise!Next, Promise!Take

\* The holder gives it back.
LEMMA GiveStep ==
  ASSUME SlotInv, NEW t \in Threads, Release(t), UNCHANGED cache
  PROVE  [Promise!Next]_<<CardHolder, CardPrompts>>
<1>1. Holders = {t} /\ Holders' = {}
  BY DEF SlotInv, SlotTypeOK, SlotExclusive, Holders, Release, Asleep
<1>2. CardHolder = t /\ CardHolder' = None
  BY <1>1, HolderIs, HolderIsNext
<1>3. CardPrompts' = CardPrompts
  BY DEF CardPrompts
<1>4. QED
  BY <1>2, <1>3 DEF Promise!Next, Promise!Give

\* Any other move in acquire: nobody begins or stops holding it.
LEMMA WaitStep ==
  ASSUME SlotInv, NEW t \in Threads, UNCHANGED cache,
         \/ AcquireFull(t) \/ AcquireWait(t) \/ Deadline(t)
         \/ WakeTimeout(t) \/ WakeAgain(t)
  PROVE  [Promise!Next]_<<CardHolder, CardPrompts>>
<1>1. \A u \in Threads : at'[u] = "in" <=> at[u] = "in"
  BY DEF SlotInv, SlotTypeOK, Queue, AcquireFull, slotVars, AcquireWait, Deadline,
     WakeTimeout, WakeAgain
<1>2. Holders' = Holders
  BY <1>1 DEF Holders
<1>3. CardHolder' = CardHolder
  <2>1. CASE Holders = {}
    BY <1>2, <2>1, HolderIs, HolderIsNext
  <2>2. ASSUME NEW h \in Threads, Holders = {h}
        PROVE  CardHolder' = CardHolder
    BY <1>2, <2>2, HolderIs, HolderIsNext
  <2>3. Holders # {} => \E h \in Threads : Holders = {h}
    BY DEF SlotInv, SlotExclusive, Holders
  <2>4. QED
    BY <2>1, <2>2, <2>3
<1>4. CardPrompts' = CardPrompts
  BY DEF CardPrompts
<1>5. QED
  BY <1>3, <1>4

\* The holder's prompt goes to a card that knows no other device's.
LEMMA RunStep ==
  ASSUME IInv, NEW r \in Requests, Relay(r)
  PROVE  [Promise!Next]_<<CardHolder, CardPrompts>>
<1>1. r \in Threads /\ ModelOf[r] \in Models /\ DeviceOf[r] \in Devices
  BY GatewayAssumption
<1>2. pc[r] = "run" /\ UNCHANGED slotVars
  BY DEF Relay
<1>3. Holders = {r} /\ Holders' = {r}
  BY <1>1, <1>2 DEF IInv, CardHeld, CardPhases, SlotInv, SlotExclusive, Holders, slotVars
<1>4. CardHolder = r /\ CardHolder' = r
  BY <1>1, <1>3, HolderIs, HolderIsNext
<1>5. lastDevice = DeviceOf[r]
  BY <1>2 DEF IInv, DeviceOK, OnCardForDevice, DevicePhases
<1>6. CardPrompts \subseteq {DeviceOf[r]}
  BY <1>5 DEF IInv, DeviceOK, IsolationThisRun, CardPrompts
<1>7. /\ cache'[ModelOf[r]] = cache[ModelOf[r]] \cup {DeviceOf[r]} \/ cache'[ModelOf[r]] = {DeviceOf[r]}
      /\ \A m \in Models : cache'[m] \subseteq cache[m] \cup {DeviceOf[r]}
  <2>1. CASE cache' = [cache EXCEPT ![ModelOf[r]] = @ \cup {DeviceOf[r]}]
    BY <1>1, <2>1 DEF IInv, OllamaOK
  <2>2. CASE LoadFresh(ModelOf[r], {DeviceOf[r]})
    BY <1>1, <2>2, LoadFreshOK DEF IInv
  <2>3. QED
    BY <2>1, <2>2 DEF Relay
<1>8. CardPrompts' = {DeviceOf[r]}
  BY <1>1, <1>6, <1>7 DEF CardPrompts
<1>9. QED
  BY <1>1, <1>4, <1>6, <1>8 DEF Promise!Next, Promise!Run

\* The holder loses the card with the process, if there was one.
LEMMA RestartStep ==
  ASSUME IInv, GatewayRestarts
  PROVE  [Promise!Next]_<<CardHolder, CardPrompts>>
<1>1. Holders' = {} /\ CardPrompts' = {}
  BY DEF GatewayRestarts, Holders, CardPrompts
<1>2. CardHolder' = None
  BY <1>1, HolderIsNext
<1>3. CASE Holders = {}
  BY <1>1, <1>2, <1>3, HolderIs DEF Promise!Next, Promise!Forget
<1>4. ASSUME NEW h \in Threads, Holders = {h}
      PROVE  [Promise!Next]_<<CardHolder, CardPrompts>>
  BY <1>1, <1>2, <1>4, HolderIs DEF Promise!Next, Promise!Give
<1>5. Holders # {} => \E h \in Threads : Holders = {h}
  BY DEF IInv, SlotInv, SlotExclusive, Holders
<1>6. QED
  BY <1>3, <1>4, <1>5

\* Every step of the gateway is a step of Card, or none.
LEMMA StepKeepsPromise ==
  ASSUME IInv, [Next]_vars
  PROVE  [Promise!Next]_<<CardHolder, CardPrompts>>
<1>0. Threads = Requests \cup Gens /\ SlotInv /\ OllamaOK
  BY GatewayAssumption DEF IInv
<1>1. CASE UNCHANGED vars
  BY <1>1, ForgetStep DEF vars, slotVars, ollamaVars, Holders
<1>2. ASSUME NEW r \in Requests, Arrive(r) \/ Acquire(r) \/ WaitOver(r) \/ WaitOn(r)
                                 \/ OutOfTime(r) \/ Leave(r)
      PROVE  [Promise!Next]_<<CardHolder, CardPrompts>>
  <2>1. CASE Arrive(r)
    BY <2>1, ForgetStep DEF Arrive, slotVars, ollamaVars, Holders
  <2>2. UNCHANGED cache
    BY <1>2 DEF Arrive, Acquire, WaitOver, WaitOn, OutOfTime, Leave, ollamaVars
  <2>3. CASE Acquire(r) \/ WaitOver(r)
    BY <1>0, <2>2, <2>3, TakeStep, WaitStep DEF Acquire, WaitOver
  <2>4. CASE WaitOn(r) \/ OutOfTime(r)
    BY <1>0, <2>2, <2>4, WaitStep DEF WaitOn, OutOfTime
  <2>5. CASE Leave(r)
    BY <1>0, <2>2, <2>5, GiveStep DEF Leave
  <2>6. QED
    BY <1>2, <2>1, <2>3, <2>4, <2>5
<1>3. ASSUME NEW r \in Requests, OnCard(r)
      PROVE  [Promise!Next]_<<CardHolder, CardPrompts>>
  <2>1. CASE Relay(r)
    BY <2>1, RunStep
  <2>2. CASE Leave(r)
    BY <1>2, <2>2
  <2>3. CASE \/ SwitchDevice(r) \/ MakeRoom(r) \/ WarmLoad(r) \/ CheckPlacement(r)
             \/ SettleLoad(r) \/ SettleCheck(r) \/ RelayEnds(r) \/ UnloadJob(r)
    <3>1. UNCHANGED slotVars
      BY <2>3 DEF SwitchDevice, MakeRoom, WarmLoad, CheckPlacement, SettleLoad,
         SettleCheck, RelayEnds, UnloadJob
    <3>2. \/ UNCHANGED ollamaVars
          \/ \E gone : Gone(gone)
          \/ LoadModel(ModelOf[r])
      BY <2>3 DEF SwitchDevice, MakeRoom, WarmLoad, CheckPlacement, SettleLoad,
         SettleCheck, RelayEnds, UnloadJob
    <3>3. \A m \in Models : cache'[m] \subseteq cache[m]
      BY <1>0, <3>2, GoneOK, LoadModelOK, GatewayAssumption DEF ollamaVars
    <3>4. QED
      BY <3>1, <3>3, ForgetStep DEF slotVars, Holders
  <2>4. QED
    BY <1>3, <2>1, <2>2, <2>3 DEF OnCard
<1>4. ASSUME NEW g \in Gens, GenAsk(g) \/ GenWork(g)
      PROVE  [Promise!Next]_<<CardHolder, CardPrompts>>
  <2>1. CASE GenSlot(g) \/ GenStart(g) \/ GenLeave(g)
    <3>1. UNCHANGED cache
      BY <2>1 DEF GenSlot, GenStart, GenLeave, ollamaVars
    <3>2. CASE UNCHANGED slotVars
      BY <3>1, <3>2, ForgetStep DEF slotVars, Holders
    <3>3. CASE AcquireNow(g)
      BY <1>0, <3>1, <3>3, TakeStep
    <3>4. CASE Release(g)
      BY <1>0, <3>1, <3>4, GiveStep
    <3>5. QED
      BY <2>1, <3>2, <3>3, <3>4 DEF GenSlot, GenStart, GenLeave
  <2>2. CASE GenAsk(g) \/ GenUnload(g) \/ GenComfyEnds(g) \/ GenFinish(g)
    <3>1. UNCHANGED slotVars
      BY <2>2 DEF GenAsk, GenUnload, GenComfyEnds, GenFinish
    <3>2. UNCHANGED ollamaVars \/ \E gone : Gone(gone)
      BY <2>2 DEF GenAsk, GenUnload, GenComfyEnds, GenFinish
    <3>3. \A m \in Models : cache'[m] \subseteq cache[m]
      BY <1>0, <3>2, GoneOK DEF ollamaVars
    <3>4. QED
      BY <3>1, <3>3, ForgetStep DEF slotVars, Holders
  <2>3. QED
    BY <1>4, <2>1, <2>2 DEF GenWork
<1>5. ASSUME \/ \E d \in Doors : DoorOpen(d) \/ DoorChat(d) \/ DoorEnds(d)
             \/ \E m \in Models : KeepAliveEnds(m)
             \/ OllamaRestarts
      PROVE  [Promise!Next]_<<CardHolder, CardPrompts>>
  <2>1. UNCHANGED slotVars
    BY <1>5 DEF DoorOpen, DoorChat, DoorEnds, KeepAliveEnds, OllamaRestarts
  <2>2. \/ UNCHANGED ollamaVars
        \/ \E gone : Gone(gone)
        \/ \E d \in Doors : LoadModel(ModelOf[d])
    BY <1>5 DEF DoorOpen, DoorChat, DoorEnds, KeepAliveEnds, OllamaRestarts
  <2>3. \A m \in Models : cache'[m] \subseteq cache[m]
    BY <1>0, <2>2, GoneOK, LoadModelOK, GatewayAssumption DEF ollamaVars
  <2>4. QED
    BY <2>1, <2>3, ForgetStep DEF slotVars, Holders
<1>6. QED
  BY <1>1, <1>2, <1>3, <1>4, <1>5, RestartStep DEF Next

\* The gateway keeps the promise of module Card: one holder at a time, and no
\* prompt on a card that remembers another device's.
THEOREM PromiseKept == Spec => KeepsPromise
<1>1. Init => Promise!Init
  <2>1. ASSUME Init
        PROVE  Holders = {} /\ CardPrompts = {}
    BY <2>1 DEF Init, SlotInit, Holders, CardPrompts
  <2>2. QED
    BY <2>1, HolderIs DEF Promise!Init
<1>2. IInv /\ [Next]_vars => [Promise!Next]_<<CardHolder, CardPrompts>>
  BY StepKeepsPromise
<1>3. QED
  BY <1>1, <1>2, Inductive, PTL DEF Spec, KeepsPromise, Promise!Spec, Promise!cardVars
-----------------------------------------------------------------------------
(* What is on the card with the model that answers *)

\* From make_room's success to the end of the answer.
RoomPhases == {"load", "place", "settle", "recheck", "run", "relay"}

\* make_room's postcondition: a ram model has the machine for itself, and
\* beside a GPU-only model there is no ram model.
HasRoom(r) == IF ModelOf[r] \in RamModels THEN loaded \subseteq {ModelOf[r]}
                                          ELSE loaded \cap RamModels = {}

\* It stays so: only the request that has the slot loads, and loads its model.
RoomOK ==
  \A r \in Requests : /\ pc[r] \in RoomPhases => HasRoom(r)
                      /\ pc[r] = "relay" => ModelOf[r] \in loaded

\* A chat that may not spill.
MustFit(r) == KindOf[r] = "chat" /\ ModelOf[r] \notin RamModels

\* What check_placement saw is true until the answer ends: between the check
\* and the request to Ollama nothing else is loaded, and the model doesn't go.
FitOK ==
  \A r \in Requests : MustFit(r) =>
    /\ pc[r] = "run" => ModelOf[r] \in loaded \ spilled
    /\ pc[r] = "relay" => ModelOf[r] \notin spilled

\* One request at most is on the card.
LEMMA OthersOffCard ==
  ASSUME IInv, NEW r \in Requests, pc[r] \in CardPhases
  PROVE  \A q \in Requests \ {r} : pc[q] \notin CardPhases
<1> SUFFICES ASSUME NEW q \in Requests, pc[q] \in CardPhases
             PROVE  q = r
  OBVIOUS
<1>1. r \in Holders /\ q \in Holders
  BY GatewayAssumption DEF IInv, CardHeld, Holders
<1>2. QED
  BY <1>1 DEF IInv, SlotInv, SlotExclusive

\* Nor is any while a generation job has the slot.
LEMMA RequestsOffCard ==
  ASSUME IInv, NEW g \in Gens, gpc[g] \in GenCardPhases
  PROVE  \A q \in Requests : pc[q] \notin CardPhases
<1> SUFFICES ASSUME NEW q \in Requests, pc[q] \in CardPhases
             PROVE  q = g
  BY GatewayAssumption
<1>1. g \in Holders /\ q \in Holders
  BY GatewayAssumption DEF IInv, CardHeld, Holders
<1>2. QED
  BY <1>1 DEF IInv, SlotInv, SlotExclusive

\* Where each step on the card starts and ends.
LEMMA OnCardMoves ==
  ASSUME IInv, NEW r \in Requests, OnCard(r)
  PROVE  /\ pc[r] \in CardPhases
         /\ \A q \in Requests \ {r} : pc'[q] = pc[q] /\ pc[q] \notin CardPhases
<1>1. pc[r] \in CardPhases
  BY DEF OnCard, SwitchDevice, MakeRoom, WarmLoad, CheckPlacement, SettleLoad, SettleCheck,
     Relay, RelayEnds, UnloadJob, Leave, CardPhases
<1>2. PICK p : pc' = [pc EXCEPT ![r] = p]
  <2>1. CASE SwitchDevice(r) \/ MakeRoom(r) \/ WarmLoad(r)
    BY <2>1 DEF SwitchDevice, MakeRoom, WarmLoad
  <2>2. CASE CheckPlacement(r) \/ SettleLoad(r) \/ SettleCheck(r)
    BY <2>2 DEF CheckPlacement, SettleLoad, SettleCheck
  <2>3. CASE Relay(r) \/ RelayEnds(r) \/ UnloadJob(r) \/ Leave(r)
    BY <2>3 DEF Relay, RelayEnds, UnloadJob, Leave
  <2>4. QED
    BY <2>1, <2>2, <2>3 DEF OnCard
<1>3. \A q \in Requests \ {r} : pc'[q] = pc[q]
  BY <1>2 DEF IInv, ControlOK
<1>4. QED
  BY <1>1, <1>3, OthersOffCard

\* A load brings the model and nothing else.
LEMMA LoadedAfter ==
  ASSUME OllamaOK, NEW m \in Models,
         LoadModel(m) \/ \E brought : LoadFresh(m, brought)
  PROVE  /\ loaded' \subseteq loaded \cup {m}
         /\ m \in loaded'
<1>1. CASE m \in loaded /\ UNCHANGED ollamaVars
  BY <1>1 DEF ollamaVars
<1>2. ASSUME NEW brought, LoadFresh(m, brought)
      PROVE  loaded' \subseteq loaded \cup {m} /\ m \in loaded'
  BY <1>2 DEF LoadFresh
<1>3. QED
  BY <1>1, <1>2 DEF LoadModel

\* Models only go, and no request gets further.
LEMMA RoomStays ==
  ASSUME RoomOK, loaded' \subseteq loaded,
         \A q \in Requests : /\ pc'[q] \in RoomPhases => pc[q] \in RoomPhases
                             /\ pc'[q] = "relay" => pc[q] = "relay" /\ ModelOf[q] \in loaded'
  PROVE  RoomOK'
  BY DEF RoomOK, HasRoom

\* A step of the request that has the slot.
LEMMA RoomOnCard ==
  ASSUME IInv, NEW r \in Requests, OnCard(r),
         pc'[r] \in RoomPhases => HasRoom(r)',
         pc'[r] = "relay" => ModelOf[r] \in loaded'
  PROVE  RoomOK'
<1>1. \A q \in Requests \ {r} : pc'[q] \notin RoomPhases
  BY OnCardMoves DEF RoomPhases, CardPhases
<1>2. QED
  BY <1>1 DEF RoomOK, HasRoom, RoomPhases

\* What isn't in use, and nothing else, can go.
LEMMA RelayedStays ==
  ASSUME RoomOK, NEW gone, gone \cap InUse = {}, Gone(gone)
  PROVE  /\ loaded' \subseteq loaded /\ spilled' \subseteq spilled
         /\ \A q \in Requests : pc[q] = "relay" => ModelOf[q] \in loaded'
<1>1. \A q \in Requests : pc[q] = "relay" => ModelOf[q] \in InUse /\ ModelOf[q] \in loaded
  BY DEF InUse, RoomOK
<1>2. QED
  BY <1>1 DEF Gone

\* make_room establishes it, a load adds the model it was made for.
LEMMA OnCardRoom ==
  ASSUME IInv, RoomOK, NEW r \in Requests, OnCard(r)
  PROVE  RoomOK'
<1>0. OllamaOK /\ ModelOf[r] \in Models /\ pc \in [Requests -> Phases]
  BY GatewayAssumption DEF IInv, ControlOK
<1>1. CASE SwitchDevice(r)
  BY <1>0, <1>1, RoomOnCard DEF SwitchDevice, RoomPhases
<1>2. CASE MakeRoom(r)
  <2>1. PICK gone \in SUBSET (Victims(r) \ InUse) :
          /\ Gone(gone)
          /\ \/ gone = Victims(r) /\ pc' = [pc EXCEPT ![r] = "load"]
             \/ pc' = [pc EXCEPT ![r] = "leave"]
    BY <1>2 DEF MakeRoom
  <2>2. CASE gone = Victims(r) /\ pc' = [pc EXCEPT ![r] = "load"]
    <3>1. loaded' = loaded \ Victims(r)
      BY <2>1, <2>2 DEF Gone
    <3>2. HasRoom(r)'
      BY <3>1 DEF Victims, HasRoom
    <3>3. QED
      BY <1>0, <2>2, <3>2, RoomOnCard
  <2>3. CASE pc' = [pc EXCEPT ![r] = "leave"]
    BY <1>0, <2>3, RoomOnCard DEF RoomPhases
  <2>4. QED
    BY <2>1, <2>2, <2>3
<1>3. CASE WarmLoad(r) \/ SettleLoad(r)
  <2>1. pc[r] \in RoomPhases /\ pc'[r] # "relay"
    BY <1>0, <1>3 DEF WarmLoad, SettleLoad, RoomPhases
  <2>2. HasRoom(r)
    BY <2>1 DEF RoomOK
  <2>3. loaded' \subseteq loaded \cup {ModelOf[r]}
    BY <1>0, <1>3, LoadedAfter DEF WarmLoad, SettleLoad, ollamaVars
  <2>4. HasRoom(r)'
    BY <2>2, <2>3 DEF HasRoom
  <2>5. QED
    BY <2>1, <2>4, RoomOnCard
<1>4. CASE CheckPlacement(r) \/ SettleCheck(r)
  <2>1. pc[r] \in RoomPhases /\ pc'[r] # "relay"
    BY <1>0, <1>4 DEF CheckPlacement, SettleCheck, Placed, RoomPhases
  <2>2. loaded' \subseteq loaded
    BY <1>4 DEF CheckPlacement, SettleCheck, Gone, ollamaVars
  <2>3. HasRoom(r)'
    BY <2>1, <2>2 DEF RoomOK, HasRoom
  <2>4. QED
    BY <2>1, <2>3, RoomOnCard
<1>5. CASE Relay(r)
  <2>1. pc[r] \in RoomPhases
    BY <1>5 DEF Relay, RoomPhases
  <2>2. loaded' \subseteq loaded \cup {ModelOf[r]} /\ ModelOf[r] \in loaded'
    BY <1>0, <1>5, LoadedAfter DEF Relay
  <2>3. HasRoom(r)'
    BY <2>1, <2>2 DEF RoomOK, HasRoom
  <2>4. QED
    BY <2>2, <2>3, RoomOnCard
<1>6. CASE RelayEnds(r)
  <2>1. pc[r] \in RoomPhases /\ pc'[r] # "relay" /\ loaded' = loaded
    BY <1>0, <1>6 DEF RelayEnds, RoomPhases, ollamaVars
  <2>2. HasRoom(r)'
    BY <2>1 DEF RoomOK, HasRoom
  <2>3. QED
    BY <2>1, <2>2, RoomOnCard
<1>7. CASE UnloadJob(r) \/ Leave(r)
  <2>1. pc'[r] \notin RoomPhases /\ pc'[r] # "relay"
    BY <1>0, <1>7 DEF UnloadJob, Leave, RoomPhases
  <2>2. QED
    BY <2>1, RoomOnCard
<1>8. QED
  BY <1>1, <1>2, <1>3, <1>4, <1>5, <1>6, <1>7 DEF OnCard

\* Everything else leaves loaded alone, or unloads what isn't in use.
LEMMA StepRoom ==
  ASSUME Doors = {}, IInv, RoomOK, [Next]_vars
  PROVE  RoomOK'
<1>1. ASSUME NEW r \in Requests,
             Arrive(r) \/ Acquire(r) \/ WaitOver(r) \/ WaitOn(r) \/ OutOfTime(r)
      PROVE  RoomOK'
  <2>1. loaded' = loaded
    BY <1>1 DEF Arrive, Acquire, WaitOver, WaitOn, OutOfTime, ollamaVars
  <2>2. \A q \in Requests : pc'[q] = pc[q] \/ pc'[q] \notin RoomPhases
    BY <1>1 DEF IInv, ControlOK, Arrive, Acquire, WaitOver, WaitOn, OutOfTime, FirstOnCard,
       RoomPhases
  <2>3. QED
    BY <2>1, <2>2 DEF RoomOK, HasRoom, RoomPhases
<1>2. ASSUME \/ UNCHANGED vars
             \/ \E g \in Gens : GenAsk(g) \/ GenWork(g)
             \/ \E m \in Models : KeepAliveEnds(m)
      PROVE  RoomOK'
  <2>1. UNCHANGED pc
    BY <1>2 DEF vars, GenAsk, GenWork, GenSlot, GenStart, GenUnload, GenComfyEnds, GenFinish,
       GenLeave, KeepAliveEnds
  <2>2. UNCHANGED loaded \/ \E gone : gone \cap InUse = {} /\ Gone(gone)
    <3>1. CASE \E m \in Models : KeepAliveEnds(m)
      BY <3>1 DEF KeepAliveEnds
    <3>2. CASE \E g \in Gens : GenUnload(g)
      BY <3>2 DEF GenUnload
    <3>3. QED
      BY <1>2, <3>1, <3>2 DEF vars, ollamaVars, GenAsk, GenWork, GenSlot, GenStart,
         GenComfyEnds, GenFinish, GenLeave
  <2>3. CASE UNCHANGED loaded
    BY <2>1, <2>3 DEF RoomOK, HasRoom
  <2>4. ASSUME NEW gone, gone \cap InUse = {}, Gone(gone)
        PROVE  RoomOK'
    BY <2>1, <2>4, RelayedStays, RoomStays
  <2>5. QED
    BY <2>2, <2>3, <2>4
<1>3. CASE GatewayRestarts
  BY <1>3 DEF GatewayRestarts, RoomOK, RoomPhases
<1>4. CASE OllamaRestarts
  <2>1. loaded' = {}
    BY <1>4 DEF OllamaRestarts, Gone
  <2>2. \A q \in Requests : pc'[q] # "relay"
    BY <1>4 DEF OllamaRestarts
  <2>3. QED
    BY <2>1, <2>2 DEF RoomOK, HasRoom
<1>5. QED
  BY <1>1, <1>2, <1>3, <1>4, OnCardRoom DEF Next

\* A ram model answers alone and a GPU-only model beside no ram model, when
\* nothing comes through the door.
THEOREM RamModelsAlone == ASSUME Doors = {} PROVE Spec => []RamAlone
<1>1. Init => RoomOK
  BY DEF Init, RoomOK, RoomPhases
<1>2. IInv /\ RoomOK /\ [Next]_vars => RoomOK'
  BY StepRoom
<1>3. RoomOK => RamAlone
  BY DEF RoomOK, HasRoom, RoomPhases, RamAlone, Relaying
<1>4. QED
  BY <1>1, <1>2, <1>3, Inductive, PTL DEF Spec

\* A step of the request that has the slot.
LEMMA FitOnCard ==
  ASSUME IInv, NEW r \in Requests, OnCard(r),
         MustFit(r) => /\ pc'[r] = "run" => ModelOf[r] \in loaded' \ spilled'
                       /\ pc'[r] = "relay" => ModelOf[r] \notin spilled'
  PROVE  FitOK'
<1>1. \A q \in Requests \ {r} : pc'[q] \notin {"run", "relay"}
  BY OnCardMoves DEF CardPhases
<1>2. QED
  BY <1>1 DEF FitOK, MustFit

\* check_placement and the check after settling establish it, and the relay finds
\* the model loaded.
LEMMA OnCardFit ==
  ASSUME IInv, FitOK, NEW r \in Requests, OnCard(r)
  PROVE  FitOK'
<1>0. /\ OllamaOK /\ ModelOf[r] \in Models /\ pc \in [Requests -> Phases]
      /\ MustFit(r) => KindOf[r] = "chat" /\ ModelOf[r] \notin RamModels
  BY GatewayAssumption DEF IInv, ControlOK, MustFit
<1>1. CASE \/ SwitchDevice(r) \/ MakeRoom(r) \/ SettleLoad(r) \/ RelayEnds(r)
           \/ UnloadJob(r) \/ Leave(r)
  <2>1. pc'[r] \notin {"run", "relay"}
    BY <1>0, <1>1 DEF SwitchDevice, MakeRoom, SettleLoad, RelayEnds, UnloadJob, Leave
  <2>2. QED
    BY <2>1, FitOnCard
<1>2. CASE WarmLoad(r)
  <2>1. MustFit(r) => pc'[r] \notin {"run", "relay"}
    BY <1>0, <1>2 DEF WarmLoad
  <2>2. QED
    BY <2>1, FitOnCard
<1>3. CASE CheckPlacement(r) \/ SettleCheck(r)
  <2>1. pc'[r] # "relay"
    BY <1>0, <1>3 DEF CheckPlacement, SettleCheck, Placed
  <2>2. MustFit(r) /\ pc'[r] = "run" => ModelOf[r] \in loaded' \ spilled'
    BY <1>0, <1>3 DEF CheckPlacement, SettleCheck, ollamaVars
  <2>3. QED
    BY <2>1, <2>2, FitOnCard
<1>4. CASE Relay(r)
  <2>1. pc'[r] = "relay" /\ pc[r] = "run"
    BY <1>0, <1>4 DEF Relay
  <2>2. MustFit(r) => ModelOf[r] \in loaded \ spilled
    BY <2>1 DEF FitOK
  <2>3. MustFit(r) => spilled' = spilled
    BY <1>4, <2>2 DEF Relay, LoadFresh
  <2>4. QED
    BY <2>1, <2>2, <2>3, FitOnCard
<1>5. QED
  BY <1>1, <1>2, <1>3, <1>4 DEF OnCard

\* Off the card nothing that fits is touched: keep_alive leaves it, and so does a
\* generation job, which has the slot itself.
LEMMA StepFit ==
  ASSUME Doors = {}, "ollama" \notin Faults, IInv, FitOK, [Next]_vars
  PROVE  FitOK'
<1>1. ASSUME NEW r \in Requests,
             Arrive(r) \/ Acquire(r) \/ WaitOver(r) \/ WaitOn(r) \/ OutOfTime(r)
      PROVE  FitOK'
  <2>1. UNCHANGED <<loaded, spilled>>
    BY <1>1 DEF Arrive, Acquire, WaitOver, WaitOn, OutOfTime, ollamaVars
  <2>2. \A q \in Requests : pc'[q] = pc[q] \/ pc'[q] \notin {"run", "relay"}
    BY <1>1 DEF IInv, ControlOK, Arrive, Acquire, WaitOver, WaitOn, OutOfTime, FirstOnCard
  <2>3. QED
    BY <2>1, <2>2 DEF FitOK, MustFit
<1>2. ASSUME UNCHANGED <<pc, loaded, spilled>>
      PROVE  FitOK'
  BY <1>2 DEF FitOK, MustFit
<1>3. ASSUME NEW g \in Gens, GenAsk(g) \/ GenWork(g)
      PROVE  FitOK'
  <2>1. CASE GenUnload(g)
    <3>1. gpc[g] \in GenCardPhases /\ UNCHANGED pc
      BY <2>1 DEF GenUnload, GenCardPhases
    <3>2. \A q \in Requests : pc'[q] \notin {"run", "relay"}
      BY <3>1, RequestsOffCard DEF CardPhases
    <3>3. QED
      BY <3>2 DEF FitOK
  <2>2. CASE ~GenUnload(g)
    BY <1>2, <1>3, <2>2 DEF GenAsk, GenWork, GenSlot, GenStart, GenComfyEnds, GenFinish,
       GenLeave, ollamaVars
  <2>3. QED
    BY <2>1, <2>2
<1>4. ASSUME NEW m \in Models, KeepAliveEnds(m)
      PROVE  FitOK'
  <2>1. /\ UNCHANGED pc /\ spilled' \subseteq spilled /\ loaded' = loaded \ {m}
        /\ \A q \in Requests : pc[q] = "run" => ModelOf[q] # m
    BY <1>4 DEF KeepAliveEnds, Gone
  <2>2. QED
    BY <2>1 DEF FitOK, MustFit
<1>5. CASE GatewayRestarts
  BY <1>5 DEF GatewayRestarts, FitOK
<1>6. ~OllamaRestarts
  BY DEF OllamaRestarts
<1>7. QED
  BY <1>1, <1>2, <1>3, <1>4, <1>5, <1>6, OnCardFit DEF Next, vars, ollamaVars

\* A chat on a GPU-only model runs from the card's memory, when nothing comes
\* through the door and Ollama isn't restarted between the check and the chat.
THEOREM ChatsRunOnGpu ==
  ASSUME Doors = {}, "ollama" \notin Faults
  PROVE  Spec => []GpuOnly
<1>1. Init => FitOK
  BY DEF Init, FitOK
<1>2. IInv /\ FitOK /\ [Next]_vars => FitOK'
  BY StepFit
<1>3. FitOK => GpuOnly
  BY DEF FitOK, MustFit, GpuOnly, Relaying
<1>4. QED
  BY <1>1, <1>2, <1>3, Inductive, PTL DEF Spec
=============================================================================
