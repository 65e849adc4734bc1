------------------------------ MODULE Gateway ------------------------------
(***************************************************************************)
(* ollama1/bin/ollama1-gateway: who is on the graphics card.  Chats,       *)
(* embeddings and unload requests of the paired devices, picture and video *)
(* jobs, and chats through the OpenAI-style door meet here.  Each signed   *)
(* request and each generation job is a thread; the slot (module Slot) is  *)
(* between them, the door goes past it.                                    *)
(*                                                                         *)
(* Ollama is outside: it is the set of models it holds, which of them      *)
(* spilled into system memory, and the devices whose prompts each one's    *)
(* cache still knows.                                                      *)
(***************************************************************************)
EXTENDS Slot

CONSTANTS
  Requests,   \* handler threads of signed model requests, each made again and again
  Gens,       \* picture and video jobs
  Doors,      \* handler threads of the OpenAI-style door
  Devices,    \* paired devices
  Models,     \* models Ollama has
  RamModels,  \* those the allow-list lets into system memory
  DeviceOf,   \* the device of a request or a generation job
  ModelOf,    \* the model of a request or of a door's chat
  KindOf,     \* "chat" (chat and generate), "embed" or "unload"
  None,       \* no device, no job
  Faults      \* what may restart: any of "gateway", "ollama"

Kinds == {"chat", "embed", "unload"}

ASSUME GatewayAssumption ==
  /\ Threads = Requests \cup Gens
  /\ Requests \cap Gens = {}
  /\ RamModels \subseteq Models
  /\ DeviceOf \in [Threads -> Devices]
  /\ ModelOf \in [Requests \cup Doors -> Models]
  /\ KindOf \in [Requests -> Kinds]
  /\ None \notin Devices \cup Threads
  /\ Faults \subseteq {"gateway", "ollama"}

VARIABLES
  pc,          \* where each signed request is in model_job or unload_job
  gpc,         \* where each generation job is in Generator.create and _run
  dpc,         \* where each door thread is in handle_openai
  gen,         \* Generator.active: the generation job whose worker runs
  lastDevice,  \* Gateway.last_device
  loaded,      \* Ollama: the models it holds
  spilled,     \* Ollama: those not entirely in the card's memory
  cache,       \* Ollama: per model, devices whose prompts this gateway process sent
  older        \* Ollama: the same for prompts from before the gateway restarted

ollamaVars == <<loaded, spilled, cache, older>>
vars == <<slotVars, pc, gpc, dpc, gen, lastDevice, ollamaVars>>

\* The phases of a request that has the slot, in the code's order.
CardPhases == {"switch", "room", "load", "place", "settle", "recheck", "run",
               "relay", "unload", "leave"}
Phases == {"idle", "arrived", "queue"} \cup CardPhases
GenCardPhases == {"took", "unload", "comfy", "cleanup", "ended"}
GenPhases == {"idle", "asked"} \cup GenCardPhases

TypeOK ==
  /\ SlotTypeOK
  /\ pc \in [Requests -> Phases]
  /\ gpc \in [Gens -> GenPhases]
  /\ dpc \in [Doors -> {"idle", "admitted", "chat"}]
  /\ gen \in Gens \cup {None}
  /\ lastDevice \in Devices \cup {None}
  /\ loaded \in SUBSET Models
  /\ spilled \in SUBSET loaded
  /\ cache \in [Models -> SUBSET Devices]
  /\ older \in [Models -> SUBSET Devices]

Init ==
  /\ SlotInit
  /\ pc = [r \in Requests |-> "idle"]
  /\ gpc = [g \in Gens |-> "idle"]
  /\ dpc = [d \in Doors |-> "idle"]
  /\ gen = None
  /\ lastDevice = None
  /\ loaded = {}
  /\ spilled = {}
  /\ cache = [m \in Models |-> {}]
  /\ older = [m \in Models |-> {}]

-----------------------------------------------------------------------------
(* Ollama, as the gateway uses it *)

\* Models answering a request right now: Ollama keeps those.
InUse == {ModelOf[r] : r \in {q \in Requests : pc[q] = "relay"}}
           \cup {ModelOf[d] : d \in {e \in Doors : dpc[e] = "chat"}}

\* Mutant: a model that went still counts as spilled.
GoneButSpilled(gone) ==
  /\ loaded' = loaded \ gone
  /\ spilled' = spilled
  /\ cache' = [m \in Models |-> IF m \in gone THEN {} ELSE cache[m]]
  /\ older' = [m \in Models |-> IF m \in gone THEN {} ELSE older[m]]

\* Only models that are loaded and not in use can go.
Gone(gone) ==
  /\ loaded' = loaded \ gone
  /\ spilled' = spilled \ gone
  /\ cache' = [m \in Models |-> IF m \in gone THEN {} ELSE cache[m]]
  /\ older' = [m \in Models |-> IF m \in gone THEN {} ELSE older[m]]

\* A load from disk: the prompt cache starts with what the request brings,
\* other idle models may be evicted, and what doesn't fit in the card's memory
\* spills.
LoadFresh(m, brought) ==
  /\ m \notin InUse
  /\ \E evicted \in SUBSET (loaded \ (InUse \cup {m})), spill \in SUBSET {m} :
       /\ loaded' = (loaded \ evicted) \cup {m}
       /\ spilled' = (spilled \ (evicted \cup {m})) \cup spill
       /\ cache' = [x \in Models |-> IF x = m THEN brought
                                     ELSE IF x \in evicted THEN {} ELSE cache[x]]
       /\ older' = [x \in Models |-> IF x \in evicted \cup {m} THEN {} ELSE older[x]]

\* The model is there for the next request: it was, or it is loaded (again,
\* when num_ctx differs from the one it was loaded with).
LoadModel(m) == \/ m \in loaded /\ UNCHANGED ollamaVars
                \/ LoadFresh(m, {})

\* keep_alive (30 min) runs out for a model nobody is about to use.
KeepAliveEnds(m) ==
  /\ m \in loaded \ InUse
  /\ \A r \in Requests : pc[r] \in {"place", "recheck", "run"} => ModelOf[r] # m
  /\ Gone({m})
  /\ UNCHANGED <<slotVars, pc, gpc, dpc, gen, lastDevice>>

-----------------------------------------------------------------------------
(* A signed model request *)

\* model_job up to the slot.  Refusals here (a generation job runs, the queue
\* is full) change nothing.
Arrive(r) ==
  /\ pc[r] = "idle"
  /\ gen = None
  /\ KindOf[r] = "unload" \/ ~SlotFull
  /\ pc' = [pc EXCEPT ![r] = "arrived"]
  /\ UNCHANGED <<slotVars, gpc, dpc, gen, lastDevice, ollamaVars>>

FirstOnCard(r) == IF KindOf[r] = "unload" THEN "unload" ELSE "switch"

Acquire(r) ==
  /\ pc[r] = "arrived"
  /\ \/ AcquireFull(r) /\ pc' = [pc EXCEPT ![r] = "idle"]
     \/ AcquireNow(r) /\ pc' = [pc EXCEPT ![r] = FirstOnCard(r)]
     \/ AcquireWait(r) /\ pc' = [pc EXCEPT ![r] = "queue"]
  /\ UNCHANGED <<gpc, dpc, gen, lastDevice, ollamaVars>>

WaitOver(r) ==
  /\ pc[r] = "queue"
  /\ \/ WakeTake(r) /\ pc' = [pc EXCEPT ![r] = FirstOnCard(r)]
     \/ WakeTimeout(r) /\ pc' = [pc EXCEPT ![r] = "idle"]
  /\ UNCHANGED <<gpc, dpc, gen, lastDevice, ollamaVars>>

WaitOn(r) ==
  /\ pc[r] = "queue"
  /\ WakeAgain(r)
  /\ UNCHANGED <<pc, gpc, dpc, gen, lastDevice, ollamaVars>>

OutOfTime(r) ==
  /\ pc[r] = "queue"
  /\ Deadline(r)
  /\ UNCHANGED <<pc, gpc, dpc, gen, lastDevice, ollamaVars>>

\* Mutant: the models are told to go and not looked at again.
SwitchDeviceUnseen(r) ==
  /\ pc[r] = "switch"
  /\ \E gone \in SUBSET (loaded \ InUse) : Gone(gone)
  /\ lastDevice' = DeviceOf[r]
  /\ pc' = [pc EXCEPT ![r] = "room"]
  /\ UNCHANGED <<slotVars, gpc, dpc, gen>>

\* switch_device: after another device's job every model must be seen gone.
\* An unload that doesn't take, or an /api/ps that doesn't answer, refuses the
\* job and leaves last_device as it was.
SwitchDevice(r) ==
  /\ pc[r] = "switch"
  /\ \/ /\ lastDevice \in {None, DeviceOf[r]}
        /\ lastDevice' = DeviceOf[r]
        /\ pc' = [pc EXCEPT ![r] = "room"]
        /\ UNCHANGED ollamaVars
     \/ /\ lastDevice \notin {None, DeviceOf[r]}
        /\ \E gone \in SUBSET (loaded \ InUse) :
             /\ Gone(gone)
             /\ \/ /\ gone = loaded
                   /\ lastDevice' = DeviceOf[r]
                   /\ pc' = [pc EXCEPT ![r] = "room"]
                \/ /\ lastDevice' = lastDevice
                   /\ pc' = [pc EXCEPT ![r] = "leave"]
  /\ UNCHANGED <<slotVars, gpc, dpc, gen>>

\* Mutant: a ram model makes no room for itself.
VictimsOfRam(r) == (loaded \ {ModelOf[r]}) \cap (RamModels \cup spilled)

\* make_room's victims: a ram model loads alone, and a GPU-only model never
\* shares the machine with a ram model or with one that spilled.
Victims(r) ==
  LET m == ModelOf[r]
  IN {v \in loaded \ {m} : m \in RamModels \/ v \in RamModels \cup spilled}

MakeRoom(r) ==
  /\ pc[r] = "room"
  /\ \E gone \in SUBSET (Victims(r) \ InUse) :
       /\ Gone(gone)
       /\ \/ gone = Victims(r) /\ pc' = [pc EXCEPT ![r] = "load"]
          \/ pc' = [pc EXCEPT ![r] = "leave"]
  /\ UNCHANGED <<slotVars, gpc, dpc, gen, lastDevice>>

\* Mutant: a load that fails returns past the finally.
WarmLoadReturns(r) ==
  /\ pc[r] = "load"
  /\ pc' = [pc EXCEPT ![r] = "idle"]
  /\ UNCHANGED <<slotVars, gpc, dpc, gen, lastDevice, ollamaVars>>

\* warm_load for a chat; an embedding's own request makes Ollama load, and is
\* checked after its answer.
WarmLoad(r) ==
  /\ pc[r] = "load"
  /\ \/ /\ LoadModel(ModelOf[r])
        /\ pc' = [pc EXCEPT ![r] = IF KindOf[r] = "embed" THEN "run" ELSE "place"]
     \/ pc' = [pc EXCEPT ![r] = "leave"] /\ UNCHANGED ollamaVars
  /\ UNCHANGED <<slotVars, gpc, dpc, gen, lastDevice>>

\* check_placement passed: a chat is relayed now, an embedding has been.
Placed(r) == IF KindOf[r] = "embed" THEN "leave" ELSE "run"

\* What a check that fails unloads, or tries to.
Unloads(r) == IF KindOf[r] = "chat" /\ ModelOf[r] \notin RamModels
              THEN loaded ELSE loaded \cap {ModelOf[r]}

\* check_placement.  A ram model may share but must not push the machine into
\* swap; a GPU-only model must be all in the card's memory.  A chat that
\* spilled beside other models unloads them all and loads once more alone
\* (settle_on_gpu); any other spill is unloaded and refused.
CheckPlacement(r) ==
  LET m == ModelOf[r]
      others == loaded \ {m}
  IN /\ pc[r] = "place"
     /\ \/ /\ m \in loaded
           /\ m \in RamModels \/ m \notin spilled
           /\ pc' = [pc EXCEPT ![r] = Placed(r)]
           /\ UNCHANGED ollamaVars
        \/ /\ m \in spilled \ RamModels
           /\ KindOf[r] = "chat" /\ others # {}
           /\ InUse = {}
           /\ Gone(loaded)
           /\ pc' = [pc EXCEPT ![r] = "settle"]
        \/ /\ pc' = [pc EXCEPT ![r] = "leave"]
           /\ \/ UNCHANGED ollamaVars
              \/ \E gone \in SUBSET (Unloads(r) \ InUse) :
                   m \in RamModels \cup spilled /\ Gone(gone)
     /\ UNCHANGED <<slotVars, gpc, dpc, gen, lastDevice>>

SettleLoad(r) ==
  /\ pc[r] = "settle"
  /\ \/ LoadModel(ModelOf[r]) /\ pc' = [pc EXCEPT ![r] = "recheck"]
     \/ pc' = [pc EXCEPT ![r] = "leave"] /\ UNCHANGED ollamaVars
  /\ UNCHANGED <<slotVars, gpc, dpc, gen, lastDevice>>

\* Mutant: the second load isn't checked.
SettleCheckSkipped(r) ==
  /\ pc[r] = "recheck"
  /\ pc' = [pc EXCEPT ![r] = "run"]
  /\ UNCHANGED <<slotVars, gpc, dpc, gen, lastDevice, ollamaVars>>

SettleCheck(r) ==
  LET m == ModelOf[r]
  IN /\ pc[r] = "recheck"
     /\ \/ /\ m \in loaded \ spilled
           /\ pc' = [pc EXCEPT ![r] = "run"]
           /\ UNCHANGED ollamaVars
        \/ /\ pc' = [pc EXCEPT ![r] = "leave"]
           /\ \E gone \in SUBSET ((loaded \cap {m}) \ InUse) : Gone(gone)
     /\ UNCHANGED <<slotVars, gpc, dpc, gen, lastDevice>>

\* The request reaches Ollama and the device's prompt is in that model's cache
\* from now on.  A model that went since (Ollama restarted) is loaded first.
Relay(r) ==
  LET m == ModelOf[r]
  IN /\ pc[r] = "run"
     /\ \/ /\ m \in loaded
           /\ cache' = [cache EXCEPT ![m] = @ \cup {DeviceOf[r]}]
           /\ UNCHANGED <<loaded, spilled, older>>
        \/ m \notin loaded /\ LoadFresh(m, {DeviceOf[r]})
     /\ pc' = [pc EXCEPT ![r] = "relay"]
     /\ UNCHANGED <<slotVars, gpc, dpc, gen, lastDevice>>

\* The answer ends, Ollama fails, or the client has gone.  An embedding that
\* was answered is checked before it is passed on.
RelayEnds(r) ==
  /\ pc[r] = "relay"
  /\ \/ pc' = [pc EXCEPT ![r] = "leave"]
     \/ KindOf[r] = "embed" /\ pc' = [pc EXCEPT ![r] = "place"]
  /\ UNCHANGED <<slotVars, gpc, dpc, gen, lastDevice, ollamaVars>>

\* unload_job: asked, waited for, answered either way.
UnloadJob(r) ==
  /\ pc[r] = "unload"
  /\ \E gone \in SUBSET ((loaded \cap {ModelOf[r]}) \ InUse) : Gone(gone)
  /\ pc' = [pc EXCEPT ![r] = "leave"]
  /\ UNCHANGED <<slotVars, gpc, dpc, gen, lastDevice>>

\* finally: the slot is given back.
Leave(r) ==
  /\ pc[r] = "leave"
  /\ Release(r)
  /\ pc' = [pc EXCEPT ![r] = "idle"]
  /\ UNCHANGED <<gpc, dpc, gen, lastDevice, ollamaVars>>

-----------------------------------------------------------------------------
(* A generation job: Generator.create, then its worker _run *)

GenAsk(g) ==
  /\ gpc[g] = "idle"
  /\ gen = None
  /\ gpc' = [gpc EXCEPT ![g] = "asked"]
  /\ UNCHANGED <<slotVars, pc, dpc, gen, lastDevice, ollamaVars>>

\* slot_acquire is acquire(0): it never waits.
GenSlot(g) ==
  /\ gpc[g] = "asked"
  /\ \/ AcquireNow(g) /\ gpc' = [gpc EXCEPT ![g] = "took"]
     \/ busy /\ UNCHANGED slotVars /\ gpc' = [gpc EXCEPT ![g] = "idle"]
  /\ UNCHANGED <<pc, dpc, gen, lastDevice, ollamaVars>>

GenStart(g) ==
  /\ gpc[g] = "took"
  /\ \/ /\ gen = None
        /\ gen' = g
        /\ gpc' = [gpc EXCEPT ![g] = "unload"]
        /\ UNCHANGED slotVars
     \/ /\ gen # None
        /\ Release(g)
        /\ gpc' = [gpc EXCEPT ![g] = "idle"]
        /\ UNCHANGED gen
  /\ UNCHANGED <<pc, dpc, lastDevice, ollamaVars>>

\* GenHooks.unload: every model is seen gone, or Ollama doesn't answer (taken
\* to mean none of it is on the card), or the job fails.
GenUnload(g) ==
  /\ gpc[g] = "unload"
  /\ \E gone \in SUBSET (loaded \ InUse), answers \in BOOLEAN :
       /\ Gone(gone)
       /\ gpc' = [gpc EXCEPT ![g] = IF loaded' = {} \/ ~answers THEN "comfy" ELSE "cleanup"]
  /\ UNCHANGED <<slotVars, pc, dpc, gen, lastDevice>>

\* ComfyUI has the card until the prompt is done, fails, times out or is
\* cancelled (also before it was sent).
GenComfyEnds(g) ==
  /\ gpc[g] = "comfy"
  /\ gpc' = [gpc EXCEPT ![g] = "cleanup"]
  /\ UNCHANGED <<slotVars, pc, dpc, gen, lastDevice, ollamaVars>>

GenFinish(g) ==
  /\ gpc[g] = "cleanup"
  /\ gpc' = [gpc EXCEPT ![g] = "ended"]
  /\ gen' = IF gen = g THEN None ELSE gen
  /\ UNCHANGED <<slotVars, pc, dpc, lastDevice, ollamaVars>>

GenLeave(g) ==
  /\ gpc[g] = "ended"
  /\ Release(g)
  /\ gpc' = [gpc EXCEPT ![g] = "idle"]
  /\ UNCHANGED <<pc, dpc, gen, lastDevice, ollamaVars>>

-----------------------------------------------------------------------------
(* The OpenAI-style door: no slot, no device, no placement check. *)

DoorOpen(d) ==
  /\ dpc[d] = "idle"
  /\ gen = None
  /\ dpc' = [dpc EXCEPT ![d] = "admitted"]
  /\ UNCHANGED <<slotVars, pc, gpc, gen, lastDevice, ollamaVars>>

DoorChat(d) ==
  /\ dpc[d] = "admitted"
  /\ LoadModel(ModelOf[d])
  /\ dpc' = [dpc EXCEPT ![d] = "chat"]
  /\ UNCHANGED <<slotVars, pc, gpc, gen, lastDevice>>

DoorEnds(d) ==
  /\ dpc[d] \in {"admitted", "chat"}
  /\ dpc' = [dpc EXCEPT ![d] = "idle"]
  /\ UNCHANGED <<slotVars, pc, gpc, gen, lastDevice, ollamaVars>>

-----------------------------------------------------------------------------
(* Restarts *)

\* systemd restarts the gateway (Restart=always, or the panel): its memory is
\* gone, its connections close, and Ollama keeps its models.
GatewayRestarts ==
  /\ "gateway" \in Faults
  /\ busy' = FALSE /\ queued' = 0 /\ active' = 0 /\ late' = {}
  /\ at' = [t \in Threads |-> "out"]
  /\ pc' = [r \in Requests |-> "idle"]
  /\ gpc' = [g \in Gens |-> "idle"]
  /\ dpc' = [d \in Doors |-> "idle"]
  /\ gen' = None
  /\ lastDevice' = None
  /\ older' = [m \in Models |-> older[m] \cup cache[m]]
  /\ cache' = [m \in Models |-> {}]
  /\ UNCHANGED <<loaded, spilled>>

\* Ollama restarts with nothing loaded; what it was answering fails.
OllamaRestarts ==
  /\ "ollama" \in Faults
  /\ Gone(loaded)
  /\ pc' = [r \in Requests |-> IF pc[r] = "relay" THEN "leave" ELSE pc[r]]
  /\ dpc' = [d \in Doors |-> IF dpc[d] = "chat" THEN "idle" ELSE dpc[d]]
  /\ UNCHANGED <<slotVars, gpc, gen, lastDevice>>

-----------------------------------------------------------------------------

OnCard(r) ==
  \/ SwitchDevice(r) \/ MakeRoom(r) \/ WarmLoad(r) \/ CheckPlacement(r)
  \/ SettleLoad(r) \/ SettleCheck(r) \/ Relay(r) \/ RelayEnds(r)
  \/ UnloadJob(r) \/ Leave(r)

GenWork(g) == \/ GenSlot(g) \/ GenStart(g) \/ GenUnload(g) \/ GenComfyEnds(g)
              \/ GenFinish(g) \/ GenLeave(g)

Next ==
  \/ \E r \in Requests : Arrive(r) \/ Acquire(r) \/ WaitOver(r) \/ WaitOn(r)
                        \/ OutOfTime(r) \/ OnCard(r)
  \/ \E g \in Gens : GenAsk(g) \/ GenWork(g)
  \/ \E d \in Doors : DoorOpen(d) \/ DoorChat(d) \/ DoorEnds(d)
  \/ \E m \in Models : KeepAliveEnds(m)
  \/ GatewayRestarts
  \/ OllamaRestarts

Spec == Init /\ [][Next]_vars

\* Threads run, and every call out of the gateway has a timeout.  Nothing is
\* assumed of the clients, of the models' keep_alive or of the restarts.
Fairness ==
  /\ \A r \in Requests : /\ WF_vars(Acquire(r))
                         /\ WF_vars(WaitOver(r))
                         /\ WF_vars(OutOfTime(r))
                         /\ WF_vars(OnCard(r))
  /\ \A g \in Gens : WF_vars(GenWork(g))

FairSpec == Spec /\ Fairness
-----------------------------------------------------------------------------
(* Properties *)

Relaying == {r \in Requests : pc[r] = "relay"}
Drawing == {g \in Gens : gpc[g] = "comfy"}

\* A signed request is between its slot and its release exactly in the phases
\* that touch the card, and so is a generation job: no error path keeps the
\* slot or gives it back twice (model_job's finally, create's except).
CardHeld ==
  /\ \A r \in Requests : /\ pc[r] \in CardPhases <=> at[r] = "in"
                         /\ pc[r] = "queue" <=> r \in Queue
  /\ \A g \in Gens : gpc[g] \in GenCardPhases <=> at[g] = "in"

\* Generator.active is the one job at work and it has the slot, so a chat that
\* tests running() and a chat that waits for the slot agree about the card.
GenOwnsCard ==
  \A g \in Gens : gen = g <=> gpc[g] \in {"unload", "comfy", "cleanup"}

\* The gateway's docstring, "one job on the GPU at a time", of every job that
\* reaches Ollama or ComfyUI through it.
OneJobAtATime ==
  Cardinality(Relaying) + Cardinality(Drawing)
    + Cardinality({d \in Doors : dpc[d] = "chat"}) <= 1

\* PROTOCOL.md section 5, "Nothing is shared between devices, not even Ollama's
\* prompt cache": a request never runs on a model that remembers a prompt of
\* another paired device.
Isolation ==
  \A r \in Relaying : cache[ModelOf[r]] \cup older[ModelOf[r]] \subseteq {DeviceOf[r]}

\* The same for the prompts this gateway process sent, and of every model that
\* is loaded: all they remember is last_device's.  It holds across failed
\* unloads, an /api/ps that doesn't answer, the door's loads and restarts.
IsolationThisRun == \A m \in Models : cache[m] \subseteq {lastDevice}

\* A chat is relayed from a GPU-only model only when all of it is in the card's
\* memory, also after a spill was settled (while Ollama isn't restarted and
\* nothing comes through the door).
GpuOnly ==
  \A r \in Relaying :
    KindOf[r] = "chat" /\ ModelOf[r] \notin RamModels => ModelOf[r] \notin spilled

\* make_room: a ram model runs alone, and a GPU-only model never beside a ram
\* model, whatever was loaded, spilled or failed to unload before (while nothing
\* comes through the door).
RamAlone ==
  \A r \in Relaying : IF ModelOf[r] \in RamModels THEN loaded = {ModelOf[r]}
                                                  ELSE loaded \cap RamModels = {}

\* PROTOCOL.md section 5: "If the unload can't be confirmed the job fails and
\* ComfyUI is never asked."
GenCardClear == Drawing # {} => loaded = {}

\* The gateway keeps the promise of module Card.
CardHolder == IF Holders = {} THEN None ELSE CHOOSE t \in Threads : at[t] = "in"
CardPrompts == UNION {cache[m] : m \in Models}

Promise == INSTANCE Card WITH Jobs <- Threads, Nobody <- None, Owner <- DeviceOf,
                              holder <- CardHolder, prompts <- CardPrompts

KeepsPromise == Promise!Spec

\* Every admitted request is answered: nobody waits in the queue for ever, and
\* the slot always comes back.
RequestsEnd == \A r \in Requests : pc[r] # "idle" ~> pc[r] = "idle"
=============================================================================
