# ConcordeAI in TLA+

ConcordeAI is a desktop app (`src/millenai.py`), a small sync server
(`src/sync/concordeai_sync.py`) and a kit that turns a PC with one graphics card
into a home server for the app (`src/ollama1/`). Modelled here are the parts where
several programs, threads or starts meet over one card, one file, one folder or
one sleep: the kit's gateway, generator, sleep, auto sleep and hardware watchdog,
and the app's accounts, engine updates and chats.

Run from this directory:

    tlc -workers 2 -config GatewayCard.cfg MCGateway     # any line of "The runs"
    tlapm GatewayProofs.tla                              # any *Proofs.tla

`PROJECT.json` lists the components, the runs, the source lines of every
definition, the hazards with the properties that would catch them, and the
theorems. Each definition whose comment begins with `Mutant:` is the code with a
plausible bug in it; no specification uses one, and for every property there is
one that breaks it.

## The system

| part | state it keeps | operations | modelled in |
|---|---|---|---|
| GPU slot (`ollama1-gateway`, `Slot`) | a flag, two counters, a condition variable's queue | `acquire` with a deadline, `release` | `Slot` |
| Gateway, one thread per request | `last_device`, the slot, the models Ollama holds (asked each time) | chat, embed, unload, the OpenAI-style door, placement on the card | `Gateway`, `Card` |
| Generator (`o1gen.py`), one thread per job | jobs table, `active`, results kept for 10 minutes | create, status, result, cancel, sweep, the worker | `Generator` |
| Sleep hook and resume check (`o1sleep.py`) | `sleep.json` | unload or stop Ollama before a suspend; check, restart, unload after it | `Sleep` |
| Auto sleep (`o1idle.py`) | `Activity`'s count and file, the service's `last_busy`, `last_resume` | begin, end, touch, write; tick, decide, suspend | `AutoSleep` |
| Hardware watchdog (`o1watchdog.py`, its unit, the hook) | the device's handle, failures, state, the board's timer | turn, probe, pet, trip, pause, resume, stop | `Watchdog` |
| App: accounts (`millenai.py`) | `profile.json`, account folders, `imports/`, root's chats and media | sign in with Add, sign out, keep, erase, put back, start | `Accounts` |
| App: its own Ollama | `bin`, `bin.old`, `bin.new`, `bin.trial`, the serves | fetch, swap in, prove, roll back | `Engine` |
| App: chat store and turns | `chats.v2.json`, the undo copies, turns under way | ask, stream, save, delete, undo, rewind, forget, leave | `Chats` |
| Pairing (`o1pair.py`) | the window, the spool, the device list | open, close, request, commit, remove | not yet |
| Model sets and library (`o1modelplan.py`, `o1library.py`) | the allow-list, the spool, locks | plan, apply, pull, remove, sync | not yet |
| Sync server | users with a blob and a version, sessions | sign up, log in, push, pull, delete | not yet |
| HTTP, Access, signatures, keys | a cache of nonces | checks of one request | no: one request at a time over cryptographic data |
| Fans, tuning, power plans, lights | curves, staged driver writes | control loops | no: continuous values and arithmetic |
| Panel, dashboard, drawing | none of its own | presentation | no |
| Updates, migration, Wi-Fi, LAN, installer | configuration of other programs | scripts | no: effects outside the program |
| App: profile stores, ledger, memory, windows, speech | files, one writer each; widgets | the rest of a 56,000-line program | no |

How they meet:

* A handler thread takes the slot, empties or arranges the card through Ollama's
  HTTP interface, relays its request and gives the slot back. A generation job
  takes the same slot without waiting, unloads Ollama and lets ComfyUI have the
  card. The door chats with Ollama past the slot.
* Requests and jobs count in `Activity.inflight`; the idle service reads the file
  the gateway writes from it and suspends the machine. The sleep hook runs before
  every suspend: it pauses the watchdog, then unloads the models; after the wake it
  resumes the watchdog and starts the resume check.
* The watchdog's loop pets the board's timer and notifies systemd: systemd restarts
  a loop that dies or falls silent, and the board resets the machine when nobody pets
  its timer.
* In the app one lock (`_switch_lock`) orders the account operations, so what is
  hard there is the crash or refused write between two of their writes. Callers of
  `_spawn_ollama_serve` overlap with each other and with the background fetch. The
  chat store's lock covers one operation; a turn lives across many.

What is hard: the interleavings of threads between two locks of one call; calls to
Ollama that fail or time out in the middle of a sequence; restarts, which forget
one half of the truth; snapshots written later than they were taken; a hook that
may be cut off; folders renamed under a running process; an answer that ends while
its chat is deleted, rewound or carried to another profile; signals that arrive
while a probe hangs. `hazards` in `PROJECT.json` has each at its line.

What makes each part correct: one holder of the slot and a queue that doesn't sleep
for ever; no device's request on a card that remembers another's prompt; models
placed on the card as the allow-list says; every job counted as activity exactly
from its start to two minutes after the last poll; nothing on the card from before
a sleep, and Ollama running after it; no sleep on a running request, and one on an
idle machine; a machine asleep with its watchdog disarmed, never reset while it is
well, always when its disk is gone; no chat or picture lost or brought back by an
account operation, whatever is interrupted; an engine that works on disk at every
moment of an update; every answer saved, once, where its question is.

## The modules

**`Slot`** — `class Slot`. `acquire` runs under the lock except inside
`Condition.wait`, so it is `AcquireFull`, `AcquireNow` or `AcquireWait` up to the
first wait, and `WakeTake`, `WakeTimeout` or `WakeAgain` after each one.
`Deadline` is the passing of a waiting thread's time. `Release` notifies one
sleeping thread, or none, or one whose time has already run out (a Python
condition may spend a notify that way). A newcomer may take the slot before a
notified thread tests the flag.

**`Gateway`** EXTENDS `Slot` — `model_job` and `unload_job` with what they call
(`pc`), `Generator.create` and `_run` as far as the card goes (`gpc`), the door
(`dpc`), and Ollama as the gateway sees it. The phases of `pc` are the calls of
`model_job` in order: switch (`switch_device`), room (`make_room`), load
(`warm_load`), place (`check_placement`), settle and recheck (`settle_on_gpu`),
run and relay, leave (the `finally`). An embedding is relayed first and placed
after. Ollama is which models are `loaded`, which `spilled` out of the card's
memory, and whose prompts each one's cache remembers: `cache` for prompts sent by
this gateway process, `older` for those of earlier ones. Ollama may evict, spill,
refuse, stop answering, expire a model or restart at any moment the code allows.
The shape checks of a request (`shape`, `fit_check`) only refuse it before the
slot and are left out. A cycle of waiting for models to go (`wait_unloaded`) is
one step that ends with some subset gone.

**`Card`** — what the gateway promises: one holder, and nobody's prompt runs
on a card that remembers another device's. `Gateway!KeepsPromise` is `Card!Spec`
under the refinement mapping holder = the thread with the slot, prompts = the
union of `cache`. `older` is not part of it, for the reason run
`gateway_isolation` shows.

**`Generator`** — `class Generator` on its own, with the slot reduced to who has
it and chats to one that takes it. Calls are split where the lock is dropped:
the sweep every call begins with (`Call`), `_find` (`Find`), and what the call
then does without the lock (`Answer`, `Cancel`) or with it (`CreateSlot`,
`CreateJob`). `LetGoOfOld` is the thread `_drop_old_locked` starts. Time is the
age of a job's finish and of its last poll.

**`Sleep`** — the hook's steps (`Stamp`, `HookUnload`, `HookStop`, `HookRecord`),
`Suspend`, `Post`, and `resume_check` and `after_wake_clear` (`Check...`,
`WasSlow`, `ClearRestarts`), over Ollama's state and `sleep.json`. Sleeps are
numbered where the code compares epoch seconds (`Emptied`). `Happens` names what
an environment may do beyond the quiet case: cut the hook off, load a model while
the hook is past its last look, sleep again during a check.

**`AutoSleep`** — `Activity` (`Begin`, `Snapshot`, `Write`, `End`, `Touch`), the
service's tick in the pieces between which time passes (`TickStarts` finds a wake
and reads the file, `TickReads` is the probes, `TickDecides`, `Suspend`,
`Returns`), and what an owner, a tool or systemd does meanwhile. A snapshot is
taken under the lock and written outside it, so every writer has its own `shot`.
All times are ages in one unit, saturating at `Old = Minutes + Slow`: what the code
subtracts is a difference of two ages. Of the file only what `decide` goes by is
kept: when it was true, and the last activity if nothing was in flight. `Ahead`
is how far the file may be ahead of the tick's `now` (5 s in the code). One
obstacle at a time stands for the setting, the load, the tools and the units.

**`Watchdog`** — one turn of `Watchdog.run` is an action or, with a probe, two:
`TurnProbes` begins one in a thread and `ProbeEnds` or `ProbeLate` makes of it what
`tick` does (`Verdict`: count, open, trip, pet, notify). `TurnPauses` and
`TurnStops` are turns that a signal ended, before the probe or during it;
`TurnFindsStuck` is the turn that finds an earlier probe hanging. The unit of time
is the loop's interval, and `OnTime` says that a loop that doesn't stall turns once
in it. Around the loop: systemd (`SystemdKills` after `WatchdogSec` without a
notification, `SystemdStarts`), the owner, the hook with `sleep_signal`, the disk,
and the board's timer. Three histories name what excuses an armed sleep or a reset:
`sick`, `spoiled`, `killed`.

**`Accounts`** — one operation at a time (`job`), each a sequence of single writes
of the disk: sign-in (`Look...`, `AddBuild`, `Rename`, `CommitSignIn`), sign-out,
the kept state, `_add_stage` (`Stage...`: originals moved into `imports/`, media
last), `_putback_finish` (`Putback...`) and a start (`Boot...`). `Fail...` is each
write refused, with what the code goes on with; `Crash` may fall between any two.
While the app is closed `profile.json` may be lost or come back from before, and an
`.owner` may fail or be unreadable. Chats and media are sets, `Shows` says which
chat needs which picture.

**`Engine`** — threads in `_spawn_ollama_serve` (`Call`, `Apply`, `Swap...`,
`Launch`, `Hears` or `Silent`, `Rollback`, `Back...`, `Clear`), the serves they
start, and the background fetch into `bin.new`. A folder is a number: nothing, bits
without a binary, a version, or a hulk (a binary whose other files are gone, what a
refused deletion leaves). `Held` steps are renames that a running process refuses.

**`Chats`** — everything under `_chats_lock` is one action (`Ask`, `Delete`,
`Undelete`, `Expire`, `Rewind`, `Forget`); a turn is `Register`, `Stream`, `End` and
`Late`, with `Finish` under `_turns_lock`. A quit or a switch of the profile
(`Leave`, `Flush`, `Move`) finishes what streams, and forgets memory, as a crash
does. Chats are sequences of small numbers: a question, or the answer of turn `t`.

## The runs

The passing runs finish in between a few seconds and two minutes each.

| run | bounds | states | shows |
|---|---|---|---|
| `gateway_card` | 3 chats, an embedding, an unload and a picture job of 2 devices, 3 models (1 may use system memory), queue of 2 | 339,120 | types; one holder, right counters, no lost wakeup; slot and phases agree; a chat runs from the card's memory (`GpuOnly`), a system-memory model alone (`RamAlone`); `Card` implemented, so devices are apart |
| `gateway_faults` | 2 chats, 2 picture jobs, a door chat, 2 models, queue of 1; the gateway and Ollama restart at any time | 137,536 | `Card` across restarts; every admitted request ends (`RequestsEnd`) |
| `generator` | 2 job ids reused for ever, 2 callers, 1 chat; results kept 2 ticks, activity tail and idle limit 1, 1 finished job kept | 1,161,394 (with symmetry) | the activity count is exact (`ActivityCounts`), one worker that has the slot to its end, every held job has somebody to let go of it or has expired |
| `sleep` | 3 sleeps, the hook cut off anywhere, unloads and stops that fail, an Ollama that hangs | 12,283 | a check that said ok is right: nothing from before the sleep, Ollama not stopped; new models left alone while the record vouches |
| `auto_sleep` | 1 request made again and again and the loop as writers, idle time 2, file limit 0, slow probes 1; refused writes and sleeps, hangs, restarts | 971,060 | no suspend on work of the idle period (`SleepsOnlyIdle`), a whole period after a wake or a refusal (`WholePeriod`), an idle machine sleeps (`IdleSleeps`) |
| `watchdog` | timer 4, 2 failures, hold 2, systemd's limit 3, hook 2 turns; slow probes, crashes, a device that refuses, a loop that stalls | 630,900 | asleep disarmed, nothing well reset, a dead disk ends in a reset, a good one is watched again |
| `accounts` | 2 folders, 2 accounts, 2 chats that share a picture, 2 faults of 5 kinds | 2,862,367 (with symmetry) | no chat lost (`RootUnitsSafe`), none back (`UnwantedStaysAway`), none torn from its picture (`ShownMediaWhole`), no folder gone undecided while records are only lost (`FolderStays`), nothing half done after a clean start (`Settled`) |
| `engine` | 2 callers, 3 serves, 2 releases of which one never answers, 1 fault | 755,614 (with symmetry) | as long as a trial isn't proven the engine that works is kept (`OldKept`) |
| `engine_again` | 1 caller, 2 serves, 3 releases, 2 faults | 245,180 | after a failed proof an engine answers again (`EngineAgain`) |
| `chats` | 2 chats, 2 questions, 1 window, 1 fault | 2,658,262 (with symmetry) | every answer saved (`AnswersKept`), no deleted chat back (`DeadStaysDead`), none gone by itself (`NothingVanishes`), messages only added but for a rewind (`OnlyGrows`) |

Two configurations state what a document or a comment says and TLC shows where the
code does otherwise (`findings` in `PROJECT.json` quotes the lines):

| run | what happens |
|---|---|
| `watchdog_paused` | a paused loop doesn't notify systemd; when the hook takes longer than 30 s after the pause the unit is killed, starts again and arms the timer before the machine sleeps |
| `chats_rewind` | an answer thrown away by a rewind is saved as the answer of the question asked in its place, in the same words |

These are configurations of the same modules to run by hand; `pass` means that TLC
finds no error, anything else is the property it refutes and how:

| configuration | outcome |
|---|---|
| `GatewayIsolation` | `Isolation`: `last_device` is forgotten when the gateway restarts, Ollama's caches are not |
| `GatewayGenClear` | `GenCardClear`: an `/api/ps` that doesn't answer counts as an empty card before a picture job |
| `GatewayDoor` | `OneJobAtATime`: a door chat runs beside a device's chat or a picture job |
| `GeneratorHold` | `HoldEnds`: a finished job polled in the last two of its ten minutes counts as activity for ever, and the machine never sleeps again |
| `GeneratorBytes` | `AnswerHasBytes`: `status` and `result` read a job another thread has just emptied |
| `SleepLate` | `NothingStaysLoaded`: a model loaded between the hook's last look and the suspend crosses the sleep, vouched for |
| `SleepTwice` | `OllamaIsBack`: a second sleep during a check: the check isn't started again and its record hides that Ollama was stopped |
| `AutoSleepNap` | `WholePeriodAlways`: the tick that was under way when the machine was put to sleep puts it back to sleep as it wakes |
| `AutoSleepTwo` | pass: 2 requests, a file that may be ahead of the tick (2,351,535 states) |
| `AccountsUnclear` | `FolderStays`: a folder whose `.owner` can't be checked is left by one start and erased by the next, after a sign-in that went no further |
| `AccountsRestored` | `FolderGoesDecided`: an account signed in to, `profile.json` restored from before it: the record is known and names nobody, and the next start's sweep erases the folder |
| `AccountsPutback` | `ErasedNeverBack`: a put-back that failed after storing its chats runs again and brings back a chat deleted since |
| `AccountsMedia` | `PutBackWhole`: a chat is put back without a picture that another `imports/` took |
| `EngineProof` | `Recoverable`: a second caller's serve of the old engine answers for the one just swapped in, and `bin.old` is deleted although the new engine never answered |
| `EngineStale` | `KeptByEveryVerdict` (`OldKept` without `misled`): see below |
| `ChatsAnswer` | `EveryAnswerKept`: a turn between two of its steps is passed over by a quit, a switch or Forget |
| `ChatsUndo` | `EveryChatStays`: an Undo whose write fails loses the chat |
| `ChatsWide` | pass: 2 windows (16,753,160 states, 5 minutes) |

Why the bounds are enough. The slot's races need a holder, a waiter and a
newcomer; the run has six threads and a queue that fills. Isolation needs two
devices and a third state ("nobody yet"). Placement needs a model to run, one it
shares with and one allowed into system memory. Requests are made again and
again, so a run is not a fixed script. In `Generator` a released id is used for
the next job, so two ids give any number of jobs with two in the table, one more
than is kept; the order of the limits (tail before expiry) is the code's. In
`Sleep` a record of an earlier sleep, a cut-off hook and one more sleep are three.
In `AutoSleep` two writers of the file are the race, a third only repeats it
(`AutoSleepTwo`); the units of time keep the code's order, file limit below idle
time, probes that may outlast the limit. In `Watchdog` the timer outlasts the
failures by two turns, as 60 s of petting every 10 s does; with a timer of 30 s,
the last the code tries, a sleep between two failures lets it run out one turn
before the watchdog would have tripped. The hook's two turns are enough for a
paused unit to reach systemd's limit. `Accounts` needs a folder kept and one
entered, a chat in each Add and a picture both show; two faults give a refused write
and the crash after it. `Engine` needs the release in use, the one on trial and two
callers; a third version only gives `engine_again` something newer to hope for.
`Chats` needs a question and its retry.

`CHECK_DEADLOCK FALSE` is in the configurations of `Sleep` (`MaxSleeps` ends it) and
of `Accounts` (a history whose names are all used up may stop); all others are
checked for deadlock.

Fairness. `Gateway!Fairness` lets each thread inside a call go on (weak fairness
of `Acquire`, `WaitOver`, `OutOfTime`, `OnCard`, `GenWork`): every call to Ollama
and ComfyUI has a timeout, and a client that stops reading runs into the socket's.
Clients need never ask, models never expire and nothing need restart. `OutOfTime`
is the deadline `queue_wait_s`, without which a queue overtaken for ever would
not end: the mutant that restarts the deadline on each wakeup breaks
`RequestsEnd`. `Generator!FairSpec` adds that time passes and the gateway's stats
loop sweeps once a second. `AutoSleep!FairSpec`: the service's loop, the writers
inside a call and time go on; nobody need wake the machine and requests may run
for ever, so `IdleSleeps` has as its premise that work has ended, each tick finds
the file fresh and nobody disturbs any more. `Watchdog!FairSpec`: the loop, systemd,
the hook, the board and time go on, and a probe's thread ends if the disk answers;
premise: nobody disturbs any more, sleep included. `Engine!FairSpec`: a thread goes
on with what it began, a serve comes up or ends, a fetch ends. `EngineAgain` is
checked with one caller, whose call is over only when its proof is: nobody else calls
while a proof runs. Two that alternate may fetch and swap in a broken release
for ever. `Sleep`, `Accounts` and `Chats` have safety only.

`GpuOnly` and `RamAlone` are checked only where nothing comes through the door, and
`GpuOnly` only where Ollama isn't restarted: a door chat loads with no placement
check, and an Ollama that restarts between check and relay loads the model anew. The
code accepts both. `GpuOnly` is thus about what loads and spills before the check: a
model unloaded or reloaded between check and relay, the first half of that hazard, no
run covers (`keep_alive` doesn't run out for a model about to be used).

Exceptions a property names are histories, each shown necessary by a configuration
above: `disowned` (a folder committed when an older record, which names nobody, came
back; until its name is committed again), `torn` (a chat whose delete or undo wasn't written), `unseen` (a turn passed
over between two of its steps), `copied` and `borrowed` (a chat or picture that
another `imports/` still held), `usurped` (a proof that heard another engine),
`misled` (a failed proof that acted when its trial had gone), the tick cut in two by a
sleep, `killed`. In `OldKept` a `Hulk` is excepted too: a deletion that Windows
refuses half-way leaves a binary the code takes for an engine.

`misled` came out of the proof: `OldKept` without it passes in the run, whose bounds
are too small, and is false. `_prove_engine` makes its verdict before it waits for
`_SWAP_LOCK`, and `_rollback_engine(failed=True)` doesn't ask whether a trial still
stands. In `EngineStale` a slow engine is given up by one caller, answers another
caller, and is proven; the deletion of `bin.old` is refused; the first caller then
moves the proven engine away with no trial on disk. If the roll-back is cut short
there and an install downloads a release into the empty folder, the next start takes
`bin.old` for a leftover and deletes it. Without `slow`, one refused deletion and a
fourth release do the same.

## The proofs

TLAPS proves, for every set of threads, devices and models, every queue length
and every combination of restarts, from `SlotAssumption` (finitely many threads, a
natural queue length) and `GatewayAssumption` (the constants' types):

* `TypeCorrect`, `SlotIsExclusive`, `QueueIsCounted` (counters and bound),
  `NoLostWakeup`, `SlotComesBack` (`CardHeld` and `GenOwnsCard`: a job's worker is
  the one that is `active` and has the slot),
  `DevicesAreIsolated` (`IsolationThisRun`);
* `PromiseKept`: `Spec => KeepsPromise`, that is, `Gateway` implements `Card`.

The inductive invariant (`GatewayProofs!IInv`) is

    SlotInv /\ ControlOK /\ CardHeld /\ GenOwnsCard /\ OllamaOK /\ DeviceOK

`IsolationThisRun` alone is not inductive: a request that has passed
`switch_device` sends its prompt several steps later, and only because it has the
slot all that time (`CardHeld`, `SlotInv`) has nobody switched since
(`OnCardForDevice`). `switch_device` may set `last_device` because it saw every
model gone, and a model that isn't loaded remembers nothing (`OllamaOK`).
`CardHeld` in turn needs the slot's own invariant: `GatewayProofs` begins with
`SlotInv` and one lemma per action of `Slot`; that the counters are cardinalities
uses the library's facts about finite sets. Then it has one lemma per action or
group of actions with the same effect on the slot (`MoveOnCard`, `GenOnSlot`,
`OffSlot`), `StepInv` combines them over `Next`, and `StepKeepsPromise` shows
that each step is a `Take`, `Run`, `Give`, `Forget` or a stutter of `Card`.

On top of `IInv`, when nothing comes through the door (`Doors = {}`):

* `RamModelsAlone` (`RamAlone`), with any restarts. `RoomOK` carries what
  `make_room` saw through the load, the check, the second load and the answer: only
  the request that has the slot loads, and it loads its own model.
* `ChatsRunOnGpu` (`GpuOnly`), when Ollama isn't restarted either. `FitOK` says that
  what the placement check saw is still so when the chat reaches Ollama.

TLC refutes both with a door chat, and `GpuOnly` with an Ollama that restarts, so
the hypotheses are needed.

`SleepProofs` proves, for any number of sleeps, under `Quiet` (no model is loaded
behind the hook's back and no sleep begins during a check; the hook may still be
cut off anywhere, and every unload, stop and restart may fail), that
`NothingStaysLoaded` and `OllamaIsBack` always hold (`SleepKeepsItsWord`,
`OllamaComesBack`) and
that new models are left alone (`NewModelsAreLeftAlone`). Its invariant says:
the hook's record is true (`HookOK`), stays true until the check reads it
(`RecordOK`), and the check says ok only of what it read or saw (`CheckOK`). That
`Quiet` is needed is what `SleepLate` and `SleepTwice` show.

`AutoSleepProofs`, for any finite set of requests, idle time, file limit below it,
tolerance and probe time: `SleepsOnlyIdle` (`NoSleepOnWork`) and `WholePeriod`
(`RestsAfterWake`). Neither is an invariant, and neither follows from what the
service remembers: the argument is that what any snapshot says stays true of the
history while it ages (`ShotsOK`, for the file and every snapshot still to be
written, in any order), so what the tick read is true of the past it asks about
(`AskedOK`, `DueOK`), and that `since` is never older than the last rest (`RestOK`).
`WorkOK` ties the history to the count: what runs is what is in flight.

`EngineProofs`, for any number of callers, serves, releases and faults:
`UpdatesKeepAnEngine` says `Recoverable`, or `usurped`, when no rename or deletion is
refused (`Unrefused`). The invariant follows the folders through the steps
of a swap and a rollback: while a trial runs, `bin.old` has the engine that worked
or is just being put back (`TrialOK`, `FoldersOK`); only a thread in its proof may
clear it, and it heard an engine that works (`ProofOK`, `HeardOK`); staged folders
and running serves are what they say (`StagedOK`, `ServesOK`). `OldIsKept`
is `OldKept` whatever is refused, from a second invariant (`FineInv`): an engine
that is `Fine` (works, or is the hulk of one) is in `bin` whenever no trial stands
and in `bin` or `bin.old` always, nothing worse is in `bin.old`, and a roll-back has
a trial to undo; it needs nothing of whose proof it is. `OneCallerKeeps`: with one
caller at a time, its proof included, nobody is ever `misled` (`OwnTrialOK`).

`GeneratorProofs`, for any finite set of job ids, any callers and limits: all four
properties of the run. `OneWorker` needs to know who has the slot in between: a create
from its first look at `active` to its second (`SlotOK`), so that `active` being
nothing means there that nobody works. `ActivityCounts` is a fact about cardinalities
of `held`, whose lemma `LetGoCounts` also says that the floor in `Activity.end` is
never met. `HeldIsReachable` needs that only what is `dropped` leaves the table under
its worker (`DroppedOK`), which is what the worker looks at when it ends.

`ChatsProofs`, for any number of windows, turns, chats and faults: all five
properties of the run. Its lemmas on sequences say what a rewind and an append leave
of a prefix; the invariant says who may still end a turn, that a turn's answer
follows what its question saw, and where each chat that was saved is.

`AccountsProofs`, for any finite set of folders, any accounts, chats, pictures that
chats share, and any number and kind of faults: `TypeOK` (`TypesHold`),
`RootUnitsSafe` (`RootUnitsKept`), `UnwantedStaysAway` (`UnwantedKeptAway`) and
`ShownMediaWhole` (`MediaStayWhole`); and, when every `.owner` can be judged,
`FolderStays` (`FoldersStay`) and `Settled` (`StartsSettle`). Without that hypothesis
TLC refutes both of these (`AccountsUnclear`, with either as its invariant).
`FolderStays` speaks of the folders no older record left out (`Held`, that is `owned`
without `disowned`); a lost record takes none out, a restored one all there are. The argument has two layers.

* Each step that moves the job or writes the record is described once, field by field
  (`HoldDoes`, `PutbackDropDoes`, ...); the parts of the invariant cite those lemmas
  and not the actions.
* `Sound` is inductive alone: an operation is only at its own steps (`JobOK`), the
  record names one folder at most, and a lost one none (`RecordOK`),
  the process shows the profile its operation is at (`CtxOK`, `DirOK`), each unit is in root,
  staged or decided (`UnitsOK`, `AwayOK`), and a picture follows the chats that show
  it through the two directions of a move (`MediaOK`).
* `Judged` is inductive given `Sound`: a folder goes only with its decision on
  record (`OwnedOK`, `TakenOK`, `HomeOK`), and the steps of a start settle one thing
  each, in the code's order, which no later step undoes (`SettledOK`).

`AccountsAssumption` says that the folders are finitely many and that the values
standing for "none" and "this computer" are no folder, account, reason or answer.

`WatchdogProofs`, for any timer, limits and set of faults: `TypeOK` and
`AsleepDisarmed`; and `WellIsNotReset` (`TheWellLiveOn`) for every timer with `2 *
FailsToStop <= Timeout` and `ServiceLimit >= 2` (`Patient`). `AsleepDisarmed` needs to
know that a timer runs without its service only after something `spoiled` or `killed`
names (`TimerOK`), and that from the hook's pause on the timer is stopped, or the
pause is still to come, or an exception holds (`AwayOK`), which no turn in between may
undo; and that nothing asked is left over when the machine sleeps (`SleepOK`). For
`WellIsNotReset`, while nothing is wrong the loop has the device and counts
(`PettedOK`), so each unit of time without a pet is a failure (`AgeOK`); a jump of the
clocks forgives the failures, but only once (`OnceOK`): it takes a device that was
opened between a pause and the sleep, and the next pause closes it. The age is then
less than two series of failures, and that is tight: with a timer one unit shorter TLC
finds the reset (`Timeout` 3 and 2 failures, which is the chip's 30 s; 5 and 3
failures).

Only model-checked: liveness (`RequestsEnd`, `IdleSleeps`, `EngineAgain`,
`DeadIsReset`, `WellIsWatched`), which is out of this prover's reach; and `GpuOnly`,
`RamAlone`, `NothingStaysLoaded`, `OllamaIsBack`, `FolderStays` and `Settled` outside
the hypotheses above, where TLC has counterexamples. Every other invariant and action
property of a passing run is a theorem.

## Limits

* A worker's ComfyUI prompt ends with its job. That ComfyUI may compute on after a
  gateway restart, or after ten unanswered polls, is not modelled.
* The sweep's two halves, under the lock and after it, are one action.
* A call to Ollama given up by a restarted gateway ends when its connection does.
* `sleep.json` is read and written whole; two writers losing one another's change
  is not modelled. Of the hook's other steps only the watchdog's are modelled, in
  `Watchdog`; Wi-Fi, fans and lights are left out.
* Ollama's choice of what to evict or spill is any choice.
* `AutoSleep` sees sleeps longer than `RESUME_JUMP_S`; a shorter one goes unnoticed
  by the code. A service that restarts forgets the last wake.
* `Watchdog`: what a probe reads is one disk that answers or doesn't; the chip takes
  the timeout it is asked; a signal reaches a unit that is active at once. The timer
  doesn't run while the machine is asleep. The status file says what the process
  last knew; one left by a dead process only makes the hook wait its five seconds.
* `Accounts`: memory facts, settings and the legacy files go the way of the chats
  and are left out, and so are profiles a developer's copy makes.
* `Engine`: the swap on ARM Windows and the copy from a sibling app are left out.
  `_apply_staged_engine` checks no `bad`: the fetch does.
* `Chats`: ops that create, rename or append without a turn, the eviction beyond
  `CHATS_KEEP` and the legacy `chats.json` are left out; a copy's undo window ends
  in a step of its own.

## Not modelled

* **Pairing**: a root step that runs alone, with three files around it. What it is
  exposed to: an owner's command between the step's read of the window or the device
  list and its write (`o1pair.py:87`, `:175`), and a gateway that stops waiting while
  the step still pairs (`o1pair.py:249`).
* **Sync server**: its client isn't in this repository, so what a retry may do can't
  be read from the source. A push is answered inside the transaction
  (`concordeai_sync.py:229`): if the commit then fails, the version the client was
  told is given again to another push.
* **Model sets and library**: one request at a time behind a lock; what is hard is
  the content of the plan.
* **HTTP, Access, signatures, keys**: decisions on one request from cryptographic
  values, with no state but a cache of nonces.
* **Fans, tuning, tariff, power plans, lights**: control over continuous values.
* **Panel, dashboard, drawing, the app's windows and speech**: presentation.
* **Updates, migration, Wi-Fi, LAN, remote desktop, installer, packaging,
  evaluation**: scripts whose effects are on other programs.
* **The app's other stores** (settings, memory, ledger): one writer each, whole files.

Hazards known and not covered by a property of a run: an embedding relayed before
its model is checked (`ollama1-gateway:1513`); a sweep that overtakes a job's end
(`o1gen.py:633`); a ComfyUI still computing after ten unanswered polls or a gateway
restart (`o1gen.py:737`, `ollama1-gateway:1584`); two writers of `sleep.json`.

## Plan

Done: `Slot`, `Gateway`, `Card`, `Generator`, `Sleep`, `AutoSleep`, `Watchdog`,
`Accounts`, `Engine`, `Chats`, and the proofs above. What is left, in order:

1. The composition of `AutoSleep`, `Watchdog` and `Sleep` at the hook: one suspend
   seen by all three, with the hook's real order.
2. `ModelPlan`: the spool, the lock shared with the library's sync, the allow-list
   against what is installed, a step that fails half way.
3. `Pairing`: an abstract device list implemented by read, change and write.
4. `Generator`'s sweep split at the lock; ComfyUI's own queue beside the job; the
   record of `Sleep` as read, change, write.
