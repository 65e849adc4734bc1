------------------------------ MODULE Watchdog ------------------------------
(***************************************************************************)
(* The hardware watchdog: class Watchdog of ollama1/lib/o1watchdog.py, the *)
(* loop that pets the board's timer while a probe of the disks passes, the *)
(* signals the sleep hook and systemd send it, the timer itself, and what  *)
(* systemd does when the loop dies or doesn't notify it.                   *)
(*                                                                         *)
(* A unit of time is the loop's interval; a turn, its probe included, ends *)
(* within it.                                                              *)
(***************************************************************************)
EXTENDS Naturals

CONSTANTS
  Timeout,       \* the board's timer
  FailsToStop,   \* FAILS_TO_STOP
  Hold,          \* RESUME_HOLD_S
  ServiceLimit,  \* WatchdogSec of the unit
  HookLimit,     \* how long the sleep hook takes after the pause
  Faults         \* the bad things that may happen, see Next

ASSUME WatchdogAssumption ==
  /\ Timeout \in Nat /\ FailsToStop \in Nat \ {0} /\ Hold \in Nat
  /\ ServiceLimit \in Nat /\ HookLimit \in Nat

VARIABLES
  svc,       \* the unit: off (dead, systemd starts it again), starting, up, stopped
  state,     \* Watchdog.state
  handle,    \* is the device open
  fails,     \* Watchdog.fails, counted up to FailsToStop
  well,      \* did the last probe pass
  asks,      \* ev_stop, ev_pause, ev_resume
  pc,        \* the loop waits, or looks for the probe's result
  busy,      \* is a probe's thread alive
  due,       \* has the loop still to turn in this unit of time
  hold,      \* what is left until hold_until
  timer,     \* does the board's timer run
  age,       \* how long ago it was petted; 0 when it doesn't run
  quiet,     \* how long ago the unit last notified systemd
  disk,      \* does the disk answer
  present,   \* is there a hardware watchdog
  machine,   \* and the sleep hook's progress
  waited,    \* how long the hook has been at it since the pause
  slept,     \* do the clocks tell of a sleep since the last turn
  sick,      \* history: since the last pet, something was wrong that a reset answers
  killed,    \* history: systemd killed the unit since, because it wasn't notified
  spoiled    \* history: the pause couldn't reach the process that has the device

loop == <<state, handle, fails, well, pc, busy, hold>>

board == <<timer, age>>

world == <<disk, present, machine, waited>>

history == <<sick, spoiled, killed>>

vars == <<svc, loop, asks, due, board, quiet, world, slept, history>>

Live == svc \in {"starting", "up"}

Awake == machine \notin {"asleep", "reset"}

TypeOK ==
  /\ svc \in {"off", "starting", "up", "stopped"}
  /\ state \in {"starting", "no-device", "petting", "tripped", "paused", "holding", "stopped"}
  /\ handle \in BOOLEAN /\ (handle => Live /\ timer /\ present /\ state \in {"petting", "tripped"})
  /\ fails \in 0..FailsToStop
  /\ well \in BOOLEAN
  /\ asks \subseteq {"stop", "pause", "resume"}
  /\ pc \in {"wait", "look"} /\ (pc = "look" => Live /\ busy)
  /\ busy \in BOOLEAN /\ due \in BOOLEAN
  /\ hold \in 0..Hold
  /\ timer \in BOOLEAN
  /\ age \in 0..Timeout /\ (~timer => age = 0)
  /\ quiet \in 0..ServiceLimit
  /\ disk \in {"answers", "dead"}
  /\ present \in BOOLEAN
  /\ machine \in {"awake", "pausing", "leaving", "asleep", "waking", "reset"}
  /\ waited \in 0..HookLimit
  /\ slept \in BOOLEAN /\ sick \in BOOLEAN /\ spoiled \in BOOLEAN /\ killed \in BOOLEAN

\* Watchdog.__init__, in a process that systemd has just started.
Fresh ==
  /\ svc' = "starting"
  /\ state' = "starting"
  /\ handle' = FALSE
  /\ fails' = 0
  /\ well' = FALSE
  /\ asks' = {}
  /\ pc' = "wait"
  /\ busy' = FALSE
  /\ due' = TRUE
  /\ hold' = 0
  /\ quiet' = 0
  /\ slept' = FALSE

\* The machine has booted.
Init ==
  /\ svc = "starting" /\ state = "starting" /\ handle = FALSE
  /\ fails = 0 /\ well = FALSE
  /\ asks = {} /\ pc = "wait" /\ busy = FALSE /\ due = TRUE
  /\ hold = 0
  /\ timer = FALSE /\ age = 0 /\ quiet = 0
  /\ disk = "answers" /\ present \in BOOLEAN
  /\ machine = "awake" /\ waited = 0 /\ slept = FALSE
  /\ sick = FALSE /\ spoiled = FALSE /\ killed = FALSE

-----------------------------------------------------------------------------
(* handle_requests: a resume first, then a pause, then a stop *)

\* The loop turns when its time has come or a signal pokes it, and stops looking
\* for a probe's result at a pause or a stop.
Turns ==
  /\ Live /\ Awake
  /\ IF pc = "wait" THEN due \/ asks # {} ELSE asks \cap {"stop", "pause"} # {}

Resumes == "resume" \in asks /\ state = "paused"

Resumed == IF Resumes THEN "holding" ELSE state

Pauses == "pause" \in asks /\ Resumed \notin {"tripped", "paused"}

\* The state the turn goes on with.
Asked == IF Pauses THEN "paused" ELSE Resumed

\* _check_jump and a resume forget the failures.
Forgives == Resumes \/ (slept /\ state # "tripped")

FailsNow == IF Forgives THEN 0 ELSE fails

HoldNow == IF Resumes THEN Hold ELSE hold

\* Mutant: the device is closed, and stays in handle.
DisarmKeeps ==
  /\ handle' = handle
  /\ timer' = (timer /\ ~handle)
  /\ age' = IF handle THEN 0 ELSE age

\* _disarm: the magic character, then close.
Disarm ==
  /\ handle' = FALSE
  /\ timer' = (timer /\ ~handle)
  /\ age' = IF handle THEN 0 ELSE age

\* The end of a turn. After its first the unit says READY. A signal that ended the
\* look for the probe has set poke: the next turn follows at once.
TurnEnds ==
  /\ pc' = "wait"
  /\ due' = (pc = "look" /\ asks # {})
  /\ svc' = "up"

\* shutdown: one that is well writes the magic character, any other leaves the
\* timer armed.
Healthy == Asked = "petting" /\ fails = 0 /\ well

TurnStops ==
  /\ Turns
  /\ "stop" \in asks
  /\ \/ /\ Pauses \/ Healthy \/ ~handle
        /\ Disarm
        /\ UNCHANGED history
     \/ /\ ~Pauses /\ ~Healthy /\ handle
        /\ handle' = FALSE
        /\ sick' = (sick \/ ~well) /\ spoiled' = TRUE /\ UNCHANGED killed
        /\ UNCHANGED board
  /\ svc' = "stopped" /\ state' = "stopped"
  /\ asks' = {} /\ pc' = "wait" /\ busy' = FALSE
  /\ UNCHANGED <<fails, well, due, hold, quiet, world, slept>>

\* A pause that is handled, and every turn after it: the status is written and
\* the turn is over. systemd isn't notified.
TurnPauses ==
  /\ Turns
  /\ "stop" \notin asks
  /\ Asked = "paused"
  /\ IF Pauses THEN Disarm ELSE UNCHANGED <<handle, board>>
  /\ state' = "paused"
  /\ asks' = {}
  /\ fails' = FailsNow /\ slept' = FALSE
  /\ hold' = HoldNow
  /\ TurnEnds
  /\ UNCHANGED <<well, busy, quiet, world, history>>

-----------------------------------------------------------------------------
(* tick: the probe, then the pet *)

\* Mutant: not after a resume.
OpensFresh(s, ok, h) == s \in {"starting", "no-device"} /\ (ok \/ h = 0)

\* Mutant: a device is opened only when the probe passes.
OpensWell(s, ok, h) == s \in {"starting", "holding", "no-device"} /\ ok

\* A device that isn't open is opened when the probe passes, or when the time to
\* wait for the disk is over.
Opens(s, ok, h) == s \in {"starting", "holding", "no-device"} /\ (ok \/ h = 0)

\* Mutant: one failure too early.
TripsEarly(s, count) == s = "petting" /\ count >= FailsToStop - 1

\* An open one is left to run out after FailsToStop failures in a row.
Trips(s, count) == s = "petting" /\ count >= FailsToStop

\* What a turn in state s, with f failures so far and h left to hold, makes of a
\* probe. With a device that doesn't take part (~lets) it neither opens nor pets.
Verdict(s, f, h, ok, lets) ==
  LET count == IF ~ok THEN IF f < FailsToStop THEN f + 1 ELSE f
               ELSE IF s = "tripped" THEN f ELSE 0
      opens == ~handle /\ lets /\ Opens(s, ok, h)
      on    == IF opens THEN "petting" ELSE s
      trips == (handle \/ opens) /\ Trips(on, count)
      pets  == (handle \/ opens) /\ on = "petting" /\ ok /\ ~trips /\ lets
  IN /\ state' = IF trips THEN "tripped" ELSE on
     /\ handle' = (handle \/ opens)
     /\ fails' = count /\ well' = ok
     /\ timer' = (timer \/ opens)
     /\ age' = IF opens \/ pets THEN 0 ELSE age
     /\ quiet' = 0
     /\ sick' = (~pets /\ (sick \/ ~lets \/ count = FailsToStop))
     /\ spoiled' = (spoiled /\ ~(pets /\ machine = "awake"))
     /\ killed' = (killed /\ ~(pets /\ machine = "awake"))
     /\ hold' = h
     /\ TurnEnds
     /\ UNCHANGED world

\* A turn that isn't for a pause or a stop.
TurnGoesOn ==
  /\ Turns /\ pc = "wait"
  /\ "stop" \notin asks /\ Asked # "paused"
  /\ asks' = {}
  /\ slept' = FALSE

\* No hardware watchdog: the first turn looks for one, and some of the turns after
\* it (RESCAN_S). systemd isn't notified.
TurnFindsNone ==
  /\ TurnGoesOn
  /\ ~present
  /\ \/ state' = "no-device" /\ hold' = 0
     \/ svc = "up" /\ state' = Asked /\ hold' = HoldNow
  /\ fails' = FailsNow
  /\ TurnEnds
  /\ UNCHANGED <<handle, well, busy, board, quiet, world, history>>

\* The probe begins in a thread of its own.
TurnProbes ==
  /\ TurnGoesOn
  /\ present /\ ~busy
  /\ state' = Asked
  /\ fails' = FailsNow
  /\ hold' = HoldNow
  /\ pc' = "look" /\ busy' = TRUE
  /\ UNCHANGED <<svc, handle, well, due, board, quiet, world, history>>

\* An earlier probe still hangs: none is begun.
TurnFindsStuck(lets) ==
  /\ TurnGoesOn
  /\ present /\ busy
  /\ Verdict(Asked, FailsNow, HoldNow, FALSE, lets)
  /\ UNCHANGED busy

\* The probe ends in time: it passed if the disk answers.
ProbeEnds(lets) ==
  /\ pc = "look" /\ Awake /\ asks \subseteq {"resume"}
  /\ busy' = FALSE
  /\ Verdict(state, fails, hold, disk = "answers", lets)
  /\ UNCHANGED <<asks, slept>>

\* It doesn't: its thread is left alone.
ProbeLate(lets) ==
  /\ pc = "look" /\ Awake /\ asks \subseteq {"resume"}
  /\ Verdict(state, fails, hold, FALSE, lets)
  /\ UNCHANGED <<asks, slept, busy>>

\* A pause ends the look of a watchdog that has tripped: it stays armed.
TrippedStays(lets) ==
  /\ Turns /\ pc = "look"
  /\ "stop" \notin asks /\ Asked # "paused"
  /\ asks' = {}
  /\ Verdict(Asked, fails, hold, FALSE, lets)
  /\ UNCHANGED <<slept, busy>>

\* The device doesn't take the magic character: the pause fails in the middle of
\* a turn, and the loop goes on without the device (run).
PauseFails ==
  /\ Turns
  /\ Pauses /\ handle
  /\ handle' = FALSE
  /\ asks' = asks \cap {"stop"}
  /\ sick' = TRUE /\ spoiled' = TRUE /\ UNCHANGED killed
  /\ TurnEnds
  /\ UNCHANGED <<state, fails, well, busy, hold, board, quiet, world, slept>>

\* A probe that was given up ends; its result is thrown away.
ThreadEnds ==
  /\ pc = "wait" /\ busy /\ Awake
  /\ busy' = FALSE
  /\ UNCHANGED <<svc, state, handle, fails, well, asks, pc, due, hold, board, quiet, world, slept, history>>

-----------------------------------------------------------------------------
(* systemd *)

\* The process is gone, and the device is closed without the magic character.
Gone(s) ==
  /\ svc' = s
  /\ handle' = FALSE
  /\ state' = "starting" /\ fails' = 0 /\ well' = FALSE /\ asks' = {}
  /\ pc' = "wait" /\ busy' = FALSE /\ due' = FALSE /\ hold' = 0
  /\ quiet' = 0 /\ slept' = FALSE
  /\ UNCHANGED <<board, world>>

\* A bug, a kill, a device that doesn't take the magic character while the loop
\* waits: the timer stays as it is.
Crash ==
  /\ Live /\ Awake
  /\ Gone(IF "stop" \in asks THEN "stopped" ELSE "off")
  /\ sick' = TRUE /\ spoiled' = TRUE /\ UNCHANGED killed

\* WatchdogSec: the unit hasn't notified systemd.
SystemdKills ==
  /\ svc = "up" /\ Awake
  /\ quiet = ServiceLimit
  /\ Gone(IF "stop" \in asks THEN "stopped" ELSE "off")
  /\ killed' = TRUE
  /\ UNCHANGED <<sick, spoiled>>

\* Restart=always, RestartSec=2.
SystemdStarts ==
  /\ svc = "off" /\ Awake
  /\ Fresh
  /\ UNCHANGED <<board, world, history>>

\* systemctl stop, and systemctl start.
OwnerStops ==
  /\ Awake
  /\ \/ Live /\ asks' = asks \cup {"stop"} /\ UNCHANGED svc
     \/ svc = "off" /\ svc' = "stopped" /\ UNCHANGED asks
  /\ UNCHANGED <<loop, due, board, quiet, world, slept, history>>

OwnerStarts ==
  /\ Awake
  /\ svc = "stopped"
  /\ Fresh
  /\ spoiled' = (spoiled \/ machine # "awake")
  /\ UNCHANGED <<board, world, sick, killed>>

-----------------------------------------------------------------------------
(* The sleep hook (sleep_signal) and the machine *)

\* Mutant: to a unit that isn't active.
SignalsLate(sig) == asks' = IF svc = "starting" THEN asks \cup {sig} ELSE asks

\* Only a unit that is active gets the signal.
Signals(sig) == asks' = IF svc = "up" THEN asks \cup {sig} ELSE asks

HookPauses ==
  /\ machine = "awake"
  /\ machine' = IF svc = "up" THEN "pausing" ELSE "leaving"
  /\ Signals("pause")
  /\ waited' = 0
  /\ spoiled' = (spoiled \/ svc # "up")
  /\ UNCHANGED <<svc, loop, due, board, quiet, disk, present, slept, sick, killed>>

\* pause returns: the status says that the device is closed.
PauseSeen ==
  /\ machine = "pausing"
  /\ state = "paused" \/ ~handle
  /\ machine' = "leaving"
  /\ UNCHANGED <<svc, loop, asks, due, board, quiet, disk, present, waited, slept, history>>

\* It doesn't say so within PAUSE_WAIT_S: the watchdog tripped, or its loop stalls.
PauseUnseen ==
  /\ machine = "pausing"
  /\ asks = {} \/ "stall" \in Faults
  /\ ~(state = "paused" \/ ~handle)
  /\ machine' = "leaving"
  /\ UNCHANGED <<svc, loop, asks, due, board, quiet, disk, present, waited, slept, history>>

\* The machine sleeps. The loop has had its turn by then, unless it stalls.
Suspends ==
  /\ machine = "leaving"
  /\ asks = {} \/ "stall" \in Faults
  /\ machine' = "asleep"
  /\ spoiled' = (spoiled \/ asks # {})
  /\ UNCHANGED <<svc, loop, asks, due, board, quiet, disk, present, waited, slept, sick, killed>>

\* The clocks tell a sleep of more than JUMP_S.
Wakes ==
  /\ machine = "asleep"
  /\ machine' = "waking"
  /\ \E long \in BOOLEAN : slept' = (slept \/ long)
  /\ UNCHANGED <<svc, loop, asks, due, board, quiet, disk, present, waited, history>>

HookResumes ==
  /\ machine = "waking"
  /\ machine' = "awake"
  /\ Signals("resume")
  /\ UNCHANGED <<svc, loop, due, board, quiet, disk, present, waited, slept, history>>

\* The disk drops off the bus, or comes back.
DiskChanges ==
  /\ Awake
  /\ disk' = IF disk = "dead" THEN "answers" ELSE "dead"
  /\ UNCHANGED <<svc, loop, asks, due, board, quiet, present, machine, waited, slept, history>>

\* The loop is punctual, and systemd starts a dead unit in time.
OnTime == (Live => ~due /\ asks = {} /\ pc = "wait") /\ svc # "off"

\* A unit of time passes.
Passes ==
  /\ machine = "awake" \/ (machine = "leaving" /\ waited < HookLimit)
  /\ timer => age < Timeout
  /\ svc = "up" => quiet < ServiceLimit
  /\ due' = Live
  /\ hold' = IF hold > 0 THEN hold - 1 ELSE 0
  /\ age' = IF timer THEN age + 1 ELSE 0
  /\ quiet' = IF svc = "up" THEN quiet + 1 ELSE 0
  /\ waited' = IF machine = "leaving" THEN waited + 1 ELSE waited
  /\ UNCHANGED <<svc, state, handle, fails, well, asks, pc, busy, timer, disk, present, machine, slept, spoiled, killed>>

Time == OnTime /\ Passes /\ UNCHANGED sick

\* Time passes a loop that stalls, or a systemd that does.
Stall == ~OnTime /\ Passes /\ sick' = TRUE

\* The timer runs out, and the board resets.
Resets ==
  /\ Awake
  /\ timer /\ age = Timeout
  /\ machine' = "reset"
  /\ UNCHANGED <<svc, loop, asks, due, board, quiet, disk, present, waited, slept, history>>

\* The machine boots again.
Boots ==
  /\ machine = "reset"
  /\ machine' = "awake"
  /\ Fresh
  /\ timer' = FALSE /\ age' = 0
  /\ disk' = "answers" /\ present' \in BOOLEAN
  /\ waited' = 0
  /\ sick' = FALSE /\ spoiled' = FALSE /\ killed' = FALSE

-----------------------------------------------------------------------------
\* What the loop does while the device lets it.
LoopStep ==
  \/ TurnStops \/ TurnPauses \/ TurnFindsNone \/ TurnProbes
  \/ TurnFindsStuck(TRUE) \/ ProbeEnds(TRUE) \/ TrippedStays(TRUE)
  \/ disk = "dead" /\ ProbeLate(TRUE)

\* What systemd, the hook and the board do.
SystemStep ==
  \/ SystemdKills \/ SystemdStarts
  \/ PauseSeen \/ PauseUnseen \/ Suspends \/ HookResumes
  \/ Resets

\* What somebody or something else does, or doesn't let happen.
Disturb ==
  \/ OwnerStops \/ OwnerStarts
  \/ HookPauses \/ Wakes \/ Boots
  \/ DiskChanges
  \/ "slow" \in Faults /\ disk = "answers" /\ ProbeLate(TRUE)
  \/ "stall" \in Faults /\ Stall
  \/ "crash" \in Faults /\ Crash
  \/ /\ "device" \in Faults
     /\ TurnFindsStuck(FALSE) \/ ProbeEnds(FALSE) \/ TrippedStays(FALSE) \/ PauseFails

Next == LoopStep \/ SystemStep \/ Disturb \/ ThreadEnds \/ Time

Spec == Init /\ [][Next]_vars

\* The loop, systemd, the hook, the board and time go on; a thread ends if the
\* disk answers. Nobody need wake a sleeping machine or boot one that was reset.
FairSpec ==
  /\ Spec
  /\ WF_vars(LoopStep)
  /\ WF_vars(SystemStep)
  /\ WF_vars(Time)
  /\ WF_vars(disk = "answers" /\ ThreadEnds)

-----------------------------------------------------------------------------
(* Properties *)

\* The board resets no machine that is well: since the last pet two probes in a
\* row failed, or the service died, was stopped while failing or couldn't reach
\* the device, or its loop stalled (tick, shutdown). The timer must outlast two
\* series of failures: a sleep between the two has the first forgotten.
WellIsNotReset == [][Resets => sick]_vars

\* The hardware watchdog must not reset the machine across a sleep: it sleeps with
\* the timer stopped, unless the watchdog has tripped, or the pause met a unit that
\* was dead, starting or stopped while failing, one that stalled or couldn't reach
\* the device, one the owner started after it, or one that systemd killed for not
\* notifying it (sleep_signal, handle_requests).
AsleepDisarmed == machine = "asleep" => ~timer \/ state = "tripped" \/ spoiled \/ killed

\* The same of a unit that systemd killed: a paused loop goes on, and nothing is
\* wrong with it.
PausedDisarmed == machine = "asleep" => ~timer \/ state = "tripped" \/ spoiled

\* Nobody disturbs the machine, which has a hardware watchdog, any more.
Left == <>[](present /\ machine # "asleep") /\ <>[][~Disturb]_vars

\* A disk that is dead for good ends in a reset, whatever the sleeps and restarts
\* before, unless the owner stopped the service.
DeadIsReset == Left /\ <>[](disk = "dead") => <>[](machine = "reset" \/ svc = "stopped")

\* A machine whose disk answers is watched again after every sleep and restart:
\* the device is open and petted, unless the owner stopped the service or it was
\* reset for what was before.
WellIsWatched ==
  Left /\ <>[](disk = "answers") =>
    <>[](\/ handle /\ state = "petting"
         \/ machine = "reset" \/ svc = "stopped")
=============================================================================
