------------------------------ MODULE AutoSleep ------------------------------
(***************************************************************************)
(* Auto sleep: class Activity of ollama1/lib/o1idle.py, which the gateway  *)
(* keeps and writes to a file, and class Idle, the root service that reads *)
(* the file, probes the machine and suspends it.  The two share nothing    *)
(* but the file, and nothing keeps a request from beginning between the    *)
(* service's look and the suspend.                                         *)
(*                                                                         *)
(* Times are ages, in some unit of time, counted up to Old; an age of Old  *)
(* is "that long ago or more".  What the code gets by subtracting two      *)
(* clock readings is the difference of two ages.                           *)
(***************************************************************************)
EXTENDS Naturals, FiniteSets

CONSTANTS
  Requests,   \* the handlers and jobs that call begin and end
  Loop,       \* the gateway's stats loop, the other writer of the file
  Minutes,    \* the idle time the owner picked
  Stale,      \* ACTIVITY_STALE_S
  Ahead,      \* how far ahead of the tick the file may be
  Slow,       \* how long the probes of one tick may take together
  Faults,     \* the bad things that may happen, see Next
  None

ASSUME AutoSleepAssumption ==
  /\ IsFiniteSet(Requests)
  /\ Loop \notin Requests
  /\ Minutes \in Nat /\ Stale \in Nat /\ Ahead \in Nat /\ Slow \in Nat
  /\ Stale < Minutes
  /\ None \notin [at : Nat, last : Nat \cup {None}]

VARIABLES
  at,        \* where each writer is: a request out of, in or past begin
  inflight,  \* Activity.inflight
  last,      \* Activity.last; 0 while something is in flight, when nobody looks at it
  shot,      \* the snapshot each writer is about to write, or None
  file,      \* the activity file, or None
  pc,        \* where the tick is
  asked,     \* the tick's now, 0 between ticks
  due,       \* all that the tick has read so far is for sleeping
  since,     \* the later of Idle.last_resume and Idle.last_busy
  booted,    \* the boot
  jumped,    \* did the machine sleep since Idle.prev was set, or is that None
  obstacle,  \* what is in the way of a sleep
  asleep,
  worked,    \* history: the ages at which a request was running
  rest       \* history: the last wake or refused sleep this service knew of

gateway == <<at, inflight, last, shot, file>>
idle == <<pc, asked, due, since, jumped>>
machine == <<obstacle, asleep>>
vars == <<gateway, idle, booted, machine, worked, rest>>

Old == Minutes + Slow
Ages == 0..Old
Writers == Requests \cup {Loop}
\* What decide goes by: when the snapshot was true, and the last activity if
\* nothing was in flight (None if something was).
Shots == [at : Ages, last : Ages \cup {None}]

\* The setting is off; the card or the processors are busy; a tool runs or an
\* inhibitor blocks sleep; a unit of busy_reasons runs.  One at a time is enough.
Obstacles == {"none", "off", "load", "tool", "unit"}

Running == {r \in Requests : at[r] # "out"}

\* An age one unit of time later.
Older(a) == IF a < Old THEN a + 1 ELSE Old

\* The same for a snapshot.
Aged(s) == IF s = None THEN None
           ELSE [at |-> Older(s.at), last |-> IF s.last = None THEN None ELSE Older(s.last)]

\* The same for a sleep.
LongAgo(s) == IF s = None THEN None
              ELSE [at |-> Old, last |-> IF s.last = None THEN None ELSE Old]

\* Every variable keeps its type, and every begin has its end: what is in flight
\* is what runs, so end's max(0, ...) is never needed.
TypeOK ==
  /\ at \in [Writers -> {"out", "counted", "writing", "in"}]
  /\ inflight = Cardinality(Running)
  /\ last \in Ages
  /\ shot \in [Writers -> Shots \cup {None}]
  /\ file \in Shots \cup {None}
  /\ pc \in {"rest", "reading", "probing", "asking", "returning"}
  /\ asked \in Ages
  /\ due \in BOOLEAN
  /\ since \in Ages /\ booted \in Ages
  /\ jumped \in {"unknown", "no", "yes"}
  /\ obstacle \in Obstacles
  /\ asleep \in BOOLEAN
  /\ worked \subseteq Ages
  /\ rest \in Ages

\* The machine has just booted, the gateway and the service have just begun.
Init ==
  /\ at = [w \in Writers |-> "out"]
  /\ inflight = 0
  /\ last = 0
  /\ shot = [w \in Writers |-> None]
  /\ file = None
  /\ pc = "rest"
  /\ asked = 0
  /\ due = FALSE
  /\ since = Old
  /\ booted = 0
  /\ jumped = "unknown"
  /\ obstacle \in Obstacles
  /\ asleep = FALSE
  /\ worked = {}
  /\ rest = Old

-----------------------------------------------------------------------------
(* The gateway: Activity *)

\* begin, under the lock.
Begin(r) ==
  /\ at[r] = "out"
  /\ inflight' = inflight + 1
  /\ last' = 0
  /\ at' = [at EXCEPT ![r] = "counted"]
  /\ worked' = worked \cup {0}
  /\ UNCHANGED <<shot, file, idle, booted, machine, rest>>

\* A snapshot with this last activity.
Seen(a) == [at |-> 0, last |-> IF inflight = 0 THEN a ELSE None]

\* Mutant: the loop's own look counts as work, as if a poll touched it.
SnapshotTouches(w) ==
  /\ at[w] = IF w = Loop THEN "out" ELSE "counted"
  /\ shot' = [shot EXCEPT ![w] = Seen(0)]
  /\ at' = [at EXCEPT ![w] = "writing"]
  /\ UNCHANGED <<inflight, last, file, idle, booted, machine, worked, rest>>

\* The snapshot write takes under the lock, for begin and for stats_loop.
Snapshot(w) ==
  /\ at[w] = IF w = Loop THEN "out" ELSE "counted"
  /\ shot' = [shot EXCEPT ![w] = Seen(last)]
  /\ at' = [at EXCEPT ![w] = "writing"]
  /\ UNCHANGED <<inflight, last, file, idle, booted, machine, worked, rest>>

\* Where a writer goes on: the loop to its next round, begin returns.
Written(w) ==
  /\ at' = [at EXCEPT ![w] = IF w = Loop THEN "out" ELSE "in"]
  /\ shot' = [shot EXCEPT ![w] = None]

\* Mutant: the file says when it was written, not when it was true.
WriteStamped(w) ==
  /\ at[w] = "writing"
  /\ file' = [shot[w] EXCEPT !.at = 0]
  /\ Written(w)
  /\ UNCHANGED <<inflight, last, idle, booted, machine, worked, rest>>

\* write_json_atomic, outside the lock: an older snapshot may come last.
Write(w) ==
  /\ at[w] = "writing"
  /\ file' = shot[w]
  /\ Written(w)
  /\ UNCHANGED <<inflight, last, idle, booted, machine, worked, rest>>

\* An OSError of the write is passed over.
WriteFails(w) ==
  /\ at[w] = "writing"
  /\ Written(w)
  /\ UNCHANGED <<inflight, last, file, idle, booted, machine, worked, rest>>

\* Mutant: a way out of a request that passes over its end.
EndSkipped(r) ==
  /\ at[r] = "in"
  /\ at' = [at EXCEPT ![r] = "out"]
  /\ UNCHANGED <<inflight, last, shot, file, idle, booted, machine, worked, rest>>

\* end: nothing is written, the file follows with the loop.
End(r) ==
  /\ at[r] = "in"
  /\ inflight' = IF inflight > 0 THEN inflight - 1 ELSE 0
  /\ last' = 0
  /\ at' = [at EXCEPT ![r] = "out"]
  /\ UNCHANGED <<shot, file, idle, booted, machine, worked, rest>>

\* A job is polled or a set of models was accepted.
Touch ==
  /\ last' = 0
  /\ UNCHANGED <<at, inflight, shot, file, idle, booted, machine, worked, rest>>

\* A new process: nothing in flight, busy a moment ago; the file stays.
GatewayRestarts ==
  /\ at' = [w \in Writers |-> "out"]
  /\ inflight' = 0
  /\ last' = 0
  /\ shot' = [w \in Writers |-> None]
  /\ UNCHANGED <<file, idle, booted, machine, worked, rest>>

-----------------------------------------------------------------------------
(* The service: Idle.tick *)

\* The machine sleeps for long: when it wakes, all there was is long ago, and
\* the requests are where they were.
Sleeps ==
  /\ asleep' = TRUE
  /\ last' = IF inflight = 0 THEN Old ELSE 0
  /\ shot' = [w \in Writers |-> LongAgo(shot[w])]
  /\ file' = LongAgo(file)
  /\ asked' = IF pc = "rest" THEN 0 ELSE Old
  /\ since' = Old /\ booted' = Old
  /\ jumped' = IF jumped = "unknown" THEN "unknown" ELSE "yes"
  /\ worked' = IF Running = {} THEN {} ELSE {0}
  /\ rest' = IF jumped = "unknown" THEN Old ELSE 0
  /\ UNCHANGED <<at, inflight, due, obstacle>>

\* Mutant: the first look after a wake doesn't notice it.
TickStartsUnaware ==
  /\ pc = "rest"
  /\ pc' = "reading"
  /\ asked' = 0
  /\ jumped' = "no"
  /\ UNCHANGED <<due, since, gateway, booted, machine, worked, rest>>

\* Wall clock against monotonic clock: a sleep since the last tick counts as
\* activity now.  The probes for the cards that can wake come next.
TickStarts ==
  /\ pc = "rest"
  /\ pc' = "reading"
  /\ asked' = 0
  /\ since' = IF jumped = "yes" THEN 0 ELSE since
  /\ jumped' = "no"
  /\ UNCHANGED <<due, gateway, booted, machine, worked, rest>>

\* read_activity: a file that is ahead of the tick's now, or was not written
\* lately, says nothing.
Fresh ==
  /\ file # None
  /\ file.at + Ahead >= asked
  /\ file.at <= asked + Stale

\* decide, as far as the setting and the file go: nothing in flight, and _since
\* lies a whole idle time before the tick's now.
Due ==
  /\ obstacle # "off"
  /\ Fresh
  /\ file.last # None
  /\ \A a \in {file.last, since, booted} : a >= asked + Minutes

TickReads ==
  /\ pc = "reading"
  /\ pc' = "probing"
  /\ due' = Due
  /\ UNCHANGED <<asked, since, jumped, gateway, booted, machine, worked, rest>>

TickEnds == pc' = "rest" /\ asked' = 0

\* The other probes, which may take their time, and the decision.
TickDecides ==
  /\ pc = "probing"
  /\ since' = IF obstacle = "load" /\ asked < since THEN asked ELSE since
  /\ \/ /\ due /\ obstacle \in {"none", "off"}
        /\ pc' = "asking"
        /\ UNCHANGED asked
     \/ /\ ~due \/ obstacle \notin {"none", "off"}
        /\ TickEnds
  /\ due' = FALSE
  /\ UNCHANGED <<jumped, gateway, booted, machine, worked, rest>>

\* The helper refuses, or systemctl suspend says no: the idle clock starts again.
Refuse ==
  /\ pc = "asking"
  /\ obstacle = "unit" \/ "refused" \in Faults
  /\ rest' = 0
  /\ since' = 0
  /\ TickEnds
  /\ UNCHANGED <<due, jumped, gateway, booted, machine, worked>>

\* The same after the wake.
Returns ==
  /\ pc = "returning"
  /\ since' = 0
  /\ TickEnds
  /\ UNCHANGED <<due, jumped, gateway, booted, machine, worked, rest>>

\* suspend raises (the helper took more than 600 s): main logs it and goes on.
TickFails ==
  /\ pc = "asking"
  /\ TickEnds
  /\ UNCHANGED <<due, since, jumped, gateway, booted, machine, worked, rest>>

\* systemd restarts the service: it knows of no wake and no busy tick.
ServiceRestarts ==
  /\ TickEnds
  /\ due' = FALSE
  /\ since' = Old
  /\ jumped' = "unknown"
  /\ rest' = Old
  /\ UNCHANGED <<gateway, booted, machine, worked>>

-----------------------------------------------------------------------------
(* The machine and its owner *)

\* ollama1-helper sleep asks busy_reasons again and suspends.
Suspend ==
  /\ pc = "asking"
  /\ obstacle # "unit"
  /\ pc' = "returning"
  /\ Sleeps

\* Sleep now, the power button, systemctl suspend.
OwnerSleeps ==
  /\ UNCHANGED pc
  /\ Sleeps

Wake ==
  /\ asleep
  /\ asleep' = FALSE
  /\ UNCHANGED <<gateway, idle, booted, obstacle, worked, rest>>

\* A unit of time passes; the probes of a tick have time limits.
Time ==
  /\ pc \in {"reading", "probing", "asking"} => asked # Slow
  /\ last' = IF inflight = 0 THEN Older(last) ELSE 0
  /\ shot' = [w \in Writers |-> Aged(shot[w])]
  /\ file' = Aged(file)
  /\ asked' = IF pc = "rest" THEN asked ELSE Older(asked)
  /\ since' = Older(since) /\ booted' = Older(booted)
  /\ worked' = ({Older(a) : a \in worked} \ {Old}) \cup (IF Running = {} THEN {} ELSE {0})
  /\ rest' = Older(rest)
  /\ UNCHANGED <<at, inflight, pc, due, jumped, machine>>

\* The owner changes the setting, a download or an update begins or ends.
Change ==
  /\ obstacle' \in Obstacles \ {obstacle}
  /\ UNCHANGED <<gateway, idle, booted, asleep, worked, rest>>

-----------------------------------------------------------------------------
Service == TickStarts \/ TickReads \/ TickDecides \/ Suspend \/ Returns
Writing(w) == Snapshot(w) \/ Write(w)

\* What somebody or something outside does to the gateway, the service or the
\* machine.
Disturb ==
  \/ \E r \in Requests : Begin(r)
  \/ Touch
  \/ Change
  \/ Refuse
  \/ OwnerSleeps
  \/ "write" \in Faults /\ \E w \in Writers : WriteFails(w)
  \/ "gateway" \in Faults /\ GatewayRestarts
  \/ "service" \in Faults /\ ServiceRestarts
  \/ "hang" \in Faults /\ TickFails

Next ==
  \/ /\ ~asleep
     /\ \/ Disturb
        \/ Service
        \/ \E w \in Writers : Writing(w)
        \/ \E r \in Requests : End(r)
        \/ Time
  \/ Wake

Spec == Init /\ [][Next]_vars

\* The service and the loop go on, begin returns and time passes.  Nobody need
\* wake a sleeping machine, and a request may run for ever.
FairSpec ==
  /\ Spec
  /\ WF_vars(~asleep /\ Service)
  /\ \A w \in Writers : WF_vars(~asleep /\ Writing(w))
  /\ WF_vars(~asleep /\ Time)

-----------------------------------------------------------------------------
(* Properties *)

\* The service puts the machine to sleep only when no request was running at
\* any time of the idle period, but for the file's time limit before the tick:
\* whatever order the handlers and the loop write their snapshots in, and
\* however late, a file believed is true of a moment that recent (read_activity,
\* decide).  A tick that was cut in two by another sleep is excepted.
SleepsOnlyIdle ==
  [][Suspend => worked \cap (asked + Stale + 1 .. asked + Minutes - 1) = {}]_vars

\* A whole idle period lies between a wake, or a sleep that was refused, and
\* the next sleep the service asks for (last_resume), with the same exception.
\* A service that was restarted since has forgotten them.
WholePeriod == [][Suspend /\ asked # Old => rest >= asked + Minutes]_vars

\* Also when the tick was cut in two: the tick that was under way when the
\* machine went to sleep must not put it back to sleep as it wakes.
WholePeriodAlways == [][Suspend => rest >= Minutes]_vars

\* Nothing is running, nothing is in the way, and the gateway keeps its file.
Calm ==
  /\ Running = {}
  /\ obstacle = "none"
  /\ pc = "reading" => Fresh

\* A machine left alone sleeps: from the moment nothing is asked of it, and if
\* each tick finds the file fresh, it will be put to sleep, over and over if
\* somebody keeps waking it (tick).
IdleSleeps == (<>[](Calm \/ asleep) /\ <>[][~Disturb]_vars) => []<>asleep
=============================================================================
