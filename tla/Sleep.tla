------------------------------- MODULE Sleep -------------------------------
(***************************************************************************)
(* ollama1/config/ollama1-sleep-hook and ollama1/lib/o1sleep.py: nothing   *)
(* stays loaded across a sleep.  Before every suspend the hook unloads     *)
(* every model, or stops Ollama, and writes what it did into sleep.json;   *)
(* after the wake it starts a check, which reads that record, brings       *)
(* Ollama back and unloads what the record doesn't vouch for.              *)
(*                                                                         *)
(* The hook may be cut off (systemd gives it 90 s), and the check is one   *)
(* systemd unit: starting it while it runs does nothing.  Sleeps are       *)
(* numbered where the code compares times.                                 *)
(***************************************************************************)
EXTENDS Naturals

CONSTANTS
  MaxSleeps,  \* bound: suspends asked for
  Happens     \* what may happen besides: "cutOff", "lateLoad", "sleepInCheck"

ASSUME SleepAssumption ==
  /\ MaxSleeps \in Nat
  /\ Happens \subseteq {"cutOff", "lateLoad", "sleepInCheck"}

VARIABLES
  phase,      \* the machine: awake, in a step of the hook, ready to suspend, asleep
  ollama,     \* up, silent (runs, doesn't answer) or stopped
  holds,      \* models Ollama has loaded: "old" ones from before a sleep, "new" ones
  lastSleep,  \* sleep.json: last_sleep
  pre,        \* sleep.json: pre_sleep, about the sleep it was written for
  found,      \* what the hook will write
  check,      \* where resume_check is
  read,       \* the pre_sleep it read
  emptied,    \* whether it trusts that record
  said        \* what the check will have written: nothing, ok or bad

vars == <<phase, ollama, holds, lastSleep, pre, found, check, read, emptied, said>>
hookVars == <<phase, lastSleep, pre, found>>
checkVars == <<check, read, emptied, said>>

HookSteps == {"unload", "stop", "record"}
Records == [at : 0..MaxSleeps, ok : BOOLEAN, stopped : BOOLEAN, resumed : BOOLEAN]
NoRecord == [at |-> 0, ok |-> FALSE, stopped |-> FALSE, resumed |-> FALSE]

TypeOK ==
  /\ phase \in {"awake", "ready", "asleep"} \cup HookSteps
  /\ ollama \in {"up", "silent", "stopped"}
  /\ holds \in SUBSET {"old", "new"}
  /\ ollama = "stopped" => holds = {}
  /\ lastSleep \in 0..MaxSleeps
  /\ pre \in Records
  /\ found \in [ok : BOOLEAN, stopped : BOOLEAN]
  /\ check \in {"none", "begin", "look", "retry", "again", "clear", "restart", "record"}
  /\ read \in Records
  /\ emptied \in BOOLEAN
  /\ said \in {"nothing", "ok", "bad"}

Init ==
  /\ phase = "awake"
  /\ ollama = "up"
  /\ holds = {}
  /\ lastSleep = 0
  /\ pre = NoRecord
  /\ found = [ok |-> FALSE, stopped |-> FALSE]
  /\ check = "none"
  /\ read = NoRecord
  /\ emptied = FALSE
  /\ said = "nothing"

-----------------------------------------------------------------------------
(* Ollama and its clients *)

LoadPhases == {"awake", "unload"}
                \cup IF "lateLoad" \in Happens THEN {"stop", "record", "ready"} ELSE {}

\* A request loads a model; nothing stops the gateway while the hook runs.
Load ==
  /\ ollama = "up"
  /\ phase \in LoadPhases
  /\ holds' = holds \cup {"new"}
  /\ UNCHANGED <<hookVars, checkVars, ollama>>

Falters ==
  /\ phase # "asleep"
  /\ ollama = "up" /\ ollama' = "silent"
  /\ UNCHANGED <<hookVars, checkVars, holds>>

Recovers ==
  /\ phase # "asleep"
  /\ ollama = "silent" /\ ollama' = "up"
  /\ UNCHANGED <<hookVars, checkVars, holds>>

\* systemctl restart: whatever was loaded is gone, it may answer or not yet.
Restarted == ollama' \in {"up", "silent"} /\ holds' = {}

-----------------------------------------------------------------------------
(* The hook before a suspend: the kit's, the power button's, anyone's *)

Stamp ==
  /\ phase = "awake"
  /\ check = "none" \/ "sleepInCheck" \in Happens
  /\ lastSleep < MaxSleeps
  /\ lastSleep' = lastSleep + 1
  /\ phase' = "unload"
  /\ UNCHANGED <<ollama, holds, pre, found, checkVars>>

\* before_sleep, unload_all: confirmed by an /api/ps that shows nothing, or by an
\* Ollama that doesn't run (when systemd could be asked).
HookUnload ==
  /\ phase = "unload"
  /\ \E gone \in SUBSET holds, confirmed \in BOOLEAN :
       /\ gone # {} => ollama = "up"
       /\ confirmed => ollama = "stopped" \/ (ollama = "up" /\ gone = holds)
       /\ holds' = holds \ gone
       /\ found' = [ok |-> confirmed, stopped |-> FALSE]
       /\ phase' = IF confirmed THEN "record" ELSE "stop"
  /\ UNCHANGED <<ollama, lastSleep, pre, checkVars>>

\* systemctl stop: it worked, or it didn't within its 30 s (and may later).
HookStop ==
  /\ phase = "stop"
  /\ \/ /\ ollama' = "stopped" /\ holds' = {}
        /\ found' \in {[found EXCEPT !.stopped = TRUE], found}
     \/ UNCHANGED <<ollama, holds, found>>
  /\ phase' = "record"
  /\ UNCHANGED <<lastSleep, pre, checkVars>>

HookRecord ==
  /\ phase = "record"
  /\ pre' = [at |-> lastSleep, ok |-> found.ok, stopped |-> found.stopped,
             resumed |-> FALSE]
  /\ phase' = "ready"
  /\ UNCHANGED <<ollama, holds, lastSleep, found, checkVars>>

\* systemd-sleep gives up on the hook and suspends.
HookCutOff ==
  /\ "cutOff" \in Happens
  /\ phase \in HookSteps
  /\ phase' = "ready"
  /\ UNCHANGED <<ollama, holds, lastSleep, pre, found, checkVars>>

\* What is loaded now comes back old.
Suspend ==
  /\ phase = "ready"
  /\ phase' = "asleep"
  /\ holds' = {"old" : m \in holds}
  /\ UNCHANGED <<ollama, lastSleep, pre, found, checkVars>>

\* The hook after the wake, also after a suspend the kernel refused: the check
\* is started, unless it runs.
Post ==
  /\ phase \in {"ready", "asleep"}
  /\ phase' = "awake"
  /\ ollama' \in {ollama} \cup IF ollama = "up" THEN {"silent"} ELSE {}
  /\ check' = IF check = "none" THEN "begin" ELSE check
  /\ UNCHANGED <<holds, lastSleep, pre, found, read, emptied, said>>

-----------------------------------------------------------------------------
(* resume_check *)

\* Mutant: a record of any sleep will do.
EmptiedEver(r) == r.ok \/ r.stopped

\* The record shows this sleep's hook leaving the card empty.
Emptied(r) == (r.ok \/ r.stopped) /\ r.at >= lastSleep

\* The hook stopped Ollama, and no check since has started it.
StartsOllama == pre.stopped /\ ~pre.resumed

\* The record is read once; an Ollama the hook stopped is started first.
CheckBegins ==
  /\ check = "begin" /\ phase # "asleep"
  /\ read' = pre
  /\ emptied' = Emptied(pre)
  /\ check' = "look"
  /\ IF StartsOllama THEN Restarted ELSE UNCHANGED <<ollama, holds>>
  /\ UNCHANGED <<hookVars, said>>

\* Mutant: whatever is loaded is unloaded.
AfterOkClears == "clear"

\* What an answering Ollama leads to.
AfterOk == IF emptied THEN "record" ELSE "clear"

Says(ok) == said' = IF ok THEN "ok" ELSE "bad"

\* Ollama and the card answer; or one doesn't.
CheckLooks ==
  /\ check = "look" /\ phase # "asleep"
  /\ \/ ollama = "up" /\ check' = AfterOk /\ Says(TRUE)
     \/ check' = "retry" /\ Says(FALSE)
  /\ UNCHANGED <<hookVars, ollama, holds, read, emptied>>

\* Mutant: the card and the drive being back is enough.
WasSlowUnasked ==
  /\ check = "retry" /\ phase # "asleep"
  /\ check' = AfterOk
  /\ Says(TRUE)
  /\ UNCHANGED <<hookVars, ollama, holds, read, emptied>>

\* After the wait for the card and the models drive it answers: it was slow.
WasSlow ==
  /\ check = "retry" /\ phase # "asleep"
  /\ ollama = "up"
  /\ check' = AfterOk
  /\ Says(TRUE)
  /\ UNCHANGED <<hookVars, ollama, holds, read, emptied>>

\* Restart 1 and 2 of Ollama and the tunnel.
CheckRestarts ==
  /\ check \in {"retry", "again"} /\ phase # "asleep"
  /\ Restarted
  /\ IF ollama' = "up" THEN check' = AfterOk ELSE check' = IF check = "retry" THEN "again" ELSE "record"
  /\ Says(ollama' = "up")
  /\ UNCHANGED <<hookVars, read, emptied>>

\* The whole check's 480 s are over before a restart.
CheckOutOfTime ==
  /\ check \in {"retry", "again"} /\ phase # "asleep"
  /\ check' = "record"
  /\ UNCHANGED <<hookVars, ollama, holds, read, emptied, said>>

\* after_wake_clear: unloaded, or Ollama is to be restarted.
CheckClears ==
  /\ check = "clear" /\ phase # "asleep"
  /\ \E gone \in SUBSET holds :
       /\ gone # {} => ollama = "up"
       /\ holds' = holds \ gone
       /\ \/ ollama = "up" /\ gone = holds /\ check' = "record"
          \/ check' = "restart"
  /\ UNCHANGED <<hookVars, ollama, read, emptied, said>>

ClearRestarts ==
  /\ check = "restart" /\ phase # "asleep"
  /\ Restarted
  /\ check' = "record"
  /\ Says(ollama' = "up")
  /\ UNCHANGED <<hookVars, read, emptied>>

\* The record is written whole, with the pre_sleep that was read at the start.
CheckRecords ==
  /\ check = "record" /\ phase # "asleep"
  /\ pre' = IF read = NoRecord THEN pre ELSE [read EXCEPT !.resumed = TRUE]
  /\ check' = "none"
  /\ UNCHANGED <<phase, ollama, holds, lastSleep, found, read, emptied, said>>

\* systemctl restart takes longer than 300 s: the check ends without a record.
CheckDies ==
  /\ check \in {"retry", "again", "restart"} \/ (check = "begin" /\ StartsOllama)
  /\ phase # "asleep"
  /\ ollama' = "silent" /\ holds' \in {holds, {}}
  /\ check' = "none"
  /\ said' = "nothing"
  /\ UNCHANGED <<hookVars, read, emptied>>

\* The unit's 15 minutes are over.
CheckKilled ==
  /\ check # "none" /\ phase # "asleep"
  /\ check' = "none"
  /\ said' = "nothing"
  /\ UNCHANGED <<hookVars, ollama, holds, read, emptied>>

-----------------------------------------------------------------------------

Next ==
  \/ Load \/ Falters \/ Recovers
  \/ Stamp \/ HookUnload \/ HookStop \/ HookRecord \/ HookCutOff \/ Suspend \/ Post
  \/ CheckBegins \/ CheckLooks \/ WasSlow \/ CheckRestarts \/ CheckOutOfTime
  \/ CheckClears \/ ClearRestarts \/ CheckRecords
  \/ CheckDies \/ CheckKilled

Spec == Init /\ [][Next]_vars

-----------------------------------------------------------------------------
(* Properties *)

\* A check said that all is well, and no other is due.
Well == phase = "awake" /\ check = "none" /\ said = "ok"

\* README.md, "Nothing stays loaded across a sleep": once the check after a wake
\* said ok, no model from before a sleep answers, whether the hook was cut off,
\* the unload or the stop failed, or Ollama hung.
NothingStaysLoaded == Well => "old" \notin holds

\* README.md, "If Ollama had to be stopped before the sleep, the check starts
\* it": a check that said ok doesn't leave Ollama stopped.
OllamaIsBack == Well => ollama # "stopped"

\* README.md, "a model loaded since is from after the wake ... and is left
\* alone": while the record vouches for this sleep, only an Ollama that was
\* found not answering takes a new model with it.
NewIsLeftAlone ==
  [][/\ "new" \in holds /\ "new" \notin holds' /\ phase = "awake"
     /\ Emptied(pre)
     => check \in {"retry", "again"}]_vars
=============================================================================
