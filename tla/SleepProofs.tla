---------------------------- MODULE SleepProofs ----------------------------
(***************************************************************************)
(* Proofs about Sleep, for any number of sleeps, when no request loads a   *)
(* model behind the hook's back and no sleep begins while a check runs.    *)
(***************************************************************************)
EXTENDS Sleep, TLAPS

\* The two races the runs sleep_late and sleep_twice show don't happen.
Quiet == "lateLoad" \notin Happens /\ "sleepInCheck" \notin Happens

-----------------------------------------------------------------------------

\* While the machine goes to sleep no check runs, and the record of an earlier
\* sleep has an earlier number until the hook writes its own.
HookOK ==
  /\ phase # "awake" => check = "none"
  /\ pre.at <= lastSleep
  /\ phase \in HookSteps => pre.at < lastSleep
  /\ phase = "stop" => ~found.ok /\ ~found.stopped
  /\ phase = "record" /\ (found.ok \/ found.stopped) => holds = {}
  /\ phase = "record" /\ found.stopped => ollama = "stopped"

\* A record of this sleep is true of the machine until the check has read it.
RecordOK ==
  /\ phase \in {"ready", "asleep"} /\ Emptied(pre) => holds = {}
  /\ check = "begin" /\ Emptied(pre) => "old" \notin holds
  /\ (phase \in {"ready", "asleep"} \/ check = "begin") /\ Emptied(pre) /\ pre.stopped
       => ollama = "stopped"

\* What the check trusts, and what it has seen for itself.
CheckOK ==
  /\ check \notin {"none", "begin"} => read = pre /\ emptied = Emptied(pre)
  /\ check \in {"look", "retry", "again"} /\ emptied => "old" \notin holds
  /\ check \in {"retry", "again"} => said # "ok"
  /\ check \in {"clear", "restart"} => ~emptied
  /\ check \in {"clear", "restart", "record"} /\ said = "ok" => ollama # "stopped"
  /\ check = "record" /\ said = "ok" => "old" \notin holds

\* The inductive invariant.
IInv == TypeOK /\ HookOK /\ RecordOK /\ CheckOK /\ NothingStaysLoaded /\ OllamaIsBack

-----------------------------------------------------------------------------

LEMMA Initial == Init => IInv
<1> SUFFICES ASSUME Init PROVE IInv
  OBVIOUS
<1>1. NoRecord \in Records /\ 0 \in 0..MaxSleeps
  BY SleepAssumption DEF NoRecord, Records
<1>2. TypeOK
  BY <1>1 DEF Init, TypeOK, HookSteps
<1>3. HookOK /\ RecordOK /\ CheckOK
  BY DEF Init, HookOK, RecordOK, CheckOK, Emptied, NoRecord, HookSteps
<1>4. NothingStaysLoaded /\ OllamaIsBack
  BY DEF Init, NothingStaysLoaded, OllamaIsBack, Well
<1>5. QED
  BY <1>2, <1>3, <1>4 DEF IInv

\* The hook speaks the truth (HookOK), the check reads it before anything can
\* change it (RecordOK), and says ok only of what it has read or seen (CheckOK).
LEMMA StepKeepsIInv ==
  ASSUME Quiet, IInv, Next
  PROVE  IInv'
<1> USE SleepAssumption DEF Quiet, IInv, TypeOK, HookOK, RecordOK, CheckOK, NothingStaysLoaded,
        OllamaIsBack, Well, Emptied, Records, HookSteps, hookVars, checkVars
<1>1. CASE Load
  BY <1>1 DEF Load, LoadPhases
<1>2. CASE Falters
  BY <1>2 DEF Falters
<1>3. CASE Recovers
  BY <1>3 DEF Recovers
<1>4. CASE Stamp
  BY <1>4 DEF Stamp
<1>5. CASE HookUnload
  BY <1>5 DEF HookUnload
<1>6. CASE HookStop
  <2>1. found' \in [ok : BOOLEAN, stopped : BOOLEAN] /\ ~found'.ok
    BY <1>6 DEF HookStop
  <2>2. TypeOK'
    BY <1>6, <2>1 DEF HookStop
  <2>3. found'.stopped => ollama' = "stopped" /\ holds' = {}
    BY <1>6 DEF HookStop
  <2>4. HookOK'
    BY <1>6, <2>1, <2>3 DEF HookStop
  <2>5. (RecordOK /\ CheckOK /\ NothingStaysLoaded /\ OllamaIsBack)'
    BY <1>6 DEF HookStop
  <2>6. QED
    BY <2>2, <2>4, <2>5
<1>7. CASE HookRecord
  BY <1>7 DEF HookRecord
<1>8. CASE HookCutOff
  BY <1>8 DEF HookCutOff
<1>9. CASE Suspend
  BY <1>9 DEF Suspend
<1>10. CASE Post
  BY <1>10 DEF Post
<1>11. CASE CheckBegins
  BY <1>11 DEF CheckBegins, StartsOllama, Restarted
<1>12. CASE CheckLooks
  BY <1>12 DEF CheckLooks, AfterOk, Says
<1>13. CASE WasSlow
  BY <1>13 DEF WasSlow, AfterOk, Says
<1>14. CASE CheckRestarts
  BY <1>14 DEF CheckRestarts, Restarted, AfterOk, Says
<1>15. CASE CheckOutOfTime
  BY <1>15 DEF CheckOutOfTime
<1>16. CASE CheckClears
  BY <1>16 DEF CheckClears
<1>17. CASE ClearRestarts
  BY <1>17 DEF ClearRestarts, Restarted, Says
<1>18. CASE CheckRecords
  BY <1>18 DEF CheckRecords, NoRecord
<1>19. CASE CheckDies
  BY <1>19 DEF CheckDies, StartsOllama
<1>20. CASE CheckKilled
  BY <1>20 DEF CheckKilled
<1>21. QED
  BY <1>1, <1>2, <1>3, <1>4, <1>5, <1>6, <1>7, <1>8, <1>9, <1>10, <1>11, <1>12,
     <1>13, <1>14, <1>15, <1>16, <1>17, <1>18, <1>19, <1>20 DEF Next

LEMMA StutterKeepsIInv == ASSUME IInv, UNCHANGED vars PROVE IInv'
  BY DEF IInv, TypeOK, HookOK, RecordOK, CheckOK, NothingStaysLoaded, OllamaIsBack, Well,
         Emptied, vars

\* Every reachable state is in the inductive invariant, for any number of sleeps.
THEOREM SleepInductive == ASSUME Quiet PROVE Spec => []IInv
<1>1. Init => IInv
  BY Initial
<1>2. IInv /\ [Next]_vars => IInv'
  BY StepKeepsIInv, StutterKeepsIInv
<1>3. QED
  BY <1>1, <1>2, PTL DEF Spec

\* Once the check after a wake said ok nothing from before the sleep answers, and
\* Ollama runs, whatever failed in the hook or the check.
THEOREM SleepKeepsItsWord ==
  ASSUME Quiet PROVE Spec => [](TypeOK /\ NothingStaysLoaded /\ OllamaIsBack)
<1>1. IInv => TypeOK /\ NothingStaysLoaded /\ OllamaIsBack
  BY DEF IInv
<1>2. QED
  BY <1>1, SleepInductive, PTL

\* A check that said ok doesn't leave Ollama stopped.
THEOREM OllamaComesBack == ASSUME Quiet PROVE Spec => []OllamaIsBack
<1>1. IInv => OllamaIsBack
  BY DEF IInv
<1>2. QED
  BY <1>1, SleepInductive, PTL

\* A step that takes a new model away while the record vouches for this sleep is a
\* restart of an Ollama that was found not answering.
LEMMA StepLeavesNewAlone ==
  ASSUME IInv, Next, "new" \in holds, "new" \notin holds', phase = "awake", Emptied(pre)
  PROVE  check \in {"retry", "again"}
<1>1. CASE Load \/ Falters \/ Recovers
  BY <1>1 DEF Load, Falters, Recovers
<1>2. CASE Stamp \/ HookUnload \/ HookStop \/ HookRecord \/ HookCutOff \/ Suspend \/ Post
  BY <1>2 DEF Stamp, HookUnload, HookStop, HookRecord, HookCutOff, HookSteps, Suspend, Post
<1>3. check = "begin" => ~StartsOllama
  BY DEF IInv, TypeOK, RecordOK, StartsOllama
<1>4. check \notin {"clear", "restart"}
  BY DEF IInv, CheckOK
<1>5. CASE CheckBegins \/ CheckDies
  BY <1>3, <1>4, <1>5 DEF CheckBegins, CheckDies
<1>6. CASE CheckLooks \/ WasSlow \/ CheckOutOfTime \/ CheckRecords \/ CheckKilled
  BY <1>6 DEF CheckLooks, WasSlow, CheckOutOfTime, CheckRecords, CheckKilled
<1>7. CASE CheckRestarts
  BY <1>7 DEF CheckRestarts
<1>8. CASE CheckClears \/ ClearRestarts
  BY <1>4, <1>8 DEF CheckClears, ClearRestarts
<1>9. QED
  BY <1>1, <1>2, <1>5, <1>6, <1>7, <1>8 DEF Next

\* A model loaded since the wake is left alone while the record says the hook left
\* the card empty.
THEOREM NewModelsAreLeftAlone == ASSUME Quiet PROVE Spec => NewIsLeftAlone
<1>1. IInv /\ [Next]_vars =>
        [/\ "new" \in holds /\ "new" \notin holds' /\ phase = "awake"
         /\ Emptied(pre)
         => check \in {"retry", "again"}]_vars
  BY StepLeavesNewAlone
<1>2. QED
  BY <1>1, SleepInductive, PTL DEF Spec, NewIsLeftAlone
=============================================================================
