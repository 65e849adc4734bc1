---------------------------- MODULE WatchdogProofs ----------------------------
(***************************************************************************)
(* The invariant behind AsleepDisarmed, for every timeout, limit and set   *)
(* of faults, and the one behind WellIsNotReset, for every timer that      *)
(* outlasts two series of failures.                                        *)
(***************************************************************************)
EXTENDS Watchdog, TLAPS

Away == machine \in {"pausing", "leaving", "asleep"}

\* Only a machine with a hardware watchdog is probed and has it petted, a paused
\* loop looks for no probe's result, and a dead process has no state to speak of.
StateOK ==
  /\ state \in {"petting", "tripped"} => present
  /\ pc = "look" => present /\ state # "paused"
  /\ ~Live => state \in {"starting", "stopped"}

\* A timer runs without its service only after a pause, a stop or a process that
\* went wrong.
TimerOK == timer /\ ~handle => spoiled \/ killed

\* From the hook's pause on the timer is stopped, or the pause is still to come,
\* or one of the exceptions holds.
AwayOK ==
  Away => \/ spoiled \/ killed \/ state = "tripped"
          \/ "pause" \in asks /\ svc = "up"
          \/ ~timer /\ state = "paused" /\ "resume" \notin asks
          \/ ~timer /\ svc = "stopped"

\* Nothing that was asked in time is still to come when the machine sleeps.
SleepOK == machine = "asleep" /\ asks # {} => spoiled

IInv == TypeOK /\ StateOK /\ TimerOK /\ AwayOK /\ SleepOK

\* TypeOK in three parts.
ControlTypes ==
  /\ svc \in {"off", "starting", "up", "stopped"}
  /\ state \in {"starting", "no-device", "petting", "tripped", "paused", "holding", "stopped"}
  /\ handle \in BOOLEAN /\ (handle => Live /\ timer /\ present /\ state \in {"petting", "tripped"})
  /\ pc \in {"wait", "look"} /\ (pc = "look" => Live /\ busy)
  /\ busy \in BOOLEAN /\ due \in BOOLEAN
  /\ well \in BOOLEAN

CountTypes ==
  /\ fails \in 0..FailsToStop
  /\ asks \subseteq {"stop", "pause", "resume"}
  /\ hold \in 0..Hold
  /\ timer \in BOOLEAN
  /\ age \in 0..Timeout /\ (~timer => age = 0)
  /\ quiet \in 0..ServiceLimit
  /\ waited \in 0..HookLimit

WorldTypes ==
  /\ disk \in {"answers", "dead"}
  /\ present \in BOOLEAN
  /\ machine \in {"awake", "pausing", "leaving", "asleep", "waking", "reset"}
  /\ slept \in BOOLEAN /\ sick \in BOOLEAN /\ spoiled \in BOOLEAN /\ killed \in BOOLEAN

\* They are TypeOK.
LEMMA TypeParts == TypeOK <=> ControlTypes /\ CountTypes /\ WorldTypes
BY DEF TypeOK, ControlTypes, CountTypes, WorldTypes

\* Every step keeps the types of the loop's control.
LEMMA ControlStep ==
  ASSUME TypeOK, StateOK, [Next]_vars
  PROVE  ControlTypes'
<1> USE WatchdogAssumption DEF TypeOK, StateOK, ControlTypes, Live, Awake, loop, board, world, history
<1>1. CASE TurnStops
  BY <1>1 DEF TurnStops, Turns, Resumes, Resumed, Pauses, Asked, Forgives, FailsNow, HoldNow, TurnEnds, Disarm, Healthy
<1>2. CASE TurnPauses
  BY <1>2 DEF TurnPauses, Turns, Resumes, Resumed, Pauses, Asked, Forgives, FailsNow, HoldNow, TurnEnds, Disarm
<1>3. CASE TurnFindsNone
  BY <1>3 DEF TurnFindsNone, Turns, Resumes, Resumed, Pauses, Asked, Forgives, FailsNow, HoldNow, TurnEnds, TurnGoesOn
<1>4. CASE TurnProbes
  BY <1>4 DEF TurnProbes, Turns, Resumes, Resumed, Pauses, Asked, Forgives, FailsNow, HoldNow, TurnEnds, TurnGoesOn
<1>5. CASE \E lets \in BOOLEAN : TurnFindsStuck(lets)
  <2>1. (svc \in {"off", "starting", "up", "stopped"})'
    BY <1>5 DEF Turns, Resumes, Resumed, Pauses, Asked, Forgives, FailsNow, HoldNow, TurnEnds, TurnGoesOn, TurnFindsStuck, Verdict, Opens, Trips
  <2>2. (state \in {"starting", "no-device", "petting", "tripped", "paused", "holding", "stopped"})'
    BY <1>5 DEF Turns, Resumes, Resumed, Pauses, Asked, Forgives, FailsNow, HoldNow, TurnEnds, TurnGoesOn, TurnFindsStuck, Verdict, Opens, Trips
  <2>3. (handle \in BOOLEAN /\ (handle => Live /\ timer /\ present /\ state \in {"petting", "tripped"}))'
    BY <1>5 DEF Turns, Resumes, Resumed, Pauses, Asked, Forgives, FailsNow, HoldNow, TurnEnds, TurnGoesOn, TurnFindsStuck, Verdict, Opens, Trips
  <2>4. (pc \in {"wait", "look"} /\ (pc = "look" => Live /\ busy))'
    BY <1>5 DEF Turns, Resumes, Resumed, Pauses, Asked, Forgives, FailsNow, HoldNow, TurnEnds, TurnGoesOn, TurnFindsStuck, Verdict, Opens, Trips
  <2>5. (busy \in BOOLEAN /\ due \in BOOLEAN)'
    BY <1>5 DEF Turns, Resumes, Resumed, Pauses, Asked, Forgives, FailsNow, HoldNow, TurnEnds, TurnGoesOn, TurnFindsStuck, Verdict, Opens, Trips
  <2>6. (well \in BOOLEAN)'
    BY <1>5 DEF Turns, Resumes, Resumed, Pauses, Asked, Forgives, FailsNow, HoldNow, TurnEnds, TurnGoesOn, TurnFindsStuck, Verdict, Opens, Trips
  <2>7. QED
    BY <2>1, <2>2, <2>3, <2>4, <2>5, <2>6
<1>6. CASE \E lets \in BOOLEAN : ProbeEnds(lets)
  <2>1. (svc \in {"off", "starting", "up", "stopped"})'
    BY <1>6 DEF ProbeEnds, TurnEnds, Verdict, Opens, Trips
  <2>2. (state \in {"starting", "no-device", "petting", "tripped", "paused", "holding", "stopped"})'
    BY <1>6 DEF ProbeEnds, TurnEnds, Verdict, Opens, Trips
  <2>3. (handle \in BOOLEAN /\ (handle => Live /\ timer /\ present /\ state \in {"petting", "tripped"}))'
    BY <1>6 DEF ProbeEnds, TurnEnds, Verdict, Opens, Trips
  <2>4. (pc \in {"wait", "look"} /\ (pc = "look" => Live /\ busy))'
    BY <1>6 DEF ProbeEnds, TurnEnds, Verdict, Opens, Trips
  <2>5. (busy \in BOOLEAN /\ due \in BOOLEAN)'
    BY <1>6 DEF ProbeEnds, TurnEnds, Verdict, Opens, Trips
  <2>6. (well \in BOOLEAN)'
    BY <1>6 DEF ProbeEnds, TurnEnds, Verdict, Opens, Trips
  <2>7. QED
    BY <2>1, <2>2, <2>3, <2>4, <2>5, <2>6
<1>7. CASE \E lets \in BOOLEAN : ProbeLate(lets)
  <2>1. (svc \in {"off", "starting", "up", "stopped"})'
    BY <1>7 DEF ProbeLate, TurnEnds, Verdict, Opens, Trips
  <2>2. (state \in {"starting", "no-device", "petting", "tripped", "paused", "holding", "stopped"})'
    BY <1>7 DEF ProbeLate, TurnEnds, Verdict, Opens, Trips
  <2>3. (handle \in BOOLEAN /\ (handle => Live /\ timer /\ present /\ state \in {"petting", "tripped"}))'
    BY <1>7 DEF ProbeLate, TurnEnds, Verdict, Opens, Trips
  <2>4. (pc \in {"wait", "look"} /\ (pc = "look" => Live /\ busy))'
    BY <1>7 DEF ProbeLate, TurnEnds, Verdict, Opens, Trips
  <2>5. (busy \in BOOLEAN /\ due \in BOOLEAN)'
    BY <1>7 DEF ProbeLate, TurnEnds, Verdict, Opens, Trips
  <2>6. (well \in BOOLEAN)'
    BY <1>7 DEF ProbeLate, TurnEnds, Verdict, Opens, Trips
  <2>7. QED
    BY <2>1, <2>2, <2>3, <2>4, <2>5, <2>6
<1>8. CASE \E lets \in BOOLEAN : TrippedStays(lets)
  <2>1. (svc \in {"off", "starting", "up", "stopped"})'
    BY <1>8 DEF Turns, Resumes, Resumed, Pauses, Asked, Forgives, FailsNow, HoldNow, TurnEnds, TrippedStays, Verdict, Opens, Trips
  <2>2. (state \in {"starting", "no-device", "petting", "tripped", "paused", "holding", "stopped"})'
    BY <1>8 DEF Turns, Resumes, Resumed, Pauses, Asked, Forgives, FailsNow, HoldNow, TurnEnds, TrippedStays, Verdict, Opens, Trips
  <2>3. (handle \in BOOLEAN /\ (handle => Live /\ timer /\ present /\ state \in {"petting", "tripped"}))'
    BY <1>8 DEF Turns, Resumes, Resumed, Pauses, Asked, Forgives, FailsNow, HoldNow, TurnEnds, TrippedStays, Verdict, Opens, Trips
  <2>4. (pc \in {"wait", "look"} /\ (pc = "look" => Live /\ busy))'
    BY <1>8 DEF Turns, Resumes, Resumed, Pauses, Asked, Forgives, FailsNow, HoldNow, TurnEnds, TrippedStays, Verdict, Opens, Trips
  <2>5. (busy \in BOOLEAN /\ due \in BOOLEAN)'
    BY <1>8 DEF Turns, Resumes, Resumed, Pauses, Asked, Forgives, FailsNow, HoldNow, TurnEnds, TrippedStays, Verdict, Opens, Trips
  <2>6. (well \in BOOLEAN)'
    BY <1>8 DEF Turns, Resumes, Resumed, Pauses, Asked, Forgives, FailsNow, HoldNow, TurnEnds, TrippedStays, Verdict, Opens, Trips
  <2>7. QED
    BY <2>1, <2>2, <2>3, <2>4, <2>5, <2>6
<1>9. CASE PauseFails
  BY <1>9 DEF PauseFails, Turns, Resumes, Resumed, Pauses, Asked, Forgives, FailsNow, HoldNow, TurnEnds
<1>10. CASE ThreadEnds
  BY <1>10 DEF ThreadEnds
<1>11. CASE Crash
  BY <1>11 DEF Crash, Gone
<1>12. CASE SystemdKills
  BY <1>12 DEF SystemdKills, Gone
<1>13. CASE SystemdStarts
  BY <1>13 DEF SystemdStarts, Fresh
<1>14. CASE OwnerStops
  BY <1>14 DEF OwnerStops
<1>15. CASE OwnerStarts
  BY <1>15 DEF OwnerStarts, Fresh
<1>16. CASE HookPauses
  BY <1>16 DEF HookPauses, Signals
<1>17. CASE PauseSeen
  BY <1>17 DEF PauseSeen
<1>18. CASE PauseUnseen
  BY <1>18 DEF PauseUnseen
<1>19. CASE Suspends
  BY <1>19 DEF Suspends
<1>20. CASE Wakes
  BY <1>20 DEF Wakes
<1>21. CASE HookResumes
  BY <1>21 DEF HookResumes, Signals
<1>22. CASE DiskChanges
  BY <1>22 DEF DiskChanges
<1>23. CASE Time
  BY <1>23 DEF Time, Passes
<1>24. CASE Stall
  BY <1>24 DEF Stall, Passes
<1>25. CASE Resets
  BY <1>25 DEF Resets
<1>26. CASE Boots
  BY <1>26 DEF Boots, Fresh
<1>27. CASE UNCHANGED vars
  BY <1>27 DEF vars
<1>28. QED
  BY <1>1, <1>2, <1>3, <1>4, <1>5, <1>6, <1>7, <1>8, <1>9, <1>10, <1>11, <1>12, <1>13, <1>14, <1>15, <1>16, <1>17, <1>18, <1>19, <1>20, <1>21, <1>22, <1>23, <1>24, <1>25, <1>26, <1>27 DEF Next, LoopStep, SystemStep, Disturb

\* Those of what is counted, asked and timed.
LEMMA CountStep ==
  ASSUME TypeOK, StateOK, [Next]_vars
  PROVE  CountTypes'
<1> USE WatchdogAssumption DEF TypeOK, StateOK, CountTypes, Live, Awake, loop, board, world, history
<1>1. CASE TurnStops
  <2>1. (fails \in 0..FailsToStop)'
    BY <1>1 DEF TurnStops, Turns, Resumes, Resumed, Pauses, Asked, Forgives, FailsNow, HoldNow, TurnEnds, Disarm, Healthy
  <2>2. (asks \subseteq {"stop", "pause", "resume"})'
    BY <1>1 DEF TurnStops, Turns, Resumes, Resumed, Pauses, Asked, Forgives, FailsNow, HoldNow, TurnEnds, Disarm, Healthy
  <2>3. (hold \in 0..Hold)'
    BY <1>1 DEF TurnStops, Turns, Resumes, Resumed, Pauses, Asked, Forgives, FailsNow, HoldNow, TurnEnds, Disarm, Healthy
  <2>4. (timer \in BOOLEAN)'
    BY <1>1 DEF TurnStops, Turns, Resumes, Resumed, Pauses, Asked, Forgives, FailsNow, HoldNow, TurnEnds, Disarm, Healthy
  <2>5. (age \in 0..Timeout /\ (~timer => age = 0))'
    BY <1>1 DEF TurnStops, Turns, Resumes, Resumed, Pauses, Asked, Forgives, FailsNow, HoldNow, TurnEnds, Disarm, Healthy
  <2>6. (quiet \in 0..ServiceLimit)'
    BY <1>1 DEF TurnStops, Turns, Resumes, Resumed, Pauses, Asked, Forgives, FailsNow, HoldNow, TurnEnds, Disarm, Healthy
  <2>7. (waited \in 0..HookLimit)'
    BY <1>1 DEF TurnStops, Turns, Resumes, Resumed, Pauses, Asked, Forgives, FailsNow, HoldNow, TurnEnds, Disarm, Healthy
  <2>8. QED
    BY <2>1, <2>2, <2>3, <2>4, <2>5, <2>6, <2>7
<1>2. CASE TurnPauses
  <2>1. (fails \in 0..FailsToStop)'
    BY <1>2 DEF TurnPauses, Turns, Resumes, Resumed, Pauses, Asked, Forgives, FailsNow, HoldNow, TurnEnds, Disarm
  <2>2. (asks \subseteq {"stop", "pause", "resume"})'
    BY <1>2 DEF TurnPauses, Turns, Resumes, Resumed, Pauses, Asked, Forgives, FailsNow, HoldNow, TurnEnds, Disarm
  <2>3. (hold \in 0..Hold)'
    BY <1>2 DEF TurnPauses, Turns, Resumes, Resumed, Pauses, Asked, Forgives, FailsNow, HoldNow, TurnEnds, Disarm
  <2>4. (timer \in BOOLEAN)'
    BY <1>2 DEF TurnPauses, Turns, Resumes, Resumed, Pauses, Asked, Forgives, FailsNow, HoldNow, TurnEnds, Disarm
  <2>5. (age \in 0..Timeout /\ (~timer => age = 0))'
    BY <1>2 DEF TurnPauses, Turns, Resumes, Resumed, Pauses, Asked, Forgives, FailsNow, HoldNow, TurnEnds, Disarm
  <2>6. (quiet \in 0..ServiceLimit)'
    BY <1>2 DEF TurnPauses, Turns, Resumes, Resumed, Pauses, Asked, Forgives, FailsNow, HoldNow, TurnEnds, Disarm
  <2>7. (waited \in 0..HookLimit)'
    BY <1>2 DEF TurnPauses, Turns, Resumes, Resumed, Pauses, Asked, Forgives, FailsNow, HoldNow, TurnEnds, Disarm
  <2>8. QED
    BY <2>1, <2>2, <2>3, <2>4, <2>5, <2>6, <2>7
<1>3. CASE TurnFindsNone
  BY <1>3 DEF TurnFindsNone, Turns, Resumes, Resumed, Pauses, Asked, Forgives, FailsNow, HoldNow, TurnEnds, TurnGoesOn
<1>4. CASE TurnProbes
  BY <1>4 DEF TurnProbes, Turns, Resumes, Resumed, Pauses, Asked, Forgives, FailsNow, HoldNow, TurnEnds, TurnGoesOn
<1>5. CASE \E lets \in BOOLEAN : TurnFindsStuck(lets)
  BY <1>5 DEF Turns, Resumes, Resumed, Pauses, Asked, Forgives, FailsNow, HoldNow, TurnEnds, TurnGoesOn, TurnFindsStuck, Verdict, Opens, Trips
<1>6. CASE \E lets \in BOOLEAN : ProbeEnds(lets)
  BY <1>6 DEF ProbeEnds, TurnEnds, Verdict, Opens, Trips
<1>7. CASE \E lets \in BOOLEAN : ProbeLate(lets)
  BY <1>7 DEF ProbeLate, TurnEnds, Verdict, Opens, Trips
<1>8. CASE \E lets \in BOOLEAN : TrippedStays(lets)
  BY <1>8 DEF Turns, Resumes, Resumed, Pauses, Asked, Forgives, FailsNow, HoldNow, TurnEnds, TrippedStays, Verdict, Opens, Trips
<1>9. CASE PauseFails
  BY <1>9 DEF PauseFails, Turns, Resumes, Resumed, Pauses, Asked, Forgives, FailsNow, HoldNow, TurnEnds
<1>10. CASE ThreadEnds
  BY <1>10 DEF ThreadEnds
<1>11. CASE Crash
  BY <1>11 DEF Crash, Gone
<1>12. CASE SystemdKills
  BY <1>12 DEF SystemdKills, Gone
<1>13. CASE SystemdStarts
  BY <1>13 DEF SystemdStarts, Fresh
<1>14. CASE OwnerStops
  BY <1>14 DEF OwnerStops
<1>15. CASE OwnerStarts
  BY <1>15 DEF OwnerStarts, Fresh
<1>16. CASE HookPauses
  BY <1>16 DEF HookPauses, Signals
<1>17. CASE PauseSeen
  BY <1>17 DEF PauseSeen
<1>18. CASE PauseUnseen
  BY <1>18 DEF PauseUnseen
<1>19. CASE Suspends
  BY <1>19 DEF Suspends
<1>20. CASE Wakes
  BY <1>20 DEF Wakes
<1>21. CASE HookResumes
  BY <1>21 DEF HookResumes, Signals
<1>22. CASE DiskChanges
  BY <1>22 DEF DiskChanges
<1>23. CASE Time
  BY <1>23 DEF Time, Passes
<1>24. CASE Stall
  BY <1>24 DEF Stall, Passes
<1>25. CASE Resets
  BY <1>25 DEF Resets
<1>26. CASE Boots
  <2>1. (fails \in 0..FailsToStop)'
    BY <1>26 DEF Boots, Fresh
  <2>2. (asks \subseteq {"stop", "pause", "resume"})'
    BY <1>26 DEF Boots, Fresh
  <2>3. (hold \in 0..Hold)'
    BY <1>26 DEF Boots, Fresh
  <2>4. (timer \in BOOLEAN)'
    BY <1>26 DEF Boots, Fresh
  <2>5. (age \in 0..Timeout /\ (~timer => age = 0))'
    BY <1>26 DEF Boots, Fresh
  <2>6. (quiet \in 0..ServiceLimit)'
    BY <1>26 DEF Boots, Fresh
  <2>7. (waited \in 0..HookLimit)'
    BY <1>26 DEF Boots, Fresh
  <2>8. QED
    BY <2>1, <2>2, <2>3, <2>4, <2>5, <2>6, <2>7
<1>27. CASE UNCHANGED vars
  BY <1>27 DEF vars
<1>28. QED
  BY <1>1, <1>2, <1>3, <1>4, <1>5, <1>6, <1>7, <1>8, <1>9, <1>10, <1>11, <1>12, <1>13, <1>14, <1>15, <1>16, <1>17, <1>18, <1>19, <1>20, <1>21, <1>22, <1>23, <1>24, <1>25, <1>26, <1>27 DEF Next, LoopStep, SystemStep, Disturb

\* And those of the world.
LEMMA WorldStep ==
  ASSUME TypeOK, StateOK, [Next]_vars
  PROVE  WorldTypes'
<1> USE WatchdogAssumption DEF TypeOK, StateOK, WorldTypes, Live, Awake, loop, board, world, history
<1>1. CASE TurnStops
  BY <1>1 DEF TurnStops, Turns, Resumes, Resumed, Pauses, Asked, Forgives, FailsNow, HoldNow, TurnEnds, Disarm, Healthy
<1>2. CASE TurnPauses
  BY <1>2 DEF TurnPauses, Turns, Resumes, Resumed, Pauses, Asked, Forgives, FailsNow, HoldNow, TurnEnds, Disarm
<1>3. CASE TurnFindsNone
  BY <1>3 DEF TurnFindsNone, Turns, Resumes, Resumed, Pauses, Asked, Forgives, FailsNow, HoldNow, TurnEnds, TurnGoesOn
<1>4. CASE TurnProbes
  BY <1>4 DEF TurnProbes, Turns, Resumes, Resumed, Pauses, Asked, Forgives, FailsNow, HoldNow, TurnEnds, TurnGoesOn
<1>5. CASE \E lets \in BOOLEAN : TurnFindsStuck(lets)
  BY <1>5 DEF Turns, Resumes, Resumed, Pauses, Asked, Forgives, FailsNow, HoldNow, TurnEnds, TurnGoesOn, TurnFindsStuck, Verdict, Opens, Trips
<1>6. CASE \E lets \in BOOLEAN : ProbeEnds(lets)
  BY <1>6 DEF ProbeEnds, TurnEnds, Verdict, Opens, Trips
<1>7. CASE \E lets \in BOOLEAN : ProbeLate(lets)
  BY <1>7 DEF ProbeLate, TurnEnds, Verdict, Opens, Trips
<1>8. CASE \E lets \in BOOLEAN : TrippedStays(lets)
  BY <1>8 DEF Turns, Resumes, Resumed, Pauses, Asked, Forgives, FailsNow, HoldNow, TurnEnds, TrippedStays, Verdict, Opens, Trips
<1>9. CASE PauseFails
  BY <1>9 DEF PauseFails, Turns, Resumes, Resumed, Pauses, Asked, Forgives, FailsNow, HoldNow, TurnEnds
<1>10. CASE ThreadEnds
  BY <1>10 DEF ThreadEnds
<1>11. CASE Crash
  BY <1>11 DEF Crash, Gone
<1>12. CASE SystemdKills
  BY <1>12 DEF SystemdKills, Gone
<1>13. CASE SystemdStarts
  BY <1>13 DEF SystemdStarts, Fresh
<1>14. CASE OwnerStops
  BY <1>14 DEF OwnerStops
<1>15. CASE OwnerStarts
  BY <1>15 DEF OwnerStarts, Fresh
<1>16. CASE HookPauses
  BY <1>16 DEF HookPauses, Signals
<1>17. CASE PauseSeen
  BY <1>17 DEF PauseSeen
<1>18. CASE PauseUnseen
  BY <1>18 DEF PauseUnseen
<1>19. CASE Suspends
  BY <1>19 DEF Suspends
<1>20. CASE Wakes
  BY <1>20 DEF Wakes
<1>21. CASE HookResumes
  BY <1>21 DEF HookResumes, Signals
<1>22. CASE DiskChanges
  BY <1>22 DEF DiskChanges
<1>23. CASE Time
  BY <1>23 DEF Time, Passes
<1>24. CASE Stall
  BY <1>24 DEF Stall, Passes
<1>25. CASE Resets
  BY <1>25 DEF Resets
<1>26. CASE Boots
  BY <1>26 DEF Boots, Fresh
<1>27. CASE UNCHANGED vars
  BY <1>27 DEF vars
<1>28. QED
  BY <1>1, <1>2, <1>3, <1>4, <1>5, <1>6, <1>7, <1>8, <1>9, <1>10, <1>11, <1>12, <1>13, <1>14, <1>15, <1>16, <1>17, <1>18, <1>19, <1>20, <1>21, <1>22, <1>23, <1>24, <1>25, <1>26, <1>27 DEF Next, LoopStep, SystemStep, Disturb

\* Every step keeps the types.
LEMMA TypeStep ==
  ASSUME TypeOK, StateOK, [Next]_vars
  PROVE  TypeOK'
BY ControlStep, CountStep, WorldStep DEF TypeOK, ControlTypes, CountTypes, WorldTypes

\* And the rest of the invariant.
LEMMA GoodStep ==
  ASSUME IInv, [Next]_vars
  PROVE  (StateOK /\ TimerOK /\ AwayOK /\ SleepOK)'
<1> USE DEF IInv, TypeOK, StateOK, TimerOK, AwayOK, SleepOK, Away, Live, Awake, loop, board, world, history
<1>1. CASE TurnStops
  BY <1>1 DEF TurnStops, Turns, Resumes, Resumed, Pauses, Asked, Forgives, FailsNow, HoldNow, TurnEnds, Disarm, Healthy
<1>2. CASE TurnPauses
  BY <1>2 DEF TurnPauses, Turns, Resumes, Resumed, Pauses, Asked, Forgives, FailsNow, HoldNow, TurnEnds, Disarm
<1>3. CASE TurnFindsNone
  BY <1>3 DEF TurnFindsNone, Turns, Resumes, Resumed, Pauses, Asked, Forgives, FailsNow, HoldNow, TurnEnds, TurnGoesOn
<1>4. CASE TurnProbes
  BY <1>4 DEF TurnProbes, Turns, Resumes, Resumed, Pauses, Asked, Forgives, FailsNow, HoldNow, TurnEnds, TurnGoesOn
<1>5. CASE \E lets \in BOOLEAN : TurnFindsStuck(lets)
  BY <1>5 DEF Turns, Resumes, Resumed, Pauses, Asked, Forgives, FailsNow, HoldNow, TurnEnds, TurnGoesOn, TurnFindsStuck, Verdict, Opens, Trips
<1>6. CASE \E lets \in BOOLEAN : ProbeEnds(lets)
  <2>1. StateOK'
    BY <1>6 DEF ProbeEnds, TurnEnds, Verdict, Opens, Trips
  <2>2. TimerOK'
    BY <1>6 DEF ProbeEnds, TurnEnds, Verdict, Opens, Trips
  <2>3. AwayOK'
    BY <1>6 DEF ProbeEnds, TurnEnds, Verdict, Opens, Trips
  <2>4. SleepOK'
    BY <1>6 DEF ProbeEnds, TurnEnds, Verdict, Opens, Trips
  <2>5. QED
    BY <2>1, <2>2, <2>3, <2>4
<1>7. CASE \E lets \in BOOLEAN : ProbeLate(lets)
  <2>1. StateOK'
    BY <1>7 DEF ProbeLate, TurnEnds, Verdict, Opens, Trips
  <2>2. TimerOK'
    BY <1>7 DEF ProbeLate, TurnEnds, Verdict, Opens, Trips
  <2>3. AwayOK'
    BY <1>7 DEF ProbeLate, TurnEnds, Verdict, Opens, Trips
  <2>4. SleepOK'
    BY <1>7 DEF ProbeLate, TurnEnds, Verdict, Opens, Trips
  <2>5. QED
    BY <2>1, <2>2, <2>3, <2>4
<1>8. CASE \E lets \in BOOLEAN : TrippedStays(lets)
  BY <1>8 DEF Turns, Resumes, Resumed, Pauses, Asked, Forgives, FailsNow, HoldNow, TurnEnds, TrippedStays, Verdict, Opens, Trips
<1>9. CASE PauseFails
  BY <1>9 DEF PauseFails, Turns, Resumes, Resumed, Pauses, Asked, Forgives, FailsNow, HoldNow, TurnEnds
<1>10. CASE ThreadEnds
  BY <1>10 DEF ThreadEnds
<1>11. CASE Crash
  BY <1>11 DEF Crash, Gone
<1>12. CASE SystemdKills
  BY <1>12 DEF SystemdKills, Gone
<1>13. CASE SystemdStarts
  <2>1. StateOK'
    BY <1>13 DEF SystemdStarts, Fresh
  <2>2. TimerOK'
    BY <1>13 DEF SystemdStarts, Fresh
  <2>3. AwayOK'
    BY <1>13 DEF SystemdStarts, Fresh
  <2>4. SleepOK'
    BY <1>13 DEF SystemdStarts, Fresh
  <2>5. QED
    BY <2>1, <2>2, <2>3, <2>4
<1>14. CASE OwnerStops
  BY <1>14 DEF OwnerStops
<1>15. CASE OwnerStarts
  BY <1>15 DEF OwnerStarts, Fresh
<1>16. CASE HookPauses
  BY <1>16 DEF HookPauses, Signals
<1>17. CASE PauseSeen
  BY <1>17 DEF PauseSeen
<1>18. CASE PauseUnseen
  BY <1>18 DEF PauseUnseen
<1>19. CASE Suspends
  BY <1>19 DEF Suspends
<1>20. CASE Wakes
  BY <1>20 DEF Wakes
<1>21. CASE HookResumes
  BY <1>21 DEF HookResumes, Signals
<1>22. CASE DiskChanges
  BY <1>22 DEF DiskChanges
<1>23. CASE Time
  BY <1>23 DEF Time, Passes
<1>24. CASE Stall
  BY <1>24 DEF Stall, Passes
<1>25. CASE Resets
  BY <1>25 DEF Resets
<1>26. CASE Boots
  BY <1>26 DEF Boots, Fresh
<1>27. CASE UNCHANGED vars
  BY <1>27 DEF vars
<1>28. QED
  BY <1>1, <1>2, <1>3, <1>4, <1>5, <1>6, <1>7, <1>8, <1>9, <1>10, <1>11, <1>12, <1>13, <1>14, <1>15, <1>16, <1>17, <1>18, <1>19, <1>20, <1>21, <1>22, <1>23, <1>24, <1>25, <1>26, <1>27 DEF Next, LoopStep, SystemStep, Disturb

\* The invariant holds when the machine has booted.
LEMMA InitInv == Init => IInv
<1> SUFFICES ASSUME Init PROVE IInv
  OBVIOUS
<1>1. ControlTypes
  BY DEF Init, ControlTypes, Live
<1>2. CountTypes
  <2>1. FailsToStop \in Nat /\ Hold \in Nat /\ Timeout \in Nat /\ ServiceLimit \in Nat /\ HookLimit \in Nat
    BY WatchdogAssumption DEF WatchdogAssumption
  <2>2. fails \in 0..FailsToStop /\ hold \in 0..Hold /\ age \in 0..Timeout /\ quiet \in 0..ServiceLimit
          /\ waited \in 0..HookLimit
    BY <2>1 DEF Init
  <2>3. asks \subseteq {"stop", "pause", "resume"} /\ timer \in BOOLEAN /\ (~timer => age = 0)
    BY DEF Init
  <2>4. QED
    BY <2>2, <2>3 DEF CountTypes
<1>3. WorldTypes
  BY DEF Init, WorldTypes
<1>4. StateOK /\ TimerOK /\ AwayOK /\ SleepOK
  BY DEF Init, StateOK, TimerOK, AwayOK, SleepOK, Away, Live
<1>5. QED
  BY <1>1, <1>2, <1>3, <1>4, TypeParts DEF IInv

\* The invariant is inductive.
THEOREM WatchdogInv == Spec => []IInv
<1>1. IInv /\ [Next]_vars => IInv'
  BY TypeStep, GoodStep DEF IInv
<1>2. QED
  BY InitInv, <1>1, PTL DEF Spec

\* The types hold.
THEOREM WatchdogTyped == Spec => []TypeOK
BY WatchdogInv, PTL DEF IInv

\* The machine sleeps with its timer stopped, or one of the exceptions that
\* AsleepDisarmed names holds.
THEOREM SleepsDisarmed == Spec => []AsleepDisarmed
<1>1. IInv => AsleepDisarmed
  BY DEF IInv, AwayOK, SleepOK, AsleepDisarmed, Away
<1>2. QED
  BY <1>1, WatchdogInv, PTL
-----------------------------------------------------------------------------
(* A machine that is well is petted in time *)

\* The timer outlasts two series of failures, and systemd waits for more than a
\* turn. 60 s and 30 s with a pet every 10 s, two failures; a timer of 30 s
\* doesn't.
Patient == 2 * FailsToStop <= Timeout /\ ServiceLimit >= 2

\* The turn of this unit of time, when it is still to come.
Pending == IF due THEN 1 ELSE 0

\* What runs while nothing was wrong is petted by the loop: it has the device, is
\* up, counts its failures, and notifies systemd each turn.
PettedOK ==
  ~sick => /\ state # "tripped"
           /\ timer => handle
           /\ handle => /\ svc = "up"
                        /\ well => fails = 0
                        /\ fails < FailsToStop
                        /\ quiet <= Pending

\* Each unit of time without a pet is a failure, and failures are forgiven once.
AgeOK == ~sick /\ handle => age <= fails + Pending + (FailsToStop - 1)

\* Once, because only a device that was opened between a pause and the sleep meets
\* the jump of the clocks, and the next pause closes it. Until then none were
\* forgiven; and if an earlier jump is still unnoticed then, it has had no turn.
OnceOK ==
  ~sick /\ handle /\ "pause" \notin asks =>
    /\ slept \/ Away => age <= fails + Pending
    /\ slept /\ Away => pc = "wait" /\ age <= Pending

WellOK == PettedOK /\ AgeOK /\ OnceOK

\* What a verdict after which nothing is wrong can be: a pet, a device just opened,
\* or one failure more.
LEMMA VerdictWell ==
  ASSUME TypeOK, PettedOK,
         NEW s, NEW f \in 0..FailsToStop, NEW h, NEW ok \in BOOLEAN, NEW lets \in BOOLEAN,
         Verdict(s, f, h, ok, lets), ~sick',
         handle => s = state, s = "tripped" => sick
  PROVE  /\ state' # "tripped"
         /\ timer' => handle'
         /\ handle' => /\ svc' = "up" /\ quiet' = 0 /\ pc' = "wait"
                       /\ well' => fails' = 0
                       /\ fails' \in 0..(FailsToStop - 1)
                       /\ \/ age' = 0
                          \/ handle /\ ~sick /\ fails' = f + 1 /\ age' = age
<1> DEFINE count == IF ~ok THEN IF f < FailsToStop THEN f + 1 ELSE f
                    ELSE IF s = "tripped" THEN f ELSE 0
           opens == ~handle /\ lets /\ Opens(s, ok, h)
           on    == IF opens THEN "petting" ELSE s
           trips == (handle \/ opens) /\ Trips(on, count)
           pets  == (handle \/ opens) /\ on = "petting" /\ ok /\ ~trips /\ lets
<1>1. /\ state' = IF trips THEN "tripped" ELSE on
      /\ handle' = (handle \/ opens)
      /\ fails' = count /\ well' = ok
      /\ timer' = (timer \/ opens)
      /\ age' = IF opens \/ pets THEN 0 ELSE age
      /\ quiet' = 0 /\ svc' = "up" /\ pc' = "wait"
      /\ sick' = (~pets /\ (sick \/ ~lets \/ count = FailsToStop))
  BY DEF Verdict, TurnEnds
<1>2. FailsToStop \in Nat \ {0} /\ f \in Nat /\ f <= FailsToStop
  BY WatchdogAssumption
<1>3. CASE pets
  <2>1. s # "tripped"
    BY <1>3 DEF Opens
  <2>2. count = 0 /\ state' # "tripped" /\ handle' /\ age' = 0
    BY <1>1, <1>3, <2>1
  <2>3. QED
    BY <1>1, <1>2, <2>2
<1>4. CASE ~pets
  <2>1. ~sick /\ lets /\ count # FailsToStop
    BY <1>1, <1>4
  <2>2. s # "tripped" /\ count \in 0..(FailsToStop - 1)
    BY <1>2, <2>1
  <2>3. ~trips
    BY <1>2, <2>2 DEF Trips
  <2>4. state' # "tripped" /\ (timer' => handle')
    BY <1>1, <2>1, <2>2, <2>3 DEF PettedOK
  <2>5. CASE opens
    <3>1. ok = FALSE
      BY <1>4, <2>1, <2>3, <2>5
    <3>2. QED
      BY <1>1, <2>2, <2>4, <2>5, <3>1
  <2>6. CASE handle
    <3>1. s = "petting"
      BY <2>2, <2>6 DEF TypeOK
    <3>2. ok = FALSE
      BY <1>4, <2>1, <2>3, <2>6, <3>1
    <3>3. count = f + 1
      BY <1>2, <2>1, <3>2
    <3>4. age' = age
      BY <1>1, <1>4, <2>6
    <3>5. QED
      BY <1>1, <2>1, <2>2, <2>4, <2>6, <3>2, <3>3, <3>4
  <2>7. CASE ~handle /\ ~opens
    BY <1>1, <2>4, <2>7
  <2>8. QED
    BY <2>5, <2>6, <2>7
<1>5. QED
  BY <1>3, <1>4

\* The numbers the argument is about.
LEMMA CountTypesHold ==
  ASSUME TypeOK
  PROVE  /\ FailsToStop \in Nat \ {0} /\ Timeout \in Nat /\ ServiceLimit \in Nat
         /\ fails \in Nat /\ age \in Nat /\ quiet \in Nat /\ Pending \in {0, 1}
  BY WatchdogAssumption DEF TypeOK, Pending

\* A verdict on the probe of this unit's turn.
LEMMA LookWell ==
  ASSUME IInv, WellOK, NEW ok \in BOOLEAN, NEW lets \in BOOLEAN,
         pc = "look", asks \subseteq {"resume"},
         Verdict(state, fails, hold, ok, lets), UNCHANGED <<asks, slept>>
  PROVE  WellOK'
<1> SUFFICES ASSUME ~sick' PROVE WellOK'
  BY DEF WellOK, PettedOK, AgeOK, OnceOK
<1>1. fails \in 0..FailsToStop /\ (state = "tripped" => sick)
  BY DEF IInv, TypeOK, WellOK, PettedOK
<1>2. /\ state' # "tripped"
      /\ timer' => handle'
      /\ handle' => /\ svc' = "up" /\ quiet' = 0 /\ pc' = "wait"
                    /\ well' => fails' = 0
                    /\ fails' \in 0..(FailsToStop - 1)
                    /\ \/ age' = 0
                       \/ handle /\ ~sick /\ fails' = fails + 1 /\ age' = age
  BY <1>1, VerdictWell DEF IInv, WellOK
<1>3. Pending' \in {0, 1} /\ UNCHANGED machine
  BY DEF Pending, Verdict, world
<1>4. PettedOK'
  BY <1>2, <1>3, WatchdogAssumption DEF PettedOK
<1>5. ASSUME handle' PROVE AgeOK' /\ OnceOK'
  <2>1. CASE age' = 0
    BY <1>2, <1>3, <1>5, <2>1, CountTypesHold DEF AgeOK, OnceOK, IInv
  <2>2. CASE handle /\ ~sick /\ fails' = fails + 1 /\ age' = age
    <3>1. "pause" \notin asks
      OBVIOUS
    <3>2. age <= fails + Pending + (FailsToStop - 1)
      BY <2>2 DEF WellOK, AgeOK
    <3>3. /\ slept \/ Away => age <= fails + Pending
          /\ ~(slept /\ Away)
      BY <2>2, <3>1 DEF WellOK, OnceOK
    <3>4. AgeOK'
      BY <1>3, <2>2, <3>2, CountTypesHold DEF AgeOK, IInv
    <3>5. (slept' <=> slept) /\ (Away' <=> Away)
      BY <1>3 DEF Away
    <3>6. age' <= fails' + Pending' \/ ~(slept \/ Away)
      BY <1>3, <2>2, <3>3, CountTypesHold DEF IInv
    <3>7. QED
      BY <3>3, <3>4, <3>5, <3>6 DEF OnceOK
  <2>3. QED
    BY <1>2, <1>5, <2>1, <2>2
<1>6. QED
  BY <1>4, <1>5 DEF WellOK, AgeOK, OnceOK

\* What the turn that begins makes of the failures so far.
LEMMA ForgivenOnce ==
  ASSUME IInv, WellOK, ~sick, handle, Asked # "paused"
  PROVE  /\ "pause" \notin asks /\ Asked = state /\ state = "petting"
         /\ FailsNow \in 0..(FailsToStop - 1)
         /\ well => FailsNow = 0
         /\ age <= FailsNow + Pending + (FailsToStop - 1)
         /\ Away => age <= FailsNow + Pending
<1>1. state = "petting"
  BY DEF IInv, TypeOK, WellOK, PettedOK
<1>2. Asked = state /\ "pause" \notin asks /\ ~Resumes
  BY <1>1 DEF Asked, Pauses, Resumed, Resumes
<1>3. FailsNow = IF slept THEN 0 ELSE fails
  BY <1>1, <1>2 DEF FailsNow, Forgives
<1>4. fails < FailsToStop /\ (well => fails = 0)
  BY DEF WellOK, PettedOK
<1>5. /\ age <= fails + Pending + (FailsToStop - 1)
      /\ slept \/ Away => age <= fails + Pending
      /\ slept /\ Away => age <= Pending
  BY <1>2 DEF WellOK, AgeOK, OnceOK
<1>6. QED
  BY <1>1, <1>2, <1>3, <1>4, <1>5, CountTypesHold DEF IInv

\* A turn that finds an earlier probe still hanging.
LEMMA StuckWell ==
  ASSUME IInv, WellOK, NEW lets \in BOOLEAN, TurnFindsStuck(lets)
  PROVE  WellOK'
<1> SUFFICES ASSUME ~sick' PROVE WellOK'
  BY DEF WellOK, PettedOK, AgeOK, OnceOK
<1>0. /\ Verdict(Asked, FailsNow, HoldNow, FALSE, lets)
      /\ asks' = {} /\ ~slept' /\ Asked # "paused" /\ pc = "wait"
  BY DEF TurnFindsStuck, TurnGoesOn
<1>1. FailsNow \in 0..FailsToStop
  BY CountTypesHold DEF IInv, TypeOK, FailsNow
<1>2. (handle => Asked = state) /\ (Asked = "tripped" => sick)
  <2>1. handle => state \in {"petting", "tripped"}
    BY DEF IInv, TypeOK
  <2>2. handle => Asked = state
    BY <1>0, <2>1 DEF Asked, Resumed, Resumes
  <2>3. Asked = "tripped" => state = "tripped"
    BY DEF Asked, Resumed
  <2>4. QED
    BY <2>2, <2>3 DEF WellOK, PettedOK
<1>3. /\ state' # "tripped"
      /\ timer' => handle'
      /\ handle' => /\ svc' = "up" /\ quiet' = 0 /\ pc' = "wait"
                    /\ well' => fails' = 0
                    /\ fails' \in 0..(FailsToStop - 1)
                    /\ \/ age' = 0
                       \/ handle /\ ~sick /\ fails' = FailsNow + 1 /\ age' = age
  BY <1>0, <1>1, <1>2, VerdictWell DEF IInv, WellOK
<1>4. Pending' \in {0, 1} /\ UNCHANGED machine
  BY <1>0 DEF Pending, Verdict, world
<1>5. PettedOK'
  BY <1>3, <1>4, WatchdogAssumption DEF PettedOK
<1>6. ASSUME handle' PROVE AgeOK' /\ OnceOK'
  <2>1. CASE age' = 0
    BY <1>3, <1>4, <1>6, <2>1, CountTypesHold DEF AgeOK, OnceOK, IInv
  <2>2. CASE handle /\ ~sick /\ fails' = FailsNow + 1 /\ age' = age
    <3>1. /\ FailsNow \in 0..(FailsToStop - 1)
          /\ age <= FailsNow + Pending + (FailsToStop - 1)
          /\ Away => age <= FailsNow + Pending
      BY <1>0, <2>2, ForgivenOnce
    <3>2. Away' <=> Away
      BY <1>4 DEF Away
    <3>3. AgeOK'
      BY <1>4, <2>2, <3>1, CountTypesHold DEF AgeOK, IInv
    <3>4. Away => age' <= fails' + Pending'
      BY <1>4, <2>2, <3>1, CountTypesHold DEF IInv
    <3>5. QED
      BY <1>0, <3>2, <3>3, <3>4 DEF OnceOK
  <2>3. QED
    BY <1>3, <1>6, <2>1, <2>2
<1>7. QED
  BY <1>5, <1>6 DEF WellOK, AgeOK, OnceOK

\* A turn that begins a probe.
LEMMA ProbesWell ==
  ASSUME IInv, WellOK, TurnProbes
  PROVE  WellOK'
<1> SUFFICES ASSUME ~sick' PROVE WellOK'
  BY DEF WellOK, PettedOK, AgeOK, OnceOK
<1>0. /\ asks' = {} /\ ~slept' /\ Asked # "paused" /\ state' = Asked /\ fails' = FailsNow
      /\ UNCHANGED <<svc, handle, well, due, timer, age, quiet, machine, sick>>
  BY DEF TurnProbes, TurnGoesOn, board, world, history
<1>1. Pending' = Pending /\ (Away' <=> Away)
  BY <1>0 DEF Pending, Away
<1>2. state' # "tripped"
  BY <1>0 DEF Asked, Resumed, WellOK, PettedOK
<1>3. CASE ~handle
  BY <1>0, <1>2, <1>3 DEF WellOK, PettedOK, AgeOK, OnceOK
<1>4. CASE handle
  <2>1. /\ FailsNow \in 0..(FailsToStop - 1)
        /\ well => FailsNow = 0
        /\ age <= FailsNow + Pending + (FailsToStop - 1)
        /\ Away => age <= FailsNow + Pending
    BY <1>0, <1>4, ForgivenOnce
  <2>2. FailsNow < FailsToStop
    BY <2>1, CountTypesHold DEF IInv
  <2>3. PettedOK'
    BY <1>0, <1>1, <1>2, <2>1, <2>2 DEF WellOK, PettedOK
  <2>4. AgeOK' /\ OnceOK'
    BY <1>0, <1>1, <2>1 DEF AgeOK, OnceOK
  <2>5. QED
    BY <2>3, <2>4 DEF WellOK
<1>5. QED
  BY <1>3, <1>4

\* A turn that closes the device, or dies with it, leaves a timer behind only when
\* something was wrong.
LEMMA StopsWell ==
  ASSUME IInv, WellOK, TurnStops
  PROVE  WellOK'
<1>1. state' = "stopped" /\ ~handle'
  BY DEF TurnStops, Disarm
<1>2. ASSUME ~sick' PROVE ~timer'
  <2>1. CASE Disarm /\ UNCHANGED history
    BY <1>2, <2>1 DEF Disarm, history, WellOK, PettedOK
  <2>2. CASE ~Pauses /\ ~Healthy /\ handle /\ sick' = (sick \/ ~well)
    <3>1. ~sick /\ well
      BY <1>2, <2>2 DEF IInv, TypeOK
    <3>2. fails = 0 /\ state = "petting"
      BY <2>2, <3>1 DEF IInv, TypeOK, WellOK, PettedOK
    <3>3. Asked = "petting"
      BY <2>2, <3>2 DEF Asked, Resumed, Resumes
    <3>4. QED
      BY <2>2, <3>1, <3>2, <3>3 DEF Healthy
  <2>3. QED
    BY <2>1, <2>2 DEF TurnStops
<1>3. QED
  BY <1>1, <1>2 DEF WellOK, PettedOK, AgeOK, OnceOK

\* A pause closes the device; a loop already paused has none.
LEMMA PausesWell ==
  ASSUME IInv, WellOK, TurnPauses
  PROVE  WellOK'
<1>1. state' = "paused" /\ Asked = "paused" /\ UNCHANGED sick
  BY DEF TurnPauses, history
<1>2. CASE Pauses
  <2>1. ~handle' /\ (~sick' => ~timer')
    BY <1>1, <1>2 DEF TurnPauses, Disarm, WellOK, PettedOK
  <2>2. QED
    BY <1>1, <2>1 DEF WellOK, PettedOK, AgeOK, OnceOK
<1>3. CASE ~Pauses
  <2>1. ~handle
    BY <1>1, <1>3 DEF Asked, Resumed, IInv, TypeOK
  <2>2. ~handle' /\ timer' = timer
    BY <1>3, <2>1 DEF TurnPauses, board
  <2>3. QED
    BY <1>1, <2>1, <2>2 DEF WellOK, PettedOK, AgeOK, OnceOK
<1>4. QED
  BY <1>2, <1>3

\* A unit of time passes: the turn of the last one has been.
LEMMA TimeWell ==
  ASSUME IInv, WellOK, Time
  PROVE  WellOK'
<1> SUFFICES ASSUME ~sick' PROVE WellOK'
  BY DEF WellOK, PettedOK, AgeOK, OnceOK
<1>0. /\ UNCHANGED <<svc, state, handle, fails, well, asks, pc, timer, machine, slept, sick>>
      /\ age' = (IF timer THEN age + 1 ELSE 0)
      /\ quiet' = (IF svc = "up" THEN quiet + 1 ELSE 0)
      /\ due' = Live
  BY DEF Time, Passes
<1>1. CASE ~handle
  BY <1>0, <1>1 DEF WellOK, PettedOK, AgeOK, OnceOK
<1>2. CASE handle
  <2>1. Live /\ timer /\ svc = "up"
    BY <1>0, <1>2 DEF IInv, TypeOK, WellOK, PettedOK
  <2>2. Pending = 0 /\ Pending' = 1 /\ pc = "wait" /\ (Away' <=> Away)
    BY <1>0, <2>1 DEF Time, OnTime, Pending, Away
  <2>3. age' = age + 1 /\ quiet' = quiet + 1
    BY <1>0, <2>1
  <2>4. PettedOK'
    BY <1>0, <1>2, <2>1, <2>2, <2>3, CountTypesHold DEF WellOK, PettedOK, IInv
  <2>5. AgeOK'
    BY <1>0, <1>2, <2>2, <2>3, CountTypesHold DEF WellOK, AgeOK, IInv
  <2>6. OnceOK'
    BY <1>0, <1>2, <2>2, <2>3, CountTypesHold DEF WellOK, OnceOK, IInv
  <2>7. QED
    BY <2>4, <2>5, <2>6 DEF WellOK
<1>3. QED
  BY <1>1, <1>2

\* systemd kills no loop that pets the timer.
LEMMA KillsWell ==
  ASSUME Patient, IInv, WellOK, SystemdKills
  PROVE  WellOK'
<1>1. UNCHANGED <<timer, sick>> /\ ~handle' /\ state' = "starting"
  BY DEF SystemdKills, Gone, board
<1>2. ~sick => ~handle
  BY CountTypesHold DEF Patient, SystemdKills, IInv, WellOK, PettedOK
<1>3. QED
  BY <1>1, <1>2 DEF WellOK, PettedOK, AgeOK, OnceOK

\* The hook, the machine and the disk leave the device to the loop.
LEMMA HookWell ==
  ASSUME IInv, WellOK,
         \/ HookPauses \/ PauseSeen \/ PauseUnseen \/ Suspends \/ Wakes \/ HookResumes
         \/ DiskChanges \/ Resets \/ OwnerStops \/ ThreadEnds \/ UNCHANGED vars
  PROVE  WellOK'
<1>0. /\ UNCHANGED <<state, handle, fails, well, pc, due, timer, age, quiet, sick>>
      /\ handle => UNCHANGED svc
  BY DEF HookPauses, PauseSeen, PauseUnseen, Suspends, Wakes, HookResumes, DiskChanges, Resets,
     OwnerStops, ThreadEnds, vars, loop, board, history, IInv, TypeOK, Live
<1>1. PettedOK' /\ AgeOK' /\ Pending' = Pending
  BY <1>0 DEF WellOK, PettedOK, AgeOK, Pending
<1>2. OnceOK'
  <2> SUFFICES ASSUME ~sick, handle, "pause" \notin asks'
               PROVE  /\ slept' \/ Away' => age <= fails + Pending
                      /\ slept' /\ Away' => pc = "wait" /\ age <= Pending
    BY <1>0, <1>1 DEF OnceOK
  <2>1. svc = "up"
    BY DEF WellOK, PettedOK
  <2>2. ~HookPauses
    BY <2>1 DEF HookPauses, Signals
  <2>3. "pause" \notin asks
    BY <2>1, <2>2 DEF PauseSeen, PauseUnseen, Suspends, Wakes, HookResumes, Signals,
       DiskChanges, Resets, OwnerStops, ThreadEnds, vars
  <2>4. /\ slept \/ Away => age <= fails + Pending
        /\ slept /\ Away => pc = "wait" /\ age <= Pending
    BY <2>3 DEF WellOK, OnceOK
  <2>5. CASE Wakes
    BY <2>4, <2>5 DEF Wakes, Away
  <2>6. CASE ~Wakes
    <3>1. slept' = slept
      BY <2>2, <2>6 DEF PauseSeen, PauseUnseen, Suspends, HookResumes, DiskChanges, Resets,
         OwnerStops, ThreadEnds, vars
    <3>2. Away' => Away
      BY <2>2, <2>6 DEF PauseSeen, PauseUnseen, Suspends, HookResumes, DiskChanges, Resets,
         OwnerStops, ThreadEnds, vars, world, Away
    <3>3. QED
      BY <2>4, <3>1, <3>2
  <2>7. QED
    BY <2>5, <2>6
<1>3. QED
  BY <1>1, <1>2 DEF WellOK

\* A process that starts has no device, and no timer runs unless it is sick.
LEMMA StartsWell ==
  ASSUME IInv, WellOK, SystemdStarts \/ OwnerStarts \/ Boots
  PROVE  WellOK'
<1>1. ~handle' /\ state' = "starting"
  BY DEF SystemdStarts, OwnerStarts, Boots, Fresh
<1>2. CASE Boots
  BY <1>1, <1>2 DEF Boots, WellOK, PettedOK, AgeOK, OnceOK
<1>3. CASE SystemdStarts \/ OwnerStarts
  <2>1. ~Live /\ UNCHANGED <<timer, sick>>
    BY <1>3 DEF SystemdStarts, OwnerStarts, board, history, Live
  <2>2. ~handle
    BY <2>1 DEF IInv, TypeOK
  <2>3. QED
    BY <1>1, <2>1, <2>2 DEF WellOK, PettedOK, AgeOK, OnceOK
<1>4. QED
  BY <1>2, <1>3

\* Every step: what goes wrong without a verdict is in sick at once.
LEMMA WellStep ==
  ASSUME Patient, IInv, WellOK, [Next]_vars
  PROVE  WellOK'
<1>1. CASE TurnFindsNone
  <2>1. ~handle /\ UNCHANGED <<handle, timer, sick>>
    BY <1>1 DEF TurnFindsNone, board, history, IInv, TypeOK
  <2>2. ~sick => state' # "tripped"
    BY <1>1 DEF TurnFindsNone, Asked, Resumed, WellOK, PettedOK
  <2>3. QED
    BY <2>1, <2>2 DEF WellOK, PettedOK, AgeOK, OnceOK
<1>2. CASE \E lets \in BOOLEAN : ProbeEnds(lets) \/ ProbeLate(lets)
  <2>1. PICK lets \in BOOLEAN : ProbeEnds(lets) \/ ProbeLate(lets)
    BY <1>2
  <2>2. PICK ok \in BOOLEAN : Verdict(state, fails, hold, ok, lets)
    BY <2>1 DEF ProbeEnds, ProbeLate
  <2>3. pc = "look" /\ asks \subseteq {"resume"} /\ UNCHANGED <<asks, slept>>
    BY <2>1 DEF ProbeEnds, ProbeLate
  <2>4. QED
    BY <2>2, <2>3, LookWell
<1>3. CASE \E lets \in BOOLEAN : TrippedStays(lets)
  <2>1. PICK lets \in BOOLEAN : TrippedStays(lets)
    BY <1>3
  <2>2. Asked = "tripped" /\ state = "tripped"
    BY <2>1 DEF TrippedStays, Turns, Asked, Pauses, Resumed
  <2>3. sick
    BY <2>2 DEF WellOK, PettedOK
  <2>4. sick'
    BY <2>1, <2>2, <2>3 DEF TrippedStays, Verdict, Opens
  <2>5. QED
    BY <2>4 DEF WellOK, PettedOK, AgeOK, OnceOK
<1>4. CASE PauseFails \/ Crash \/ Stall
  <2>1. sick'
    BY <1>4 DEF PauseFails, Crash, Stall
  <2>2. QED
    BY <2>1 DEF WellOK, PettedOK, AgeOK, OnceOK
<1>5. CASE \E lets \in BOOLEAN : TurnFindsStuck(lets)
  BY <1>5, StuckWell
<1>6. QED
  BY <1>1, <1>2, <1>3, <1>4, <1>5, StopsWell, PausesWell, ProbesWell, TimeWell, KillsWell,
     HookWell, StartsWell DEF Next, LoopStep, SystemStep, Disturb

\* The board resets no machine that is well: with a timer that outlasts two series
\* of failures, whatever the sleeps, the restarts and the faults before.
THEOREM TheWellLiveOn == ASSUME Patient PROVE Spec => WellIsNotReset
<1>1. Init => WellOK
  BY DEF Init, WellOK, PettedOK, AgeOK, OnceOK
<1>2. IInv /\ WellOK /\ [Next]_vars => WellOK'
  BY WellStep
<1>3. IInv /\ WellOK => [Resets => sick]_vars
  <2> SUFFICES ASSUME IInv, WellOK, Resets, ~sick PROVE FALSE
    OBVIOUS
  <2>1. timer /\ age = Timeout
    BY DEF Resets
  <2>2. handle /\ fails < FailsToStop
    BY <2>1 DEF WellOK, PettedOK
  <2>3. age <= fails + Pending + (FailsToStop - 1)
    BY <2>2 DEF WellOK, AgeOK
  <2>4. QED
    BY <2>1, <2>2, <2>3, CountTypesHold DEF Patient, IInv
<1>4. QED
  BY <1>1, <1>2, <1>3, WatchdogInv, PTL DEF Spec, WellIsNotReset
=============================================================================
