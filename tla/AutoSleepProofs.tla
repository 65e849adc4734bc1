--------------------------- MODULE AutoSleepProofs ---------------------------
(***************************************************************************)
(* Auto sleep takes the machine down only after an idle period, for any    *)
(* number of requests, any idle time longer than the file's time limit,    *)
(* and any faults.                                                         *)
(***************************************************************************)
EXTENDS AutoSleep, FiniteSetTheorems, TLAPS

-----------------------------------------------------------------------------
(* The inductive invariant. *)

\* Between TickStarts and the end of the tick.
Ticking == pc \in {"reading", "probing", "asking"}

\* The tick goes by a file it believed.
Believed == pc = "asking" \/ (pc = "probing" /\ due)

\* With nothing in flight, no request ran after the last activity.
WorkOK == Running = {} => \A k \in worked : k >= last

\* What a snapshot says: no request ran between the last activity and then.
ShotFits(s, W) == s.last # None => \A k \in W : k <= s.at \/ k >= s.last

ShotTrue(s) == ShotFits(s, worked)

ShotsOK ==
  /\ file # None => ShotTrue(file)
  /\ \A w \in Writers : at[w] = "writing" => shot[w] # None /\ ShotTrue(shot[w])

\* A tick is short, or was cut in two by a sleep.
AskedOK == Ticking => asked <= Slow \/ asked = Old

DueOK == Believed => \A k \in worked : k <= asked + Stale \/ k >= asked + Minutes

\* The service knows of the last wake or refusal, or will at its next tick.
RestOK ==
  /\ jumped # "yes" => rest >= since
  /\ jumped = "yes" /\ Ticking => asked = Old
  /\ Believed /\ asked # Old => since >= asked + Minutes

IInv == TypeOK /\ WorkOK /\ ShotsOK /\ AskedOK /\ DueOK /\ RestOK

-----------------------------------------------------------------------------
(* Ages. *)

LEMMA ConstantFacts ==
  /\ Old \in Nat /\ Old >= Slow + 1 /\ Old = Minutes + Slow
  /\ 0 \in Ages /\ Old \in Ages /\ Minutes \in Nat /\ Slow \in Nat /\ Stale \in Nat
  BY AutoSleepAssumption DEF Old, Ages

LEMMA AgesAreNat == \A a \in Ages : a \in Nat /\ a <= Old
  BY ConstantFacts DEF Ages

LEMMA OlderAge ==
  ASSUME NEW a \in Ages
  PROVE  /\ Older(a) \in Ages
         /\ Older(a) >= a
         /\ a < Old => Older(a) = a + 1
         /\ a = Old => Older(a) = Old
  BY ConstantFacts DEF Older, Ages

LEMMA OlderKeepsOrder ==
  ASSUME NEW a \in Ages, NEW b \in Ages, a <= b
  PROVE  Older(a) <= Older(b)
  BY ConstantFacts DEF Older, Ages

LEMMA AgedShot ==
  ASSUME NEW s \in Shots \cup {None}
  PROVE  /\ Aged(s) \in Shots \cup {None}
         /\ LongAgo(s) \in Shots \cup {None}
         /\ s # None => /\ s \in Shots /\ Aged(s) \in Shots /\ LongAgo(s) \in Shots
                        /\ Aged(s).at = Older(s.at)
                        /\ Aged(s).last = IF s.last = None THEN None ELSE Older(s.last)
                        /\ LongAgo(s).at = Old
<1>1. CASE s = None
  BY <1>1 DEF Aged, LongAgo
<1>2. CASE s # None
  <2>1. s \in Shots /\ s.at \in Ages /\ s.last \in Ages \cup {None}
    BY <1>2 DEF Shots
  <2>2. Older(s.at) \in Ages /\ (s.last # None => Older(s.last) \in Ages)
    BY <2>1, OlderAge
  <2>3. QED
    BY <1>2, <2>1, <2>2, ConstantFacts DEF Aged, LongAgo, Shots
<1>3. QED
  BY <1>1, <1>2

LEMMA NoneIsNoShot == None \notin Shots
  BY AutoSleepAssumption, AgesAreNat DEF Shots

-----------------------------------------------------------------------------
(* The requests in flight can be counted. *)

LEMMA RunningFinite == IsFiniteSet(Running) /\ Cardinality(Running) \in Nat
<1>1. Running \subseteq Requests
  BY DEF Running
<1>2. QED
  BY <1>1, AutoSleepAssumption, FS_Subset, FS_CardinalityType

LEMMA NothingInFlight ==
  ASSUME TypeOK
  PROVE  inflight = 0 <=> Running = {}
  BY RunningFinite, FS_EmptySet DEF TypeOK

-----------------------------------------------------------------------------
(* Every step keeps the invariant. *)

LEMMA Starts == Init => IInv
<1> SUFFICES ASSUME Init PROVE IInv
  OBVIOUS
<1>1. Running = {}
  BY DEF Init, Running, Writers
<1>2. TypeOK
  BY <1>1, FS_EmptySet, ConstantFacts DEF Init, TypeOK
<1>3. WorkOK /\ ShotsOK /\ AskedOK /\ DueOK /\ RestOK
  BY ConstantFacts DEF Init, WorkOK, ShotsOK, AskedOK, DueOK, RestOK, Ticking, Believed
<1>4. QED
  BY <1>2, <1>3 DEF IInv

\* Begin only adds work of now, which every snapshot allows.
LEMMA BeginKeeps ==
  ASSUME IInv, NEW r \in Requests, Begin(r)
  PROVE  IInv'
<1> USE DEF IInv
<1>1. Running' = Running \cup {r} /\ r \notin Running
  BY AutoSleepAssumption DEF Begin, TypeOK, Running, Writers
<1>2. Cardinality(Running') = inflight + 1
  BY <1>1, RunningFinite, FS_AddElement DEF TypeOK
<1>3. TypeOK'
  BY <1>2, ConstantFacts DEF TypeOK, Begin, idle, machine, Writers
<1>4. WorkOK'
  BY <1>1 DEF WorkOK
<1>5. ASSUME NEW s \in Shots, ShotTrue(s)
      PROVE  s.last # None => \A k \in worked' : k <= s.at \/ k >= s.last
  BY <1>5, AgesAreNat DEF ShotTrue, ShotFits, Begin, Shots
<1>6. ShotsOK'
  BY <1>5, AgedShot DEF ShotsOK, ShotTrue, ShotFits, Begin, TypeOK, Writers
<1>7. AskedOK' /\ RestOK'
  BY DEF AskedOK, RestOK, Ticking, Believed, Begin, idle
<1>8. DueOK'
  BY AgesAreNat, ConstantFacts DEF DueOK, Believed, Begin, idle, TypeOK
<1>9. QED
  BY <1>3, <1>4, <1>6, <1>7, <1>8

\* The history, the tick and the machine are left as they are.
Aside == UNCHANGED <<idle, booted, machine, worked, rest>>

\* So of such a step only the gateway's part is to be shown.
LEMMA AsideKeeps ==
  ASSUME IInv, Aside, TypeOK', WorkOK', ShotsOK'
  PROVE  IInv'
  BY DEF IInv, Aside, idle, machine, AskedOK, DueOK, RestOK, Ticking, Believed

LEMMA SnapshotKeeps ==
  ASSUME IInv, NEW w \in Writers, Snapshot(w)
  PROVE  IInv'
<1> USE DEF IInv
<1>1. Running' = Running
  BY AutoSleepAssumption DEF Snapshot, Running, TypeOK, Writers
<1>2. Seen(last) \in Shots /\ ShotTrue(Seen(last))
  BY NothingInFlight, ConstantFacts DEF Seen, ShotTrue, ShotFits, WorkOK, TypeOK, Shots
<1>3. TypeOK'
  BY <1>1, <1>2 DEF TypeOK, Snapshot, idle, machine
<1>4. WorkOK'
  BY <1>1 DEF WorkOK, Snapshot
<1>5. shot'[w] = Seen(last) /\ \A v \in Writers \ {w} : shot'[v] = shot[v] /\ at'[v] = at[v]
  BY DEF Snapshot, TypeOK
<1>6. Seen(last) # None
  BY <1>2, NoneIsNoShot
<1>7. ShotsOK'
  BY <1>2, <1>5, <1>6 DEF ShotsOK, ShotTrue, ShotFits, Snapshot
<1>8. QED
  BY <1>3, <1>4, <1>7, AsideKeeps DEF Aside, Snapshot

LEMMA WriteKeeps ==
  ASSUME IInv, NEW w \in Writers, Write(w) \/ WriteFails(w)
  PROVE  IInv'
<1> USE DEF IInv
<1>1. Running' = Running
  BY AutoSleepAssumption DEF Write, WriteFails, Written, Running, TypeOK, Writers
<1>2. at[w] = "writing" /\ shot[w] # None /\ ShotTrue(shot[w]) /\ shot[w] \in Shots
  BY DEF Write, WriteFails, ShotsOK, TypeOK
<1>3. TypeOK'
  BY <1>1, <1>2 DEF TypeOK, Write, WriteFails, Written, idle, machine
<1>4. WorkOK'
  BY <1>1 DEF WorkOK, Write, WriteFails
<1>5. file' \in {file, shot[w]} /\ worked' = worked
  BY DEF Write, WriteFails
<1>6. \A v \in Writers \ {w} : shot'[v] = shot[v] /\ at'[v] = at[v]
  BY DEF Write, WriteFails, Written, TypeOK
<1>7. at'[w] # "writing"
  BY DEF Write, WriteFails, Written, TypeOK
<1>8. ShotsOK'
  BY <1>2, <1>5, <1>6, <1>7 DEF ShotsOK, ShotTrue, ShotFits
<1>9. QED
  BY <1>3, <1>4, <1>8, AsideKeeps DEF Aside, Write, WriteFails

LEMMA EndKeeps ==
  ASSUME IInv, NEW r \in Requests, End(r)
  PROVE  IInv'
<1> USE DEF IInv
<1>1. Running' = Running \ {r} /\ r \in Running
  BY AutoSleepAssumption DEF End, TypeOK, Running, Writers
<1>2. Cardinality(Running') = inflight - 1 /\ inflight \in Nat /\ inflight # 0
  BY <1>1, RunningFinite, FS_RemoveElement, NothingInFlight DEF TypeOK
<1>3. TypeOK'
  BY <1>2, ConstantFacts DEF TypeOK, End, idle, machine, Writers
<1>4. WorkOK'
  BY AgesAreNat DEF WorkOK, End, TypeOK
<1>5. ShotsOK'
  BY DEF ShotsOK, ShotTrue, ShotFits, End, TypeOK, Writers
<1>6. QED
  BY <1>3, <1>4, <1>5, AsideKeeps DEF Aside, End

LEMMA TouchKeeps ==
  ASSUME IInv, Touch
  PROVE  IInv'
<1> USE DEF IInv
<1>1. Running' = Running
  BY DEF Touch, Running
<1>2. TypeOK'
  BY <1>1, ConstantFacts DEF TypeOK, Touch, idle, machine
<1>3. WorkOK' /\ ShotsOK'
  BY AgesAreNat DEF WorkOK, ShotsOK, ShotTrue, ShotFits, Touch, TypeOK
<1>4. QED
  BY <1>2, <1>3, AsideKeeps DEF Aside, Touch

LEMMA GatewayRestartKeeps ==
  ASSUME IInv, GatewayRestarts
  PROVE  IInv'
<1> USE DEF IInv
<1>1. Running' = {}
  BY DEF GatewayRestarts, Running, Writers
<1>2. TypeOK'
  BY <1>1, FS_EmptySet, ConstantFacts DEF TypeOK, GatewayRestarts, idle, machine
<1>3. WorkOK' /\ ShotsOK'
  BY AgesAreNat DEF WorkOK, ShotsOK, ShotTrue, ShotFits, GatewayRestarts, TypeOK
<1>4. QED
  BY <1>2, <1>3, AsideKeeps DEF Aside, GatewayRestarts

\* The gateway and the history are left as they are.
Apart == UNCHANGED <<gateway, booted, machine, worked>>

LEMMA ApartKeeps ==
  ASSUME IInv, Apart
  PROVE  /\ WorkOK' /\ ShotsOK'
         /\ pc' \in {"rest", "reading", "probing", "asking", "returning"} /\ asked' \in Ages
            /\ due' \in BOOLEAN /\ since' \in Ages /\ jumped' \in {"unknown", "no", "yes"}
            /\ rest' \in Ages
            => TypeOK'
  BY DEF IInv, Apart, gateway, machine, WorkOK, ShotsOK, ShotTrue, ShotFits, Running, TypeOK

LEMMA TickStartsKeeps ==
  ASSUME IInv, TickStarts
  PROVE  IInv'
<1> USE DEF IInv
<1>1. TypeOK' /\ WorkOK' /\ ShotsOK'
  BY ApartKeeps, ConstantFacts DEF TickStarts, Apart, TypeOK
<1>2. AskedOK' /\ DueOK'
  BY ConstantFacts DEF TickStarts, AskedOK, DueOK, Ticking, Believed
<1>3. RestOK'
  BY AgesAreNat DEF TickStarts, RestOK, Ticking, Believed, TypeOK
<1>4. QED
  BY <1>1, <1>2, <1>3

\* The file is believed of a moment that is recent, and says that nothing ran
\* for a whole idle time before the tick.
LEMMA TickReadsKeeps ==
  ASSUME IInv, TickReads
  PROVE  IInv'
<1> USE DEF IInv
<1>1. TypeOK' /\ WorkOK' /\ ShotsOK'
  BY ApartKeeps DEF TickReads, Apart, TypeOK, Due
<1>2. AskedOK'
  BY DEF TickReads, AskedOK, Ticking
<1>3. due' => file \in Shots /\ file.at \in Ages /\ file.last \in Ages
  BY DEF TickReads, Due, Fresh, TypeOK, Shots
<1>4. due' => ShotTrue(file) /\ file.last # None
  BY DEF TickReads, Due, Fresh, ShotsOK
<1>5. DueOK'
  <2> SUFFICES ASSUME due', NEW k \in worked
               PROVE  k <= asked + Stale \/ k >= asked + Minutes
    BY DEF TickReads, DueOK, Believed
  <2>1. k <= file.at \/ k >= file.last
    BY <1>4 DEF ShotTrue, ShotFits
  <2>2. file.at <= asked + Stale /\ file.last >= asked + Minutes
    BY DEF TickReads, Due, Fresh
  <2>3. k \in Nat /\ asked \in Nat /\ file.at \in Nat /\ file.last \in Nat
    BY <1>3, AgesAreNat DEF TypeOK
  <2>4. QED
    BY <2>1, <2>2, <2>3, ConstantFacts
<1>6. RestOK'
  BY DEF TickReads, RestOK, Ticking, Believed, Due
<1>7. QED
  BY <1>1, <1>2, <1>5, <1>6

LEMMA TickDecidesKeeps ==
  ASSUME IInv, TickDecides
  PROVE  IInv'
<1> USE DEF IInv
<1>1. TypeOK' /\ WorkOK' /\ ShotsOK'
  BY ApartKeeps, ConstantFacts DEF TickDecides, TickEnds, Apart, TypeOK
<1>2. AskedOK' /\ DueOK'
  BY DEF TickDecides, TickEnds, AskedOK, DueOK, Ticking, Believed
<1>3. since' \in Nat /\ since' <= since
  BY AgesAreNat DEF TickDecides, TypeOK
<1>4. pc' = "asking" => since' = since
  BY DEF TickDecides, TickEnds
<1>5. RestOK'
  BY <1>3, <1>4, AgesAreNat DEF TickDecides, TickEnds, RestOK, Ticking, Believed, TypeOK
<1>6. QED
  BY <1>1, <1>2, <1>5

LEMMA TickOverKeeps ==
  ASSUME IInv, Refuse \/ Returns \/ TickFails \/ ServiceRestarts
  PROVE  IInv'
<1> USE DEF IInv
<1>1. TypeOK' /\ WorkOK' /\ ShotsOK'
  BY ApartKeeps, ConstantFacts DEF Refuse, Returns, TickFails, ServiceRestarts, TickEnds, Apart, TypeOK
<1>2. pc' = "rest"
  BY DEF Refuse, Returns, TickFails, ServiceRestarts, TickEnds
<1>3. AskedOK' /\ DueOK'
  BY <1>2 DEF AskedOK, DueOK, Ticking, Believed
<1>4. RestOK'
  BY <1>2, AgesAreNat, ConstantFacts
     DEF Refuse, Returns, TickFails, ServiceRestarts, RestOK, Ticking, Believed, TypeOK
<1>5. QED
  BY <1>1, <1>3, <1>4

LEMMA SleepKeeps ==
  ASSUME IInv, Suspend \/ OwnerSleeps
  PROVE  IInv'
<1> USE DEF IInv
<1>1. Sleeps
  BY DEF Suspend, OwnerSleeps
<1>2. Running' = Running
  BY <1>1 DEF Sleeps, Running
<1>3. \A w \in Writers : LongAgo(shot[w]) \in Shots \cup {None}
  BY AgedShot DEF TypeOK
<1>4. LongAgo(file) \in Shots \cup {None}
  BY AgedShot DEF TypeOK
<1>5. TypeOK'
  BY <1>1, <1>2, <1>3, <1>4, ConstantFacts DEF Sleeps, TypeOK, Suspend, OwnerSleeps
<1>6. worked' \subseteq {0} /\ (Running = {} => worked' = {})
  BY <1>1 DEF Sleeps
<1>7. WorkOK'
  BY <1>2, <1>6 DEF WorkOK
<1>8. ASSUME NEW s \in Shots, s # None
      PROVE  (LongAgo(s).last # None => \A k \in worked' : k <= LongAgo(s).at) /\ LongAgo(s) # None
  <2>1. LongAgo(s).at = Old
    BY <1>8, AgedShot
  <2>2. LongAgo(s) # None
    BY <1>8, AgedShot, NoneIsNoShot
  <2>3. QED
    BY <2>1, <2>2, <1>6, ConstantFacts
<1>9. ShotsOK'
  <2>1. file' # None => ShotFits(file', worked')
    BY <1>1, <1>8 DEF Sleeps, ShotTrue, ShotFits, TypeOK, LongAgo
  <2>2. ASSUME NEW w \in Writers, at'[w] = "writing"
        PROVE  shot'[w] # None /\ ShotFits(shot'[w], worked')
    <3>1. shot[w] # None /\ shot[w] \in Shots /\ shot'[w] = LongAgo(shot[w])
      BY <1>1, <2>2 DEF Sleeps, ShotsOK, TypeOK
    <3>2. QED
      BY <3>1, <1>8 DEF ShotTrue, ShotFits
  <2>3. QED
    BY <2>1, <2>2 DEF ShotsOK, ShotTrue, ShotFits
<1>10. Ticking' => asked' = Old
  BY <1>1 DEF Sleeps, Suspend, OwnerSleeps, Ticking
<1>11. AskedOK' /\ DueOK'
  BY <1>6, <1>10, ConstantFacts DEF AskedOK, DueOK, Believed, Ticking
<1>12. RestOK'
  BY <1>1, <1>10, ConstantFacts DEF Sleeps, RestOK, Believed, Ticking
<1>13. QED
  BY <1>5, <1>7, <1>9, <1>11, <1>12

LEMMA TimeKeeps ==
  ASSUME IInv, Time
  PROVE  IInv'
<1> USE DEF IInv
<1>1. Running' = Running
  BY DEF Time, Running
<1>2. \A w \in Writers : Aged(shot[w]) \in Shots \cup {None}
  BY AgedShot DEF TypeOK
<1>3. Aged(file) \in Shots \cup {None}
  BY AgedShot DEF TypeOK
<1>4. Older(last) \in Ages /\ Older(since) \in Ages /\ Older(booted) \in Ages
      /\ Older(asked) \in Ages /\ Older(rest) \in Ages /\ \A k \in worked : Older(k) \in Ages
  BY OlderAge DEF TypeOK
<1>5. TypeOK'
  BY <1>1, <1>2, <1>3, <1>4, ConstantFacts DEF Time, TypeOK, machine
<1>6. ASSUME NEW j \in worked'
      PROVE  \/ j = 0 /\ Running # {}
             \/ \E k \in worked : k \in Ages /\ k < Old /\ j = k + 1 /\ j = Older(k)
  BY <1>6, OlderAge, AgesAreNat, ConstantFacts DEF Time, TypeOK
<1>7. WorkOK'
  BY <1>1, <1>6, NothingInFlight, OlderKeepsOrder DEF WorkOK, Time, TypeOK
<1>8. ASSUME NEW s \in Shots, s # None, ShotTrue(s)
      PROVE  /\ Aged(s) # None
             /\ Aged(s).last # None => \A j \in worked' : j <= Aged(s).at \/ j >= Aged(s).last
  <2>1. Aged(s) # None
    BY <1>8, AgedShot, NoneIsNoShot
  <2>2. ASSUME NEW j \in worked', Aged(s).last # None
        PROVE  j <= Aged(s).at \/ j >= Aged(s).last
    <3>1. s.at \in Ages /\ s.last \in Ages /\ s.last # None
      BY <1>8, <2>2, AgedShot DEF Shots
    <3>2. Aged(s).at = Older(s.at) /\ Aged(s).last = Older(s.last)
      BY <1>8, <3>1, AgedShot
    <3>3. CASE j = 0
      BY <3>1, <3>2, <3>3, OlderAge, AgesAreNat
    <3>4. CASE \E k \in worked : k \in Ages /\ j = Older(k)
      BY <1>8, <3>1, <3>2, <3>4, OlderKeepsOrder DEF ShotTrue, ShotFits
    <3>5. QED
      BY <1>6, <3>3, <3>4
  <2>3. QED
    BY <2>1, <2>2
<1>9. ShotsOK'
  <2>1. file' # None => ShotFits(file', worked')
    BY <1>8 DEF Time, ShotsOK, ShotTrue, ShotFits, TypeOK, Aged
  <2>2. ASSUME NEW w \in Writers, at'[w] = "writing"
        PROVE  shot'[w] # None /\ ShotFits(shot'[w], worked')
    <3>1. shot[w] # None /\ shot[w] \in Shots /\ shot'[w] = Aged(shot[w]) /\ ShotTrue(shot[w])
      BY <2>2 DEF Time, ShotsOK, TypeOK
    <3>2. QED
      BY <3>1, <1>8 DEF ShotTrue, ShotFits
  <2>3. QED
    BY <2>1, <2>2 DEF ShotsOK, ShotTrue, ShotFits
<1>10. Ticking => /\ asked' = Older(asked)
                  /\ asked = Old \/ (asked < Slow /\ asked' = asked + 1)
                  /\ Ticking' /\ pc' = pc /\ due' = due
  BY OlderAge, AgesAreNat, ConstantFacts DEF Time, AskedOK, Ticking, TypeOK
<1>11. Ticking' = Ticking /\ Believed' = Believed /\ (Believed => Ticking)
  BY DEF Time, Ticking, Believed
<1>12. AskedOK'
  BY <1>10, <1>11, OlderAge, AgesAreNat, ConstantFacts DEF AskedOK, TypeOK
<1>13. DueOK'
  <2> SUFFICES ASSUME Believed, NEW j \in worked'
               PROVE  j <= asked' + Stale \/ j >= asked' + Minutes
    BY <1>11 DEF DueOK
  <2>1. CASE asked = Old
    BY <1>4, <1>5, <1>10, <1>11, <2>1, OlderAge, AgesAreNat, ConstantFacts DEF TypeOK
  <2>2. CASE asked < Slow /\ asked' = asked + 1
    BY <1>6, <2>2, AgesAreNat, ConstantFacts DEF DueOK, TypeOK
  <2>3. QED
    BY <1>10, <1>11, <2>1, <2>2
<1>14. RestOK'
  <2>1. jumped' = jumped /\ rest' = Older(rest) /\ since' = Older(since)
    BY DEF Time
  <2>2. rest >= since => rest' >= since'
    BY <2>1, OlderKeepsOrder DEF TypeOK
  <2>3. asked = Old /\ Ticking => asked' = Old
    BY <1>10, OlderAge DEF TypeOK
  <2>4. ASSUME Believed, asked' # Old
        PROVE  since' >= asked' + Minutes
    <3>1. asked < Slow /\ asked' = asked + 1 /\ asked # Old
      BY <1>10, <1>11, <2>3, <2>4, AgesAreNat, ConstantFacts DEF TypeOK
    <3>2. since \in Ages /\ asked \in Nat /\ since >= asked + Minutes
      BY <2>4, <3>1, AgesAreNat DEF RestOK, TypeOK
    <3>3. QED
      BY <2>1, <3>1, <3>2, OlderAge, AgesAreNat, ConstantFacts
  <2>5. QED
    BY <1>11, <2>1, <2>2, <2>3, <2>4 DEF RestOK
<1>15. QED
  BY <1>5, <1>7, <1>9, <1>12, <1>13, <1>14

LEMMA MachineKeeps ==
  ASSUME IInv, Wake \/ Change \/ UNCHANGED vars
  PROVE  IInv'
<1>1. UNCHANGED <<gateway, idle, booted, worked, rest>>
      /\ obstacle' \in Obstacles /\ asleep' \in BOOLEAN
  BY DEF Wake, Change, vars, machine, IInv, TypeOK
<1>2. QED
  BY <1>1 DEF IInv, gateway, idle, TypeOK, WorkOK, ShotsOK, ShotTrue, ShotFits, AskedOK, DueOK, RestOK,
     Ticking, Believed, Running

LEMMA StepKeeps == IInv /\ [Next]_vars => IInv'
<1> SUFFICES ASSUME IInv, [Next]_vars PROVE IInv'
  OBVIOUS
<1>1. CASE \E r \in Requests : Begin(r) \/ End(r)
  BY <1>1, BeginKeeps, EndKeeps
<1>2. CASE \E w \in Writers : Snapshot(w) \/ Write(w) \/ WriteFails(w)
  BY <1>2, SnapshotKeeps, WriteKeeps
<1>3. CASE Touch \/ GatewayRestarts
  BY <1>3, TouchKeeps, GatewayRestartKeeps
<1>4. CASE TickStarts \/ TickReads \/ TickDecides
  BY <1>4, TickStartsKeeps, TickReadsKeeps, TickDecidesKeeps
<1>5. CASE Refuse \/ Returns \/ TickFails \/ ServiceRestarts
  BY <1>5, TickOverKeeps
<1>6. CASE Suspend \/ OwnerSleeps
  BY <1>6, SleepKeeps
<1>7. CASE Time
  BY <1>7, TimeKeeps
<1>8. CASE Wake \/ Change \/ UNCHANGED vars
  BY <1>8, MachineKeeps
<1>9. QED
  BY <1>1, <1>2, <1>3, <1>4, <1>5, <1>6, <1>7, <1>8 DEF Next, Disturb, Service, Writing

LEMMA Inductive == Spec => []IInv
  BY Starts, StepKeeps, PTL DEF Spec

-----------------------------------------------------------------------------
(* The theorems. *)

\* Every variable keeps its type, and what the gateway counts as in flight is
\* what runs, whatever is restarted (Activity.begin, Activity.end).
THEOREM AutoSleepTyped == Spec => []TypeOK
<1>1. IInv => TypeOK
  BY DEF IInv
<1>2. QED
  BY <1>1, Inductive, PTL

\* However the snapshots of begin and the stats loop overtake one another, and
\* whatever restarts: the service suspends only after an idle period that no
\* request ran in, but for the time limit of the file before the tick.
THEOREM NoSleepOnWork == Spec => SleepsOnlyIdle
<1>1. IInv /\ [Next]_vars
      => [Suspend => worked \cap (asked + Stale + 1 .. asked + Minutes - 1) = {}]_vars
  <2> SUFFICES ASSUME IInv, Suspend, NEW k \in worked, k \in asked + Stale + 1 .. asked + Minutes - 1
               PROVE  FALSE
    OBVIOUS
  <2>1. k <= asked + Stale \/ k >= asked + Minutes
    BY DEF IInv, DueOK, Believed, Suspend
  <2>2. QED
    BY <2>1, ConstantFacts, AgesAreNat DEF IInv, TypeOK
<1>2. QED
  BY <1>1, Inductive, PTL DEF Spec, SleepsOnlyIdle

\* A whole idle period lies between a wake or a refused sleep and the next one
\* the service asks for, unless the tick was cut in two or the service was
\* restarted (Idle.last_resume).
THEOREM RestsAfterWake == Spec => WholePeriod
<1>1. IInv /\ [Next]_vars => [Suspend /\ asked # Old => rest >= asked + Minutes]_vars
  <2> SUFFICES ASSUME IInv, Suspend, asked # Old PROVE rest >= asked + Minutes
    OBVIOUS
  <2>1. Ticking /\ Believed
    BY DEF Suspend, Ticking, Believed
  <2>2. rest >= since /\ since >= asked + Minutes
    BY <2>1 DEF IInv, RestOK
  <2>3. QED
    BY <2>2, ConstantFacts, AgesAreNat DEF IInv, TypeOK
<1>2. QED
  BY <1>1, Inductive, PTL DEF Spec, WholePeriod
=============================================================================
