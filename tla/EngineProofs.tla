---------------------------- MODULE EngineProofs ----------------------------
(***************************************************************************)
(* Proofs about Engine, for any callers, serves and releases, and any      *)
(* number of faults.                                                       *)
(***************************************************************************)
EXTENDS Engine, TLAPS

\* What is swapped in is an engine from the look at it to the rename: who
\* stages holds _STAGE_LOCK, so nothing else touches bin.new.
StagedOK == \A t \in Threads : th[t].at \in {"mark", "out", "in"} => IsEngine(new)

\* A serve runs an engine.
ServesOK == \A p \in Procs : Alive(p) => IsEngine(serve[p].engine)

ThreadRecords == [at : ThreadSteps, proc : Procs \cup {None}, heard : 0..Hulk, failed : BOOLEAN]
ServeRecords == [engine : Folders, at : {"none", "starting", "up"}, ours : BOOLEAN]

TypeInv == TypeOK /\ StagedOK /\ ServesOK

\* No rename and no deletion is refused; every other fault may happen.
Unrefused == "held" \notin Faults

\* Without a trial the engine in place works; with one, it or the one before.
TrialOK ==
  /\ trial = 0 => Works(bin)
  /\ trial # 0 /\ ~Works(bin) => Works(old)
  /\ trial # 0 /\ IsEngine(old) => Works(old)

\* Where the folders are when a thread is between two changes of them.
FoldersOK ==
  \A t \in Threads :
    /\ th[t].at \in {"undone", "back.done", "unmark"} => Works(bin) /\ old = Nothing
    /\ th[t].at \in {"swap", "mark", "clear"} => trial = 0
    /\ th[t].at \in {"mark", "out"} => Works(bin) /\ old = Nothing
    /\ th[t].at \in {"out", "in", "back.out", "back.in"} => trial # 0
    /\ th[t].at \in {"in", "back.out", "back.in"} => Works(old)
    /\ th[t].at \in {"in", "back.in"} => ~IsEngine(bin)

\* Who has a failed proof to undo, or may have one, is not misled by an
\* engine that a proven trial left in bin.old: it goes before the lock does.
InProof(t) == th[t].at \in {"prove", "answered", "silent", "left", "back"}
ProofOK ==
  trial = 0 /\ IsEngine(old) =>
    \/ \A t \in Threads : ~InProof(t)
    \/ \E u \in Threads : th[u].at = "clear"

\* What answers works.
HeardOK ==
  /\ \A p \in Procs : serve[p].at = "up" => Works(serve[p].engine)
  /\ \A t \in Threads : th[t].at = "answered" => Works(th[t].heard)

\* The inductive invariant.
KeptInv == TypeInv /\ HeardOK /\ (usurped \/ (TrialOK /\ FoldersOK /\ ProofOK))

-----------------------------------------------------------------------------

\* A thread that goes on, or starts anew, is still one.
LEMMA GoTyped ==
  ASSUME th \in [Threads -> ThreadRecords], NEW t \in Threads, NEW s \in ThreadSteps,
         th' = [th EXCEPT ![t].at = s]
  PROVE  th' \in [Threads -> ThreadRecords]
<1>1. [th[t] EXCEPT !.at = s] \in ThreadRecords
  BY DEF ThreadRecords
<1>2. QED
  BY <1>1

LEMMA ThreadTyped ==
  ASSUME NEW s \in ThreadSteps, NEW p \in Procs \cup {None}, NEW h \in 0..Hulk, NEW f \in BOOLEAN
  PROVE  /\ Thread(s) \in ThreadRecords
         /\ [Thread(s) EXCEPT !.proc = p] \in ThreadRecords
         /\ [Thread(s) EXCEPT !.heard = h] \in ThreadRecords
         /\ [Thread(s) EXCEPT !.failed = f] \in ThreadRecords
<1>1. Thread(s) \in ThreadRecords
  BY EngineAssumption DEF Thread, ThreadRecords, Hulk
<1>2. QED
  BY <1>1 DEF ThreadRecords

\* A serve starts or ends.
LEMMA ServeTyped ==
  ASSUME serve \in [Procs -> ServeRecords], ServesOK, NEW p, NEW r \in ServeRecords,
         r.at # "none" => IsEngine(r.engine), serve' = [serve EXCEPT ![p] = r]
  PROVE  serve' \in [Procs -> ServeRecords] /\ ServesOK'
BY DEF ServesOK, Alive, ServeRecords

LEMMA NoServeTyped == NoServe \in ServeRecords /\ NoServe.at = "none"
BY EngineAssumption DEF NoServe, ServeRecords, Folders, Nothing, Hulk

LEMMA TypeInit == Init => TypeInv
<1> SUFFICES ASSUME Init PROVE TypeInv
  OBVIOUS
<1> USE EngineAssumption DEF Init, Thread, NoServe, NoFetch, Folders, Hulk, Versions, Nothing
<1>1. {bin, old, new, gone} \subseteq Folders /\ latest \in Versions /\ faults \in 0..MaxFaults
  OBVIOUS
<1>2. th \in [Threads -> ThreadRecords] /\ serve \in [Procs -> ServeRecords]
  BY DEF ThreadRecords, ServeRecords, ThreadSteps
<1>3. \A t \in Threads : (th[t].at \in Swapping <=> swap = t) /\ (th[t].at \in Staging <=> stage = t)
  BY DEF Swapping, Staging
<1>4. swap \in Threads \cup {None} /\ stage \in Threads \cup {None, "fetch"}
      /\ fetch \in [at : {"idle", "asked", "fetching", "unpacked"}, have : 0..Hulk]
      /\ (stage = "fetch" <=> fetch.at \in {"fetching", "unpacked"})
      /\ trial \in 0..Hulk /\ bad \in 0..Hulk
  OBVIOUS
<1>5. complete \in BOOLEAN /\ proof \in BOOLEAN /\ up \in BOOLEAN /\ usurped \in BOOLEAN /\ misled \in BOOLEAN
  OBVIOUS
<1>6. TypeOK
  BY ONLY <1>1, <1>2, <1>3, <1>4, <1>5 DEF TypeOK, ThreadRecords, ServeRecords
<1>7. StagedOK /\ ServesOK
  BY DEF StagedOK, ServesOK, Alive
<1>8. QED
  BY <1>6, <1>7 DEF TypeInv

LEMMA TypeThread ==
  ASSUME TypeInv, NEW t \in Threads, ThreadStep(t)
  PROVE  TypeInv'
<1>0. th \in [Threads -> ThreadRecords] /\ serve \in [Procs -> ServeRecords] /\ ServesOK
  BY DEF TypeInv, TypeOK, ThreadRecords, ServeRecords
<1> USE EngineAssumption DEF TypeInv, TypeOK, StagedOK, ServesOK, At, Go, End, ThreadSteps, Swapping,
        Staging, IsEngine, Alive, Folders, Hulk, Versions, Nothing, Bits
<1>1. CASE Call(t)
  BY <1>1 DEF Call, disk, locks, world, Thread
<1>2. CASE Download(t)
  BY <1>2 DEF Download, locks, world, Thread
<1>3. CASE Downloaded(t)
  <2> USE <1>3 DEF Downloaded, locks, world
  <2>1. th' \in [Threads -> ThreadRecords]
    BY <1>0, GoTyped, ThreadTyped
  <2>2. (\A u \in Threads : (th[u].at \in Swapping <=> swap = u) /\ (th[u].at \in Staging <=> stage = u))'
    BY DEF Thread
  <2>3. serve' \in [Procs -> ServeRecords] /\ ServesOK'
    BY DEF ServeRecords
  <2>4. ({bin, old, new, gone} \subseteq Folders /\ trial \in 0..Hulk /\ bad \in 0..Hulk)'
    OBVIOUS
  <2>5. (complete \in BOOLEAN /\ proof \in BOOLEAN /\ usurped \in BOOLEAN /\ misled \in BOOLEAN /\ up \in BOOLEAN)'
    OBVIOUS
  <2>6. faults' \in 0..MaxFaults
    OBVIOUS
  <2>7. TypeOK'
    BY <2>1, <2>2, <2>3, <2>4, <2>5, <2>6 DEF ThreadRecords, ServeRecords
  <2>8. StagedOK'
    BY DEF Thread
  <2>9. QED
    BY <2>3, <2>7, <2>8
<1>4. CASE Serving(t)
  <2> USE <1>4 DEF Serving, DropTrial, Fault, Refused
  <2>1. th' \in [Threads -> ThreadRecords]
    BY <1>0, GoTyped, ThreadTyped
  <2>2. (\A u \in Threads : (th[u].at \in Swapping <=> swap = u) /\ (th[u].at \in Staging <=> stage = u))'
    BY DEF Thread
  <2>3. serve' \in [Procs -> ServeRecords] /\ ServesOK'
    BY DEF ServeRecords
  <2>4. ({bin, old, new, gone} \subseteq Folders /\ trial \in 0..Hulk /\ bad \in 0..Hulk)'
    OBVIOUS
  <2>5. (complete \in BOOLEAN /\ proof \in BOOLEAN /\ usurped \in BOOLEAN /\ misled \in BOOLEAN /\ up \in BOOLEAN)'
    OBVIOUS
  <2>6. faults' \in 0..MaxFaults
    OBVIOUS
  <2>7. TypeOK'
    BY <2>1, <2>2, <2>3, <2>4, <2>5, <2>6 DEF ThreadRecords, ServeRecords
  <2>8. StagedOK'
    BY DEF Thread
  <2>9. QED
    BY <2>3, <2>7, <2>8
<1>5. CASE Apply(t)
  BY <1>5 DEF Apply, disk, world, Thread
<1>6. CASE Undo(t)
  BY <1>6 DEF Undo, locks, world, Thread
<1>7. CASE Undone(t)
  BY <1>7 DEF Undone, locks, DropTrial, Refused, Fault, Thread
<1>8. CASE UndoHeld(t)
  BY <1>8 DEF UndoHeld, Fault, Unlock, Thread
<1>9. CASE Settle(t)
  BY <1>9 DEF Settle, DeleteOld, Left, Refused, Fault, Exists, Unlock, Thread
<1>10. CASE Swap(t)
  <2> USE <1>10 DEF Swap, DeleteOld, Left, Refused, Fault, Exists, Release, Unlock, Unstage
  <2>1. th' \in [Threads -> ThreadRecords]
    BY DEF ThreadRecords
  <2>2. (\A u \in Threads : (th[u].at \in Swapping <=> swap = u) /\ (th[u].at \in Staging <=> stage = u))'
    BY DEF Thread
  <2>3. serve' \in [Procs -> ServeRecords] /\ ServesOK'
    BY DEF ServeRecords
  <2>4. ({bin, old, new, gone} \subseteq Folders /\ trial \in 0..Hulk /\ bad \in 0..Hulk)'
    OBVIOUS
  <2>5. (complete \in BOOLEAN /\ proof \in BOOLEAN /\ usurped \in BOOLEAN /\ misled \in BOOLEAN /\ up \in BOOLEAN)'
    OBVIOUS
  <2>6. faults' \in 0..MaxFaults
    OBVIOUS
  <2>7. TypeOK'
    BY <2>1, <2>2, <2>3, <2>4, <2>5, <2>6 DEF ThreadRecords, ServeRecords
  <2>8. StagedOK'
    BY DEF Thread
  <2>9. QED
    BY <2>3, <2>7, <2>8
<1>11. CASE Mark(t)
  <2> USE <1>11 DEF Mark, Fault, Release, Unlock, Unstage
  <2>1. th' \in [Threads -> ThreadRecords]
    BY DEF ThreadRecords
  <2>2. (\A u \in Threads : (th[u].at \in Swapping <=> swap = u) /\ (th[u].at \in Staging <=> stage = u))'
    BY DEF Thread
  <2>3. serve' \in [Procs -> ServeRecords] /\ ServesOK'
    BY DEF ServeRecords
  <2>4. ({bin, old, new, gone} \subseteq Folders /\ trial \in 0..Hulk /\ bad \in 0..Hulk)'
    OBVIOUS
  <2>5. (complete \in BOOLEAN /\ proof \in BOOLEAN /\ usurped \in BOOLEAN /\ misled \in BOOLEAN /\ up \in BOOLEAN)'
    OBVIOUS
  <2>6. faults' \in 0..MaxFaults
    OBVIOUS
  <2>7. TypeOK'
    BY <2>1, <2>2, <2>3, <2>4, <2>5, <2>6 DEF ThreadRecords, ServeRecords
  <2>8. StagedOK'
    BY DEF Thread
  <2>9. QED
    BY <2>3, <2>7, <2>8
<1>12. CASE SwapOut(t)
  BY <1>12 DEF SwapOut, Exists, locks, world, Thread
<1>13. CASE SwapOutHeld(t)
  BY <1>13 DEF SwapOutHeld, Exists, Refused, Fault, Release, Unlock, Unstage, Thread
<1>14. CASE SwapIn(t)
  <2> USE <1>14 DEF SwapIn, Exists, Release, Unlock, Unstage, world
  <2>1. th' \in [Threads -> ThreadRecords]
    BY DEF ThreadRecords
  <2>2. (\A u \in Threads : (th[u].at \in Swapping <=> swap = u) /\ (th[u].at \in Staging <=> stage = u))'
    BY DEF Thread
  <2>3. serve' \in [Procs -> ServeRecords] /\ ServesOK'
    BY DEF ServeRecords
  <2>4. ({bin, old, new, gone} \subseteq Folders /\ trial \in 0..Hulk /\ bad \in 0..Hulk)'
    OBVIOUS
  <2>5. (complete \in BOOLEAN /\ proof \in BOOLEAN /\ usurped \in BOOLEAN /\ misled \in BOOLEAN /\ up \in BOOLEAN)'
    OBVIOUS
  <2>6. faults' \in 0..MaxFaults
    OBVIOUS
  <2>7. TypeOK'
    BY <2>1, <2>2, <2>3, <2>4, <2>5, <2>6 DEF ThreadRecords, ServeRecords
  <2>8. StagedOK'
    BY DEF Thread
  <2>9. QED
    BY <2>3, <2>7, <2>8
<1>15. CASE SwapInHeld(t)
  <2> USE <1>15 DEF SwapInHeld, Exists, Fault, Release, Unlock, Unstage
  <2>1. th' \in [Threads -> ThreadRecords]
    BY DEF ThreadRecords
  <2>2. (\A u \in Threads : (th[u].at \in Swapping <=> swap = u) /\ (th[u].at \in Staging <=> stage = u))'
    BY DEF Thread
  <2>3. serve' \in [Procs -> ServeRecords] /\ ServesOK'
    BY DEF ServeRecords
  <2>4. ({bin, old, new, gone} \subseteq Folders /\ trial \in 0..Hulk /\ bad \in 0..Hulk)'
    OBVIOUS
  <2>5. (complete \in BOOLEAN /\ proof \in BOOLEAN /\ usurped \in BOOLEAN /\ misled \in BOOLEAN /\ up \in BOOLEAN)'
    OBVIOUS
  <2>6. faults' \in 0..MaxFaults
    OBVIOUS
  <2>7. TypeOK'
    BY <2>1, <2>2, <2>3, <2>4, <2>5, <2>6 DEF ThreadRecords, ServeRecords
  <2>8. StagedOK'
    BY DEF Thread
  <2>9. QED
    BY <2>3, <2>7, <2>8
<1>16. CASE Rollback(t)
  <2> USE <1>16 DEF Rollback, DropTrial, Refused, Fault, Back, Unlock
  <2>1. th' \in [Threads -> ThreadRecords]
    BY <1>0, GoTyped, ThreadTyped
  <2>2. (\A u \in Threads : (th[u].at \in Swapping <=> swap = u) /\ (th[u].at \in Staging <=> stage = u))'
    BY DEF Thread
  <2>3. serve' \in [Procs -> ServeRecords] /\ ServesOK'
    BY DEF ServeRecords
  <2>4. ({bin, old, new, gone} \subseteq Folders /\ trial \in 0..Hulk /\ bad \in 0..Hulk)'
    OBVIOUS
  <2>5. (complete \in BOOLEAN /\ proof \in BOOLEAN /\ usurped \in BOOLEAN /\ misled \in BOOLEAN /\ up \in BOOLEAN)'
    OBVIOUS
  <2>6. faults' \in 0..MaxFaults
    OBVIOUS
  <2>7. TypeOK'
    BY <2>1, <2>2, <2>3, <2>4, <2>5, <2>6 DEF ThreadRecords, ServeRecords
  <2>8. StagedOK'
    BY DEF Thread
  <2>9. QED
    BY <2>3, <2>7, <2>8
<1>17. CASE BackOut(t)
  BY <1>17 DEF BackOut, Exists, locks, world, Thread
<1>18. CASE BackIn(t)
  BY <1>18 DEF BackIn, Exists, locks, world, Thread
<1>19. CASE BackRetry(t)
  <2> USE <1>19 DEF BackRetry, Exists, locks, world
  <2>1. th' \in [Threads -> ThreadRecords]
    BY DEF ThreadRecords
  <2>2. (\A u \in Threads : (th[u].at \in Swapping <=> swap = u) /\ (th[u].at \in Staging <=> stage = u))'
    BY DEF Thread
  <2>3. serve' \in [Procs -> ServeRecords] /\ ServesOK'
    BY DEF ServeRecords
  <2>4. ({bin, old, new, gone} \subseteq Folders /\ trial \in 0..Hulk /\ bad \in 0..Hulk)'
    OBVIOUS
  <2>5. (complete \in BOOLEAN /\ proof \in BOOLEAN /\ usurped \in BOOLEAN /\ misled \in BOOLEAN /\ up \in BOOLEAN)'
    OBVIOUS
  <2>6. faults' \in 0..MaxFaults
    OBVIOUS
  <2>7. TypeOK'
    BY <2>1, <2>2, <2>3, <2>4, <2>5, <2>6 DEF ThreadRecords, ServeRecords
  <2>8. StagedOK'
    BY DEF Thread
  <2>9. QED
    BY <2>3, <2>7, <2>8
<1>20. CASE BackHeld(t)
  BY <1>20 DEF BackHeld, Exists, Fault, Back, Unlock, Thread
<1>21. CASE BackDone(t)
  BY <1>21 DEF BackDone, locks, world, Thread
<1>22. CASE Unmark(t)
  BY <1>22 DEF Unmark, DropTrial, Refused, Fault, Back, Unlock, Thread
<1>23. CASE Launch(t)
  <2> USE <1>23 DEF Launch, disk, locks, world
  <2>1. th' \in [Threads -> ThreadRecords]
    <3>1. CASE IsEngine(bin)
      <4>1. PICK p \in Procs : th' = [th EXCEPT ![t] = [Thread("launched") EXCEPT !.proc = p]]
        BY <3>1
      <4>2. [Thread("launched") EXCEPT !.proc = p] \in ThreadRecords
        BY ThreadTyped
      <4>3. QED
        BY ONLY <1>0, <4>1, <4>2
    <3>2. CASE ~IsEngine(bin)
      BY <1>0, <3>2, ThreadTyped
    <3>3. QED
      BY <3>1, <3>2
  <2>2. (\A u \in Threads : (th[u].at \in Swapping <=> swap = u) /\ (th[u].at \in Staging <=> stage = u))'
    BY DEF Thread
  <2>3. serve' \in [Procs -> ServeRecords] /\ ServesOK'
    <3>1. CASE IsEngine(bin)
      <4> DEFINE r == [engine |-> bin, at |-> "starting", ours |-> TRUE]
      <4>1. PICK p \in Procs : serve' = [serve EXCEPT ![p] = r]
        BY <3>1
      <4>2. r \in ServeRecords /\ r.at # "none" /\ IsEngine(r.engine)
        BY <3>1 DEF ServeRecords
      <4>3. QED
        BY ONLY <1>0, <4>1, <4>2, ServeTyped
    <3>2. CASE ~IsEngine(bin)
      BY <1>0, <3>2
    <3>3. QED
      BY <3>1, <3>2
  <2>4. ({bin, old, new, gone} \subseteq Folders /\ trial \in 0..Hulk /\ bad \in 0..Hulk)'
    OBVIOUS
  <2>5. (complete \in BOOLEAN /\ proof \in BOOLEAN /\ usurped \in BOOLEAN /\ misled \in BOOLEAN /\ up \in BOOLEAN)'
    OBVIOUS
  <2>6. faults' \in 0..MaxFaults
    OBVIOUS
  <2>7. TypeOK'
    BY <2>1, <2>2, <2>3, <2>4, <2>5, <2>6 DEF ThreadRecords, ServeRecords
  <2>8. StagedOK'
    BY DEF Thread
  <2>9. QED
    BY <2>3, <2>7, <2>8
<1>24. CASE Launched(t)
  <2> USE <1>24 DEF Launched, disk, world
  <2>1. th' \in [Threads -> ThreadRecords]
    BY <1>0, GoTyped, ThreadTyped
  <2>2. (\A u \in Threads : (th[u].at \in Swapping <=> swap = u) /\ (th[u].at \in Staging <=> stage = u))'
    BY DEF Thread
  <2>3. serve' \in [Procs -> ServeRecords] /\ ServesOK'
    BY DEF ServeRecords
  <2>4. ({bin, old, new, gone} \subseteq Folders /\ trial \in 0..Hulk /\ bad \in 0..Hulk)'
    OBVIOUS
  <2>5. (complete \in BOOLEAN /\ proof \in BOOLEAN /\ usurped \in BOOLEAN /\ misled \in BOOLEAN /\ up \in BOOLEAN)'
    OBVIOUS
  <2>6. faults' \in 0..MaxFaults
    OBVIOUS
  <2>7. TypeOK'
    BY <2>1, <2>2, <2>3, <2>4, <2>5, <2>6 DEF ThreadRecords, ServeRecords
  <2>8. StagedOK'
    <3>1. new' = new /\ \A u \in Threads : th'[u].at \in {"mark", "out", "in"} => th[u].at = th'[u].at
      BY DEF Thread
    <3>2. QED
      BY ONLY <3>1, StagedOK DEF StagedOK, IsEngine
  <2>9. QED
    BY <2>3, <2>7, <2>8
<1>25. CASE Hears(t)
  <2> USE <1>25 DEF Hears, disk, locks, world, Listening
  <2>1. th' \in [Threads -> ThreadRecords]
    <3>1. PICK p \in Listening :
            th' = [th EXCEPT ![t] = [Thread("answered") EXCEPT !.heard = serve[p].engine]]
      OBVIOUS
    <3>2. serve[p].engine \in 0..Hulk
      BY <3>1
    <3>3. [Thread("answered") EXCEPT !.heard = serve[p].engine] \in ThreadRecords
      BY <3>2, ThreadTyped
    <3>4. QED
      BY ONLY <1>0, <3>1, <3>3
  <2>2. (\A u \in Threads : (th[u].at \in Swapping <=> swap = u) /\ (th[u].at \in Staging <=> stage = u))'
    BY DEF Thread
  <2>3. serve' \in [Procs -> ServeRecords] /\ ServesOK'
    BY DEF ServeRecords
  <2>4. ({bin, old, new, gone} \subseteq Folders /\ trial \in 0..Hulk /\ bad \in 0..Hulk)'
    OBVIOUS
  <2>5. (complete \in BOOLEAN /\ proof \in BOOLEAN /\ usurped \in BOOLEAN /\ misled \in BOOLEAN /\ up \in BOOLEAN)'
    OBVIOUS
  <2>6. faults' \in 0..MaxFaults
    OBVIOUS
  <2>7. TypeOK'
    BY <2>1, <2>2, <2>3, <2>4, <2>5, <2>6 DEF ThreadRecords, ServeRecords
  <2>8. StagedOK'
    BY DEF Thread
  <2>9. QED
    BY <2>3, <2>7, <2>8
<1>26. CASE Silent(t)
  <2> USE <1>26 DEF Silent, disk, locks, Fault
  <2>1. th' \in [Threads -> ThreadRecords]
    BY <1>0, ThreadTyped
  <2>2. (\A u \in Threads : (th[u].at \in Swapping <=> swap = u) /\ (th[u].at \in Staging <=> stage = u))'
    BY DEF Thread
  <2>3. serve' \in [Procs -> ServeRecords] /\ ServesOK'
    BY <1>0, ServeTyped, NoServeTyped
  <2>4. ({bin, old, new, gone} \subseteq Folders /\ trial \in 0..Hulk /\ bad \in 0..Hulk)'
    OBVIOUS
  <2>5. (complete \in BOOLEAN /\ proof \in BOOLEAN /\ usurped \in BOOLEAN /\ misled \in BOOLEAN /\ up \in BOOLEAN)'
    OBVIOUS
  <2>6. faults' \in 0..MaxFaults
    OBVIOUS
  <2>7. TypeOK'
    BY <2>1, <2>2, <2>3, <2>4, <2>5, <2>6 DEF ThreadRecords, ServeRecords
  <2>8. StagedOK'
    BY DEF Thread
  <2>9. QED
    BY <2>3, <2>7, <2>8
<1>27. CASE Leave(t)
  <2> USE <1>27 DEF Leave, disk, locks, world
  <2>1. th' \in [Threads -> ThreadRecords]
    BY <1>0, GoTyped, ThreadTyped
  <2>2. (\A u \in Threads : (th[u].at \in Swapping <=> swap = u) /\ (th[u].at \in Staging <=> stage = u))'
    BY DEF Thread
  <2>3. serve' \in [Procs -> ServeRecords] /\ ServesOK'
    BY DEF ServeRecords
  <2>4. ({bin, old, new, gone} \subseteq Folders /\ trial \in 0..Hulk /\ bad \in 0..Hulk)'
    OBVIOUS
  <2>5. (complete \in BOOLEAN /\ proof \in BOOLEAN /\ usurped \in BOOLEAN /\ misled \in BOOLEAN /\ up \in BOOLEAN)'
    OBVIOUS
  <2>6. faults' \in 0..MaxFaults
    OBVIOUS
  <2>7. TypeOK'
    BY <2>1, <2>2, <2>3, <2>4, <2>5, <2>6 DEF ThreadRecords, ServeRecords
  <2>8. StagedOK'
    BY DEF Thread
  <2>9. QED
    BY <2>3, <2>7, <2>8
<1>28. CASE Fail(t)
  <2> USE <1>28 DEF Fail, disk, world
  <2>1. th' \in [Threads -> ThreadRecords]
    BY <1>0, ThreadTyped
  <2>2. (\A u \in Threads : (th[u].at \in Swapping <=> swap = u) /\ (th[u].at \in Staging <=> stage = u))'
    BY DEF Thread
  <2>3. serve' \in [Procs -> ServeRecords] /\ ServesOK'
    BY DEF ServeRecords
  <2>4. ({bin, old, new, gone} \subseteq Folders /\ trial \in 0..Hulk /\ bad \in 0..Hulk)'
    OBVIOUS
  <2>5. (complete \in BOOLEAN /\ proof \in BOOLEAN /\ usurped \in BOOLEAN /\ misled \in BOOLEAN /\ up \in BOOLEAN)'
    OBVIOUS
  <2>6. faults' \in 0..MaxFaults
    OBVIOUS
  <2>7. TypeOK'
    BY <2>1, <2>2, <2>3, <2>4, <2>5, <2>6 DEF ThreadRecords, ServeRecords
  <2>8. StagedOK'
    BY DEF Thread
  <2>9. QED
    BY <2>3, <2>7, <2>8
<1>29. CASE Proven(t)
  BY <1>29 DEF Proven, DropTrial, Refused, Fault, Thread
<1>30. CASE Clear(t)
  BY <1>30 DEF Clear, DeleteOld, Left, Refused, Fault, Exists, Unlock, Thread
<1>31. QED
  BY <1>1, <1>2, <1>3, <1>4, <1>5, <1>6, <1>7, <1>8, <1>9, <1>10, <1>11, <1>12, <1>13, <1>14, <1>15, <1>16, <1>17, <1>18, <1>19, <1>20, <1>21, <1>22, <1>23, <1>24, <1>25, <1>26, <1>27, <1>28, <1>29, <1>30
     DEF ThreadStep, Begun, ApplyStep, RollbackStep, ProveStep

LEMMA TypeServes ==
  ASSUME TypeInv, NEW p \in Procs, ServeUp(p) \/ ServeEnds(p) \/ ServeDies(p)
  PROVE  TypeInv'
<1>1. serve \in [Procs -> ServeRecords] /\ ServesOK
  BY DEF TypeInv, TypeOK, ServeRecords
<1>2. serve' \in [Procs -> ServeRecords] /\ ServesOK'
  <2>1. CASE ServeUp(p)
    BY <1>1, <2>1 DEF ServeUp, ServeRecords, ServesOK, Alive
  <2>2. CASE ServeEnds(p) \/ ServeDies(p)
    BY <1>1, <2>2, ServeTyped, NoServeTyped DEF ServeEnds, ServeDies
  <2>3. QED
    BY <2>1, <2>2
<1>3. faults' \in 0..MaxFaults /\ UNCHANGED <<disk, locks, th, fetch, latest, up, usurped, misled>>
  BY EngineAssumption DEF TypeInv, TypeOK, ServeUp, ServeEnds, ServeDies, world, Fault
<1>4. TypeOK' /\ StagedOK'
  BY <1>2, <1>3 DEF TypeInv, TypeOK, StagedOK, disk, locks, ServeRecords
<1>5. QED
  BY <1>2, <1>4 DEF TypeInv

\* The fetch writes bin.new while it has _STAGE_LOCK, and nobody then stages.
LEMMA TypeFetch == ASSUME TypeInv, Fetch PROVE TypeInv'
<1> USE EngineAssumption DEF TypeInv, TypeOK, StagedOK, ServesOK, Alive, IsEngine, Folders, Hulk, Versions,
        Nothing, Bits, NoFetch, Staging
<1>1. CASE FetchAsk
  BY <1>1 DEF FetchAsk, disk, locks, world
<1>2. CASE FetchBegin
  BY <1>2 DEF FetchBegin, world
<1>3. CASE FetchUnpack
  BY <1>3 DEF FetchUnpack, locks, world
<1>4. CASE FetchEnd
  <2>1. \A t \in Threads : th'[t].at \notin Staging
    BY <1>4 DEF FetchEnd, world
  <2>2. complete' \in BOOLEAN
    BY <1>4 DEF FetchEnd
  <2>3. new' \in Folders
    BY <1>4 DEF FetchEnd
  <2>4. fetch' = NoFetch /\ stage' = None
        /\ UNCHANGED <<bin, old, gone, trial, bad, proof, swap, th, serve, latest, up, faults, usurped, misled>>
    BY <1>4 DEF FetchEnd, world
  <2>5. QED
    BY <2>1, <2>2, <2>3, <2>4
<1>5. CASE FetchFails
  BY <1>5 DEF FetchFails, world
<1>6. QED
  BY <1>1, <1>2, <1>3, <1>4, <1>5 DEF Fetch

\* Ending the app gives both locks back and ends all it was doing.
LEMMA TypeApp ==
  ASSUME TypeInv, NewRelease \/ Start \/ Quit \/ Crash
  PROVE  TypeInv'
<1> USE EngineAssumption DEF TypeInv, TypeOK
<1>1. CASE NewRelease \/ Start
  <2>1. latest' \in Versions
    BY <1>1 DEF NewRelease, Start, Versions
  <2>2. up' \in BOOLEAN /\ UNCHANGED <<disk, locks, th, serve, fetch, faults, usurped, misled>>
    BY <1>1 DEF NewRelease, Start
  <2>3. QED
    BY <2>1, <2>2 DEF disk, locks, StagedOK, ServesOK, Alive
<1>2. CASE Quit \/ Crash
  <2>1. Stopped
    BY <1>2 DEF Quit, Crash
  <2>2. th' \in [Threads -> ThreadRecords] /\ \A t \in Threads : th'[t].at = "idle"
    BY <2>1, ThreadTyped DEF Stopped, Thread, ThreadSteps, Hulk
  <2>3. (\A t \in Threads : (th[t].at \in Swapping <=> swap = t) /\ (th[t].at \in Staging <=> stage = t))'
    BY <2>1, <2>2 DEF Stopped, Swapping, Staging
  <2>4. serve' \in [Procs -> ServeRecords] /\ ServesOK'
    <3>1. serve \in [Procs -> ServeRecords] /\ ServesOK
      BY DEF ServeRecords
    <3>2. \A p \in Procs : \/ serve'[p] = NoServe
                           \/ serve'[p] = serve[p]
                           \/ serve'[p] = [serve[p] EXCEPT !.ours = FALSE]
      BY <1>2 DEF Quit, Crash
    <3>3. \E f : serve' = [p \in Procs |-> f[p]]
      BY <1>2 DEF Quit, Crash
    <3>4. \A p \in Procs : /\ serve'[p] \in ServeRecords
                           /\ serve'[p].at \in {"starting", "up"} => IsEngine(serve'[p].engine)
      <4> SUFFICES ASSUME NEW p \in Procs
                   PROVE  /\ serve'[p] \in ServeRecords
                          /\ serve'[p].at \in {"starting", "up"} => IsEngine(serve'[p].engine)
        OBVIOUS
      <4>1. serve[p] \in ServeRecords /\ (serve[p].at \in {"starting", "up"} => IsEngine(serve[p].engine))
        BY <3>1 DEF ServesOK, Alive
      <4>2. CASE serve'[p] = NoServe
        BY <4>2, NoServeTyped
      <4>3. CASE serve'[p] = serve[p]
        BY <4>1, <4>3
      <4>4. CASE serve'[p] = [serve[p] EXCEPT !.ours = FALSE]
        BY <4>1, <4>4 DEF ServeRecords
      <4>5. QED
        BY <3>2, <4>2, <4>3, <4>4
    <3>5. serve' \in [Procs -> ServeRecords]
      BY <3>3, <3>4
    <3>6. QED
      BY <3>4, <3>5 DEF ServesOK, Alive
  <2>5. {bin, old, new, gone}' \subseteq Folders
    BY <1>2 DEF Quit, Crash, Left, disk, Folders, Nothing, Bits, Hulk
  <2>6. faults' \in 0..MaxFaults /\ UNCHANGED <<complete, trial, bad, latest, usurped, misled>>
    BY <1>2 DEF Quit, Crash, Fault, disk
  <2>7. (swap \in Threads \cup {None} /\ stage \in Threads \cup {None, "fetch"}
         /\ fetch \in [at : {"idle", "asked", "fetching", "unpacked"}, have : 0..Hulk]
         /\ (stage = "fetch" <=> fetch.at \in {"fetching", "unpacked"})
         /\ proof \in BOOLEAN /\ up \in BOOLEAN)'
    <3>1. NoFetch \in [at : {"idle", "asked", "fetching", "unpacked"}, have : 0..Hulk] /\ NoFetch.at = "idle"
      BY DEF NoFetch, Hulk
    <3>2. QED
      BY <2>1, <3>1 DEF Stopped
  <2>8. TypeOK'
    BY <2>2, <2>3, <2>4, <2>5, <2>6, <2>7 DEF ThreadRecords, ServeRecords
  <2>9. StagedOK'
    BY <2>2 DEF StagedOK
  <2>10. QED
    BY <2>4, <2>8, <2>9
<1>3. QED
  BY <1>1, <1>2

LEMMA TypeNext == ASSUME TypeInv, [Next]_vars PROVE TypeInv'
<1>1. CASE Next
  BY <1>1, TypeThread, TypeServes, TypeFetch, TypeApp DEF Next
<1>2. CASE UNCHANGED vars
  BY <1>2 DEF vars, disk, locks, world, TypeInv, TypeOK, StagedOK, ServesOK, Alive
<1>3. QED
  BY <1>1, <1>2

\* Types, and the discipline of the two locks: a thread is in a step that
\* changes the folders exactly while it has _SWAP_LOCK, it stages exactly while
\* it has _STAGE_LOCK, and the fetch downloads exactly while it has that.
THEOREM EngineTyped == Spec => []TypeOK
<1>1. TypeInv => TypeOK
  BY DEF TypeInv
<1>2. QED
  BY TypeInit, TypeNext, <1>1, PTL DEF Spec

-----------------------------------------------------------------------------

LEMMA KeptInit == Init => KeptInv
BY TypeInit, EngineAssumption DEF Init, KeptInv, HeardOK, TrialOK, FoldersOK, ProofOK, Thread, NoServe, InProof,
   Works, IsEngine, Versions, Nothing

\* What answers works: a serve comes up only if its engine does.
LEMMA HeardThread ==
  ASSUME TypeInv, HeardOK, NEW t \in Threads, ThreadStep(t)
  PROVE  HeardOK'
<1> USE DEF TypeInv, TypeOK, HeardOK, At, Go, End, Thread
<1>1. CASE Call(t)
  BY <1>1 DEF Call, disk, locks, world
<1>2. CASE Download(t)
  BY <1>2 DEF Download, locks, world
<1>3. CASE Downloaded(t)
  BY <1>3 DEF Downloaded, locks, world
<1>4. CASE Serving(t)
  BY <1>4 DEF Serving
<1>5. CASE Apply(t)
  BY <1>5 DEF Apply, disk, world
<1>6. CASE Undo(t)
  BY <1>6 DEF Undo, locks, world
<1>7. CASE Undone(t)
  BY <1>7 DEF Undone, locks
<1>8. CASE UndoHeld(t)
  BY <1>8 DEF UndoHeld
<1>9. CASE Settle(t)
  <2>1. serve' = serve /\ \E s \in {"back", "swap", "launch"} : th' = [th EXCEPT ![t].at = s]
    BY <1>9 DEF Settle
  <2>2. QED
    BY <2>1
<1>10. CASE Swap(t)
  BY <1>10 DEF Swap, Release
<1>11. CASE Mark(t)
  BY <1>11 DEF Mark, Release
<1>12. CASE SwapOut(t)
  BY <1>12 DEF SwapOut, locks, world
<1>13. CASE SwapOutHeld(t)
  BY <1>13 DEF SwapOutHeld, Release
<1>14. CASE SwapIn(t)
  BY <1>14 DEF SwapIn, Release, world
<1>15. CASE SwapInHeld(t)
  BY <1>15 DEF SwapInHeld, Release
<1>16. CASE Rollback(t)
  <2>1. th'[t].at # "answered" /\ \A u \in Threads \ {t} : th'[u] = th[u]
    BY <1>16 DEF Rollback, Back
  <2>2. serve' = serve
    BY <1>16 DEF Rollback
  <2>3. QED
    BY ONLY <2>1, <2>2, HeardOK DEF HeardOK
<1>17. CASE BackOut(t)
  BY <1>17 DEF BackOut, locks, world
<1>18. CASE BackIn(t)
  BY <1>18 DEF BackIn, locks, world
<1>19. CASE BackRetry(t)
  BY <1>19 DEF BackRetry, locks, world
<1>20. CASE BackHeld(t)
  BY <1>20 DEF BackHeld, Back
<1>21. CASE BackDone(t)
  BY <1>21 DEF BackDone, locks, world
<1>22. CASE Unmark(t)
  BY <1>22 DEF Unmark, Back
<1>23. CASE Launch(t)
  BY <1>23 DEF Launch, disk, locks, world
<1>24. CASE Launched(t)
  BY <1>24 DEF Launched, disk, world
<1>25. CASE Hears(t)
  BY <1>25 DEF Hears, disk, locks, world, Listening
<1>26. CASE Silent(t)
  BY <1>26 DEF Silent, disk, locks, NoServe
<1>27. CASE Leave(t)
  BY <1>27 DEF Leave, disk, locks, world
<1>28. CASE Fail(t)
  BY <1>28 DEF Fail, disk, world
<1>29. CASE Proven(t)
  BY <1>29 DEF Proven
<1>30. CASE Clear(t)
  BY <1>30 DEF Clear
<1>31. QED
  BY <1>1, <1>2, <1>3, <1>4, <1>5, <1>6, <1>7, <1>8, <1>9, <1>10, <1>11, <1>12, <1>13, <1>14, <1>15, <1>16, <1>17, <1>18, <1>19, <1>20, <1>21, <1>22, <1>23, <1>24, <1>25, <1>26, <1>27, <1>28, <1>29, <1>30
     DEF ThreadStep, Begun, ApplyStep, RollbackStep, ProveStep

\* No thread's step loses the engine that works.
LEMMA KeptThread ==
  ASSUME KeptInv, Unrefused, NEW t \in Threads, ThreadStep(t)
  PROVE  usurped' \/ (TrialOK /\ FoldersOK /\ ProofOK)'
<1> SUFFICES ASSUME ~usurped' PROVE (TrialOK /\ FoldersOK /\ ProofOK)'
  OBVIOUS
<1> USE EngineAssumption DEF KeptInv, TypeInv, TypeOK, StagedOK, HeardOK, TrialOK, FoldersOK, ProofOK, InProof,
        Unrefused, At, Go, End, Thread, Swapping, Staging, IsEngine, Works, Folders, Hulk, Versions, Nothing, Bits
<1>1. CASE Call(t)
  BY <1>1 DEF Call, disk, locks, world
<1>2. CASE Download(t)
  BY <1>2 DEF Download, locks, world
<1>3. CASE Downloaded(t)
  BY <1>3 DEF Downloaded, locks, world
<1>4. CASE Serving(t)
  <2>1. CASE trial # 0 /\ swap = None /\ \E p \in Listening : serve[p].engine = trial
    <3>1. trial' = 0 /\ th' = [th EXCEPT ![t].at = "clear"] /\ UNCHANGED <<bin, old>>
      BY <1>4, <2>1 DEF Serving, DropTrial, Fault, Refused
    <3>2. ~usurped /\ bin = trial
      BY <1>4, <2>1 DEF Serving
    <3>3. Works(bin)
      BY <2>1, <3>2 DEF Listening
    <3>4. QED
      BY <2>1, <3>1, <3>2, <3>3
  <2>2. CASE ~(trial # 0 /\ swap = None /\ \E p \in Listening : serve[p].engine = trial)
    <3>1. UNCHANGED <<trial, bin, old, usurped>> /\ th' = [th EXCEPT ![t] = Thread("idle")]
      BY <1>4, <2>2 DEF Serving
    <3>2. QED
      BY <1>4, <3>1 DEF Serving
  <2>3. QED
    BY <2>1, <2>2
<1>5. CASE Apply(t)
  <2>1. UNCHANGED <<bin, old, trial, usurped>> /\ \E s \in {"undo", "launch"} : th' = [th EXCEPT ![t].at = s]
    BY <1>5 DEF Apply, disk, world
  <2>2. ~InProof(t) /\ th[t].at # "clear"
    BY <1>5 DEF Apply
  <2>3. QED
    BY <2>1, <2>2
<1>6. CASE Undo(t)
  BY <1>6 DEF Undo, locks, world
<1>7. CASE Undone(t)
  BY <1>7 DEF Undone, locks, DropTrial, Refused, Fault
<1>8. CASE UndoHeld(t)
  BY <1>8 DEF UndoHeld, Fault, Unlock
<1>9. CASE Settle(t)
  BY <1>9 DEF Settle, DeleteOld, Left, Refused, Fault, Exists, Unlock
<1>10. CASE Swap(t)
  BY <1>10 DEF Swap, DeleteOld, Left, Refused, Fault, Exists, Release, Unlock, Unstage
<1>11. CASE Mark(t)
  BY <1>11 DEF Mark, Fault, Release, Unlock, Unstage
<1>12. CASE SwapOut(t)
  BY <1>12 DEF SwapOut, Exists, locks, world
<1>13. CASE SwapOutHeld(t)
  BY <1>13 DEF SwapOutHeld, Exists, Fault, Release, Unlock, Unstage
<1>14. CASE SwapIn(t)
  BY <1>14 DEF SwapIn, Exists, Release, Unlock, Unstage, world
<1>15. CASE SwapInHeld(t)
  BY <1>15 DEF SwapInHeld, Exists, Fault, Release, Unlock, Unstage
<1>16. CASE Rollback(t)
  BY <1>16 DEF Rollback, Back, Unlock, world
<1>17. CASE BackOut(t)
  BY <1>17 DEF BackOut, Exists, locks, world
<1>18. CASE BackIn(t)
  BY <1>18 DEF BackIn, Exists, locks, world
<1>19. CASE BackRetry(t)
  BY <1>19 DEF BackRetry, Exists, locks, world
<1>20. CASE BackHeld(t)
  BY <1>20 DEF BackHeld, Exists, Fault, Back, Unlock
<1>21. CASE BackDone(t)
  BY <1>21 DEF BackDone, locks, world
<1>22. CASE Unmark(t)
  BY <1>22 DEF Unmark, DropTrial, Refused, Fault, Back, Unlock
<1>23. CASE Launch(t)
  <2>1. /\ UNCHANGED <<bin, old, trial, usurped>>
        /\ \E r \in [at : {"idle", "launched"}, proc : Procs \cup {None}, heard : {0}, failed : {FALSE}] :
             th' = [th EXCEPT ![t] = r]
    BY <1>23 DEF Launch, disk, world
  <2>2. ~InProof(t) /\ th[t].at # "clear"
    BY <1>23 DEF Launch
  <2>3. QED
    BY <2>1, <2>2
<1>24. CASE Launched(t)
  BY <1>24 DEF Launched, disk, world
<1>25. CASE Hears(t)
  BY <1>25 DEF Hears, disk, locks, world, Listening
<1>26. CASE Silent(t)
  BY <1>26 DEF Silent, disk, locks, Fault
<1>27. CASE Leave(t)
  BY <1>27 DEF Leave, disk, locks, world
<1>28. CASE Fail(t)
  BY <1>28 DEF Fail, disk, world
<1>29. CASE Proven(t)
  <2>1. trial' = 0 /\ th' = [th EXCEPT ![t].at = "clear"] /\ UNCHANGED <<bin, old>>
    BY <1>29 DEF Proven, DropTrial, Fault, Refused
  <2>2. ~usurped /\ Works(bin) /\ swap = None
    BY <1>29 DEF Proven
  <2>3. QED
    BY <2>1, <2>2
<1>30. CASE Clear(t)
  BY <1>30 DEF Clear, DeleteOld, Left, Refused, Fault, Exists, Unlock
<1>31. QED
  BY <1>1, <1>2, <1>3, <1>4, <1>5, <1>6, <1>7, <1>8, <1>9, <1>10, <1>11, <1>12, <1>13, <1>14, <1>15, <1>16, <1>17, <1>18, <1>19, <1>20, <1>21, <1>22, <1>23, <1>24, <1>25, <1>26, <1>27, <1>28, <1>29, <1>30
     DEF ThreadStep, Begun, ApplyStep, RollbackStep, ProveStep

\* The fetch and a new release change nothing of this.
LEMMA KeptElsewhere ==
  ASSUME KeptInv, Fetch \/ NewRelease \/ Start
  PROVE  HeardOK' /\ (usurped \/ (TrialOK /\ FoldersOK /\ ProofOK))'
<1>1. UNCHANGED <<bin, old, trial, th, serve, usurped>>
  BY DEF Fetch, FetchAsk, FetchBegin, FetchUnpack, FetchEnd, FetchFails, NewRelease, Start, disk, locks, world
<1>2. QED
  BY <1>1 DEF KeptInv, HeardOK, TrialOK, FoldersOK, ProofOK, InProof

LEMMA KeptServes ==
  ASSUME KeptInv, NEW p \in Procs, ServeUp(p) \/ ServeEnds(p) \/ ServeDies(p)
  PROVE  HeardOK' /\ (usurped \/ (TrialOK /\ FoldersOK /\ ProofOK))'
<1>1. UNCHANGED <<bin, old, trial, th, usurped>>
  BY DEF ServeUp, ServeEnds, ServeDies, disk, world
<1>2. \A q \in Procs : serve'[q].at = "up" => Works(serve'[q].engine)
  BY DEF KeptInv, TypeInv, TypeOK, HeardOK, ServeUp, ServeEnds, ServeDies, NoServe
<1>3. QED
  BY <1>1, <1>2 DEF KeptInv, HeardOK, TrialOK, FoldersOK, ProofOK, InProof

\* A kill leaves the folders as they were, but for the one being deleted,
\* which no trial needs, and forgets every proof under way.
LEMMA KeptApp ==
  ASSUME KeptInv, Quit \/ Crash
  PROVE  HeardOK' /\ (usurped \/ (TrialOK /\ FoldersOK /\ ProofOK))'
<1>1. \A t \in Threads : th'[t].at = "idle"
  BY DEF Quit, Crash, Stopped, Thread
<1>2. UNCHANGED <<bin, trial, usurped>> /\ (trial # 0 => usurped \/ old' = old)
  BY DEF Quit, Crash, disk, KeptInv, FoldersOK
<1>3. \A p \in Procs : serve'[p].at = "up" => Works(serve'[p].engine)
  <2>1. \A p \in Procs : \/ serve'[p].at = "none"
                         \/ serve'[p].at = serve[p].at /\ serve'[p].engine = serve[p].engine
    BY DEF Quit, Crash, NoServe, KeptInv, TypeInv, TypeOK
  <2>2. QED
    BY <2>1 DEF KeptInv, HeardOK
<1>4. QED
  BY <1>1, <1>2, <1>3 DEF KeptInv, HeardOK, TrialOK, FoldersOK, ProofOK, InProof

LEMMA KeptNext == ASSUME KeptInv, Unrefused, [Next]_vars PROVE KeptInv'
<1>1. TypeInv'
  BY TypeNext DEF KeptInv
<1>2. HeardOK' /\ (usurped \/ (TrialOK /\ FoldersOK /\ ProofOK))'
  <2>1. ASSUME NEW t \in Threads, ThreadStep(t)
        PROVE  HeardOK' /\ (usurped \/ (TrialOK /\ FoldersOK /\ ProofOK))'
    BY <2>1, HeardThread, KeptThread DEF KeptInv
  <2>2. CASE Next
    BY <2>1, <2>2, KeptServes, KeptElsewhere, KeptApp DEF Next
  <2>3. CASE UNCHANGED vars
    BY <2>3 DEF vars, disk, locks, world, KeptInv, HeardOK, TrialOK, FoldersOK, ProofOK, InProof
  <2>4. QED
    BY <2>2, <2>3
<1>3. QED
  BY <1>1, <1>2 DEF KeptInv

\* An update never loses the engine that works: wherever the app is killed,
\* whatever callers, downloads and serves do meanwhile, it is in place or is
\* what the next start puts back; unless a proof heard another engine than the
\* one in place.  No rename or deletion is refused.
THEOREM UpdatesKeepAnEngine ==
  ASSUME Unrefused
  PROVE  Spec => [](usurped \/ Recoverable)
<1>1. KeptInv => usurped \/ Recoverable
  BY DEF KeptInv, TrialOK, Recoverable
<1>2. KeptInv /\ [Next]_vars => KeptInv'
  BY KeptNext
<1>3. QED
  BY KeptInit, <1>1, <1>2, PTL DEF Spec

-----------------------------------------------------------------------------
(* With renames and deletions refused. *)

\* An engine that works, or what a deletion refused half-way left of one.
Fine(d) == Works(d) \/ d = Hulk

\* bin.old has nothing worse; without a trial neither has bin.
FineTrialOK ==
  /\ trial = 0 => Fine(bin)
  /\ Fine(bin) \/ Fine(old)
  /\ IsEngine(old) => Fine(old)

\* Where the folders are when a thread is between two changes of them, a
\* trial that could not be dropped included.  A rollback has a trial to undo,
\* or follows a failed proof.
FineFoldersOK ==
  \A t \in Threads :
    /\ th[t].at \in {"undone", "back.done", "unmark", "clear", "mark", "out"} => Fine(bin)
    /\ th[t].at \in {"undone", "back.done", "unmark"} => old = Nothing
    /\ th[t].at \in {"swap", "mark"} => trial = 0
    /\ th[t].at \in {"out", "in", "back.out", "back.in"} => trial # 0
    /\ th[t].at \in {"in", "back.out", "back.in"} => Fine(old)
    /\ th[t].at \in {"in", "back.in"} => ~IsEngine(bin)
    /\ th[t].at = "back" /\ ~th[t].failed => trial # 0
    /\ th[t].failed => th[t].at \in {"back", "back.out", "back.in", "back.done", "unmark"}

\* The inductive invariant when anything may be refused.
FineInv == TypeInv /\ HeardOK /\ (usurped \/ misled \/ (FineTrialOK /\ FineFoldersOK))

LEMMA FineInit == Init => FineInv
BY TypeInit, EngineAssumption DEF Init, FineInv, HeardOK, FineTrialOK, FineFoldersOK, Thread, NoServe,
   Fine, Works, IsEngine, Versions, Nothing, Hulk

\* No thread's step loses the engine that works, whatever is refused: a
\* refused deletion leaves in bin.old what was there or its hulk, and a trial
\* that could not be dropped only has it put back once more.
LEMMA FineThread ==
  ASSUME FineInv, NEW t \in Threads, ThreadStep(t)
  PROVE  usurped' \/ misled' \/ (FineTrialOK /\ FineFoldersOK)'
<1> SUFFICES ASSUME ~usurped', ~misled' PROVE (FineTrialOK /\ FineFoldersOK)'
  OBVIOUS
<1> USE EngineAssumption DEF FineInv, TypeInv, TypeOK, StagedOK, HeardOK, FineTrialOK, FineFoldersOK,
        At, Go, End, Thread, Swapping, Staging, IsEngine, Fine, Works, Folders, Hulk, Versions, Nothing, Bits
<1>1. CASE Call(t)
  BY <1>1 DEF Call, disk, locks, world
<1>2. CASE Download(t)
  BY <1>2 DEF Download, locks, world
<1>3. CASE Downloaded(t)
  BY <1>3 DEF Downloaded, locks, world
<1>4. CASE Serving(t)
  <2>1. CASE trial # 0 /\ swap = None /\ \E p \in Listening : serve[p].engine = trial
    <3>1. trial' \in {0, trial} /\ th' = [th EXCEPT ![t].at = "clear"] /\ UNCHANGED <<bin, old, misled>>
      BY <1>4, <2>1 DEF Serving, DropTrial
    <3>2. ~usurped /\ bin = trial
      BY <1>4, <2>1 DEF Serving
    <3>3. Works(bin)
      BY <2>1, <3>2 DEF Listening
    <3>4. QED
      BY <1>4, <2>1, <3>1, <3>2, <3>3 DEF Serving
  <2>2. CASE ~(trial # 0 /\ swap = None /\ \E p \in Listening : serve[p].engine = trial)
    <3>1. UNCHANGED <<trial, bin, old, usurped, misled>> /\ th' = [th EXCEPT ![t] = Thread("idle")]
      BY <1>4, <2>2 DEF Serving
    <3>2. QED
      BY <1>4, <3>1 DEF Serving
  <2>3. QED
    BY <2>1, <2>2
<1>5. CASE Apply(t)
  BY <1>5 DEF Apply, disk, world
<1>6. CASE Undo(t)
  BY <1>6 DEF Undo, locks, world
<1>7. CASE Undone(t)
  BY <1>7 DEF Undone, locks, DropTrial, Refused, Fault
<1>8. CASE UndoHeld(t)
  BY <1>8 DEF UndoHeld, Fault, Unlock
<1>9. CASE Settle(t)
  BY <1>9 DEF Settle, DeleteOld, Left, Refused, Fault, Exists, Unlock
<1>10. CASE Swap(t)
  BY <1>10 DEF Swap, DeleteOld, Left, Refused, Fault, Exists, Release, Unlock, Unstage
<1>11. CASE Mark(t)
  BY <1>11 DEF Mark, Fault, Release, Unlock, Unstage
<1>12. CASE SwapOut(t)
  BY <1>12 DEF SwapOut, Exists, locks, world
<1>13. CASE SwapOutHeld(t)
  BY <1>13 DEF SwapOutHeld, Exists, Fault, Release, Unlock, Unstage
<1>14. CASE SwapIn(t)
  BY <1>14 DEF SwapIn, Exists, Release, Unlock, Unstage, world
<1>15. CASE SwapInHeld(t)
  BY <1>15 DEF SwapInHeld, Exists, Fault, Release, Unlock, Unstage
<1>16. CASE Rollback(t)
  BY <1>16 DEF Rollback, Back, Unlock
<1>17. CASE BackOut(t)
  BY <1>17 DEF BackOut, Exists, locks, world
<1>18. CASE BackIn(t)
  BY <1>18 DEF BackIn, Exists, locks, world
<1>19. CASE BackRetry(t)
  BY <1>19 DEF BackRetry, Exists, locks, world
<1>20. CASE BackHeld(t)
  BY <1>20 DEF BackHeld, Exists, Fault, Back, Unlock
<1>21. CASE BackDone(t)
  BY <1>21 DEF BackDone, locks, world
<1>22. CASE Unmark(t)
  BY <1>22 DEF Unmark, DropTrial, Refused, Fault, Back, Unlock
<1>23. CASE Launch(t)
  BY <1>23 DEF Launch, disk, locks, world
<1>24. CASE Launched(t)
  BY <1>24 DEF Launched, disk, world
<1>25. CASE Hears(t)
  BY <1>25 DEF Hears, disk, locks, world, Listening
<1>26. CASE Silent(t)
  BY <1>26 DEF Silent, disk, locks, Fault
<1>27. CASE Leave(t)
  BY <1>27 DEF Leave, disk, locks, world
<1>28. CASE Fail(t)
  BY <1>28 DEF Fail, disk, world
<1>29. CASE Proven(t)
  <2>1. trial' \in {0, trial} /\ th' = [th EXCEPT ![t].at = "clear"] /\ UNCHANGED <<bin, old, misled>>
    BY <1>29 DEF Proven, DropTrial
  <2>2. ~usurped /\ Works(bin) /\ swap = None
    BY <1>29 DEF Proven
  <2>3. QED
    BY <1>29, <2>1, <2>2 DEF Proven
<1>30. CASE Clear(t)
  BY <1>30 DEF Clear, DeleteOld, Left, Refused, Fault, Exists, Unlock
<1>31. QED
  BY <1>1, <1>2, <1>3, <1>4, <1>5, <1>6, <1>7, <1>8, <1>9, <1>10, <1>11, <1>12, <1>13, <1>14, <1>15, <1>16, <1>17, <1>18, <1>19, <1>20, <1>21, <1>22, <1>23, <1>24, <1>25, <1>26, <1>27, <1>28, <1>29, <1>30
     DEF ThreadStep, Begun, ApplyStep, RollbackStep, ProveStep

\* The fetch, a new release and the serves change nothing of this.
LEMMA FineElsewhere ==
  ASSUME FineInv, Fetch \/ NewRelease \/ Start \/ \E p \in Procs : ServeUp(p) \/ ServeEnds(p) \/ ServeDies(p)
  PROVE  HeardOK' /\ (usurped \/ misled \/ (FineTrialOK /\ FineFoldersOK))'
<1>1. UNCHANGED <<bin, old, trial, th, usurped, misled>>
  BY DEF Fetch, FetchAsk, FetchBegin, FetchUnpack, FetchEnd, FetchFails, NewRelease, Start, ServeUp, ServeEnds,
         ServeDies, disk, locks, world
<1>2. \A q \in Procs : serve'[q].at = "up" => Works(serve'[q].engine)
  <2>1. CASE Fetch \/ NewRelease \/ Start
    <3>1. serve' = serve
      BY <2>1 DEF Fetch, FetchAsk, FetchBegin, FetchUnpack, FetchEnd, FetchFails, NewRelease, Start
    <3>2. QED
      BY <3>1 DEF FineInv, HeardOK
  <2>2. CASE \E p \in Procs : ServeUp(p) \/ ServeEnds(p) \/ ServeDies(p)
    BY <2>2 DEF FineInv, TypeInv, TypeOK, HeardOK, ServeUp, ServeEnds, ServeDies, NoServe
  <2>3. QED
    BY <2>1, <2>2
<1>3. QED
  BY <1>1, <1>2 DEF FineInv, HeardOK, FineTrialOK, FineFoldersOK, Fine

\* A kill leaves the folders as they were, but for the one being deleted,
\* beside an engine in place that is fine.
LEMMA FineApp ==
  ASSUME FineInv, Quit \/ Crash
  PROVE  HeardOK' /\ (usurped \/ misled \/ (FineTrialOK /\ FineFoldersOK))'
<1>1. \A t \in Threads : th'[t].at = "idle" /\ ~th'[t].failed
  BY DEF Quit, Crash, Stopped, Thread
<1>2. UNCHANGED <<bin, trial, usurped, misled>>
  BY DEF Quit, Crash, disk
<1>3. old' = old \/ (old' \in Left(old) /\ (usurped \/ misled \/ Fine(bin)))
  BY DEF Quit, Crash, disk, FineInv, FineTrialOK, FineFoldersOK
<1>4. IsEngine(old') => IsEngine(old) /\ old' \in {old, Hulk}
  BY <1>3, EngineAssumption DEF Left, IsEngine, Nothing, Bits, Hulk
<1>5. \A p \in Procs : serve'[p].at = "up" => Works(serve'[p].engine)
  <2>1. \A p \in Procs : \/ serve'[p].at = "none"
                         \/ serve'[p].at = serve[p].at /\ serve'[p].engine = serve[p].engine
    BY DEF Quit, Crash, NoServe, FineInv, TypeInv, TypeOK
  <2>2. QED
    BY <2>1 DEF FineInv, HeardOK
<1>6. QED
  BY <1>1, <1>2, <1>3, <1>4, <1>5 DEF FineInv, HeardOK, FineTrialOK, FineFoldersOK, Fine

LEMMA FineNext == ASSUME FineInv, [Next]_vars PROVE FineInv'
<1>1. TypeInv'
  BY TypeNext DEF FineInv
<1>2. HeardOK' /\ (usurped \/ misled \/ (FineTrialOK /\ FineFoldersOK))'
  <2>1. ASSUME NEW t \in Threads, ThreadStep(t)
        PROVE  HeardOK' /\ (usurped \/ misled \/ (FineTrialOK /\ FineFoldersOK))'
    BY <2>1, HeardThread, FineThread DEF FineInv
  <2>2. CASE Next
    BY <2>1, <2>2, FineElsewhere, FineApp DEF Next
  <2>3. CASE UNCHANGED vars
    BY <2>3 DEF vars, disk, locks, world, FineInv, HeardOK, FineTrialOK, FineFoldersOK, Fine
  <2>4. QED
    BY <2>2, <2>3
<1>3. QED
  BY <1>1, <1>2 DEF FineInv

\* The same whatever is refused, as the run of Engine checks it: an engine
\* that works is in place or is put back, unless a refused deletion left a hulk
\* of it, a proof heard another engine than the one in place, or a failed proof
\* put bin.old back when its trial had gone.
THEOREM OldIsKept == Spec => []OldKept
<1>1. FineInv => OldKept
  BY DEF FineInv, FineTrialOK, Fine, OldKept, Recoverable
<1>2. FineInv /\ [Next]_vars => FineInv'
  BY FineNext
<1>3. QED
  BY FineInit, <1>1, <1>2, PTL DEF Spec

-----------------------------------------------------------------------------

\* One caller at a time, and no other while its proof runs.
OneCaller == \A t, u \in Threads : t = u

\* Its proof is of the trial on disk, and so is the rollback that follows.
OwnTrialOK == ~misled /\ \A t \in Threads : InProof(t) => trial # 0

LEMMA OwnTrialThread ==
  ASSUME TypeInv, OneCaller, OwnTrialOK, NEW t \in Threads, ThreadStep(t)
  PROVE  OwnTrialOK'
<1> USE DEF TypeInv, TypeOK, OneCaller, OwnTrialOK, InProof, At, Go, End, Thread
<1>1. CASE Call(t)
  BY <1>1 DEF Call, disk, locks, world
<1>2. CASE Download(t)
  BY <1>2 DEF Download, locks, world
<1>3. CASE Downloaded(t)
  BY <1>3 DEF Downloaded, locks, world
<1>4. CASE Serving(t)
  BY <1>4 DEF Serving, DropTrial
<1>5. CASE Apply(t)
  BY <1>5 DEF Apply, disk, world
<1>6. CASE Undo(t)
  BY <1>6 DEF Undo, locks, world
<1>7. CASE Undone(t)
  BY <1>7 DEF Undone, locks, DropTrial
<1>8. CASE UndoHeld(t)
  BY <1>8 DEF UndoHeld, Unlock
<1>9. CASE Settle(t)
  BY <1>9 DEF Settle, Unlock
<1>10. CASE Swap(t)
  BY <1>10 DEF Swap, Release, Unlock
<1>11. CASE Mark(t)
  BY <1>11 DEF Mark, Release, Unlock
<1>12. CASE SwapOut(t)
  BY <1>12 DEF SwapOut, locks, world
<1>13. CASE SwapOutHeld(t)
  BY <1>13 DEF SwapOutHeld, Release, Unlock
<1>14. CASE SwapIn(t)
  BY <1>14 DEF SwapIn, Release, world
<1>15. CASE SwapInHeld(t)
  BY <1>15 DEF SwapInHeld, Release
<1>16. CASE Rollback(t)
  BY <1>16 DEF Rollback, Back
<1>17. CASE BackOut(t)
  BY <1>17 DEF BackOut, locks, world
<1>18. CASE BackIn(t)
  BY <1>18 DEF BackIn, locks, world
<1>19. CASE BackRetry(t)
  BY <1>19 DEF BackRetry, locks, world
<1>20. CASE BackHeld(t)
  BY <1>20 DEF BackHeld, Back
<1>21. CASE BackDone(t)
  BY <1>21 DEF BackDone, locks, world
<1>22. CASE Unmark(t)
  BY <1>22 DEF Unmark, DropTrial, Back
<1>23. CASE Launch(t)
  BY <1>23 DEF Launch, disk, locks, world
<1>24. CASE Launched(t)
  BY <1>24 DEF Launched, disk, world
<1>25. CASE Hears(t)
  BY <1>25 DEF Hears, disk, locks, world
<1>26. CASE Silent(t)
  BY <1>26 DEF Silent, disk, locks
<1>27. CASE Leave(t)
  BY <1>27 DEF Leave, disk, locks, world
<1>28. CASE Fail(t)
  BY <1>28 DEF Fail, disk, world
<1>29. CASE Proven(t)
  BY <1>29 DEF Proven, DropTrial
<1>30. CASE Clear(t)
  BY <1>30 DEF Clear, DeleteOld
<1>31. QED
  BY <1>1, <1>2, <1>3, <1>4, <1>5, <1>6, <1>7, <1>8, <1>9, <1>10, <1>11, <1>12, <1>13, <1>14, <1>15, <1>16, <1>17, <1>18, <1>19, <1>20, <1>21, <1>22, <1>23, <1>24, <1>25, <1>26, <1>27, <1>28, <1>29, <1>30
     DEF ThreadStep, Begun, ApplyStep, RollbackStep, ProveStep

LEMMA OwnTrialNext ==
  ASSUME TypeInv, OneCaller, OwnTrialOK, [Next]_vars
  PROVE  OwnTrialOK'
<1>1. CASE \E t \in Threads : ThreadStep(t)
  BY <1>1, OwnTrialThread
<1>2. CASE Fetch \/ NewRelease \/ Start \/ \E p \in Procs : ServeUp(p) \/ ServeEnds(p) \/ ServeDies(p)
  <2>1. UNCHANGED <<trial, th, misled>>
    BY <1>2 DEF Fetch, FetchAsk, FetchBegin, FetchUnpack, FetchEnd, FetchFails, NewRelease, Start, ServeUp, ServeEnds,
           ServeDies, disk, locks, world
  <2>2. QED
    BY <2>1 DEF OwnTrialOK, InProof
<1>3. CASE Quit \/ Crash
  <2>1. misled' = misled /\ \A t \in Threads : th'[t].at = "idle"
    BY <1>3 DEF Quit, Crash, Stopped, Thread
  <2>2. QED
    BY <2>1 DEF OwnTrialOK, InProof
<1>4. CASE UNCHANGED vars
  BY <1>4 DEF vars, disk, world, OwnTrialOK, InProof
<1>5. QED
  BY <1>1, <1>2, <1>3, <1>4 DEF Next

\* With one caller at a time, its proof included, no failed proof acts after
\* its trial has gone, and nothing that is refused, slow or killed loses the engine that works.
THEOREM OneCallerKeeps ==
  ASSUME OneCaller
  PROVE  Spec => [](usurped \/ Hulk \in {bin, old} \/ Recoverable)
<1>1. Init => TypeInv /\ OwnTrialOK
  BY TypeInit DEF Init, OwnTrialOK, InProof, Thread
<1>2. TypeInv /\ OwnTrialOK /\ [Next]_vars => (TypeInv /\ OwnTrialOK)'
  BY TypeNext, OwnTrialNext
<1>3. OwnTrialOK /\ OldKept => usurped \/ Hulk \in {bin, old} \/ Recoverable
  BY DEF OwnTrialOK, OldKept
<1>4. QED
  BY OldIsKept, <1>1, <1>2, <1>3, PTL DEF Spec

=============================================================================
