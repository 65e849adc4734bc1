------------------------------- MODULE Engine -------------------------------
(***************************************************************************)
(* millenai.py, "the app's own Ollama updates between runs": a newer       *)
(* engine is fetched beside the one in use (bin.new), swapped in before    *)
(* anything runs from the folder, kept on trial (bin.trial) with the one   *)
(* before in bin.old until it has answered once, and put back if it dies,  *)
(* stays silent or is never seen answering.                                *)
(*                                                                         *)
(* Threads call _spawn_ollama_serve (the start, an install, a benchmark);  *)
(* a step of one is one change of the folders or one look at them.  Procs  *)
(* are the serves it starts; one at a time has the port.  A folder is a    *)
(* number: nothing, bits without a binary, an engine's version, or a hulk, *)
(* a binary whose other files are gone.                                    *)
(***************************************************************************)
EXTENDS Integers, FiniteSets

CONSTANTS
  Threads,     \* who may call _spawn_ollama_serve
  Procs,       \* serves at a time
  MaxVersion,  \* the releases there will be: 1..MaxVersion
  Broken,      \* those that never answer on this computer
  Faults,      \* what may go wrong
  MaxFaults,   \* how often
  None

AllFaults == {"crash", "held", "slow", "dies"}

ASSUME EngineAssumption ==
  /\ MaxVersion \in Nat \ {0}
  /\ Broken \subseteq 2..MaxVersion
  /\ Faults \subseteq AllFaults
  /\ MaxFaults \in Nat
  /\ {None, "fetch"} \cap (Threads \cup Procs) = {} /\ None # "fetch"

VARIABLES
  bin, old, new, gone,  \* the engine folder, bin.old, bin.new, bin.failed
  complete,             \* bin.new/concorde-complete
  trial,                \* bin.trial: 0, or the version swapped in
  bad,                  \* bin.update.json's bad
  proof,                \* _proof: the trial on disk has its proof
  swap, stage,          \* who holds _SWAP_LOCK and _STAGE_LOCK
  th,                   \* the threads
  serve,                \* the serves
  fetch,                \* the background fetch
  latest,               \* the newest release
  up,                   \* the app runs
  faults,
  usurped,              \* a proof heard an engine that isn't the one in bin
  misled                \* a failed proof put bin.old back after its trial had gone

disk == <<bin, old, new, gone, complete, trial, bad>>
locks == <<proof, swap, stage>>
world == <<latest, up, faults, usurped, misled>>
vars == <<disk, locks, th, serve, fetch, world>>

Nothing == 0
Bits == -1
Hulk == MaxVersion + 1
Versions == 1..MaxVersion
Folders == -1..Hulk

IsEngine(d) == d > 0                    \* _engine_exe finds a binary
Exists(d) == d # Nothing
Works(d) == d \in Versions \ Broken

ThreadSteps ==
  {"idle", "call", "undo", "undone", "settle", "swap", "mark", "out", "in",
   "back", "back.out", "back.in", "back.done", "unmark",
   "launch", "launched", "prove", "answered", "clear", "silent", "left", "download"}
\* Between acquire and release of _SWAP_LOCK.
Swapping ==
  {"undo", "undone", "settle", "swap", "mark", "out", "in", "back", "back.out", "back.in", "back.done",
   "unmark", "clear"}

\* While it has _STAGE_LOCK.
Staging == {"swap", "mark", "out", "in"}

\* A thread: the serve it started, the version it heard answer, and
\* whether its rollback follows a failed proof.
Thread(at) == [at |-> at, proc |-> None, heard |-> 0, failed |-> FALSE]
NoServe == [engine |-> Nothing, at |-> "none", ours |-> FALSE]
NoFetch == [at |-> "idle", have |-> 0]

TypeOK ==
  /\ {bin, old, new, gone} \subseteq Folders
  /\ complete \in BOOLEAN /\ proof \in BOOLEAN /\ up \in BOOLEAN /\ usurped \in BOOLEAN
  /\ misled \in BOOLEAN
  /\ trial \in 0..Hulk /\ bad \in 0..Hulk
  /\ th \in [Threads -> [at : ThreadSteps, proc : Procs \cup {None}, heard : 0..Hulk,
                         failed : BOOLEAN]]
  /\ serve \in [Procs -> [engine : Folders, at : {"none", "starting", "up"},
                          ours : BOOLEAN]]
  /\ fetch \in [at : {"idle", "asked", "fetching", "unpacked"}, have : 0..Hulk]
  /\ latest \in Versions /\ faults \in 0..MaxFaults
  /\ \A t \in Threads : (th[t].at \in Swapping <=> swap = t) /\ (th[t].at \in Staging <=> stage = t)
  /\ swap \in Threads \cup {None}
  /\ stage \in Threads \cup {None, "fetch"}
  /\ stage = "fetch" <=> fetch.at \in {"fetching", "unpacked"}

Init ==
  /\ bin = 1 /\ old = Nothing /\ new = Nothing /\ gone = Nothing
  /\ complete = FALSE /\ trial = 0 /\ bad = 0
  /\ proof = FALSE /\ swap = None /\ stage = None
  /\ th = [t \in Threads |-> Thread("idle")]
  /\ serve = [p \in Procs |-> NoServe]
  /\ fetch = NoFetch
  /\ latest = 1 /\ up = FALSE /\ faults = 0 /\ usurped = FALSE /\ misled = FALSE

---------------------------------------------------------------------------
(* What may go wrong, MaxFaults times in one history. *)

Fault(kind) == kind \in Faults /\ faults < MaxFaults /\ faults' = faults + 1

\* rmtree with ignore_errors, and what it may leave of folder d.
Left(d) ==
  {Nothing} \cup (IF Exists(d) THEN {d, Bits} ELSE {}) \cup (IF IsEngine(d) THEN {Hulk} ELSE {})
Refused(bad_) == IF bad_ THEN Fault("held") ELSE UNCHANGED faults
DeleteOld == \E d \in Left(old) : old' = d /\ Refused(d # Nothing)

\* _drop_trial, and the like.
DropTrial == \E v \in {0, trial} : trial' = v /\ Refused(v # 0)

---------------------------------------------------------------------------
(* The serves. *)

Listening == {p \in Procs : serve[p].at = "up"}
Alive(p) == serve[p].at \in {"starting", "up"}

\* _managed_serve.
ManagedServe == \E p \in Procs : serve[p].ours /\ Alive(p)

ServeUp(p) ==
  /\ serve[p].at = "starting" /\ Works(serve[p].engine) /\ Listening = {}
  /\ serve' = [serve EXCEPT ![p].at = "up"]
  /\ UNCHANGED <<disk, locks, th, fetch, world>>

\* The port is taken, or the engine doesn't start here.
ServeEnds(p) ==
  /\ serve[p].at = "starting" /\ (Listening # {} \/ ~Works(serve[p].engine))
  /\ serve' = [serve EXCEPT ![p] = NoServe]
  /\ UNCHANGED <<disk, locks, th, fetch, world>>

ServeDies(p) ==
  /\ Alive(p) /\ Fault("dies")
  /\ serve' = [serve EXCEPT ![p] = NoServe]
  /\ UNCHANGED <<disk, locks, th, fetch, latest, up, usurped, misled>>

---------------------------------------------------------------------------
(* _spawn_ollama_serve. *)

At(t, s) == up /\ th[t].at = s
Go(t, s) == th' = [th EXCEPT ![t].at = s]
End(t) == th' = [th EXCEPT ![t] = Thread("idle")]
Unlock == swap' = None
Unstage(t) == stage' = IF stage = t THEN None ELSE stage

\* Who calls, and when, is anybody's.
Call(t) ==
  /\ At(t, "idle")
  /\ Go(t, "call")
  /\ UNCHANGED <<disk, locks, serve, fetch, world>>

\* An install that finds no engine in place downloads one into bin first;
\* one thread at a time (_ENGINE_DL_LOCK).
Download(t) ==
  /\ At(t, "idle") /\ ~IsEngine(bin) /\ \A u \in Threads : th[u].at # "download"
  /\ bin' = Bits
  /\ Go(t, "download")
  /\ UNCHANGED <<old, new, gone, complete, trial, bad, locks, serve, fetch, world>>

\* It takes minutes; no rename waits that long for the next one.  It may
\* fail, and does when a swap took the folder meanwhile.
Downloaded(t) ==
  /\ At(t, "download") /\ \A u \in Threads : th[u].at \notin {"in", "back.in"}
  /\ \/ bin = Bits /\ bin' = latest /\ Go(t, "call")
     \/ UNCHANGED bin /\ End(t)
  /\ UNCHANGED <<old, new, gone, complete, trial, bad, locks, serve, fetch, world>>

\* Ours answers already: _prove_if_serving, when a trial stands.
Serving(t) ==
  /\ At(t, "call") /\ Listening # {}
  /\ IF trial # 0 /\ swap = None /\ \E p \in Listening : serve[p].engine = trial
     THEN swap' = t /\ DropTrial /\ Go(t, "clear") /\ usurped' = (usurped \/ bin # trial)
     ELSE UNCHANGED <<swap, trial, faults, usurped>> /\ End(t)
  /\ UNCHANGED <<bin, old, new, gone, complete, bad, proof, stage, serve, fetch, latest, up, misled>>

\* The lock is taken without waiting, or nothing is applied.
Apply(t) ==
  /\ At(t, "call") /\ Listening = {}
  /\ IF swap = None THEN swap' = t /\ Go(t, "undo") ELSE UNCHANGED swap /\ Go(t, "launch")
  /\ UNCHANGED <<disk, proof, stage, serve, fetch, world>>

\* A swap cut short between its renames.
Undo(t) ==
  /\ At(t, "undo")
  /\ IF ~IsEngine(bin) /\ IsEngine(old)
     THEN bin' = old /\ old' = Nothing /\ Go(t, "undone")
     ELSE UNCHANGED <<bin, old>> /\ Go(t, "settle")
  /\ UNCHANGED <<new, gone, complete, trial, bad, locks, serve, fetch, world>>

Undone(t) ==
  /\ At(t, "undone")
  /\ DropTrial /\ Go(t, "settle")
  /\ UNCHANGED <<bin, old, new, gone, complete, bad, locks, serve, fetch, latest, up, usurped, misled>>

UndoHeld(t) ==
  /\ At(t, "undo") /\ ~IsEngine(bin) /\ IsEngine(old) /\ Fault("held")
  /\ bin' = Nothing
  /\ Go(t, "launch") /\ Unlock
  /\ UNCHANGED <<old, new, gone, complete, trial, bad, proof, stage, serve, fetch, latest, up,
                 usurped, misled>>

\* A trial never seen answering is put back; a proven swap's bin.old goes.
Settle(t) ==
  /\ At(t, "settle")
  /\ IF trial # 0 /\ ~ManagedServe
     THEN Go(t, "back") /\ UNCHANGED <<old, swap, stage, faults>>
     ELSE /\ IF trial = 0 THEN DeleteOld ELSE UNCHANGED <<old, faults>>
          /\ IF complete /\ ~ManagedServe /\ stage = None
             THEN stage' = t /\ Go(t, "swap") /\ UNCHANGED swap
             ELSE Unlock /\ Go(t, "launch") /\ UNCHANGED stage
  /\ UNCHANGED <<bin, new, gone, complete, trial, bad, proof, serve, fetch, latest, up, usurped, misled>>

\* Mutant: a way out of the swap that keeps _SWAP_LOCK.
ReleaseStage(t) == Unstage(t) /\ Go(t, "launch") /\ UNCHANGED swap

Release(t) == Unlock /\ Unstage(t) /\ Go(t, "launch")

\* Only an engine that runs goes in, and never beside another copy of the
\* app; one that does not tell its version is deleted.
Swap(t) ==
  /\ At(t, "swap")
  /\ \/ IsEngine(new) /\ DeleteOld /\ Go(t, "mark") /\ UNCHANGED <<new, complete, swap, stage>>
     \/ /\ new' = Nothing /\ complete' = FALSE
        /\ Release(t) /\ UNCHANGED <<old, faults>>
     \/ IsEngine(new) /\ Release(t) /\ UNCHANGED <<old, new, complete, faults>>
  /\ UNCHANGED <<bin, gone, trial, bad, proof, serve, fetch, latest, up, usurped, misled>>

\* Mutant: a trial that could not be written stops nothing.
MarkOrNot(t) ==
  /\ At(t, "mark")
  /\ Go(t, "out")
  /\ \/ trial' = new /\ proof' = FALSE /\ UNCHANGED faults
     \/ Fault("held") /\ UNCHANGED <<trial, proof>>
  /\ UNCHANGED <<bin, old, new, gone, complete, bad, swap, stage, serve, fetch, latest, up, usurped, misled>>

\* The trial is written first.
Mark(t) ==
  /\ At(t, "mark")
  /\ \/ trial' = new /\ proof' = FALSE /\ Go(t, "out") /\ UNCHANGED <<swap, stage, faults>>
     \/ Fault("held") /\ Release(t) /\ UNCHANGED <<trial, proof>>
  /\ UNCHANGED <<bin, old, new, gone, complete, bad, serve, fetch, latest, up, usurped, misled>>

SwapOut(t) ==
  /\ At(t, "out")
  /\ (Exists(bin) => ~Exists(old))
  /\ bin' = Nothing /\ old' = IF Exists(bin) THEN bin ELSE old
  /\ Go(t, "in")
  /\ UNCHANGED <<new, gone, complete, trial, bad, locks, serve, fetch, world>>

\* bin.old is still there, or the rename is refused; so may be the trial's
\* deletion.
SwapOutHeld(t) ==
  /\ At(t, "out") /\ Exists(bin)
  /\ \E v \in {0, trial} :
       trial' = v /\ IF Exists(old) THEN Refused(v # 0) ELSE Fault("held")
  /\ Release(t)
  /\ UNCHANGED <<bin, old, new, gone, complete, bad, proof, serve, fetch, latest, up, usurped, misled>>

SwapIn(t) ==
  /\ At(t, "in") /\ ~Exists(bin)
  /\ bin' = new /\ new' = Nothing /\ complete' = FALSE
  /\ Release(t)
  /\ UNCHANGED <<old, gone, trial, bad, proof, serve, fetch, world>>

\* bin is there again, or the rename is refused: the old one back if it goes.
SwapInHeld(t) ==
  /\ At(t, "in")
  /\ IF Exists(bin) THEN UNCHANGED faults ELSE Fault("held")
  /\ \/ /\ ~Exists(bin) /\ Exists(old)
        /\ bin' = old /\ old' = Nothing /\ trial' \in {0, trial}
     \/ UNCHANGED <<bin, old, trial>>
  /\ Release(t)
  /\ UNCHANGED <<new, gone, complete, bad, proof, serve, fetch, latest, up, usurped, misled>>

---------------------------------------------------------------------------
(* _rollback_engine, holding _SWAP_LOCK. *)

\* Then our Ollama is started: after a failed proof by a new call.
Back(t) == Unlock /\ th' = [th EXCEPT ![t] = Thread(IF th[t].failed THEN "call" ELSE "launch")]

Rollback(t) ==
  /\ At(t, "back")
  /\ bad' = IF th[t].failed /\ trial # 0 THEN trial ELSE bad
  /\ IF IsEngine(old)
     THEN gone' = Nothing /\ Go(t, "back.out") /\ UNCHANGED <<trial, swap, faults>>
     ELSE DropTrial /\ Back(t) /\ UNCHANGED gone
  /\ misled' = (misled \/ (th[t].failed /\ trial = 0 /\ IsEngine(old)))
  /\ UNCHANGED <<bin, old, new, complete, proof, stage, serve, fetch, latest, up, usurped>>

BackOut(t) ==
  /\ At(t, "back.out")
  /\ bin' = Nothing /\ gone' = IF Exists(bin) THEN bin ELSE gone
  /\ Go(t, "back.in")
  /\ UNCHANGED <<old, new, complete, trial, bad, locks, serve, fetch, world>>

BackIn(t) ==
  /\ At(t, "back.in") /\ ~Exists(bin)
  /\ bin' = old /\ old' = Nothing
  /\ Go(t, "back.done")
  /\ UNCHANGED <<new, gone, complete, trial, bad, locks, serve, fetch, world>>

\* A download made bin again: the next try.
BackRetry(t) ==
  /\ At(t, "back.in") /\ Exists(bin)
  /\ gone' = Nothing /\ Go(t, "back.out")
  /\ UNCHANGED <<bin, old, new, complete, trial, bad, locks, serve, fetch, world>>

\* A rename is refused five times: the trial stays for the next start.
BackHeld(t) ==
  /\ At(t, "back.out") \/ At(t, "back.in")
  /\ Fault("held")
  /\ \/ bin' = bin /\ gone' = gone
     \/ ~Exists(bin) /\ bin' = gone /\ gone' = Nothing
  /\ Back(t)
  /\ UNCHANGED <<old, new, complete, trial, bad, proof, stage, serve, fetch, latest, up, usurped, misled>>

BackDone(t) ==
  /\ At(t, "back.done")
  /\ gone' = Nothing /\ Go(t, "unmark")
  /\ UNCHANGED <<bin, old, new, complete, trial, bad, locks, serve, fetch, world>>

Unmark(t) ==
  /\ At(t, "unmark")
  /\ DropTrial /\ Back(t)
  /\ UNCHANGED <<bin, old, new, gone, complete, bad, proof, stage, serve, fetch, latest, up, usurped, misled>>

---------------------------------------------------------------------------
(* The serve started, and _prove_engine. *)

\* One place of Procs is for a serve no thread watches.
Launch(t) ==
  /\ At(t, "launch")
  /\ IF IsEngine(bin)
     THEN \E p \in Procs :
            /\ ~Alive(p) /\ \A u \in Threads : th[u].proc # p
            /\ serve' = [serve EXCEPT ![p] = [engine |-> bin, at |-> "starting", ours |-> TRUE]]
            /\ th' = [th EXCEPT ![t] = [Thread("launched") EXCEPT !.proc = p]]
     ELSE End(t) /\ UNCHANGED serve
  /\ UNCHANGED <<disk, locks, fetch, world>>

\* A proof for each trial, by the thread whose serve comes first.
Launched(t) ==
  /\ At(t, "launched")
  /\ IF trial # 0 /\ ~proof
     THEN proof' = TRUE /\ Go(t, "prove")
     ELSE UNCHANGED proof /\ End(t)
  /\ UNCHANGED <<disk, swap, stage, serve, fetch, world>>

\* What answers on the port, whichever serve it is.
Hears(t) ==
  /\ At(t, "prove") /\ Alive(th[t].proc)
  /\ \E p \in Listening :
       th' = [th EXCEPT ![t] = [Thread("answered") EXCEPT !.heard = serve[p].engine]]
  /\ UNCHANGED <<disk, locks, serve, fetch, world>>

\* Mutant: a silent engine is not stopped.
SilentOn(t) ==
  /\ At(t, "prove")
  /\ IF Alive(th[t].proc) /\ Works(serve[th[t].proc].engine) THEN Fault("slow") ELSE UNCHANGED faults
  /\ Alive(th[t].proc) => Listening = {}
  /\ th' = [th EXCEPT ![t] = Thread("silent")]
  /\ UNCHANGED <<disk, locks, serve, fetch, latest, up, usurped, misled>>

\* It died, or 90 s passed in silence: stopped.
Silent(t) ==
  /\ At(t, "prove")
  /\ IF Alive(th[t].proc) /\ Works(serve[th[t].proc].engine) THEN Fault("slow") ELSE UNCHANGED faults
  /\ Alive(th[t].proc) => Listening = {}
  /\ serve' = [serve EXCEPT ![th[t].proc] = NoServe]
  /\ th' = [th EXCEPT ![t] = Thread("silent")]
  /\ UNCHANGED <<disk, locks, fetch, latest, up, usurped, misled>>

\* Another serve of ours has it: left.
Leave(t) ==
  /\ At(t, "silent")
  /\ IF Listening # {} \/ ManagedServe THEN End(t) ELSE Go(t, "left")
  /\ UNCHANGED <<disk, locks, serve, fetch, world>>

Fail(t) ==
  /\ At(t, "left") /\ swap = None
  /\ swap' = t
  /\ th' = [th EXCEPT ![t] = [Thread("back") EXCEPT !.failed = TRUE]]
  /\ UNCHANGED <<disk, proof, stage, serve, fetch, world>>

\* _trial_proven: the trial goes, then bin.old.
Proven(t) ==
  /\ At(t, "answered") /\ swap = None
  /\ swap' = t /\ DropTrial
  /\ usurped' = (usurped \/ bin # th[t].heard)
  /\ Go(t, "clear")
  /\ UNCHANGED <<bin, old, new, gone, complete, bad, proof, stage, serve, fetch, latest, up, misled>>

Clear(t) ==
  /\ At(t, "clear")
  /\ DeleteOld /\ Unlock /\ End(t)
  /\ UNCHANGED <<bin, new, gone, complete, trial, bad, proof, stage, serve, fetch, latest, up, usurped, misled>>

---------------------------------------------------------------------------
(* _stage_engine_update and _fetch_engine_update. *)

\* The version of the engine in use is read first.
FetchAsk ==
  /\ up /\ fetch.at = "idle" /\ IsEngine(bin) /\ bin < latest
  /\ fetch' = [at |-> "asked", have |-> bin]
  /\ UNCHANGED <<disk, locks, th, serve, world>>

FetchBegin ==
  /\ fetch.at = "asked"
  /\ IF complete \/ stage # None \/ (bad # 0 /\ latest <= bad)
     THEN fetch' = NoFetch /\ UNCHANGED <<new, stage>>
     ELSE /\ fetch' = [fetch EXCEPT !.at = "fetching"]
          /\ stage' = "fetch" /\ new' = Bits
  /\ UNCHANGED <<bin, old, gone, complete, trial, bad, proof, swap, th, serve, world>>

FetchUnpack ==
  /\ fetch.at = "fetching"
  /\ new' = latest /\ fetch' = [fetch EXCEPT !.at = "unpacked"]
  /\ UNCHANGED <<bin, old, gone, complete, trial, bad, locks, th, serve, world>>

\* Ready only when newer than the one in use and than any that failed here.
FetchEnd ==
  /\ fetch.at = "unpacked"
  /\ IF new > fetch.have /\ new > bad
     THEN complete' = TRUE /\ UNCHANGED new
     ELSE complete' = FALSE /\ new' = Nothing
  /\ fetch' = NoFetch /\ stage' = None
  /\ UNCHANGED <<bin, old, gone, trial, bad, proof, swap, th, serve, world>>

\* The connection, the checksum or the disk.
FetchFails ==
  /\ fetch.at \in {"fetching", "unpacked"}
  /\ new' = Nothing
  /\ fetch' = NoFetch /\ stage' = None
  /\ UNCHANGED <<bin, old, gone, complete, trial, bad, proof, swap, th, serve, world>>

NewRelease ==
  /\ latest < MaxVersion
  /\ latest' = latest + 1
  /\ UNCHANGED <<disk, locks, th, serve, fetch, up, faults, usurped, misled>>

---------------------------------------------------------------------------
(* The app starts, ends and is killed. *)

Start ==
  /\ ~up
  /\ up' = TRUE
  /\ UNCHANGED <<disk, locks, th, serve, fetch, latest, faults, usurped, misled>>

Stopped ==
  /\ up /\ up' = FALSE
  /\ proof' = FALSE /\ swap' = None /\ stage' = None
  /\ th' = [t \in Threads |-> Thread("idle")] /\ fetch' = NoFetch

\* A quit stops the serves it started (stop_managed_engines).
Quit ==
  /\ Stopped
  /\ serve' = [p \in Procs |-> IF serve[p].ours THEN NoServe ELSE serve[p]]
  /\ UNCHANGED <<disk, latest, faults, usurped, misled>>

\* Killed in the middle of anything: the serves run on, or the machine
\* stopped with it.
Crash ==
  /\ Stopped /\ Fault("crash")
  /\ \/ serve' = [p \in Procs |-> NoServe]
     \/ serve' = [p \in Procs |-> [serve[p] EXCEPT !.ours = FALSE]]
  /\ old' \in IF \E t \in Threads : th[t].at \in {"clear", "swap"} \/ (th[t].at = "settle" /\ trial = 0)
              THEN Left(old) ELSE {old}
  /\ UNCHANGED <<bin, new, gone, complete, trial, bad, latest, usurped, misled>>

---------------------------------------------------------------------------
ApplyStep(t) ==
  \/ Apply(t) \/ Undo(t) \/ Undone(t) \/ UndoHeld(t) \/ Settle(t) \/ Swap(t) \/ Mark(t) \/ SwapOut(t)
  \/ SwapOutHeld(t) \/ SwapIn(t) \/ SwapInHeld(t)
RollbackStep(t) ==
  \/ Rollback(t) \/ BackOut(t) \/ BackIn(t) \/ BackRetry(t) \/ BackHeld(t) \/ BackDone(t) \/ Unmark(t)
ProveStep(t) ==
  \/ Hears(t) \/ Silent(t) \/ Leave(t) \/ Fail(t) \/ Proven(t) \/ Clear(t)
Begun(t) ==
  \/ Downloaded(t) \/ Serving(t) \/ Launch(t) \/ Launched(t)
  \/ ApplyStep(t) \/ RollbackStep(t) \/ ProveStep(t)
ThreadStep(t) == Call(t) \/ Download(t) \/ Begun(t)
Fetch == FetchAsk \/ FetchBegin \/ FetchUnpack \/ FetchEnd \/ FetchFails
Next ==
  \/ \E t \in Threads : ThreadStep(t)
  \/ \E p \in Procs : ServeUp(p) \/ ServeEnds(p) \/ ServeDies(p)
  \/ Fetch \/ NewRelease \/ Start \/ Quit \/ Crash

Spec == Init /\ [][Next]_vars

---------------------------------------------------------------------------
\* An engine that works is in place, or is the one a start puts back.
Recoverable ==
  \/ Works(bin)
  \/ Works(old) /\ (trial # 0 \/ ~IsEngine(bin))

\* The same unless another engine's answer proved the trial, a failed proof
\* put bin.old back when somebody else had proven or undone its trial, or a
\* folder's deletion was refused half-way and left the binary alone.
OldKept == usurped \/ misled \/ Hulk \in {bin, old} \/ Recoverable

\* What a thread has begun it goes on with, a serve comes up or ends, and a
\* fetch ends.
Fairness ==
  /\ \A t \in Threads : WF_vars(Begun(t))
  /\ \A p \in Procs : WF_vars(ServeUp(p) \/ ServeEnds(p))
  /\ WF_vars(Fetch)
FairSpec == Spec /\ Fairness

\* After a failed proof an engine answers again, where nobody calls meanwhile:
\* a call and the proof that follows it are one thread's.
EngineAgain == \A t \in Threads : th[t].at = "silent" ~> Listening # {} \/ ~up \/ usurped
=============================================================================
