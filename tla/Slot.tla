-------------------------------- MODULE Slot --------------------------------
(***************************************************************************)
(* The GPU slot of the gateway: class Slot of ollama1/bin/ollama1-gateway, *)
(* a flag and a bounded queue behind one condition variable.  A thread     *)
(* that finds the slot taken sleeps in Condition.wait until it is notified *)
(* or its deadline passes; whoever holds the lock first when the slot is   *)
(* free gets it, so a newcomer may overtake a thread that was notified.    *)
(*                                                                         *)
(* The body of acquire and of release runs under the lock, so everything   *)
(* between two waits is one action.                                        *)
(***************************************************************************)
EXTENDS Naturals, FiniteSets

CONSTANTS
  Threads,     \* the handler threads that may want the card
  MaxWaiting   \* queue_max: how many may wait behind the one at work

ASSUME SlotAssumption ==
  /\ IsFiniteSet(Threads)
  /\ MaxWaiting \in Nat

VARIABLES
  busy,     \* Slot.busy
  queued,   \* Stats.queued, which only the slot changes
  active,   \* Stats.active
  at,       \* where each thread is in acquire and release
  late      \* the threads inside acquire whose deadline has passed

slotVars == <<busy, queued, active, at, late>>

\* "waiting": asleep in cond.wait; "awake": wait returned, the loop's test of
\* busy comes next; "in": between acquire's "ok" and release.
SlotPlaces == {"out", "waiting", "awake", "in"}

Queue == {t \in Threads : at[t] \in {"waiting", "awake"}}
Asleep == {t \in Threads : at[t] = "waiting"}
Holders == {t \in Threads : at[t] = "in"}

SlotTypeOK ==
  /\ busy \in BOOLEAN
  /\ queued \in Nat
  /\ active \in Nat
  /\ at \in [Threads -> SlotPlaces]
  /\ late \in SUBSET Threads

SlotInit ==
  /\ busy = FALSE
  /\ queued = 0
  /\ active = 0
  /\ at = [t \in Threads |-> "out"]
  /\ late = {}

-----------------------------------------------------------------------------
(* acquire *)

SlotFull == busy /\ queued >= MaxWaiting

\* acquire answers "full" at once.
AcquireFull(t) ==
  /\ at[t] = "out"
  /\ SlotFull
  /\ UNCHANGED slotVars

\* The loop is never entered: queued goes up and down again under the lock.
AcquireNow(t) ==
  /\ at[t] = "out"
  /\ ~busy
  /\ busy' = TRUE
  /\ active' = active + 1
  /\ at' = [at EXCEPT ![t] = "in"]
  /\ UNCHANGED <<queued, late>>

AcquireWait(t) ==
  /\ at[t] = "out"
  /\ busy
  /\ ~SlotFull
  /\ queued' = queued + 1
  /\ at' = [at EXCEPT ![t] = "waiting"]
  /\ UNCHANGED <<busy, active, late>>

\* Mutant: every wake-up starts the whole wait again.
DeadlineRestarts(t) ==
  /\ t \in Queue
  /\ at' = [at EXCEPT ![t] = "awake"]
  /\ UNCHANGED <<busy, queued, active, late>>

\* The deadline passes; a sleeping thread's cond.wait returns.
Deadline(t) ==
  /\ t \in Queue \ late
  /\ late' = late \cup {t}
  /\ at' = [at EXCEPT ![t] = "awake"]
  /\ UNCHANGED <<busy, queued, active>>

\* Mutant: `if` for `while`, the flag isn't tested again after the wait.
WakeTakeUntested(t) ==
  /\ at[t] = "awake"
  /\ busy' = TRUE
  /\ active' = active + 1
  /\ queued' = queued - 1
  /\ at' = [at EXCEPT ![t] = "in"]
  /\ late' = late \ {t}

\* The loop's test finds the slot free, before the deadline or after it.
WakeTake(t) ==
  /\ at[t] = "awake"
  /\ ~busy
  /\ busy' = TRUE
  /\ active' = active + 1
  /\ queued' = queued - 1
  /\ at' = [at EXCEPT ![t] = "in"]
  /\ late' = late \ {t}

\* Mutant: the way out by timeout forgets its count.
WakeTimeoutUncounted(t) ==
  /\ at[t] = "awake"
  /\ busy
  /\ t \in late
  /\ at' = [at EXCEPT ![t] = "out"]
  /\ late' = late \ {t}
  /\ UNCHANGED <<busy, queued, active>>

\* Taken and out of time: acquire answers "timeout".
WakeTimeout(t) ==
  /\ at[t] = "awake"
  /\ busy
  /\ t \in late
  /\ queued' = queued - 1
  /\ at' = [at EXCEPT ![t] = "out"]
  /\ late' = late \ {t}
  /\ UNCHANGED <<busy, active>>

\* Someone overtook it: back to sleep for what is left of its time.
WakeAgain(t) ==
  /\ at[t] = "awake"
  /\ busy
  /\ t \notin late
  /\ at' = [at EXCEPT ![t] = "waiting"]
  /\ UNCHANGED <<busy, queued, active, late>>

-----------------------------------------------------------------------------
(* release: cond.notify wakes one sleeping thread, if there is one.  It may be
   spent on a thread whose time ran out: that one is still in the condition's
   list until it gets the lock back. *)

\* Mutant: no notify.
ReleaseSilent(t) ==
  /\ at[t] = "in"
  /\ busy' = FALSE
  /\ active' = active - 1
  /\ at' = [at EXCEPT ![t] = "out"]
  /\ UNCHANGED <<queued, late>>

Release(t) ==
  /\ at[t] = "in"
  /\ busy' = FALSE
  /\ active' = IF active > 0 THEN active - 1 ELSE 0
  /\ \/ /\ Asleep = {} \/ \E w \in late : at[w] = "awake"
        /\ at' = [at EXCEPT ![t] = "out"]
     \/ \E w \in Asleep : at' = [at EXCEPT ![t] = "out", ![w] = "awake"]
  /\ UNCHANGED <<queued, late>>

-----------------------------------------------------------------------------
(* What the slot is for. *)

\* One job on the card at a time: the flag is up exactly while one thread is
\* between its "ok" and its release (Slot, "One model job on the GPU at a time").
SlotExclusive ==
  /\ \A t, u \in Holders : t = u
  /\ busy <=> Holders # {}

\* The counters the full check, the dashboard and the app's meter read are the
\* threads that are really there: a way out of acquire that forgot its count
\* would fill the queue for good.
SlotCounts ==
  /\ queued = Cardinality(Queue)
  /\ active = Cardinality(Holders)

\* "a short queue behind it": never more than queue_max wait, whatever the
\* order of newcomers, notified threads and timeouts.
SlotBounded == queued <= MaxWaiting

\* No lost wakeup: while the slot is free and someone sleeps in the queue, a
\* thread that will test the flag is awake; it takes the slot and its release
\* wakes the next.
SlotNoLostWakeup == ~busy /\ Asleep # {} => \E t \in Threads : at[t] = "awake"
=============================================================================
