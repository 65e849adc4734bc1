-------------------------------- MODULE Card --------------------------------
(***************************************************************************)
(* What the gateway promises about the graphics card (its docstring,       *)
(* "Nothing mixes"): one job has the card at a time, and a job puts its    *)
(* prompt on the card only when nothing there came from another device.    *)
(***************************************************************************)
CONSTANTS
  Jobs,      \* whatever may have the card
  Devices,   \* paired devices
  Nobody,    \* no job
  Owner      \* Owner[j]: the device job j works for

VARIABLES
  holder,    \* the job that has the card, or Nobody
  prompts    \* the devices whose prompts the models on the card remember

cardVars == <<holder, prompts>>

Init ==
  /\ holder = Nobody
  /\ prompts = {}

Take(j) ==
  /\ holder = Nobody
  /\ holder' = j
  /\ prompts' = prompts

\* A model goes, and the prompts it remembered with it.
Forget ==
  /\ holder' = holder
  /\ prompts' \in SUBSET prompts

\* The holder's prompt runs on a card that knows no other device's.
Run(j) ==
  /\ holder = j
  /\ holder' = j
  /\ prompts \subseteq {Owner[j]}
  /\ prompts' = {Owner[j]}

Give(j) ==
  /\ holder = j
  /\ holder' = Nobody
  /\ prompts' \in SUBSET prompts

Next == \/ Forget
        \/ \E j \in Jobs : Take(j) \/ Run(j) \/ Give(j)

Spec == Init /\ [][Next]_cardVars
=============================================================================
