----------------------------- MODULE MCGateway -----------------------------
(* Small instances of Gateway for TLC. *)
EXTENDS Gateway

CONSTANTS d1, d2,                 \* devices
          small, big, vast,       \* models; vast may use system memory
          chatA, chatB, chatRam,  \* requests
          embedB, dropA,
          pic1, pic2,             \* generation jobs
          tool                    \* the door

MCThreads == Requests \cup Gens

MCDeviceOf == [t \in Threads |-> IF t \in {chatB, embedB, pic2} THEN d2 ELSE d1]

MCModelOf ==
  [t \in Requests \cup Doors |->
     CASE t = chatRam -> vast
       [] t \in {embedB, tool} -> big
       [] OTHER -> small]

MCKindOf ==
  [r \in Requests |-> CASE r = embedB -> "embed" [] r = dropA -> "unload" [] OTHER -> "chat"]
=============================================================================
