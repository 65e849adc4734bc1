------------------------------- MODULE Chats -------------------------------
(***************************************************************************)
(* millenai.py, the chat store and the turn writer.  The page sends small  *)
(* operations; the server holds the chats on disk (chats.v2.json), keeps a *)
(* deleted chat in memory for its undo window, saves each question when it *)
(* arrives and each answer when its stream ends, from a thread of its own. *)
(*                                                                         *)
(* Whatever runs under _chats_lock is one action.  An answer is not: it is *)
(* marked done under _turns_lock and written under _chats_lock afterwards, *)
(* and a turn is known to the others only once its question is saved.      *)
(* A message is a number: 0 a question (a hash sees its words, and Try     *)
(* again asks in the same ones), t the answer of turn t.                   *)
(***************************************************************************)
EXTENDS Integers, Sequences, FiniteSets, SequencesExt

CONSTANTS
  Ids,        \* chat ids
  MaxTurns,   \* questions asked
  Pages,      \* windows on the store
  Faults,     \* what may go wrong
  MaxFaults,  \* how often
  None

ASSUME ChatsAssumption ==
  /\ MaxTurns \in Nat \ {0}
  /\ Faults \subseteq {"crash", "write"}
  /\ MaxFaults \in Nat
  /\ None \notin Ids

VARIABLES
  listed,  \* chats.v2.json's chats
  gone,    \* its ids deleted for good
  stubs,   \* _chat_stubs: the undo window's copies
  dead,    \* _chat_gone
  finals,  \* _chat_finals: final deletes the next write records
  turns,
  page,    \* what each window shows
  leave,   \* a switch of the profile, or a quit
  faults,
  used,    \* ids that chats have had
  kept,    \* turns whose answer was written
  cut,     \* turns whose question a person took away before it ended
  unseen,  \* turns something passed over between two of their steps
  let_go,  \* chats deleted for good
  torn     \* chats whose delete or undo was not written

store == <<listed, gone>>
memory == <<stubs, dead, finals>>
ghosts == <<used, kept, cut, unseen, let_go, torn>>
vars == <<store, memory, turns, page, leave, faults, ghosts>>

Turns == 1..MaxTurns
Question == 0
NoChat == <<-1>>
Msgs == Seq(0..MaxTurns)

\* A turn: its chat, and the messages its answer follows (n and h); by is
\* who ends it.
NoTurn == [at |-> "none", id |-> None, after |-> <<>>, shown |-> FALSE, by |-> None]
\* A window: the chat it shows, and the turn it asked last.
NoPage == [id |-> None, msgs |-> <<>>, turn |-> 0]
Here == [at |-> "here", todo |-> {}]

IsChat(c) == c # NoChat
Listed(id) == IsChat(listed[id])
Stubbed(id) == IsChat(stubs[id])

TypeOK ==
  /\ listed \in [Ids -> Msgs \cup {NoChat}] /\ stubs \in [Ids -> Msgs \cup {NoChat}]
  /\ gone \subseteq used /\ dead \subseteq used /\ finals \subseteq dead
  /\ \A t \in Turns :
       /\ turns[t].at \in {"none", "asked", "live", "ending", "over"}
       /\ turns[t].id \in Ids \cup {None} /\ turns[t].after \in Msgs
       /\ turns[t].shown \in BOOLEAN /\ turns[t].by \in {None, "request", "leave"}
  /\ \A w \in Pages :
       page[w].id \in Ids \cup {None} /\ page[w].msgs \in Msgs /\ page[w].turn \in 0..MaxTurns
  /\ leave.at \in {"here", "flush"} /\ leave.todo \subseteq Turns
  /\ faults \in 0..MaxFaults
  /\ used \subseteq Ids /\ let_go \cup torn \subseteq used
  /\ kept \cup cut \cup unseen \subseteq Turns

Init ==
  /\ listed = [id \in Ids |-> NoChat] /\ gone = {}
  /\ stubs = [id \in Ids |-> NoChat] /\ dead = {} /\ finals = {}
  /\ turns = [t \in Turns |-> NoTurn]
  /\ page = [w \in Pages |-> NoPage]
  /\ leave = Here /\ faults = 0
  /\ used = {} /\ kept = {} /\ cut = {} /\ unseen = {} /\ let_go = {} /\ torn = {}

Fault(kind) == kind \in Faults /\ faults < MaxFaults /\ faults' = faults + 1

---------------------------------------------------------------------------
(* What the operations are made of. *)

\* store_chats: the list, and the deletes made final since the last write.
Write(chats) ==
  /\ listed' = chats /\ gone' = gone \cup finals /\ finals' = {}
  /\ UNCHANGED faults
\* The disk is full: what was done in memory stays done.
WriteFails == Fault("write") /\ UNCHANGED <<listed, gone, finals>>

\* Mutant: only the deletes on disk count.
ChatDeadOnDisk(id) == id \in gone

\* _chat_dead.
ChatDead(id) == Stubbed(id) \/ id \in dead \/ id \in gone

\* Mutant: a late answer does not look for the undo copy.
NowOnList(id) == listed[id]

\* A chat, or its undo copy.
Now(id) == IF Listed(id) THEN listed[id] ELSE stubs[id]

\* _chat_late: the answer goes only where it belongs.
Belongs(t) == Now(turns[t].id) = turns[t].after
WithAnswer(chats, id, t) ==
  IF t # 0 /\ IsChat(chats[id]) THEN [chats EXCEPT ![id] = Append(@, t)] ELSE chats

Of(id) == {t \in Turns : turns[t].id = id}
Streaming(id) == {t \in Of(id) : turns[t].at = "live"}
\* Begun or ended, and not seen by those who look for live turns.
Hidden(id) == {t \in Of(id) : turns[t].at \in {"asked", "ending"}}

\* done, for good: what is left is whether something was shown.
Over(t) == [NoTurn EXCEPT !.at = "over", !.shown = turns[t].shown]

\* _turns_settle: chat id's streaming answers are over.  Those are shown
\* that may be kept; one at most belongs.
Settled(id) == [t \in Turns |-> IF t \in Streaming(id) THEN Over(t) ELSE turns[t]]
Keepable(id) == {t \in Streaming(id) : turns[t].shown /\ Belongs(t)}

\* Turns that wait to follow the same messages, after a rewind the first of
\* them was hidden from.
Twins(t) == {u \in Of(turns[t].id) \ {t} : turns[u].after = turns[t].after /\ turns[u].at # "over"}

\* An id no chat has had, and no window is about to give one.
Fresh == Ids \ (used \cup {page[w].id : w \in Pages})

---------------------------------------------------------------------------
(* The windows. *)

Blank(w) ==
  /\ page[w].id = None
  /\ \E id \in Fresh : page' = [page EXCEPT ![w] = [NoPage EXCEPT !.id = id]]
  /\ UNCHANGED <<store, memory, turns, leave, faults, ghosts>>

Show(w) ==
  /\ \E id \in Ids :
       /\ Listed(id) /\ page[w].msgs # listed[id]
       /\ page' = [page EXCEPT ![w] = [id |-> id, msgs |-> listed[id], turn |-> 0]]
  /\ UNCHANGED <<store, memory, turns, leave, faults, ghosts>>

---------------------------------------------------------------------------
(* A turn. *)

\* Mutant: the question follows the page's messages, whatever came after
\* them.
LandingAtPage(w, chat) ==
  LET id == page[w].id
      pre == page[w].msgs
  IN IF ~IsChat(chat) /\ pre = <<>> /\ ~ChatDead(id) THEN {<<id, <<>>>>}
     ELSE IF IsChat(chat) /\ IsPrefix(pre, chat) THEN {<<id, pre>>}
     ELSE {<<new, pre>> : new \in Fresh}

\* chat_append_turn, for the question of window w: what still streams into
\* the chat goes in first; then the question, at the chat's end when the
\* page's messages begin it, or in a copy with the page's own.
Landing(w, chat) ==
  LET id == page[w].id
      pre == page[w].msgs
  IN IF ~IsChat(chat) /\ pre = <<>> /\ ~ChatDead(id) THEN {<<id, <<>>>>}
     ELSE IF IsChat(chat) /\ IsPrefix(pre, chat) THEN {<<id, chat>>}
     ELSE {<<new, pre>> : new \in Fresh}

Ask(w, t) ==
  LET id == page[w].id IN
  /\ id # None /\ turns[t].at = "none"
  /\ \A u \in Turns : u < t => turns[u].at # "none"
  /\ \E a \in IF Keepable(id) = {} THEN {0} ELSE Keepable(id) :
     LET chats == WithAnswer(listed, id, a) IN
     \E to \in Landing(w, chats[id]) :
       LET asked == Append(to[2], Question) IN
       /\ Write([chats EXCEPT ![to[1]] = asked])
       /\ stubs' = IF Listed(id) THEN stubs ELSE WithAnswer(stubs, id, a)
       /\ turns' = [Settled(id) EXCEPT ![t] = [NoTurn EXCEPT !.at = "asked", !.id = to[1], !.after = asked]]
       /\ page' = [page EXCEPT ![w] = [id |-> to[1], msgs |-> Append(page[w].msgs, Question), turn |-> t]]
       /\ kept' = kept \cup ({a} \ {0})
       /\ unseen' = unseen \cup Hidden(id) \cup (Keepable(id) \ {a})
       /\ used' = used \cup {to[1]}
  /\ UNCHANGED <<dead, leave, cut, let_go, torn>>

AskFails(w) ==
  LET id == page[w].id IN
  /\ id # None /\ Streaming(id) # {} /\ WriteFails
  /\ turns' = Settled(id)
  /\ \E a \in IF Keepable(id) = {} THEN {0} ELSE Keepable(id) :
       stubs' = IF Listed(id) THEN stubs ELSE WithAnswer(stubs, id, a)
  /\ unseen' = unseen \cup Streaming(id) \cup Hidden(id)
  /\ UNCHANGED <<dead, page, leave, used, kept, cut, let_go, torn>>

\* _turns_live.
Register(t) ==
  /\ turns[t].at = "asked"
  /\ turns' = [turns EXCEPT ![t].at = "live"]
  /\ UNCHANGED <<store, memory, page, leave, faults, ghosts>>

\* What is kept is what the window that asked was sent, while it showed it.
Stream(t) ==
  /\ turns[t].at = "live" /\ ~turns[t].shown
  /\ turns' = [turns EXCEPT ![t].shown = TRUE]
  /\ page' = [w \in Pages |-> IF page[w].turn = t
                             THEN [page[w] EXCEPT !.msgs = Append(@, t), !.turn = 0] ELSE page[w]]
  /\ UNCHANGED <<store, memory, leave, faults, ghosts>>

\* _turn_finish: done, once.
Finish(t, who) ==
  /\ turns[t].at = "live"
  /\ turns' = [turns EXCEPT ![t] = IF @.shown THEN [@ EXCEPT !.at = "ending", !.by = who] ELSE Over(t)]

End(t) ==
  /\ Finish(t, "request")
  /\ UNCHANGED <<store, memory, page, leave, faults, ghosts>>

\* ... and chat_append_late: on the list, or in the undo copy.
Late(t) ==
  /\ turns[t].at = "ending"
  /\ turns' = [turns EXCEPT ![t] = Over(t)]
  /\ LET id == turns[t].id
     IN \/ /\ Belongs(t) /\ Listed(id) /\ Write(WithAnswer(listed, id, t))
           /\ kept' = kept \cup {t} /\ unseen' = unseen \cup Twins(t)
           /\ UNCHANGED stubs
        \/ /\ Belongs(t) /\ Listed(id) /\ WriteFails
           /\ unseen' = unseen \cup {t} /\ UNCHANGED <<stubs, kept>>
        \/ /\ Belongs(t) /\ ~Listed(id)
           /\ stubs' = WithAnswer(stubs, id, t)
           /\ kept' = kept \cup {t} /\ unseen' = unseen \cup Twins(t)
           /\ UNCHANGED <<store, finals, faults>>
        \/ ~Belongs(t) /\ UNCHANGED <<store, stubs, finals, faults, kept, unseen, torn>>
  /\ UNCHANGED <<dead, page, leave, used, cut, let_go, torn>>

---------------------------------------------------------------------------
(* chat_ops. *)

Tears(id, chats) ==
  \/ Write(chats) /\ UNCHANGED <<unseen, torn>>
  \/ /\ WriteFails /\ torn' = torn \cup {id}
     /\ unseen' = unseen \cup {t \in Of(id) : turns[t].at # "over"}

\* Mutant: no undo copy is made of a chat with no messages.
DeleteBare(id) ==
  /\ Listed(id)
  /\ stubs' = [stubs EXCEPT ![id] = IF listed[id] = <<>> THEN @ ELSE listed[id]]
  /\ Tears(id, [listed EXCEPT ![id] = NoChat])
  /\ UNCHANGED <<dead, turns, page, leave, used, kept, cut, let_go>>

Delete(id) ==
  /\ Listed(id)
  /\ stubs' = [stubs EXCEPT ![id] = listed[id]]
  /\ Tears(id, [listed EXCEPT ![id] = NoChat])
  /\ UNCHANGED <<dead, turns, page, leave, used, kept, cut, let_go>>

Undelete(id) ==
  /\ Stubbed(id) /\ ~Listed(id)
  /\ stubs' = [stubs EXCEPT ![id] = NoChat]
  /\ Tears(id, [listed EXCEPT ![id] = stubs[id]])
  /\ UNCHANGED <<dead, turns, page, leave, used, kept, cut, let_go>>

\* truncate, of Try again and Edit & resend: back to before the window's
\* k-th message, a question.  Its streaming answer is thrown away first,
\* whatever the operation then finds.
Rewind(w, k) ==
  LET id == page[w].id
      keep == SubSeq(page[w].msgs, 1, k - 1)
      whole == Listed(id) /\ IsPrefix(keep, listed[id])
  IN
  /\ id # None /\ page[w].msgs[k] = Question
  /\ turns' = Settled(id)
  /\ IF whole
     THEN /\ Write([listed EXCEPT ![id] = keep])
          /\ cut' = cut \cup Streaming(id) \cup {t \in Of(id) : turns[t].at # "over" /\ Len(turns[t].after) >= k}
     ELSE cut' = cut \cup Streaming(id) /\ UNCHANGED <<store, finals, faults>>
  /\ page' = [page EXCEPT ![w].msgs = keep, ![w].turn = 0]
  /\ UNCHANGED <<stubs, dead, leave, used, kept, unseen, let_go, torn>>

RewindFails(w) ==
  LET id == page[w].id IN
  /\ id # None /\ Listed(id) /\ page[w].msgs # <<>> /\ WriteFails
  /\ turns' = Settled(id)
  /\ cut' = cut \cup Streaming(id)
  /\ UNCHANGED <<stubs, dead, page, leave, used, kept, unseen, let_go, torn>>

\* Mutant: the id is not remembered for this run.
ExpireUnremembered(id) ==
  /\ Stubbed(id)
  /\ stubs' = [stubs EXCEPT ![id] = NoChat]
  /\ finals' = finals \cup {id}
  /\ let_go' = let_go \cup {id}
  /\ cut' = cut \cup {t \in Of(id) : turns[t].at # "over"}
  /\ UNCHANGED <<store, dead, turns, page, leave, faults, used, kept, unseen, torn>>

\* _chat_settle, first in every locked operation: the undo window of id has
\* passed.  An operation refused after it leaves it at that.
Expire(id) ==
  /\ Stubbed(id)
  /\ stubs' = [stubs EXCEPT ![id] = NoChat]
  /\ dead' = dead \cup {id} /\ finals' = finals \cup {id}
  /\ let_go' = let_go \cup {id}
  /\ cut' = cut \cup {t \in Of(id) : turns[t].at # "over"}
  /\ UNCHANGED <<store, turns, page, leave, faults, used, kept, unseen, torn>>

\* _chat_finalize, on its timer.
Finalize ==
  /\ finals # {}
  /\ Write(listed) \/ WriteFails
  /\ UNCHANGED <<stubs, dead, turns, page, leave, ghosts>>

\* Forget, with the chats in its scope: not even the ids of the deleted
\* ones are left.
Forget ==
  /\ \E id \in Ids : Listed(id) \/ Stubbed(id)
  /\ dead' = dead \cup {id \in Ids : Stubbed(id)}
  /\ stubs' = [id \in Ids |-> NoChat] /\ finals' = {}
  /\ turns' = [t \in Turns |-> IF turns[t].at = "live" THEN Over(t) ELSE turns[t]]
  /\ \/ listed' = [id \in Ids |-> NoChat] /\ gone' = {} /\ UNCHANGED faults
     \/ Fault("write") /\ UNCHANGED <<listed, gone>>
  /\ let_go' = let_go \cup {id \in Ids : Listed(id) \/ Stubbed(id)}
  /\ cut' = cut \cup {t \in Turns : turns[t].at \in {"asked", "live", "ending"}}
  /\ UNCHANGED <<page, leave, used, kept, unseen, torn>>

---------------------------------------------------------------------------
(* A switch away from the profile, or a quit. *)

\* _turns_flush_ctx, _turns_flush: the answers still streaming are kept.
Leave ==
  /\ leave.at = "here"
  /\ leave' = [at |-> "flush", todo |-> {t \in Turns : turns[t].at = "live"}]
  /\ UNCHANGED <<store, memory, turns, page, faults, ghosts>>

\* One at a time; one that is done already is not waited for.
Flush(t) ==
  /\ leave.at = "flush" /\ t \in leave.todo
  /\ \A u \in Turns : ~(turns[u].at = "ending" /\ turns[u].by = "leave")
  /\ Finish(t, "leave") \/ (turns[t].at # "live" /\ UNCHANGED turns)
  /\ leave' = [leave EXCEPT !.todo = @ \ {t}]
  /\ UNCHANGED <<store, memory, page, faults, ghosts>>

Forgotten ==
  /\ stubs' = [id \in Ids |-> NoChat] /\ dead' = {} /\ finals' = {}
  /\ turns' = [t \in Turns |-> IF turns[t].at = "none" THEN NoTurn ELSE Over(t)]
  /\ page' = [w \in Pages |-> NoPage]
  /\ let_go' = let_go \cup {id \in Ids : Stubbed(id)}
  /\ unseen' = unseen \cup {t \in Turns : turns[t].at \in {"asked", "live", "ending"}}

\* The deletes are made final, the epoch moves and the caches are empty;
\* then, or some day, the profile is opened again.
Move ==
  /\ leave.at = "flush" /\ leave.todo = {}
  /\ \A t \in Turns : ~(turns[t].at = "ending" /\ turns[t].by = "leave")
  /\ gone' = gone \cup finals \cup {id \in Ids : Stubbed(id)}
  /\ Forgotten
  /\ leave' = Here
  /\ UNCHANGED <<listed, faults, used, kept, cut, torn>>

Crash ==
  /\ Fault("crash")
  /\ Forgotten
  /\ leave' = Here
  /\ UNCHANGED <<store, used, kept, cut, torn>>

---------------------------------------------------------------------------
Window(w) ==
  \/ Blank(w) \/ Show(w) \/ AskFails(w) \/ RewindFails(w)
  \/ \E t \in Turns : Ask(w, t)
  \/ \E k \in 1..Len(page[w].msgs) : Rewind(w, k)
Turn(t) == Register(t) \/ Stream(t) \/ End(t) \/ Late(t) \/ Flush(t)
Chat(id) == Delete(id) \/ Undelete(id) \/ Expire(id)
Next ==
  \/ \E w \in Pages : Window(w)
  \/ \E t \in Turns : Turn(t)
  \/ \E id \in Ids : Chat(id)
  \/ Finalize \/ Forget \/ Leave \/ Move \/ Crash

Spec == Init /\ [][Next]_vars

---------------------------------------------------------------------------
\* An answer that ended with something shown was written, in its chat or in
\* its undo copy (_turn_finish saves a turn's answer once, whoever comes
\* first), unless a person took its question away, or its turn was passed
\* over between two of its steps, or a write failed.
AnswerKept(t) == turns[t].at = "over" /\ turns[t].shown => t \in kept \cup cut
AnswersKept == \A t \in Turns \ unseen : AnswerKept(t)

\* _turn_finish, as its comment says it: every answer is saved, by the
\* stream's end, the quit or the chat's next question.
EveryAnswerKept == \A t \in Turns : AnswerKept(t)

\* chat_ops: an answer thrown away by a rewind is not written afterwards,
\* neither in its own place nor in that of the answer that replaces it.
ThrownAway == kept \cap cut = {}

\* _chat_dead: a chat deleted for good, in this run or on disk, is neither on
\* the list nor undone, whatever a late answer, an old window or a restart
\* brings, if its delete was written.
DeadStaysDead == \A id \in (gone \cup dead) \ torn : ~Listed(id) /\ ~Stubbed(id)

\* store_chats: nothing else drops a chat.  One that was saved is on the
\* list, or can be undone, or was deleted for good.
Stays(id) == Listed(id) \/ Stubbed(id) \/ id \in let_go
EveryChatStays == \A id \in used : Stays(id)

\* The same of the chats whose delete and undo were written.
NothingVanishes == \A id \in used \ torn : Stays(id)

\* chat_append_turn and chat_append_late: what a chat holds stays, in its
\* place, when windows that saw less of it ask; a rewind alone takes it away,
\* and leaves what its window then shows.
OnlyGrows ==
  [][\A id \in Ids : IsChat(Now(id)) /\ IsChat(Now(id)') =>
       \/ IsPrefix(Now(id), Now(id)')
       \/ \E w \in Pages :
            /\ page[w].id = id /\ page'[w].msgs = Now(id)'
            /\ Len(page'[w].msgs) < Len(page[w].msgs)]_vars
=============================================================================
