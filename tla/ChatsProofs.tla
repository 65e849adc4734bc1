----------------------------- MODULE ChatsProofs -----------------------------
(***************************************************************************)
(* Proofs about Chats, for any chats, turns and windows, and any number of *)
(* faults.                                                                 *)
(***************************************************************************)
EXTENDS Chats, SequenceTheorems, TLAPS

-----------------------------------------------------------------------------
(* The inductive invariant. *)

SomeChats == [Ids -> Msgs \cup {NoChat}]
TurnRecords ==
  [at : {"none", "asked", "live", "ending", "over"}, id : Ids \cup {None}, after : Msgs, shown : BOOLEAN,
   by : {None, "request", "leave"}]
PageRecords == [id : Ids \cup {None}, msgs : Msgs, turn : 0..MaxTurns]

Running(t) == turns[t].at \in {"asked", "live", "ending"}

Typed ==
  /\ listed \in SomeChats /\ stubs \in SomeChats
  /\ gone \subseteq used /\ dead \subseteq used /\ finals \subseteq dead
  /\ turns \in [Turns -> TurnRecords] /\ page \in [Pages -> PageRecords]
  /\ leave \in [at : {"here", "flush"}, todo : SUBSET Turns]
  /\ faults \in 0..MaxFaults
  /\ used \subseteq Ids /\ let_go \subseteq used /\ torn \subseteq used
  /\ kept \subseteq Turns /\ cut \subseteq Turns /\ unseen \subseteq Turns

\* Every chat there is has been seen, and is in one place, unless its delete
\* was not written; a dead one is in none.
PlacesOK ==
  /\ \A id \in Ids : Listed(id) \/ Stubbed(id) => id \in used
  /\ \A id \in Ids \ torn : ~(Listed(id) /\ Stubbed(id))

\* A running turn's answer still belongs where it was asked, or the turn is
\* known to have been passed over or cut.
RunningOK ==
  \A t \in Turns :
    Running(t) => turns[t].id \in used /\ (t \in unseen \cup cut \/ Belongs(t))

ChatsInv == Typed /\ PlacesOK /\ RunningOK /\ DeadStaysDead /\ NothingVanishes /\ AnswersKept

-----------------------------------------------------------------------------
(* Sequences of messages. *)

LEMMA MsgsAreChats == ASSUME NEW s \in Msgs PROVE IsChat(s)
<1> SUFFICES ASSUME s = <<-1>> PROVE FALSE
  BY DEF IsChat, NoChat
<1>1. Len(s) = 1 /\ s[1] = -1
  OBVIOUS
<1>2. s[1] \in 0..MaxTurns
  BY <1>1 DEF Msgs
<1>3. QED
  BY <1>1, <1>2, ChatsAssumption

LEMMA AppendMsgs ==
  ASSUME NEW s \in Msgs, NEW x \in 0..MaxTurns
  PROVE  Append(s, x) \in Msgs /\ IsPrefix(s, Append(s, x)) /\ Len(Append(s, x)) = Len(s) + 1
<1>1. Append(s, x) \in Msgs /\ Len(Append(s, x)) = Len(s) + 1
  BY DEF Msgs
<1>2. \A i \in 1..Len(s) : Append(s, x)[i] = s[i]
  BY DEF Msgs
<1>3. SubSeq(s, 1, Len(s)) = SubSeq(Append(s, x), 1, Len(s))
  BY <1>1, <1>2 DEF Msgs
<1>4. QED
  BY <1>1, <1>3 DEF IsPrefix, Msgs

LEMMA KeepMsgs ==
  ASSUME NEW s \in Msgs, NEW k \in 1..Len(s)
  PROVE  SubSeq(s, 1, k - 1) \in Msgs /\ Len(SubSeq(s, 1, k - 1)) = k - 1
<1>1. s \in Seq(0..MaxTurns) /\ Len(s) \in Nat
  BY DEF Msgs
<1>2. \A i \in 1..Len(s) : s[i] \in 0..MaxTurns
  BY <1>1, ElementOfSeq
<1>3. 1 \in Int /\ k - 1 \in Int /\ \A i \in 1..(k - 1) : s[i] \in 0..MaxTurns
  BY <1>1, <1>2
<1>4. SubSeq(s, 1, k - 1) \in Seq(0..MaxTurns)
      /\ Len(SubSeq(s, 1, k - 1)) = IF 1 <= k - 1 THEN k - 1 - 1 + 1 ELSE 0
  BY <1>3, SubSeqProperties
<1>5. QED
  BY <1>1, <1>4 DEF Msgs

LEMMA PrefixSelf == ASSUME NEW s \in Msgs PROVE IsPrefix(s, s)
BY DEF IsPrefix, Msgs

LEMMA PrefixPrefix ==
  ASSUME NEW r \in Msgs, NEW s \in Msgs, NEW u \in Msgs, IsPrefix(r, s), IsPrefix(s, u)
  PROVE  IsPrefix(r, u)
<1>1. Len(r) <= Len(s) /\ Len(s) <= Len(u)
  BY DEF IsPrefix
<1>2. \A i \in 1..Len(r) : r[i] = s[i]
  BY <1>1 DEF IsPrefix, Msgs
<1>3. \A i \in 1..Len(s) : s[i] = u[i]
  BY <1>1 DEF IsPrefix, Msgs
<1>4. \A i \in 1..Len(r) : r[i] = u[i]
  BY <1>1, <1>2, <1>3 DEF Msgs
<1>5. SubSeq(r, 1, Len(r)) = SubSeq(u, 1, Len(r))
  BY <1>1, <1>4 DEF Msgs
<1>6. QED
  BY <1>1, <1>5 DEF IsPrefix, Msgs

\* A prefix as long as the whole is the whole.
LEMMA WholePrefix ==
  ASSUME NEW s \in Msgs, NEW u \in Msgs, IsPrefix(s, u), Len(u) <= Len(s)
  PROVE  s = u
BY DEF IsPrefix, Msgs

LEMMA EmptyMsgs == <<>> \in Msgs
BY DEF Msgs

-----------------------------------------------------------------------------
(* What the operations are made of. *)

LEMMA NowTyped ==
  ASSUME Typed, NEW id \in Ids
  PROVE  /\ Now(id) \in Msgs \cup {NoChat}
         /\ IsChat(Now(id)) <=> Listed(id) \/ Stubbed(id)
BY DEF Typed, SomeChats, Now, IsChat, Listed, Stubbed

\* An answer goes into one chat, and only if it is there.
LEMMA WithAnswerTyped ==
  ASSUME NEW chats \in SomeChats, NEW id \in Ids, NEW a \in 0..MaxTurns
  PROVE  /\ WithAnswer(chats, id, a) \in SomeChats
         /\ \A i \in Ids : IsChat(WithAnswer(chats, id, a)[i]) <=> IsChat(chats[i])
         /\ \A i \in Ids \ {id} : WithAnswer(chats, id, a)[i] = chats[i]
         /\ IsChat(chats[id]) /\ a # 0 => WithAnswer(chats, id, a)[id] = Append(chats[id], a)
         /\ a = 0 => WithAnswer(chats, id, a) = chats
         /\ ~IsChat(chats[id]) => WithAnswer(chats, id, a) = chats
<1>1. CASE a # 0 /\ IsChat(chats[id])
  <2>1. chats[id] \in Msgs
    BY <1>1 DEF SomeChats, IsChat
  <2>2. Append(chats[id], a) \in Msgs /\ IsChat(Append(chats[id], a))
    BY <2>1, AppendMsgs, MsgsAreChats
  <2>3. WithAnswer(chats, id, a) = [chats EXCEPT ![id] = Append(chats[id], a)]
    BY <1>1 DEF WithAnswer
  <2>4. QED
    BY <1>1, <2>2, <2>3 DEF SomeChats, IsChat
<1>2. CASE ~(a # 0 /\ IsChat(chats[id]))
  BY <1>2 DEF WithAnswer
<1>3. QED
  BY <1>1, <1>2

LEMMA TurnsTyped ==
  ASSUME Typed, NEW t \in Turns
  PROVE  /\ Over(t) \in TurnRecords /\ NoTurn \in TurnRecords
         /\ Over(t).at = "over" /\ Over(t).shown = turns[t].shown
BY ChatsAssumption, EmptyMsgs DEF Typed, Over, NoTurn, TurnRecords

\* What _turns_settle ends is over, the rest is as it was.
LEMMA SettledTyped ==
  ASSUME Typed, NEW id \in Ids
  PROVE  /\ Settled(id) \in [Turns -> TurnRecords]
         /\ \A t \in Streaming(id) : Settled(id)[t] = Over(t)
         /\ \A t \in Turns \ Streaming(id) : Settled(id)[t] = turns[t]
         /\ Streaming(id) \subseteq Turns /\ Hidden(id) \subseteq Turns /\ Keepable(id) \subseteq Streaming(id)
<1>1. Streaming(id) \subseteq Turns /\ Hidden(id) \subseteq Turns /\ Keepable(id) \subseteq Streaming(id)
  BY DEF Streaming, Hidden, Keepable, Of
<1>2. \A t \in Turns : turns[t] \in TurnRecords /\ Over(t) \in TurnRecords
  BY TurnsTyped DEF Typed
<1>3. QED
  BY <1>1, <1>2 DEF Settled

-----------------------------------------------------------------------------
LEMMA ChatsInit == Init => ChatsInv
<1> SUFFICES ASSUME Init PROVE ChatsInv
  OBVIOUS
<1>1. Typed
  BY EmptyMsgs, ChatsAssumption DEF Init, Typed, SomeChats, TurnRecords, PageRecords, NoTurn, NoPage, Here
<1>2. PlacesOK /\ RunningOK /\ DeadStaysDead /\ NothingVanishes /\ AnswersKept
  BY DEF Init, PlacesOK, RunningOK, DeadStaysDead, NothingVanishes, AnswersKept, AnswerKept, Listed, Stubbed, IsChat,
     Running, NoTurn, Stays
<1>3. QED
  BY <1>1, <1>2 DEF ChatsInv

\* The steps that write nothing.
LEMMA QuietStep ==
  ASSUME ChatsInv,
         \/ \E w \in Pages : Blank(w) \/ Show(w)
         \/ \E t \in Turns : Register(t) \/ Stream(t) \/ End(t) \/ Flush(t)
         \/ Leave
  PROVE  ChatsInv'
<1>1. UNCHANGED <<store, memory, faults, ghosts>>
  BY DEF Blank, Show, Register, Stream, End, Flush, Leave
<1>2. turns' \in [Turns -> TurnRecords]
      /\ \A t \in Turns : \/ turns'[t] = turns[t]
                          \/ turns'[t].at = "over" /\ ~turns'[t].shown
                          \/ Running(t) /\ turns'[t].id = turns[t].id /\ turns'[t].after = turns[t].after
                             /\ turns'[t].at \in {"live", "ending"}
  <2>1. CASE UNCHANGED turns
    BY <2>1 DEF ChatsInv, Typed
  <2>2. ASSUME NEW t \in Turns, Register(t) \/ Stream(t) \/ Finish(t, "request") \/ Finish(t, "leave") PROVE <1>2
    <3>1. turns[t] \in TurnRecords /\ Over(t) \in TurnRecords /\ Over(t).at = "over" /\ Over(t).shown = turns[t].shown
      BY TurnsTyped DEF ChatsInv, Typed
    <3>2. PICK r \in TurnRecords : turns' = [turns EXCEPT ![t] = r]
      BY <2>2, <3>1 DEF Register, Stream, Finish, TurnRecords
    <3>3. turns'[t] = r /\ \A u \in Turns \ {t} : turns'[u] = turns[u]
      BY <3>2 DEF ChatsInv, Typed
    <3>4. \/ r.at = "over" /\ ~r.shown
          \/ Running(t) /\ r.id = turns[t].id /\ r.after = turns[t].after /\ r.at \in {"live", "ending"}
      <4>1. CASE Register(t) \/ Stream(t)
        <5>1. turns[t].at \in {"asked", "live"}
              /\ \/ turns' = [turns EXCEPT ![t].at = "live"]
                 \/ turns' = [turns EXCEPT ![t].shown = TRUE] /\ turns[t].at = "live"
          BY <4>1 DEF Register, Stream
        <5>2. \/ turns'[t] = [turns[t] EXCEPT !.at = "live"]
              \/ turns'[t] = [turns[t] EXCEPT !.shown = TRUE] /\ turns[t].at = "live"
          BY <5>1 DEF ChatsInv, Typed
        <5>3. QED
          BY <3>1, <3>3, <5>1, <5>2 DEF Running, TurnRecords
      <4>2. CASE Finish(t, "request") \/ Finish(t, "leave")
        <5>1. PICK who \in {"request", "leave"} : Finish(t, who)
          BY <4>2
        <5>2. turns'[t] = IF turns[t].shown THEN [turns[t] EXCEPT !.at = "ending", !.by = who] ELSE Over(t)
          BY <5>1 DEF Finish, ChatsInv, Typed
        <5>3. turns[t].at = "live" /\ turns[t].shown \in BOOLEAN
          BY <3>1, <5>1 DEF Finish, TurnRecords
        <5>4. CASE turns[t].shown
          BY <3>1, <3>3, <5>2, <5>3, <5>4 DEF Running, TurnRecords
        <5>5. CASE ~turns[t].shown
          BY <3>1, <3>3, <5>2, <5>5
        <5>6. QED
          BY <5>4, <5>5
      <4>3. QED
        BY <2>2, <4>1, <4>2
    <3>5. turns' \in [Turns -> TurnRecords]
      BY <3>2 DEF ChatsInv, Typed
    <3>6. QED
      BY <3>3, <3>4, <3>5
  <2>3. QED
    BY <2>1, <2>2 DEF Blank, Show, Leave, End, Flush
<1>3. page' \in [Pages -> PageRecords]
  <2>1. ASSUME NEW w \in Pages, Blank(w) \/ Show(w) PROVE page' \in [Pages -> PageRecords]
    <3>1. PICK r \in PageRecords : page' = [page EXCEPT ![w] = r]
      BY <2>1, EmptyMsgs, ChatsAssumption
      DEF Blank, Show, Fresh, NoPage, PageRecords, ChatsInv, Typed, SomeChats, Listed, IsChat
    <3>2. QED
      BY <3>1 DEF ChatsInv, Typed
  <2>2. ASSUME NEW t \in Turns, Stream(t) PROVE page' \in [Pages -> PageRecords]
    <3>1. \A w \in Pages : [page[w] EXCEPT !.msgs = Append(@, t), !.turn = 0] \in PageRecords
      <4> TAKE w \in Pages
      <4>1. page[w] \in PageRecords /\ page[w].msgs \in Msgs
        BY DEF ChatsInv, Typed, PageRecords
      <4>2. t \in 0..MaxTurns /\ 0 \in 0..MaxTurns
        BY ChatsAssumption DEF Turns
      <4>3. Append(page[w].msgs, t) \in Msgs
        BY <4>1, <4>2, AppendMsgs
      <4>4. QED
        BY <4>1, <4>2, <4>3 DEF PageRecords
    <3>2. QED
      BY <2>2, <3>1 DEF Stream, ChatsInv, Typed
  <2>3. CASE UNCHANGED page
    BY <2>3 DEF ChatsInv, Typed
  <2>4. QED
    BY <2>1, <2>2, <2>3 DEF Register, End, Flush, Leave
<1>4. leave' \in [at : {"here", "flush"}, todo : SUBSET Turns]
  <2>1. CASE UNCHANGED leave
    BY <2>1 DEF ChatsInv, Typed
  <2>2. CASE Leave
    BY <2>2 DEF Leave
  <2>3. ASSUME NEW t \in Turns, Flush(t) PROVE leave' \in [at : {"here", "flush"}, todo : SUBSET Turns]
    BY <2>3 DEF Flush, ChatsInv, Typed
  <2>4. QED
    BY <2>1, <2>2, <2>3 DEF Blank, Show, Register, Stream, End
<1>5. Typed'
  BY <1>1, <1>2, <1>3, <1>4 DEF ChatsInv, Typed, store, memory, ghosts
<1>6. (PlacesOK /\ RunningOK /\ DeadStaysDead /\ NothingVanishes /\ AnswersKept)'
  BY <1>1, <1>2 DEF ChatsInv, PlacesOK, RunningOK, DeadStaysDead, NothingVanishes, AnswersKept, AnswerKept, Listed,
     Stubbed, Running, Belongs, Now, Stays, store, memory, ghosts
<1>7. QED
  BY <1>5, <1>6 DEF ChatsInv

-----------------------------------------------------------------------------
(* The steps that write. *)

LEMMA FaultTyped == ASSUME Typed, NEW kind, Fault(kind) PROVE faults' \in 0..MaxFaults
BY ChatsAssumption DEF Typed, Fault

\* The undo window passes, in memory alone.
LEMMA ExpireStep == ASSUME ChatsInv, NEW id \in Ids, Expire(id) PROVE ChatsInv'
<1>1. Typed'
  <2>1. id \in used /\ stubs' \in SomeChats /\ cut' \subseteq Turns
    BY DEF Expire, ChatsInv, PlacesOK, Typed, SomeChats, Of
  <2>2. QED
    BY <2>1 DEF Expire, ChatsInv, Typed, store
<1>2. \A i \in Ids : stubs'[i] = IF i = id THEN NoChat ELSE stubs[i]
  BY DEF Expire, ChatsInv, Typed, SomeChats
<1>3. (PlacesOK /\ DeadStaysDead)'
  BY <1>2 DEF Expire, ChatsInv, store, PlacesOK, DeadStaysDead, Listed, Stubbed, IsChat
<1>4. (NothingVanishes /\ AnswersKept)'
  BY <1>2 DEF Expire, ChatsInv, store, NothingVanishes, Stays, Listed, Stubbed, IsChat, AnswersKept, AnswerKept
<1>5. RunningOK'
  BY <1>2 DEF Expire, ChatsInv, store, RunningOK, Running, Belongs, Now, Listed, IsChat, Of
<1>6. QED
  BY <1>1, <1>3, <1>4, <1>5 DEF ChatsInv

LEMMA FinalizeStep == ASSUME ChatsInv, Finalize PROVE ChatsInv'
<1>1. listed' = listed /\ UNCHANGED <<stubs, dead, turns, page, leave, ghosts>>
  BY DEF Finalize, Write, WriteFails
<1>2. gone' \subseteq gone \cup finals /\ finals' \subseteq finals /\ faults' \in 0..MaxFaults
  BY FaultTyped DEF Finalize, Write, WriteFails, ChatsInv, Typed
<1>3. Typed'
  BY <1>1, <1>2 DEF ChatsInv, Typed, ghosts
<1>4. (PlacesOK /\ RunningOK /\ DeadStaysDead /\ NothingVanishes /\ AnswersKept)'
  BY <1>1, <1>2 DEF ChatsInv, Typed, ghosts, PlacesOK, RunningOK, DeadStaysDead, NothingVanishes, AnswersKept, AnswerKept, Listed, Stubbed, Running, Belongs, Now, Stays
<1>5. QED
  BY <1>3, <1>4 DEF ChatsInv

LEMMA ForgetStep == ASSUME ChatsInv, Forget PROVE ChatsInv'
<1>1. /\ stubs' = [id \in Ids |-> NoChat] /\ finals' = {} /\ dead' = dead \cup {id \in Ids : Stubbed(id)}
      /\ listed' \in SomeChats /\ gone' \subseteq gone
      /\ \A id \in Ids : listed'[id] = NoChat \/ listed'[id] = listed[id]
      /\ let_go' = let_go \cup {id \in Ids : Listed(id) \/ Stubbed(id)}
      /\ UNCHANGED <<page, leave, used, kept, unseen, torn>>
  BY DEF Forget, Fault, SomeChats, ChatsInv, Typed
<1>2. faults' \in 0..MaxFaults
  BY FaultTyped DEF Forget, ChatsInv, Typed
<1>3. /\ turns' \in [Turns -> TurnRecords] /\ cut' = cut \cup {t \in Turns : Running(t)}
      /\ \A t \in Turns : turns'[t] = IF turns[t].at = "live" THEN Over(t) ELSE turns[t]
  BY TurnsTyped DEF Forget, ChatsInv, Typed, Running
<1>4. \A t \in Turns : Over(t).at = "over"
  BY TurnsTyped DEF ChatsInv
<1>5. Typed'
  BY <1>1, <1>2, <1>3 DEF ChatsInv, PlacesOK, Typed, SomeChats
<1>6. (PlacesOK /\ DeadStaysDead /\ NothingVanishes)'
  <2>1. \A id \in Ids : ~Stubbed(id)' /\ (Listed(id)' => Listed(id))
    BY <1>1 DEF Stubbed, Listed, IsChat
  <2>2. PlacesOK'
    BY <1>1, <2>1 DEF ChatsInv, PlacesOK
  <2>3. DeadStaysDead'
    BY <1>1, <2>1 DEF ChatsInv, Typed, PlacesOK, DeadStaysDead
  <2>4. NothingVanishes'
    BY <1>1 DEF ChatsInv, Typed, NothingVanishes, Stays
  <2>5. QED
    BY <2>2, <2>3, <2>4
<1>7. (RunningOK /\ AnswersKept)'
  BY <1>1, <1>3, <1>4 DEF ChatsInv, RunningOK, AnswersKept, AnswerKept, Running
<1>8. QED
  BY <1>5, <1>6, <1>7 DEF ChatsInv

\* The profile is left or the app killed: what was running was passed over.
LEMMA ForgottenStep == ASSUME ChatsInv, Move \/ Crash PROVE ChatsInv'
<1>1. /\ stubs' = [id \in Ids |-> NoChat] /\ dead' = {} /\ finals' = {} /\ listed' = listed
      /\ gone' \subseteq gone \cup finals \cup {id \in Ids : Stubbed(id)}
      /\ let_go' = let_go \cup {id \in Ids : Stubbed(id)}
      /\ page' = [w \in Pages |-> NoPage] /\ leave' = Here
      /\ UNCHANGED <<used, kept, cut, torn>>
  BY DEF Move, Crash, Forgotten, store
<1>2. faults' \in 0..MaxFaults
  BY FaultTyped DEF Move, Crash, ChatsInv, Typed
<1>3. /\ turns' = [t \in Turns |-> IF turns[t].at = "none" THEN NoTurn ELSE Over(t)]
      /\ unseen' = unseen \cup {t \in Turns : Running(t)}
  BY DEF Move, Crash, Forgotten, Running
<1>4. \A t \in Turns : /\ Over(t) \in TurnRecords /\ NoTurn \in TurnRecords /\ turns[t] \in TurnRecords
                       /\ Over(t).at = "over" /\ Over(t).shown = turns[t].shown /\ NoTurn.at = "none"
  BY TurnsTyped DEF ChatsInv, Typed, NoTurn
<1>5. NoPage \in PageRecords /\ Here \in [at : {"here", "flush"}, todo : SUBSET Turns]
  BY EmptyMsgs, ChatsAssumption DEF NoPage, PageRecords, Here
<1>6. Typed'
  BY <1>1, <1>2, <1>3, <1>4, <1>5 DEF ChatsInv, PlacesOK, Typed, SomeChats
<1>7. (PlacesOK /\ DeadStaysDead /\ NothingVanishes)'
  BY <1>1 DEF ChatsInv, Typed, PlacesOK, DeadStaysDead, NothingVanishes, Stays, Listed, Stubbed, IsChat
<1>8. \A t \in Turns : turns'[t].at = "over" /\ turns'[t].shown =>
         (t \in unseen') \/ (turns[t].at = "over" /\ turns[t].shown)
  BY <1>3, <1>4 DEF Running, TurnRecords
<1>9. (RunningOK /\ AnswersKept)'
  BY <1>1, <1>3, <1>4, <1>8 DEF ChatsInv, RunningOK, AnswersKept, AnswerKept, Running
<1>10. QED
  BY <1>6, <1>7, <1>9 DEF ChatsInv

\* An operation refused for a full disk: what streamed is over all the same.
LEMMA FailsStep ==
  ASSUME ChatsInv, NEW w \in Pages, AskFails(w) \/ RewindFails(w)
  PROVE  ChatsInv'
<1> DEFINE id == page[w].id
<1>1. id \in Ids /\ UNCHANGED <<listed, gone, finals, dead, page, leave, used, kept, let_go, torn>>
  BY DEF AskFails, RewindFails, WriteFails, ChatsInv, Typed, PageRecords
<1>2. faults' \in 0..MaxFaults
  BY FaultTyped DEF AskFails, RewindFails, WriteFails, ChatsInv, Typed
<1>3. /\ turns' \in [Turns -> TurnRecords]
      /\ \A t \in Streaming(id) : turns'[t].at = "over"
      /\ \A t \in Turns \ Streaming(id) : turns'[t] = turns[t]
      /\ Streaming(id) \subseteq Turns /\ Hidden(id) \subseteq Turns
  BY <1>1, SettledTyped, TurnsTyped DEF AskFails, RewindFails, ChatsInv
<1>4. \/ cut' = cut \cup Streaming(id) /\ UNCHANGED <<stubs, unseen>>
      \/ cut' = cut /\ unseen' = unseen \cup Streaming(id) \cup Hidden(id)
  BY DEF AskFails, RewindFails
<1>5. /\ stubs' \in SomeChats
      /\ \A i \in Ids : IsChat(stubs'[i]) <=> IsChat(stubs[i])
      /\ \A i \in Ids \ {id} : stubs'[i] = stubs[i]
  <2>1. CASE UNCHANGED stubs
    BY <2>1 DEF ChatsInv, Typed
  <2>2. CASE AskFails(w) /\ ~UNCHANGED stubs
    <3>1. PICK a \in 0..MaxTurns : stubs' = WithAnswer(stubs, id, a)
      BY <1>1, <2>2, SettledTyped, ChatsAssumption DEF AskFails, ChatsInv, Turns
    <3>2. QED
      BY <1>1, <3>1, WithAnswerTyped DEF ChatsInv, Typed
  <2>3. QED
    BY <2>1, <2>2 DEF RewindFails
<1>6. Typed'
  BY <1>1, <1>2, <1>3, <1>4, <1>5 DEF ChatsInv, Typed
<1>7. (PlacesOK /\ DeadStaysDead /\ NothingVanishes)'
  <2>1. \A i \in Ids : (Stubbed(i)' <=> Stubbed(i)) /\ (Listed(i)' <=> Listed(i))
    BY <1>1, <1>5 DEF Stubbed, Listed
  <2>2. QED
    BY <1>1, <2>1 DEF ChatsInv, Typed, PlacesOK, DeadStaysDead, NothingVanishes, Stays
<1>8. AnswersKept'
  BY <1>1, <1>3, <1>4 DEF ChatsInv, AnswersKept, AnswerKept
<1>9. RunningOK'
  <2> SUFFICES ASSUME NEW t \in Turns, Running(t)'
               PROVE  (turns[t].id \in used /\ (t \in unseen \cup cut \/ Belongs(t)))'
    BY DEF RunningOK
  <2>1. turns'[t] = turns[t] /\ Running(t) /\ t \notin Streaming(id)
    BY <1>3 DEF Running
  <2>2. turns[t].id \in used /\ (t \in unseen \cup cut \/ Belongs(t)) /\ turns[t].id \in Ids
    BY <2>1 DEF ChatsInv, RunningOK, Typed
  <2>3. CASE turns[t].id = id
    <3>1. t \in Hidden(id)
      BY <2>1, <2>3 DEF Hidden, Streaming, Of, Running
    <3>2. QED
      BY <1>1, <1>4, <2>1, <2>2, <3>1 DEF Belongs, Now, Listed
  <2>4. CASE turns[t].id # id
    BY <1>1, <1>4, <1>5, <2>1, <2>2, <2>4 DEF Belongs, Now, Listed
  <2>5. QED
    BY <2>3, <2>4
<1>10. QED
  BY <1>6, <1>7, <1>8, <1>9 DEF ChatsInv

\* A delete, or its undo, moves the chat from one place to the other; one that
\* was not written leaves it in both, or in none.
LEMMA MoveStep ==
  ASSUME ChatsInv, NEW id \in Ids, Delete(id) \/ Undelete(id)
  PROVE  ChatsInv'
<1> DEFINE notOver == {t \in Of(id) : turns[t].at # "over"}
<1>1. id \in used /\ UNCHANGED <<dead, turns, page, leave, used, kept, cut, let_go>>
  BY DEF Delete, Undelete, ChatsInv, PlacesOK
<1>2. \E chats \in SomeChats :
        /\ \A i \in Ids \ {id} : chats[i] = listed[i]
        /\ Tears(id, chats)
        /\ \/ Listed(id) /\ ~IsChat(chats[id]) /\ stubs' = [stubs EXCEPT ![id] = listed[id]]
           \/ ~Listed(id) /\ Stubbed(id) /\ chats[id] = stubs[id] /\ stubs' = [stubs EXCEPT ![id] = NoChat]
  <2>1. listed \in SomeChats /\ stubs \in SomeChats /\ ~IsChat(NoChat)
    BY DEF ChatsInv, Typed, IsChat
  <2>2. CASE Delete(id)
    <3>1. [listed EXCEPT ![id] = NoChat] \in SomeChats
      BY <2>1 DEF SomeChats
    <3>2. QED
      BY <2>1, <2>2, <3>1 DEF Delete, SomeChats
  <2>3. CASE Undelete(id)
    <3>1. [listed EXCEPT ![id] = stubs[id]] \in SomeChats
      BY <2>1 DEF SomeChats
    <3>2. QED
      BY <2>1, <2>3, <3>1 DEF Undelete, SomeChats
  <2>4. QED
    BY <2>2, <2>3
<1>3. PICK chats \in SomeChats :
        /\ \A i \in Ids \ {id} : chats[i] = listed[i]
        /\ Tears(id, chats)
        /\ \/ Listed(id) /\ ~IsChat(chats[id]) /\ stubs' = [stubs EXCEPT ![id] = listed[id]]
           \/ ~Listed(id) /\ Stubbed(id) /\ chats[id] = stubs[id] /\ stubs' = [stubs EXCEPT ![id] = NoChat]
  BY <1>2
<1>4. stubs' \in SomeChats /\ \A i \in Ids \ {id} : stubs'[i] = stubs[i]
  BY <1>3 DEF ChatsInv, Typed, SomeChats
<1>5. stubs'[id] = IF Listed(id) THEN listed[id] ELSE NoChat
  BY <1>3 DEF ChatsInv, Typed, SomeChats
<1>6. Tears(id, chats) => faults' \in 0..MaxFaults
  BY FaultTyped DEF Tears, Write, WriteFails, ChatsInv, Typed
<1>7. CASE listed' = chats /\ gone' = gone \cup finals /\ finals' = {} /\ UNCHANGED <<unseen, torn>>
  <2>1. Typed'
    BY <1>1, <1>3, <1>4, <1>6, <1>7 DEF ChatsInv, Typed
  <2>2. \A i \in Ids \ {id} : /\ Listed(i)' <=> Listed(i)
                              /\ Stubbed(i)' <=> Stubbed(i)
                              /\ Now(i)' = Now(i)
    BY <1>3, <1>4, <1>7 DEF Listed, Stubbed, Now
  <2>3. Now(id)' = Now(id) /\ (Listed(id)' <=> ~Listed(id)) /\ (Stubbed(id)' <=> Listed(id))
    BY <1>3, <1>5, <1>7 DEF Listed, Stubbed, Now, IsChat
  <2>4. Listed(id) \/ Stubbed(id)
    BY <1>3
  <2>5. (PlacesOK /\ DeadStaysDead /\ NothingVanishes /\ AnswersKept)'
    BY <1>1, <1>7, <2>2, <2>3, <2>4
    DEF ChatsInv, Typed, PlacesOK, DeadStaysDead, NothingVanishes, Stays, AnswersKept, AnswerKept
  <2>6. RunningOK'
    <3>1. \A t \in Turns : Running(t) => turns[t].id \in Ids
      BY DEF ChatsInv, RunningOK, Typed
    <3>2. \A i \in Ids : Now(i)' = Now(i)
      BY <2>2, <2>3
    <3>3. QED
      BY <1>1, <1>7, <3>1, <3>2 DEF ChatsInv, RunningOK, Running, Belongs
  <2>7. QED
    BY <2>1, <2>5, <2>6 DEF ChatsInv
<1>8. CASE UNCHANGED <<listed, gone, finals>> /\ torn' = torn \cup {id} /\ unseen' = unseen \cup notOver
  <2>1. Typed'
    BY <1>1, <1>3, <1>4, <1>6, <1>8 DEF ChatsInv, Typed, Of
  <2>2. \A i \in Ids \ {id} : /\ Listed(i)' <=> Listed(i)
                              /\ Stubbed(i)' <=> Stubbed(i)
                              /\ Now(i)' = Now(i)
    BY <1>4, <1>8 DEF Listed, Stubbed, Now
  <2>3. Listed(id)' <=> Listed(id)
    BY <1>8 DEF Listed
  <2>4. (PlacesOK /\ DeadStaysDead /\ NothingVanishes /\ AnswersKept)'
    BY <1>1, <1>8, <2>2, <2>3, <1>3
    DEF ChatsInv, Typed, PlacesOK, DeadStaysDead, NothingVanishes, Stays, AnswersKept, AnswerKept
  <2>5. RunningOK'
    <3>1. \A t \in Turns : Running(t) => turns[t].id \in Ids
      BY DEF ChatsInv, RunningOK, Typed
    <3>2. \A t \in Turns : Running(t) /\ turns[t].id = id => t \in unseen'
      BY <1>8 DEF Running, Of
    <3>3. QED
      BY <1>1, <1>8, <2>2, <3>1, <3>2 DEF ChatsInv, RunningOK, Running, Belongs
  <2>6. QED
    BY <2>1, <2>4, <2>5 DEF ChatsInv
<1>9. QED
  BY <1>3, <1>7, <1>8 DEF Tears, Write, WriteFails

\* A rewind cuts what streams and what came after; a turn that ended before it
\* still belongs only if nothing was taken away.
LEMMA RewindStep ==
  ASSUME ChatsInv, NEW w \in Pages, NEW k \in 1..Len(page[w].msgs), Rewind(w, k)
  PROVE  ChatsInv'
<1> DEFINE id == page[w].id
           keep == SubSeq(page[w].msgs, 1, k - 1)
           whole == Listed(id) /\ IsPrefix(keep, listed[id])
<1>1. id \in Ids /\ page[w].msgs \in Msgs /\ page[w] \in PageRecords
  BY DEF Rewind, ChatsInv, Typed, PageRecords
<1>2. keep \in Msgs /\ Len(keep) = k - 1 /\ IsChat(keep)
  BY <1>1, KeepMsgs, MsgsAreChats
<1>3. /\ turns' \in [Turns -> TurnRecords]
      /\ \A t \in Streaming(id) : turns'[t].at = "over"
      /\ \A t \in Turns \ Streaming(id) : turns'[t] = turns[t]
      /\ Streaming(id) \subseteq Turns
  BY <1>1, SettledTyped, TurnsTyped DEF Rewind, ChatsInv
<1>4. page' \in [Pages -> PageRecords]
  <2>1. page' = [page EXCEPT ![w] = [page[w] EXCEPT !.msgs = keep, !.turn = 0]]
    BY DEF Rewind, ChatsInv, Typed
  <2>2. \A m \in Msgs : [page[w] EXCEPT !.msgs = m, !.turn = 0] \in PageRecords
    <3> TAKE m \in Msgs
    <3>1. 0 \in 0..MaxTurns
      BY ChatsAssumption
    <3>2. QED
      BY <1>1, <3>1 DEF PageRecords
  <2>3. QED
    BY <1>2, <2>1, <2>2 DEF ChatsInv, Typed
<1>5. UNCHANGED <<stubs, dead, leave, used, kept, unseen, let_go, torn, faults>>
  BY DEF Rewind, Write
<1>6. /\ Streaming(id) \subseteq cut' /\ cut \subseteq cut' /\ cut' \subseteq Turns
      /\ whole => \A t \in Turns : Running(t) /\ turns[t].id = id /\ Len(turns[t].after) >= k => t \in cut'
  <2>1. \/ whole /\ cut' = cut \cup Streaming(id) \cup
                    {t \in Of(id) : turns[t].at # "over" /\ Len(turns[t].after) >= k}
        \/ ~whole /\ cut' = cut \cup Streaming(id)
    BY DEF Rewind
  <2>2. Of(id) = {t \in Turns : turns[t].id = id} /\ cut \subseteq Turns
    BY DEF Of, ChatsInv, Typed
  <2>3. QED
    BY <1>3, <2>1, <2>2 DEF Running
<1>7. /\ listed' \in SomeChats /\ \A i \in Ids \ {id} : listed'[i] = listed[i]
      /\ listed'[id] = IF whole THEN keep ELSE listed[id]
      /\ gone' \subseteq gone \cup finals /\ finals' \subseteq finals
  <2>1. \/ whole /\ listed' = [listed EXCEPT ![id] = keep] /\ gone' = gone \cup finals /\ finals' = {}
        \/ ~whole /\ UNCHANGED <<listed, gone, finals>>
    BY DEF Rewind, Write, store
  <2>2. listed \in SomeChats
    BY DEF ChatsInv, Typed
  <2>3. \A m \in Msgs : [listed EXCEPT ![id] = m] \in SomeChats
    BY <1>1, <2>2 DEF SomeChats
  <2>4. QED
    BY <1>1, <1>2, <2>1, <2>2, <2>3 DEF SomeChats
<1>8. Typed'
  BY <1>3, <1>4, <1>5, <1>6, <1>7 DEF ChatsInv, Typed
<1>9. \A i \in Ids : (Listed(i)' <=> Listed(i)) /\ (Stubbed(i)' <=> Stubbed(i))
  BY <1>2, <1>5, <1>7 DEF Listed, Stubbed
<1>10. (PlacesOK /\ DeadStaysDead /\ NothingVanishes)'
  BY <1>5, <1>7, <1>9 DEF ChatsInv, Typed, PlacesOK, DeadStaysDead, NothingVanishes, Stays
<1>11. AnswersKept'
  BY <1>3, <1>5, <1>6 DEF ChatsInv, AnswersKept, AnswerKept
<1>12. RunningOK'
  <2> SUFFICES ASSUME NEW t \in Turns, Running(t)'
               PROVE  (turns[t].id \in used /\ (t \in unseen \cup cut \/ Belongs(t)))'
    BY DEF RunningOK
  <2>1. turns'[t] = turns[t] /\ Running(t) /\ t \notin Streaming(id)
    BY <1>3 DEF Running
  <2>2. turns[t].id \in used /\ (t \in unseen \cup cut \/ Belongs(t)) /\ turns[t].id \in Ids
    BY <2>1 DEF ChatsInv, RunningOK, Typed
  <2>3. CASE turns[t].id = id /\ whole /\ t \notin unseen \cup cut'
    <3>1. turns[t].after = listed[id] /\ turns[t].after \in Msgs /\ Len(turns[t].after) < k
      BY <1>6, <2>1, <2>2, <2>3 DEF Belongs, Now, ChatsInv, Typed, TurnRecords, Msgs
    <3>2. keep = listed[id]
      <4>1. listed[id] \in Msgs /\ Len(listed[id]) <= Len(keep) /\ IsPrefix(keep, listed[id])
        BY <1>1, <1>2, <2>3, <3>1 DEF Msgs
      <4> HIDE DEF keep
      <4>2. QED
        BY <1>2, <4>1, WholePrefix
    <3>3. QED
      BY <1>5, <1>7, <2>1, <2>2, <2>3, <3>1, <3>2 DEF Belongs, Now, Listed
  <2>4. CASE ~(turns[t].id = id /\ whole)
    BY <1>5, <1>6, <1>7, <2>1, <2>2, <2>4 DEF Belongs, Now, Listed
  <2>5. QED
    BY <1>5, <2>1, <2>2, <2>3, <2>4
<1>13. QED
  BY <1>8, <1>10, <1>11, <1>12 DEF ChatsInv

\* An answer is written where it belongs, once; one that waits for the same
\* place, after a rewind that missed it, is passed over.
LEMMA LateStep == ASSUME ChatsInv, NEW t \in Turns, Late(t) PROVE ChatsInv'
<1> DEFINE id == turns[t].id
<1>1. Running(t) /\ id \in used /\ id \in Ids /\ turns[t].after \in Msgs
      /\ (t \in unseen \cup cut \/ Belongs(t))
  BY DEF Late, Running, ChatsInv, RunningOK, Typed, TurnRecords
<1>2. /\ turns' = [turns EXCEPT ![t] = Over(t)] /\ turns' \in [Turns -> TurnRecords]
      /\ turns'[t].at = "over" /\ \A u \in Turns \ {t} : turns'[u] = turns[u]
  BY TurnsTyped DEF Late, ChatsInv, Typed
<1>3. UNCHANGED <<dead, page, leave, used, cut, let_go, torn>>
  BY DEF Late
<1>4. Belongs(t) => IsChat(Now(id)) /\ (Listed(id) \/ Stubbed(id))
  BY <1>1, MsgsAreChats, NowTyped DEF Belongs, ChatsInv
<1>5. ASSUME Belongs(t), kept' = kept \cup {t}, unseen' = unseen \cup Twins(t),
             \/ Listed(id) /\ Write(WithAnswer(listed, id, t)) /\ UNCHANGED stubs
             \/ ~Listed(id) /\ stubs' = WithAnswer(stubs, id, t) /\ UNCHANGED <<store, finals, faults>>
      PROVE  ChatsInv'
  <2>0. t \in 0..MaxTurns /\ t # 0 /\ Twins(t) \subseteq Turns
    BY ChatsAssumption DEF Turns, Twins, Of
  <2>1. /\ listed' \in SomeChats /\ stubs' \in SomeChats /\ gone' \subseteq gone \cup finals /\ finals' \subseteq finals
        /\ faults' = faults
        /\ \A i \in Ids : (Listed(i)' <=> Listed(i)) /\ (Stubbed(i)' <=> Stubbed(i))
        /\ \A i \in Ids \ {id} : listed'[i] = listed[i] /\ stubs'[i] = stubs[i]
    <3>1. CASE Listed(id) /\ Write(WithAnswer(listed, id, t)) /\ UNCHANGED stubs
      BY <1>1, <2>0, <3>1, WithAnswerTyped DEF ChatsInv, Typed, Listed, Stubbed, Write
    <3>2. CASE ~Listed(id) /\ stubs' = WithAnswer(stubs, id, t) /\ UNCHANGED <<store, finals, faults>>
      BY <1>1, <2>0, <3>2, WithAnswerTyped DEF ChatsInv, Typed, Listed, Stubbed, store
    <3>3. QED
      BY <1>5, <3>1, <3>2
  <2>2. Typed'
    BY <1>2, <1>3, <1>5, <2>0, <2>1 DEF ChatsInv, Typed
  <2>3. (PlacesOK /\ DeadStaysDead /\ NothingVanishes)'
    BY <1>3, <2>1 DEF ChatsInv, Typed, PlacesOK, DeadStaysDead, NothingVanishes, Stays
  <2>4. AnswersKept'
    BY <1>2, <1>3, <1>5 DEF ChatsInv, AnswersKept, AnswerKept
  <2>5. ASSUME NEW u \in Turns, Running(u)'
        PROVE  (turns[u].id \in used /\ (u \in unseen \cup cut \/ Belongs(u)))'
    <3>1. turns'[u] = turns[u] /\ Running(u) /\ u # t
      BY <1>2, <2>5 DEF Running
    <3>2. turns[u].id \in used /\ (u \in unseen \cup cut \/ Belongs(u)) /\ turns[u].id \in Ids
      BY <3>1 DEF ChatsInv, RunningOK, Typed
    <3>3. CASE turns[u].id = id /\ Belongs(u)
      BY <1>3, <1>5, <3>1, <3>2, <3>3 DEF Twins, Of, Belongs, Running
    <3>4. CASE turns[u].id # id /\ Belongs(u)
      BY <1>3, <2>1, <3>1, <3>2, <3>4 DEF Belongs, Now
    <3>5. QED
      BY <1>3, <1>5, <3>1, <3>2, <3>3, <3>4
  <2>6. QED
    BY <2>2, <2>3, <2>4, <2>5 DEF ChatsInv, RunningOK
<1>6. ASSUME UNCHANGED <<store, stubs, finals, kept>>, faults' \in 0..MaxFaults,
             unseen' \in {unseen, unseen \cup {t}}, t \in unseen' \cup cut
      PROVE  ChatsInv'
  <2>1. Typed'
    BY <1>2, <1>3, <1>6 DEF ChatsInv, Typed, store
  <2>2. (PlacesOK /\ DeadStaysDead /\ NothingVanishes)'
    BY <1>3, <1>6 DEF ChatsInv, PlacesOK, DeadStaysDead, NothingVanishes, Stays, Listed, Stubbed, store
  <2>3. (RunningOK /\ AnswersKept)'
    BY <1>2, <1>3, <1>6 DEF ChatsInv, RunningOK, Running, AnswersKept, AnswerKept, Belongs, Now, Listed, store
  <2>4. QED
    BY <2>1, <2>2, <2>3 DEF ChatsInv
<1>7. CASE Belongs(t) /\ Listed(id) /\ WriteFails /\ unseen' = unseen \cup {t} /\ UNCHANGED <<stubs, kept>>
  BY <1>6, <1>7, FaultTyped DEF WriteFails, store, ChatsInv
<1>8. CASE ~Belongs(t) /\ UNCHANGED <<store, stubs, finals, faults, kept, unseen>>
  BY <1>1, <1>6, <1>8 DEF ChatsInv, Typed
<1>9. QED
  BY <1>5, <1>7, <1>8 DEF Late

\* The question goes at the end of its chat, or begins one that has not been.
LEMMA LandingTyped ==
  ASSUME Typed, NEW w \in Pages, page[w].id \in Ids, NEW chat \in Msgs \cup {NoChat}, NEW to \in Landing(w, chat)
  PROVE  /\ to[1] \in Ids /\ to[2] \in Msgs
         /\ \/ to[1] = page[w].id /\ IsChat(chat) /\ to[2] = chat
            \/ to[1] = page[w].id /\ ~IsChat(chat) /\ ~ChatDead(to[1])
            \/ to[1] \notin used
<1>1. page[w].msgs \in Msgs
  BY DEF Typed, PageRecords
<1> DEFINE begins == ~IsChat(chat) /\ page[w].msgs = <<>> /\ ~ChatDead(page[w].id)
           follows == IsChat(chat) /\ IsPrefix(page[w].msgs, chat)
<1>2. CASE begins
  BY <1>2, EmptyMsgs DEF Landing
<1>3. CASE ~begins /\ follows
  <2>1. to = <<page[w].id, chat>>
    BY <1>3 DEF Landing
  <2>2. QED
    BY <1>3, <2>1 DEF IsChat
<1>4. CASE ~begins /\ ~follows
  <2>1. to \in {<<new, page[w].msgs>> : new \in Fresh}
    BY <1>4 DEF Landing
  <2>2. QED
    BY <1>1, <2>1 DEF Fresh
<1>5. QED
  BY <1>2, <1>3, <1>4

\* A question ends what streams into its chat: the answer that belongs is
\* written, the others had been passed over or cut, or are now.
LEMMA AskStep ==
  ASSUME ChatsInv, NEW w \in Pages, NEW t \in Turns, Ask(w, t)
  PROVE  ChatsInv'
<1> DEFINE id == page[w].id
<1>1. id \in Ids /\ page[w].msgs \in Msgs /\ turns[t].at = "none"
  BY DEF Ask, ChatsInv, Typed, PageRecords
<1>2. PICK a \in (IF Keepable(id) = {} THEN {0} ELSE Keepable(id)) :
        LET chats == WithAnswer(listed, id, a) IN
        \E to \in Landing(w, chats[id]) :
          LET asked == Append(to[2], Question) IN
          /\ Write([chats EXCEPT ![to[1]] = asked])
          /\ stubs' = IF Listed(id) THEN stubs ELSE WithAnswer(stubs, id, a)
          /\ turns' = [Settled(id) EXCEPT
                         ![t] = [NoTurn EXCEPT !.at = "asked", !.id = to[1], !.after = asked]]
          /\ page' = [page EXCEPT ![w] = [id |-> to[1], msgs |-> Append(page[w].msgs, Question), turn |-> t]]
          /\ kept' = kept \cup ({a} \ {0})
          /\ unseen' = unseen \cup Hidden(id) \cup (Keepable(id) \ {a})
          /\ used' = used \cup {to[1]}
  BY DEF Ask
<1> DEFINE chats == WithAnswer(listed, id, a)
<1>3. PICK to \in Landing(w, chats[id]) :
        LET asked == Append(to[2], Question) IN
        /\ Write([chats EXCEPT ![to[1]] = asked])
        /\ stubs' = IF Listed(id) THEN stubs ELSE WithAnswer(stubs, id, a)
        /\ turns' = [Settled(id) EXCEPT ![t] = [NoTurn EXCEPT !.at = "asked", !.id = to[1], !.after = asked]]
        /\ page' = [page EXCEPT ![w] = [id |-> to[1], msgs |-> Append(page[w].msgs, Question), turn |-> t]]
        /\ kept' = kept \cup ({a} \ {0})
        /\ unseen' = unseen \cup Hidden(id) \cup (Keepable(id) \ {a})
        /\ used' = used \cup {to[1]}
  BY <1>2
<1> DEFINE n == to[1]
           asked == Append(to[2], Question)
           begun == [NoTurn EXCEPT !.at = "asked", !.id = n, !.after = asked]
<1>4. UNCHANGED <<dead, leave, cut, let_go, torn>>
  BY DEF Ask
<1>5. a \in 0..MaxTurns /\ Streaming(id) \subseteq Turns /\ Hidden(id) \subseteq Turns
      /\ Keepable(id) \subseteq Streaming(id) /\ {a} \ {0} \subseteq Turns
  BY <1>1, SettledTyped, ChatsAssumption DEF ChatsInv, Turns
<1>6. /\ chats \in SomeChats /\ \A i \in Ids : IsChat(chats[i]) <=> Listed(i)
      /\ \A i \in Ids \ {id} : chats[i] = listed[i]
  BY <1>1, <1>5, WithAnswerTyped DEF ChatsInv, Typed, Listed
<1>7. /\ n \in Ids /\ to[2] \in Msgs
      /\ \/ n = id /\ (Listed(id) \/ ~ChatDead(id))
         \/ n \notin used
  <2>1. chats[id] \in Msgs \cup {NoChat}
    BY <1>1, <1>6 DEF SomeChats
  <2>2. QED
    BY <1>1, <1>3, <1>6, <2>1, LandingTyped DEF ChatsInv
<1>8. asked \in Msgs /\ IsChat(asked)
  BY <1>7, AppendMsgs, MsgsAreChats, ChatsAssumption DEF Question
<1> HIDE DEF asked, chats
<1>9. /\ listed' \in SomeChats /\ listed'[n] = asked
      /\ \A i \in Ids \ {n, id} : listed'[i] = listed[i]
      /\ \A i \in Ids : Listed(i)' <=> Listed(i) \/ i = n
      /\ gone' = gone \cup finals /\ finals' = {} /\ faults' = faults
  <2>1. listed' = [chats EXCEPT ![n] = asked] /\ gone' = gone \cup finals /\ finals' = {} /\ faults' = faults
    BY <1>3 DEF Write, chats, asked
  <2>2. QED
    BY <1>6, <1>7, <1>8, <2>1 DEF SomeChats, Listed
<1>10. /\ stubs' \in SomeChats /\ \A i \in Ids : Stubbed(i)' <=> Stubbed(i)
       /\ \A i \in Ids \ {id} : stubs'[i] = stubs[i]
  <2>1. CASE stubs' = stubs
    BY <2>1 DEF ChatsInv, Typed, Stubbed
  <2>2. CASE stubs' = WithAnswer(stubs, id, a)
    BY <1>1, <1>5, <2>2, WithAnswerTyped DEF ChatsInv, Typed, Stubbed
  <2>3. QED
    BY <1>3, <2>1, <2>2
<1>11. /\ turns' \in [Turns -> TurnRecords] /\ turns'[t] = begun
       /\ \A u \in Streaming(id) \ {t} : turns'[u] = Over(u)
       /\ \A u \in Turns \ (Streaming(id) \cup {t}) : turns'[u] = turns[u]
       /\ begun.at = "asked" /\ begun.id = n /\ begun.after = asked
  <2>1. turns' = [Settled(id) EXCEPT ![t] = begun]
    BY <1>3 DEF asked
  <2>2. NoTurn \in TurnRecords
    BY TurnsTyped DEF ChatsInv
  <2>3. begun \in TurnRecords /\ begun.at = "asked" /\ begun.id = n /\ begun.after = asked
    BY <1>7, <1>8, <2>2 DEF TurnRecords
  <2> HIDE DEF begun
  <2>4. QED
    BY <1>1, <1>5, <2>1, <2>3, SettledTyped DEF ChatsInv
<1>12. page' \in [Pages -> PageRecords]
  <2>1. t \in 0..MaxTurns /\ Append(page[w].msgs, Question) \in Msgs
    BY <1>1, AppendMsgs, ChatsAssumption DEF Turns, Question
  <2>2. [id |-> n, msgs |-> Append(page[w].msgs, Question), turn |-> t] \in PageRecords
    BY <1>7, <2>1 DEF PageRecords
  <2>3. QED
    BY <1>3, <2>2 DEF ChatsInv, Typed
<1> HIDE DEF begun
<1>13. kept' = kept \cup ({a} \ {0}) /\ unseen' = unseen \cup Hidden(id) \cup (Keepable(id) \ {a})
       /\ used' = used \cup {n}
  BY <1>3
<1> HIDE DEF n, id
<1>14. Typed'
  BY <1>4, <1>5, <1>7, <1>9, <1>10, <1>11, <1>12, <1>13 DEF ChatsInv, Typed
<1>15. PlacesOK'
  BY <1>1, <1>4, <1>7, <1>9, <1>10, <1>13 DEF ChatsInv, PlacesOK, ChatDead
<1>16. (DeadStaysDead /\ NothingVanishes)'
  BY <1>1, <1>4, <1>7, <1>9, <1>10, <1>13 DEF ChatsInv, Typed, PlacesOK, DeadStaysDead, NothingVanishes, Stays, ChatDead
<1>17. AnswersKept'
  <2> SUFFICES ASSUME NEW u \in Turns \ unseen', turns'[u].at = "over", turns'[u].shown
               PROVE  u \in kept' \cup cut'
    BY DEF AnswersKept, AnswerKept
  <2>1. CASE u \in Streaming(id)
    <3>1. turns[u].shown /\ turns[u].at = "live"
      BY <1>1, <1>11, <2>1, TurnsTyped DEF Streaming, ChatsInv
    <3>2. CASE u \in Keepable(id)
      BY <1>13, <3>2 DEF Turns
    <3>3. CASE u \notin Keepable(id)
      BY <1>4, <1>13, <2>1, <3>1, <3>3 DEF Keepable, Running, ChatsInv, RunningOK
    <3>4. QED
      BY <3>2, <3>3
  <2>2. CASE u \notin Streaming(id)
    BY <1>4, <1>11, <1>13, <2>2 DEF ChatsInv, AnswersKept, AnswerKept
  <2>3. QED
    BY <2>1, <2>2
<1>18. ASSUME NEW u \in Turns, Running(u)'
       PROVE  (turns[u].id \in used /\ (u \in unseen \cup cut \/ Belongs(u)))'
  <2>1. CASE u = t
    BY <1>8, <1>9, <1>11, <1>13, <2>1 DEF Belongs, Now, Listed
  <2>2. CASE u # t
    <3>1. u \notin Streaming(id) /\ turns'[u] = turns[u] /\ Running(u)
      BY <1>11, <1>18, <2>2, TurnsTyped DEF Running, ChatsInv
    <3>2. turns[u].id \in used /\ (u \in unseen \cup cut \/ Belongs(u)) /\ turns[u].id \in Ids
      BY <3>1 DEF ChatsInv, RunningOK, Typed
    <3>3. CASE turns[u].id = id
      <4>1. u \in Hidden(id)
        BY <3>1, <3>3 DEF Hidden, Streaming, Of, Running
      <4>2. QED
        BY <1>13, <3>1, <3>2, <4>1
    <3>4. CASE turns[u].id # id
      <4>1. turns[u].id # n
        BY <1>7, <3>2, <3>4
      <4>2. QED
        BY <1>4, <1>9, <1>10, <1>13, <3>1, <3>2, <3>4, <4>1 DEF Belongs, Now, Listed
    <3>5. QED
      BY <3>3, <3>4
  <2>3. QED
    BY <2>1, <2>2
<1>19. QED
  BY <1>14, <1>15, <1>16, <1>17, <1>18 DEF ChatsInv, RunningOK

LEMMA ChatsNext == ASSUME ChatsInv, [Next]_vars PROVE ChatsInv'
<1>1. CASE Next
  BY <1>1, QuietStep, AskStep, FailsStep, RewindStep, LateStep, MoveStep, ExpireStep, FinalizeStep, ForgetStep,
     ForgottenStep DEF Next, Window, Turn, Chat
<1>2. CASE UNCHANGED vars
  BY <1>2 DEF vars, store, memory, ghosts, ChatsInv, Typed, PlacesOK, RunningOK, DeadStaysDead, NothingVanishes,
     AnswersKept, AnswerKept, Listed, Stubbed, Running, Belongs, Now, Stays
<1>3. QED
  BY <1>1, <1>2

LEMMA ChatsAlways == Spec => []ChatsInv
BY ChatsInit, ChatsNext, PTL DEF Spec

-----------------------------------------------------------------------------
(* What a chat holds stays. *)

\* Chat i is as it was, has grown, or is no chat any more.
Grows(i) == IsChat(Now(i)) /\ IsChat(Now(i)') => IsPrefix(Now(i), Now(i)')

LEMMA SameGrows ==
  ASSUME Typed, NEW i \in Ids, Now(i)' \in {Now(i), NoChat}
  PROVE  Grows(i)
BY NowTyped, PrefixSelf DEF Grows, IsChat

LEMMA AnswerGrows ==
  ASSUME Typed, NEW chats \in SomeChats, NEW id \in Ids, NEW a \in 0..MaxTurns, NEW i \in Ids, IsChat(chats[i])
  PROVE  /\ WithAnswer(chats, id, a)[i] \in Msgs /\ IsChat(WithAnswer(chats, id, a)[i])
         /\ IsPrefix(chats[i], WithAnswer(chats, id, a)[i])
<1>1. chats[i] \in Msgs
  BY DEF SomeChats, IsChat
<1>2. WithAnswer(chats, id, a)[i] \in {chats[i], Append(chats[i], a)}
  BY WithAnswerTyped
<1>3. QED
  BY <1>1, <1>2, PrefixSelf, AppendMsgs, MsgsAreChats

\* An answer put on the list or in an undo copy, or nowhere.
LEMMA PutGrows ==
  ASSUME Typed, NEW id \in Ids, NEW a \in 0..MaxTurns, NEW i \in Ids,
         listed' \in {listed, WithAnswer(listed, id, a)}, stubs' \in {stubs, WithAnswer(stubs, id, a)}
  PROVE  Grows(i)
<1> SUFFICES ASSUME IsChat(Now(i)) PROVE IsPrefix(Now(i), Now(i)')
  BY DEF Grows
<1>1. listed \in SomeChats /\ stubs \in SomeChats
  BY DEF Typed
<1>2. Listed(i)' <=> Listed(i)
  BY <1>1, WithAnswerTyped DEF Listed
<1>3. CASE Listed(i)
  BY <1>1, <1>2, <1>3, AnswerGrows, PrefixSelf DEF Now, Listed, SomeChats, IsChat
<1>4. CASE ~Listed(i)
  BY <1>1, <1>2, <1>4, AnswerGrows, PrefixSelf DEF Now, SomeChats, IsChat
<1>5. QED
  BY <1>3, <1>4

LEMMA AskGrows ==
  ASSUME ChatsInv, NEW w \in Pages, NEW t \in Turns, Ask(w, t), NEW i \in Ids
  PROVE  Grows(i)
<1> SUFFICES ASSUME IsChat(Now(i)) PROVE IsPrefix(Now(i), Now(i)')
  BY DEF Grows
<1> DEFINE id == page[w].id
<1>1. PICK a \in (IF Keepable(id) = {} THEN {0} ELSE Keepable(id)) :
        \E to \in Landing(w, WithAnswer(listed, id, a)[id]) :
          /\ Write([WithAnswer(listed, id, a) EXCEPT ![to[1]] = Append(to[2], Question)])
          /\ stubs' = IF Listed(id) THEN stubs ELSE WithAnswer(stubs, id, a)
  BY DEF Ask
<1>2. id \in Ids /\ a \in 0..MaxTurns /\ Question \in 0..MaxTurns
      /\ listed \in SomeChats /\ stubs \in SomeChats
  BY SettledTyped, ChatsAssumption DEF Ask, ChatsInv, Typed, PageRecords, Turns, Question
<1> DEFINE chats == WithAnswer(listed, id, a)
<1>3. PICK to \in Landing(w, chats[id]) :
        /\ Write([chats EXCEPT ![to[1]] = Append(to[2], Question)])
        /\ stubs' = IF Listed(id) THEN stubs ELSE WithAnswer(stubs, id, a)
  BY <1>1
<1>4. chats \in SomeChats /\ (\A j \in Ids : IsChat(chats[j]) <=> Listed(j))
      /\ (\A j \in Ids \ {id} : chats[j] = listed[j])
  BY <1>2, WithAnswerTyped DEF Listed
<1>5. chats[id] \in Msgs \cup {NoChat}
  BY <1>2, <1>4 DEF SomeChats
<1>6. /\ to[1] \in Ids /\ to[2] \in Msgs
      /\ \/ to[1] = id /\ Listed(id) /\ to[2] = chats[id]
         \/ to[1] = id /\ ~Listed(id) /\ ~Stubbed(id)
         \/ to[1] \notin used
  BY <1>2, <1>3, <1>4, <1>5, LandingTyped DEF ChatsInv, ChatDead
<1>7. Listed(i) \/ Stubbed(i)
  BY NowTyped DEF ChatsInv
<1>8. i \in used
  BY <1>7 DEF ChatsInv, PlacesOK
<1>9. CASE i = to[1]
  <2>1. i = id /\ Listed(i) /\ to[2] = chats[i]
    BY <1>6, <1>7, <1>8, <1>9
  <2>2. chats[i] \in Msgs /\ IsPrefix(listed[i], chats[i]) /\ listed[i] \in Msgs
    BY <1>2, <2>1, AnswerGrows DEF ChatsInv, Listed, SomeChats, IsChat
  <2>3. listed'[i] = Append(chats[i], Question)
    BY <1>3, <1>4, <1>9, <2>1 DEF Write, SomeChats
  <2>4. listed'[i] \in Msgs /\ IsPrefix(chats[i], listed'[i]) /\ IsChat(listed'[i])
    BY <1>2, <2>2, <2>3, AppendMsgs, MsgsAreChats
  <2>5. IsPrefix(listed[i], listed'[i])
    BY <2>2, <2>4, PrefixPrefix
  <2>6. QED
    BY <2>1, <2>4, <2>5 DEF Now, Listed
<1>10. CASE i # to[1]
  <2>1. listed'[i] = chats[i]
    BY <1>3, <1>4, <1>6, <1>10 DEF Write, SomeChats
  <2>2. CASE Listed(i)
    <3>1. IsChat(chats[i]) /\ IsPrefix(listed[i], chats[i])
      BY <1>2, <2>2, AnswerGrows DEF ChatsInv, Listed
    <3>2. QED
      BY <2>1, <2>2, <3>1 DEF Now, Listed
  <2>3. CASE ~Listed(i)
    <3>1. ~IsChat(listed'[i]) /\ IsChat(stubs[i])
      BY <1>4, <1>7, <2>1, <2>3 DEF Stubbed
    <3>2. IsPrefix(stubs[i], stubs'[i])
      BY <1>2, <1>3, <3>1, AnswerGrows, PrefixSelf DEF ChatsInv, SomeChats, IsChat
    <3>3. QED
      BY <2>3, <3>1, <3>2 DEF Now, Listed
  <2>4. QED
    BY <2>2, <2>3
<1>11. QED
  BY <1>9, <1>10

\* Only a rewind shortens a chat, to what its window is left with.
Shortens(i) ==
  \E w \in Pages :
    /\ page[w].id = i /\ page'[w].msgs = Now(i)'
    /\ Len(page'[w].msgs) < Len(page[w].msgs)

LEMMA RewindShortens ==
  ASSUME ChatsInv, NEW w \in Pages, NEW k \in 1..Len(page[w].msgs), Rewind(w, k), NEW i \in Ids
  PROVE  Grows(i) \/ Shortens(i)
<1> DEFINE id == page[w].id
           keep == SubSeq(page[w].msgs, 1, k - 1)
           whole == Listed(id) /\ IsPrefix(keep, listed[id])
<1>1. id \in Ids /\ page[w].msgs \in Msgs /\ page[w] \in PageRecords
  BY DEF Rewind, ChatsInv, Typed, PageRecords
<1>2. keep \in Msgs /\ Len(keep) = k - 1 /\ IsChat(keep)
  BY <1>1, KeepMsgs, MsgsAreChats
<1>3. page'[w].msgs = keep
  <2>1. page'[w] = [page[w] EXCEPT !.msgs = keep, !.turn = 0]
    BY DEF Rewind, ChatsInv, Typed
  <2>2. QED
    BY <1>1, <2>1 DEF PageRecords
<1>4. Len(page'[w].msgs) < Len(page[w].msgs)
  BY <1>1, <1>2, <1>3 DEF Msgs
<1>5. stubs' = stubs /\ \/ whole /\ listed' = [listed EXCEPT ![id] = keep]
                        \/ listed' = listed
  BY DEF Rewind, Write, store
<1>6. CASE listed' = listed
  BY <1>5, <1>6, SameGrows DEF ChatsInv, Now, Listed
<1>7. CASE whole /\ listed' = [listed EXCEPT ![id] = keep] /\ i # id
  BY <1>5, <1>7, SameGrows DEF ChatsInv, Typed, SomeChats, Now, Listed
<1>8. CASE whole /\ listed' = [listed EXCEPT ![id] = keep] /\ i = id
  <2>1. listed'[i] = keep
    BY <1>1, <1>8 DEF ChatsInv, Typed, SomeChats
  <2>2. Now(i)' = keep
    BY <1>2, <2>1 DEF Now, Listed
  <2>3. QED
    BY <1>3, <1>4, <1>8, <2>2 DEF Shortens
<1>9. QED
  BY <1>5, <1>6, <1>7, <1>8

LEMMA NextGrows ==
  ASSUME ChatsInv, Next, NEW i \in Ids
  PROVE  Grows(i) \/ Shortens(i)
<1> USE DEF ChatsInv
<1>1. CASE UNCHANGED <<listed, stubs>>
  BY <1>1, SameGrows DEF Now, Listed
<1>2. ASSUME NEW w \in Pages, AskFails(w) PROVE Grows(i)
  <2>1. page[w].id \in Ids /\ UNCHANGED listed
    BY <1>2 DEF AskFails, WriteFails, Typed, PageRecords
  <2>2. PICK a \in 0..MaxTurns : stubs' \in {stubs, WithAnswer(stubs, page[w].id, a)}
    BY <1>2, <2>1, SettledTyped, ChatsAssumption DEF AskFails, Turns
  <2>3. QED
    BY <2>1, <2>2, PutGrows
<1>3. ASSUME NEW t \in Turns, Late(t) PROVE Grows(i)
  <2>1. turns[t].id \in Ids /\ t \in 0..MaxTurns
    BY <1>3, ChatsAssumption DEF Late, RunningOK, Running, Typed, Turns
  <2>2. /\ listed' \in {listed, WithAnswer(listed, turns[t].id, t)}
        /\ stubs' \in {stubs, WithAnswer(stubs, turns[t].id, t)}
    BY <1>3 DEF Late, Write, WriteFails, store
  <2>3. QED
    BY <2>1, <2>2, PutGrows
<1>4. ASSUME NEW id \in Ids, Delete(id) \/ Undelete(id) \/ Expire(id) PROVE Grows(i)
  <2>1. listed \in SomeChats /\ stubs \in SomeChats
    BY DEF Typed
  <2>2. CASE i # id
    <3>1. listed'[i] = listed[i] /\ stubs'[i] = stubs[i]
      BY <1>4, <2>1, <2>2 DEF Delete, Undelete, Expire, Tears, Write, WriteFails, store, SomeChats
    <3>2. QED
      BY <3>1, SameGrows DEF Now, Listed
  <2>3. CASE i = id /\ Delete(id)
    <3>1. stubs'[i] = listed[i] /\ listed'[i] \in {listed[i], NoChat} /\ Listed(i)
      BY <2>1, <2>3 DEF Delete, Tears, Write, WriteFails, SomeChats
    <3>2. QED
      BY <3>1, SameGrows DEF Now, Listed, IsChat
  <2>4. CASE i = id /\ Undelete(id)
    <3>1. stubs'[i] = NoChat /\ listed'[i] \in {stubs[i], NoChat} /\ ~Listed(i)
      BY <2>1, <2>4 DEF Undelete, Tears, Write, WriteFails, SomeChats, Listed, IsChat
    <3>2. QED
      BY <3>1, SameGrows DEF Now, Listed, IsChat
  <2>5. CASE i = id /\ Expire(id)
    <3>1. stubs'[i] = NoChat /\ listed'[i] = listed[i]
      BY <2>1, <2>5 DEF Expire, store, SomeChats
    <3>2. QED
      BY <3>1, SameGrows DEF Now, Listed, IsChat
  <2>6. QED
    BY <1>4, <2>2, <2>3, <2>4, <2>5
<1>5. CASE Forget \/ Move \/ Crash
  <2>1. stubs'[i] = NoChat /\ listed'[i] \in {listed[i], NoChat}
    BY <1>5 DEF Forget, Fault, Move, Crash, Forgotten, store
  <2>2. QED
    BY <2>1, SameGrows DEF Now, Listed, IsChat
<1>6. ASSUME NEW w \in Pages, Blank(w) \/ Show(w) \/ RewindFails(w) PROVE UNCHANGED <<listed, stubs>>
  BY <1>6 DEF Blank, Show, RewindFails, WriteFails, store, memory
<1>7. ASSUME NEW t \in Turns, Register(t) \/ Stream(t) \/ End(t) \/ Flush(t) PROVE UNCHANGED <<listed, stubs>>
  BY <1>7 DEF Register, Stream, End, Flush, store, memory
<1>8. CASE Finalize \/ Leave
  BY <1>1, <1>8 DEF Finalize, Leave, Write, WriteFails, store, memory
<1>9. QED
  BY <1>1, <1>2, <1>3, <1>4, <1>5, <1>6, <1>7, <1>8, AskGrows, RewindShortens DEF Next, Window, Turn, Chat

-----------------------------------------------------------------------------
\* Types.
THEOREM ChatsTyped == Spec => []TypeOK
<1>1. ChatsInv => TypeOK
  <2> SUFFICES ASSUME ChatsInv PROVE TypeOK
    OBVIOUS
  <2>1. \A t \in Turns : turns[t] \in TurnRecords
    BY DEF ChatsInv, Typed
  <2>2. \A w \in Pages : page[w] \in PageRecords
    BY DEF ChatsInv, Typed
  <2>3. QED
    BY <2>1, <2>2 DEF ChatsInv, Typed, TypeOK, SomeChats, TurnRecords, PageRecords
<1>2. QED
  BY ChatsAlways, <1>1, PTL

\* An answer whose turn nothing passed over is written, whatever else is
\* asked, deleted, undone, forgotten, left or killed meanwhile.
THEOREM AnswersAreKept == Spec => []AnswersKept
<1>1. ChatsInv => AnswersKept
  BY DEF ChatsInv
<1>2. QED
  BY ChatsAlways, <1>1, PTL

\* A chat deleted for good is not seen again.
THEOREM TheDeadStayDead == Spec => []DeadStaysDead
<1>1. ChatsInv => DeadStaysDead
  BY DEF ChatsInv
<1>2. QED
  BY ChatsAlways, <1>1, PTL

\* A chat that was saved is there, or can be undone, or was deleted for good.
THEOREM NoChatVanishes == Spec => []NothingVanishes
<1>1. ChatsInv => NothingVanishes
  BY DEF ChatsInv
<1>2. QED
  BY ChatsAlways, <1>1, PTL

\* No question, late answer, delete or undo takes a message out of a chat.
THEOREM ChatsOnlyGrow == Spec => OnlyGrows
<1>1. ChatsInv /\ [Next]_vars =>
        [\A id \in Ids : IsChat(Now(id)) /\ IsChat(Now(id)') =>
           \/ IsPrefix(Now(id), Now(id)')
           \/ \E w \in Pages :
                /\ page[w].id = id /\ page'[w].msgs = Now(id)'
                /\ Len(page'[w].msgs) < Len(page[w].msgs)]_vars
  BY NextGrows DEF Grows, Shortens
<1>2. QED
  BY ChatsAlways, <1>1, PTL DEF Spec, OnlyGrows
=============================================================================
