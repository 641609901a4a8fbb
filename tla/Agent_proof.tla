---------------------------- MODULE Agent_proof ----------------------------
(* Theorems about the agent, for every set of paths and every bound.       *)
EXTENDS Agent, SequenceTheorems, TLAPS

IsCall(m) == m.type = "call"

(* Neither answered nor withdrawn. *)
Open(r) == answers[r] = 0 /\ r \notin withdrawn

(* The requests that may still be answered are exactly tracked: queued ones *)
(* and the pending one are open and all different, future ones are open.    *)
RequestsDistinct ==
    /\ \A i \in DOMAIN inbox :
         IsCall(inbox[i]) => inbox[i].id <= made /\ Open(inbox[i].id)
    /\ \A i, j \in DOMAIN inbox :
         IsCall(inbox[i]) /\ IsCall(inbox[j]) /\ i # j
            => inbox[i].id # inbox[j].id
    /\ pending # NoReply =>
         /\ pending.id <= made
         /\ Open(pending.id)
         /\ \A i \in DOMAIN inbox : IsCall(inbox[i]) => inbox[i].id # pending.id
    /\ \A r \in Ids : r > made => Open(r)
    /\ AnsweredAtMostOnce

(* The call the daemon waits for is the last message it sent, so nothing    *)
(* behind it in the inbox can withdraw or overwrite it.                     *)
WaitingIsLast ==
    /\ waiting # 0 => alive /\ waiting <= made
    /\ waiting # 0 /\ inbox # <<>> =>
         IsCall(inbox[Len(inbox)]) /\ inbox[Len(inbox)].id = waiting

IInv == TypeOK /\ RequestsDistinct /\ WaitingIsLast /\ NoRequestDropped

(* Taking the first message of an inbox or outbox leaves a typed queue. *)
LEMMA QueueTail ==
    ASSUME NEW S, NEW q \in Seq(S), q # <<>>
    PROVE  /\ Head(q) \in S
           /\ Tail(q) \in Seq(S)
           /\ Len(Tail(q)) = Len(q) - 1
           /\ \A i \in DOMAIN Tail(q) : i + 1 \in DOMAIN q /\ Tail(q)[i] = q[i + 1]
  BY HeadTailProperties

(* A member of a queue that is not the first one is in its tail.            *)
LEMMA HeadOrTail ==
    ASSUME NEW S, NEW q \in Seq(S), q # <<>>, NEW i \in DOMAIN q,
           q[i] # Head(q)
    PROVE  \E j \in DOMAIN Tail(q) : Tail(q)[j] = q[i]
<1>1. i \in 1 .. Len(q) /\ i # 1
  BY LenProperties, HeadTailProperties
<1>2. i - 1 \in 1 .. Len(Tail(q)) /\ Tail(q)[i - 1] = q[i - 1 + 1]
  BY <1>1, HeadTailProperties
<1>3. i - 1 \in DOMAIN Tail(q)
  BY <1>2, HeadTailProperties, LenProperties
<1> QED  BY <1>1, <1>2, <1>3

(* Adding one or two messages at the end of a queue. *)
LEMMA QueueAppend ==
    ASSUME NEW S, NEW q \in Seq(S), NEW e \in S
    PROVE  /\ Append(q, e) \in Seq(S)
           /\ Len(Append(q, e)) = Len(q) + 1
           /\ Append(q, e) # <<>>
           /\ Append(q, e)[Len(q) + 1] = e
           /\ \A i \in DOMAIN q :
                i \in DOMAIN Append(q, e) /\ Append(q, e)[i] = q[i]
           /\ \A i \in DOMAIN Append(q, e) : i \in DOMAIN q \/ i = Len(q) + 1
  BY AppendProperties

(* Two messages at once are two appended ones.                              *)
LEMMA QueueAppendTwo ==
    ASSUME NEW S, NEW q \in Seq(S), NEW a \in S, NEW b \in S
    PROVE  /\ q \o <<a, b>> = Append(Append(q, a), b)
           /\ q \o <<a, b>> \in Seq(S)
  OBVIOUS

(* A queue from which one member is taken stays typed.                      *)
LEMMA RemoveAtTyped ==
    ASSUME NEW S, NEW q \in Seq(S), NEW i \in DOMAIN q
    PROVE  RemoveAt(q, i) \in Seq(S)
<1>1. i \in 1 .. Len(q)
  BY LenProperties
<1>2. SubSeq(q, 1, i-1) \in Seq(S)
  BY <1>1, SubSeqProperties
<1>3. SubSeq(q, i+1, Len(q)) \in Seq(S)
  <2>1. CASE i = Len(q)
    BY <2>1, <1>1
  <2>2. CASE i # Len(q)
    BY <2>2, <1>1, SubSeqProperties
  <2> QED  BY <2>1, <2>2
<1> QED  BY <1>2, <1>3, ConcatProperties DEF RemoveAt

(* Hiding a dialog keeps the stack of dialogs typed.                        *)
LEMMA HideTyped ==
    ASSUME NEW d \in Dialogs, dialogs \in Seq(Dialogs), Hide(d)
    PROVE  dialogs' \in Seq(Dialogs)
  BY RemoveAtTyped DEF Hide

(* Showing a dialog keeps the stack of dialogs typed.                       *)
LEMMA ShowTyped ==
    ASSUME NEW d \in Dialogs, dialogs \in Seq(Dialogs), Show(d)
    PROVE  dialogs' \in Seq(Dialogs)
  BY DEF Show

(* A popup keeps the stack and the flags of the tray icon typed.            *)
LEMMA PopupTyped ==
    ASSUME NEW d \in Dialogs, dialogs \in Seq(Dialogs), Popup(d)
    PROVE  /\ dialogs' \in Seq(Dialogs)
           /\ leftMenu' \in BOOLEAN /\ rightMenu' \in BOOLEAN
<1>1. dialogs' \in Seq(Dialogs)
  BY ShowTyped DEF Popup
<1> QED  BY <1>1 DEF Popup, cui_tray_disable

(* A message to the daemon keeps the outbox typed.                          *)
LEMMA SentTyped ==
    ASSUME TypeOK, NEW m \in ToDaemon
    PROVE  Sent(m) \in Seq(ToDaemon)
  BY DEF Sent, TypeOK

(* Which messages are of which type.                                        *)
LEMMA MessageTypes ==
    /\ Note("RegisterAgent") \in ToDaemon
    /\ Note("UnregisterAgent") \in ToDaemon
    /\ \A r \in Ids : Reply(r) \in ToDaemon
    /\ \A t \in {"Cancel", "Release", "up", "down"} : Note(t) \in Notice
    /\ \A m \in Call \cup Notice : m.type = "call" => m \in Call
    /\ NoReply \notin Call
  BY DEF Note, Reply, ToDaemon, Notice, Call, NoReply

(* Taking the first message leaves a typed inbox.                           *)
LEMMA TypeReceive ==
    ASSUME TypeOK, NEW t, Receive(t)
    PROVE  /\ inbox' \in Seq(Call \cup Notice)
           /\ Head(inbox) \in Call \cup Notice
           /\ t = "call" => Head(inbox) \in Call
  BY QueueTail, MessageTypes DEF TypeOK, Receive

(* Answering the pending call keeps its variables typed.                    *)
LEMMA TypeReply ==
    ASSUME TypeOK, send_agent_reply
    PROVE  /\ pending' \in Call \cup {NoReply}
           /\ outbox' \in Seq(ToDaemon)
           /\ answers' \in [Ids -> Nat]
<1>1. CASE ~agentIf \/ pending = NoReply
  BY <1>1 DEF send_agent_reply, TypeOK
<1>2. CASE ~(~agentIf \/ pending = NoReply)
  <2>1. pending.id \in Ids
    BY <1>2 DEF TypeOK, Call
  <2>2. Reply(pending.id) \in ToDaemon
    BY <2>1, MessageTypes
  <2>4. outbox' \in Seq(ToDaemon)
    <3>1. Sent(Reply(pending.id)) \in Seq(ToDaemon)
      BY <2>2, SentTyped
    <3> QED  BY <1>2, <3>1 DEF send_agent_reply
  <2>3. answers' \in [Ids -> Nat]
    <3>1. answers' = [answers EXCEPT ![pending.id] = @ + 1]
      BY <1>2 DEF send_agent_reply
    <3>2. answers \in [Ids -> Nat]
      BY DEF TypeOK
    <3> QED  BY <2>1, <3>1, <3>2
  <2> QED  BY <1>2, <2>4, <2>3 DEF send_agent_reply
<1> QED  BY <1>1, <1>2

(* So does answering the call just received.                                *)
LEMMA TypeAtOnce ==
    ASSUME TypeOK, NEW r \in Ids, ReplyAtOnce(r)
    PROVE  outbox' \in Seq(ToDaemon) /\ answers' \in [Ids -> Nat]
  BY MessageTypes, SentTyped DEF ReplyAtOnce, TypeOK

(* So does dropping the pending call.                                       *)
LEMMA TypeDrop ==
    ASSUME TypeOK, DropPending
    PROVE  pending' \in Call \cup {NoReply} /\ withdrawn' \subseteq Ids
  BY DEF DropPending, TypeOK, Call
-----------------------------------------------------------------------------
(* The initial state is typed.                                              *)
LEMMA TypeInit == Init => TypeOK
<1> SUFFICES ASSUME Init PROVE TypeOK
  OBVIOUS
<1>1. /\ inbox \in Seq(Call \cup Notice) /\ outbox \in Seq(ToDaemon)
      /\ dialogs \in Seq(Dialogs)
  BY EmptySeq DEF Init
<1>2. answers \in [Ids -> Nat]
  BY DEF Init
<1>3. waiting \in 0 .. MaxReq /\ made \in 0 .. MaxReq /\ starts \in 0 .. MaxStart
  BY ConstAssumption DEF Init
<1> QED  BY <1>1, <1>2, <1>3 DEF Init, TypeOK

(* Handling a message keeps the types.                                      *)
LEMMA TypeDispatch ==
    ASSUME TypeOK, Dispatch
    PROVE  TypeOK'
<1> USE DEF daemonVars, agentVars, trayVars, uiVars, history
<1>1. CASE agent_report_error_method
  <2>1. inbox' \in Seq(Call \cup Notice) /\ Head(inbox) \in Call
    BY <1>1, TypeReceive DEF agent_report_error_method
  <2>2. /\ dialogs' \in Seq(Dialogs)
        /\ leftMenu' \in BOOLEAN /\ rightMenu' \in BOOLEAN
    BY <1>1, PopupTyped DEF agent_report_error_method, TypeOK, Dialogs
  <2> QED
    BY <1>1, <2>1, <2>2 DEF agent_report_error_method, TypeOK
<1>2. CASE agent_request_browser_method
  <2>1. inbox' \in Seq(Call \cup Notice) /\ Head(inbox) \in Call
    BY <1>2, TypeReceive DEF agent_request_browser_method
  <2> QED
    BY <1>2, <2>1 DEF agent_request_browser_method, TypeOK
<1>3. CASE agent_request_input_method
  <2>1. inbox' \in Seq(Call \cup Notice) /\ Head(inbox) \in Call
    BY <1>3, TypeReceive DEF agent_request_input_method
  <2>2. Head(inbox).id \in Ids
    BY <2>1 DEF Call
  <2>3. CASE agent_input_cb(Head(inbox))
    <3>1. CASE /\ pending' = Head(inbox)
               /\ \E d \in {"login", "input"} : Popup(d)
               /\ UNCHANGED <<outbox, answers>>
      <4>1. /\ dialogs' \in Seq(Dialogs)
            /\ leftMenu' \in BOOLEAN /\ rightMenu' \in BOOLEAN
        BY <3>1, PopupTyped DEF TypeOK, Dialogs
      <4> QED
        BY <1>3, <2>1, <3>1, <4>1 DEF agent_request_input_method, TypeOK
    <3>2. CASE /\ ReplyAtOnce(Head(inbox).id)
               /\ pending' = NoReply
               /\ UNCHANGED <<dialogs, trayVars>>
      <4>1. outbox' \in Seq(ToDaemon) /\ answers' \in [Ids -> Nat]
        BY <2>2, <3>2, TypeAtOnce
      <4> QED
        BY <1>3, <2>1, <3>2, <4>1 DEF agent_request_input_method, TypeOK
    <3> QED  BY <2>3, <3>1, <3>2 DEF agent_input_cb
  <2>4. CASE /\ ReplyAtOnce(Head(inbox).id)
             /\ UNCHANGED <<pending, dialogs, trayVars>>
    <3>1. outbox' \in Seq(ToDaemon) /\ answers' \in [Ids -> Nat]
      BY <2>2, <2>4, TypeAtOnce
    <3> QED
      BY <1>3, <2>1, <2>4, <3>1 DEF agent_request_input_method, TypeOK
  <2> QED  BY <1>3, <2>3, <2>4 DEF agent_request_input_method
<1>4. CASE agent_cancel_method
  <2>1. inbox' \in Seq(Call \cup Notice)
    BY <1>4, TypeReceive DEF agent_cancel_method
  <2>2. dialogs' \in Seq(Dialogs)
    BY <1>4, HideTyped DEF agent_cancel_method, TypeOK, Dialogs
  <2>3. pending' \in Call \cup {NoReply} /\ withdrawn' \subseteq Ids
    BY <1>4, TypeDrop DEF agent_cancel_method, TypeOK
  <2>4. leftMenu' \in BOOLEAN /\ rightMenu' \in BOOLEAN
    BY <1>4 DEF agent_cancel_method, TypeOK, cui_tray_enable
  <2> QED
    BY <1>4, <2>1, <2>2, <2>3, <2>4 DEF agent_cancel_method, TypeOK
<1>5. CASE agent_release_method
  BY <1>5, TypeReceive, TypeDrop DEF agent_release_method, TypeOK
<1>6. CASE connman_up
  <2>1. outbox' \in Seq(ToDaemon) /\ agentIf' \in BOOLEAN
    BY <1>6, MessageTypes, SentTyped DEF connman_up, connman_agent_init, TypeOK
  <2> QED
    BY <1>6, <2>1, TypeReceive DEF connman_up, TypeOK, cui_tray_enable
<1>7. CASE connman_down
  <2>1. /\ outbox' \in Seq(ToDaemon) /\ agentIf' \in BOOLEAN
        /\ pending' \in Call \cup {NoReply} /\ withdrawn' \subseteq Ids
    BY <1>7, MessageTypes, SentTyped, TypeDrop
    DEF connman_down, connman_agent_finalize, TypeOK
  <2> QED
    BY <1>7, <2>1, TypeReceive DEF connman_down, TypeOK
<1> QED
  BY <1>1, <1>2, <1>3, <1>4, <1>5, <1>6, <1>7 DEF Dispatch

(* What the user does keeps the types.                                      *)
LEMMA TypeUser ==
    ASSUME TypeOK, User
    PROVE  TypeOK'
<1> USE DEF daemonVars, agentVars, trayVars, uiVars, history
<1>1. CASE \E p \in Paths : SelectService(p)
  BY <1>1 DEF SelectService, TypeOK
<1>2. CASE cui_settings_popup
  <2>1. /\ dialogs' \in Seq(Dialogs)
        /\ leftMenu' \in BOOLEAN /\ rightMenu' \in BOOLEAN
    BY <1>2, PopupTyped DEF cui_settings_popup, TypeOK, Dialogs
  <2> QED  BY <1>2, <2>1 DEF cui_settings_popup, TypeOK
<1>3. CASE agent_popup_tethering_dbox
  <2>1. /\ dialogs' \in Seq(Dialogs)
        /\ leftMenu' \in BOOLEAN /\ rightMenu' \in BOOLEAN
    BY <1>3, PopupTyped DEF agent_popup_tethering_dbox, TypeOK, Dialogs
  <2> QED
    BY <1>3, <2>1 DEF agent_popup_tethering_dbox, TypeOK
<1>4. ASSUME NEW d \in Dialogs, CloseDialog(d)
      PROVE  TypeOK'
  <2>1. dialogs' \in Seq(Dialogs)
    BY <1>4, HideTyped DEF CloseDialog, TypeOK
  <2> QED  BY <1>4, <2>1 DEF CloseDialog, TypeOK, cui_tray_enable
<1>5. ASSUME NEW d \in Dialogs, AnswerDialog(d)
      PROVE  TypeOK'
  <2>1. dialogs' \in Seq(Dialogs)
    BY <1>5, HideTyped DEF AnswerDialog, TypeOK
  <2> QED
    BY <1>5, <2>1, TypeReply DEF AnswerDialog, TypeOK, cui_tray_enable
<1>6. ASSUME NEW d \in Dialogs, agent_cancel(d)
      PROVE  TypeOK'
  <2>1. dialogs' \in Seq(Dialogs)
    BY <1>6, HideTyped DEF agent_cancel, TypeOK
  <2> QED
    BY <1>6, <2>1, TypeReply DEF agent_cancel, TypeOK, cui_tray_enable
<1>7. ASSUME NEW filled \in BOOLEAN, agent_ok_login(filled)
      PROVE  TypeOK'
  <2>1. dialogs' \in Seq(Dialogs)
    BY <1>7, HideTyped DEF agent_ok_login, TypeOK, Dialogs
  <2>2. pending' \in Call \cup {NoReply} /\ spoilt' \subseteq Ids
    BY <1>7 DEF agent_ok_login, connman_agent_reply_login, TypeOK, Call
  <2> QED  BY <1>7, <2>1, <2>2 DEF agent_ok_login, TypeOK, cui_tray_enable
<1> QED
  BY <1>1, <1>2, <1>3, <1>4, <1>5, <1>6, <1>7 DEF User

(* What the daemon does keeps the types.                                    *)
LEMMA TypeDaemon ==
    ASSUME TypeOK, Daemon
    PROVE  TypeOK'
<1> USE ConstAssumption DEF daemonVars, agentVars, trayVars, uiVars, history
<1>0. /\ Note("Cancel") \in Call \cup Notice
      /\ Note("Release") \in Call \cup Notice
      /\ Note("up") \in Call \cup Notice
      /\ Note("down") \in Call \cup Notice
  BY MessageTypes
<1>1. CASE DaemonStart
  <2>1. inbox' \in Seq(Call \cup Notice)
    <3>1. inbox \in Seq(Call \cup Notice)
      BY DEF TypeOK
    <3>2. /\ Append(inbox, Note("up")) \in Seq(Call \cup Notice)
          /\ inbox \o <<Note("up"), Note("up")>> \in Seq(Call \cup Notice)
      BY <1>0, <3>1, QueueAppend, QueueAppendTwo
    <3> QED  BY <1>1, <3>2 DEF DaemonStart
  <2>2. starts' \in 0 .. MaxStart
    <3>1. starts \in 0 .. MaxStart
      BY DEF TypeOK
    <3> QED  BY <1>1, <3>1 DEF DaemonStart
  <2> QED  BY <1>1, <2>1, <2>2 DEF DaemonStart, TypeOK
<1>2. CASE DaemonCrash
  <2>1. inbox' \in Seq(Call \cup Notice)
    BY <1>0, <1>2, QueueAppend DEF DaemonCrash, TypeOK
  <2>2. outbox' \in Seq(ToDaemon) /\ waiting' \in 0 .. MaxReq
    BY <1>2, EmptySeq DEF DaemonCrash, DaemonGone
  <2> QED  BY <1>2, <2>1, <2>2 DEF DaemonCrash, DaemonGone, TypeOK
<1>3. CASE DaemonStop
  <2>1. inbox' \in Seq(Call \cup Notice)
    BY <1>0, <1>3, QueueAppendTwo DEF DaemonStop, TypeOK
  <2>2. outbox' \in Seq(ToDaemon) /\ waiting' \in 0 .. MaxReq
    BY <1>3, EmptySeq DEF DaemonStop, DaemonGone
  <2> QED  BY <1>3, <2>1, <2>2 DEF DaemonStop, DaemonGone, TypeOK
<1>4. ASSUME NEW k \in Kinds, NEW p \in Paths, DaemonCall(k, p)
      PROVE  TypeOK'
  <2>1. made + 1 \in Ids
    BY <1>4 DEF DaemonCall, TypeOK, Ids
  <2>2. inbox' \in Seq(Call \cup Notice)
    BY <1>4, <2>1 DEF DaemonCall, TypeOK, Call
  <2> QED  BY <1>4, <2>1, <2>2 DEF DaemonCall, TypeOK, Ids
<1>5. CASE DaemonCancel
  BY <1>5, MessageTypes DEF DaemonCancel, TypeOK
<1>6. CASE DaemonReceive
  <2>1. Tail(outbox) \in Seq(ToDaemon)
    BY <1>6, QueueTail DEF DaemonReceive, TypeOK
  <2>2. waiting' \in 0 .. MaxReq
    <3>1. waiting' = waiting \/ waiting' = 0
      BY <1>6 DEF DaemonReceive
    <3> QED  BY <3>1 DEF TypeOK
  <2>3. registered' \in BOOLEAN
    BY <1>6 DEF DaemonReceive, TypeOK
  <2> QED  BY <1>6, <2>1, <2>2, <2>3 DEF DaemonReceive, TypeOK
<1>7. CASE ProgramEnds
  <2>1. /\ inbox' \in Seq(Call \cup Notice) /\ outbox' \in Seq(ToDaemon)
        /\ waiting' \in 0 .. MaxReq
    BY <1>7, EmptySeq DEF ProgramEnds
  <2> QED  BY <1>7, <2>1 DEF ProgramEnds, TypeOK
<1> QED
  BY <1>1, <1>2, <1>3, <1>4, <1>5, <1>6, <1>7 DEF Daemon

(* Type correctness of the agent.                                          *)
THEOREM TypeCorrect == Spec => []TypeOK
<1>1. TypeOK /\ UNCHANGED vars => TypeOK'
  BY DEF TypeOK, vars, daemonVars, agentVars, trayVars, uiVars, history
<1>2. TypeOK /\ [Next]_vars => TypeOK'
  BY <1>1, TypeDispatch, TypeUser, TypeDaemon DEF Next
<1> QED
  BY <1>2, TypeInit, PTL DEF Spec

-----------------------------------------------------------------------------
(* The steps of the agent change its requests in five ways: a queued call   *)
(* becomes the pending one, is answered at once or is joined by another;    *)
(* the pending one is answered or withdrawn.                                *)

(* The members of the inbox, by position.                                   *)
LEMMA InboxFacts ==
    ASSUME TypeOK
    PROVE  /\ inbox \in Seq(Call \cup Notice)
           /\ answers \in [Ids -> Nat]
           /\ made \in Nat /\ Ids \subseteq Nat
           /\ \A i \in DOMAIN inbox :
                IsCall(inbox[i]) => inbox[i] \in Call /\ inbox[i].id \in Ids
           /\ pending # NoReply => pending.id \in Ids
<1>1. inbox \in Seq(Call \cup Notice) /\ answers \in [Ids -> Nat]
  BY DEF TypeOK
<1>2. made \in Nat /\ Ids \subseteq Nat
  BY DEF TypeOK, Ids
<1>3. \A i \in DOMAIN inbox : inbox[i] \in Call \cup Notice
  BY <1>1, ElementOfSeq, LenProperties
<1>4. \A m \in Call \cup Notice : IsCall(m) => m \in Call /\ m.id \in Ids
  BY DEF Call, Notice, IsCall
<1>5. pending # NoReply => pending.id \in Ids
  BY DEF TypeOK, Call
<1> QED  BY <1>1, <1>2, <1>3, <1>4, <1>5

(* The first message and the rest, by position.                             *)
LEMMA HeadFacts ==
    ASSUME TypeOK, inbox # <<>>
    PROVE  /\ 1 \in DOMAIN inbox /\ Head(inbox) = inbox[1]
           /\ \A i \in DOMAIN Tail(inbox) :
                i + 1 \in DOMAIN inbox /\ i + 1 # 1 /\ i \in Nat
                  /\ Tail(inbox)[i] = inbox[i + 1]
<1>1. inbox \in Seq(Call \cup Notice)
  BY DEF TypeOK
<1> QED  BY <1>1, QueueTail

(* Nothing happens to the requests but that the inbox loses its head. *)
LEMMA DistinctTail ==
    ASSUME TypeOK, RequestsDistinct, inbox # <<>>, inbox' = Tail(inbox),
           UNCHANGED <<pending, made, answers, withdrawn>>
    PROVE  RequestsDistinct'
  BY HeadFacts DEF RequestsDistinct, Open, AnsweredAtMostOnce

(* A call becomes the pending one, and the others stay different from it.   *)
LEMMA DistinctDispatched ==
    ASSUME TypeOK, RequestsDistinct, inbox # <<>>, inbox' = Tail(inbox),
           IsCall(Head(inbox)), pending' = Head(inbox),
           UNCHANGED <<made, answers, withdrawn>>
    PROVE  RequestsDistinct'
  BY HeadFacts DEF RequestsDistinct, Open, AnsweredAtMostOnce

(* Answering a call as it is received leaves the others open.               *)
LEMMA DistinctAtOnce ==
    ASSUME TypeOK, RequestsDistinct, inbox # <<>>, inbox' = Tail(inbox),
           IsCall(Head(inbox)), pending' \in {pending, NoReply},
           answers' = [answers EXCEPT ![Head(inbox).id] = @ + 1],
           UNCHANGED <<made, withdrawn>>
    PROVE  RequestsDistinct'
<1> DEFINE r == Head(inbox).id
<1>1. r \in Ids /\ answers[r] = 0 /\ r <= made
  BY HeadFacts, InboxFacts DEF RequestsDistinct, Open
<1>2. answers'[r] = 1 /\ \A x \in Ids \ {r} : answers'[x] = answers[x]
  BY <1>1, InboxFacts
<1>3. \A i \in DOMAIN Tail(inbox) :
        IsCall(Tail(inbox)[i]) => Tail(inbox)[i].id # r /\ Tail(inbox)[i].id \in Ids
  BY HeadFacts, InboxFacts DEF RequestsDistinct
<1>4. pending # NoReply => pending.id # r /\ pending.id \in Ids
  BY HeadFacts, InboxFacts DEF RequestsDistinct
<1>5. /\ \A i \in DOMAIN Tail(inbox) : IsCall(Tail(inbox)[i]) =>
            Tail(inbox)[i].id <= made /\ Open(Tail(inbox)[i].id)
      /\ \A i, j \in DOMAIN Tail(inbox) :
            IsCall(Tail(inbox)[i]) /\ IsCall(Tail(inbox)[j]) /\ i # j
               => Tail(inbox)[i].id # Tail(inbox)[j].id
      /\ pending # NoReply => \A i \in DOMAIN Tail(inbox) :
            IsCall(Tail(inbox)[i]) => Tail(inbox)[i].id # pending.id
  BY HeadFacts DEF RequestsDistinct
<1>6. \A x \in Ids : x > made => x # r
  BY <1>1, InboxFacts
<1> QED
  BY <1>1, <1>2, <1>3, <1>4, <1>5, <1>6
  DEF RequestsDistinct, Open, AnsweredAtMostOnce

(* Withdrawing the pending call leaves the queued ones open.                *)
LEMMA DistinctWithdrawn ==
    ASSUME TypeOK, RequestsDistinct, inbox # <<>>, inbox' = Tail(inbox),
           DropPending, UNCHANGED <<made, answers>>
    PROVE  RequestsDistinct'
<1>1. CASE pending = NoReply
  BY <1>1, DistinctTail DEF DropPending
<1>2. CASE pending # NoReply
  <2>1. \A i \in DOMAIN Tail(inbox) : IsCall(Tail(inbox)[i]) =>
          /\ Tail(inbox)[i].id # pending.id
          /\ Tail(inbox)[i].id <= made
          /\ Open(Tail(inbox)[i].id)
    BY <1>2, HeadFacts DEF RequestsDistinct
  <2>2. \A x \in Ids : x > made => x # pending.id
    BY <1>2, InboxFacts DEF RequestsDistinct
  <2>3. \A i, j \in DOMAIN Tail(inbox) :
            IsCall(Tail(inbox)[i]) /\ IsCall(Tail(inbox)[j]) /\ i # j
               => Tail(inbox)[i].id # Tail(inbox)[j].id
    BY HeadFacts DEF RequestsDistinct
  <2> QED
    BY <1>2, <2>1, <2>2, <2>3
    DEF RequestsDistinct, Open, AnsweredAtMostOnce, DropPending
<1> QED  BY <1>1, <1>2

(* Answering the pending call leaves the queued ones open.                  *)
LEMMA DistinctReply ==
    ASSUME TypeOK, RequestsDistinct, send_agent_reply,
           UNCHANGED <<inbox, made, withdrawn>>
    PROVE  RequestsDistinct'
<1>1. CASE ~agentIf \/ pending = NoReply
  BY <1>1 DEF send_agent_reply, RequestsDistinct, Open, AnsweredAtMostOnce
<1>2. CASE ~(~agentIf \/ pending = NoReply)
  <2> DEFINE r == pending.id
  <2>1. r \in Ids /\ answers[r] = 0 /\ r <= made
    BY <1>2, InboxFacts DEF RequestsDistinct, Open
  <2>2. answers' = [answers EXCEPT ![r] = @ + 1] /\ pending' = NoReply
    BY <1>2 DEF send_agent_reply
  <2>3. answers'[r] = 1 /\ \A x \in Ids \ {r} : answers'[x] = answers[x]
    BY <2>1, <2>2, InboxFacts
  <2>4. \A i \in DOMAIN inbox :
          IsCall(inbox[i]) => inbox[i].id # r /\ inbox[i].id \in Ids
    BY <1>2, InboxFacts DEF RequestsDistinct
  <2>5. \A x \in Ids : x > made => x # r
    BY <2>1, InboxFacts
  <2> QED
    BY <2>1, <2>2, <2>3, <2>4, <2>5
    DEF RequestsDistinct, Open, AnsweredAtMostOnce
<1> QED  BY <1>1, <1>2

(* A notification in the inbox is no request.                               *)
LEMMA DistinctNotice ==
    ASSUME TypeOK, RequestsDistinct, NEW m \in Notice,
           inbox' = Append(inbox, m),
           UNCHANGED <<pending, made, answers, withdrawn>>
    PROVE  RequestsDistinct'
<1>1. ~IsCall(m)
  BY DEF IsCall, Notice
<1>2. \A i \in DOMAIN inbox' :
        IsCall(inbox'[i]) => i \in DOMAIN inbox /\ inbox'[i] = inbox[i]
  BY <1>1, QueueAppend DEF TypeOK
<1> QED  BY <1>2 DEF RequestsDistinct, Open, AnsweredAtMostOnce

(* A new call has a number of its own.                                      *)
LEMMA DistinctCall ==
    ASSUME TypeOK, RequestsDistinct, NEW m \in Call, m.id = made + 1,
           made' = made + 1, inbox' = Append(inbox, m),
           UNCHANGED <<pending, answers, withdrawn>>
    PROVE  RequestsDistinct'
<1>1. \A i \in DOMAIN inbox' :
        \/ i \in DOMAIN inbox /\ inbox'[i] = inbox[i]
        \/ i = Len(inbox) + 1 /\ inbox'[i] = m
  BY QueueAppend DEF TypeOK
<1>2. m.id \in Ids /\ Open(m.id)
  BY InboxFacts DEF RequestsDistinct, Call
<1>3. \A i \in DOMAIN inbox : IsCall(inbox[i]) =>
        inbox[i].id <= made /\ inbox[i].id \in Ids
  BY InboxFacts DEF RequestsDistinct
<1>4. pending # NoReply => pending.id <= made /\ pending.id \in Ids
  BY InboxFacts DEF RequestsDistinct
<1>5. \A x \in Ids : (x > made + 1 => x > made) /\ (x <= made => x <= made + 1 /\ x # made + 1)
  BY InboxFacts
<1> QED
  BY <1>1, <1>2, <1>3, <1>4, <1>5, InboxFacts
  DEF RequestsDistinct, Open, AnsweredAtMostOnce

-----------------------------------------------------------------------------
(* What the daemon waits for. *)

WaitedIn(q) == \E i \in DOMAIN q : q[i].type = "call" /\ q[i].id = waiting

(* Taking the head either leaves the call the daemon waits for in the       *)
(* inbox, or takes that very call.                                          *)
LEMMA WaitingTail ==
    ASSUME TypeOK, WaitingIsLast, inbox # <<>>, inbox' = Tail(inbox),
           UNCHANGED daemonVars
    PROVE  /\ WaitingIsLast'
           /\ waiting # 0 =>
                \/ WaitedIn(inbox')
                \/ Head(inbox).type = "call" /\ Head(inbox).id = waiting
<1>1. inbox \in Seq(Call \cup Notice)
  BY DEF TypeOK
<1>2. Len(inbox) \in Nat /\ Len(inbox) >= 1 /\ Len(Tail(inbox)) = Len(inbox) - 1
  BY <1>1, QueueTail, LenProperties, EmptySeq
<1>3. CASE Len(inbox) = 1
  <2>1. Tail(inbox) = <<>> /\ Head(inbox) = inbox[Len(inbox)]
    BY <1>1, <1>2, <1>3, QueueTail, EmptySeq
  <2> QED  BY <2>1 DEF WaitingIsLast, IsCall, daemonVars
<1>4. CASE Len(inbox) # 1
  <2>1. /\ Tail(inbox) # <<>>
        /\ Len(Tail(inbox)) \in DOMAIN Tail(inbox)
        /\ Tail(inbox)[Len(Tail(inbox))] = inbox[Len(inbox)]
    <3>1. Tail(inbox) \in Seq(Call \cup Notice) /\ Len(Tail(inbox)) \in Nat \ {0}
      <4>1. Tail(inbox) \in Seq(Call \cup Notice)
        BY <1>1, QueueTail
      <4>2. Len(Tail(inbox)) \in Nat \ {0}
        BY <1>2, <1>4
      <4> QED  BY <4>1, <4>2
    <3>2. DOMAIN Tail(inbox) = 1 .. Len(Tail(inbox))
      BY <3>1, LenProperties
    <3>3. Len(Tail(inbox)) \in DOMAIN Tail(inbox)
      <4>1. \A n \in Nat \ {0} : n \in 1 .. n
        OBVIOUS
      <4>2. Len(Tail(inbox)) \in 1 .. Len(Tail(inbox))
        BY <3>1, <4>1
      <4> QED  BY <3>2, <4>2, Zenon
    <3>4. Tail(inbox)[Len(Tail(inbox))] = inbox[Len(Tail(inbox)) + 1]
      BY <1>1, <3>3, QueueTail
    <3>5. Len(Tail(inbox)) + 1 = Len(inbox)
      BY <1>2
    <3> QED  BY <3>1, <3>3, <3>4, <3>5, EmptySeq
  <2> QED  BY <2>1 DEF WaitingIsLast, IsCall, daemonVars, WaitedIn
<1> QED  BY <1>3, <1>4

(* A reply sent is in the outbox for the daemon to find.                    *)
LEMMA SentArrives ==
    ASSUME TypeOK, NEW m \in ToDaemon, outbox' = Sent(m)
    PROVE  /\ \A i \in DOMAIN outbox : i \in DOMAIN outbox' /\ outbox'[i] = outbox[i]
           /\ alive => \E i \in DOMAIN outbox' : outbox'[i] = m
<1>1. outbox \in Seq(ToDaemon)
  BY DEF TypeOK
<1>2. CASE alive
  <2>1. outbox' = Append(outbox, m)
    BY <1>2 DEF Sent
  <2>2. Len(outbox) + 1 \in DOMAIN outbox'
    BY <1>1, <2>1, AppendProperties
  <2> QED  BY <1>1, <2>1, <2>2, QueueAppend
<1>3. CASE ~alive
  BY <1>3 DEF Sent
<1> QED  BY <1>2, <1>3

(* Replying to the pending request keeps the promise to the daemon. *)
LEMMA WaitingReply ==
    ASSUME TypeOK, WaitingIsLast, NoRequestDropped, send_agent_reply,
           UNCHANGED <<daemonVars, inbox, spoilt>>
    PROVE  WaitingIsLast' /\ NoRequestDropped'
<1>1. WaitingIsLast'
  BY DEF WaitingIsLast, daemonVars, IsCall
<1>2. CASE ~agentIf \/ pending = NoReply
  BY <1>1, <1>2 DEF send_agent_reply, NoRequestDropped, Underway, daemonVars
<1>3. CASE ~(~agentIf \/ pending = NoReply)
  <2>1. Reply(pending.id) \in ToDaemon
    BY <1>3, InboxFacts, MessageTypes
  <2>2. outbox' = Sent(Reply(pending.id))
    BY <1>3 DEF send_agent_reply
  <2>3. waiting # 0 => alive
    BY DEF WaitingIsLast
  <2> QED
    BY <1>1, <2>1, <2>2, <2>3, SentArrives DEF NoRequestDropped, Underway, daemonVars
<1> QED  BY <1>1, <1>2, <1>3

(* The head was a call, now pending. *)
LEMMA WaitingDispatched ==
    ASSUME TypeOK, WaitingIsLast, NoRequestDropped, inbox # <<>>,
           inbox' = Tail(inbox), UNCHANGED <<daemonVars, outbox, spoilt>>,
           pending' = Head(inbox), Head(inbox) # NoReply
    PROVE  WaitingIsLast' /\ NoRequestDropped'
  BY WaitingTail DEF NoRequestDropped, Underway, WaitedIn, daemonVars

(* The head was a call, answered at once. *)
LEMMA WaitingAtOnce ==
    ASSUME TypeOK, WaitingIsLast, NoRequestDropped, inbox # <<>>,
           inbox' = Tail(inbox), Head(inbox) \in Call,
           ReplyAtOnce(Head(inbox).id), UNCHANGED <<daemonVars, spoilt>>
    PROVE  WaitingIsLast' /\ NoRequestDropped'
<1>1. /\ Reply(Head(inbox).id) \in ToDaemon
      /\ outbox' = Sent(Reply(Head(inbox).id))
  BY MessageTypes DEF Call, ReplyAtOnce
<1>2. waiting # 0 => alive
  BY DEF WaitingIsLast
<1> QED
  BY <1>1, <1>2, SentArrives, WaitingTail
  DEF NoRequestDropped, Underway, WaitedIn, daemonVars

(* The login dialog drops the pending request, and that is recorded.        *)
LEMMA WaitingSpoilt ==
    ASSUME TypeOK, RequestsDistinct, WaitingIsLast, NoRequestDropped,
           pending # NoReply, pending' = NoReply,
           spoilt' = spoilt \cup {pending.id},
           UNCHANGED <<daemonVars, inbox, outbox, answers, withdrawn>>
    PROVE  RequestsDistinct' /\ WaitingIsLast' /\ NoRequestDropped'
<1>1. RequestsDistinct'
  BY DEF RequestsDistinct, Open, AnsweredAtMostOnce, daemonVars
<1>2. WaitingIsLast'
  BY DEF WaitingIsLast, IsCall, daemonVars
<1>3. NoRequestDropped'
  BY DEF NoRequestDropped, Underway, daemonVars
<1> QED  BY <1>1, <1>2, <1>3

(* The head was no call: a call the daemon waits for stays in the inbox.    *)
LEMMA WaitingNotice ==
    ASSUME TypeOK, WaitingIsLast, NoRequestDropped, inbox # <<>>,
           inbox' = Tail(inbox), Head(inbox).type # "call",
           UNCHANGED <<daemonVars, spoilt>>
    PROVE  WaitingIsLast' /\ NoRequestDropped'
  BY WaitingTail DEF NoRequestDropped, Underway, WaitedIn, daemonVars
-----------------------------------------------------------------------------
(* The invariant holds at the start.                                        *)
LEMMA InvInit == Init => IInv
<1> SUFFICES ASSUME Init PROVE IInv
  OBVIOUS
<1>1. DOMAIN inbox = {}
  BY DEF Init
<1>2. RequestsDistinct
  BY <1>1 DEF Init, RequestsDistinct, Open, AnsweredAtMostOnce
<1>3. WaitingIsLast /\ NoRequestDropped
  BY DEF Init, WaitingIsLast, NoRequestDropped, Underway
<1> QED  BY <1>2, <1>3, TypeInit DEF IInv

(* Handling a message keeps the invariant.                                  *)
LEMMA InvDispatch ==
    ASSUME IInv, Dispatch
    PROVE  IInv'
<1>0. TypeOK /\ RequestsDistinct /\ WaitingIsLast /\ NoRequestDropped
  BY DEF IInv
<1>t. TypeOK'
  BY <1>0, TypeDispatch
<1> USE DEF daemonVars, uiVars, agentVars, history
<1>1. CASE agent_report_error_method
  <2>1. /\ inbox # <<>> /\ inbox' = Tail(inbox) /\ IsCall(Head(inbox))
        /\ pending' = Head(inbox) /\ Head(inbox) # NoReply
        /\ UNCHANGED <<daemonVars, outbox, history>>
    BY <1>1 DEF agent_report_error_method, Receive, IsCall, NoReply
  <2> QED  BY <1>0, <1>t, <2>1, DistinctDispatched, WaitingDispatched DEF IInv
<1>2. CASE agent_request_browser_method
  <2>1. /\ inbox # <<>> /\ inbox' = Tail(inbox) /\ IsCall(Head(inbox))
        /\ pending' = Head(inbox) /\ Head(inbox) # NoReply
        /\ UNCHANGED <<daemonVars, outbox, history>>
    BY <1>2 DEF agent_request_browser_method, Receive, IsCall, NoReply
  <2> QED  BY <1>0, <1>t, <2>1, DistinctDispatched, WaitingDispatched DEF IInv
<1>3. CASE agent_request_input_method
  <2>1. /\ inbox # <<>> /\ inbox' = Tail(inbox) /\ IsCall(Head(inbox))
        /\ Head(inbox) # NoReply /\ UNCHANGED <<daemonVars, withdrawn, spoilt>>
    BY <1>3 DEF agent_request_input_method, Receive, IsCall, NoReply
  <2>2. \/ pending' = Head(inbox) /\ UNCHANGED <<outbox, answers>>
        \/ ReplyAtOnce(Head(inbox).id) /\ pending' \in {pending, NoReply}
    BY <1>3 DEF agent_request_input_method, agent_input_cb
  <2>3. CASE pending' = Head(inbox) /\ UNCHANGED <<outbox, answers>>
    BY <1>0, <1>t, <2>1, <2>3, DistinctDispatched, WaitingDispatched DEF IInv
  <2>4. CASE ReplyAtOnce(Head(inbox).id) /\ pending' \in {pending, NoReply}
    <3>1. Head(inbox) \in Call
      BY <1>0, <1>3, TypeReceive DEF agent_request_input_method
    <3> QED
      BY <1>0, <1>t, <2>1, <2>4, <3>1, DistinctAtOnce, WaitingAtOnce
      DEF IInv, ReplyAtOnce
  <2> QED  BY <2>2, <2>3, <2>4
<1>4. CASE agent_cancel_method
  <2>1. /\ inbox # <<>> /\ inbox' = Tail(inbox) /\ Head(inbox).type # "call"
        /\ UNCHANGED <<daemonVars, answers, spoilt>>
        /\ DropPending \/ UNCHANGED <<pending, withdrawn>>
    BY <1>4 DEF agent_cancel_method, Receive
  <2> QED
    BY <1>0, <1>t, <2>1, DistinctWithdrawn, DistinctTail, WaitingNotice DEF IInv
<1>5. CASE agent_release_method
  <2>1. /\ inbox # <<>> /\ inbox' = Tail(inbox) /\ Head(inbox).type # "call"
        /\ UNCHANGED <<daemonVars, answers, spoilt>> /\ DropPending
    BY <1>5 DEF agent_release_method, Receive
  <2> QED  BY <1>0, <1>t, <2>1, DistinctWithdrawn, WaitingNotice DEF IInv
<1>6. CASE connman_up
  <2>1. /\ inbox # <<>> /\ inbox' = Tail(inbox) /\ Head(inbox).type # "call"
        /\ UNCHANGED <<daemonVars, history, pending>>
    BY <1>6 DEF connman_up, Receive
  <2> QED  BY <1>0, <1>t, <2>1, DistinctTail, WaitingNotice DEF IInv
<1>7. CASE connman_down
  <2>1. /\ inbox # <<>> /\ inbox' = Tail(inbox) /\ Head(inbox).type # "call"
        /\ UNCHANGED <<daemonVars, answers, spoilt>>
        /\ DropPending \/ UNCHANGED <<pending, withdrawn>>
    BY <1>7 DEF connman_down, connman_agent_finalize, Receive
  <2> QED
    BY <1>0, <1>t, <2>1, DistinctWithdrawn, DistinctTail, WaitingNotice DEF IInv
<1> QED
  BY <1>1, <1>2, <1>3, <1>4, <1>5, <1>6, <1>7 DEF Dispatch

(* A step that touches neither the requests nor the channels. *)
LEMMA InvStutter ==
    ASSUME IInv, TypeOK',
           UNCHANGED <<daemonVars, inbox, outbox, pending, history>>
    PROVE  IInv'
  BY DEF IInv, RequestsDistinct, WaitingIsLast, NoRequestDropped, Underway,
         Open, AnsweredAtMostOnce, daemonVars, history

(* What the user does keeps the invariant.                                  *)
LEMMA InvUser ==
    ASSUME IInv, User
    PROVE  IInv'
<1>0. TypeOK /\ RequestsDistinct /\ WaitingIsLast /\ NoRequestDropped
  BY DEF IInv
<1>t. TypeOK'
  BY <1>0, TypeUser
<1>1. CASE \E p \in Paths : SelectService(p)
  BY <1>1, <1>t, InvStutter DEF SelectService, agentVars
<1>2. CASE cui_settings_popup
  BY <1>2, <1>t, InvStutter DEF cui_settings_popup, agentVars
<1>3. CASE agent_popup_tethering_dbox
  BY <1>3, <1>t, InvStutter DEF agent_popup_tethering_dbox, agentVars
<1>4. CASE \E d \in Dialogs : CloseDialog(d)
  BY <1>4, <1>t, InvStutter DEF CloseDialog, agentVars
<1>5. CASE \E d \in Dialogs : AnswerDialog(d) \/ agent_cancel(d)
  <2>1. send_agent_reply /\ UNCHANGED <<daemonVars, inbox, withdrawn, spoilt>>
    BY <1>5 DEF AnswerDialog, agent_cancel
  <2> QED
    BY <1>0, <1>t, <2>1, DistinctReply, WaitingReply DEF IInv, daemonVars
<1>6. ASSUME NEW filled \in BOOLEAN, agent_ok_login(filled)
      PROVE  IInv'
  <2>1. /\ UNCHANGED <<daemonVars, inbox, outbox, answers, withdrawn>>
        /\ \/ UNCHANGED <<pending, spoilt>>
           \/ /\ pending # NoReply /\ pending' = NoReply
              /\ spoilt' = spoilt \cup {pending.id}
    BY <1>6 DEF agent_ok_login, connman_agent_reply_login
  <2>2. CASE UNCHANGED <<pending, spoilt>>
    BY <1>t, <2>1, <2>2, InvStutter DEF history
  <2>3. CASE /\ pending # NoReply /\ pending' = NoReply
             /\ spoilt' = spoilt \cup {pending.id}
    BY <1>0, <1>t, <2>1, <2>3, WaitingSpoilt DEF IInv
  <2> QED  BY <2>1, <2>2, <2>3
<1> QED
  BY <1>1, <1>2, <1>3, <1>4, <1>5, <1>6 DEF User

(* What the daemon does, its end included, keeps the invariant.             *)
LEMMA InvDaemon ==
    ASSUME IInv, Daemon
    PROVE  IInv'
<1>0. TypeOK /\ RequestsDistinct /\ WaitingIsLast /\ NoRequestDropped
  BY DEF IInv
<1>t. TypeOK'
  BY <1>0, TypeDaemon
<1>n. /\ Note("Cancel") \in Notice /\ Note("Release") \in Notice
      /\ Note("up") \in Notice /\ Note("down") \in Notice
  BY MessageTypes
<1>q. inbox \in Seq(Call \cup Notice) /\ outbox \in Seq(ToDaemon)
  BY <1>0 DEF TypeOK
<1>two. ASSUME NEW a \in Notice, NEW b \in Notice, inbox' = inbox \o <<a, b>>,
               UNCHANGED <<pending, made, history>>
        PROVE  RequestsDistinct'
  <2>1. inbox' = Append(Append(inbox, a), b)
    BY <1>two, <1>q, QueueAppendTwo
  <2>2. ~IsCall(a) /\ ~IsCall(b)
    BY DEF IsCall, Notice
  <2>3. Append(inbox, a) \in Seq(Call \cup Notice)
    BY <1>q, QueueAppend
  <2>4. \A i \in DOMAIN inbox' :
          IsCall(inbox'[i]) => i \in DOMAIN inbox /\ inbox'[i] = inbox[i]
    <3>1. \A i \in DOMAIN inbox' : IsCall(inbox'[i]) =>
            i \in DOMAIN Append(inbox, a) /\ inbox'[i] = Append(inbox, a)[i]
      BY <2>1, <2>2, <2>3, QueueAppend
    <3>2. \A i \in DOMAIN Append(inbox, a) : IsCall(Append(inbox, a)[i]) =>
            i \in DOMAIN inbox /\ Append(inbox, a)[i] = inbox[i]
      BY <1>q, <2>2, QueueAppend
    <3> QED  BY <3>1, <3>2
  <2>5. RequestsDistinct BY <1>0
  <2>6. UNCHANGED <<pending, made, answers, withdrawn>> BY <1>two DEF history
  <2>7. /\ \A i \in DOMAIN inbox' :
             IsCall(inbox'[i]) => inbox'[i].id <= made /\ Open(inbox'[i].id)
        /\ \A i, j \in DOMAIN inbox' :
             IsCall(inbox'[i]) /\ IsCall(inbox'[j]) /\ i # j
               => inbox'[i].id # inbox'[j].id
    BY <2>4, <2>5 DEF RequestsDistinct
  <2>8. pending # NoReply =>
          /\ pending.id <= made /\ Open(pending.id)
          /\ \A i \in DOMAIN inbox' : IsCall(inbox'[i]) => inbox'[i].id # pending.id
    BY <2>4, <2>5 DEF RequestsDistinct
  <2> QED
    BY <2>5, <2>6, <2>7, <2>8
    DEF RequestsDistinct, Open, AnsweredAtMostOnce
<1>1. CASE DaemonStart
  <2>1. UNCHANGED <<pending, made, history, waiting, registered>> /\ alive'
    BY <1>1 DEF DaemonStart, uiVars, agentVars
  <2>2. RequestsDistinct'
    BY <1>0, <1>1, <1>n, <1>two, <2>1, DistinctNotice DEF DaemonStart, history
  <2>3. waiting = 0
    BY <1>0, <1>1 DEF WaitingIsLast, DaemonStart
  <2>4. WaitingIsLast' /\ NoRequestDropped'
    BY <2>1, <2>3 DEF WaitingIsLast, NoRequestDropped, Underway
  <2> QED  BY <1>t, <2>2, <2>4 DEF IInv
<1>2. ASSUME DaemonGone
      PROVE  UNCHANGED <<pending, made, history>> /\ WaitingIsLast' /\ NoRequestDropped'
  BY <1>2 DEF DaemonGone, WaitingIsLast, NoRequestDropped, Underway, uiVars,
     agentVars
<1>3. CASE DaemonCrash
  <2>1. RequestsDistinct'
    BY <1>0, <1>2, <1>3, <1>n, DistinctNotice DEF DaemonCrash, history
  <2> QED  BY <1>2, <1>3, <1>t, <2>1 DEF DaemonCrash, IInv
<1>4. CASE DaemonStop
  <2>1. RequestsDistinct'
    BY <1>2, <1>4, <1>n, <1>two DEF DaemonStop
  <2> QED  BY <1>2, <1>4, <1>t, <2>1 DEF DaemonStop, IInv
<1>5. ASSUME NEW k \in Kinds, NEW p \in Paths, DaemonCall(k, p)
      PROVE  IInv'
  <2> DEFINE m == [type |-> "call", id |-> made + 1, kind |-> k, path |-> p]
  <2>1. /\ inbox' = Append(inbox, m) /\ made' = made + 1 /\ waiting' = made + 1
        /\ UNCHANGED <<pending, history, alive>> /\ alive
    BY <1>5 DEF DaemonCall, uiVars, agentVars
  <2>2. made + 1 \in Ids
    BY <1>0, <1>5, ConstAssumption DEF DaemonCall, TypeOK, Ids
  <2>3. m \in Call /\ m.id = made + 1 /\ m.type = "call"
    BY <2>2 DEF Call
  <2>4. RequestsDistinct'
    BY <1>0, <2>1, <2>3, DistinctCall DEF history
  <2>5. /\ inbox' # <<>> /\ Len(inbox') = Len(inbox) + 1
        /\ Len(inbox') \in DOMAIN inbox'
        /\ inbox'[Len(inbox')] = m
    BY <1>q, <2>1, <2>3, QueueAppend, AppendProperties, LenProperties
  <2>6. WaitingIsLast'
    BY <1>0, <2>1, <2>3, <2>5, InboxFacts DEF WaitingIsLast, IsCall
  <2>7. NoRequestDropped'
    BY <2>1, <2>3, <2>5 DEF NoRequestDropped, Underway
  <2> QED  BY <1>t, <2>4, <2>6, <2>7 DEF IInv
<1>6. CASE DaemonCancel
  <2>1. /\ inbox' = Append(inbox, Note("Cancel")) /\ waiting' = 0
        /\ UNCHANGED <<pending, made, history, alive, registered>>
    BY <1>6 DEF DaemonCancel, uiVars, agentVars
  <2>2. RequestsDistinct'
    BY <1>0, <1>n, <2>1, DistinctNotice DEF history
  <2>3. WaitingIsLast' /\ NoRequestDropped'
    BY <1>0, <2>1 DEF WaitingIsLast, NoRequestDropped, Underway
  <2> QED  BY <1>t, <2>2, <2>3 DEF IInv
<1>7. CASE DaemonReceive
  <2>1. /\ outbox # <<>> /\ outbox' = Tail(outbox)
        /\ UNCHANGED <<alive, made, inbox, pending, history>>
    BY <1>7 DEF DaemonReceive, uiVars, agentVars
  <2>2. RequestsDistinct'
    BY <1>0, <2>1 DEF RequestsDistinct, Open, AnsweredAtMostOnce, history
  <2>3. \/ waiting' = 0
        \/ waiting' = waiting /\ Head(outbox) # Reply(waiting)
    BY <1>7 DEF DaemonReceive, Reply
  <2>4. WaitingIsLast'
    BY <1>0, <2>1, <2>3 DEF WaitingIsLast, IsCall
  <2>5. \A i \in DOMAIN outbox : outbox[i] # Head(outbox) =>
          \E j \in DOMAIN outbox' : outbox'[j] = outbox[i]
    BY <1>q, <2>1, HeadOrTail
  <2>6. NoRequestDropped'
    BY <1>0, <2>1, <2>3, <2>5 DEF NoRequestDropped, Underway, history
  <2> QED  BY <1>t, <2>2, <2>4, <2>6 DEF IInv
<1>8. CASE ProgramEnds
  <2>1. /\ inbox' = <<>> /\ waiting' = 0
        /\ UNCHANGED <<made, pending, answers, withdrawn>>
    BY <1>8 DEF ProgramEnds, uiVars, agentVars, history
  <2>2. DOMAIN inbox' = {}
    BY <2>1
  <2>3. RequestsDistinct'
    BY <1>0, <2>1, <2>2 DEF RequestsDistinct, Open, AnsweredAtMostOnce
  <2>4. WaitingIsLast' /\ NoRequestDropped'
    BY <2>1 DEF WaitingIsLast, NoRequestDropped
  <2> QED  BY <1>t, <2>3, <2>4 DEF IInv
<1> QED
  BY <1>1, <1>3, <1>4, <1>5, <1>6, <1>7, <1>8 DEF Daemon

(* Every step keeps the invariant.                                          *)
LEMMA InvNext == IInv /\ [Next]_vars => IInv'
<1>1. IInv /\ UNCHANGED vars => IInv'
  <2> SUFFICES ASSUME IInv, UNCHANGED vars PROVE IInv'
    OBVIOUS
  <2>1. TypeOK'
    BY DEF IInv, TypeOK, vars, daemonVars, uiVars, agentVars, trayVars, history
  <2> QED  BY <2>1, InvStutter DEF vars, uiVars, agentVars
<1> QED
  BY <1>1, InvDispatch, InvUser, InvDaemon DEF Next

(* The invariant holds in every behaviour of the agent.                     *)
THEOREM Invariance == Spec => []IInv
  BY InvInit, InvNext, PTL DEF Spec

(* No request is ever answered twice, and the daemon never waits for a      *)
(* request the user interface has dropped, but for what the login dialog    *)
(* answered: its reply is no valid message and is not counted as one.       *)
THEOREM RequestsAnswered == Spec => []RequestsKept
<1>1. IInv => RequestsKept
  BY DEF IInv, RequestsDistinct, RequestsKept
<1> QED
  BY <1>1, Invariance, PTL

(* A withdrawn request is never answered afterwards: replies only go to the *)
(* pending call or to the call just received, and neither is withdrawn.     *)
THEOREM WithdrawnNotAnswered == Spec => NoAnswerAfterWithdrawal
<1> DEFINE Kept == \A r \in withdrawn : answers'[r] = answers[r]
<1>1. IInv /\ [Next]_vars => [Kept]_vars
  <2> SUFFICES ASSUME IInv, Next PROVE Kept
    BY DEF vars
  <2>0. TypeOK /\ RequestsDistinct
    BY DEF IInv
  <2>1. ASSUME NEW r \in Ids, Open(r),
               answers' = [answers EXCEPT ![r] = @ + 1]
        PROVE  Kept
    BY <2>0, <2>1 DEF Open, TypeOK
  <2>2. \/ UNCHANGED answers
        \/ send_agent_reply
        \/ Receive("call") /\ ReplyAtOnce(Head(inbox).id)
    BY DEF Next, Dispatch, User, Daemon, history, uiVars,
           agent_report_error_method, agent_request_browser_method,
           agent_request_input_method, agent_input_cb, agent_cancel_method,
           agent_release_method, connman_up, connman_down, SelectService,
           cui_settings_popup, agent_popup_tethering_dbox, CloseDialog,
           AnswerDialog, agent_ok_login, agent_cancel, DaemonStart,
           DaemonCrash, DaemonStop, DaemonGone, DaemonCall, DaemonCancel,
           DaemonReceive, ProgramEnds
  <2>3. CASE UNCHANGED answers
    BY <2>3
  <2>4. CASE send_agent_reply
    <3>1. UNCHANGED answers \/
          (pending # NoReply /\ answers' = [answers EXCEPT ![pending.id] = @ + 1])
      BY <2>4 DEF send_agent_reply
    <3> QED  BY <2>0, <2>1, <3>1, InboxFacts DEF RequestsDistinct
  <2>5. CASE Receive("call") /\ ReplyAtOnce(Head(inbox).id)
    <3>1. /\ inbox # <<>> /\ IsCall(Head(inbox))
          /\ answers' = [answers EXCEPT ![Head(inbox).id] = @ + 1]
      BY <2>5 DEF Receive, ReplyAtOnce, IsCall
    <3>2. Head(inbox).id \in Ids /\ Open(Head(inbox).id)
      BY <2>0, <3>1, HeadFacts, InboxFacts DEF RequestsDistinct
    <3> QED  BY <2>1, <3>1, <3>2
  <2> QED  BY <2>2, <2>3, <2>4, <2>5
<1> QED
  BY <1>1, Invariance, PTL DEF Spec, NoAnswerAfterWithdrawal
-----------------------------------------------------------------------------
(* What the agent object, the dialogs and the tray icon owe each other.     *)

(* The agent object is on the bus once the first n messages of the queue q  *)
(* are handled, when a says whether it is now.                              *)
OnAfter(a, q, n) ==
    \E j \in 0 .. n :
        /\ IF j = 0 THEN a ELSE q[j].type = "up"
        /\ \A k \in (j + 1) .. n : q[k].type \notin {"Release", "down"}

(* The agent object is there for every call on its way, and will be there   *)
(* for the next one as long as the daemon and the program live.             *)
CallsExpected ==
    /\ \A i \in DOMAIN inbox : IsCall(inbox[i]) => OnAfter(agentIf, inbox, i)
    /\ alive /\ running => OnAfter(agentIf, inbox, Len(inbox))

(* The program that has ended is sent nothing and has nothing under way.    *)
Ended ==
    ~running => ~registered /\ waiting = 0 /\ inbox = <<>> /\ outbox = <<>>

(* A reply function never finds a request without its agent object.         *)
PendingHasAgent == pending # NoReply => agentIf

DialogInv ==
    CallsExpected /\ Ended /\ PendingHasAgent /\ DialogForRequest /\ TrayUsable

(* Handling the first message leaves the others what they found before.     *)
LEMMA OnTail ==
    ASSUME NEW S, NEW q \in Seq(S), q # <<>>, NEW n \in 1 .. Len(q),
           NEW a, NEW b, OnAfter(a, q, n),
           q[1].type = "up" => b,
           a /\ q[1].type \notin {"Release", "down"} => b
    PROVE  OnAfter(b, Tail(q), n - 1)
<1>1. Len(q) \in Nat
  BY LenProperties
<1>2. \A k \in 1 .. (n - 1) : Tail(q)[k] = q[k + 1]
  BY <1>1, HeadTailProperties
<1>3. PICK j \in 0 .. n :
        /\ IF j = 0 THEN a ELSE q[j].type = "up"
        /\ \A k \in (j + 1) .. n : q[k].type \notin {"Release", "down"}
  BY DEF OnAfter
<1>4. \A k \in j .. (n - 1) :
         k >= 1 => Tail(q)[k].type \notin {"Release", "down"}
  BY <1>1, <1>2, <1>3
<1>5. CASE j = 0 \/ j = 1
  <2>1. b
    <3>1. CASE j = 0
      <4>1. 1 \in (j + 1) .. n
        BY <1>1, <3>1
      <4> QED  BY <1>3, <3>1, <4>1
    <3> QED  BY <1>3, <1>5, <3>1
  <2>2. \A k \in (0 + 1) .. (n - 1) : Tail(q)[k].type \notin {"Release", "down"}
    BY <1>1, <1>4, <1>5
  <2>3. 0 \in 0 .. (n - 1)
    BY <1>1
  <2> QED  BY <2>1, <2>2, <2>3 DEF OnAfter
<1>6. CASE ~(j = 0 \/ j = 1)
  <2>1. j - 1 \in 0 .. (n - 1) /\ j - 1 # 0 /\ j - 1 \in 1 .. (n - 1)
    BY <1>1, <1>6
  <2>2. Tail(q)[j - 1].type = "up"
    BY <1>1, <1>2, <1>3, <1>6, <2>1
  <2>3. \A k \in (j - 1 + 1) .. (n - 1) :
           Tail(q)[k].type \notin {"Release", "down"}
    BY <1>1, <1>4, <1>6
  <2> QED  BY <2>1, <2>2, <2>3 DEF OnAfter
<1> QED  BY <1>5, <1>6

(* What follows in the queue does not matter to those before.               *)
LEMMA OnPrefix ==
    ASSUME NEW q, NEW r, NEW n \in Nat, NEW a, OnAfter(a, q, n),
           \A i \in 1 .. n : r[i] = q[i]
    PROVE  OnAfter(a, r, n)
  BY DEF OnAfter

(* One more message that is no end of the daemon leaves the object there.   *)
LEMMA OnMore ==
    ASSUME NEW q, NEW r, NEW n \in Nat, NEW a, OnAfter(a, q, n),
           \A i \in 1 .. n : r[i] = q[i],
           r[n + 1].type \notin {"Release", "down"}
    PROVE  OnAfter(a, r, n + 1)
<1>1. PICK j \in 0 .. n :
        /\ IF j = 0 THEN a ELSE q[j].type = "up"
        /\ \A k \in (j + 1) .. n : q[k].type \notin {"Release", "down"}
  BY DEF OnAfter
<1>2. /\ IF j = 0 THEN a ELSE r[j].type = "up"
      /\ \A k \in (j + 1) .. (n + 1) : r[k].type \notin {"Release", "down"}
  BY <1>1
<1>3. j \in 0 .. (n + 1)
  OBVIOUS
<1> QED  BY <1>2, <1>3 DEF OnAfter

(* A start of the daemon brings it there.                                   *)
LEMMA OnUp ==
    ASSUME NEW r, NEW n \in Nat \ {0}, NEW a, r[n].type = "up"
    PROVE  OnAfter(a, r, n)
<1>1. n \in 0 .. n /\ \A k \in (n + 1) .. n : FALSE
  OBVIOUS
<1> QED  BY <1>1 DEF OnAfter

(* Handling a message keeps the object expected, when it appears with "up"  *)
(* and is taken away by the end of the daemon only.                         *)
LEMMA ExpectedReceive ==
    ASSUME TypeOK, CallsExpected, inbox # <<>>, inbox' = Tail(inbox),
           UNCHANGED daemonVars,
           Head(inbox).type = "up" => agentIf',
           agentIf /\ Head(inbox).type \notin {"Release", "down"} => agentIf'
    PROVE  CallsExpected'
<1>1. inbox \in Seq(Call \cup Notice) /\ inbox[1] = Head(inbox)
  BY HeadFacts DEF TypeOK
<1>2. Len(inbox) \in Nat /\ DOMAIN inbox = 1 .. Len(inbox)
  BY <1>1, LenProperties
<1>3. \A n \in 1 .. Len(inbox) : OnAfter(agentIf, inbox, n)
         => OnAfter(agentIf', inbox', n - 1)
  BY <1>1, OnTail
<1>4. Len(inbox') = Len(inbox) - 1 /\ Len(inbox) \in 1 .. Len(inbox)
  BY <1>1, <1>2, QueueTail, EmptySeq
<1>5. ASSUME NEW i \in DOMAIN inbox', IsCall(inbox'[i])
      PROVE  OnAfter(agentIf', inbox', i)
  <2>1. i + 1 \in 1 .. Len(inbox) /\ i \in Nat /\ inbox'[i] = inbox[i + 1]
    BY <1>2, HeadFacts
  <2>2. OnAfter(agentIf, inbox, i + 1)
    BY <1>2, <1>5, <2>1 DEF CallsExpected
  <2>3. i + 1 - 1 = i
    BY <2>1
  <2> QED  BY <1>3, <2>1, <2>2, <2>3
<1>6. alive' /\ running' => OnAfter(agentIf', inbox', Len(inbox'))
  BY <1>3, <1>4 DEF CallsExpected, daemonVars
<1> QED  BY <1>5, <1>6 DEF CallsExpected

(* Messages that join the inbox: those that are there find what they found. *)
LEMMA ExpectedMore ==
    ASSUME TypeOK, CallsExpected, inbox' \in Seq(Call \cup Notice),
           UNCHANGED agentIf,
           \A i \in 1 .. Len(inbox) : inbox'[i] = inbox[i],
           \A i \in DOMAIN inbox' :
              IsCall(inbox'[i]) => i \in DOMAIN inbox
                                   \/ OnAfter(agentIf, inbox', i),
           alive' /\ running' => OnAfter(agentIf, inbox', Len(inbox'))
    PROVE  CallsExpected'
<1>1. Len(inbox) \in Nat /\ DOMAIN inbox = 1 .. Len(inbox)
  BY LenProperties DEF TypeOK
<1>2. ASSUME NEW i \in DOMAIN inbox, IsCall(inbox'[i])
      PROVE  OnAfter(agentIf, inbox', i)
  <2>1. OnAfter(agentIf, inbox, i) /\ i \in Nat
    BY <1>1, <1>2 DEF CallsExpected
  <2>2. \A k \in 1 .. i : inbox'[k] = inbox[k]
    BY <1>1
  <2> QED  BY <2>1, <2>2, OnPrefix
<1> QED  BY <1>1, <1>2 DEF CallsExpected

(* Every step keeps the object expected.                                    *)
LEMMA ExpectedNext ==
    ASSUME IInv, TypeOK', CallsExpected, Ended, Next
    PROVE  CallsExpected'
<1>0. TypeOK /\ WaitingIsLast
  BY DEF IInv
<1>q. /\ inbox \in Seq(Call \cup Notice) /\ inbox' \in Seq(Call \cup Notice)
      /\ Len(inbox) \in Nat /\ DOMAIN inbox = 1 .. Len(inbox)
  BY <1>0, LenProperties DEF TypeOK
<1>n. /\ Note("Cancel") \in Call \cup Notice /\ Note("Release") \in Call \cup Notice
      /\ Note("up") \in Call \cup Notice /\ Note("down") \in Call \cup Notice
  BY MessageTypes
<1>1. CASE Dispatch
  <2>1. /\ inbox # <<>> /\ inbox' = Tail(inbox) /\ UNCHANGED daemonVars
        /\ \/ Head(inbox).type \in {"call", "Cancel"} /\ UNCHANGED agentIf
           \/ Head(inbox).type \in {"Release", "down"}
           \/ Head(inbox).type = "up" /\ agentIf'
    BY <1>0, <1>1
    DEF TypeOK, Dispatch, Receive, agent_report_error_method,
        agent_request_browser_method, agent_request_input_method,
        agent_cancel_method, agent_release_method, connman_up, connman_down,
        connman_agent_init
  <2> QED  BY <1>0, <2>1, ExpectedReceive
<1>2. CASE UNCHANGED <<inbox, agentIf, alive, running>>
  BY <1>2 DEF CallsExpected, OnAfter
<1>3. CASE User
  <2>1. UNCHANGED <<inbox, agentIf, alive, running>>
    BY <1>3 DEF User, SelectService, cui_settings_popup,
         agent_popup_tethering_dbox, CloseDialog, AnswerDialog, agent_cancel,
         agent_ok_login, daemonVars, agentVars
  <2> QED  BY <1>2, <2>1
<1>a. ASSUME NEW m \in Call \cup Notice, inbox' = Append(inbox, m)
      PROVE  /\ Len(inbox') = Len(inbox) + 1 /\ inbox'[Len(inbox) + 1] = m
             /\ \A i \in 1 .. Len(inbox) : inbox'[i] = inbox[i]
             /\ \A i \in DOMAIN inbox' : i \in DOMAIN inbox \/ i = Len(inbox) + 1
  BY <1>a, <1>q, QueueAppend
<1>b. ASSUME NEW a \in Call \cup Notice, NEW b \in Call \cup Notice,
             inbox' = inbox \o <<a, b>>
      PROVE  /\ Len(inbox') = Len(inbox) + 2
             /\ inbox'[Len(inbox) + 1] = a /\ inbox'[Len(inbox) + 2] = b
             /\ \A i \in 1 .. Len(inbox) : inbox'[i] = inbox[i]
             /\ \A i \in DOMAIN inbox' :
                  i \in DOMAIN inbox \/ i = Len(inbox) + 1 \/ i = Len(inbox) + 2
  <2>1. inbox' = Append(Append(inbox, a), b) /\ Append(inbox, a) \in Seq(Call \cup Notice)
    BY <1>b, <1>q, QueueAppend, QueueAppendTwo
  <2>2. /\ Len(Append(inbox, a)) = Len(inbox) + 1
        /\ Append(inbox, a)[Len(inbox) + 1] = a
        /\ \A i \in 1 .. Len(inbox) : Append(inbox, a)[i] = inbox[i]
        /\ \A i \in DOMAIN Append(inbox, a) : i \in DOMAIN inbox \/ i = Len(inbox) + 1
        /\ DOMAIN Append(inbox, a) = 1 .. (Len(inbox) + 1)
    BY <2>1, <1>q, QueueAppend, LenProperties
  <2>3. /\ Len(inbox') = Len(inbox) + 1 + 1
        /\ inbox'[Len(inbox) + 1 + 1] = b
        /\ \A i \in 1 .. (Len(inbox) + 1) : inbox'[i] = Append(inbox, a)[i]
        /\ \A i \in DOMAIN inbox' :
             i \in DOMAIN Append(inbox, a) \/ i = Len(inbox) + 1 + 1
    BY <2>1, <2>2, QueueAppend
  <2> QED  BY <1>q, <2>2, <2>3
<1>u. /\ ~IsCall(Note("Cancel")) /\ ~IsCall(Note("Release"))
      /\ ~IsCall(Note("up")) /\ ~IsCall(Note("down"))
      /\ Note("up").type = "up"
      /\ Note("Cancel").type \notin {"Release", "down"}
  BY DEF Note, IsCall
<1>4. CASE DaemonStart
  <2>1. UNCHANGED agentIf
    BY <1>4 DEF DaemonStart, uiVars, agentVars
  <2>2. \/ inbox' = Append(inbox, Note("up"))
        \/ inbox' = inbox \o <<Note("up"), Note("up")>>
    BY <1>4 DEF DaemonStart
  <2>3. /\ \A i \in 1 .. Len(inbox) : inbox'[i] = inbox[i]
        /\ \A i \in DOMAIN inbox' : IsCall(inbox'[i]) => i \in DOMAIN inbox
        /\ Len(inbox') \in Nat \ {0} /\ inbox'[Len(inbox')].type = "up"
    <3>1. CASE inbox' = Append(inbox, Note("up"))
      BY <3>1, <1>a, <1>n, <1>u, <1>q
    <3>2. CASE inbox' = inbox \o <<Note("up"), Note("up")>>
      BY <3>2, <1>b, <1>n, <1>u, <1>q
    <3> QED  BY <2>2, <3>1, <3>2
  <2>4. OnAfter(agentIf, inbox', Len(inbox'))
    BY <2>3, OnUp
  <2> QED  BY <1>0, <1>q, <2>1, <2>3, <2>4, ExpectedMore
<1>5. CASE DaemonCrash
  <2>1. UNCHANGED agentIf /\ ~alive' /\ inbox' = Append(inbox, Note("down"))
    BY <1>5 DEF DaemonCrash, DaemonGone, uiVars, agentVars
  <2>2. /\ \A i \in 1 .. Len(inbox) : inbox'[i] = inbox[i]
        /\ \A i \in DOMAIN inbox' : IsCall(inbox'[i]) => i \in DOMAIN inbox
    BY <1>a, <1>n, <1>u, <2>1
  <2> QED  BY <1>0, <1>q, <2>1, <2>2, ExpectedMore
<1>6. CASE DaemonStop
  <2>1. /\ UNCHANGED agentIf /\ ~alive'
        /\ inbox' = inbox \o <<Note("Release"), Note("down")>>
    BY <1>6 DEF DaemonStop, DaemonGone, uiVars, agentVars
  <2>2. /\ \A i \in 1 .. Len(inbox) : inbox'[i] = inbox[i]
        /\ \A i \in DOMAIN inbox' : IsCall(inbox'[i]) => i \in DOMAIN inbox
    BY <1>b, <1>n, <1>u, <2>1
  <2> QED  BY <1>0, <1>q, <2>1, <2>2, ExpectedMore
<1>m. ASSUME NEW m \in Call \cup Notice, inbox' = Append(inbox, m), alive,
             running, m.type \notin {"Release", "down"}, UNCHANGED agentIf
      PROVE  CallsExpected'
  <2>1. OnAfter(agentIf, inbox, Len(inbox))
    BY <1>m DEF CallsExpected
  <2>2. OnAfter(agentIf, inbox', Len(inbox) + 1)
    BY <1>a, <1>m, <1>q, <2>1, OnMore
  <2> QED  BY <1>0, <1>a, <1>m, <1>q, <2>2, ExpectedMore
<1>7. ASSUME NEW k \in Kinds, NEW p \in Paths, DaemonCall(k, p)
      PROVE  CallsExpected'
  <2>1. PICK m : m = [type |-> "call", id |-> made + 1, kind |-> k, path |-> p]
    OBVIOUS
  <2>2. made + 1 \in Ids
    BY <1>0, <1>7, ConstAssumption DEF DaemonCall, TypeOK, Ids
  <2>3. m \in Call /\ m.type = "call"
    BY <2>1, <2>2 DEF Call
  <2>4. inbox' = Append(inbox, m) /\ alive /\ running /\ UNCHANGED agentIf
    BY <1>7, <2>1 DEF DaemonCall, Ended, uiVars, agentVars
  <2> QED  BY <1>m, <2>3, <2>4
<1>8. CASE DaemonCancel
  <2>1. /\ inbox' = Append(inbox, Note("Cancel"))
        /\ alive /\ running /\ UNCHANGED agentIf
    BY <1>0, <1>8 DEF DaemonCancel, WaitingIsLast, Ended, uiVars, agentVars
  <2> QED  BY <1>m, <1>n, <1>u, <2>1
<1>9. CASE DaemonReceive
  <2>1. UNCHANGED <<inbox, agentIf, alive, running>>
    BY <1>9 DEF DaemonReceive, uiVars, agentVars
  <2> QED  BY <1>2, <2>1
<1>10. CASE ProgramEnds
  <2>1. DOMAIN inbox' = {} /\ ~running'
    BY <1>10 DEF ProgramEnds
  <2> QED  BY <2>1 DEF CallsExpected
<1> QED
  BY <1>1, <1>3, <1>4, <1>5, <1>6, <1>7, <1>8, <1>9, <1>10 DEF Next, Daemon

(* No handler, no click and no message from the daemon comes after the end. *)
LEMMA EndedNext ==
    ASSUME Ended, Next
    PROVE  Ended'
<1>1. CASE Dispatch
  <2>1. inbox # <<>> /\ UNCHANGED daemonVars
    BY <1>1
    DEF Dispatch, Receive, agent_report_error_method,
        agent_request_browser_method, agent_request_input_method,
        agent_cancel_method, agent_release_method, connman_up, connman_down
  <2> QED  BY <2>1 DEF Ended, daemonVars
<1>2. CASE User
  <2>1. running /\ UNCHANGED daemonVars
    BY <1>2 DEF User, SelectService, cui_settings_popup,
         agent_popup_tethering_dbox, CloseDialog, AnswerDialog, agent_cancel,
         agent_ok_login, OnTop, MenuOpen
  <2> QED  BY <2>1 DEF Ended, daemonVars
<1>3. CASE Daemon
  BY <1>3 DEF Ended, Daemon, DaemonStart, DaemonCrash, DaemonStop, DaemonGone,
       DaemonCall, DaemonCancel, DaemonReceive, ProgramEnds
<1> QED  BY <1>1, <1>2, <1>3 DEF Next

(* Only the end of the daemon takes the object off the bus, and it takes    *)
(* the pending request with it.                                             *)
LEMMA PendingNext ==
    ASSUME PendingHasAgent, Next
    PROVE  PendingHasAgent'
<1> USE DEF agentVars, uiVars
<1>1. CASE Dispatch
  BY <1>1
  DEF PendingHasAgent, Dispatch, agent_report_error_method,
      agent_request_browser_method, agent_request_input_method, agent_input_cb,
      agent_cancel_method, agent_release_method, connman_up, connman_down,
      connman_agent_init, connman_agent_finalize, DropPending
<1>2. CASE User
  <2>1. UNCHANGED agentIf /\ pending' \in {pending, NoReply}
    BY <1>2 DEF User, SelectService, cui_settings_popup,
         agent_popup_tethering_dbox, CloseDialog, AnswerDialog, agent_cancel,
         agent_ok_login, connman_agent_reply_login, send_agent_reply
  <2> QED  BY <2>1 DEF PendingHasAgent
<1>3. CASE Daemon
  <2>1. UNCHANGED <<agentIf, pending>>
    BY <1>3 DEF Daemon, DaemonStart, DaemonCrash, DaemonStop, DaemonGone,
         DaemonCall, DaemonCancel, DaemonReceive, ProgramEnds
  <2> QED  BY <2>1 DEF PendingHasAgent
<1> QED  BY <1>1, <1>2, <1>3 DEF Next

(* Taking one member out of a queue keeps the others.                       *)
LEMMA RemoveAtKeeps ==
    ASSUME NEW S, NEW q \in Seq(S), NEW i \in DOMAIN q
    PROVE  /\ ToSet(RemoveAt(q, i)) \subseteq ToSet(q)
           /\ \A e \in ToSet(q) : e # q[i] => e \in ToSet(RemoveAt(q, i))
<1>1. Len(q) \in Nat /\ DOMAIN q = 1 .. Len(q) /\ i \in 1 .. Len(q)
  BY LenProperties
<1>2. PICK r : r = RemoveAt(q, i)
  OBVIOUS
<1>3. /\ Len(r) = Len(q) - 1 /\ DOMAIN r = 1 .. (Len(q) - 1)
      /\ \A k \in 1 .. (Len(q) - 1) : r[k] = IF k < i THEN q[k] ELSE q[k + 1]
  <2>1. PICK a : a = SubSeq(q, 1, i - 1)
    OBVIOUS
  <2>2. PICK b : b = SubSeq(q, i + 1, Len(q))
    OBVIOUS
  <2>3. /\ a \in Seq(S) /\ Len(a) = i - 1
        /\ \A k \in 1 .. (i - 1) : a[k] = q[k]
    BY <1>1, <2>1, SubSeqProperties
  <2>4. /\ b \in Seq(S) /\ Len(b) = Len(q) - i
        /\ \A k \in 1 .. (Len(q) - i) : b[k] = q[i + k]
    <3>1. CASE i = Len(q)
      BY <1>1, <2>2, <3>1
    <3>2. CASE i # Len(q)
      BY <1>1, <2>2, <3>2, SubSeqProperties
    <3> QED  BY <3>1, <3>2
  <2>5. r = a \o b
    BY <1>2, <2>1, <2>2 DEF RemoveAt
  <2>6. /\ r \in Seq(S) /\ Len(r) = Len(a) + Len(b)
        /\ \A k \in 1 .. (Len(a) + Len(b)) :
             r[k] = IF k <= Len(a) THEN a[k] ELSE b[k - Len(a)]
    BY <2>3, <2>4, <2>5, ConcatProperties
  <2>7. Len(r) = Len(q) - 1 /\ DOMAIN r = 1 .. (Len(q) - 1)
    BY <1>1, <2>3, <2>4, <2>6, LenProperties
  <2>8. ASSUME NEW k \in 1 .. (Len(q) - 1)
        PROVE  r[k] = IF k < i THEN q[k] ELSE q[k + 1]
    <3>1. CASE k < i
      BY <1>1, <2>3, <2>4, <2>6, <3>1
    <3>2. CASE ~(k < i)
      <4>1. k - (i - 1) \in 1 .. (Len(q) - i) /\ i + (k - (i - 1)) = k + 1
        BY <1>1, <3>2
      <4>2. r[k] = b[k - Len(a)] /\ Len(a) = i - 1
        BY <1>1, <2>3, <2>4, <2>6, <3>2
      <4>3. b[k - (i - 1)] = q[i + (k - (i - 1))]
        BY <2>4, <4>1
      <4> QED  BY <3>2, <4>1, <4>2, <4>3
    <3> QED  BY <3>1, <3>2
  <2> QED  BY <2>7, <2>8
<1>4. ASSUME NEW e \in ToSet(r)
      PROVE  e \in ToSet(q)
  <2>1. PICK k \in 1 .. (Len(q) - 1) : e = r[k]
    BY <1>3, <1>4 DEF ToSet
  <2> QED  BY <1>1, <1>3, <2>1 DEF ToSet
<1>5. ASSUME NEW e \in ToSet(q), e # q[i]
      PROVE  e \in ToSet(r)
  <2>1. PICK k \in 1 .. Len(q) : e = q[k]
    BY <1>1 DEF ToSet
  <2>2. CASE k < i
    BY <1>1, <1>3, <2>1, <2>2 DEF ToSet
  <2>3. CASE ~(k < i)
    <3>1. k - 1 \in 1 .. (Len(q) - 1) /\ ~(k - 1 < i) /\ k - 1 + 1 = k
      BY <1>1, <1>5, <2>1, <2>3
    <3>2. r[k - 1] = e
      BY <1>3, <2>1, <3>1
    <3> QED  BY <1>3, <3>1, <3>2 DEF ToSet
  <2> QED  BY <2>2, <2>3
<1> QED  BY <1>2, <1>4, <1>5

(* Hiding a dialog concerns no other.                                       *)
LEMMA HideOthers ==
    ASSUME NEW d, dialogs \in Seq(Dialogs), Hide(d)
    PROVE  \A e : /\ Shown(e)' => Shown(e)
                  /\ e # d /\ Shown(e) => Shown(e)'
<1>1. CASE Shown(d)
  <2>1. PICK i \in DOMAIN dialogs :
          dialogs[i] = d /\ dialogs' = RemoveAt(dialogs, i)
    BY <1>1 DEF Hide
  <2> QED  BY <2>1, RemoveAtKeeps DEF Shown
<1>2. CASE ~Shown(d)
  BY <1>2 DEF Hide, Shown
<1> QED  BY <1>1, <1>2

(* Nor does showing one.                                                    *)
LEMMA ShowOthers ==
    ASSUME NEW d \in Dialogs, dialogs \in Seq(Dialogs), Show(d)
    PROVE  /\ Shown(d)' /\ dialogs' # <<>>
           /\ \A e : /\ e # d => (Shown(e)' => Shown(e))
                     /\ Shown(e) => Shown(e)'
<1>1. CASE Shown(d)
  BY <1>1 DEF Show, Shown, ToSet
<1>2. CASE ~Shown(d)
  <2>1. dialogs' = Append(dialogs, d)
    BY <1>2 DEF Show
  <2>2. /\ dialogs' # <<>> /\ Len(dialogs) \in Nat
        /\ DOMAIN dialogs' = 1 .. (Len(dialogs) + 1)
        /\ DOMAIN dialogs = 1 .. Len(dialogs)
        /\ dialogs'[Len(dialogs) + 1] = d
        /\ \A i \in 1 .. Len(dialogs) : dialogs'[i] = dialogs[i]
    BY <2>1, AppendProperties, LenProperties
  <2>3. \A e : e \in ToSet(dialogs') <=> (e = d \/ e \in ToSet(dialogs))
    BY <2>2 DEF ToSet
  <2> QED  BY <2>2, <2>3 DEF Shown
<1> QED  BY <1>1, <1>2

(* A call just held has its dialog; what follows leaves it to the user to   *)
(* answer it there, and a service is selected with no dialog shown only.    *)
LEMMA DialogDispatch ==
    ASSUME TypeOK, DialogForRequest, Dispatch
    PROVE  DialogForRequest'
<1>d. dialogs \in Seq(Dialogs) /\ {"input", "login", "error"} \subseteq Dialogs
  BY DEF TypeOK, Dialogs
<1>none. ASSUME pending' = NoReply PROVE DialogForRequest'
  BY <1>none DEF DialogForRequest, AnswerableRequest, InputForSelected
<1>same. ASSUME UNCHANGED <<pending, dialogs, selected>> PROVE DialogForRequest'
  BY <1>same
  DEF DialogForRequest, AnswerableRequest, InputForSelected, Shown
<1> USE DEF agentVars
<1>1. CASE agent_report_error_method
  <2>1. pending'.kind = "ReportError" /\ Shown("error")'
    BY <1>1, <1>d, ShowOthers DEF agent_report_error_method, Popup
  <2> QED  BY <2>1 DEF DialogForRequest, AnswerableRequest, InputForSelected
<1>2. CASE agent_request_browser_method
  <2>1. pending'.kind = "RequestBrowser"
    BY <1>2 DEF agent_request_browser_method
  <2> QED  BY <2>1 DEF DialogForRequest, AnswerableRequest, InputForSelected
<1>3. CASE agent_request_input_method
  <2>1. UNCHANGED selected
    BY <1>3 DEF agent_request_input_method
  <2>2. \/ pending' = NoReply
        \/ UNCHANGED <<pending, dialogs>>
        \/ /\ pending'.kind \in {"InputPassphrase", "InputLogin"}
           /\ pending'.path = selected
           /\ Popup(IF pending'.kind = "InputLogin" THEN "login" ELSE "input")
    BY <1>3 DEF agent_request_input_method, agent_input_cb, trayVars
  <2>3. CASE /\ pending'.kind \in {"InputPassphrase", "InputLogin"}
             /\ pending'.path = selected
             /\ Popup(IF pending'.kind = "InputLogin" THEN "login" ELSE "input")
    <3>1. pending'.kind = "InputPassphrase" => Shown("input")'
      BY <2>3, <1>d, ShowOthers DEF Popup
    <3> QED
      BY <2>1, <2>3, <3>1 DEF DialogForRequest, AnswerableRequest, InputForSelected
  <2> QED  BY <1>none, <1>same, <2>1, <2>2, <2>3
<1>4. CASE agent_cancel_method
  BY <1>4, <1>none, <1>same DEF agent_cancel_method, DropPending
<1>5. CASE agent_release_method
  BY <1>5, <1>none DEF agent_release_method, DropPending
<1>6. CASE connman_up
  BY <1>6, <1>same DEF connman_up
<1>7. CASE connman_down
  BY <1>7, <1>none, <1>same
  DEF connman_down, connman_agent_finalize, DropPending
<1> QED
  BY <1>1, <1>2, <1>3, <1>4, <1>5, <1>6, <1>7 DEF Dispatch

LEMMA DialogUser ==
    ASSUME TypeOK, PendingHasAgent, DialogForRequest, User
    PROVE  DialogForRequest'
<1>d. /\ dialogs \in Seq(Dialogs)
      /\ {"input", "login", "error", "tethering", "settings"} \subseteq Dialogs
  BY DEF TypeOK, Dialogs
<1>none. ASSUME pending' = NoReply PROVE DialogForRequest'
  BY <1>none DEF DialogForRequest, AnswerableRequest, InputForSelected
<1>hide. ASSUME NEW d \in {"settings", "tethering", "login"}, Hide(d),
                UNCHANGED <<pending, selected>>
         PROVE  DialogForRequest'
  <2>1. /\ Shown("login")' => Shown("login")
        /\ Shown("input") => Shown("input")'
        /\ Shown("error") => Shown("error")'
    BY <1>d, <1>hide, HideOthers
  <2> QED  BY <1>hide, <2>1
       DEF DialogForRequest, AnswerableRequest, InputForSelected
<1>show. ASSUME NEW d \in {"settings", "tethering"}, Popup(d),
                UNCHANGED <<pending, selected>>
         PROVE  DialogForRequest'
  <2>1. /\ Shown("login")' => Shown("login")
        /\ Shown("input") => Shown("input")'
        /\ Shown("error") => Shown("error")'
    BY <1>d, <1>show, ShowOthers DEF Popup
  <2> QED  BY <1>show, <2>1
       DEF DialogForRequest, AnswerableRequest, InputForSelected
<1>1. ASSUME NEW p \in Paths, SelectService(p) PROVE DialogForRequest'
  <2>1. /\ ~Shown("login") /\ ~Shown("input") /\ ~Shown("error")
        /\ UNCHANGED <<pending, dialogs>>
    BY <1>1 DEF SelectService, MenuOpen, Shown, ToSet, agentVars
  <2> QED  BY <2>1
       DEF DialogForRequest, AnswerableRequest, InputForSelected, Shown
<1>2. CASE cui_settings_popup
  BY <1>2, <1>show DEF cui_settings_popup, agentVars
<1>3. CASE agent_popup_tethering_dbox
  BY <1>3, <1>show DEF agent_popup_tethering_dbox, agentVars
<1>4. ASSUME NEW d \in Dialogs, CloseDialog(d) PROVE DialogForRequest'
  BY <1>4, <1>hide DEF CloseDialog, agentVars
<1>5. ASSUME NEW d \in Dialogs, AnswerDialog(d) \/ agent_cancel(d)
      PROVE  DialogForRequest'
  <2>1. pending' = NoReply
    BY <1>5 DEF AnswerDialog, agent_cancel, send_agent_reply, PendingHasAgent
  <2> QED  BY <1>none, <2>1
<1>6. ASSUME NEW filled \in BOOLEAN, agent_ok_login(filled)
      PROVE  DialogForRequest'
  <2>1. Hide("login") /\ UNCHANGED selected
        /\ (pending' = NoReply \/ UNCHANGED pending)
    BY <1>6 DEF agent_ok_login, connman_agent_reply_login
  <2> QED  BY <1>none, <1>hide, <2>1
<1> QED
  BY <1>1, <1>2, <1>3, <1>4, <1>5, <1>6 DEF User

(* Every dialog takes the menus away, and gives them back when it goes; the *)
(* left menu goes with the daemon and comes back with it.                   *)
LEMMA TrayNext ==
    ASSUME TypeOK, TrayUsable, Next
    PROVE  TrayUsable'
<1>d. /\ dialogs \in Seq(Dialogs)
      /\ {"input", "login", "error", "tethering", "settings"} \subseteq Dialogs
  BY DEF TypeOK, Dialogs
<1>pop. ASSUME NEW d \in Dialogs, Popup(d) PROVE TrayUsable'
  BY <1>d, <1>pop, ShowOthers DEF Popup, TrayUsable
<1>on. ASSUME cui_tray_enable PROVE TrayUsable'
  BY <1>on DEF cui_tray_enable, TrayUsable
<1>same. ASSUME UNCHANGED <<dialogs, up, trayVars>> PROVE TrayUsable'
  BY <1>same DEF TrayUsable, trayVars
<1> USE DEF agentVars, trayVars, uiVars
<1>1. CASE Dispatch
  <2>1. CASE agent_report_error_method
    BY <2>1, <1>d, <1>pop DEF agent_report_error_method
  <2>2. CASE agent_request_browser_method
    BY <2>2, <1>same DEF agent_request_browser_method
  <2>3. CASE agent_request_input_method
    BY <2>3, <1>d, <1>pop, <1>same
    DEF agent_request_input_method, agent_input_cb
  <2>4. CASE agent_cancel_method
    BY <2>4, <1>on, <1>same DEF agent_cancel_method
  <2>5. CASE agent_release_method
    BY <2>5, <1>same DEF agent_release_method
  <2>6. CASE connman_up
    BY <2>6, <1>on DEF connman_up
  <2>7. CASE connman_down
    BY <2>7 DEF connman_down, TrayUsable
  <2> QED
    BY <1>1, <2>1, <2>2, <2>3, <2>4, <2>5, <2>6, <2>7 DEF Dispatch
<1>2. CASE User
  <2>1. CASE \E p \in Paths : SelectService(p)
    BY <2>1, <1>same DEF SelectService
  <2>2. CASE cui_settings_popup \/ agent_popup_tethering_dbox
    BY <2>2, <1>d, <1>pop DEF cui_settings_popup, agent_popup_tethering_dbox
  <2>3. CASE \/ \E d \in Dialogs : CloseDialog(d) \/ AnswerDialog(d) \/ agent_cancel(d)
             \/ \E filled \in BOOLEAN : agent_ok_login(filled)
    BY <2>3, <1>on DEF CloseDialog, AnswerDialog, agent_cancel, agent_ok_login
  <2> QED  BY <1>2, <2>1, <2>2, <2>3 DEF User
<1>3. CASE Daemon
  <2>1. UNCHANGED <<dialogs, up, trayVars>>
    BY <1>3 DEF Daemon, DaemonStart, DaemonCrash, DaemonStop, DaemonGone,
         DaemonCall, DaemonCancel, DaemonReceive, ProgramEnds
  <2> QED  BY <1>same, <2>1
<1> QED  BY <1>1, <1>2, <1>3 DEF Next

(* The invariant of the object, the dialogs and the tray icon.              *)
LEMMA DialogInvariance == Spec => []DialogInv
<1>1. Init => DialogInv
  <2> SUFFICES ASSUME Init PROVE DialogInv
    OBVIOUS
  <2>1. CallsExpected /\ Ended
    BY DEF Init, CallsExpected, Ended
  <2>2. PendingHasAgent /\ DialogForRequest
    BY DEF Init, PendingHasAgent, DialogForRequest, AnswerableRequest,
           InputForSelected
  <2>3. TrayUsable
    BY DEF Init, TrayUsable
  <2> QED  BY <2>1, <2>2, <2>3 DEF DialogInv
<1>2. IInv /\ IInv' /\ DialogInv /\ [Next]_vars => DialogInv'
  <2> SUFFICES ASSUME IInv, IInv', DialogInv, [Next]_vars PROVE DialogInv'
    OBVIOUS
  <2>0. TypeOK /\ TypeOK'
    BY DEF IInv
  <2>1. CASE Next
    <3>1. CallsExpected' /\ Ended' /\ PendingHasAgent' /\ TrayUsable'
      BY <2>0, <2>1, ExpectedNext, EndedNext, PendingNext, TrayNext
      DEF DialogInv
    <3>2. DialogForRequest'
      <4>1. CASE Daemon
        <5>1. UNCHANGED <<dialogs, pending, selected>>
          BY <4>1 DEF Daemon, DaemonStart, DaemonCrash, DaemonStop, DaemonGone,
               DaemonCall, DaemonCancel, DaemonReceive, ProgramEnds, uiVars,
               agentVars
        <5> QED
          BY <5>1 DEF DialogInv, DialogForRequest, AnswerableRequest,
               InputForSelected, Shown
      <4> QED
        BY <2>0, <2>1, <4>1, DialogDispatch, DialogUser DEF Next, DialogInv
    <3> QED  BY <3>1, <3>2 DEF DialogInv
  <2>2. CASE UNCHANGED vars
    BY <2>2 DEF DialogInv, CallsExpected, Ended, OnAfter, PendingHasAgent,
         DialogForRequest, AnswerableRequest, InputForSelected, Shown,
         TrayUsable, vars, uiVars, daemonVars, agentVars, trayVars
  <2> QED  BY <2>1, <2>2
<1> QED  BY <1>1, <1>2, Invariance, PTL DEF Spec

(* A call of the daemon always finds the agent object on the bus.           *)
THEOREM CallsFound == Spec => []CallsFindAgent
<1>1. IInv /\ DialogInv => CallsFindAgent
  <2> SUFFICES ASSUME IInv, DialogInv, inbox # <<>>, Head(inbox).type = "call"
               PROVE  agentIf
    BY DEF CallsFindAgent
  <2>1. 1 \in DOMAIN inbox /\ IsCall(inbox[1])
    BY HeadFacts DEF IInv, IsCall
  <2>2. OnAfter(agentIf, inbox, 1)
    BY <2>1 DEF DialogInv, CallsExpected
  <2>3. PICK j \in 0 .. 1 : IF j = 0 THEN agentIf ELSE inbox[j].type = "up"
    BY <2>2 DEF OnAfter
  <2>4. j # 1
    BY <2>1, <2>3 DEF IsCall
  <2> QED  BY <2>3, <2>4
<1> QED  BY <1>1, Invariance, DialogInvariance, PTL

(* What is pending has its dialog, and the dialog is about the service the  *)
(* user selected.                                                           *)
THEOREM DialogsForRequests == Spec => []DialogForRequest
<1>1. DialogInv => DialogForRequest
  BY DEF DialogInv
<1> QED  BY <1>1, DialogInvariance, PTL

(* The tray icon is never left without its menus.                           *)
THEOREM TrayKeepsMenus == Spec => []TrayUsable
<1>1. DialogInv => TrayUsable
  BY DEF DialogInv
<1> QED  BY <1>1, DialogInvariance, PTL
=============================================================================
