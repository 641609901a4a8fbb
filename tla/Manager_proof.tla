--------------------------- MODULE Manager_proof ---------------------------
(* Theorems about the manager and the icon, for every set of states of the *)
(* daemon and every bound.                                                 *)
EXTENDS Manager, SequenceTheorems, TLAPS

(* Taking the first message of an inbox or outbox leaves a typed queue. *)
LEMMA QueueTail ==
    ASSUME NEW S, NEW q \in Seq(S), q # <<>>
    PROVE  /\ Head(q) \in S
           /\ Tail(q) \in Seq(S)
           /\ \A i \in DOMAIN Tail(q) : i + 1 \in DOMAIN q /\ Tail(q)[i] = q[i + 1]
           /\ \A i \in DOMAIN q :
                q[i] = Head(q) \/ (i - 1 \in DOMAIN Tail(q) /\ Tail(q)[i - 1] = q[i])
  BY HeadTailProperties

(* Adding a message at the end of a queue keeps those before it. *)
LEMMA QueueAppend ==
    ASSUME NEW S, NEW q \in Seq(S), NEW e \in S
    PROVE  /\ Append(q, e) \in Seq(S)
           /\ Len(q) + 1 \in DOMAIN Append(q, e)
           /\ Append(q, e)[Len(q) + 1] = e
           /\ \A i \in DOMAIN q :
                i \in DOMAIN Append(q, e) /\ Append(q, e)[i] = q[i] /\ i <= Len(q)
           /\ \A i \in DOMAIN Append(q, e) : i \in DOMAIN q \/ i = Len(q) + 1
  BY AppendProperties

(* The messages and calls the model sends are of their types.              *)
LEMMA Sent ==
    /\ Note("up") \in Messages /\ Note("down") \in Messages
    /\ \A n \in Serials : Error(n) \in Messages /\ GetProperties(n) \in Calls
    /\ \A n \in Serials, m \in Modes : Answer(n, m) \in Messages
    /\ \A v \in DaemonStates : Changed("State", v) \in Messages
    /\ \A v \in BOOLEAN : Changed("OfflineMode", v) \in Messages
    /\ \A v \in BOOLEAN : SetOfflineMode(v) \in Calls
  BY DEF Messages, Calls, Note, Error, GetProperties, Answer, Changed, SetOfflineMode

(* What a received message says, by its type. *)
LEMMA Received ==
    ASSUME NEW m \in Messages
    PROVE  /\ m.type = "properties" => m.mode \in Modes /\ m.serial \in Serials
           /\ m.type = "error" => m.serial \in Serials
           /\ m.type = "PropertyChanged" =>
                \/ m.name = "State" /\ m.value \in DaemonStates
                \/ m.name = "OfflineMode" /\ m.value \in BOOLEAN
  BY DEF Messages, Note

(* What a call asks, by its type. *)
LEMMA Served ==
    ASSUME NEW m \in Calls
    PROVE  \/ m.type = "GetProperties" /\ m.serial \in Serials /\ m = GetProperties(m.serial)
           \/ m.type = "SetProperty" /\ m.on \in BOOLEAN
  BY DEF Calls, GetProperties

(* The daemon's names are read as states other than UNKNOWN. *)
LEMMA ReadStates ==
    /\ \A v : Read("State", v) \in States \ {"unknown"}
    /\ \A v \in BOOLEAN : Read("OfflineMode", v) \in BOOLEAN
  BY DEF Read, string2enum_state, States

(* The icon tells UNKNOWN from all other states.                           *)
LEMMA Tooltips ==
    \A s \in States : Tooltip(s) = Tooltip("unknown") => s = "unknown"
  BY DEF Tooltip, States

(* Counting a step keeps the counters within their bounds. *)
LEMMA CountTyped ==
    ASSUME NEW step \in {"change", "click", "popup", "fail", "start"},
           count \in [DOMAIN Bounds -> Nat],
           \A s \in DOMAIN Bounds : count[s] <= Bounds[s],
           Counted(step)
    PROVE  /\ count' \in [DOMAIN Bounds -> Nat]
           /\ \A s \in DOMAIN Bounds : count'[s] <= Bounds[s]
<1>1. DOMAIN Bounds = {"change", "click", "popup", "fail", "start"}
  BY DEF Bounds
<1>2. Bounds[step] \in Nat
  BY ConstAssumption DEF Bounds
<1>3. count[step] \in Nat /\ count[step] < Bounds[step]
  BY <1>1 DEF Counted
<1>4. count' = [count EXCEPT ![step] = count[step] + 1]
  BY DEF Counted
<1>5. count[step] + 1 \in Nat /\ count[step] + 1 <= Bounds[step]
  BY <1>2, <1>3
<1> QED  BY <1>1, <1>4, <1>5

(* What receiving a message leaves typed. *)
LEMMA TypeReceive ==
    ASSUME TypeOK, NEW t, Receive(t)
    PROVE  /\ Head(inbox) \in Messages /\ Head(inbox).type = t
           /\ inbox' \in Seq(Messages)
  BY QueueTail DEF TypeOK, Receive

(* The types hold at the start. *)
LEMMA TypeInit == Init => TypeOK
<1> SUFFICES ASSUME Init PROVE TypeOK
  OBVIOUS
<1>1. count \in [DOMAIN Bounds -> Nat] /\ \A s \in DOMAIN Bounds : count[s] <= Bounds[s]
  BY ConstAssumption DEF Init, Bounds
<1>2. known \in [State : States, OfflineMode : BOOLEAN] /\ icon \in {Tooltip(s) : s \in States}
  BY DEF Init, NothingKnown, States
<1>3. outbox \in Seq(Calls) /\ inbox \in Seq(Messages)
  BY DEF Init
<1> QED
  BY <1>1, <1>2, <1>3 DEF Init, TypeOK

(* A message handled or a source run keeps the types. *)
LEMMA TypeMainLoop ==
    ASSUME TypeOK, MainLoop
    PROVE  TypeOK'
<1> USE DEF managerVars, uiVars, history
<1>1. CASE connman_up
  <2>1. inbox # <<>> /\ serial' \in Nat
    BY <1>1 DEF connman_up, TypeOK
  <2>5. serial' \in Serials
    BY <1>1 DEF connman_up, TypeOK, Serials
  <2>2. Tail(inbox) \in Seq(Messages) /\ Error(serial') \in Messages
        /\ GetProperties(serial') \in Calls
    BY <2>1, <2>5, QueueTail, Sent DEF TypeOK
  <2>3. inbox' \in Seq(Messages) /\ outbox' \in Seq(Calls)
    <3>1. outbox \in Seq(Calls) /\ inbox \in Seq(Messages)
      BY DEF TypeOK
    <3>2. \/ inbox' = Tail(inbox) /\ outbox' = Append(outbox, GetProperties(serial'))
          \/ inbox' = Append(Tail(inbox), Error(serial')) /\ outbox' = outbox
      BY <1>1 DEF connman_up
    <3>3. Append(outbox, GetProperties(serial')) \in Seq(Calls)
          /\ Append(Tail(inbox), Error(serial')) \in Seq(Messages)
      BY <2>2, <3>1, AppendProperties
    <3> QED
      BY <2>2, <3>1, <3>2, <3>3
  <2>4. known' \in [State : States, OfflineMode : BOOLEAN]
    BY <1>1 DEF connman_up, NothingKnown, States
  <2> QED
    BY <1>1, <2>1, <2>3, <2>4 DEF connman_up, TypeOK
<1>2. CASE connman_up_watching
  <2>1. connman_manager_get_state' \in States
    BY <1>2 DEF connman_up_watching, TypeOK, connman_manager_get_state, States
  <2> QED
    BY <1>2, <2>1 DEF connman_up_watching, ShowUp, cui_trayicon_update_icon, TypeOK
<1>3. CASE connman_up_again
  <2>1. connman_manager_get_state' \in States
    BY <1>3 DEF connman_up_again, TypeOK, connman_manager_get_state, States
  <2> QED
    BY <1>3, <2>1, TypeReceive
    DEF connman_up_again, ShowUp, cui_trayicon_update_icon, TypeOK
<1>4. CASE connman_down
  <2>1. connman_manager_get_state' \in States
    BY <1>4 DEF connman_down, TypeOK, connman_manager_get_state, States
  <2> QED
    BY <1>4, <2>1, TypeReceive
    DEF connman_down, cui_trayicon_update_icon, TypeOK
<1>5. CASE get_properties_callback
  <2>1. Head(inbox).mode \in Modes /\ inbox' \in Seq(Messages)
    BY <1>5, TypeReceive, Received DEF get_properties_callback
  <2>2. known' \in [State : States, OfflineMode : BOOLEAN]
    <3>1. Head(inbox).mode["OfflineMode"] \in BOOLEAN
      BY <2>1 DEF Modes
    <3> QED
      BY <1>5, <3>1, ReadStates DEF get_properties_callback, Properties
  <2> QED
    BY <1>5, <2>1, <2>2 DEF get_properties_callback, TypeOK
<1>6. CASE get_properties_error
  BY <1>6, TypeReceive DEF get_properties_error, TypeOK
<1>7. CASE DropReply
  <2>1. inbox' \in Seq(Messages)
    BY <1>7, TypeReceive DEF DropReply
  <2> QED
    BY <1>7, <2>1 DEF DropReply, TypeOK
<1>8. CASE property_changed_signal_cb
  <2>1. inbox' \in Seq(Messages)
    BY <1>8, TypeReceive DEF property_changed_signal_cb
  <2>2. known' \in [State : States, OfflineMode : BOOLEAN] /\ source' \subseteq Properties
    <3>1. CASE manager
      <4> DEFINE m == Head(inbox)
      <4>1. \/ m.name = "State"
            \/ m.name = "OfflineMode" /\ m.value \in BOOLEAN
        BY <1>8, TypeReceive, Received DEF property_changed_signal_cb
      <4>2. known' = [known EXCEPT ![m.name] = Read(m.name, m.value)]
            /\ source' = source \cup {m.name}
        BY <1>8, <3>1 DEF property_changed_signal_cb
      <4>3. known \in [State : States, OfflineMode : BOOLEAN] /\ source \subseteq Properties
        BY DEF TypeOK
      <4> HIDE DEF m
      <4> QED
        BY <4>1, <4>2, <4>3, ReadStates DEF Properties
    <3>2. CASE ~manager
      BY <1>8, <3>2 DEF property_changed_signal_cb, TypeOK
    <3> QED  BY <3>1, <3>2
  <2> QED
    BY <1>8, <2>1, <2>2 DEF property_changed_signal_cb, TypeOK
<1>9. ASSUME NEW p \in Properties, property_changed(p)
      PROVE  TypeOK'
  <2>1. connman_manager_get_state' \in States
    BY <1>9 DEF property_changed, TypeOK, connman_manager_get_state, States
  <2> QED
    BY <1>9, <2>1 DEF property_changed, cui_trayicon_update_icon, TypeOK, busVars
<1> QED
  BY <1>1, <1>2, <1>3, <1>4, <1>5, <1>6, <1>7, <1>8, <1>9 DEF MainLoop

(* The user's steps keep the types. *)
LEMMA TypeUser ==
    ASSUME TypeOK, User
    PROVE  TypeOK'
<1> USE DEF managerVars
<1>1. CASE cui_popup_right_menu
  <2>1. count' \in [DOMAIN Bounds -> Nat] /\ \A s \in DOMAIN Bounds : count'[s] <= Bounds[s]
    BY <1>1, CountTyped DEF cui_popup_right_menu, TypeOK
  <2> QED
    BY <1>1, <2>1 DEF cui_popup_right_menu, TypeOK, busVars
<1>2. CASE cui_popdown_right_menu
  BY <1>2 DEF cui_popdown_right_menu, TypeOK, busVars, history
<1>3. ASSUME NEW item \in {"set", "unset"}, cui_item_offlinemode_activate(item)
      PROVE  TypeOK'
  <2> DEFINE on == ~connman_manager_get_offlinemode
  <2>1. on \in BOOLEAN
    OBVIOUS
  <2> HIDE DEF on
  <2>2. Click(item, on)
    BY <1>3 DEF cui_item_offlinemode_activate, on
  <2>3. count' \in [DOMAIN Bounds -> Nat] /\ \A s \in DOMAIN Bounds : count'[s] <= Bounds[s]
    BY <2>2, CountTyped DEF Click, TypeOK
  <2>4. outbox' \in Seq(Calls)
    BY <2>1, <2>2, Sent, QueueAppend DEF Click, TypeOK
  <2>5. wanted' \in {"none", "set", "unset"} /\ broken' \in BOOLEAN
    BY <2>2 DEF Click, TypeOK
  <2> QED
    BY <2>2, <2>3, <2>4, <2>5 DEF Click, TypeOK
<1> QED
  BY <1>1, <1>2, <1>3 DEF User

(* Changing a property keeps the daemon's properties and the inbox typed. *)
LEMMA TypeSet ==
    ASSUME TypeOK, NEW p, NEW v, Set(p, v),
           \/ p = "State" /\ v \in DaemonStates
           \/ p = "OfflineMode" /\ v \in BOOLEAN
    PROVE  mode' \in Modes /\ inbox' \in Seq(Messages) /\ missed' \subseteq Properties
<1>1. Changed(p, v) \in Messages
  BY Sent
<1>2. inbox' \in Seq(Messages)
  BY <1>1, QueueAppend DEF Set, TypeOK
<1>3. mode' \in Modes
  BY DEF Set, TypeOK, Modes
<1>4. missed' \subseteq Properties
  BY DEF Set, TypeOK, Properties
<1> QED  BY <1>2, <1>3, <1>4

(* The steps of the daemon and the bus keep the types. *)
LEMMA TypeDaemon ==
    ASSUME TypeOK, Daemon
    PROVE  TypeOK'
<1> USE DEF managerVars, uiVars
<1>1. CASE BusAnswer
  <2>1. inbox' \in Seq(Messages)
    BY <1>1, Sent, QueueAppend DEF BusAnswer, TypeOK
  <2> QED
    BY <1>1, <2>1 DEF BusAnswer, TypeOK, history
<1>2. ASSUME NEW p, NEW v, DaemonChange(p, v),
             \/ p = "State" /\ v \in DaemonStates
             \/ p = "OfflineMode" /\ v \in BOOLEAN
      PROVE  TypeOK'
  <2>1. count' \in [DOMAIN Bounds -> Nat] /\ \A s \in DOMAIN Bounds : count'[s] <= Bounds[s]
    BY <1>2, CountTyped DEF DaemonChange, TypeOK
  <2>2. mode' \in Modes /\ inbox' \in Seq(Messages) /\ missed' \subseteq Properties
    BY <1>2, TypeSet DEF DaemonChange
  <2>3. wanted' \in {"none", "set", "unset"}
    BY <1>2 DEF DaemonChange, TypeOK
  <2> QED
    BY <1>2, <2>1, <2>2, <2>3 DEF DaemonChange, TypeOK
<1>3. CASE DaemonServe
  <2> DEFINE m == Head(outbox)
  <2>1. m \in Calls /\ outbox' \in Seq(Calls)
    BY <1>3, QueueTail DEF DaemonServe, TypeOK
  <2>2. mode' \in Modes /\ inbox' \in Seq(Messages) /\ missed' \subseteq Properties
    <3>1. CASE m.type = "GetProperties"
      <4>1. Answer(m.serial, mode) \in Messages
        BY <2>1, <3>1, Served, Sent DEF TypeOK
      <4>2. inbox' = Append(inbox, Answer(m.serial, mode)) /\ missed' = {} /\ mode' = mode
        BY <1>3, <3>1 DEF DaemonServe
      <4> QED  BY <4>1, <4>2, QueueAppend DEF TypeOK
    <3>2. CASE m.type = "SetProperty" /\ m.on # mode.OfflineMode
      <4>1. Set("OfflineMode", m.on)
        BY <1>3, <3>2 DEF DaemonServe
      <4>2. m.on \in BOOLEAN
        BY <2>1, <3>2, Served
      <4> QED  BY <4>1, <4>2, TypeSet
    <3>3. CASE m.type = "SetProperty" /\ m.on = mode.OfflineMode
      BY <1>3, <3>3 DEF DaemonServe, TypeOK
    <3> QED  BY <2>1, <3>1, <3>2, <3>3, Served
  <2> HIDE DEF m
  <2> QED
    BY <1>3, <2>1, <2>2 DEF DaemonServe, TypeOK
<1>4. CASE DaemonError
  <2>1. count' \in [DOMAIN Bounds -> Nat] /\ \A s \in DOMAIN Bounds : count'[s] <= Bounds[s]
    BY <1>4, CountTyped DEF DaemonError, TypeOK
  <2>2. Head(outbox) \in Calls /\ outbox' \in Seq(Calls)
    BY <1>4, QueueTail DEF DaemonError, TypeOK
  <2>3. Error(Head(outbox).serial) \in Messages
    BY <1>4, <2>2, Served, Sent DEF DaemonError
  <2>4. inbox' \in Seq(Messages)
    BY <1>4, <2>3, QueueAppend DEF DaemonError, TypeOK
  <2> QED
    BY <1>4, <2>1, <2>2, <2>4 DEF DaemonError, TypeOK
<1>5. CASE DaemonDown
  <2>1. inbox' \in Seq(Messages)
    BY <1>5, Sent, QueueAppend DEF DaemonDown, TypeOK
  <2>2. outbox' \in Seq(Calls)
    BY <1>5 DEF DaemonDown
  <2> QED
    BY <1>5, <2>1, <2>2 DEF DaemonDown, TypeOK
<1>6. CASE DaemonUp
  <2>1. count' \in [DOMAIN Bounds -> Nat] /\ \A s \in DOMAIN Bounds : count'[s] <= Bounds[s]
    BY <1>6, CountTyped DEF DaemonUp, TypeOK
  <2>2. inbox' \in Seq(Messages)
    BY <1>6, Sent, QueueAppend DEF DaemonUp, TypeOK
  <2> QED
    BY <1>6, <2>1, <2>2 DEF DaemonUp, TypeOK
<1> QED
  BY <1>1, <1>2, <1>3, <1>4, <1>5, <1>6 DEF Daemon

(* Every step keeps the types. *)
LEMMA TypeNext == TypeOK /\ [Next]_vars => TypeOK'
<1>1. ASSUME TypeOK, UNCHANGED vars PROVE TypeOK'
  BY <1>1 DEF TypeOK, vars, busVars, managerVars, uiVars, history
<1> QED
  BY <1>1, TypeMainLoop, TypeUser, TypeDaemon DEF Next

(* Every variable of the manager, the icon and the right menu keeps its    *)
(* type: whatever the daemon calls its states, string2enum_state makes one *)
(* of the enumeration of them.                                             *)
THEOREM TypeCorrect == Spec => []TypeOK
  BY TypeInit, TypeNext, PTL DEF Spec

-----------------------------------------------------------------------------
(* A manager that got its answer knows a state.  With IconFollows it gives *)
(* NotRunningIfUntold.                                                     *)
Told == manager /\ call = 0 /\ ~failed => known.State # "unknown"

(* The mode wanted is the daemon's, or the last SetProperty on its way     *)
(* will make it so.                                                        *)
LastAsked ==
    wanted # "none" =>
      \/ /\ ~Has(outbox, "SetProperty")
         /\ mode.OfflineMode = (wanted = "set")
      \/ \E i \in DOMAIN outbox :
           /\ outbox[i] = SetOfflineMode(wanted = "set")
           /\ \A j \in DOMAIN outbox : j > i => outbox[j].type # "SetProperty"

(* Nothing is wanted of a daemon that is gone. *)
NothingAsked == ~alive => wanted = "none"

IInv ==
    TypeOK /\ IconFollows /\ Told /\ ReplyFindsManager /\ LastAsked /\ NothingAsked

(* The invariant holds at the start: the icon says that nothing runs. *)
LEMMA InvInit == Init => IInv
<1> SUFFICES ASSUME Init PROVE IInv
  OBVIOUS
<1>1. IconFollows /\ Told
  BY DEF Init, IconFollows, Told, connman_manager_get_state
<1>2. ReplyFindsManager /\ LastAsked /\ NothingAsked
  BY DEF Init, ReplyFindsManager, LastAsked, NothingAsked
<1> QED  BY <1>1, <1>2, TypeInit DEF IInv

(* The icon and the steps that touch it, its source or what is known. *)
LEMMA IconNext ==
    ASSUME TypeOK, IconFollows, Next
    PROVE  IconFollows'
<1> USE DEF IconFollows, connman_manager_get_state
<1>1. CASE connman_up
  <2>1. known'.State = "unknown"
    BY <1>1 DEF connman_up, NothingKnown
  <2> QED  BY <1>1, <2>1 DEF connman_up, uiVars
<1>2. CASE connman_up_watching
  BY <1>2 DEF connman_up_watching, ShowUp, cui_trayicon_update_icon
<1>3. CASE connman_up_again
  BY <1>3 DEF connman_up_again, ShowUp, cui_trayicon_update_icon
<1>4. CASE connman_down
  BY <1>4 DEF connman_down, cui_trayicon_update_icon
<1>5. CASE get_properties_callback
  BY <1>5 DEF get_properties_callback, Properties
<1>6. CASE property_changed_signal_cb
  <2>1. CASE manager /\ Head(inbox).name = "State"
    BY <1>6, <2>1 DEF property_changed_signal_cb
  <2>2. CASE manager /\ Head(inbox).name # "State"
    <3>1. known'.State = known.State
      BY <1>6, <2>2 DEF property_changed_signal_cb, TypeOK
    <3> QED  BY <1>6, <2>2, <3>1 DEF property_changed_signal_cb, uiVars
  <2>3. CASE ~manager
    BY <1>6, <2>3 DEF property_changed_signal_cb, uiVars
  <2> QED  BY <2>1, <2>2, <2>3
<1>7. ASSUME NEW p \in Properties, property_changed(p)
      PROVE  IconFollows'
  BY <1>7 DEF property_changed, cui_trayicon_update_icon
<1>8. CASE get_properties_error \/ DropReply
  BY <1>8 DEF get_properties_error, DropReply, managerVars, uiVars
<1>9. CASE User
  BY <1>9 DEF User, cui_popup_right_menu, cui_popdown_right_menu,
              cui_item_offlinemode_activate, Click, managerVars
<1>10. CASE Daemon
  BY <1>10 DEF Daemon, BusAnswer, DaemonChange, DaemonServe, DaemonError,
               DaemonDown, DaemonUp, managerVars, uiVars
<1> QED
  BY <1>1, <1>2, <1>3, <1>4, <1>5, <1>6, <1>7, <1>8, <1>9, <1>10
  DEF Next, MainLoop

(* An answer or a change of State tells a state; nothing untells it but a  *)
(* new manager, which calls.                                               *)
LEMMA ToldNext ==
    ASSUME TypeOK, Told, Next
    PROVE  Told'
<1> USE DEF Told
<1>1. CASE connman_up
  <2>1. call' # 0
    BY <1>1 DEF connman_up, TypeOK
  <2> QED  BY <2>1
<1>2. CASE connman_up_watching \/ connman_up_again \/ connman_down
  BY <1>2 DEF connman_up_watching, connman_up_again, connman_down, managerVars, history
<1>3. CASE get_properties_callback
  <2>1. known'.State = Read("State", Head(inbox).mode["State"])
    BY <1>3 DEF get_properties_callback, Properties
  <2> QED  BY <2>1, ReadStates
<1>4. CASE property_changed_signal_cb
  <2>1. UNCHANGED <<manager, call, failed>>
    BY <1>4 DEF property_changed_signal_cb, history
  <2>2. manager => known'.State = known.State \/ known'.State \in States \ {"unknown"}
    <3> SUFFICES ASSUME manager
                 PROVE  known'.State = known.State \/ known'.State \in States \ {"unknown"}
      OBVIOUS
    <3>1. known' = [known EXCEPT ![Head(inbox).name] =
                       Read(Head(inbox).name, Head(inbox).value)]
      BY <1>4 DEF property_changed_signal_cb
    <3>2. CASE Head(inbox).name = "State"
      <4>1. known'.State = Read("State", Head(inbox).value)
        BY <3>1, <3>2 DEF TypeOK
      <4> QED  BY <4>1, ReadStates
    <3>3. CASE Head(inbox).name # "State"
      BY <3>1, <3>3 DEF TypeOK
    <3> QED  BY <3>2, <3>3
  <2> QED  BY <2>1, <2>2
<1>5. CASE get_properties_error \/ DropReply \/ \E p \in Properties : property_changed(p)
  BY <1>5 DEF get_properties_error, DropReply, property_changed, managerVars, history
<1>6. CASE User
  BY <1>6 DEF User, cui_popup_right_menu, cui_popdown_right_menu,
              cui_item_offlinemode_activate, Click, managerVars, history
<1>7. CASE Daemon
  BY <1>7 DEF Daemon, BusAnswer, DaemonChange, DaemonServe, DaemonError,
              DaemonDown, DaemonUp, managerVars, history
<1> QED
  BY <1>1, <1>2, <1>3, <1>4, <1>5, <1>6, <1>7 DEF Next, MainLoop

(* A reply stays awaited when messages are only added. *)
LEMMA AwaitedGrows ==
    ASSUME Awaited, call' = call,
           \A i \in DOMAIN outbox : i \in DOMAIN outbox' /\ outbox'[i] = outbox[i],
           \A i \in DOMAIN inbox : i \in DOMAIN inbox' /\ inbox'[i] = inbox[i]
    PROVE  Awaited'
  BY DEF Awaited

(* A reply stays awaited when a message that is neither it nor the daemon's *)
(* end is received.                                                         *)
LEMMA AwaitedReceive ==
    ASSUME TypeOK, Awaited, call' = call, inbox # <<>>,
           inbox' = Tail(inbox), outbox' = outbox,
           Head(inbox).type # "down",
           Head(inbox).type \in {"properties", "error"} => Head(inbox).serial # call
    PROVE  Awaited'
<1>1. ASSUME NEW i \in DOMAIN inbox, inbox[i] # Head(inbox)
      PROVE  \E j \in DOMAIN inbox' : inbox'[j] = inbox[i]
  <2>1. inbox \in Seq(Messages)
    BY DEF TypeOK
  <2>2. i - 1 \in DOMAIN Tail(inbox) /\ Tail(inbox)[i - 1] = inbox[i]
    BY <1>1, <2>1, QueueTail
  <2> QED  BY <2>2
<1>2. CASE \E i \in DOMAIN outbox : outbox[i] = GetProperties(call)
  BY <1>2 DEF Awaited
<1>3. CASE ~\E i \in DOMAIN outbox : outbox[i] = GetProperties(call)
  <2>1. PICK i \in DOMAIN inbox :
          \/ inbox[i].type \in {"properties", "error"} /\ inbox[i].serial = call
          \/ inbox[i].type = "down"
    BY <1>3 DEF Awaited
  <2>2. PICK j \in DOMAIN inbox' : inbox'[j] = inbox[i]
    BY <1>1, <2>1
  <2> QED  BY <2>1, <2>2 DEF Awaited
<1> QED  BY <1>2, <1>3

(* The messages of the daemon and the bus come after those on their way. *)
LEMMA ReplyDaemon ==
    ASSUME TypeOK, ReplyFindsManager, Daemon
    PROVE  ReplyFindsManager'
<1>5. UNCHANGED <<manager, call, source>>
  BY DEF Daemon, BusAnswer, DaemonChange, DaemonServe, DaemonError,
         DaemonDown, DaemonUp, managerVars
<1> SUFFICES ASSUME call # 0 PROVE Awaited'
  BY <1>5 DEF ReplyFindsManager
<1>0. Awaited
  BY DEF ReplyFindsManager
<1>1. CASE BusAnswer \/ DaemonUp
  <2>1. outbox' = outbox /\ (inbox' = inbox \/ inbox' = Append(inbox, Note("up")))
    BY <1>1 DEF BusAnswer, DaemonUp
  <2>2. \A i \in DOMAIN inbox : i \in DOMAIN inbox' /\ inbox'[i] = inbox[i]
    BY <2>1, Sent, QueueAppend DEF TypeOK
  <2> QED  BY <1>0, <1>5, <2>1, <2>2, AwaitedGrows
<1>2. ASSUME NEW p, NEW v, DaemonChange(p, v)
      PROVE  Awaited'
  <2>1. outbox' = outbox /\ (inbox' = inbox \/ inbox' = Append(inbox, Changed(p, v)))
    BY <1>2 DEF DaemonChange, Set
  <2>2. \A i \in DOMAIN inbox : i \in DOMAIN inbox' /\ inbox'[i] = inbox[i]
    BY <2>1, AppendProperties DEF TypeOK
  <2> QED  BY <1>0, <1>5, <2>1, <2>2, AwaitedGrows
<1>3. CASE DaemonServe \/ DaemonError
  <2> DEFINE m == Head(outbox)
  <2>1. outbox # <<>> /\ outbox' = Tail(outbox)
    BY <1>3 DEF DaemonServe, DaemonError
  <2>2. m \in Calls /\ \A i \in DOMAIN outbox :
           outbox[i] = m \/ (i - 1 \in DOMAIN outbox' /\ outbox'[i - 1] = outbox[i])
    BY <2>1, QueueTail DEF TypeOK
  <2>3. PICK e : inbox' = inbox \/ inbox' = Append(inbox, e)
    BY <1>3 DEF DaemonServe, DaemonError, Set
  <2>4. \A i \in DOMAIN inbox : i \in DOMAIN inbox' /\ inbox'[i] = inbox[i]
    BY <2>3, AppendProperties DEF TypeOK
  <2>5. CASE m = GetProperties(call)
    <3>1. m.type = "GetProperties" /\ m.serial = call
      BY <2>5 DEF GetProperties
    <3>2. inbox' = Append(inbox, Answer(call, mode)) \/ inbox' = Append(inbox, Error(call))
      BY <1>3, <3>1 DEF DaemonServe, DaemonError
    <3>3. Len(inbox) + 1 \in DOMAIN inbox'
          /\ inbox'[Len(inbox) + 1] \in {Answer(call, mode), Error(call)}
      BY <3>2, AppendProperties DEF TypeOK
    <3>4. /\ inbox'[Len(inbox) + 1].type \in {"properties", "error"}
          /\ inbox'[Len(inbox) + 1].serial = call'
      BY <1>5, <3>3 DEF Answer, Error
    <3> QED  BY <3>3, <3>4 DEF Awaited
  <2>6. CASE m # GetProperties(call)
    <3>1. CASE \E i \in DOMAIN outbox : outbox[i] = GetProperties(call)
      BY <1>5, <2>2, <2>6, <3>1 DEF Awaited
    <3>2. CASE ~\E i \in DOMAIN outbox : outbox[i] = GetProperties(call)
      BY <1>0, <1>5, <2>4, <3>2 DEF Awaited
    <3> QED  BY <3>1, <3>2
  <2> QED  BY <2>5, <2>6
<1>4. CASE DaemonDown
  <2>1. inbox' = Append(inbox, Note("down"))
    BY <1>4 DEF DaemonDown
  <2>2. Len(inbox) + 1 \in DOMAIN inbox' /\ inbox'[Len(inbox) + 1] = Note("down")
    BY <2>1, AppendProperties DEF TypeOK
  <2>3. inbox'[Len(inbox) + 1].type = "down"
    BY <2>2 DEF Note
  <2> QED  BY <2>2, <2>3 DEF Awaited
<1> QED  BY <1>1, <1>2, <1>3, <1>4 DEF Daemon

(* The user's clicks only add calls. *)
LEMMA ReplyUser ==
    ASSUME TypeOK, ReplyFindsManager, User
    PROVE  ReplyFindsManager'
<1>1. UNCHANGED <<manager, call, source, inbox>>
  BY DEF User, cui_popup_right_menu, cui_popdown_right_menu,
         cui_item_offlinemode_activate, Click, managerVars, busVars
<1>2. PICK e : outbox' = outbox \/ outbox' = Append(outbox, e)
  BY DEF User, cui_popup_right_menu, cui_popdown_right_menu,
         cui_item_offlinemode_activate, Click, busVars
<1>3. \A i \in DOMAIN outbox : i \in DOMAIN outbox' /\ outbox'[i] = outbox[i]
  BY <1>2, AppendProperties DEF TypeOK
<1> QED  BY <1>1, <1>3, AwaitedGrows DEF ReplyFindsManager

(* Each handler either leaves the call awaited, ends it, or makes a new one. *)
LEMMA ReplyMainLoop ==
    ASSUME TypeOK, ReplyFindsManager, MainLoop
    PROVE  ReplyFindsManager'
<1> USE DEF ReplyFindsManager
<1>1. CASE connman_up
  <2>1. manager' /\ call' = serial' /\ serial' \in Nat
    BY <1>1 DEF connman_up, TypeOK
  <2>2. Awaited'
    <3>1. CASE alive
      <4>1. outbox' = Append(outbox, GetProperties(serial'))
        BY <1>1, <3>1 DEF connman_up
      <4>2. Len(outbox) + 1 \in DOMAIN outbox' /\ outbox'[Len(outbox) + 1] = GetProperties(call')
        BY <2>1, <4>1, AppendProperties DEF TypeOK
      <4> QED  BY <4>2 DEF Awaited
    <3>2. CASE ~alive
      <4>1. inbox' = Append(Tail(inbox), Error(serial')) /\ inbox # <<>>
        BY <1>1, <3>2 DEF connman_up
      <4>2. Tail(inbox) \in Seq(Messages)
        BY <4>1, QueueTail DEF TypeOK
      <4>3. Len(Tail(inbox)) + 1 \in DOMAIN inbox'
            /\ inbox'[Len(Tail(inbox)) + 1] = Error(call')
        BY <2>1, <4>1, <4>2, AppendProperties
      <4>4. /\ inbox'[Len(Tail(inbox)) + 1].type = "error"
            /\ inbox'[Len(Tail(inbox)) + 1].serial = call'
        BY <4>3 DEF Error
      <4> QED  BY <4>3, <4>4 DEF Awaited
    <3> QED  BY <3>1, <3>2
  <2> QED  BY <2>1, <2>2
<1>2. CASE connman_up_watching
  <2>1. UNCHANGED <<manager, call, source, inbox, outbox>>
    BY <1>2 DEF connman_up_watching
  <2> QED  BY <2>1 DEF Awaited
<1>3. CASE connman_down
  BY <1>3 DEF connman_down
<1>4. CASE get_properties_callback \/ get_properties_error
  <2>1. call' = 0 /\ manager' = manager
    BY <1>4 DEF get_properties_callback, get_properties_error
  <2>2. manager
    <3>1. Receive("properties") \/ Receive("error")
      BY <1>4 DEF get_properties_callback, get_properties_error
    <3>2. Head(inbox).serial \in Serials
      BY <3>1, TypeReceive, Received
    <3>3. Head(inbox).serial = call
      BY <1>4 DEF get_properties_callback, get_properties_error
    <3> QED  BY <3>2, <3>3 DEF Serials
  <2> QED  BY <2>1, <2>2
<1>5. CASE connman_up_again \/ DropReply \/ property_changed_signal_cb
  <2>1. UNCHANGED <<manager, call, outbox>> /\ inbox # <<>> /\ inbox' = Tail(inbox)
    BY <1>5 DEF connman_up_again, DropReply, property_changed_signal_cb, Receive, managerVars
  <2>2. source' # {} => manager
    BY <1>5 DEF connman_up_again, DropReply, property_changed_signal_cb, managerVars
  <2>3. Head(inbox).type # "down"
        /\ (Head(inbox).type \in {"properties", "error"} => Head(inbox).serial # call)
    BY <1>5 DEF connman_up_again, DropReply, property_changed_signal_cb, Receive
  <2>4. call # 0 => Awaited'
    BY <2>1, <2>3, AwaitedReceive
  <2> QED  BY <2>1, <2>2, <2>4
<1>6. ASSUME NEW p \in Properties, property_changed(p)
      PROVE  ReplyFindsManager'
  <2>1. UNCHANGED <<manager, call, inbox, outbox>> /\ source' \subseteq source
    BY <1>6 DEF property_changed, busVars
  <2> QED  BY <2>1 DEF Awaited
<1> QED
  BY <1>1, <1>2, <1>3, <1>4, <1>5, <1>6 DEF MainLoop

(* A SetProperty stays the last one while only other calls are sent or     *)
(* served, and the mode stays.                                             *)
LEMMA AskedKept ==
    ASSUME LastAsked, UNCHANGED <<outbox, mode, wanted>>
    PROVE  LastAsked'
  BY DEF LastAsked, Has

(* A click sends what its item is for, and that becomes the last call.     *)
LEMMA AskedClick ==
    ASSUME TypeOK, NEW item \in {"set", "unset"}, cui_item_offlinemode_activate(item)
    PROVE  LastAsked'
<1> SUFFICES ASSUME wanted' # "none" PROVE LastAsked'
  BY DEF LastAsked
<1> DEFINE on == ~connman_manager_get_offlinemode
           e == SetOfflineMode(on)
<1>1. wanted' = item /\ (item = "set") = on /\ outbox' = Append(outbox, e)
  BY DEF cui_item_offlinemode_activate, Click
<1>2. e = SetOfflineMode(wanted' = "set")
  BY <1>1
<1>3. /\ Len(outbox) + 1 \in DOMAIN outbox'
      /\ outbox'[Len(outbox) + 1] = e
      /\ \A j \in DOMAIN outbox' : ~(j > Len(outbox) + 1)
  BY <1>1, AppendProperties DEF TypeOK
<1> HIDE DEF e
<1> QED  BY <1>2, <1>3 DEF LastAsked

(* Sending GetProperties leaves the last SetProperty the last. *)
LEMMA AskedCall ==
    ASSUME TypeOK, LastAsked, NEW n, UNCHANGED <<mode, wanted>>,
           outbox' = Append(outbox, GetProperties(n))
    PROVE  LastAsked'
<1>1. /\ \A j \in DOMAIN outbox : j \in DOMAIN outbox' /\ outbox'[j] = outbox[j]
      /\ \A j \in DOMAIN outbox' :
           j \in DOMAIN outbox \/ outbox'[j].type # "SetProperty"
  <2>1. \A j \in DOMAIN outbox' : j \in DOMAIN outbox \/ outbox'[j] = GetProperties(n)
    BY AppendProperties DEF TypeOK
  <2>2. \A j \in DOMAIN outbox : j \in DOMAIN outbox' /\ outbox'[j] = outbox[j]
    BY AppendProperties DEF TypeOK
  <2> QED  BY <2>1, <2>2 DEF GetProperties
<1>2. CASE wanted = "none"
  BY <1>2 DEF LastAsked
<1>3. CASE ~Has(outbox, "SetProperty") /\ mode.OfflineMode = (wanted = "set")
  BY <1>1, <1>3 DEF LastAsked, Has
<1>4. CASE \E i \in DOMAIN outbox :
             /\ outbox[i] = SetOfflineMode(wanted = "set")
             /\ \A j \in DOMAIN outbox : j > i => outbox[j].type # "SetProperty"
  BY <1>1, <1>4 DEF LastAsked
<1> QED  BY <1>2, <1>3, <1>4 DEF LastAsked

(* The daemon serves the first call: if that is the last SetProperty, the  *)
(* mode becomes the one wanted, else the last one is still on its way.     *)
LEMMA AskedServe ==
    ASSUME TypeOK, LastAsked, DaemonServe \/ DaemonError
    PROVE  LastAsked'
<1> DEFINE m == Head(outbox)
<1>1. /\ wanted' = wanted /\ outbox # <<>> /\ outbox' = Tail(outbox)
      /\ outbox \in Seq(Calls) /\ m \in Calls /\ mode \in Modes
  BY QueueTail DEF DaemonServe, DaemonError, TypeOK
<1>2. m.type # "SetProperty" => mode' = mode
  BY DEF DaemonServe, DaemonError
<1>3. m.type = "SetProperty" => m.on \in BOOLEAN /\ mode'.OfflineMode = m.on
  <2> SUFFICES ASSUME m.type = "SetProperty"
               PROVE  m.on \in BOOLEAN /\ mode'.OfflineMode = m.on
    OBVIOUS
  <2>1. m.on \in BOOLEAN
    BY <1>1, Served
  <2>2. CASE m.on # mode.OfflineMode
    <3>1. mode' = [mode EXCEPT !["OfflineMode"] = m.on]
      BY <2>2 DEF DaemonServe, DaemonError, Set
    <3> QED  BY <1>1, <2>1, <3>1 DEF Modes
  <2>3. CASE m.on = mode.OfflineMode
    BY <2>1, <2>3 DEF DaemonServe, DaemonError
  <2> QED  BY <2>2, <2>3, <2>1
<1>4. /\ \A j \in DOMAIN outbox' : j + 1 \in DOMAIN outbox /\ outbox'[j] = outbox[j + 1]
      /\ DOMAIN outbox \subseteq Nat \ {0} /\ DOMAIN outbox' \subseteq Nat \ {0}
      /\ \A j \in DOMAIN outbox : (j = 1 /\ outbox[j] = m) \/ j - 1 \in DOMAIN outbox'
  BY <1>1, HeadTailProperties
<1> HIDE DEF m
<1>5. CASE wanted = "none"
  BY <1>1, <1>5 DEF LastAsked
<1>6. CASE ~Has(outbox, "SetProperty") /\ mode.OfflineMode = (wanted = "set")
  <2>1. 1 \in DOMAIN outbox /\ outbox[1] = m
    BY <1>1, HeadTailProperties DEF m
  <2>2. m.type # "SetProperty"
    BY <1>6, <2>1 DEF Has
  <2>3. ~Has(outbox, "SetProperty")'
    BY <1>4, <1>6 DEF Has
  <2> QED  BY <1>1, <1>2, <1>6, <2>2, <2>3 DEF LastAsked
<1>7. ASSUME wanted # "none", NEW i \in DOMAIN outbox,
             outbox[i] = SetOfflineMode(wanted = "set"),
             \A j \in DOMAIN outbox : j > i => outbox[j].type # "SetProperty"
      PROVE  LastAsked'
  <2>1. CASE i - 1 \in DOMAIN outbox'
    <3>1. outbox'[i - 1] = SetOfflineMode(wanted' = "set")
      BY <1>1, <1>4, <1>7, <2>1
    <3>2. ASSUME NEW j \in DOMAIN outbox', j > i - 1
          PROVE  outbox'[j].type # "SetProperty"
      <4>1. j + 1 \in DOMAIN outbox /\ j + 1 > i /\ outbox'[j] = outbox[j + 1]
        BY <1>4, <3>2
      <4> QED  BY <1>7, <4>1
    <3> QED  BY <2>1, <3>1, <3>2 DEF LastAsked
  <2>2. CASE i = 1 /\ outbox[i] = m
    <3>1. m.type = "SetProperty" /\ m.on = (wanted = "set")
      BY <1>7, <2>2 DEF SetOfflineMode
    <3>2. ASSUME NEW j \in DOMAIN outbox' PROVE outbox'[j].type # "SetProperty"
      <4>1. j + 1 \in DOMAIN outbox /\ j + 1 > i /\ outbox'[j] = outbox[j + 1]
        BY <1>4, <2>2
      <4> QED  BY <1>7, <4>1
    <3>3. ~Has(outbox, "SetProperty")'
      BY <3>2 DEF Has
    <3>4. mode'.OfflineMode = (wanted' = "set")
      BY <1>1, <1>3, <3>1
    <3> QED  BY <3>3, <3>4 DEF LastAsked
  <2> QED  BY <1>4, <2>1, <2>2
<1> QED  BY <1>5, <1>6, <1>7 DEF LastAsked

(* The other changes of the daemon end what was wanted, or leave it. *)
LEMMA AskedChange ==
    ASSUME TypeOK, LastAsked, NEW p, NEW v, DaemonChange(p, v),
           \/ p = "State" /\ v \in DaemonStates
           \/ p = "OfflineMode" /\ v \in BOOLEAN
    PROVE  LastAsked'
<1>1. outbox' = outbox /\ mode' = [mode EXCEPT ![p] = v] /\ mode \in Modes
  BY DEF DaemonChange, Set, TypeOK
<1>2. CASE p = "State"
  <2>1. mode'.OfflineMode = mode.OfflineMode /\ wanted' = wanted
    BY <1>1, <1>2 DEF DaemonChange, Modes
  <2> QED  BY <1>1, <2>1 DEF LastAsked, Has
<1>3. CASE p # "State" /\ ~Has(outbox, "SetProperty")
  BY <1>3 DEF DaemonChange, LastAsked
<1>4. CASE p # "State" /\ Has(outbox, "SetProperty")
  <2>1. wanted' = wanted
    BY <1>4 DEF DaemonChange
  <2> QED  BY <1>1, <1>4, <2>1 DEF LastAsked, Has
<1> QED  BY <1>2, <1>3, <1>4

(* Only a click asks, and only of a living daemon. *)
LEMMA NothingAskedNext ==
    ASSUME NothingAsked, Next
    PROVE  NothingAsked'
<1> USE DEF NothingAsked
<1>1. CASE MainLoop
  BY <1>1
  DEF MainLoop, connman_up, connman_up_watching, connman_up_again, connman_down,
      get_properties_callback, get_properties_error, DropReply,
      property_changed_signal_cb, property_changed, busVars, history
<1>2. CASE User
  BY <1>2 DEF User, cui_popup_right_menu, cui_popdown_right_menu,
              cui_item_offlinemode_activate, Click, busVars, history
<1>3. CASE Daemon
  BY <1>3 DEF Daemon, BusAnswer, DaemonChange, DaemonServe, DaemonError,
              DaemonDown, DaemonUp, history
<1> QED  BY <1>1, <1>2, <1>3 DEF Next

(* Every step keeps LastAsked. *)
LEMMA AskedNext ==
    ASSUME TypeOK, LastAsked, NothingAsked, Next
    PROVE  LastAsked'
<1>1. CASE connman_up
  <2>1. UNCHANGED <<mode, wanted>>
    BY <1>1 DEF connman_up
  <2>2. CASE alive
    BY <1>1, <2>1, <2>2, AskedCall DEF connman_up
  <2>3. CASE ~alive
    BY <1>1, <2>1, <2>3, AskedKept DEF connman_up
  <2> QED  BY <2>2, <2>3
<1>2. CASE MainLoop /\ ~connman_up
  BY <1>2, AskedKept
  DEF MainLoop, connman_up_watching, connman_up_again, connman_down,
      get_properties_callback, get_properties_error, DropReply,
      property_changed_signal_cb, property_changed, busVars, history
<1>3. CASE cui_popup_right_menu \/ cui_popdown_right_menu \/ BusAnswer
  BY <1>3, AskedKept
  DEF cui_popup_right_menu, cui_popdown_right_menu, BusAnswer, busVars, history
<1>4. ASSUME NEW item \in {"set", "unset"}, cui_item_offlinemode_activate(item)
      PROVE  LastAsked'
  BY <1>4, AskedClick
<1>5. CASE \/ \E v \in DaemonStates : DaemonChange("State", v)
           \/ \E v \in BOOLEAN : DaemonChange("OfflineMode", v)
  BY <1>5, AskedChange
<1>6. CASE DaemonServe \/ DaemonError
  BY <1>6, AskedServe
<1>7. CASE DaemonDown
  BY <1>7 DEF DaemonDown, LastAsked
<1>8. CASE DaemonUp
  <2>1. wanted' = "none"
    BY <1>8 DEF DaemonUp, NothingAsked
  <2> QED  BY <2>1 DEF LastAsked
<1> QED
  BY <1>1, <1>2, <1>3, <1>4, <1>5, <1>6, <1>7, <1>8 DEF Next, User, Daemon

(* Every step keeps the invariant. *)
LEMMA InvNext == IInv /\ [Next]_vars => IInv'
<1>1. ASSUME IInv, UNCHANGED vars PROVE IInv'
  <2>1. TypeOK'
    BY <1>1, TypeNext DEF IInv
  <2>2. IconFollows' /\ Told'
    BY <1>1 DEF IInv, IconFollows, Told, connman_manager_get_state,
                vars, managerVars, uiVars, history
  <2>3. ReplyFindsManager'
    BY <1>1 DEF IInv, ReplyFindsManager, Awaited, vars, busVars, managerVars
  <2>4. LastAsked' /\ NothingAsked'
    BY <1>1, AskedKept DEF IInv, NothingAsked, vars, busVars, history
  <2> QED  BY <2>1, <2>2, <2>3, <2>4 DEF IInv
<1>2. ASSUME IInv, Next PROVE IInv'
  <2>1. TypeOK' /\ IconFollows' /\ Told' /\ LastAsked' /\ NothingAsked'
    BY <1>2, TypeNext, IconNext, ToldNext, AskedNext, NothingAskedNext DEF IInv
  <2>2. ReplyFindsManager'
    BY <1>2, ReplyMainLoop, ReplyUser, ReplyDaemon DEF IInv, Next
  <2> QED  BY <2>1, <2>2 DEF IInv
<1> QED  BY <1>1, <1>2

(* IInv holds in every reachable state. *)
THEOREM Invariance == Spec => []IInv
  BY InvInit, InvNext, PTL DEF Spec

(* The icon follows the state that is known, and says that ConnMan does not *)
(* run only while nothing is known of the daemon.                           *)
THEOREM IconTells == Spec => []IconTruthful
<1>1. IInv => IconTruthful
  <2> SUFFICES ASSUME IInv, manager, call = 0, ~failed, "State" \notin source
               PROVE  icon # Tooltip("unknown")
    BY DEF IInv, NotRunningIfUntold, IconTruthful
  <2>1. icon = Tooltip(known.State) /\ known.State \in States \ {"unknown"}
    BY DEF IInv, IconFollows, Told, TypeOK, connman_manager_get_state
  <2> QED  BY <2>1, Tooltips
<1> QED  BY <1>1, Invariance, PTL

(* get_properties_callback, which does not check it, always has a manager,  *)
(* and a call that is pending is answered or cancelled.                     *)
THEOREM RepliesFindManager == Spec => []ReplyFindsManager
<1>1. IInv => ReplyFindsManager
  BY DEF IInv
<1> QED  BY <1>1, Invariance, PTL

(* The last click on an airplane mode item prevails, however many calls and *)
(* changes are on their way.                                                *)
THEOREM LastClickPrevails == Spec => []AirplaneAsAsked
<1>1. IInv => AirplaneAsAsked
  <2> SUFFICES ASSUME IInv, ~Has(outbox, "SetProperty"), wanted # "none"
               PROVE  mode.OfflineMode = (wanted = "set")
    BY DEF AirplaneAsAsked
  <2>1. ASSUME NEW i \in DOMAIN outbox, outbox[i] = SetOfflineMode(wanted = "set")
        PROVE  FALSE
    BY <2>1 DEF Has, SetOfflineMode
  <2> QED  BY <2>1 DEF IInv, LastAsked
<1> QED  BY <1>1, Invariance, PTL
-----------------------------------------------------------------------------
(* What is known of the daemon is what the daemon has.                      *)

(* The end of a daemon that is gone is still to be handled: behind each     *)
(* start that is, and in any case if there is a manager.                    *)
EndsComing ==
    ~alive =>
      /\ manager => Has(inbox, "down")
      /\ \A i \in DOMAIN inbox : inbox[i].type = "up" =>
           \E j \in DOMAIN inbox : j > i /\ inbox[j].type = "down"

(* The message m answers the call n.                                        *)
Answers(m, n) == m.type \in {"properties", "error"} /\ m.serial = n

(* The pending call is in the outbox or answered in the inbox, once.        *)
OneAnswer ==
    /\ call <= serial
    /\ \A i \in DOMAIN outbox :
         outbox[i].type = "GetProperties" => outbox[i].serial <= serial
    /\ \A i \in DOMAIN inbox :
         inbox[i].type \in {"properties", "error"} => inbox[i].serial <= serial
    /\ \A i, j \in DOMAIN inbox :
         Answers(inbox[i], call) /\ Answers(inbox[j], call) => i = j
    /\ \A i, j \in DOMAIN outbox :
         outbox[i] = GetProperties(call) /\ outbox[j] = GetProperties(call) => i = j
    /\ \A i \in DOMAIN inbox, j \in DOMAIN outbox :
         ~(Answers(inbox[i], call) /\ outbox[j] = GetProperties(call))

(* A call that an earlier manager made is served before the pending one.    *)
StaleFirst ==
    /\ ~alive => outbox = <<>>
    /\ manager => \A i \in DOMAIN outbox :
         outbox[i].type = "GetProperties" /\ outbox[i].serial # call
           => \E j \in DOMAIN outbox : j > i /\ outbox[j] = GetProperties(call)

(* The message m will tell the value of p, n being the pending call.        *)
Tells(m, p, n) ==
    \/ m.type = "properties" /\ m.serial = n
    \/ m.type = "PropertyChanged" /\ m.name = p

Value(m, p) == IF m.type = "properties" THEN m.mode[p] ELSE m.value

(* The last message about p tells its value; without one it is known.       *)
LastWord(p) ==
    \/ \E i \in DOMAIN inbox :
         /\ Tells(inbox[i], p, call)
         /\ Value(inbox[i], p) = mode[p]
         /\ \A j \in DOMAIN inbox : j > i => ~Tells(inbox[j], p, call)
    \/ /\ \A j \in DOMAIN inbox : ~Tells(inbox[j], p, call)
       /\ known[p] = Read(p, mode[p])

(* It is so, or will be asked for, or there is nothing to be known.         *)
Coming(p) ==
    \/ Has(inbox, "down")
    \/ \E i \in DOMAIN outbox : outbox[i] = GetProperties(call)
    \/ \E i \in DOMAIN inbox : inbox[i] = Error(call)
    \/ LastWord(p)

KnownRight ==
    \A p \in Properties :
      manager /\ alive /\ ~failed /\ p \notin missed => Coming(p)

(* The ends of a queue, by position.                                        *)
LEMMA HeadFacts ==
    ASSUME NEW S, NEW q \in Seq(S), q # <<>>
    PROVE  /\ 1 \in DOMAIN q /\ q[1] = Head(q) /\ Head(q) \in S
           /\ \A i \in DOMAIN q :
                i = 1 \/ (i > 1 /\ i - 1 \in DOMAIN Tail(q) /\ Tail(q)[i - 1] = q[i])
           /\ \A i \in DOMAIN Tail(q) :
                i \in Nat /\ i + 1 \in DOMAIN q /\ i + 1 > 1 /\ Tail(q)[i] = q[i + 1]
<1>1. Len(q) \in Nat /\ DOMAIN q = 1 .. Len(q) /\ Len(q) # 0
  BY LenProperties, EmptySeq
<1>2. /\ Tail(q) \in Seq(S) /\ Len(Tail(q)) = Len(q) - 1
      /\ \A i \in 1 .. Len(Tail(q)) : Tail(q)[i] = q[i + 1]
      /\ q[1] = Head(q) /\ Head(q) \in S
  BY HeadTailProperties
<1>3. DOMAIN Tail(q) = 1 .. (Len(q) - 1)
  BY <1>2, LenProperties
<1> QED  BY <1>1, <1>2, <1>3

(* The members of the inbox and the outbox are messages and calls.          *)
LEMMA Members ==
    ASSUME TypeOK
    PROVE  /\ \A i \in DOMAIN inbox : inbox[i] \in Messages /\ i \in Nat
           /\ \A i \in DOMAIN outbox : outbox[i] \in Calls /\ i \in Nat
  BY ElementOfSeq, LenProperties DEF TypeOK

(* No message has the serial 0.                                             *)
LEMMA NoneZero ==
    ASSUME TypeOK
    PROVE  /\ \A i \in DOMAIN inbox :
                ~Answers(inbox[i], 0) /\ inbox[i] # Error(0)
           /\ \A i \in DOMAIN outbox : outbox[i] # GetProperties(0)
<1>1. \A i \in DOMAIN inbox :
        inbox[i].type \in {"properties", "error"} => inbox[i].serial \in Serials
  BY Members, Received
<1>2. \A i \in DOMAIN outbox :
        outbox[i].type = "GetProperties" => outbox[i].serial \in Serials
  BY Members, Served
<1> QED  BY <1>1, <1>2 DEF Answers, Error, GetProperties, Serials

(* Which messages are answers, ends or tell a value.                        *)
LEMMA Notes ==
    /\ \A n : ~Answers(Note("up"), n) /\ ~Answers(Note("down"), n)
    /\ \A n, p, v : ~Answers(Changed(p, v), n)
    /\ \A n, p : ~Tells(Note("up"), p, n) /\ ~Tells(Note("down"), p, n)
    /\ \A n, p, k : ~Tells(Error(k), p, n)
    /\ \A n, p, q, v : Tells(Changed(q, v), p, n) <=> q = p
    /\ \A p, v : Value(Changed(p, v), p) = v
    /\ \A k, m, p : Tells(Answer(k, m), p, k) /\ Value(Answer(k, m), p) = m[p]
    /\ \A v : SetOfflineMode(v).type = "SetProperty"
  BY DEF Answers, Tells, Note, Changed, Error, Value, Answer, SetOfflineMode
-----------------------------------------------------------------------------
(* Steps on the queues that keep one answer for the call.                   *)
LEMMA OnePop ==
    ASSUME TypeOK, OneAnswer, inbox # <<>>, inbox' = Tail(inbox),
           UNCHANGED <<outbox, serial>>, call' = call \/ call' = 0
    PROVE  OneAnswer'
<1>0. call \in Nat /\ serial \in Nat /\ inbox \in Seq(Messages)
  BY DEF TypeOK
<1>1. \A i \in DOMAIN inbox' :
        i \in Nat /\ i + 1 \in DOMAIN inbox /\ inbox'[i] = inbox[i + 1]
  BY <1>0, HeadFacts
<1>2. \A i, j \in DOMAIN inbox' : i + 1 = j + 1 => i = j
  BY <1>1
<1> QED  BY <1>0, <1>1, <1>2, NoneZero DEF OneAnswer

LEMMA OneMore ==
    ASSUME TypeOK, OneAnswer, NEW m \in Messages, inbox' = Append(inbox, m),
           m.type \notin {"properties", "error"},
           UNCHANGED <<call, serial>>,
           \/ UNCHANGED outbox
           \/ outbox # <<>> /\ outbox' = Tail(outbox)
           \/ outbox' = <<>>
    PROVE  OneAnswer'
<1>0. inbox \in Seq(Messages) /\ outbox \in Seq(Calls)
  BY DEF TypeOK
<1>1. \A i \in DOMAIN inbox' :
        \/ i \in DOMAIN inbox /\ inbox'[i] = inbox[i]
        \/ inbox'[i].type \notin {"properties", "error"}
  BY <1>0, QueueAppend
<1>2. CASE UNCHANGED outbox
  BY <1>1, <1>2 DEF OneAnswer, Answers
<1>3. CASE outbox' = <<>>
  BY <1>1, <1>3 DEF OneAnswer, Answers
<1>4. CASE outbox # <<>> /\ outbox' = Tail(outbox)
  <2>1. /\ \A i \in DOMAIN outbox' :
             i \in Nat /\ i + 1 \in DOMAIN outbox /\ outbox'[i] = outbox[i + 1]
        /\ \A i, j \in DOMAIN outbox' : i + 1 = j + 1 => i = j
    BY <1>0, <1>4, HeadFacts
  <2>2. \A i \in DOMAIN inbox' :
          Answers(inbox'[i], call) => i \in DOMAIN inbox /\ inbox'[i] = inbox[i]
    BY <1>1 DEF Answers
  <2>3. /\ \A i \in DOMAIN inbox' :
             inbox'[i].type \in {"properties", "error"} => inbox'[i].serial <= serial
        /\ \A i, j \in DOMAIN inbox' :
             Answers(inbox'[i], call) /\ Answers(inbox'[j], call) => i = j
    BY <1>1, <2>2 DEF OneAnswer
  <2>4. /\ \A i \in DOMAIN outbox' :
             outbox'[i].type = "GetProperties" => outbox'[i].serial <= serial
        /\ \A i, j \in DOMAIN outbox' :
             outbox'[i] = GetProperties(call) /\ outbox'[j] = GetProperties(call)
               => i = j
    BY <2>1 DEF OneAnswer
  <2>5. \A i \in DOMAIN inbox', j \in DOMAIN outbox' :
          ~(Answers(inbox'[i], call) /\ outbox'[j] = GetProperties(call))
    BY <2>1, <2>2 DEF OneAnswer
  <2> QED  BY <2>3, <2>4, <2>5 DEF OneAnswer
<1> QED  BY <1>2, <1>3, <1>4

LEMMA OneCalled ==
    ASSUME TypeOK, OneAnswer, UNCHANGED <<inbox, call, serial>>,
           \/ \E v \in BOOLEAN : outbox' = Append(outbox, SetOfflineMode(v))
           \/ outbox # <<>> /\ outbox' = Tail(outbox)
    PROVE  OneAnswer'
<1>0. outbox \in Seq(Calls)
  BY DEF TypeOK
<1>1. CASE \E v \in BOOLEAN : outbox' = Append(outbox, SetOfflineMode(v))
  <2>1. \A i \in DOMAIN outbox' :
          \/ i \in DOMAIN outbox /\ outbox'[i] = outbox[i]
          \/ outbox'[i].type = "SetProperty"
    BY <1>0, <1>1, QueueAppend, Sent, Notes
  <2> QED  BY <2>1 DEF OneAnswer, GetProperties
<1>2. CASE outbox # <<>> /\ outbox' = Tail(outbox)
  <2>1. /\ \A i \in DOMAIN outbox' :
             i \in Nat /\ i + 1 \in DOMAIN outbox /\ outbox'[i] = outbox[i + 1]
        /\ \A i, j \in DOMAIN outbox' : i + 1 = j + 1 => i = j
    BY <1>0, <1>2, HeadFacts
  <2> QED  BY <2>1 DEF OneAnswer
<1> QED  BY <1>1, <1>2

(* The call leaves the outbox when its answer comes to the inbox.           *)
LEMMA OneServed ==
    ASSUME TypeOK, OneAnswer, outbox # <<>>, outbox' = Tail(outbox),
           Head(outbox).type = "GetProperties",
           NEW m \in Messages, inbox' = Append(inbox, m),
           Answers(m, Head(outbox).serial),
           UNCHANGED <<call, serial>>
    PROVE  OneAnswer'
<1>0. inbox \in Seq(Messages) /\ outbox \in Seq(Calls)
  BY DEF TypeOK
<1>1. PICK n : n = Head(outbox).serial
  OBVIOUS
<1>2. /\ 1 \in DOMAIN outbox /\ outbox[1] = GetProperties(n) /\ n <= serial
      /\ outbox[1].type = "GetProperties" /\ outbox[1].serial = n
    <2>1. /\ 1 \in DOMAIN outbox /\ outbox[1] = Head(outbox)
          /\ Head(outbox) = GetProperties(n)
      BY <1>0, <1>1, HeadFacts, Served
    <2> QED  BY <1>1, <2>1 DEF OneAnswer
<1>3. /\ \A i \in DOMAIN outbox' :
           /\ i \in Nat /\ i + 1 \in DOMAIN outbox /\ i + 1 # 1
           /\ outbox'[i] = outbox[i + 1]
      /\ \A i, j \in DOMAIN outbox' : i + 1 = j + 1 => i = j
  BY <1>0, HeadFacts
<1>4. \A i \in DOMAIN inbox' :
        \/ i \in DOMAIN inbox /\ inbox'[i] = inbox[i]
        \/ i = Len(inbox) + 1 /\ inbox'[i] = m /\ Answers(inbox'[i], n)
             /\ inbox'[i].serial = n
  BY <1>0, <1>1, QueueAppend DEF Answers
<1>5. CASE n = call
  <2>1. /\ \A i \in DOMAIN inbox : ~Answers(inbox[i], call)
        /\ \A i \in DOMAIN outbox' : outbox'[i] # GetProperties(call)
    BY <1>2, <1>3, <1>5 DEF OneAnswer
  <2> QED  BY <1>2, <1>3, <1>4, <1>5, <2>1 DEF OneAnswer, Answers
<1>6. CASE n # call
  BY <1>2, <1>3, <1>4, <1>6 DEF OneAnswer, Answers
<1> QED  BY <1>5, <1>6

(* A new call has a serial that no message has.                             *)
LEMMA OneUp ==
    ASSUME TypeOK, OneAnswer, connman_up
    PROVE  OneAnswer'
<1>0. /\ inbox \in Seq(Messages) /\ outbox \in Seq(Calls)
      /\ serial \in Nat /\ call \in Nat
      /\ call' = serial + 1 /\ serial' = serial + 1 /\ inbox # <<>>
  BY DEF TypeOK, connman_up
<1>1. /\ \A i \in DOMAIN Tail(inbox) :
           /\ i \in Nat /\ i + 1 \in DOMAIN inbox
           /\ Tail(inbox)[i] = inbox[i + 1]
      /\ Tail(inbox) \in Seq(Messages)
  BY <1>0, HeadFacts, QueueTail
<1>2. /\ \A i \in DOMAIN inbox :
           inbox[i].type \in {"properties", "error"} =>
             inbox[i].serial \in Nat /\ inbox[i].serial <= serial
      /\ \A i \in DOMAIN outbox :
           outbox[i].type = "GetProperties" =>
             outbox[i].serial \in Nat /\ outbox[i].serial <= serial
  BY Members, Received, Served DEF OneAnswer, Serials
<1>3. /\ \A i \in DOMAIN Tail(inbox) :
           /\ ~Answers(Tail(inbox)[i], serial + 1)
           /\ Tail(inbox)[i].type \in {"properties", "error"} =>
                Tail(inbox)[i].serial <= serial + 1
      /\ \A i \in DOMAIN outbox :
           /\ outbox[i] # GetProperties(serial + 1)
           /\ outbox[i].type = "GetProperties" => outbox[i].serial <= serial + 1
  BY <1>0, <1>1, <1>2 DEF Answers, GetProperties
<1>4. CASE alive
  <2>1. /\ inbox' = Tail(inbox)
        /\ outbox' = Append(outbox, GetProperties(serial + 1))
    BY <1>0, <1>4 DEF connman_up
  <2>2. \A i \in DOMAIN outbox' :
          \/ i \in DOMAIN outbox /\ outbox'[i] = outbox[i]
          \/ /\ i = Len(outbox) + 1 /\ outbox'[i].serial = serial + 1
    BY <1>0, <2>1, QueueAppend, Sent DEF Serials, GetProperties
  <2> QED  BY <1>0, <1>3, <2>1, <2>2 DEF OneAnswer
<1>5. CASE ~alive
  <2>1. /\ inbox' = Append(Tail(inbox), Error(serial + 1))
        /\ outbox' = outbox
    BY <1>0, <1>5 DEF connman_up
  <2>2. \A i \in DOMAIN inbox' :
          \/ i \in DOMAIN Tail(inbox) /\ inbox'[i] = Tail(inbox)[i]
          \/ /\ i = Len(Tail(inbox)) + 1 /\ inbox'[i].serial = serial + 1
    BY <1>0, <1>1, <2>1, QueueAppend, Sent DEF Serials, Error
  <2> QED  BY <1>0, <1>3, <2>1, <2>2 DEF OneAnswer
<1> QED  BY <1>4, <1>5

(* A change of a property, heard of if the bus has the rule.                *)
LEMMA SetFacts ==
    ASSUME NEW p, NEW v, Set(p, v),
           \/ p = "State" /\ v \in DaemonStates
           \/ p = "OfflineMode" /\ v \in BOOLEAN
    PROVE  /\ Changed(p, v) \in Messages
           /\ Changed(p, v).type \notin {"properties", "error", "up", "down"}
           /\ inbox' = Append(inbox, Changed(p, v)) \/ UNCHANGED inbox
  BY Sent DEF Set, Changed

(* Every step keeps one answer for the call.                                *)
LEMMA OneNext ==
    ASSUME TypeOK, OneAnswer, Next
    PROVE  OneAnswer'
<1>same. ASSUME UNCHANGED <<inbox, outbox, call, serial>> PROVE OneAnswer'
  BY <1>same DEF OneAnswer
<1> USE DEF managerVars, busVars
<1>1. CASE MainLoop
  <2>1. CASE connman_up
    BY <2>1, OneUp
  <2>2. CASE connman_up_watching \/ \E p \in Properties : property_changed(p)
    BY <2>2, <1>same DEF connman_up_watching, property_changed
  <2>3. CASE \/ connman_up_again \/ connman_down \/ get_properties_callback
             \/ get_properties_error \/ DropReply \/ property_changed_signal_cb
    <3>1. /\ inbox # <<>> /\ inbox' = Tail(inbox) /\ UNCHANGED <<outbox, serial>>
          /\ call' = call \/ call' = 0
      BY <2>3 DEF connman_up_again, connman_down, get_properties_callback,
           get_properties_error, DropReply, property_changed_signal_cb, Receive
    <3> QED  BY <3>1, OnePop
  <2> QED  BY <1>1, <2>1, <2>2, <2>3 DEF MainLoop
<1>2. CASE User
  <2>1. CASE cui_popup_right_menu \/ cui_popdown_right_menu
    BY <2>1, <1>same DEF cui_popup_right_menu, cui_popdown_right_menu
  <2>2. ASSUME NEW item \in {"set", "unset"}, cui_item_offlinemode_activate(item)
        PROVE  OneAnswer'
    <3>1. (~connman_manager_get_offlinemode) \in BOOLEAN
      OBVIOUS
    <3>2. /\ UNCHANGED <<inbox, call, serial>>
          /\ \/ UNCHANGED outbox
             \/ \E v \in BOOLEAN : outbox' = Append(outbox, SetOfflineMode(v))
      BY <2>2, <3>1 DEF cui_item_offlinemode_activate, Click
    <3> QED  BY <1>same, <3>2, OneCalled
  <2> QED  BY <1>2, <2>1, <2>2 DEF User
<1>3. CASE Daemon
  <2>1. CASE BusAnswer
    BY <2>1, <1>same, OneMore, Sent DEF BusAnswer, Note
  <2>2. ASSUME NEW p, NEW v, DaemonChange(p, v),
               \/ p = "State" /\ v \in DaemonStates
               \/ p = "OfflineMode" /\ v \in BOOLEAN
        PROVE  OneAnswer'
    BY <2>2, <1>same, OneMore, SetFacts DEF DaemonChange
  <2>3. CASE DaemonServe
    <3>1. outbox # <<>> /\ outbox' = Tail(outbox) /\ UNCHANGED <<call, serial>>
      BY <2>3 DEF DaemonServe
    <3>2. PICK m : m = Head(outbox) /\ m \in Calls
      BY <3>1, QueueTail DEF TypeOK
    <3>3. CASE m.type = "GetProperties"
      <4>1. inbox' = Append(inbox, Answer(m.serial, mode))
        BY <2>3, <3>2, <3>3 DEF DaemonServe
      <4>2. /\ Answer(m.serial, mode) \in Messages
            /\ Answers(Answer(m.serial, mode), m.serial)
        BY <3>2, <3>3, Served, Sent DEF TypeOK, Answer, Answers
      <4> QED  BY <3>1, <3>2, <3>3, <4>1, <4>2, OneServed
    <3>4. CASE m.type = "SetProperty" /\ m.on # mode.OfflineMode
      <4>1. Set("OfflineMode", m.on) /\ m.on \in BOOLEAN
        BY <2>3, <3>2, <3>4, Served DEF DaemonServe
      <4> QED  BY <3>1, <4>1, SetFacts, OneMore, OneCalled
    <3>5. CASE /\ m.type # "GetProperties"
               /\ ~(m.type = "SetProperty" /\ m.on # mode.OfflineMode)
      <4>1. UNCHANGED inbox
        BY <2>3, <3>2, <3>5 DEF DaemonServe
      <4> QED  BY <3>1, <4>1, OneCalled
    <3> QED  BY <3>3, <3>4, <3>5
  <2>4. CASE DaemonError
    <3>1. /\ outbox # <<>> /\ outbox' = Tail(outbox)
          /\ Head(outbox).type = "GetProperties"
          /\ inbox' = Append(inbox, Error(Head(outbox).serial))
          /\ UNCHANGED <<call, serial>>
      BY <2>4 DEF DaemonError
    <3>2. /\ Error(Head(outbox).serial) \in Messages
          /\ Answers(Error(Head(outbox).serial), Head(outbox).serial)
      BY <3>1, QueueTail, Served, Sent DEF TypeOK, Error, Answers
    <3> QED  BY <3>1, <3>2, OneServed
  <2>5. CASE DaemonDown
    BY <2>5, OneMore, Sent DEF DaemonDown, Note
  <2>6. CASE DaemonUp
    BY <2>6, OneMore, Sent DEF DaemonUp, Note
  <2> QED  BY <1>3, <2>1, <2>2, <2>3, <2>4, <2>5, <2>6 DEF Daemon
<1> QED  BY <1>1, <1>2, <1>3 DEF Next
-----------------------------------------------------------------------------
(* An end that is to be handled stays so until it is, and a daemon that     *)
(* goes adds its own.                                                       *)
LEMMA EndsNext ==
    ASSUME TypeOK, EndsComing, Next
    PROVE  EndsComing'
<1>0. inbox \in Seq(Messages) /\ \A i \in DOMAIN inbox : i \in Nat
  BY Members DEF TypeOK
<1>alive. ASSUME alive' PROVE EndsComing'
  BY <1>alive DEF EndsComing
<1>same. ASSUME UNCHANGED <<inbox, alive>>, manager' => manager PROVE EndsComing'
  BY <1>same DEF EndsComing, Has
<1>pop. ASSUME inbox # <<>>, ~alive
        PROVE  /\ \A i \in DOMAIN Tail(inbox) : Tail(inbox)[i].type = "up" =>
                    \E j \in DOMAIN Tail(inbox) : j > i /\ Tail(inbox)[j].type = "down"
               /\ Head(inbox).type = "up" => Has(Tail(inbox), "down")
               /\ Head(inbox).type # "down" /\ manager => Has(Tail(inbox), "down")
  <2>1. /\ 1 \in DOMAIN inbox /\ inbox[1] = Head(inbox)
        /\ \A i \in DOMAIN inbox :
             i = 1 \/ (i > 1 /\ i - 1 \in DOMAIN Tail(inbox) /\ Tail(inbox)[i - 1] = inbox[i])
        /\ \A i \in DOMAIN Tail(inbox) :
             i \in Nat /\ i + 1 \in DOMAIN inbox /\ i + 1 > 1 /\ Tail(inbox)[i] = inbox[i + 1]
    BY <1>0, <1>pop, HeadFacts
  <2>2. ASSUME NEW i \in DOMAIN Tail(inbox), Tail(inbox)[i].type = "up"
        PROVE  \E j \in DOMAIN Tail(inbox) : j > i /\ Tail(inbox)[j].type = "down"
    <3>1. PICK j \in DOMAIN inbox : j > i + 1 /\ inbox[j].type = "down"
      BY <1>pop, <2>1, <2>2 DEF EndsComing
    <3>2. j - 1 \in DOMAIN Tail(inbox) /\ Tail(inbox)[j - 1] = inbox[j] /\ j - 1 > i
      BY <1>0, <2>1, <3>1
    <3> QED  BY <3>1, <3>2
  <2>3. ASSUME NEW j \in DOMAIN inbox, j # 1, inbox[j].type = "down"
        PROVE  Has(Tail(inbox), "down")
    BY <2>1, <2>3 DEF Has
  <2>4. Head(inbox).type = "up" => Has(Tail(inbox), "down")
    <3> SUFFICES ASSUME Head(inbox).type = "up" PROVE Has(Tail(inbox), "down")
      OBVIOUS
    <3>1. PICK j \in DOMAIN inbox : j > 1 /\ inbox[j].type = "down"
      BY <1>pop, <2>1 DEF EndsComing
    <3> QED  BY <1>0, <2>3, <3>1
  <2>5. Head(inbox).type # "down" /\ manager => Has(Tail(inbox), "down")
    BY <1>pop, <2>1, <2>3 DEF EndsComing, Has
  <2> QED  BY <2>2, <2>4, <2>5
<1> USE DEF managerVars, busVars
<1>1. CASE MainLoop
  <2>0. UNCHANGED alive
    BY <1>1 DEF MainLoop, connman_up, connman_up_watching, connman_up_again,
         connman_down, get_properties_callback, get_properties_error, DropReply,
         property_changed_signal_cb, property_changed
  <2> SUFFICES ASSUME ~alive PROVE EndsComing'
    BY <1>alive, <2>0
  <2>1. CASE connman_up
    <3>1. PICK q : q = Tail(inbox)
      OBVIOUS
    <3>2. /\ inbox # <<>> /\ Head(inbox).type = "up"
          /\ inbox' = Append(q, Error(serial'))
          /\ serial' = serial + 1
      BY <2>1, <3>1 DEF connman_up
    <3>3. q \in Seq(Messages) /\ Error(serial') \in Messages
          /\ Error(serial').type # "up"
      BY <1>0, <3>1, <3>2, QueueTail, Sent DEF TypeOK, Serials, Error
    <3>4. /\ \A i \in DOMAIN q : i \in DOMAIN inbox' /\ inbox'[i] = q[i]
          /\ \A i \in DOMAIN inbox' :
               (i \in DOMAIN q /\ inbox'[i] = q[i]) \/ inbox'[i].type # "up"
      BY <3>2, <3>3, QueueAppend
    <3>5. /\ \A i \in DOMAIN q : q[i].type = "up" =>
               \E j \in DOMAIN q : j > i /\ q[j].type = "down"
          /\ Has(q, "down")
      <4>1. inbox # <<>> /\ Head(inbox).type = "up" /\ ~alive
        BY <3>2
      <4> QED  BY <1>pop, <3>1, <4>1
    <3> QED  BY <3>4, <3>5 DEF EndsComing, Has
  <2>2. CASE connman_up_watching \/ \E p \in Properties : property_changed(p)
    BY <2>2, <1>same DEF connman_up_watching, property_changed
  <2>3. CASE \/ connman_up_again \/ connman_down \/ get_properties_callback
             \/ get_properties_error \/ DropReply \/ property_changed_signal_cb
    <3>1. /\ inbox # <<>> /\ inbox' = Tail(inbox)
          /\ manager' => manager /\ Head(inbox).type # "down"
      BY <2>3 DEF connman_up_again, connman_down, get_properties_callback,
           get_properties_error, DropReply, property_changed_signal_cb, Receive
    <3> QED  BY <1>pop, <3>1 DEF EndsComing
  <2> QED  BY <1>1, <2>1, <2>2, <2>3 DEF MainLoop
<1>2. CASE User
  BY <1>2, <1>same DEF User, cui_popup_right_menu, cui_popdown_right_menu,
     cui_item_offlinemode_activate, Click
<1>3. CASE Daemon
  <2>0. UNCHANGED manager
    BY <1>3 DEF Daemon, BusAnswer, DaemonChange, DaemonServe, DaemonError,
         DaemonDown, DaemonUp
  <2>1. CASE BusAnswer
    BY <2>0, <2>1, <1>alive, <1>same DEF BusAnswer
  <2>2. CASE \E p, v : DaemonChange(p, v)
    BY <2>2, <1>alive DEF DaemonChange
  <2>3. CASE DaemonServe
    BY <2>3, <1>alive DEF DaemonServe
  <2>4. CASE DaemonError
    BY <2>4, <1>alive DEF DaemonError
  <2>5. CASE DaemonDown
    <3>1. /\ Len(inbox) + 1 \in DOMAIN inbox'
          /\ inbox'[Len(inbox) + 1].type = "down"
          /\ \A i \in DOMAIN inbox' :
               \/ i \in DOMAIN inbox /\ Len(inbox) + 1 > i
               \/ inbox'[i].type = "down"
      <4>1. inbox' = Append(inbox, Note("down")) /\ Note("down").type = "down"
        BY <2>5 DEF DaemonDown, Note
      <4> QED  BY <1>0, <4>1, QueueAppend, Sent, LenProperties
    <3> QED  BY <3>1 DEF EndsComing, Has
  <2>6. CASE DaemonUp
    BY <2>6, <1>alive DEF DaemonUp
  <2> QED  BY <1>3, <2>1, <2>2, <2>3, <2>4, <2>5, <2>6 DEF Daemon
<1> QED  BY <1>1, <1>2, <1>3 DEF Next
(* A new manager calls behind the calls of the one before; when its call is *)
(* answered those were served.                                              *)
LEMMA StaleNext ==
    ASSUME TypeOK, OneAnswer, StaleFirst, Next
    PROVE  StaleFirst'
<1>0. outbox \in Seq(Calls) /\ \A i \in DOMAIN outbox : i \in Nat
  BY Members DEF TypeOK
<1>same. ASSUME UNCHANGED <<outbox, alive>>, UNCHANGED call, manager' => manager
         PROVE  StaleFirst'
  BY <1>same DEF StaleFirst
<1> USE DEF managerVars, busVars
<1>1. CASE connman_up
  <2>1. alive' = alive /\ (~alive => outbox' = outbox)
    BY <1>1 DEF connman_up
  <2>2. CASE ~alive
    BY <2>1, <2>2 DEF StaleFirst
  <2>3. CASE alive
    <3>1. /\ outbox' = Append(outbox, GetProperties(call'))
          /\ GetProperties(call') \in Calls
      BY <1>1, <2>3, Sent DEF connman_up, TypeOK, Serials
    <3>2. /\ Len(outbox) + 1 \in DOMAIN outbox' /\ Len(outbox) \in Nat
          /\ outbox'[Len(outbox) + 1] = GetProperties(call')
          /\ \A i \in DOMAIN outbox' :
               (i \in Nat /\ i <= Len(outbox)) \/ outbox'[i] = GetProperties(call')
      BY <1>0, <3>1, QueueAppend, LenProperties
    <3>3. GetProperties(call').serial = call'
      BY DEF GetProperties
    <3> QED  BY <2>1, <2>3, <3>2, <3>3 DEF StaleFirst
  <2> QED  BY <2>2, <2>3
<1>2. CASE get_properties_callback \/ get_properties_error
  <2>1. /\ inbox # <<>> /\ Answers(Head(inbox), call)
        /\ UNCHANGED <<outbox, alive, manager>>
    BY <1>2 DEF get_properties_callback, get_properties_error, Receive, Answers
  <2>2. \A i \in DOMAIN outbox : outbox[i] # GetProperties(call)
    <3>1. 1 \in DOMAIN inbox /\ inbox[1] = Head(inbox)
      BY <2>1, HeadFacts DEF TypeOK
    <3> QED  BY <2>1, <3>1 DEF OneAnswer
  <2>3. manager => \A i \in DOMAIN outbox : outbox[i].type # "GetProperties"
    <3>1. \A i \in DOMAIN outbox :
            outbox[i].type = "GetProperties" => outbox[i] = GetProperties(outbox[i].serial)
      BY Members, Served
    <3> QED  BY <2>2, <3>1 DEF StaleFirst
  <2> QED  BY <2>1, <2>3 DEF StaleFirst
<1>3. CASE MainLoop /\ ~connman_up /\ ~get_properties_callback /\ ~get_properties_error
  <2>1. UNCHANGED <<outbox, alive>> /\ (manager' => manager /\ UNCHANGED call)
    BY <1>3 DEF MainLoop, connman_up_watching, connman_up_again, connman_down,
         DropReply, property_changed_signal_cb, property_changed
  <2> QED  BY <2>1 DEF StaleFirst
<1>4. ASSUME UNCHANGED <<manager, call, alive>>,
             \/ outbox # <<>> /\ outbox' = Tail(outbox)
             \/ alive /\ \E v \in BOOLEAN : outbox' = Append(outbox, SetOfflineMode(v))
      PROVE  StaleFirst'
  <2>1. CASE outbox # <<>> /\ outbox' = Tail(outbox)
    <3>1. /\ \A i \in DOMAIN outbox :
               i = 1 \/ (i - 1 \in DOMAIN outbox' /\ outbox'[i - 1] = outbox[i])
          /\ \A i \in DOMAIN outbox' :
               /\ i \in Nat /\ i + 1 \in DOMAIN outbox /\ i + 1 > 1
               /\ outbox'[i] = outbox[i + 1]
      BY <1>0, <2>1, HeadFacts
    <3>2. ASSUME manager, NEW i \in DOMAIN outbox',
                 outbox'[i].type = "GetProperties", outbox'[i].serial # call
          PROVE  \E j \in DOMAIN outbox' : j > i /\ outbox'[j] = GetProperties(call)
      <4>1. PICK j \in DOMAIN outbox : j > i + 1 /\ outbox[j] = GetProperties(call)
        BY <3>1, <3>2 DEF StaleFirst
      <4>2. j # 1 /\ j - 1 > i
        BY <1>0, <3>1, <4>1
      <4> QED  BY <3>1, <4>1, <4>2
    <3>3. alive
      BY <2>1 DEF StaleFirst
    <3> QED  BY <1>4, <3>2, <3>3 DEF StaleFirst
  <2>2. CASE alive /\ \E v \in BOOLEAN : outbox' = Append(outbox, SetOfflineMode(v))
    <3>1. /\ \A i \in DOMAIN outbox : i \in DOMAIN outbox' /\ outbox'[i] = outbox[i]
          /\ \A i \in DOMAIN outbox' :
               (i \in DOMAIN outbox /\ outbox'[i] = outbox[i])
                 \/ outbox'[i].type = "SetProperty"
      BY <1>0, <2>2, QueueAppend, Sent, Notes
    <3> QED  BY <1>4, <2>2, <3>1 DEF StaleFirst
  <2> QED  BY <1>4, <2>1, <2>2
<1>5. CASE User
  <2>1. CASE cui_popup_right_menu \/ cui_popdown_right_menu
    BY <2>1, <1>same DEF cui_popup_right_menu, cui_popdown_right_menu
  <2>2. ASSUME NEW item \in {"set", "unset"}, cui_item_offlinemode_activate(item)
        PROVE  StaleFirst'
    <3>1. (~connman_manager_get_offlinemode) \in BOOLEAN
      OBVIOUS
    <3>2. /\ UNCHANGED <<manager, call, alive>>
          /\ \/ UNCHANGED outbox
             \/ alive /\ \E v \in BOOLEAN : outbox' = Append(outbox, SetOfflineMode(v))
      BY <2>2, <3>1 DEF cui_item_offlinemode_activate, Click
    <3> QED  BY <1>4, <1>same, <3>2
  <2> QED  BY <1>5, <2>1, <2>2 DEF User
<1>6. CASE Daemon
  <2>1. CASE BusAnswer \/ \E p, v : DaemonChange(p, v)
    BY <2>1, <1>same DEF BusAnswer, DaemonChange
  <2>2. CASE DaemonServe \/ DaemonError
    BY <2>2, <1>4 DEF DaemonServe, DaemonError
  <2>3. CASE DaemonDown
    BY <2>3 DEF DaemonDown, StaleFirst
  <2>4. CASE DaemonUp
    BY <2>4 DEF DaemonUp, StaleFirst
  <2> QED  BY <1>6, <2>1, <2>2, <2>3, <2>4 DEF Daemon
<1> QED  BY <1>1, <1>2, <1>3, <1>5, <1>6 DEF Next
-----------------------------------------------------------------------------
(* Steps that keep a value coming, or known.                                *)

(* A message that says nothing of p is received.                            *)
LEMMA ComingPop ==
    ASSUME TypeOK, NEW p, Coming(p), inbox # <<>>, inbox' = Tail(inbox),
           UNCHANGED <<outbox, call, mode>>, known'[p] = known[p],
           Head(inbox).type # "down", Head(inbox) # Error(call),
           ~Tells(Head(inbox), p, call)
    PROVE  Coming(p)'
<1>1. /\ 1 \in DOMAIN inbox /\ inbox[1] = Head(inbox)
      /\ \A i \in DOMAIN inbox :
           i = 1 \/ (i > 1 /\ i - 1 \in DOMAIN inbox' /\ inbox'[i - 1] = inbox[i])
      /\ \A i \in DOMAIN inbox' :
           i \in Nat /\ i + 1 \in DOMAIN inbox /\ inbox'[i] = inbox[i + 1]
  BY HeadFacts DEF TypeOK
<1>2. CASE Has(inbox, "down")
  BY <1>1, <1>2 DEF Has, Coming
<1>3. CASE \E i \in DOMAIN outbox : outbox[i] = GetProperties(call)
  BY <1>3 DEF Coming
<1>4. CASE \E i \in DOMAIN inbox : inbox[i] = Error(call)
  BY <1>1, <1>4 DEF Coming
<1>5. ASSUME NEW i \in DOMAIN inbox, Tells(inbox[i], p, call),
             Value(inbox[i], p) = mode[p],
             \A j \in DOMAIN inbox : j > i => ~Tells(inbox[j], p, call)
      PROVE  LastWord(p)'
  <2>1. i > 1 /\ i \in Nat /\ i - 1 \in DOMAIN inbox' /\ inbox'[i - 1] = inbox[i]
    BY <1>1, <1>5, Members
  <2>2. \A j \in DOMAIN inbox' : j > i - 1 => ~Tells(inbox'[j], p, call)
    BY <1>1, <1>5, <2>1
  <2> QED  BY <1>5, <2>1, <2>2 DEF LastWord
<1>6. CASE LastWord(p)
  BY <1>1, <1>5, <1>6 DEF LastWord, Coming
<1> QED  BY <1>2, <1>3, <1>4, <1>6 DEF Coming

(* The last word about p was received, or it is still to come.              *)
LEMMA ComingHeard ==
    ASSUME TypeOK, NEW p, LastWord(p), inbox # <<>>, inbox' = Tail(inbox),
           UNCHANGED mode, Tells(Head(inbox), p, call),
           known'[p] = Read(p, Value(Head(inbox), p)),
           \A i \in DOMAIN inbox :
             i # 1 => (Tells(inbox[i], p, call') <=> Tells(inbox[i], p, call))
    PROVE  LastWord(p)'
<1>1. /\ 1 \in DOMAIN inbox /\ inbox[1] = Head(inbox)
      /\ \A i \in DOMAIN inbox :
           i = 1 \/ (i > 1 /\ i - 1 \in DOMAIN inbox' /\ inbox'[i - 1] = inbox[i])
      /\ \A i \in DOMAIN inbox' :
           i \in Nat /\ i + 1 \in DOMAIN inbox /\ i + 1 > 1 /\ i + 1 # 1
             /\ inbox'[i] = inbox[i + 1]
  BY HeadFacts DEF TypeOK
<1>2. PICK i \in DOMAIN inbox :
        /\ Tells(inbox[i], p, call) /\ Value(inbox[i], p) = mode[p]
        /\ \A j \in DOMAIN inbox : j > i => ~Tells(inbox[j], p, call)
  BY <1>1 DEF LastWord
<1>3. CASE i = 1
  <2>1. \A j \in DOMAIN inbox' : ~Tells(inbox'[j], p, call')
    BY <1>1, <1>2, <1>3
  <2> QED  BY <1>1, <1>2, <1>3, <2>1 DEF LastWord
<1>4. CASE i # 1
  <2>1. i > 1 /\ i \in Nat /\ i - 1 \in DOMAIN inbox' /\ inbox'[i - 1] = inbox[i]
    BY <1>1, <1>4, Members
  <2>2. \A j \in DOMAIN inbox' : j > i - 1 => ~Tells(inbox'[j], p, call')
    BY <1>1, <1>2, <2>1
  <2>3. Tells(inbox'[i - 1], p, call')
    BY <1>2, <1>4, <2>1
  <2> QED  BY <1>2, <2>1, <2>2, <2>3 DEF LastWord
<1> QED  BY <1>3, <1>4

(* A message that says nothing of p joins the inbox.                        *)
LEMMA ComingMore ==
    ASSUME TypeOK, NEW p, Coming(p), NEW m \in Messages,
           inbox' = Append(inbox, m),
           UNCHANGED <<call, known>>, mode'[p] = mode[p], ~Tells(m, p, call),
           \A i \in DOMAIN outbox : outbox[i] = GetProperties(call) =>
             \/ \E j \in DOMAIN outbox' : outbox'[j] = GetProperties(call)
             \/ m = Error(call)
    PROVE  Coming(p)'
<1>1. /\ \A i \in DOMAIN inbox : i \in DOMAIN inbox' /\ inbox'[i] = inbox[i]
      /\ \A i \in DOMAIN inbox' :
           (i \in DOMAIN inbox /\ inbox'[i] = inbox[i]) \/ inbox'[i] = m
      /\ \E i \in DOMAIN inbox' : inbox'[i] = m
  BY QueueAppend DEF TypeOK
<1>2. CASE LastWord(p)
  BY <1>1, <1>2 DEF LastWord, Coming
<1>3. CASE ~LastWord(p)
  BY <1>1, <1>3 DEF Coming, Has
<1> QED  BY <1>2, <1>3

(* A message that tells the value of p joins the inbox.                     *)
LEMMA ComingTold ==
    ASSUME TypeOK, NEW p, NEW m \in Messages, inbox' = Append(inbox, m),
           Tells(m, p, call'), Value(m, p) = mode'[p]
    PROVE  Coming(p)'
<1>1. /\ Len(inbox) + 1 \in DOMAIN inbox' /\ inbox'[Len(inbox) + 1] = m
      /\ \A i \in DOMAIN inbox' : ~(i > Len(inbox) + 1)
  <2>1. inbox \in Seq(Messages) /\ Len(inbox) \in Nat
    BY LenProperties DEF TypeOK
  <2>2. /\ \A i \in DOMAIN inbox : i \in Nat /\ i <= Len(inbox)
        /\ \A i \in DOMAIN inbox' : i \in DOMAIN inbox \/ i = Len(inbox) + 1
        /\ Len(inbox) + 1 \in DOMAIN inbox' /\ inbox'[Len(inbox) + 1] = m
    BY <2>1, QueueAppend, LenProperties
  <2> QED  BY <2>1, <2>2
<1> QED  BY <1>1 DEF Coming, LastWord

(* Calls come and go, and the one pending stays.                            *)
LEMMA ComingCalls ==
    ASSUME NEW p, Coming(p), UNCHANGED <<inbox, call, known>>, mode'[p] = mode[p],
           \A i \in DOMAIN outbox : outbox[i] = GetProperties(call) =>
             \E j \in DOMAIN outbox' : outbox'[j] = GetProperties(call)
    PROVE  Coming(p)'
  BY DEF Coming, Has, LastWord

(* Another program or the user changes a property.                          *)
LEMMA ComingSet ==
    ASSUME TypeOK, KnownRight, NEW q, NEW v, Set(q, v),
           \/ q = "State" /\ v \in DaemonStates
           \/ q = "OfflineMode" /\ v \in BOOLEAN,
           UNCHANGED <<manager, failed, call, known, alive>>,
           \A i \in DOMAIN outbox : outbox[i] = GetProperties(call) =>
             \E j \in DOMAIN outbox' : outbox'[j] = GetProperties(call)
    PROVE  KnownRight'
<1> SUFFICES ASSUME NEW p \in Properties, manager, alive, ~failed, p \notin missed'
             PROVE  Coming(p)'
  BY DEF KnownRight
<1>1. mode \in Modes /\ mode' = [mode EXCEPT ![q] = v] /\ Changed(q, v) \in Messages
  BY SetFacts DEF TypeOK, Set
<1>2. CASE p = q
  <2>1. rule
    BY <1>2 DEF Set
  <2>2. inbox' = Append(inbox, Changed(q, v)) /\ mode'[p] = v
    BY <1>1, <1>2, <2>1 DEF Set, Modes
  <2> QED  BY <1>1, <1>2, <2>2, Notes, ComingTold
<1>3. CASE p # q
  <2>1. p \notin missed /\ mode'[p] = mode[p]
    BY <1>1, <1>3 DEF Set, Modes, Properties
  <2>2. Coming(p)
    BY <2>1 DEF KnownRight
  <2>3. ~Tells(Changed(q, v), p, call)
    BY <1>3, Notes
  <2>4. inbox' = Append(inbox, Changed(q, v)) \/ UNCHANGED inbox
    BY SetFacts
  <2> QED  BY <1>1, <2>1, <2>2, <2>3, <2>4, ComingMore, ComingCalls
<1> QED  BY <1>2, <1>3

(* The main loop hears what comes, in order.                                *)
LEMMA KnownMainLoop ==
    ASSUME TypeOK, OneAnswer, KnownRight, MainLoop
    PROVE  KnownRight'
<1>h. inbox # <<>> =>
        /\ 1 \in DOMAIN inbox /\ inbox[1] = Head(inbox) /\ Head(inbox) \in Messages
        /\ \A i \in DOMAIN inbox :
             i = 1 \/ (i > 1 /\ i - 1 \in DOMAIN Tail(inbox) /\ Tail(inbox)[i - 1] = inbox[i])
  BY HeadFacts DEF TypeOK
<1>pop. ASSUME inbox # <<>>, inbox' = Tail(inbox), Head(inbox).type # "down",
               UNCHANGED <<manager, alive, failed, missed, outbox, call, mode, known>>,
               Head(inbox) # Error(call),
               \A p : ~Tells(Head(inbox), p, call)
        PROVE  KnownRight'
  BY <1>pop, ComingPop DEF KnownRight
<1> USE DEF managerVars, busVars, history
<1>1. CASE connman_up
  <2> SUFFICES ASSUME NEW p \in Properties, alive PROVE Coming(p)'
    BY <1>1 DEF connman_up, KnownRight
  <2>1. /\ serial \in Nat /\ call' = serial + 1
        /\ outbox' = Append(outbox, GetProperties(serial + 1))
    BY <1>1 DEF connman_up, TypeOK
  <2>2. \E i \in DOMAIN outbox' : outbox'[i] = GetProperties(serial + 1)
    BY <2>1, QueueAppend, Sent DEF TypeOK, Serials
  <2> QED  BY <2>1, <2>2 DEF Coming
<1>2. CASE connman_up_watching \/ \E p \in Properties : property_changed(p)
  <2>1. UNCHANGED <<manager, alive, failed, missed, inbox, outbox, call, mode, known>>
    BY <1>2 DEF connman_up_watching, property_changed
  <2> QED  BY <2>1 DEF KnownRight, Coming, Has, LastWord
<1>3. CASE connman_up_again
  <2>1. Head(inbox).type = "up"
    BY <1>3 DEF connman_up_again, Receive
  <2>2. Head(inbox) # Error(call) /\ \A p : ~Tells(Head(inbox), p, call)
    BY <2>1 DEF Error, Tells
  <2> QED  BY <1>3, <1>pop, <2>1, <2>2 DEF connman_up_again, Receive
<1>4. CASE connman_down
  BY <1>4 DEF connman_down, KnownRight
<1>5. CASE get_properties_callback
  <2> SUFFICES ASSUME NEW p \in Properties, manager, alive, ~failed, p \notin missed
               PROVE  Coming(p)'
    BY <1>5 DEF get_properties_callback, KnownRight
  <2>1. /\ inbox # <<>> /\ inbox' = Tail(inbox) /\ call' = 0
        /\ Head(inbox).type = "properties" /\ Head(inbox).serial = call
        /\ UNCHANGED <<outbox, mode>>
        /\ known' = [q \in Properties |-> Read(q, Head(inbox).mode[q])]
    BY <1>5 DEF get_properties_callback, Receive
  <2>2. known'[p] = Read(p, Value(Head(inbox), p)) /\ Tells(Head(inbox), p, call)
    BY <2>1 DEF Value, Tells
  <2>3. Answers(inbox[1], call)
    BY <1>h, <2>1 DEF Answers
  <2>4. /\ \A i \in DOMAIN outbox : outbox[i] # GetProperties(call)
        /\ \A i \in DOMAIN inbox : i # 1 => ~Answers(inbox[i], call)
    BY <1>h, <2>1, <2>3 DEF OneAnswer
  <2>5. \A i \in DOMAIN inbox : inbox[i] # Error(call)
    <3>1. Answers(Error(call), call) /\ Error(call).type = "error"
      BY DEF Answers, Error
    <3> QED  BY <1>h, <2>1, <2>4, <3>1
  <2>6. \A i \in DOMAIN inbox :
          i # 1 => (Tells(inbox[i], p, call') <=> Tells(inbox[i], p, call))
    BY <2>1, <2>4, NoneZero DEF Tells, Answers
  <2>7. CASE Has(inbox, "down")
    <3>1. PICK i \in DOMAIN inbox : inbox[i].type = "down"
      BY <2>7 DEF Has
    <3>2. i # 1
      BY <1>h, <2>1, <3>1
    <3> QED  BY <1>h, <2>1, <3>1, <3>2 DEF Coming, Has
  <2>8. CASE LastWord(p)
    BY <2>1, <2>2, <2>6, <2>8, ComingHeard DEF Coming
  <2> QED  BY <2>4, <2>5, <2>7, <2>8 DEF KnownRight, Coming
<1>6. CASE get_properties_error
  BY <1>6 DEF get_properties_error, KnownRight
<1>7. CASE DropReply
  <2>1. Head(inbox).type \in {"properties", "error"} /\ Head(inbox).serial # call
    BY <1>7 DEF DropReply, Receive
  <2>2. Head(inbox) # Error(call) /\ \A p : ~Tells(Head(inbox), p, call)
    BY <2>1 DEF Error, Tells
  <2> QED  BY <1>7, <1>pop, <2>1, <2>2 DEF DropReply, Receive
<1>8. CASE property_changed_signal_cb
  <2> SUFFICES ASSUME NEW p \in Properties, manager, alive, ~failed, p \notin missed
               PROVE  Coming(p)'
    BY <1>8 DEF property_changed_signal_cb, KnownRight
  <2>1. PICK m : m = Head(inbox)
    OBVIOUS
  <2>2. /\ inbox # <<>> /\ inbox' = Tail(inbox) /\ m.type = "PropertyChanged"
        /\ UNCHANGED <<outbox, mode, call>>
        /\ known' = [known EXCEPT ![m.name] = Read(m.name, m.value)]
    BY <1>8, <2>1 DEF property_changed_signal_cb, Receive
  <2>3. m.name \in Properties /\ m # Error(call) /\ m.type # "down"
    BY <1>h, <2>1, <2>2, Received DEF Error, Properties
  <2>4. DOMAIN known = Properties
    BY DEF TypeOK, Properties
  <2>5. Coming(p)
    BY DEF KnownRight
  <2>6. CASE m.name # p
    <3>1. ~Tells(m, p, call) /\ known'[p] = known[p]
      BY <2>2, <2>4, <2>6 DEF Tells
    <3> QED  BY <2>1, <2>2, <2>3, <2>5, <3>1, ComingPop
  <2>7. CASE m.name = p
    <3>1. Tells(m, p, call) /\ Value(m, p) = m.value
      BY <2>2, <2>7 DEF Tells, Value
    <3>2. known'[p] = Read(p, Value(m, p))
      BY <2>2, <2>4, <2>7, <3>1
    <3>3. CASE LastWord(p)
      BY <2>1, <2>2, <3>1, <3>2, <3>3, ComingHeard DEF Coming
    <3>4. CASE \E i \in DOMAIN outbox : outbox[i] = GetProperties(call)
      BY <2>2, <3>4 DEF Coming
    <3>5. ASSUME NEW i \in DOMAIN inbox, inbox[i].type = "down" \/ inbox[i] = Error(call)
          PROVE  Coming(p)'
      <4>1. inbox[i] # m
        BY <2>3, <3>5
      <4>2. i - 1 \in DOMAIN inbox' /\ inbox'[i - 1] = inbox[i]
        BY <1>h, <2>1, <2>2, <4>1
      <4> QED  BY <2>2, <3>5, <4>2 DEF Coming, Has
    <3> QED  BY <2>5, <3>3, <3>4, <3>5 DEF Coming, Has
  <2> QED  BY <2>6, <2>7
<1> QED
  BY <1>1, <1>2, <1>3, <1>4, <1>5, <1>6, <1>7, <1>8 DEF MainLoop

(* The daemon tells what it changes to whoever can see it.                  *)
LEMMA KnownDaemon ==
    ASSUME TypeOK, EndsComing, StaleFirst, KnownRight, Daemon
    PROVE  KnownRight'
<1>0. UNCHANGED <<manager, call, known, failed>>
  BY DEF Daemon, BusAnswer, DaemonChange, DaemonServe, DaemonError, DaemonDown,
         DaemonUp, managerVars, history
<1>1. CASE BusAnswer
  <2>1. /\ UNCHANGED <<alive, missed, outbox, mode>>
        /\ inbox' = Append(inbox, Note("up")) \/ UNCHANGED inbox
    BY <1>1 DEF BusAnswer, history
  <2>2. \A p : Coming(p) => Coming(p)'
    BY <1>0, <2>1, Notes, Sent, ComingMore, ComingCalls
  <2> QED  BY <1>0, <2>1, <2>2 DEF KnownRight
<1>2. ASSUME NEW q, NEW v, DaemonChange(q, v),
             \/ q = "State" /\ v \in DaemonStates
             \/ q = "OfflineMode" /\ v \in BOOLEAN
      PROVE  KnownRight'
  BY <1>0, <1>2, ComingSet DEF DaemonChange
<1>3. CASE DaemonServe
  <2>1. PICK m : m = Head(outbox)
    OBVIOUS
  <2>2. /\ outbox # <<>> /\ outbox' = Tail(outbox) /\ UNCHANGED alive /\ m \in Calls
    BY <1>3, <2>1, QueueTail DEF DaemonServe, TypeOK
  <2>3. \A i \in DOMAIN outbox :
          outbox[i] = m \/ \E j \in DOMAIN outbox' : outbox'[j] = outbox[i]
    <3>1. \A i \in DOMAIN outbox :
            outbox[i] = m \/ (i - 1 \in DOMAIN outbox' /\ outbox'[i - 1] = outbox[i])
      BY <2>1, <2>2, QueueTail DEF TypeOK
    <3> QED  BY <3>1
  <2>4. CASE m.type = "GetProperties"
    <3>1. /\ inbox' = Append(inbox, Answer(m.serial, mode)) /\ UNCHANGED mode
          /\ Answer(m.serial, mode) \in Messages /\ m = GetProperties(m.serial)
      <4>1. m.serial \in Serials /\ m = GetProperties(m.serial)
        BY <2>2, <2>4, Served
      <4>2. Answer(m.serial, mode) \in Messages
        BY <4>1, Sent DEF TypeOK
      <4> QED  BY <1>3, <2>1, <2>4, <4>1, <4>2 DEF DaemonServe
    <3>2. CASE m.serial = call
      <4>1. \A p : /\ Tells(Answer(m.serial, mode), p, call')
                   /\ Value(Answer(m.serial, mode), p) = mode'[p]
        BY <1>0, <3>1, <3>2, Notes
      <4>2. \A p : Coming(p)'
        BY <3>1, <4>1, ComingTold
      <4> QED  BY <4>2 DEF KnownRight
    <3>3. CASE m.serial # call /\ manager
      <4>1. 1 \in DOMAIN outbox /\ outbox[1] = m
        BY <2>1, <2>2, HeadFacts DEF TypeOK
      <4>2. PICK j \in DOMAIN outbox : j > 1 /\ outbox[j] = GetProperties(call)
        BY <2>4, <3>3, <4>1 DEF StaleFirst
      <4>3. outbox[j] # m
        BY <3>3, <4>2 DEF GetProperties
      <4> QED  BY <1>0, <2>3, <4>2, <4>3 DEF KnownRight, Coming
    <3> QED  BY <1>0, <3>2, <3>3 DEF KnownRight
  <2>5. CASE m.type = "SetProperty"
    <3>1. \A i \in DOMAIN outbox : outbox[i] = GetProperties(call) =>
            \E j \in DOMAIN outbox' : outbox'[j] = GetProperties(call)
      BY <2>3, <2>5 DEF GetProperties
    <3>2. CASE m.on # mode.OfflineMode
      <4>1. Set("OfflineMode", m.on) /\ m.on \in BOOLEAN
        BY <1>3, <2>1, <2>2, <2>5, <3>2, Served DEF DaemonServe
      <4> QED  BY <1>0, <2>2, <3>1, <4>1, ComingSet
    <3>3. CASE m.on = mode.OfflineMode
      <4>1. UNCHANGED <<mode, inbox, missed>>
        BY <1>3, <2>1, <2>5, <3>3 DEF DaemonServe
      <4>2. \A p : Coming(p) => Coming(p)'
        BY <1>0, <3>1, <4>1, ComingCalls
      <4> QED  BY <1>0, <2>2, <4>1, <4>2 DEF KnownRight
    <3> QED  BY <3>2, <3>3
  <2> QED  BY <2>2, <2>4, <2>5, Served
<1>4. CASE DaemonError
  <2>1. PICK m : m = Head(outbox)
    OBVIOUS
  <2>2. /\ outbox # <<>> /\ outbox' = Tail(outbox) /\ m \in Calls
        /\ m.type = "GetProperties" /\ UNCHANGED <<alive, missed, mode>>
        /\ inbox' = Append(inbox, Error(m.serial))
    BY <1>4, <2>1, QueueTail DEF DaemonError, TypeOK
  <2>3. m = GetProperties(m.serial) /\ Error(m.serial) \in Messages
    BY <2>2, Served, Sent
  <2>4. \A i \in DOMAIN outbox : outbox[i] = GetProperties(call) =>
          \/ \E j \in DOMAIN outbox' : outbox'[j] = GetProperties(call)
          \/ Error(m.serial) = Error(call)
    <3>1. \A i \in DOMAIN outbox :
            outbox[i] = m \/ (i - 1 \in DOMAIN outbox' /\ outbox'[i - 1] = outbox[i])
      BY <2>1, <2>2, QueueTail DEF TypeOK
    <3>2. m = GetProperties(call) => m.serial = call
      BY DEF GetProperties
    <3> QED  BY <3>1, <3>2
  <2>5. \A p : Coming(p) => Coming(p)'
    BY <1>0, <2>2, <2>3, <2>4, Notes, ComingMore
  <2> QED  BY <1>0, <2>2, <2>5 DEF KnownRight
<1>5. CASE DaemonDown
  BY <1>5 DEF DaemonDown, KnownRight
<1>6. CASE DaemonUp
  <2>1. manager => Has(inbox, "down")
    BY <1>6 DEF DaemonUp, EndsComing
  <2>2. \A i \in DOMAIN inbox : i \in DOMAIN inbox' /\ inbox'[i] = inbox[i]
    <3>1. inbox' = Append(inbox, Note("up"))
      BY <1>6 DEF DaemonUp
    <3> QED  BY <3>1, QueueAppend, Sent DEF TypeOK
  <2> QED  BY <1>0, <2>1, <2>2 DEF KnownRight, Coming, Has
<1> QED
  BY <1>1, <1>2, <1>3, <1>4, <1>5, <1>6 DEF Daemon

(* The user's clicks only add calls.                                         *)
LEMMA KnownUser ==
    ASSUME TypeOK, KnownRight, User
    PROVE  KnownRight'
<1> USE DEF managerVars, busVars
<1>1. /\ UNCHANGED <<inbox, call, known, mode, manager, alive, failed, missed>>
      /\ \/ UNCHANGED outbox
         \/ \E v : v \in BOOLEAN /\ outbox' = Append(outbox, SetOfflineMode(v))
  BY DEF User, cui_popup_right_menu, cui_popdown_right_menu, history,
         cui_item_offlinemode_activate, Click
<1>2. \A i \in DOMAIN outbox : i \in DOMAIN outbox' /\ outbox'[i] = outbox[i]
  BY <1>1, QueueAppend, Sent DEF TypeOK
<1>3. \A p : Coming(p) => Coming(p)'
  BY <1>1, <1>2, ComingCalls
<1> QED  BY <1>1, <1>3 DEF KnownRight

(* Once nothing is on its way, what is known of the daemon is what the      *)
(* daemon has, but for what changed while nobody could see it.              *)
THEOREM StateKnown == Spec => []StateAccurate
<1> DEFINE Inv == EndsComing /\ OneAnswer /\ StaleFirst /\ KnownRight
<1>1. Init => Inv
  BY DEF Init, EndsComing, OneAnswer, StaleFirst, KnownRight, Has
<1>2. IInv /\ Inv /\ [Next]_vars => Inv'
  <2> SUFFICES ASSUME IInv, Inv, [Next]_vars PROVE Inv'
    OBVIOUS
  <2>1. CASE Next
    <3>1. EndsComing' /\ OneAnswer' /\ StaleFirst'
      BY <2>1, EndsNext, OneNext, StaleNext DEF IInv
    <3>2. KnownRight'
      BY <2>1, KnownMainLoop, KnownDaemon, KnownUser DEF IInv, Next
    <3> QED  BY <3>1, <3>2
  <2>2. CASE UNCHANGED vars
    BY <2>2 DEF vars, busVars, managerVars, history, EndsComing, OneAnswer,
         StaleFirst, KnownRight, Coming, LastWord, Has
  <2> QED  BY <2>1, <2>2
<1>3. Inv => StateAccurate
  BY DEF StateAccurate, Settled, KnownRight, Coming, LastWord, Has
<1> QED  BY <1>1, <1>2, <1>3, Invariance, PTL DEF Spec
=============================================================================
