------------------------------ MODULE Manager ------------------------------
(***************************************************************************)
(* The daemon's own properties and the life of the parts: lib/interface.c  *)
(* watches the daemon's name, src/main.c brings the parts up and down with *)
(* it, lib/manager.c asks for State and OfflineMode and watches them, the  *)
(* tray icon tells the state and the right menu shows and sets the         *)
(* airplane mode.                                                          *)
(*                                                                         *)
(* A handler is one action, but for connman_up: it sends GetProperties and *)
(* then blocks until the bus has taken the match rule of PropertyChanged.  *)
(* Meanwhile the daemon goes on, and may answer and change.                *)
(***************************************************************************)
EXTENDS Naturals, Sequences

CONSTANTS
    DaemonStates, \* what the daemon calls its states
    MaxChange,    \* bound: changes the daemon makes on its own
    MaxClick,     \* bound: clicks on the airplane mode items
    MaxPopup,     \* bound: times the right menu is opened
    MaxFail,      \* bound: GetProperties calls that fail
    MaxStart      \* bound: times the daemon starts while it is watched

ASSUME ConstAssumption ==
    {MaxChange, MaxClick, MaxPopup, MaxFail, MaxStart} \subseteq Nat

VARIABLES
    \* the daemon and the bus (external)
    alive,        \* net.connman has an owner
    mode,         \* the daemon's properties
    rule,         \* the bus has the match rule of PropertyChanged
    checking,     \* GetNameOwner is not answered yet
    outbox,       \* calls the daemon has not served, in order
    inbox,        \* messages to the user interface, in order
    \* lib/manager.c
    manager,      \* manager # NULL
    adding,       \* connman_up waits for the bus to take the rule
    call,         \* serial of get_properties_call, 0 for NULL
    serial,       \* last serial used
    known,        \* state and offlinemode
    source,       \* properties whose source[] waits to run
    \* src/tray.c and src/right-menu.c
    icon,         \* what the icon's tooltip says
    disabled,     \* only the quit item is shown
    open,         \* the right menu is shown
    visible,      \* the airplane mode items shown in it: "set", "unset"
    \* bounds and history
    count,        \* how often each bounded step was taken
    failed,       \* GetProperties of this manager failed
    missed,       \* properties that changed while nobody could see it
    wanted,       \* the mode the last click asked for, if still wanted
    broken        \* an item did the opposite of what its tooltip says

busVars == <<alive, mode, rule, checking, outbox, inbox>>
managerVars == <<manager, adding, call, serial, known, source>>
uiVars == <<icon, disabled, open, visible>>
history == <<count, failed, missed, wanted, broken>>
vars == <<busVars, managerVars, uiVars, history>>

-----------------------------------------------------------------------------
Properties == {"State", "OfflineMode"}

Modes == [State : DaemonStates, OfflineMode : BOOLEAN]

Bounds == [change |-> MaxChange, click |-> MaxClick, popup |-> MaxPopup,
           fail |-> MaxFail, start |-> MaxStart]

Counted(step) ==
    /\ count[step] < Bounds[step]
    /\ count' = [count EXCEPT ![step] = @ + 1]

(* Faulty variants: a name is kept as it is, or is taken for UNKNOWN, the   *)
(* state of a manager that was told nothing.                                *)
string2enum_state_as_is(s) == s

string2enum_state_unknown(s) ==
    IF s \in {"offline", "idle", "ready", "online", "failure"} THEN s
    ELSE "unknown"

(* A state the user interface has no name for is taken for offline.         *)
string2enum_state(s) ==
    IF s \in {"offline", "idle", "ready", "online", "failure"} THEN s
    ELSE "offline"

(* What the user interface makes of a value of the property p.              *)
Read(p, v) == IF p = "State" THEN string2enum_state(v) ELSE v

(* cui_theme_get_state_icone_and_info *)
Tooltip(state) ==
    CASE state = "unknown" -> "Connman is not running"
      [] state = "ready"   -> "Connected"
      [] state = "online"  -> "Online"
      [] OTHER             -> "Disconnected"

(* manager as g_try_malloc0 leaves it *)
NothingKnown == [State |-> "unknown", OfflineMode |-> FALSE]

connman_manager_get_state == IF manager THEN known.State ELSE "unknown"

connman_manager_get_offlinemode == IF manager THEN known.OfflineMode ELSE TRUE

cui_trayicon_update_icon == icon' = Tooltip(connman_manager_get_state')

Note(t) == [type |-> t]
GetProperties(n) == [type |-> "GetProperties", serial |-> n]
SetOfflineMode(on) == [type |-> "SetProperty", on |-> on]
Changed(p, v) == [type |-> "PropertyChanged", name |-> p, value |-> v]
Answer(n, m) == [type |-> "properties", serial |-> n, mode |-> m]
Error(n) == [type |-> "error", serial |-> n]

Has(queue, t) == \E i \in DOMAIN queue : queue[i].type = t

Receive(t) ==
    /\ ~adding
    /\ inbox # <<>>
    /\ Head(inbox).type = t
    /\ inbox' = Tail(inbox)

-----------------------------------------------------------------------------
(* The main loop *)

(* connman_up up to the match rule.  The name's owner may be reported       *)
(* twice: by NameOwnerChanged and by the answer to GetNameOwner.            *)
connman_up ==
    /\ ~adding /\ ~manager
    /\ inbox # <<>> /\ Head(inbox).type = "up"
    /\ manager' = TRUE /\ adding' = TRUE
    /\ serial' = serial + 1 /\ call' = serial'
    /\ known' = NothingKnown
    /\ IF alive
       THEN outbox' = Append(outbox, GetProperties(serial')) /\ inbox' = Tail(inbox)
       ELSE inbox' = Append(Tail(inbox), Error(serial')) /\ UNCHANGED outbox
    /\ failed' = FALSE
    /\ UNCHANGED <<alive, mode, rule, checking, source, uiVars, count, missed,
                   wanted, broken>>

(* What connman_up does once the parts run: cui_right_menu_enable_all shows *)
(* both airplane mode items.                                                *)
ShowUp ==
    /\ cui_trayicon_update_icon
    /\ disabled' = FALSE
    /\ visible' = {"set", "unset"}
    /\ UNCHANGED open

(* The bus has taken the rule: the rest of connman_up.                      *)
connman_up_watching ==
    /\ adding
    /\ adding' = FALSE
    /\ rule' = TRUE
    /\ UNCHANGED <<alive, mode, checking, outbox, inbox, manager, call, serial,
                   known, source, history>>
    /\ ShowUp

connman_up_again ==
    /\ manager
    /\ Receive("up")
    /\ UNCHANGED <<alive, mode, rule, checking, outbox, managerVars, history>>
    /\ ShowUp

(* Faulty variant of connman_manager_finalize: GetProperties is not cancelled. *)
connman_down_keeping_call ==
    /\ Receive("down")
    /\ manager' = FALSE
    /\ source' = {} /\ rule' = FALSE
    /\ UNCHANGED <<alive, mode, checking, outbox, adding, call, serial, known,
                   open, history>>
    /\ cui_trayicon_update_icon
    /\ disabled' = TRUE /\ visible' = {}

connman_down ==
    /\ Receive("down")
    /\ manager' = FALSE
    /\ call' = 0 /\ source' = {} /\ rule' = FALSE
    /\ UNCHANGED <<alive, mode, checking, outbox, adding, serial, known, open,
                   history>>
    /\ cui_trayicon_update_icon
    /\ disabled' = TRUE /\ visible' = {}

(* Faulty variant: the notification of State is left out. *)
get_properties_callback_silent ==
    /\ Receive("properties") /\ Head(inbox).serial = call
    /\ call' = 0
    /\ known' = [p \in Properties |-> Read(p, Head(inbox).mode[p])]
    /\ source' = source \cup {"OfflineMode"}
    /\ UNCHANGED <<alive, mode, rule, checking, outbox, manager, adding, serial,
                   uiVars, history>>

get_properties_callback ==
    /\ Receive("properties") /\ Head(inbox).serial = call
    /\ call' = 0
    /\ known' = [p \in Properties |-> Read(p, Head(inbox).mode[p])]
    /\ source' = Properties
    /\ UNCHANGED <<alive, mode, rule, checking, outbox, manager, adding, serial,
                   uiVars, history>>

(* An error has no properties, and the call is not made again. *)
get_properties_error ==
    /\ Receive("error") /\ Head(inbox).serial = call
    /\ call' = 0
    /\ failed' = TRUE
    /\ UNCHANGED <<alive, mode, rule, checking, outbox, manager, adding, serial,
                   known, source, uiVars, count, missed, wanted, broken>>

(* libdbus drops the reply to a call that was cancelled. *)
DropReply ==
    /\ Receive("properties") \/ Receive("error")
    /\ Head(inbox).serial # call
    /\ UNCHANGED <<alive, mode, rule, checking, outbox, managerVars, uiVars,
                   history>>

(* Faulty variant: the value is kept as it was before the notification. *)
property_changed_signal_cb_unread ==
    /\ Receive("PropertyChanged")
    /\ source' = source \cup (IF manager THEN {Head(inbox).name} ELSE {})
    /\ UNCHANGED <<alive, mode, rule, checking, outbox, manager, adding, call,
                   serial, known, uiVars, history>>

(* Without a manager there is no watch to call. *)
property_changed_signal_cb ==
    /\ Receive("PropertyChanged")
    /\ IF manager
       THEN LET m == Head(inbox) IN
            /\ known' = [known EXCEPT ![m.name] = Read(m.name, m.value)]
            /\ source' = source \cup {m.name}
       ELSE UNCHANGED <<known, source>>
    /\ UNCHANGED <<alive, mode, rule, checking, outbox, manager, adding, call,
                   serial, uiVars, history>>

(* A source runs: connman_manager_changed of main.c looks at State only.    *)
property_changed(p) ==
    /\ ~adding
    /\ p \in source
    /\ source' = source \ {p}
    /\ UNCHANGED <<busVars, manager, adding, call, serial, known, disabled,
                   open, visible, history>>
    /\ IF p = "State" THEN cui_trayicon_update_icon ELSE UNCHANGED icon

-----------------------------------------------------------------------------
(* The user *)

cui_popup_right_menu ==
    /\ ~adding /\ ~open
    /\ Counted("popup")
    /\ open' = TRUE
    /\ visible' = IF disabled THEN visible
                  ELSE IF connman_manager_get_offlinemode
                       THEN {"unset"} ELSE {"set"}
    /\ UNCHANGED <<busVars, managerVars, icon, disabled, failed, missed, wanted,
                   broken>>

cui_popdown_right_menu ==
    /\ ~adding /\ open
    /\ open' = FALSE
    /\ UNCHANGED <<busVars, managerVars, icon, disabled, visible, history>>

(* A click sends on.  SetProperty is sent without asking for a reply, and   *)
(* is lost if the name has no owner.                                        *)
Click(item, on) ==
    /\ ~adding /\ open
    /\ item \in visible
    /\ Counted("click")
    /\ open' = FALSE
    /\ outbox' = IF manager /\ alive THEN Append(outbox, SetOfflineMode(on))
                 ELSE outbox
    /\ LET asked == (item = "set") = ~connman_manager_get_offlinemode IN
       /\ wanted' = IF manager /\ alive /\ asked THEN item ELSE "none"
       /\ broken' = (broken \/ ~asked)
    /\ UNCHANGED <<alive, mode, rule, checking, inbox, managerVars, icon,
                   disabled, visible, failed, missed>>

(* Faulty variant: the mode known is sent, not the other one. *)
cui_item_offlinemode_activate_same(item) ==
    Click(item, connman_manager_get_offlinemode)

(* Both items send the opposite of the mode known at the click. *)
cui_item_offlinemode_activate(item) ==
    Click(item, ~connman_manager_get_offlinemode)

-----------------------------------------------------------------------------
(* The daemon and the bus *)

(* The answer to the GetNameOwner that g_dbus_add_service_watch sends. *)
BusAnswer ==
    /\ checking
    /\ checking' = FALSE
    /\ inbox' = IF alive THEN Append(inbox, Note("up")) ELSE inbox
    /\ UNCHANGED <<alive, mode, rule, outbox, managerVars, uiVars, history>>

(* PropertyChanged reaches the user interface if the bus has the rule. *)
Set(p, v) ==
    /\ mode' = [mode EXCEPT ![p] = v]
    /\ inbox' = IF rule THEN Append(inbox, Changed(p, v)) ELSE inbox
    /\ missed' = IF rule THEN missed \ {p} ELSE missed \cup {p}

DaemonChange(p, v) ==
    /\ Counted("change")
    /\ alive /\ v # mode[p]
    /\ Set(p, v)
    /\ wanted' = IF p = "OfflineMode" /\ ~Has(outbox, "SetProperty")
                 THEN "none" ELSE wanted
    /\ UNCHANGED <<alive, rule, checking, outbox, managerVars, uiVars, failed,
                   broken>>

DaemonServe ==
    /\ alive /\ outbox # <<>>
    /\ outbox' = Tail(outbox)
    /\ LET m == Head(outbox) IN
       CASE m.type = "GetProperties" ->
              /\ inbox' = Append(inbox, Answer(m.serial, mode))
              /\ missed' = {}
              /\ UNCHANGED mode
         [] m.type = "SetProperty" /\ m.on # mode.OfflineMode ->
              Set("OfflineMode", m.on)
         [] OTHER -> UNCHANGED <<mode, inbox, missed>>
    /\ UNCHANGED <<alive, rule, checking, managerVars, uiVars, count, failed,
                   wanted, broken>>

DaemonError ==
    /\ Counted("fail")
    /\ alive /\ outbox # <<>> /\ Head(outbox).type = "GetProperties"
    /\ outbox' = Tail(outbox)
    /\ inbox' = Append(inbox, Error(Head(outbox).serial))
    /\ UNCHANGED <<alive, mode, rule, checking, managerVars, uiVars, failed,
                   missed, wanted, broken>>

(* The bus tells of the owner's end before it answers its calls.  The       *)
(* answers are left out: the end cancels the calls they are for.            *)
DaemonDown ==
    /\ alive
    /\ alive' = FALSE
    /\ outbox' = <<>>
    /\ inbox' = Append(inbox, Note("down"))
    /\ wanted' = "none"
    /\ UNCHANGED <<mode, rule, checking, managerVars, uiVars, count, failed,
                   missed, broken>>

DaemonUp ==
    /\ Counted("start")
    /\ ~alive
    /\ alive' = TRUE
    /\ mode' \in Modes
    /\ inbox' = Append(inbox, Note("up"))
    /\ UNCHANGED <<rule, checking, outbox, managerVars, uiVars, failed, missed,
                   wanted, broken>>

-----------------------------------------------------------------------------
(* As connman_interface_init leaves it: connman_down ran once. *)
Init ==
    /\ alive \in BOOLEAN /\ mode \in Modes
    /\ rule = FALSE /\ checking = TRUE
    /\ outbox = <<>> /\ inbox = <<>>
    /\ manager = FALSE /\ adding = FALSE
    /\ call = 0 /\ serial = 0
    /\ known = NothingKnown /\ source = {}
    /\ icon = Tooltip("unknown")
    /\ disabled = TRUE /\ open = FALSE /\ visible = {}
    /\ count = [step \in DOMAIN Bounds |-> 0]
    /\ failed = FALSE /\ missed = {} /\ wanted = "none" /\ broken = FALSE

MainLoop ==
    \/ connman_up
    \/ connman_up_watching
    \/ connman_up_again
    \/ connman_down
    \/ get_properties_callback
    \/ get_properties_error
    \/ DropReply
    \/ property_changed_signal_cb
    \/ \E p \in Properties : property_changed(p)

User ==
    \/ cui_popup_right_menu
    \/ cui_popdown_right_menu
    \/ \E item \in {"set", "unset"} : cui_item_offlinemode_activate(item)

Daemon ==
    \/ BusAnswer
    \/ \E v \in DaemonStates : DaemonChange("State", v)
    \/ \E v \in BOOLEAN : DaemonChange("OfflineMode", v)
    \/ DaemonServe
    \/ DaemonError
    \/ DaemonDown
    \/ DaemonUp

Next == MainLoop \/ User \/ Daemon

Spec == Init /\ [][Next]_vars

(* glib serves its sources, the bus answers, the daemon reads its socket. *)
FairSpec ==
    Spec /\ WF_vars(MainLoop) /\ WF_vars(BusAnswer) /\ WF_vars(DaemonServe)

-----------------------------------------------------------------------------
(* Properties *)

States == {"unknown", "offline", "idle", "ready", "online", "failure"}

(* D-Bus gives no message the serial 0. *)
Serials == Nat \ {0}

Messages ==
    {Note("up"), Note("down")}
      \cup [type : {"properties"}, serial : Serials, mode : Modes]
      \cup [type : {"error"}, serial : Serials]
      \cup [type : {"PropertyChanged"}, name : {"State"}, value : DaemonStates]
      \cup [type : {"PropertyChanged"}, name : {"OfflineMode"}, value : BOOLEAN]

Calls ==
    [type : {"GetProperties"}, serial : Serials] \cup [type : {"SetProperty"}, on : BOOLEAN]

(* Every variable of the manager and its users keeps its type: what is      *)
(* known is a state of the enumeration, whatever the daemon calls its own.  *)
TypeOK ==
    /\ alive \in BOOLEAN /\ mode \in Modes /\ rule \in BOOLEAN
    /\ checking \in BOOLEAN
    /\ outbox \in Seq(Calls)
    /\ inbox \in Seq(Messages)
    /\ manager \in BOOLEAN /\ adding \in BOOLEAN
    /\ call \in Nat /\ serial \in Nat
    /\ known \in [State : States, OfflineMode : BOOLEAN]
    /\ source \subseteq Properties
    /\ icon \in {Tooltip(s) : s \in States}
    /\ disabled \in BOOLEAN /\ open \in BOOLEAN /\ visible \subseteq {"set", "unset"}
    /\ count \in [DOMAIN Bounds -> Nat]
    /\ \A step \in DOMAIN Bounds : count[step] <= Bounds[step]
    /\ failed \in BOOLEAN /\ missed \subseteq Properties
    /\ wanted \in {"none", "set", "unset"} /\ broken \in BOOLEAN

Settled ==
    /\ alive /\ manager /\ ~adding /\ call = 0 /\ ~failed
    /\ inbox = <<>> /\ outbox = <<>>

(* When nothing is on its way, what lib/manager.c knows is what the daemon  *)
(* has, across its restarts and with GetProperties sent before              *)
(* PropertyChanged is watched; but what changed between the daemon's answer *)
(* and the match rule stays unknown.                                        *)
StateAccurate ==
    Settled => \A p \in Properties \ missed : known[p] = Read(p, mode[p])

(* The icon says what lib/manager.c knows, or a notification of State is    *)
(* on its way: neither replacing a source nor losing the daemon drops one.  *)
IconFollows ==
    "State" \in source \/ icon = Tooltip(connman_manager_get_state)

(* While the daemon runs the icon says "Connman is not running" only before *)
(* the answer to GetProperties, or if that failed; never for a state the    *)
(* daemon has.                                                              *)
NotRunningIfUntold ==
    manager /\ call = 0 /\ ~failed /\ "State" \notin source
      => icon # Tooltip("unknown")

(* The icon says what is known, and that is a state of the daemon's as soon *)
(* as it was told.                                                          *)
IconTruthful == IconFollows /\ NotRunningIfUntold

(* The reply to the pending call is still to come, or the daemon is gone:   *)
(* the end that is then to be handled cancels the call.                     *)
Awaited ==
    \/ \E i \in DOMAIN outbox : outbox[i] = GetProperties(call)
    \/ \E i \in DOMAIN inbox :
          \/ inbox[i].type \in {"properties", "error"} /\ inbox[i].serial = call
          \/ inbox[i].type = "down"

(* get_properties_callback uses manager unguarded: a call that is pending   *)
(* has a manager, as has a source; and no call is pending for ever, or the  *)
(* state stayed unknown while the daemon runs.                              *)
ReplyFindsManager ==
    /\ source # {} => manager
    /\ call # 0 => manager /\ Awaited

(* The airplane mode last asked for is the one the daemon comes to have:    *)
(* a second click before the first is answered does not undo it.            *)
AirplaneAsAsked ==
    ~Has(outbox, "SetProperty") /\ wanted # "none"
      => mode.OfflineMode = (wanted = "set")

(* An airplane mode item does what its tooltip in data/ui/right_menu.ui     *)
(* says: "set airplane mode" or "unset airplane mode".                      *)
ItemDoesAsItSays == ~broken

(* Once a daemon stays and answers, the icon comes to show its state and    *)
(* goes on showing it, unless that changed unseen.                          *)
IconSettles ==
    <>[](alive /\ ~failed) =>
      <>[](icon = Tooltip(string2enum_state(mode.State)) \/ "State" \in missed)
=============================================================================
