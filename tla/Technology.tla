----------------------------- MODULE Technology -----------------------------
(***************************************************************************)
(* The technologies (wifi, ethernet, ...) of the user interface:           *)
(* lib/technology.c keeps a table of them, filled by GetTechnologies of    *)
(* lib/manager.c and kept up by signals; src/right-menu.c shows them in    *)
(* the right menu, each as an item (src/gtktechnology.c) with a switch     *)
(* that powers the technology on and off.                                  *)
(*                                                                         *)
(* A change of a technology reaches its item by a callback, deferred by a  *)
(* source of the main loop.  The callback belongs to the technology and is *)
(* set and taken back by path when items are made and destroyed.           *)
(*                                                                         *)
(* Handlers are actions.  The daemon serves calls in order, and a signal   *)
(* reaches the user interface only if a watch for it was set at the time.  *)
(***************************************************************************)
EXTENDS Integers, Sequences, FiniteSets, SequencesExt

CONSTANTS
    Paths,        \* D-Bus paths of the technologies
    MaxChange,    \* bound: changes the daemon makes on its own
    MaxPopup,     \* bound: times the right menu is opened
    MaxClick,     \* bound: clicks on an item
    MaxScan,      \* bound: scans asked for
    MaxFail,      \* bound: calls the daemon fails
    MaxDown       \* bound: times the daemon is lost

ASSUME ConstAssumption ==
    /\ IsFiniteSet(Paths)
    /\ {MaxChange, MaxPopup, MaxClick, MaxScan, MaxFail, MaxDown} \subseteq Nat

VARIABLES
    \* the daemon and the bus (external)
    alive,        \* net.connman has an owner
    present,      \* its technologies
    power,        \* which of them are powered
    outbox,       \* calls it has not served, in order
    inbox,        \* messages to the user interface, in order
    \* lib/manager.c
    call,         \* serial of get_technologies_call, 0 for NULL
    serial,       \* last serial used
    \* lib/technology.c
    techIf,       \* tech_if # NULL
    set,          \* tech_if->set: TechnologyAdded and Removed are watched
    menuCb,       \* tech_if->added_cb and removed_cb are the menu's
    known,        \* paths in the table techs, PropertyChanged is watched
    powered,      \* those known to be powered
    modify,       \* per path, serial of call_modify[Powered], 0 for NULL
    notify,       \* paths whose to_update[Powered] waits to run
    callbacks,    \* paths whose property_changed_cb is their item's
    scanCall,     \* per path, serial of scan_call, 0 for NULL
    scanning,     \* per path, Scan calls in flight with its technology
    dangling,     \* Scan calls in flight whose technology was freed
    \* src/right-menu.c and src/gtktechnology.c
    disabled,     \* only the quit item is shown
    open,         \* the right menu is shown
    items,        \* tech_items: the paths it shows
    switch,       \* items whose switch is on
    greyed,       \* items whose switch is insensitive
    position,     \* item_position
    \* bounds and history
    count,        \* how often each bounded step was taken
    failed,       \* GetTechnologies failed since the daemon came up
    ghosts,       \* removed while the user interface could not see it
    stale,        \* changed while the user interface could not see it
    refused,      \* paths whose last SetProperty failed
    adrift,       \* items that outlived the technologies of their daemon
    overlapped    \* Scan calls in flight together

busVars == <<alive, present, power, outbox, inbox>>
callVars == <<call, serial>>
techVars == <<known, powered, modify, notify, callbacks>>
scanVars == <<scanCall, scanning, dangling, overlapped>>
menuVars == <<open, items, switch, greyed, position>>
history == <<count, failed, ghosts, stale, refused, adrift>>
vars == <<busVars, callVars, techIf, set, menuCb, techVars, scanVars, disabled,
          menuVars, history>>

-----------------------------------------------------------------------------
Bounds == [change |-> MaxChange, popup |-> MaxPopup, click |-> MaxClick,
           scan |-> MaxScan, fail |-> MaxFail, down |-> MaxDown]

Counted(step) ==
    /\ count[step] < Bounds[step]
    /\ count' = [count EXCEPT ![step] = @ + 1]

(* Messages *)
GetTechnologies(s) == [type |-> "GetTechnologies", serial |-> s]
SetPowered(p, on, s) ==
    [type |-> "SetPowered", path |-> p, on |-> on, serial |-> s]
Technologies(s) ==
    [type |-> "technologies", serial |-> s, paths |-> present, on |-> power]
Result(s, ok) == [type |-> "result", serial |-> s, ok |-> ok]
Signal(t, p, on) == [type |-> t, path |-> p, on |-> on]
Note(t) == [type |-> t]

Receive(t) ==
    /\ inbox # <<>>
    /\ Head(inbox).type = t
    /\ inbox' = Tail(inbox)

(* A message for a daemon that is gone never arrives. *)
Sent(m) == IF alive THEN Append(outbox, m) ELSE outbox

With(S, p, on) == IF on THEN S \cup {p} ELSE S \ {p}

-----------------------------------------------------------------------------
(* Helpers *)

(* A pending GetTechnologies is cancelled. *)
__connman_manager_get_technologies ==
    /\ serial' = serial + 1
    /\ call' = serial + 1
    /\ outbox' = Sent(GetTechnologies(serial + 1))

(* A property update is passed on only if an item listens.                  *)
property_update(S) == notify' = notify \cup (S \cap callbacks)

(* Faulty variants: a waiting source stays, or the scan is not cancelled.   *)
technology_free_keeping_source(S) ==
    /\ powered' = powered \ S
    /\ modify' = [p \in Paths |-> IF p \in S THEN 0 ELSE modify[p]]
    /\ scanCall' = [p \in Paths |-> IF p \in S THEN 0 ELSE scanCall[p]]
    /\ scanning' = [p \in Paths |-> IF p \in S THEN {} ELSE scanning[p]]
    /\ dangling' = dangling \cup UNION {scanning[p] \ {scanCall[p]} : p \in S}
    /\ UNCHANGED <<notify, overlapped>>

technology_free_keeping_scan(S) ==
    /\ powered' = powered \ S
    /\ modify' = [p \in Paths |-> IF p \in S THEN 0 ELSE modify[p]]
    /\ notify' = notify \ S
    /\ scanCall' = [p \in Paths |-> IF p \in S THEN 0 ELSE scanCall[p]]
    /\ scanning' = [p \in Paths |-> IF p \in S THEN {} ELSE scanning[p]]
    /\ dangling' = dangling \cup UNION {scanning[p] : p \in S}
    /\ UNCHANGED overlapped

(* The technologies of S go, and with them their watches, sources and       *)
(* calls, of the scans only the last one.                                   *)
technology_free(S) ==
    /\ powered' = powered \ S
    /\ modify' = [p \in Paths |-> IF p \in S THEN 0 ELSE modify[p]]
    /\ notify' = notify \ S
    /\ scanCall' = [p \in Paths |-> IF p \in S THEN 0 ELSE scanCall[p]]
    /\ scanning' = [p \in Paths |-> IF p \in S THEN {} ELSE scanning[p]]
    /\ dangling' = dangling \cup UNION {scanning[p] \ {scanCall[p]} : p \in S}
    /\ UNCHANGED overlapped

(* Faulty variants: the item shows the technology as it was before the      *)
(* message, or is counted though it takes the place of another.             *)
add_technology_as_before(p) ==
    /\ items' = items \cup {p}
    /\ callbacks' = IF p \in items THEN callbacks \ {p} ELSE callbacks \cup {p}
    /\ position' = IF p \in items THEN position ELSE position + 1
    /\ switch' = With(switch, p, p \in powered)
    /\ greyed' = greyed \ {p}

add_technology_counted_twice(p) ==
    /\ items' = items \cup {p}
    /\ callbacks' = IF p \in items THEN callbacks \ {p} ELSE callbacks \cup {p}
    /\ position' = position + 1
    /\ switch' = With(switch, p, p \in powered')
    /\ greyed' = greyed \ {p}

(* A new item for p takes the place of an older one, whose destruction      *)
(* takes the callback of p away from the new one.                           *)
add_technology(p) ==
    /\ items' = items \cup {p}
    /\ callbacks' = IF p \in items THEN callbacks \ {p} ELSE callbacks \cup {p}
    /\ position' = IF p \in items THEN position ELSE position + 1
    /\ switch' = With(switch, p, p \in powered')
    /\ greyed' = greyed \ {p}

(* gtk_technology_destroy on the items of S takes the callbacks back.       *)
delete_technology_items(S) ==
    /\ items' = items \ S
    /\ switch' = switch \ S
    /\ greyed' = greyed \ S
    /\ position' = position - Cardinality(items \cap S)

-----------------------------------------------------------------------------
(* Handlers of messages *)

(* Faulty variants: the list is asked for only once, or the call that was   *)
(* answered is kept.                                                        *)
get_technologies_cb_once(m) ==
    /\ known' = known \cup m.paths
    /\ powered' = (powered \ m.paths) \cup m.on
    /\ property_update(m.paths)
    /\ set' = TRUE /\ call' = 0
    /\ UNCHANGED <<serial, outbox>>

get_technologies_cb_keeping_call(m) ==
    /\ known' = known \cup m.paths
    /\ powered' = (powered \ m.paths) \cup m.on
    /\ property_update(m.paths)
    /\ IF set
       THEN UNCHANGED <<set, callVars, outbox>>
       ELSE set' = TRUE /\ __connman_manager_get_technologies

(* The first list is asked for again once the signals are watched; nothing  *)
(* is done about a technology that is not in it.                            *)
get_technologies_cb(m) ==
    /\ known' = known \cup m.paths
    /\ powered' = (powered \ m.paths) \cup m.on
    /\ property_update(m.paths)
    /\ IF set
       THEN call' = 0 /\ UNCHANGED <<set, serial, outbox>>
       ELSE set' = TRUE /\ __connman_manager_get_technologies

get_technologies_callback ==
    /\ Receive("technologies")
    /\ IF Head(inbox).serial = call
       THEN get_technologies_cb(Head(inbox))
       ELSE UNCHANGED <<known, powered, notify, set, callVars, outbox>>
    /\ UNCHANGED <<alive, present, power, techIf, menuCb, modify, callbacks,
                   scanVars, disabled, menuVars, history>>

(* An error answer is no list: nothing is asked again. *)
get_technologies_error ==
    /\ Receive("result")
    /\ Head(inbox).serial = call
    /\ call' = 0
    /\ failed' = TRUE
    /\ UNCHANGED <<alive, present, power, outbox, serial, techIf, set, menuCb,
                   techVars, scanVars, disabled, menuVars, count, ghosts,
                   stale, refused, adrift>>

(* The answer to SetProperty; it was cancelled if the technology is gone.   *)
set_property_cb ==
    /\ Receive("result")
    /\ LET m == Head(inbox) IN
         /\ m.serial # call
         /\ modify' = [p \in Paths |-> IF modify[p] = m.serial THEN 0
                                       ELSE modify[p]]
    /\ UNCHANGED <<alive, present, power, outbox, callVars, techIf, set, menuCb,
                   known, powered, notify, callbacks, scanVars, disabled,
                   menuVars, history>>

(* The technology first, its item next, and the list is asked for again.    *)
technology_added_cb ==
    /\ Receive("TechnologyAdded")
    /\ LET m == Head(inbox) IN
         IF set
         THEN /\ known' = known \cup {m.path}
              /\ powered' = With(powered, m.path, m.on)
              /\ property_update({m.path})
              /\ IF menuCb THEN add_technology(m.path)
                 ELSE UNCHANGED <<items, callbacks, position, switch, greyed>>
              /\ __connman_manager_get_technologies
         ELSE UNCHANGED <<known, powered, notify, callbacks, items, position,
                          switch, greyed, callVars, outbox>>
    /\ UNCHANGED <<alive, present, power, techIf, set, menuCb, modify, scanVars,
                   disabled, open, history>>

(* Faulty variant: the menu is not told. *)
technology_removed_cb_untold ==
    /\ Receive("TechnologyRemoved")
    /\ LET gone == {Head(inbox).path} IN
         IF set
         THEN /\ known' = known \ gone
              /\ callbacks' = callbacks \ gone
              /\ technology_free(known \cap gone)
         ELSE UNCHANGED <<techVars, scanVars>>
    /\ UNCHANGED <<alive, present, power, outbox, callVars, techIf, set, menuCb,
                   disabled, menuVars, history>>

(* The item first, the technology next. *)
technology_removed_cb ==
    /\ Receive("TechnologyRemoved")
    /\ LET gone == {Head(inbox).path} IN
         IF set
         THEN /\ IF menuCb THEN delete_technology_items(gone)
                 ELSE UNCHANGED <<items, switch, greyed, position>>
              /\ known' = known \ gone
              /\ callbacks' = callbacks \ gone
              /\ technology_free(known \cap gone)
         ELSE UNCHANGED <<items, switch, greyed, position, techVars, scanVars>>
    /\ UNCHANGED <<alive, present, power, outbox, callVars, techIf, set, menuCb,
                   disabled, open, history>>

property_changed_signal_cb ==
    /\ Receive("PropertyChanged")
    /\ LET m == Head(inbox) IN
         IF m.path \in known
         THEN powered' = With(powered, m.path, m.on) /\ property_update({m.path})
         ELSE UNCHANGED <<powered, notify>>
    /\ UNCHANGED <<alive, present, power, outbox, callVars, techIf, set, menuCb,
                   known, modify, callbacks, scanVars, disabled, menuVars,
                   history>>

(* connman_technology_init and cui_right_menu_enable_all *)
connman_up ==
    /\ Receive("up")
    /\ disabled' = FALSE
    /\ techIf' = TRUE
    /\ IF techIf THEN UNCHANGED <<callVars, outbox, failed>>
       ELSE __connman_manager_get_technologies /\ failed' = FALSE
    /\ UNCHANGED <<alive, present, power, set, menuCb, techVars, scanVars,
                   menuVars, count, ghosts, stale, refused, adrift>>

(* connman_technology_finalize, connman_manager_finalize and                *)
(* cui_right_menu_enable_only_quit; an open menu keeps its items.           *)
connman_down ==
    /\ Receive("down")
    /\ disabled' = TRUE
    /\ techIf' = FALSE /\ set' = FALSE /\ menuCb' = FALSE
    /\ call' = 0
    /\ known' = {} /\ callbacks' = {}
    /\ technology_free(known)
    /\ adrift' = items
    /\ ghosts' = {} /\ stale' = {}
    /\ UNCHANGED <<alive, present, power, outbox, serial, menuVars, count,
                   failed, refused>>

(* The answer to a Scan call.  Without its technology, scan_callback works  *)
(* on freed memory: nothing else is said of that here.                      *)
scan_callback(s) ==
    /\ \/ /\ \E p \in Paths :
               /\ s \in scanning[p]
               /\ scanning' = [scanning EXCEPT ![p] = @ \ {s}]
               /\ scanCall' = [scanCall EXCEPT ![p] = 0]
          /\ UNCHANGED dangling
       \/ /\ s \in dangling
          /\ dangling' = dangling \ {s}
          /\ UNCHANGED <<scanning, scanCall>>
    /\ UNCHANGED <<busVars, callVars, techIf, set, menuCb, techVars, overlapped,
                   disabled, menuVars, history>>

(* Faulty variant: the switch stays greyed. *)
property_changed_or_error_keeping_greyed(p) ==
    /\ p \in notify
    /\ notify' = notify \ {p}
    /\ switch' = IF p \in callbacks THEN With(switch, p, p \in powered)
                 ELSE switch
    /\ UNCHANGED <<busVars, callVars, techIf, set, menuCb, known, powered,
                   modify, callbacks, scanVars, disabled, open, items, greyed,
                   position, history>>

(* The source of property_update: technology_property_changed_cb shows the  *)
(* power of the technology in its item.                                     *)
property_changed_or_error(p) ==
    /\ p \in notify
    /\ notify' = notify \ {p}
    /\ IF p \in callbacks
       THEN switch' = With(switch, p, p \in powered) /\ greyed' = greyed \ {p}
       ELSE UNCHANGED <<switch, greyed>>
    /\ UNCHANGED <<busVars, callVars, techIf, set, menuCb, known, powered,
                   modify, callbacks, scanVars, disabled, open, items, position,
                   history>>

-----------------------------------------------------------------------------
(* The user *)

(* An item for every technology, unless the menu only offers to quit.       *)
cui_popup_right_menu ==
    /\ ~open
    /\ Counted("popup")
    /\ open' = TRUE
    /\ menuCb' = techIf
    /\ LET shown == IF disabled THEN {} ELSE known IN
         /\ items' = shown
         /\ position' = position + Cardinality(shown)
         /\ callbacks' = callbacks \cup shown
         /\ switch' = powered \cap shown
    /\ UNCHANGED <<busVars, callVars, techIf, set, known, powered, modify,
                   notify, scanVars, disabled, greyed, failed, ghosts, stale,
                   refused, adrift>>

(* Faulty variant: the items do not take their callbacks back. *)
cui_popdown_right_menu_keeping_callbacks ==
    /\ open
    /\ open' = FALSE
    /\ menuCb' = FALSE
    /\ delete_technology_items(items)
    /\ adrift' = {}
    /\ UNCHANGED <<busVars, callVars, techIf, set, techVars, scanVars, disabled,
                   count, failed, ghosts, stale, refused>>

cui_popdown_right_menu ==
    /\ open
    /\ open' = FALSE
    /\ menuCb' = FALSE
    /\ callbacks' = callbacks \ items
    /\ delete_technology_items(items)
    /\ adrift' = {}
    /\ UNCHANGED <<busVars, callVars, techIf, set, known, powered, modify,
                   notify, scanVars, disabled, count, failed, ghosts, stale,
                   refused>>

(* A left click on an item, connman_technology_enable and                   *)
(* set_technology_property: the switch is greyed unless a call is pending.  *)
gtk_technology_button_release_event(p) ==
    LET enable == p \notin switch
        asked == p \in known /\ (p \in powered) # enable
    IN  /\ p \in items
        /\ Counted("click")
        /\ IF asked /\ modify[p] = 0
           THEN /\ serial' = serial + 1
                /\ modify' = [modify EXCEPT ![p] = serial + 1]
                /\ outbox' = Sent(SetPowered(p, enable, serial + 1))
           ELSE UNCHANGED <<serial, modify, outbox>>
        /\ greyed' = IF p \in known /\ (asked => modify[p] = 0)
                     THEN greyed \cup {p} ELSE greyed
        /\ UNCHANGED <<alive, present, power, inbox, call, techIf, set, menuCb,
                       known, powered, notify, callbacks, scanVars, disabled,
                       open, items, switch, position, failed, ghosts, stale,
                       refused, adrift>>

(* connman_technology_scan, as the left menu opens: a pending call is       *)
(* forgotten, not cancelled.                                                *)
connman_technology_scan(p) ==
    /\ p \in powered
    /\ Counted("scan")
    /\ serial' = serial + 1
    /\ scanCall' = [scanCall EXCEPT ![p] = serial + 1]
    /\ scanning' = [scanning EXCEPT ![p] = @ \cup {serial + 1}]
    /\ overlapped' = IF scanning[p] = {} THEN overlapped
                     ELSE overlapped \cup scanning[p] \cup {serial + 1}
    /\ UNCHANGED <<busVars, call, techIf, set, menuCb, techVars, dangling,
                   disabled, menuVars, failed, ghosts, stale, refused, adrift>>

-----------------------------------------------------------------------------
(* The daemon *)

(* A list that names p and will be taken as it is, is on its way.           *)
Listed(p) ==
    \E i \in DOMAIN inbox : /\ inbox[i].type = "technologies"
                            /\ inbox[i].serial = call
                            /\ p \in inbox[i].paths

DaemonAdd(p, on) ==
    /\ alive /\ p \notin present
    /\ Counted("change")
    /\ present' = present \cup {p}
    /\ power' = With(power, p, on)
    /\ inbox' = IF set THEN Append(inbox, Signal("TechnologyAdded", p, on))
                ELSE inbox
    /\ UNCHANGED <<alive, outbox, callVars, techIf, set, menuCb, techVars,
                   scanVars, disabled, menuVars, failed, ghosts, stale, refused,
                   adrift>>

DaemonRemove(p) ==
    /\ alive /\ p \in present
    /\ Counted("change")
    /\ present' = present \ {p}
    /\ power' = power \ {p}
    /\ inbox' = IF set THEN Append(inbox, Signal("TechnologyRemoved", p, FALSE))
                ELSE inbox
    /\ ghosts' = IF ~set /\ Listed(p) THEN ghosts \cup {p} ELSE ghosts
    /\ UNCHANGED <<alive, outbox, callVars, techIf, set, menuCb, techVars,
                   scanVars, disabled, menuVars, failed, stale, refused, adrift>>

(* The power of p changes. *)
Toggled(p) ==
    /\ power' = With(power, p, p \notin power)
    /\ stale' = IF p \notin known /\ set /\ Listed(p) THEN stale \cup {p}
                ELSE stale

ToggledSignal(p) ==
    IF p \in known THEN <<Signal("PropertyChanged", p, p \notin power)>> ELSE <<>>

DaemonToggle(p) ==
    /\ alive /\ p \in present
    /\ Counted("change")
    /\ Toggled(p)
    /\ inbox' = inbox \o ToggledSignal(p)
    /\ UNCHANGED <<alive, present, outbox, callVars, techIf, set, menuCb,
                   techVars, scanVars, disabled, menuVars, failed, ghosts,
                   refused, adrift>>

(* The daemon serves the next call. *)
Serve(t) ==
    /\ outbox # <<>>
    /\ Head(outbox).type = t
    /\ outbox' = Tail(outbox)
    /\ UNCHANGED <<alive, present, callVars, techIf, set, menuCb, techVars,
                   scanVars, disabled, menuVars, failed, ghosts, adrift>>

DaemonList ==
    /\ Serve("GetTechnologies")
    /\ inbox' = Append(inbox, Technologies(Head(outbox).serial))
    /\ UNCHANGED <<power, count, stale, refused>>

DaemonListError ==
    /\ Serve("GetTechnologies")
    /\ Counted("fail")
    /\ inbox' = Append(inbox, Result(Head(outbox).serial, FALSE))
    /\ UNCHANGED <<power, stale, refused>>

(* SetProperty does what it says, and tells so before or after its answer.  *)
DaemonSet ==
    /\ Serve("SetPowered")
    /\ LET m == Head(outbox)
           ok == <<Result(m.serial, TRUE)>>
       IN  /\ m.path \in present /\ (m.path \in power) # m.on
           /\ Toggled(m.path)
           /\ inbox' \in {inbox \o ToggledSignal(m.path) \o ok,
                          inbox \o ok \o ToggledSignal(m.path)}
           /\ refused' = refused \ {m.path}
    /\ UNCHANGED count

(* SetProperty is refused: the technology is gone, it is so already, or     *)
(* something else went wrong.                                               *)
DaemonSetError ==
    /\ Serve("SetPowered")
    /\ LET m == Head(outbox) IN
         /\ IF m.path \in present /\ (m.path \in power) # m.on
            THEN Counted("fail") ELSE UNCHANGED count
         /\ inbox' = Append(inbox, Result(m.serial, FALSE))
         /\ refused' = refused \cup {m.path}
    /\ UNCHANGED <<power, stale>>

DaemonDown ==
    /\ alive
    /\ Counted("down")
    /\ alive' = FALSE
    /\ outbox' = <<>>
    /\ inbox' = Append(inbox, Note("down"))
    /\ UNCHANGED <<present, power, callVars, techIf, set, menuCb, techVars,
                   scanVars, disabled, menuVars, failed, ghosts, stale, refused,
                   adrift>>

(* A restarted daemon finds the technologies it had. *)
DaemonUp ==
    /\ ~alive
    /\ alive' = TRUE
    /\ inbox' = Append(inbox, Note("up"))
    /\ UNCHANGED <<present, power, outbox, callVars, techIf, set, menuCb,
                   techVars, scanVars, disabled, menuVars, history>>

-----------------------------------------------------------------------------
Init ==
    /\ alive = TRUE
    /\ present \in SUBSET Paths /\ power \in SUBSET present
    /\ outbox = <<>> /\ inbox = <<Note("up")>>
    /\ call = 0 /\ serial = 0
    /\ techIf = FALSE /\ set = FALSE /\ menuCb = FALSE
    /\ known = {} /\ powered = {} /\ notify = {} /\ callbacks = {}
    /\ modify = [p \in Paths |-> 0]
    /\ scanCall = [p \in Paths |-> 0] /\ scanning = [p \in Paths |-> {}]
    /\ dangling = {} /\ overlapped = {}
    /\ disabled = TRUE /\ open = FALSE
    /\ items = {} /\ switch = {} /\ greyed = {} /\ position = 3
    /\ count = [step \in DOMAIN Bounds |-> 0]
    /\ failed = FALSE /\ ghosts = {} /\ stale = {} /\ refused = {}
    /\ adrift = {}

MainLoop ==
    \/ get_technologies_callback
    \/ get_technologies_error
    \/ set_property_cb
    \/ technology_added_cb
    \/ technology_removed_cb
    \/ property_changed_signal_cb
    \/ connman_up
    \/ connman_down
    \/ \E p \in Paths : property_changed_or_error(p)

User ==
    \/ cui_popup_right_menu
    \/ cui_popdown_right_menu
    \/ \E p \in Paths : gtk_technology_button_release_event(p)
    \/ \E p \in Paths : connman_technology_scan(p)

DaemonServe == DaemonList \/ DaemonListError \/ DaemonSet \/ DaemonSetError

Daemon ==
    \/ \E p \in Paths : \/ \E on \in BOOLEAN : DaemonAdd(p, on)
                        \/ DaemonRemove(p)
                        \/ DaemonToggle(p)
    \/ DaemonServe
    \/ DaemonDown
    \/ DaemonUp

Next ==
    \/ MainLoop
    \/ \E s \in 1 .. serial : scan_callback(s)
    \/ User
    \/ Daemon

Spec == Init /\ [][Next]_vars

(* The main loop serves messages and sources, the daemon serves calls.      *)
FairSpec == Spec /\ WF_vars(MainLoop) /\ WF_vars(DaemonServe)
-----------------------------------------------------------------------------
ToDaemon ==
    [type : {"GetTechnologies"}, serial : Nat]
      \cup [type : {"SetPowered"}, path : Paths, on : BOOLEAN, serial : Nat]

Messages ==
    [type : {"technologies"}, serial : Nat, paths : SUBSET Paths,
     on : SUBSET Paths]
      \cup [type : {"result"}, serial : Nat, ok : BOOLEAN]
      \cup [type : {"TechnologyAdded", "TechnologyRemoved", "PropertyChanged"},
            path : Paths, on : BOOLEAN]
      \cup [type : {"up", "down"}]

TypeOK ==
    /\ {alive, techIf, set, menuCb, disabled, open, failed} \subseteq BOOLEAN
    /\ present \subseteq Paths /\ power \subseteq present
    /\ outbox \in Seq(ToDaemon) /\ inbox \in Seq(Messages)
    /\ call \in 0 .. serial /\ serial \in Nat
    /\ known \subseteq Paths /\ powered \subseteq known
    /\ notify \subseteq known
    /\ {callbacks, items, ghosts, stale, refused, adrift} \subseteq SUBSET Paths
    /\ switch \subseteq items /\ greyed \subseteq items
    /\ modify \in [Paths -> 0 .. serial] /\ scanCall \in [Paths -> 0 .. serial]
    /\ scanning \in [Paths -> SUBSET (1 .. serial)]
    /\ dangling \subseteq 1 .. serial /\ overlapped \subseteq 1 .. serial
    /\ position \in Nat
    /\ \A step \in DOMAIN Bounds : count[step] \in 0 .. Bounds[step]

(* Nothing is on its way that would still change the table.                 *)
Settled ==
    /\ alive /\ techIf /\ set /\ ~failed
    /\ inbox = <<>> /\ outbox = <<>> /\ call = 0

(* Fetching the list, watching the signals and fetching it once more loses  *)
(* nothing but two things: the removal of a technology that the first list  *)
(* named, and the change of one that only the second list named, each       *)
(* between the answer and the watch.                                        *)
TableAccurate ==
    Settled =>
        /\ present \subseteq known
        /\ known \ present \subseteq ghosts
        /\ \A p \in known \cap present :
             p \in stale \/ (p \in powered <=> p \in power)

(* A callback always belongs to an item of the menu and to a technology of  *)
(* the table: none is left with a destroyed widget as its user data.        *)
CallbackHasItem == callbacks \subseteq items \cap known

(* Every item is kept up to date by its technology, unless the technology   *)
(* went with the daemon while the menu was open, or was one the user        *)
(* interface failed to see removed (added again, its new item loses the     *)
(* callback to the destruction of the old one).                             *)
ItemsFollow == items \subseteq callbacks \cup adrift \cup ghosts

(* While its callback is set an item shows the power of the technology, or  *)
(* a source is waiting that will show it.                                   *)
SwitchFollows ==
    \A p \in callbacks : (p \in switch <=> p \in powered) \/ p \in notify

(* A switch that was greyed by a click becomes sensitive again when all is  *)
(* settled, unless the daemon refused (the error is printed, the switch is  *)
(* left as it is) or its item is not kept up to date.                       *)
GreyedForAReason ==
    Settled /\ notify = {} =>
        greyed \subseteq refused \cup adrift \cup ghosts

(* The place where the next item goes is right behind the items, through    *)
(* additions, removals, and items that take the place of others.            *)
PositionCounts == position = 3 + Cardinality(items)

(* Items, callbacks and the table belong together: each item follows its    *)
(* technology, each callback has its item, each item its place.             *)
MenuConsistent == ItemsFollow /\ CallbackHasItem /\ PositionCounts

(* A switch shows the power of its technology, and can be used.             *)
SwitchTruthful == SwitchFollows /\ GreyedForAReason

(* The answer to a Scan finds its technology, unless two Scan calls of the  *)
(* technology overlapped: technology_free cancels one only.                 *)
ScanForLive == dangling \subseteq overlapped

(* The table catches up with the daemon when the daemon stays and answers.  *)
TableSettles ==
    <>[](alive /\ ~failed) => <>[](techIf /\ set /\ call = 0 /\ present \subseteq known)
=============================================================================
