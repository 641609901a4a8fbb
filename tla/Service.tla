------------------------------ MODULE Service ------------------------------
(***************************************************************************)
(* The service list of the user interface: lib/service.c keeps a table of  *)
(* service objects and the order the daemon reports them in, lib/manager.c *)
(* fetches that list (GetServices) and watches it (ServicesChanged),       *)
(* src/left-menu.c shows it in the left menu and src/settings.c opens the  *)
(* settings of one selected service.                                       *)
(*                                                                         *)
(* A service object is allocated by update_or_create_service and freed by  *)
(* service_free.  ordered_services holds pointers into these objects, so   *)
(* objects have an identity here: the path and the round of allocation.    *)
(*                                                                         *)
(* Every handler runs to completion in the main loop and is one action.    *)
(* The daemon answers calls and emits signals in order; a signal reaches   *)
(* the user interface only if it was emitted while the match rule was set. *)
(***************************************************************************)
EXTENDS Integers, Sequences, FiniteSets, SequencesExt

CONSTANTS
    Paths,        \* D-Bus paths of the services
    None,
    MaxChange,    \* bound: changes of the daemon's list
    MaxPopup,     \* bound: times the left menu is opened
    MaxTrouble    \* bound: GetServices calls that fail, and losses of the daemon

ASSUME ConstAssumption ==
    /\ IsFiniteSet(Paths)
    /\ None \notin Paths \cup (Paths \X Nat)
    /\ {MaxChange, MaxPopup, MaxTrouble} \subseteq Nat

VARIABLES
    \* the daemon and the bus (external)
    alive,        \* net.connman has an owner
    list,         \* the daemon's services, best first
    outbox,       \* serials of the GetServices calls it has not answered
    inbox,        \* messages to the user interface, in order
    \* lib/manager.c
    matched,      \* services_changed_wid # 0
    call,         \* serial of get_services_call, 0 for NULL
    serial,       \* last serial used
    \* lib/service.c
    serviceIf,    \* service_if # NULL
    live,         \* the service objects allocated and not freed
    era,          \* rounds of allocation so far
    services,     \* the hash table: path to object
    ordered,      \* ordered_services
    selected,     \* selected_service
    refreshed,
    refreshCb,    \* refresh_services_cb # NULL
    removedCb,    \* removed_cb # NULL
    idle,         \* the to_refresh source waits to run
    staleIdle,    \* such sources left by an earlier service_if
    \* src/left-menu.c and src/settings.c
    open,         \* the left menu is shown
    items,        \* service_items: the paths it shows
    settings,     \* path of the settings dialog, None without one
    listener,     \* the object whose property_changed_cb is the settings'
    \* bounds and history
    changes, popups, troubles,
    clean,        \* the menu was last opened without leftovers: no item,
                  \* service or signal of an earlier opening
    failed,       \* a GetServices call failed since the last opening
    orphans       \* objects freed by closing the settings

busVars == <<alive, list, outbox, inbox>>
managerVars == <<matched, call, serial>>
tableVars == <<live, era, services, ordered, selected>>
refreshVars == <<refreshed, refreshCb, removedCb, idle, staleIdle>>
guiVars == <<open, items, settings, listener>>
history == <<changes, popups, troubles, clean, failed, orphans>>
vars == <<busVars, managerVars, serviceIf, tableVars, refreshVars, guiVars,
          history>>

-----------------------------------------------------------------------------
Objects == Paths \X Nat
PathOf(o) == o[1]

Lists == {l \in UNION {[1 .. n -> Paths] : n \in 0 .. Cardinality(Paths)} :
            IsInjective(l)}

(* Messages to the user interface *)
Changed(l, gone) == [type |-> "ServicesChanged", list |-> l, removed |-> gone]
Services(s, l) == [type |-> "services", serial |-> s, list |-> l]
Failure(s) == [type |-> "error", serial |-> s]
Note(t) == [type |-> t]

Receive(t) ==
    /\ inbox # <<>>
    /\ Head(inbox).type = t
    /\ inbox' = Tail(inbox)

-----------------------------------------------------------------------------
(* lib/service.c: the table of objects *)

Hashed == {services[p] : p \in Paths} \ {None}
NoServices == [p \in Paths |-> None]

(* Faulty variant: the selected service is not looked at. *)
get_service_in_table(p) == services[p]

(* The selected service is found even when it left the table. *)
get_service(p) ==
    IF services[p] = None /\ selected # None /\ PathOf(selected) = p
    THEN selected
    ELSE services[p]

(* Faulty variant: the selected service is freed like any other. *)
Freed_selected_too(S, chosen) == live \ S

(* What is left of live once service_free ran on S: it spares the selected  *)
(* service, chosen.                                                         *)
Freed(S, chosen) == live \ (S \ {chosen})

(* update_or_create_service on every entry of a reported list: the paths    *)
(* without an object get one in the table, and the order is rebuilt.        *)
Missing(l) == {p \in ToSet(l) : get_service(p) = None}
Created(l) == {<<p, era + 1>> : p \in Missing(l)}
WithCreated(l) ==
    [p \in Paths |-> IF p \in Missing(l) THEN <<p, era + 1>> ELSE services[p]]
(* Faulty variant: the order is built before the objects are created. *)
OrderOf_before_creation(l) == [i \in DOMAIN l |-> get_service(l[i])]

OrderOf(l) ==
    [i \in DOMAIN l |-> IF l[i] \in Missing(l) THEN <<l[i], era + 1>>
                        ELSE get_service(l[i])]

update_or_create_services(l) ==
    /\ ordered' = OrderOf(l)
    /\ era' = IF Missing(l) = {} THEN era ELSE era + 1

(* A new source takes the place of the one that waits. *)
call_refresh_callback == idle' = (refreshCb \/ idle)

(* Faulty variant: nothing is asked while a call is pending. *)
__connman_manager_get_services_unless_pending ==
    IF call # 0 THEN UNCHANGED <<serial, call, outbox>>
    ELSE /\ serial' = serial + 1
         /\ call' = serial + 1
         /\ outbox' = IF alive THEN Append(outbox, serial + 1) ELSE outbox

(* __connman_manager_get_services: a pending call is cancelled. *)
__connman_manager_get_services ==
    /\ serial' = serial + 1
    /\ call' = serial + 1
    /\ outbox' = IF alive THEN Append(outbox, serial + 1) ELSE outbox

-----------------------------------------------------------------------------
(* Handlers of messages *)

(* The answer to the first GetServices asks again; the second one shows.    *)
get_services_cb(l) ==
    /\ update_or_create_services(l)
    /\ live' = live \cup Created(l)
    /\ services' = WithCreated(l)
    /\ IF refreshed
       THEN /\ call' = 0
            /\ call_refresh_callback
            /\ UNCHANGED <<refreshed, serial, outbox>>
       ELSE /\ refreshed' = TRUE
            /\ __connman_manager_get_services
            /\ UNCHANGED idle

get_services_callback ==
    /\ Receive("services")
    /\ LET m == Head(inbox) IN
         IF m.serial = call
         THEN get_services_cb(m.list)
         ELSE UNCHANGED <<outbox, call, serial, live, era, services, ordered,
                          refreshed, idle>>
    /\ UNCHANGED <<alive, list, matched, serviceIf, selected, refreshCb,
                   removedCb, staleIdle, guiVars, history>>

(* An error answer (a time-out, for instance) holds no array: the order is  *)
(* dropped and nothing is asked or shown.                                   *)
get_services_error ==
    /\ Receive("error")
    /\ IF Head(inbox).serial = call
       THEN call' = 0 /\ ordered' = <<>> /\ failed' = TRUE
       ELSE UNCHANGED <<call, ordered, failed>>
    /\ UNCHANGED <<alive, list, outbox, matched, serial, serviceIf, live, era,
                   services, selected, refreshVars, guiVars, changes, popups,
                   troubles, clean, orphans>>

(* Faulty variant: the menu is not told of the removed services. *)
service_changed_signal_cb_untold ==
    /\ Receive("ServicesChanged")
    /\ IF matched
       THEN LET m == Head(inbox)
                known == {p \in m.removed : get_service(p) # None}
            IN  /\ update_or_create_services(m.list)
                /\ live' = Freed({services[p] : p \in known} \ {None}, selected)
                             \cup Created(m.list)
                /\ services' = [p \in Paths |-> IF p \in known THEN None
                                                ELSE WithCreated(m.list)[p]]
                /\ IF refreshed THEN call_refresh_callback ELSE UNCHANGED idle
       ELSE UNCHANGED <<live, era, services, ordered, idle>>
    /\ UNCHANGED <<alive, list, outbox, managerVars, serviceIf, selected,
                   refreshed, refreshCb, removedCb, staleIdle, open, items,
                   settings, listener, history>>

(* The order and the new services first, then the removals, then the menu.  *)
(* A removed service loses its object, unless it is selected.               *)
service_changed_signal_cb ==
    /\ Receive("ServicesChanged")
    /\ IF matched
       THEN LET m == Head(inbox)
                known == {p \in m.removed : get_service(p) # None}
            IN  /\ update_or_create_services(m.list)
                /\ live' = Freed({services[p] : p \in known} \ {None}, selected)
                             \cup Created(m.list)
                /\ services' = [p \in Paths |-> IF p \in known THEN None
                                                ELSE WithCreated(m.list)[p]]
                /\ items' = IF removedCb THEN items \ known ELSE items
                /\ IF refreshed THEN call_refresh_callback ELSE UNCHANGED idle
       ELSE UNCHANGED <<live, era, services, ordered, idle, items>>
    /\ UNCHANGED <<alive, list, outbox, managerVars, serviceIf, selected,
                   refreshed, refreshCb, removedCb, staleIdle, open, settings,
                   listener, history>>

(* connman_service_init *)
connman_up ==
    /\ Receive("up")
    /\ serviceIf' = TRUE
    /\ UNCHANGED <<alive, list, outbox, managerVars, tableVars, refreshVars,
                   guiVars, history>>

(* connman_service_finalize and the end of connman_manager_finalize; the    *)
(* refresh source stays behind.                                             *)
connman_down ==
    /\ Receive("down")
    /\ serviceIf' = FALSE
    /\ matched' = FALSE /\ call' = 0
    /\ live' = live \ (Hashed \cup {selected})
    /\ services' = NoServices /\ ordered' = <<>> /\ selected' = None
    /\ refreshed' = FALSE /\ refreshCb' = FALSE /\ removedCb' = FALSE
    /\ idle' = FALSE
    /\ staleIdle' = staleIdle + IF idle THEN 1 ELSE 0
    /\ listener' = None
    /\ UNCHANGED <<alive, list, outbox, serial, era, open, items, settings,
                   history>>

-----------------------------------------------------------------------------
(* The refresh source: left-menu.c get_services_cb adds an item for each    *)
(* service in order.  gtk_service_new takes over the service's callback.    *)
ShowServices ==
    IF serviceIf /\ refreshCb
    THEN LET shown == {PathOf(o) : o \in ToSet(ordered)} IN
         /\ items' = items \cup shown
         /\ listener' = IF \E p \in shown : get_service(p) = listener
                        THEN None ELSE listener
    ELSE UNCHANGED <<items, listener>>

refresh_cb ==
    /\ \/ /\ idle
          /\ idle' = FALSE
          /\ UNCHANGED staleIdle
       \/ /\ staleIdle > 0
          /\ staleIdle' = staleIdle - 1
          /\ UNCHANGED idle
    /\ ShowServices
    /\ UNCHANGED <<busVars, managerVars, serviceIf, tableVars, refreshed,
                   refreshCb, removedCb, open, settings, history>>

-----------------------------------------------------------------------------
(* The user *)

(* cui_popup_left_menu and connman_service_refresh_services_list.  wifi is  *)
(* what the technologies say: none known, or an enabled wifi or not.        *)
cui_popup_left_menu(wifi) ==
    /\ ~open /\ settings = None
    /\ popups < MaxPopup
    /\ popups' = popups + 1
    /\ open' = TRUE
    /\ clean' = /\ items = {} /\ Hashed = {} /\ ordered = <<>>
                /\ \A i \in DOMAIN inbox : inbox[i].type # "ServicesChanged"
    /\ failed' = FALSE
    /\ removedCb' = serviceIf
    /\ refreshed' = IF serviceIf THEN FALSE ELSE refreshed
    /\ IF serviceIf /\ wifi # "unknown"
       THEN /\ refreshCb' = TRUE
            /\ matched' = (matched \/ wifi = "enabled")
            /\ __connman_manager_get_services
       ELSE UNCHANGED <<refreshCb, managerVars, outbox>>
    /\ UNCHANGED <<alive, list, inbox, serviceIf, tableVars, idle, staleIdle,
                   items, settings, listener, changes, troubles, orphans>>

(* Faulty variants: the order outlives the services, and the item just      *)
(* selected takes the settings' callback away as it goes.                   *)
PopdownWith_keeping_order(chosen, kept) ==
    /\ open' = FALSE
    /\ items' = {}
    /\ listener' = IF kept # None THEN get_service(kept)
                   ELSE IF \E p \in items : get_service(p) = listener THEN None
                   ELSE listener
    /\ selected' = chosen
    /\ removedCb' = FALSE
    /\ UNCHANGED ordered
    /\ IF serviceIf
       THEN /\ matched' = FALSE
            /\ services' = NoServices
            /\ live' = Freed(Hashed, chosen)
       ELSE UNCHANGED <<matched, services, live>>

PopdownWith_resetting_callback(chosen, kept) ==
    /\ open' = FALSE
    /\ items' = {}
    /\ listener' = None
    /\ selected' = chosen
    /\ removedCb' = FALSE
    /\ IF serviceIf
       THEN /\ matched' = FALSE
            /\ ordered' = <<>>
            /\ services' = NoServices
            /\ live' = Freed(Hashed, chosen)
       ELSE UNCHANGED <<matched, ordered, services, live>>

(* cui_popdown_left_menu: the items go, and with them the callbacks set on  *)
(* their services, those of the service just selected (kept) excepted; then *)
(* connman_service_free_services_list.  A pending GetServices call stays.   *)
PopdownWith(chosen, kept) ==
    /\ open' = FALSE
    /\ items' = {}
    /\ listener' = IF kept # None THEN get_service(kept)
                   ELSE IF \E p \in items : get_service(p) = listener THEN None
                   ELSE listener
    /\ selected' = chosen
    /\ removedCb' = FALSE
    /\ IF serviceIf
       THEN /\ matched' = FALSE
            /\ ordered' = <<>>
            /\ services' = NoServices
            /\ live' = Freed(Hashed, chosen)
       ELSE UNCHANGED <<matched, ordered, services, live>>

cui_popdown_left_menu ==
    /\ open
    /\ PopdownWith(selected, None)
    /\ UNCHANGED <<busVars, call, serial, serviceIf, era, refreshed, refreshCb,
                   idle, staleIdle, settings, history>>

(* A right click on an item: cui_settings_popup selects the service (if it  *)
(* still has one), then the menu is closed.                                 *)
cui_settings_popup(p) ==
    /\ open
    /\ p \in items
    /\ settings' = p
    /\ PopdownWith(IF get_service(p) = None THEN selected ELSE get_service(p), p)
    /\ UNCHANGED <<busVars, call, serial, serviceIf, era, refreshed, refreshCb,
                   idle, staleIdle, history>>

(* Closing the settings: connman_service_deselect frees a service that has  *)
(* left the table in the meantime.                                          *)
settings_cancel_callback ==
    /\ settings # None
    /\ settings' = None
    /\ listener' = IF get_service(settings) = listener THEN None ELSE listener
    /\ selected' = None
    /\ IF selected # None /\ services[PathOf(selected)] = None
       THEN live' = live \ {selected} /\ orphans' = orphans \cup {selected}
       ELSE UNCHANGED <<live, orphans>>
    /\ UNCHANGED <<busVars, managerVars, serviceIf, era, services, ordered,
                   refreshVars, open, items, changes, popups, troubles, clean,
                   failed>>

-----------------------------------------------------------------------------
(* The daemon *)

DaemonChange(l) ==
    /\ alive
    /\ changes < MaxChange
    /\ changes' = changes + 1
    /\ l # list
    /\ list' = l
    /\ inbox' = IF matched
                THEN Append(inbox, Changed(l, ToSet(list) \ ToSet(l)))
                ELSE inbox
    /\ UNCHANGED <<alive, outbox, managerVars, serviceIf, tableVars,
                   refreshVars, guiVars, popups, troubles, clean, failed,
                   orphans>>

DaemonAnswer ==
    /\ outbox # <<>>
    /\ outbox' = Tail(outbox)
    /\ inbox' = Append(inbox, Services(Head(outbox), list))
    /\ UNCHANGED <<alive, list, managerVars, serviceIf, tableVars, refreshVars,
                   guiVars, history>>

DaemonError ==
    /\ outbox # <<>>
    /\ troubles < MaxTrouble
    /\ troubles' = troubles + 1
    /\ outbox' = Tail(outbox)
    /\ inbox' = Append(inbox, Failure(Head(outbox)))
    /\ UNCHANGED <<alive, list, managerVars, serviceIf, tableVars, refreshVars,
                   guiVars, changes, popups, clean, failed, orphans>>

(* The calls it has not answered fail after the loss of the name, when      *)
(* connman_down has cancelled them.                                         *)
DaemonDown ==
    /\ alive
    /\ troubles < MaxTrouble
    /\ troubles' = troubles + 1
    /\ alive' = FALSE
    /\ outbox' = <<>>
    /\ inbox' = Append(inbox, Note("down"))
    /\ UNCHANGED <<list, managerVars, serviceIf, tableVars, refreshVars,
                   guiVars, changes, popups, clean, failed, orphans>>

DaemonUp(l) ==
    /\ ~alive
    /\ alive' = TRUE
    /\ list' = l
    /\ inbox' = Append(inbox, Note("up"))
    /\ UNCHANGED <<outbox, managerVars, serviceIf, tableVars, refreshVars,
                   guiVars, history>>

-----------------------------------------------------------------------------
Init ==
    /\ alive = TRUE /\ list \in Lists
    /\ outbox = <<>> /\ inbox = <<Note("up")>>
    /\ matched = FALSE /\ call = 0 /\ serial = 0
    /\ serviceIf = FALSE
    /\ live = {} /\ era = 0 /\ services = NoServices
    /\ ordered = <<>> /\ selected = None
    /\ refreshed = FALSE /\ refreshCb = FALSE /\ removedCb = FALSE
    /\ idle = FALSE /\ staleIdle = 0
    /\ open = FALSE /\ items = {} /\ settings = None /\ listener = None
    /\ changes = 0 /\ popups = 0 /\ troubles = 0
    /\ clean = TRUE /\ failed = FALSE /\ orphans = {}

MainLoop ==
    \/ get_services_callback
    \/ get_services_error
    \/ service_changed_signal_cb
    \/ connman_up
    \/ connman_down
    \/ refresh_cb

User ==
    \/ \E wifi \in {"unknown", "disabled", "enabled"} : cui_popup_left_menu(wifi)
    \/ cui_popdown_left_menu
    \/ \E p \in Paths : cui_settings_popup(p)
    \/ settings_cancel_callback

Daemon ==
    \/ \E l \in Lists : DaemonChange(l) \/ DaemonUp(l)
    \/ DaemonAnswer
    \/ DaemonError
    \/ DaemonDown

Next == MainLoop \/ User \/ Daemon

Spec == Init /\ [][Next]_vars

(* The main loop serves messages and sources, the daemon answers calls.     *)
FairSpec == Spec /\ WF_vars(MainLoop) /\ WF_vars(DaemonAnswer)
-----------------------------------------------------------------------------
Messages ==
    [type : {"ServicesChanged"}, list : Lists, removed : SUBSET Paths]
      \cup [type : {"services"}, serial : Nat, list : Lists]
      \cup [type : {"error"}, serial : Nat]
      \cup [type : {"up", "down"}]

TypeOK ==
    /\ alive \in BOOLEAN /\ list \in Lists
    /\ outbox \in Seq(Nat) /\ inbox \in Seq(Messages)
    /\ matched \in BOOLEAN /\ call \in Nat /\ serial \in Nat
    /\ serviceIf \in BOOLEAN
    /\ live \subseteq Objects /\ era \in Nat
    /\ services \in [Paths -> Objects \cup {None}]
    /\ ordered \in Seq(Objects)
    /\ selected \in Objects \cup {None}
    /\ refreshed \in BOOLEAN /\ refreshCb \in BOOLEAN
    /\ removedCb \in BOOLEAN /\ idle \in BOOLEAN /\ staleIdle \in Nat
    /\ open \in BOOLEAN /\ items \subseteq Paths
    /\ settings \in Paths \cup {None}
    /\ listener \in Objects \cup {None}
    /\ changes \in 0 .. MaxChange /\ popups \in 0 .. MaxPopup
    /\ troubles \in 0 .. MaxTrouble
    /\ clean \in BOOLEAN /\ failed \in BOOLEAN
    /\ orphans \subseteq Objects

(* No service object is leaked and none is freed while in use: the live     *)
(* objects are exactly those in the table and the selected one, across      *)
(* removals, reloads, closing the menu with a service selected and losing   *)
(* the daemon (service_free spares the selected service, so that someone    *)
(* else has to free it).                                                    *)
NoLeakNoDangling == live = Hashed \cup ({selected} \ {None})

(* A path names one object at a time: a selected service that left the      *)
(* table is found again by get_service and not created anew, or the         *)
(* settings and the table would follow different objects.                   *)
OneObjectPerPath ==
    \A o1, o2 \in live : PathOf(o1) = PathOf(o2) => o1 = o2

(* The paths in ordered_services are owned by live objects, with one        *)
(* exception: an object freed by closing the settings after an answer       *)
(* reached the closed menu.                                                 *)
OrderLive == ToSet(ordered) \subseteq live \cup orphans

(* Objects live as long as the table, the settings or the order name them,  *)
(* one for each path.                                                       *)
ObjectsKept == NoLeakNoDangling /\ OneObjectPerPath /\ OrderLive

(* The settings follow their service: its object is kept through its        *)
(* removal and notifies the settings, until an answer fills the closed menu *)
(* and gtk_service_new takes the callback over.                             *)
SettingsFollow ==
    settings # None /\ selected # None /\ items = {}
      => selected \in live /\ PathOf(selected) = settings /\ listener = selected

(* Nothing is on its way that would still change the menu.                  *)
Settled ==
    /\ open /\ alive /\ matched /\ serviceIf /\ refreshed /\ ~failed
    /\ inbox = <<>> /\ outbox = <<>> /\ call = 0
    /\ ~idle /\ staleIdle = 0

(* Once the two rounds of GetServices and the signals in between are        *)
(* handled, the open menu agrees with the daemon: the order is the          *)
(* daemon's, every service has its item, and no item is left of a service   *)
(* that is gone, unless the menu was opened on leftovers of an earlier      *)
(* opening.                                                                 *)
MenuAccurate ==
    Settled =>
        /\ [i \in DOMAIN ordered |-> PathOf(ordered[i])] = list
        /\ ToSet(list) \subseteq items
        /\ clean => items = ToSet(list)

(* The menu gets there when it stays open, the daemon stays and no call     *)
(* fails: each round of GetServices ends, the second one shows.             *)
MenuSettles ==
    <>[](open /\ alive /\ matched /\ serviceIf /\ ~failed) => <>[]Settled
=============================================================================
