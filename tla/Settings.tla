------------------------------ MODULE Settings ------------------------------
(***************************************************************************)
(* The settings dialog of a service (src/settings.c) and what lies between *)
(* it and the daemon: the properties known of the service, the SetProperty *)
(* calls and the notifications of lib/service.c.                           *)
(*                                                                         *)
(* A change of a property updates what is known at once and calls the      *)
(* service's one callback later, from a source of the main loop.  While    *)
(* the user edits, the callback renews the header only; OK sends the first *)
(* group of fields that changed and has the next notification, whatever it *)
(* is about, reload everything.                                            *)
(*                                                                         *)
(* One service stands for all.  The left menu, which creates its object,   *)
(* is the environment here (module Service has its side).                  *)
(***************************************************************************)
EXTENDS Integers, Sequences, FiniteSets, SequencesExt

CONSTANTS
    Fields,       \* the fields of the dialog that are looked at
    Texts,        \* what a text field may hold
    Options,      \* the radio buttons that are looked at
    Changes,      \* bound: what changes from elsewhere
    None,         \* a property, or a static variable, that is NULL
    MaxChange,    \* bound: changes made by the daemon or another program
    MaxEdit,      \* bound: fields the user edits
    MaxOk,        \* bound: times OK is pressed
    MaxClick,     \* bound: clicks on the two buttons of the header
    MaxPopup,     \* bound: times the dialog is opened
    MaxList,      \* bound: answers to GetServices
    MaxTrouble    \* bound: calls that fail, and losses of the daemon

VARIABLES
    \* the daemon (external)
    alive,        \* net.connman has an owner
    config,       \* per field, the service's configuration
    inUse,        \* per radio group, what the service uses now
    autoconnect, favorite,
    outbox,       \* calls it has not served, in order
    inbox,        \* messages to the user interface, in order
    \* lib/service.c
    inTable,      \* the service is in the table of services
    selected,     \* it is service_if->selected_service
    known,        \* what is known of it, as a record of the above
    changedCb,    \* its property_changed_cb
    errorCb,      \* its property_set_error_cb is set
    modify,       \* properties with a call_modify
    toUpdate,     \* properties whose notification waits to run
    toError,      \* properties whose error waits to be reported
    \* src/settings.c and its widgets
    open,         \* the dialog is shown
    text,         \* per text field, what it shows
    active,       \* per radio group, the button that is on
    method,       \* per radio group, the static variable of its last toggle
    changed,      \* groups whose ..._changed is set
    greyed,       \* groups that are insensitive
    autoButton, favButton, sensitive,   \* the buttons of the header
    hooks,        \* handlers on each of them: none, one or several (2)
    \* the menu
    item,         \* the left menu has an item for the service
    \* bounds and history
    count,        \* how often each bounded step was taken
    edited,       \* groups the user edited since the last reload
    touched,      \* radio groups toggled since the dialog was opened
    wanted,       \* AutoConnect as the user or another program last set it
    raced         \* it was set while header and daemon did not agree

daemonVars == <<alive, config, inUse, autoconnect, favorite>>
objectVars == <<inTable, selected, known, changedCb, errorCb, toUpdate, toError>>
fieldVars == <<text, active, method, changed, greyed>>
headerVars == <<autoButton, favButton, sensitive, hooks>>
history == <<count, edited, touched, wanted, raced>>
vars == <<daemonVars, outbox, inbox, objectVars, modify, open, fieldVars,
          headerVars, item, history>>

-----------------------------------------------------------------------------
(* The groups of fields.  update_ipv4 and its like show a group, the        *)
(* ..._changed flags are kept per group, and a group is sent as a whole.    *)
ipv4 == {"ipv4_method", "ipv4_conf"}
ipv6 == {"ipv6_method", "ipv6_privacy", "ipv6_conf"}
proxy == {"proxy_method", "proxy_conf"}
nameservers == {"nameservers_conf"}
domains == {"domains_conf"}
timeservers == {"timeservers_conf"}

(* The order in which OK looks at the flags. *)
AllGroups == <<ipv4, ipv6, proxy, nameservers, domains, timeservers>>
Groups == {g \in ToSet(AllGroups) : g \cap Fields # {}}

(* The buttons of each group of radio buttons; dialogs start with Default.  *)
Buttons ==
    [ipv4_method |-> Options \cap {"dhcp", "manual", "off"},
     ipv6_method |-> Options \cap {"auto", "manual", "off"},
     ipv6_privacy |-> Options \cap {"prefered", "enabled", "disabled"},
     proxy_method |-> Options \cap {"auto", "direct", "manual"}]
Default ==
    [ipv4_method |-> "dhcp", ipv6_method |-> "auto",
     ipv6_privacy |-> "prefered", proxy_method |-> "auto"]

Radios == Fields \cap DOMAIN Buttons
TextFields == Fields \ Radios

(* The entries that gtk_builder_get_object finds.  The code asks for         *)
(* timerservers_conf, which src/data/ui/settings.ui does not have.          *)
Found(f) == f # "timeservers_conf"

GroupOf(f) == CHOOSE g \in Groups : f \in g
MethodOf(g) == {r \in g \cap Radios : r # "ipv6_privacy"}

ValuesOf(f) == IF f \in Radios THEN Buttons[f] ELSE Texts

ASSUME ConstAssumption ==
    /\ Fields \subseteq UNION ToSet(AllGroups)
    /\ None \notin Texts /\ "" \in Texts
    /\ \A r \in Radios : None \notin Buttons[r] /\ Default[r] \in Buttons[r]
    /\ Changes \subseteq {"config", "autoconnect", "favorite", "other"}
    /\ {MaxChange, MaxEdit, MaxOk, MaxClick, MaxPopup, MaxList,
        MaxTrouble} \subseteq Nat

(* Properties: the groups' configurations and what is in use of them; Other *)
(* stands for the properties the dialog does not let the user change.       *)
AutoConnect == {"AutoConnect"}
Favorite == {"Favorite"}
Other == {"Other"}
InUse(g) == g \cup {"in_use"}
Properties == Groups \cup {InUse(g) : g \in Groups}
                     \cup {AutoConnect, Favorite, Other}

Bounds == [change |-> MaxChange, edit |-> MaxEdit, ok |-> MaxOk,
           click |-> MaxClick, popup |-> MaxPopup, list |-> MaxList,
           trouble |-> MaxTrouble]

Counted(step) ==
    /\ count[step] < Bounds[step]
    /\ count' = [count EXCEPT ![step] = @ + 1]

(* Messages.  A call that was cancelled is not valid any more.              *)
SetProperty(p, v) ==
    [type |-> "SetProperty", property |-> p, value |-> v, valid |-> TRUE]
RemoveCall == [type |-> "Remove"]
Result(m, ok) ==
    [type |-> "result", property |-> m.property, valid |-> m.valid, ok |-> ok]
PropertyChanged(p, v) ==
    [type |-> "PropertyChanged", property |-> p, value |-> v]
Note(t) == [type |-> t]

Receive(t) ==
    /\ inbox # <<>>
    /\ Head(inbox).type = t
    /\ inbox' = Tail(inbox)

Sent(q, ms) == IF alive THEN q \o ms ELSE q

Cancelled(q) ==
    [i \in DOMAIN q |-> IF q[i].type \in {"SetProperty", "result"}
                        THEN [q[i] EXCEPT !.valid = FALSE] ELSE q[i]]

-----------------------------------------------------------------------------
(* lib/service.c *)

(* get_service(path) # NULL *)
live == inTable \/ selected

Nothing == [config |-> [f \in Fields |-> None],
            inUse |-> [r \in Radios |-> None],
            autoconnect |-> FALSE, favorite |-> FALSE]

(* The properties as they go with a list of services. *)
Listed == [config |-> config, inUse |-> inUse,
           autoconnect |-> autoconnect, favorite |-> favorite]

(* The configuration of group g as function e has it. *)
Part(e, g) == [f \in g \cap Fields |-> e[f]]

(* Faulty variants: the sources stay, or the calls are not cancelled.       *)
service_free_keeping_sources(in) ==
    /\ known' = Nothing
    /\ changedCb' = "none" /\ errorCb' = FALSE
    /\ modify' = {} /\ UNCHANGED <<toUpdate, toError>>
    /\ outbox' = Cancelled(outbox) /\ inbox' = Cancelled(in)

service_free_keeping_calls(in) ==
    /\ known' = Nothing
    /\ changedCb' = "none" /\ errorCb' = FALSE
    /\ toUpdate' = {} /\ toError' = {} /\ modify' = {}
    /\ outbox' = outbox /\ inbox' = in

(* The object goes, with its sources and calls; in is what the inbox holds. *)
service_free(in) ==
    /\ known' = Nothing
    /\ changedCb' = "none" /\ errorCb' = FALSE
    /\ toUpdate' = {} /\ toError' = {} /\ modify' = {}
    /\ outbox' = Cancelled(outbox) /\ inbox' = Cancelled(in)

(* A property with a call pending is not set (-EINVAL).                     *)
set_service_property(p, v) ==
    IF p \in modify
    THEN UNCHANGED <<modify, outbox>>
    ELSE modify' = modify \cup {p}
         /\ outbox' = Sent(outbox, <<SetProperty(p, v)>>)

connman_service_set_autoconnectable(enable) ==
    IF live THEN set_service_property(AutoConnect, enable)
    ELSE UNCHANGED <<modify, outbox>>

(* A group that is as it is known to be is not sent. *)
connman_service_set_config(g, v) ==
    IF live /\ v # Part(known.config, g)
    THEN set_service_property(g, v)
    ELSE UNCHANGED <<modify, outbox>>

(* What is known after a PropertyChanged. *)
update_service_property(m) ==
    CASE m.property \in Groups ->
           [known EXCEPT !.config = [f \in Fields |->
              IF f \in m.property THEN m.value[f] ELSE @[f]]]
      [] m.property = AutoConnect -> [known EXCEPT !.autoconnect = m.value]
      [] m.property = Favorite -> [known EXCEPT !.favorite = m.value]
      [] m.property = Other -> known
      [] OTHER ->
           [known EXCEPT !.inUse = [r \in Radios |->
              IF r \in m.property THEN m.value[r] ELSE @[r]]]

-----------------------------------------------------------------------------
(* src/settings.c: what reloads the dialog *)

(* Faulty variants of the next: a pending call does not matter, or the      *)
(* value before the toggle is sent.                                         *)
update_header_again(auto, fav, n) ==
    /\ autoButton' = known.autoconnect
    /\ favButton' = known.favorite
    /\ sensitive' = known.favorite
    /\ hooks' = IF known.favorite /\ n < 2 THEN n + 1 ELSE n
    /\ LET removes == IF live /\ fav /\ ~known.favorite
                      THEN [i \in 1 .. n |-> RemoveCall] ELSE <<>>
           toggled == live /\ n > 0 /\ auto # known.autoconnect
           sets == IF toggled
                   THEN <<SetProperty(AutoConnect, known.autoconnect)>>
                   ELSE <<>>
       IN  /\ outbox' = Sent(outbox, sets \o removes)
           /\ modify' = IF toggled THEN modify \cup {AutoConnect} ELSE modify

update_header_inverted(auto, fav, n) ==
    /\ autoButton' = known.autoconnect
    /\ favButton' = known.favorite
    /\ sensitive' = known.favorite
    /\ hooks' = IF known.favorite /\ n < 2 THEN n + 1 ELSE n
    /\ LET removes == IF live /\ fav /\ ~known.favorite
                      THEN [i \in 1 .. n |-> RemoveCall] ELSE <<>>
           toggled == live /\ n > 0 /\ auto # known.autoconnect
                      /\ AutoConnect \notin modify
           sets == IF toggled
                   THEN <<SetProperty(AutoConnect, auto)>>
                   ELSE <<>>
       IN  /\ outbox' = Sent(outbox, sets \o removes)
           /\ modify' = IF toggled THEN modify \cup {AutoConnect} ELSE modify

(* The header.  A button that does not show what is known is toggled, which *)
(* runs the handlers that earlier calls hooked to it: AutoConnect is set to *)
(* what it is known to be, a service no longer favorite is removed.         *)
update_header(auto, fav, n) ==
    /\ autoButton' = known.autoconnect
    /\ favButton' = known.favorite
    /\ sensitive' = known.favorite
    /\ hooks' = IF known.favorite /\ n < 2 THEN n + 1 ELSE n
    /\ LET removes == IF live /\ fav /\ ~known.favorite
                      THEN [i \in 1 .. n |-> RemoveCall] ELSE <<>>
           toggled == live /\ n > 0 /\ auto # known.autoconnect
                      /\ AutoConnect \notin modify
           sets == IF toggled
                   THEN <<SetProperty(AutoConnect, known.autoconnect)>>
                   ELSE <<>>
       IN  /\ outbox' = Sent(outbox, sets \o removes)
           /\ modify' = IF toggled THEN modify \cup {AutoConnect} ELSE modify

(* The button that is on: for what is in use, else for the configuration.   *)
Shown(r, on) ==
    IF known.inUse[r] # None THEN known.inUse[r]
    ELSE IF known.config[r] # None THEN known.config[r]
    ELSE on

(* Groups of which nothing is known are greyed; ipv6 stays so.              *)
Greyed(was) ==
    {g \in Groups : MethodOf(g) # {} /\
        \A r \in MethodOf(g) : /\ known.config[r] = None
                               /\ known.inUse[r] = None \/ g \in was}
      \cup (was \cap {ipv6})

(* update_ipv4 to update_proxy: buttons that change run their handlers,     *)
(* which set the static variables.                                          *)
update_fields(on, was, seen, grey) ==
    /\ active' = [r \in Radios |-> Shown(r, on[r])]
    /\ method' = [r \in Radios |-> IF active'[r] # on[r] THEN active'[r]
                                   ELSE method[r]]
    /\ touched' = seen \cup {r \in Radios : active'[r] # on[r]}
    /\ text' = [f \in TextFields |-> IF ~Found(f) THEN was[f]
                                     ELSE IF known.config[f] = None THEN ""
                                     ELSE known.config[f]]
    /\ greyed' = Greyed(grey)

(* Faulty variant: the flags stay. *)
service_property_set_cb_keeping_flags ==
    /\ update_header(autoButton, favButton, hooks)
    /\ update_fields(active, text, touched, greyed)
    /\ edited' = {}
    /\ UNCHANGED changed

(* Everything is shown as it is known, and no group counts as changed,      *)
(* though the toggles just said so.                                         *)
service_property_set_cb ==
    /\ update_header(autoButton, favButton, hooks)
    /\ update_fields(active, text, touched, greyed)
    /\ changed' = {} /\ edited' = {}

-----------------------------------------------------------------------------
(* Handlers of messages *)

get_services_cb ==
    /\ Receive("services")
    /\ inTable' = TRUE
    /\ known' = Head(inbox).known
    /\ UNCHANGED <<daemonVars, outbox, selected, changedCb, errorCb, modify,
                   toUpdate, toError, open, fieldVars, headerVars, item,
                   history>>

(* A notification that waits is replaced by the new one. *)
property_changed_signal_cb ==
    /\ Receive("PropertyChanged")
    /\ IF live
       THEN /\ known' = update_service_property(Head(inbox))
            /\ toUpdate' = IF changedCb # "none"
                           THEN toUpdate \cup {Head(inbox).property}
                           ELSE toUpdate
       ELSE UNCHANGED <<known, toUpdate>>
    /\ UNCHANGED <<daemonVars, outbox, inTable, selected, changedCb, errorCb,
                   modify, toError, open, fieldVars, headerVars, item, history>>

(* Success is not reported: the daemon's signal is.                         *)
set_property_cb ==
    /\ Receive("result")
    /\ LET m == Head(inbox) IN
         /\ modify' = IF m.valid THEN modify \ {m.property} ELSE modify
         /\ toError' = IF m.valid /\ ~m.ok /\ errorCb
                       THEN toError \cup {m.property} ELSE toError
    /\ UNCHANGED <<daemonVars, outbox, inTable, selected, known, changedCb,
                   errorCb, toUpdate, open, fieldVars, headerVars, item, history>>

(* connman_service_finalize.  The dialog stays, on a service without object. *)
connman_down ==
    /\ inbox # <<>> /\ Head(inbox).type = "down"
    /\ inTable' = FALSE /\ selected' = FALSE
    /\ service_free(Tail(inbox))
    /\ UNCHANGED <<daemonVars, open, fieldVars, headerVars, item, history>>

(* Faulty variant: every notification reloads the dialog. *)
property_changed_or_error_reloading(p) ==
    /\ p \in toUpdate
    /\ toUpdate' = toUpdate \ {p}
    /\ \/ /\ changedCb \in {"none", "item"}
          /\ UNCHANGED <<changedCb, fieldVars, headerVars, edited, touched,
                         outbox, modify>>
       \/ /\ changedCb = "changed"
          /\ service_property_set_cb
          /\ UNCHANGED changedCb
       \/ /\ changedCb = "set"
          /\ service_property_set_cb
          /\ changedCb' = "changed"
    /\ UNCHANGED <<daemonVars, inbox, inTable, selected, known, errorCb, toError,
                   open, item, count, wanted, raced>>

(* The callback that is set when the notification runs, not when it was     *)
(* put off, is called.                                                      *)
property_changed_or_error(p) ==
    /\ p \in toUpdate
    /\ toUpdate' = toUpdate \ {p}
    /\ \/ /\ changedCb \in {"none", "item"}
          /\ UNCHANGED <<changedCb, fieldVars, headerVars, edited, touched,
                         outbox, modify>>
       \/ /\ changedCb = "changed"
          /\ update_header(autoButton, favButton, hooks)
          /\ UNCHANGED <<changedCb, fieldVars, edited, touched>>
       \/ /\ changedCb = "set"
          /\ service_property_set_cb
          /\ changedCb' = "changed"
    /\ UNCHANGED <<daemonVars, inbox, inTable, selected, known, errorCb, toError,
                   open, item, count, wanted, raced>>

(* service_property_error_cb reloads the dialog and leaves the callback.    *)
property_error(p) ==
    /\ p \in toError
    /\ toError' = toError \ {p}
    /\ IF errorCb THEN service_property_set_cb
       ELSE UNCHANGED <<fieldVars, headerVars, edited, touched, outbox, modify>>
    /\ UNCHANGED <<daemonVars, inbox, inTable, selected, known, changedCb,
                   errorCb, toUpdate, open, item, count, wanted, raced>>

-----------------------------------------------------------------------------
(* The left menu (external here): an answer to GetServices is sent, an item *)
(* is made and takes the callback over, the closed menu frees the table.    *)
MenuLists ==
    /\ alive
    /\ Counted("list")
    /\ inbox' = Append(inbox, [type |-> "services", known |-> Listed])
    /\ UNCHANGED <<daemonVars, outbox, objectVars, modify, open, fieldVars,
                   headerVars, item, edited, touched, wanted, raced>>

MenuShows ==
    /\ inTable
    /\ item' = TRUE /\ changedCb' = "item"
    /\ UNCHANGED <<daemonVars, outbox, inbox, inTable, selected, known, errorCb,
                   toUpdate, toError, modify, open, fieldVars, headerVars,
                   history>>

MenuCloses ==
    /\ ~open
    /\ item \/ inTable
    /\ item' = FALSE /\ inTable' = FALSE
    /\ service_free(inbox)
    /\ UNCHANGED <<daemonVars, selected, open, fieldVars, headerVars, history>>

-----------------------------------------------------------------------------
(* The user *)

(* The dialog is made of new widgets; the statics are those of the last.    *)
(* The menu closes, which frees the table.                                  *)
cui_settings_popup ==
    /\ ~open /\ item
    /\ Counted("popup")
    /\ open' = TRUE
    /\ selected' = live /\ inTable' = FALSE /\ item' = FALSE
    /\ changedCb' = IF live THEN "changed" ELSE "none"
    /\ errorCb' = live
    /\ update_header(FALSE, FALSE, 0)
    /\ update_fields([r \in Radios |-> Default[r]], [f \in TextFields |-> ""], {}, {})
    /\ changed' = {} /\ edited' = {}
    /\ UNCHANGED <<daemonVars, inbox, known, toUpdate, toError, wanted, raced>>

(* Close or Cancel: a service that is not in the table any more is freed.   *)
settings_cancel_callback ==
    /\ open
    /\ open' = FALSE
    /\ selected' = FALSE
    /\ IF inTable
       THEN /\ changedCb' = "none" /\ errorCb' = FALSE
            /\ UNCHANGED <<known, toUpdate, toError, modify, outbox, inbox>>
       ELSE service_free(inbox)
    /\ UNCHANGED <<daemonVars, inTable, fieldVars, headerVars, item, history>>

(* A field can be used if its group is not greyed and, for privacy and the  *)
(* text of a group with a method, if the method is the one that uses it.    *)
Usable(f) ==
    /\ GroupOf(f) \notin greyed
    /\ f \in TextFields => \A r \in MethodOf(GroupOf(f)) : active[r] = "manual"
    /\ f = "ipv6_privacy" => \A r \in MethodOf(ipv6) : active[r] = "auto"

(* Faulty variant: only the flag is set. *)
toggled_method_cb_keeping_method(r, v) ==
    /\ open /\ Usable(r) /\ v # active[r]
    /\ Counted("edit")
    /\ active' = [active EXCEPT ![r] = v]
    /\ touched' = touched \cup {r}
    /\ changed' = changed \cup {GroupOf(r)}
    /\ edited' = edited \cup {GroupOf(r)}
    /\ UNCHANGED <<daemonVars, outbox, inbox, objectVars, modify, open, text,
                   method, greyed, headerVars, item, wanted, raced>>

(* toggled_ipv4_method_cb, toggled_ipv6_privacy_cb, ... *)
toggled_method_cb(r, v) ==
    /\ open /\ Usable(r) /\ v # active[r]
    /\ Counted("edit")
    /\ active' = [active EXCEPT ![r] = v]
    /\ method' = [method EXCEPT ![r] = v]
    /\ touched' = touched \cup {r}
    /\ changed' = changed \cup {GroupOf(r)}
    /\ edited' = edited \cup {GroupOf(r)}
    /\ UNCHANGED <<daemonVars, outbox, inbox, objectVars, modify, open, text,
                   greyed, headerVars, item, wanted, raced>>

key_released_entry_cb(f, v) ==
    /\ open /\ Usable(f) /\ v # text[f]
    /\ Counted("edit")
    /\ text' = [text EXCEPT ![f] = v]
    /\ changed' = IF Found(f) THEN changed \cup {GroupOf(f)} ELSE changed
    /\ edited' = edited \cup {GroupOf(f)}
    /\ UNCHANGED <<daemonVars, outbox, inbox, objectVars, modify, open, active,
                   method, greyed, headerVars, item, touched, wanted, raced>>

(* get_ipv4_configuration and its like take the text of the fields and the  *)
(* statics of the buttons.                                                  *)
Configuration(g) ==
    [f \in g \cap Fields |-> IF f \in Radios THEN method[f] ELSE text[f]]

(* OK sends the first group that changed.  What its answer brings about is  *)
(* left to the next notification.                                           *)
settings_ok_callback ==
    /\ open
    /\ Counted("ok")
    /\ changedCb' = IF live THEN "set" ELSE changedCb
    /\ \/ /\ changed = {}
          /\ UNCHANGED <<modify, outbox>>
       \/ \E i \in DOMAIN AllGroups :
            /\ AllGroups[i] \in changed
            /\ \A j \in 1 .. i - 1 : AllGroups[j] \notin changed
            /\ connman_service_set_config(AllGroups[i], Configuration(AllGroups[i]))
    /\ UNCHANGED <<daemonVars, inbox, inTable, selected, known, errorCb, toUpdate,
                   toError, open, fieldVars, headerVars, item, edited, touched,
                   wanted, raced>>

(* The daemon's AutoConnect, what is known of it and what the header shows  *)
(* are the same, and nothing that could change that is on its way.          *)
Agreed ==
    /\ live => known.autoconnect = autoconnect
    /\ open => autoButton = autoconnect
    /\ \A i \in DOMAIN outbox :
         outbox[i].type = "SetProperty" => outbox[i].property # AutoConnect
    /\ \A i \in DOMAIN inbox :
         /\ inbox[i].type \notin {"services", "down"}
         /\ inbox[i].type \in {"PropertyChanged", "result"} =>
              inbox[i].property # AutoConnect

autoconnect_button_toggled ==
    /\ open /\ sensitive
    /\ Counted("click")
    /\ autoButton' = ~autoButton
    /\ connman_service_set_autoconnectable(~autoButton)
    /\ wanted' = IF outbox' # outbox THEN ~autoButton ELSE wanted
    /\ raced' = (raced \/ ~Agreed)
    /\ UNCHANGED <<daemonVars, inbox, objectVars, open, fieldVars, favButton,
                   sensitive, hooks, item, edited, touched>>

favorite_button_toggled ==
    /\ open /\ sensitive
    /\ Counted("click")
    /\ favButton' = ~favButton
    /\ outbox' = IF favButton /\ live
                 THEN Sent(outbox, [i \in 1 .. hooks |-> RemoveCall]) ELSE outbox
    /\ UNCHANGED <<daemonVars, inbox, objectVars, modify, open, fieldVars,
                   autoButton, sensitive, hooks, item, edited, touched, wanted,
                   raced>>

-----------------------------------------------------------------------------
(* The daemon (external).  Signals are emitted before a call is answered,   *)
(* for a configuration whether or not it is new.                            *)
Emitted(ms) == IF live THEN inbox \o ms ELSE inbox

(* A call with a NULL in it is no valid message.  The daemon does not get   *)
(* it, and libdbus makes up an error when no answer comes (unless it has    *)
(* ended the program, or the bus has closed the connection).                *)
Set(m) ==
    \/ /\ m.property \in Groups
       /\ \E f \in m.property \cap Fields : m.value[f] = None
       /\ inbox' = Append(inbox, Result(m, FALSE))
       /\ UNCHANGED <<config, autoconnect>>
    \/ /\ m.property \in Groups
       /\ \A f \in m.property \cap Fields : m.value[f] # None
       /\ config' = [f \in Fields |-> IF f \in m.property THEN m.value[f]
                                      ELSE config[f]]
       /\ inbox' = Append(Emitted(<<PropertyChanged(m.property,
                            Part(config', m.property))>>), Result(m, TRUE))
       /\ UNCHANGED autoconnect
    \/ /\ m.property = AutoConnect
       /\ autoconnect' = m.value
       /\ inbox' = Append(IF m.value = autoconnect THEN inbox
                          ELSE Emitted(<<PropertyChanged(AutoConnect, m.value)>>),
                          Result(m, TRUE))
       /\ UNCHANGED config

DaemonServes ==
    /\ outbox # <<>>
    /\ outbox' = Tail(outbox)
    /\ LET m == Head(outbox) IN
         \/ /\ m.type = "SetProperty"
            /\ Set(m)
            /\ UNCHANGED favorite
         \/ /\ m.type = "Remove"
            /\ favorite' = FALSE
            /\ inbox' = IF favorite THEN Emitted(<<PropertyChanged(Favorite, FALSE)>>)
                        ELSE inbox
            /\ UNCHANGED <<config, autoconnect>>
    /\ UNCHANGED <<alive, inUse, objectVars, modify, open, fieldVars, headerVars,
                   item, history>>

(* A call is refused, or its answer comes too late: libdbus has made up an  *)
(* error by then.                                                           *)
DaemonFails ==
    /\ outbox # <<>> /\ Head(outbox).type = "SetProperty"
    /\ Counted("trouble")
    /\ inbox' = Append(inbox, Result(Head(outbox), FALSE))
    /\ \/ /\ outbox' = Tail(outbox)
          /\ wanted' = IF Head(outbox).property = AutoConnect THEN autoconnect
                       ELSE wanted
          /\ UNCHANGED raced
       \/ /\ Head(outbox).valid
          /\ outbox' = [outbox EXCEPT ![1].valid = FALSE]
          /\ raced' = (raced \/ Head(outbox).property = AutoConnect)
          /\ UNCHANGED wanted
    /\ UNCHANGED <<daemonVars, objectVars, modify, open, fieldVars, headerVars,
                   item, edited, touched>>

(* Changes from elsewhere. *)
DaemonChanges ==
    /\ alive
    /\ Counted("change")
    /\ \/ \E f \in Fields : \E v \in ValuesOf(f) :
            /\ "config" \in Changes /\ v # config[f]
            /\ config' = [config EXCEPT ![f] = v]
            /\ inbox' = Emitted(<<PropertyChanged(GroupOf(f),
                                    Part(config', GroupOf(f)))>>)
            /\ UNCHANGED <<autoconnect, favorite, wanted, raced>>
       \/ /\ "autoconnect" \in Changes
          /\ autoconnect' = ~autoconnect
          /\ wanted' = ~autoconnect
          /\ raced' = (raced \/ ~Agreed)
          /\ inbox' = Emitted(<<PropertyChanged(AutoConnect, ~autoconnect)>>)
          /\ UNCHANGED <<config, favorite>>
       \/ /\ "favorite" \in Changes
          /\ favorite' = ~favorite
          /\ inbox' = Emitted(<<PropertyChanged(Favorite, ~favorite)>>)
          /\ UNCHANGED <<config, autoconnect, wanted, raced>>
       \/ /\ "other" \in Changes
          /\ inbox' = Emitted(<<PropertyChanged(Other, None)>>)
          /\ UNCHANGED <<config, autoconnect, favorite, wanted, raced>>
    /\ UNCHANGED <<alive, inUse, outbox, objectVars, modify, open, fieldVars,
                   headerVars, item, edited, touched>>

(* What is configured comes into use, some time later. *)
DaemonApplies(g) ==
    /\ alive
    /\ \E r \in g \cap Radios : inUse[r] \notin {None, config[r]}
    /\ inUse' = [r \in Radios |-> IF r \in g THEN config[r] ELSE inUse[r]]
    /\ inbox' = Emitted(<<PropertyChanged(InUse(g), Part(inUse', g \cap Radios))>>)
    /\ UNCHANGED <<alive, config, autoconnect, favorite, outbox, objectVars, modify,
                   open, fieldVars, headerVars, item, history>>

DaemonDown ==
    /\ alive
    /\ Counted("trouble")
    /\ alive' = FALSE
    /\ outbox' = <<>>
    /\ inbox' = Append(inbox, Note("down"))
    /\ wanted' = autoconnect
    /\ UNCHANGED <<config, inUse, autoconnect, favorite, objectVars, modify, open,
                   fieldVars, headerVars, item, edited, touched, raced>>

DaemonUp ==
    /\ ~alive
    /\ alive' = TRUE
    /\ UNCHANGED <<config, inUse, autoconnect, favorite, outbox, inbox, objectVars,
                   modify, open, fieldVars, headerVars, item, history>>

-----------------------------------------------------------------------------
(* Before the menu is opened: the service is used as it is configured, or   *)
(* not at all.                                                              *)
Init ==
    /\ alive = TRUE
    /\ config \in [Fields -> UNION {ValuesOf(f) : f \in Fields}]
    /\ \A f \in Fields : config[f] \in ValuesOf(f)
    /\ inUse \in {[r \in Radios |-> None], [r \in Radios |-> config[r]]}
    /\ autoconnect \in IF "autoconnect" \in Changes THEN BOOLEAN ELSE {FALSE}
    /\ favorite \in IF {"autoconnect", "favorite"} \cap Changes # {} THEN BOOLEAN
                    ELSE {FALSE}
    /\ outbox = <<>> /\ inbox = <<>>
    /\ inTable = FALSE /\ selected = FALSE /\ known = Nothing
    /\ changedCb = "none" /\ errorCb = FALSE
    /\ modify = {} /\ toUpdate = {} /\ toError = {}
    /\ open = FALSE /\ item = FALSE
    /\ text = [f \in TextFields |-> ""]
    /\ active = [r \in Radios |-> Default[r]]
    /\ method = [r \in Radios |-> None]
    /\ changed = {} /\ greyed = {}
    /\ autoButton = FALSE /\ favButton = FALSE /\ sensitive = FALSE
    /\ hooks = 0
    /\ count = [step \in DOMAIN Bounds |-> 0]
    /\ edited = {} /\ touched = {}
    /\ wanted = autoconnect /\ raced = FALSE

Messages ==
    \/ get_services_cb
    \/ property_changed_signal_cb
    \/ set_property_cb
    \/ connman_down

MainLoop ==
    \/ Messages
    \/ \E p \in Properties : property_changed_or_error(p) \/ property_error(p)

Menu == MenuLists \/ MenuShows \/ MenuCloses

User ==
    \/ cui_settings_popup
    \/ settings_cancel_callback
    \/ settings_ok_callback
    \/ \E r \in Radios : \E v \in Buttons[r] : toggled_method_cb(r, v)
    \/ \E f \in TextFields, v \in Texts : key_released_entry_cb(f, v)
    \/ autoconnect_button_toggled
    \/ favorite_button_toggled

Daemon ==
    \/ DaemonServes
    \/ DaemonFails
    \/ DaemonChanges
    \/ \E g \in Groups : DaemonApplies(g)
    \/ DaemonDown
    \/ DaemonUp

Next == MainLoop \/ Menu \/ User \/ Daemon

Spec == Init /\ [][Next]_vars

(* The main loop reads the bus and serves every source that is due; the     *)
(* daemon answers.                                                          *)
FairSpec ==
    /\ Spec
    /\ WF_vars(Messages) /\ WF_vars(DaemonServes)
    /\ \A p \in Properties : WF_vars(property_changed_or_error(p))
    /\ \A p \in Properties : WF_vars(property_error(p))
-----------------------------------------------------------------------------
TypeOK ==
    /\ {alive, autoconnect, favorite, inTable, selected, errorCb, open,
        autoButton, favButton, sensitive, item, wanted, raced} \subseteq BOOLEAN
    /\ \A f \in Fields : /\ config[f] \in ValuesOf(f)
                         /\ known.config[f] \in ValuesOf(f) \cup {None}
    /\ \A r \in Radios : /\ inUse[r] \in Buttons[r] \cup {None}
                         /\ known.inUse[r] \in Buttons[r] \cup {None}
                         /\ active[r] \in Buttons[r]
                         /\ method[r] \in Buttons[r] \cup {None}
    /\ \A m \in ToSet(outbox) : m.type \in {"SetProperty", "Remove"}
    /\ \A m \in ToSet(inbox) :
         m.type \in {"services", "PropertyChanged", "result", "down"}
    /\ changedCb \in {"none", "item", "changed", "set"}
    /\ modify \subseteq Groups \cup {AutoConnect}
    /\ toUpdate \subseteq Properties /\ toError \subseteq modify \cup Properties
    /\ text \in [TextFields -> Texts]
    /\ changed \subseteq Groups /\ edited \subseteq Groups
    /\ greyed \subseteq Groups /\ touched \subseteq Radios
    /\ hooks \in 0 .. 2
    /\ \A step \in DOMAIN Bounds : count[step] \in 0 .. Bounds[step]
    /\ ~live => known = Nothing /\ modify \cup toUpdate \cup toError = {}

(* A reply finds the service that called, and its call_modify: the handler  *)
(* writes to the service without asking, and a call_modify that no reply    *)
(* clears would refuse that property for ever, unless the news of the end   *)
(* of the daemon is on its way, which frees the service.  (service_free     *)
(* cancels what is pending, a service without settings handles replies too.)*)
RepliesFindService ==
    LET valid == {m.property : m \in {x \in ToSet(outbox) \cup ToSet(inbox) :
                                        x.type \in {"SetProperty", "result"}
                                          /\ x.valid}}
    IN  /\ valid \subseteq modify
        /\ modify # valid => \E m \in ToSet(inbox) : m.type = "down"

(* The settings' functions are called only while the dialog is there to be  *)
(* updated: both callbacks go when it closes, though the service may stay   *)
(* in the table.                                                            *)
CallbacksNeedDialog ==
    errorCb \/ changedCb \in {"changed", "set"} => open

(* Whoever is called when a reply, a notification or an error arrives, is   *)
(* there to be called.                                                      *)
CallbacksFindTarget == RepliesFindService /\ CallbacksNeedDialog

(* Only what the user edited since the dialog was last loaded counts as     *)
(* changed, though loading toggles the same buttons.                        *)
OnlyEdited == changed \subseteq edited

(* The call that a step sends, if any, for a group. *)
Sends(g) ==
    /\ Len(outbox') = Len(outbox) + 1
    /\ Last(outbox').type = "SetProperty"
    /\ Last(outbox').property = g

(* What OK sends is what the dialog shows.  A button that has been on since *)
(* the dialog was made is the exception: no toggle has told its static      *)
(* variable, which is NULL or left from an earlier dialog.                  *)
SentAsShown ==
    [][\A g \in Groups : Sends(g) =>
         \A f \in g \cap Fields :
            /\ f \in TextFields => Last(outbox').value[f] = text[f]
            /\ f \in touched => Last(outbox').value[f] = active[f]]_vars

(* Before OK no notification takes an edit away: neither its flag nor its   *)
(* text goes while the header is all that is renewed.  (An error reloads    *)
(* everything, the answer to an earlier dialog's call included.)            *)
KeptUntilOk ==
    [][open /\ open' /\ changedCb # "set" /\ toError \subseteq toError' =>
         /\ changed \subseteq changed'
         /\ \A f \in TextFields : text'[f] # text[f] => GroupOf(f) \in changed']_vars

(* An edit counts, and nothing else does, until OK sends or a reload undoes *)
(* it.  (The entry of the time servers is the exception: it is not Found,   *)
(* no handler hears of an edit there, and the instances go without it.)     *)
EditsCounted == []OnlyEdited /\ KeptUntilOk

(* The echo of the header's button does not set AutoConnect against the     *)
(* last one who set it, as long as that happened while the header agreed    *)
(* with the daemon.                                                         *)
AutoConnectCalls ==
    {i \in DOMAIN outbox : outbox[i].type = "SetProperty"
                             /\ outbox[i].property = AutoConnect}

EchoRepeats ==
    ~raced =>
      /\ AutoConnectCalls = {} => autoconnect = wanted
      /\ \A i \in AutoConnectCalls :
           (\A j \in AutoConnectCalls : j <= i) => outbox[i].value = wanted

(* The header and the daemon do not answer each other for ever: left alone, *)
(* they come to rest.  (A second call waits for the answer to the first.)   *)
ComesToRest == <>[](modify = {} /\ outbox = <<>> /\ toUpdate = {})

(* A configuration that was sent has the dialog loaded again, by the signal *)
(* or by an error, if it stays open and keeps its callback.                 *)
OkReloads ==
    \A g \in Groups :
        (open /\ changedCb = "set" /\ g \in modify)
          ~> (changed = {} \/ ~open \/ ~live \/ changedCb = "item")
=============================================================================
