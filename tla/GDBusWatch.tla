----------------------------- MODULE GDBusWatch -----------------------------
(***************************************************************************)
(* The signal and service watches of gdbus/watch.c, as lib/ uses them: one *)
(* service watch on the daemon's name, made before any other watch by      *)
(* connman_interface_init, and any number of signal watches, all of which  *)
(* name the daemon as sender.                                              *)
(*                                                                         *)
(* A filter (struct filter_data) stands for one match rule on the bus and  *)
(* holds the callbacks of the watches on it.  While a message is handed    *)
(* out the filter is locked: callbacks move from the list callbacks to     *)
(* the list processed as they are called, and new ones go to processed.    *)
(* Filters of signals keep a watch of their own on the daemon's name       *)
(* (name_watch), which lives in the filter of NameOwnerChanged with the    *)
(* others, and remember who owns the name (owner).                         *)
(*                                                                         *)
(* A filter whose owner is known is not found again for a further watch on *)
(* its signal: the watch gets a second filter and a second rule.  A        *)
(* message is handed to all filters of its signal, in the order they were  *)
(* made, and those left empty are deleted at the end.  The loop that       *)
(* deletes them works for one filter only.                                 *)
(*                                                                         *)
(* lib/ has a signal with two filters when the service of the settings     *)
(* dialog outlives the table: it keeps its watch, and the menu makes       *)
(* another object, with another watch, for the same path.  No function of  *)
(* lib/ removes a watch of the signal it is called for, so both filters    *)
(* are not left empty by one message there, and the faulty loop is not     *)
(* reached.  The module does not rely on that.                             *)
(*                                                                         *)
(* A callback runs arbitrary code: it adds and removes watches, its own    *)
(* included.  A message matches the filters of one rule, as it does for    *)
(* the rules of lib/ (no two of them overlap).  The lists of a filter are  *)
(* sets here: nothing that is promised depends on their order.             *)
(***************************************************************************)
EXTENDS Naturals

CONSTANTS
    Signals,      \* match rules of signals of the daemon
    Owner,        \* the match rule of NameOwnerChanged for its name
    Names,        \* names the bus gives to daemons
    Gone,         \* the empty name: there is no daemon
    None,
    MaxId         \* bound: watches made

ASSUME ConstAssumption ==
    /\ Owner \notin Signals
    /\ Gone \notin Names
    /\ None \notin Signals \cup {Owner, Gone} \cup Names
    /\ MaxId \in Nat /\ None \notin 0 .. MaxId

Keys == Signals \cup {Owner}

(* A filter is named by the first watch made on it, so that their order is  *)
(* that of the list; the first filter of all, of NameOwnerChanged, is 0.    *)
Filters == 0 .. MaxId

VARIABLES
    listeners,    \* the filters there are
    rule,         \* per filter, its rule (kept when the filter is freed)
    owner,        \* per filter, the owner of the name as far as it knows
    callbacks,    \* per filter, the list of that name
    processed,    \* per filter, the list of that name
    name_watch,   \* per filter, its watch on the name, or 0
    listener_id,  \* last watch number used
    locked,       \* the filter whose lock is set, None without one
    delete_listener,  \* filters left empty by the message so far
    asked,        \* the answer to GetNameOwner is on its way
    running,      \* the watch whose function runs, 0 for none
    broken,       \* the deletion of empty filters went wrong
    \* the bus (external)
    daemon,       \* the name's owner, after the messages handled so far
    rules,        \* filters whose match rule the bus holds
    \* history
    twins,        \* signals that were given a second filter
    refused       \* signals of which the bus refused to drop a rule

listVars == <<listeners, rule, owner, callbacks, processed, name_watch, rules>>
history == <<twins, refused>>
vars == <<listVars, listener_id, locked, delete_listener, asked, running,
          broken, daemon, history>>

-----------------------------------------------------------------------------
List(f) == callbacks[f] \cup processed[f]

NameWatches == {name_watch[f] : f \in Filters}

(* Code of the program runs: a callback, or any other between messages.     *)
CallerRuns == ~broken /\ (running # 0 \/ locked = None)

(* message_filter is between two callbacks. *)
Dispatching == ~broken /\ locked # None /\ running = 0

(* Nothing is under way: the next message can be handed out.                *)
Idle == ~broken /\ locked = None /\ running = 0

First(F) == {f \in F : \A g \in F : f <= g}

(* The filters of the signal s whose owner is not known: it is asked for    *)
(* one without, as the sender watched is always a name.                     *)
filter_data_find_match(s) == {f \in listeners : rule[f] = s /\ owner[f] = None}

(* The filter a watch on s goes to: the first one that matches, or a new one. *)
filter_data_get(s) ==
    LET found == filter_data_find_match(s) IN
    IF found = {} THEN {listener_id + 1} ELSE First(found)

(* The rule of a new filter.                                                *)
add_match(f) == rules' = IF f \in listeners THEN rules ELSE rules \cup {f}

(* Faulty variant: the lock is not looked at. *)
filter_data_add_callback_unlocked(new) ==
    /\ callbacks' = [f \in Filters |-> callbacks[f] \cup new[f]]
    /\ UNCHANGED processed

(* Numbers new[f] are added on each filter.                                 *)
filter_data_add_callback(new) ==
    /\ callbacks' = [f \in Filters |-> IF f = locked THEN callbacks[f]
                                       ELSE callbacks[f] \cup new[f]]
    /\ processed' = [f \in Filters |-> IF f = locked THEN processed[f] \cup new[f]
                                       ELSE processed[f]]

(* The bus drops the rule of f, or answers with an error.                   *)
remove_match(f, ok) ==
    /\ rules' = IF ok THEN rules \ {f} ELSE rules
    /\ refused' = IF ok THEN refused ELSE refused \cup {rule[f]}

(* The callbacks in gone are taken off all lists.                           *)
Dropped(list, gone) == [f \in Filters |-> list[f] \ gone]

(* f is taken off the list and freed; its name watch goes with it.          *)
filter_data_free(f) ==
    /\ listeners' = listeners \ {f}
    /\ name_watch' = [name_watch EXCEPT ![f] = 0]
    /\ owner' = [owner EXCEPT ![f] = None]

(* Faulty variant: the locked filter is freed like any other.               *)
filter_data_remove_callback_locked_too(f, i, ok) ==
    LET freed == callbacks[f] \subseteq {i} /\ ok
        gone == IF freed THEN {i, name_watch[f]} ELSE {i}
    IN  /\ callbacks' = Dropped(callbacks, gone)
        /\ processed' = Dropped(processed, gone)
        /\ IF callbacks[f] \subseteq {i} THEN remove_match(f, ok)
           ELSE UNCHANGED <<rules, refused>>
        /\ IF freed THEN filter_data_free(f)
           ELSE UNCHANGED <<listeners, name_watch, owner>>

(* The watch i of the filter f is removed.  With its last callback the      *)
(* filter goes, unless it is locked or the bus does not drop its rule.      *)
filter_data_remove_callback(f, i, ok) ==
    LET empty == f # locked /\ callbacks[f] \subseteq {i}
        gone == IF empty /\ ok THEN {i, name_watch[f]} ELSE {i}
    IN  /\ callbacks' = Dropped(callbacks, gone)
        /\ processed' = Dropped(processed, gone)
        /\ IF empty THEN remove_match(f, ok) ELSE UNCHANGED <<rules, refused>>
        /\ IF empty /\ ok THEN filter_data_free(f)
           ELSE UNCHANGED <<listeners, name_watch, owner>>

(* Faulty variant: the filters keep the owner they knew.                    *)
update_name_cache_first(new) ==
    owner' = [f \in Filters |-> IF f \in listeners \ {0} /\ owner[f] = None
                                THEN new ELSE owner[f]]

(* The filter 0 has no name, only an argument.                              *)
update_name_cache(new) ==
    owner' = [f \in Filters |-> IF f \in listeners \ {0} THEN new ELSE owner[f]]

-----------------------------------------------------------------------------
(* Called by the program *)

(* The service watch of connman_interface_init, before everything else.     *)
(* check_service knows no owner yet and asks the bus.                       *)
g_dbus_add_service_watch ==
    /\ listener_id = 0 /\ MaxId > 0
    /\ listener_id' = 1
    /\ listeners' = {0} /\ rules' = {0}
    /\ callbacks' = [callbacks EXCEPT ![0] = {1}]
    /\ asked' = TRUE
    /\ UNCHANGED <<rule, owner, processed, name_watch, locked, delete_listener,
                   running, broken, daemon, history>>

(* The first watch on a filter makes the name watch of the filter.  If      *)
(* add_match fails there is no watch, and nothing has changed.              *)
g_dbus_add_signal_watch(s) ==
    \E f \in filter_data_get(s) :
        LET id == listener_id + 1
            first == name_watch[f] = 0
            new == [g \in Filters |-> IF g = f THEN {id}
                                      ELSE IF g = 0 /\ first THEN {id + 1} ELSE {}]
        IN  /\ CallerRuns
            /\ 0 \in listeners /\ id < MaxId
            /\ add_match(f)
            /\ listeners' = listeners \cup {f}
            /\ rule' = [rule EXCEPT ![f] = s]
            /\ filter_data_add_callback(new)
            /\ name_watch' = IF first THEN [name_watch EXCEPT ![f] = id + 1]
                             ELSE name_watch
            /\ listener_id' = IF first THEN id + 1 ELSE id
            /\ twins' = IF \E g \in listeners \ {f} : rule[g] = s
                        THEN twins \cup {s} ELSE twins
            /\ UNCHANGED <<owner, locked, delete_listener, asked, running,
                           broken, daemon, refused>>

(* The service watch is kept until the program ends.                        *)
g_dbus_remove_watch(i, ok) ==
    /\ CallerRuns
    /\ i \notin NameWatches \cup {1}
    /\ \E f \in listeners :
         i \in List(f) /\ filter_data_remove_callback(f, i, ok)
    /\ UNCHANGED <<rule, listener_id, locked, delete_listener, asked, running,
                   broken, daemon, twins>>

-----------------------------------------------------------------------------
(* message_filter, signal_filter and service_filter *)

(* The filters a message of rule k is handed to.                            *)
Matching(k) == {f \in listeners : rule[f] = k /\ owner[f] \in {None, daemon}}

(* A signal of the daemon.                                                  *)
Begin(s) ==
    /\ Idle
    /\ daemon # Gone
    /\ locked' \in First(Matching(s))
    /\ UNCHANGED <<listVars, listener_id, delete_listener, asked, running,
                   broken, daemon, history>>

(* The name has another owner, or none.                                     *)
NameOwnerChanged(new) ==
    /\ Idle
    /\ 0 \in listeners /\ new # daemon
    /\ daemon' = new
    /\ update_name_cache(new)
    /\ locked' = 0
    /\ UNCHANGED <<listeners, rule, callbacks, processed, name_watch, rules,
                   listener_id, delete_listener, asked, running, broken, history>>

Move(i) ==
    /\ callbacks' = [callbacks EXCEPT ![locked] = @ \ {i}]
    /\ processed' = [processed EXCEPT ![locked] = @ \cup {i}]

(* A name watch has no function to call. *)
SkipNameWatch(i) ==
    /\ Dispatching
    /\ i \in callbacks[locked] \cap NameWatches
    /\ Move(i)
    /\ UNCHANGED <<listeners, rule, owner, name_watch, rules, listener_id, locked,
                   delete_listener, asked, running, broken, daemon, history>>

CallWatch(i) ==
    /\ Dispatching
    /\ i \in callbacks[locked] \ NameWatches
    /\ running' = i
    /\ UNCHANGED <<listVars, listener_id, locked, delete_listener, asked, broken,
                   daemon, history>>

(* The function returns; its watch may have been removed by it.             *)
Returned ==
    /\ running # 0
    /\ running' = 0
    /\ IF locked # None /\ running \in callbacks[locked]
       THEN Move(running)
       ELSE UNCHANGED <<callbacks, processed>>
    /\ UNCHANGED <<listeners, rule, owner, name_watch, rules, listener_id, locked,
                   delete_listener, asked, broken, daemon, history>>

(* A signal function returns FALSE to drop its watch, which it has not      *)
(* removed itself.  Its filter is locked and stays.                         *)
ReturnedFalse ==
    /\ running # 0
    /\ locked \notin {None, 0}
    /\ running \in callbacks[locked]
    /\ running' = 0
    /\ callbacks' = Dropped(callbacks, {running})
    /\ UNCHANGED <<listeners, rule, owner, processed, name_watch, rules,
                   listener_id, locked, delete_listener, asked, broken, daemon,
                   history>>

(* The filters the message has still to be handed to.                       *)
Later == {f \in Matching(rule[locked]) : f > locked}

(* The locked filter is through: its lists are exchanged, its lock is       *)
(* released, and if it has no callbacks left it will be deleted.            *)
Exchanged == [callbacks EXCEPT ![locked] = processed[locked]]

Empty == IF processed[locked] = {} THEN delete_listener \cup {locked}
         ELSE delete_listener

NextFilter ==
    /\ Dispatching
    /\ callbacks[locked] = {}
    /\ callbacks' = Exchanged
    /\ processed' = [processed EXCEPT ![locked] = {}]
    /\ delete_listener' = Empty
    /\ locked' \in First(Later)
    /\ UNCHANGED <<listeners, rule, owner, name_watch, rules, listener_id, asked,
                   running, broken, daemon, history>>

(* Which filters are deleted at the end: those that have no callbacks yet   *)
(* or again.                                                                *)
Deleted == {f \in Empty : Exchanged[f] = {}}

(* The loop over delete_listener goes on with the second link over and      *)
(* over, whether it was freed or not; and a link is gone that was freed by  *)
(* g_dbus_remove_watch since it was put there.                              *)
Faulty == ~(Empty \subseteq listeners) \/ \E f, g \in Empty : f # g

EndDispatch(ok) ==
    /\ Dispatching
    /\ callbacks[locked] = {} /\ Later = {}
    /\ ~Faulty
    /\ LET gone == {name_watch[f] : f \in Deleted} IN
         /\ callbacks' = Dropped(Exchanged, gone)
         /\ processed' = Dropped([processed EXCEPT ![locked] = {}], gone)
    /\ \/ /\ Deleted = {}
          /\ UNCHANGED <<listeners, name_watch, owner, rules, refused>>
       \/ \E f \in Deleted : filter_data_free(f) /\ remove_match(f, ok)
    /\ locked' = None /\ delete_listener' = {}
    /\ UNCHANGED <<rule, listener_id, asked, running, broken, daemon, twins>>

(* The loop never ends, or uses what was freed: the program ends here.      *)
FaultyEnd ==
    /\ Dispatching
    /\ callbacks[locked] = {} /\ Later = {}
    /\ Faulty
    /\ broken' = TRUE
    /\ UNCHANGED <<listVars, listener_id, locked, delete_listener, asked, running,
                   daemon, history>>

(* service_reply: the bus names the owner, or the answer is an error.       *)
update_service(there) ==
    /\ Idle
    /\ asked /\ asked' = FALSE
    /\ IF there
       THEN /\ daemon # Gone
            /\ update_name_cache(daemon)
            /\ running' = 1
       ELSE UNCHANGED <<owner, running>>
    /\ UNCHANGED <<listeners, rule, callbacks, processed, name_watch, rules,
                   listener_id, locked, delete_listener, broken, daemon, history>>

-----------------------------------------------------------------------------
Init ==
    /\ listeners = {}
    /\ rule = [f \in Filters |-> IF f = 0 THEN Owner ELSE None]
    /\ owner = [f \in Filters |-> None]
    /\ callbacks = [f \in Filters |-> {}] /\ processed = [f \in Filters |-> {}]
    /\ name_watch = [f \in Filters |-> 0]
    /\ listener_id = 0
    /\ locked = None /\ delete_listener = {}
    /\ asked = FALSE /\ running = 0 /\ broken = FALSE
    /\ daemon \in Names \cup {Gone}
    /\ rules = {} /\ twins = {} /\ refused = {}

Next ==
    \/ g_dbus_add_service_watch
    \/ \E s \in Signals : g_dbus_add_signal_watch(s)
    \/ \E i \in 1 .. MaxId, ok \in BOOLEAN : g_dbus_remove_watch(i, ok)
    \/ \E s \in Signals : Begin(s)
    \/ \E new \in Names \cup {Gone} : NameOwnerChanged(new)
    \/ \E i \in 1 .. MaxId : SkipNameWatch(i) \/ CallWatch(i)
    \/ Returned
    \/ ReturnedFalse
    \/ NextFilter
    \/ \E ok \in BOOLEAN : EndDispatch(ok)
    \/ FaultyEnd
    \/ \E there \in BOOLEAN : update_service(there)

Spec == Init /\ [][Next]_vars
-----------------------------------------------------------------------------
TypeOK ==
    /\ listeners \subseteq Filters /\ rules \subseteq Filters
    /\ rule \in [Filters -> Keys \cup {None}]
    /\ owner \in [Filters -> Names \cup {Gone, None}]
    /\ callbacks \in [Filters -> SUBSET (1 .. MaxId)]
    /\ processed \in [Filters -> SUBSET (1 .. MaxId)]
    /\ name_watch \in [Filters -> 0 .. MaxId]
    /\ listener_id \in 0 .. MaxId
    /\ locked \in listeners \cup {None}
    /\ delete_listener \subseteq Filters
    /\ asked \in BOOLEAN /\ broken \in BOOLEAN
    /\ running \in 0 .. MaxId
    /\ daemon \in Names \cup {Gone}
    /\ twins \subseteq Signals /\ refused \subseteq Signals

(* Filters come and go with their watches: outside of its dispatch no       *)
(* filter is without a callback, but for those the message under way is     *)
(* about to delete and those the bus does not let go, and no callback is    *)
(* left in a list of a filter that is gone.                                 *)
FiltersInUse ==
    /\ \A f \in listeners :
         f # locked =>
            /\ processed[f] = {}
            /\ callbacks[f] # {} \/ f \in delete_listener \/ rule[f] \in refused
    /\ \A f \in Filters \ listeners : List(f) = {}

(* The bus holds the match rule of each filter and, unless it refused to    *)
(* drop one, of no other.  A rule has one filter, but for the signals that  *)
(* were watched again when the owner of the name was known.                 *)
OneRulePerFilter ==
    /\ listeners \subseteq rules
    /\ \A f \in rules \ listeners : rule[f] \in refused
    /\ \A f, g \in listeners : f # g /\ rule[f] = rule[g] => rule[f] \in twins

(* Each signal filter has a name watch of its own, on the list of the       *)
(* owner's filter for as long as the signal's filter lives, though watches  *)
(* of both are removed while either of them is dispatched.                  *)
NameWatchPerFilter ==
    /\ \A f \in Filters :
         IF f \in listeners \ {0} THEN name_watch[f] \in List(0)
         ELSE name_watch[f] = 0
    /\ \A f, g \in Filters :
         name_watch[f] = name_watch[g] /\ name_watch[f] # 0 => f = g

(* No callback is on two lists, where it would be called twice or used      *)
(* after it was freed.                                                      *)
OneList ==
    /\ \A f \in Filters : callbacks[f] \cap processed[f] = {}
    /\ \A f, g \in Filters : List(f) \cap List(g) # {} => f = g

(* No filter remembers an owner that is gone, whose successor's signals it  *)
(* would not take.                                                          *)
OwnerCurrent == \A f \in listeners : owner[f] \in {None, daemon}

(* The loop that deletes empty filters goes wrong only if the signal has    *)
(* had a second filter.                                                     *)
FaultNeedsTwins == broken => rule[locked] \in twins

(* Nothing is lost count of, whatever the watch functions of a message add  *)
(* and remove while it is dispatched: filters, match rules, name watches,   *)
(* owners and callbacks belong together at all times.                       *)
Accounted ==
    /\ FiltersInUse /\ OneRulePerFilter /\ NameWatchPerFilter
    /\ OneList /\ OwnerCurrent /\ FaultNeedsTwins

(* The watches seen by their owners, and the message being handed out.      *)
Owned(k) ==
    {i \in 1 .. MaxId :
        i \notin NameWatches /\ \E f \in listeners : rule[f] = k /\ i \in List(f)}

Message == IF locked = None THEN None ELSE rule[locked]

Todo ==
    IF locked = None THEN {}
    ELSE {i \in 1 .. MaxId :
            i \notin NameWatches /\ \E f \in {locked} \cup Later : i \in callbacks[f]}

Watches == INSTANCE WatchSpec WITH
    watches <- [k \in Keys |-> Owned(k)],
    used <- listener_id,
    message <- Message,
    todo <- Todo,
    owed <- IF asked THEN {1} ELSE {},
    several <- twins

(* The lists, the lock and the name watches keep the promises of WatchSpec: *)
(* one call per message for each watch held, none after its removal, none   *)
(* for a watch added during the dispatch of a signal with one filter.       *)
KeepsPromises == Watches!Spec
=============================================================================
