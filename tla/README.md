# A TLA+ model of connman-ui

connman-ui is a GTK tray application for ConnMan, the connection manager. It talks to the
daemon `net.connman` over D-Bus: it keeps a copy of the daemon's state, services and
technologies, shows them in the two menus of a tray icon, lets the user change them, and is the
daemon's *agent*: the object the daemon calls when it needs a passphrase or reports an error.

The modules here model that program; TLC checks them on small instances, and TLAPS proves the
theorems of the modules named `*_proof` for every value of the constants.

## The system

Everything runs in one process and one thread, the glib main loop. A handler (a D-Bus message, a
reply, a timeout, a click) runs to completion, so each handler is one action (but for the start of the manager, see `Manager`). What makes the
program hard is what happens *between* handlers: replies arrive for calls made in another
situation, signals overtake them, sources put off with `g_timeout_add` run later, the user opens
and closes menus and dialogs, and the daemon goes away and comes back at any time.

| component | state | operations | interacts with |
|---|---|---|---|
| `lib/interface.c` | the connection, the service watch | start and end the parts as the daemon's name gets or loses its owner | gdbus; calls `connman_up`, `connman_down` of `main.c` |
| `lib/manager.c` | state, offline mode, pending calls, signal watches | GetProperties, GetServices, GetTechnologies, signals, (un)register the agent | D-Bus; calls back service.c and technology.c |
| `lib/service.c` | table of services, their order, the selected one, deferred refresh, per service a callback and pending SetProperty calls | list, signal, refresh, connect, configure, property notification | manager, left menu, settings |
| `lib/technology.c` | table of technologies, per technology a callback, deferred notifications, pending SetProperty calls, a Scan call | list, signals, enable, tether, scan | manager, right menu |
| `lib/agent.c` | the agent object, the one pending call | requests, cancel, release, the replies | daemon, dialogs |
| `lib/dbus.c` | none | reading and writing of dictionaries and arrays | all of lib/ |
| `src/agent_dialogs.c` | dialogs shown, selected service | popups, OK and Cancel buttons | agent, tray |
| `src/tray.c` | the handlers of the icon's two buttons | enable, disable, hook a menu | dialogs, main |
| `src/left-menu.c`, `src/gtkservice.c` | items per service | popup, popdown, an item's click | service.c, settings |
| `src/right-menu.c`, `src/gtktechnology.c` | items per technology, their switch | popup, popdown, added, removed, click | technology.c |
| `src/settings.c` | service shown, which groups of fields changed, a static variable per group of buttons | popup, edits, OK, close, reload, the header's buttons | service.c, tray |
| `gdbus/watch.c` | filters, their callbacks, match rules | add and remove watches, dispatch | libdbus; all signal handlers |
| `gdbus/object.c` | registered objects, the links between them, introspection caches, changes put off to an idle source | register, unregister, attach a manager, announce, dispatch of calls | agent |
| `gdbus/mainloop.c` | sources for libdbus | wraps watches and timeouts | glib |
| `gdbus/polkit.c`, `gdbus/client.c` | | never called; not built | |
| `src/main.c`, `src/theme.c`, `*/utils.c` | | start, icons, small helpers | |

What makes each of them correct, and where it is hard:

- **agent and dialogs**: no request is answered twice, dropped, or answered after it was
  withdrawn; what the user types goes to the service named in the dialog; the tray icon is never
  left without its menus. Hard: one pending call and five dialogs, shared by all requests.
- **services**: objects are neither leaked nor used after they were freed, though the selected
  one outlives the table; the open menu comes to show the daemon's list. Hard: two rounds of
  GetServices that survive the menu, and a deferred refresh that survives everything.
- **technologies**: the table has what the daemon has; every item is kept up to date by its
  technology; no source, reply or callback finds a freed one. Hard: the signals are watched
  only after the first list, and items replace each other in a table whose values clean up after
  themselves.
- **watches**: while a watch is held its function is called once per message, and never after
  it was removed. Hard: functions add and remove watches while the lists they are on are walked;
  a filter is found by an owner that changes, so that a signal may come to have two; the bus may
  refuse to drop a rule.
- **manager**: the state shown is the daemon's. Hard: asked for before it is watched.
- **settings**: what OK sends is what the dialog shows, what the user edits is not lost before,
  replies and notifications find the service and the dialog. Hard: buttons that the program
  toggles run the user's handlers; one callback has a meaning that depends on what came before;
  the service outlives the dialog and the dialog the service.
- **exported objects**: what a listener is told is what there is. Hard: objects come and go
  above and below each other, and what changed is told later.
- **marshalling**: what is known is what was said. Hard: names that begin alike, types, entries
  that are missing.

`PROJECT.json` lists the hazards of the code at their lines, with the properties that cover them.

## Modules

| module | models | how |
|---|---|---|
| `Agent` | agent.c, agent_dialogs.c, tray.c, up and down of main.c | one inbox and one outbox (D-Bus keeps their order), the pending call, the dialogs as a stack (all are modal), the two tray handlers. `Dispatch` handles a message, `User` is a click, `Daemon` calls, cancels, stops, crashes, starts. What follows the login dialog's reply, which is no message, is libdbus's choice: the program goes on without it, or ends (`ProgramEnds`). |
| `Service` | service.c's table, manager.c's GetServices, left-menu.c, the settings' callback | objects have an identity (path and round of allocation), so that a pointer kept too long can be told from one to a new object. `live` are the allocated ones. |
| `Manager` | manager.c's state and offline mode, interface.c, `connman_up` and `connman_down` of main.c, the icon's tooltip, the airplane mode items | one inbox and one outbox, the match rule of PropertyChanged, the pending call's serial, the notifications put off. Starting the manager is two actions: it blocks while the bus takes the rule, and the daemon goes on. |
| `Technology` | technology.c, manager.c's GetTechnologies, right-menu.c, gtktechnology.c | sets of paths for the table, the callbacks, the deferred notifications, the items and their switches; serials for pending calls. |
| `Settings` | settings.c, and the properties, SetProperty calls and notifications of service.c | the dialog's groups of fields with their flags, buttons and static variables; per property a pending call, a notification and an error that wait; the header's buttons with the handlers hooked to them. |
| `Ipv6` | lib/dbus.c's dictionary entries; parsing and appending of an ipv6 configuration | dictionaries as functions of names; what is found for a name, with its type, is an operator, and `Junk` what an uninitialised variable may hold. |
| `Objects` | gdbus/object.c's registry | paths as sequences; objects with an identity (`heap`, `tree`), a listener that follows the signals (`view`). |
| `WatchSpec` | what gdbus/watch.c promises | watches, those owed a message, those owed a first answer; which keys were given several filters, and of which the bus refused to drop a rule |
| `GDBusWatch` | gdbus/watch.c | filters in the order they were made, named by their first watch, with their cached owner, two lists and name watch; the lock, `delete_listener`, the bus's match rules, the question for the owner. Where the deletion of empty filters goes wrong, `FaultyEnd` ends the program. It implements `WatchSpec` (`KeepsPromises`). |
| `Agent_proof`, `Service_proof`, `Manager_proof`, `Technology_proof`, `Settings_proof`, `GDBusWatch_proof`, `Ipv6_proof`, `Objects_proof` | | theorems |
| `MC*` | | instances for TLC |

Names of actions and helpers are those of the C functions they translate. Definitions that end
in a suffix and are commented "Faulty variant" are what a plausible slip in that function would
make of it: the project checks that its properties notice them.

### Correspondence worth knowing

- *The bus.* What the daemon sends to the program arrives in order, so each module has one
  `inbox`. A signal is queued only if its match rule was set when it was emitted:
  `dbus_bus_add_match` blocks, so a rule is in force when the handler that added it ends. When the daemon is
  lost, the NameOwnerChanged signal is queued before the errors of its pending calls, whose
  replies are never seen: `connman_down` cancels them. A reply to a call that was cancelled is
  dropped where the handler would run.
- *Identity.* `technology_free` and `service_free` remove sources and cancel calls; the models
  keep what they miss: `dangling` are Scan calls whose technology was freed, `orphans` services
  freed while their path is still in the order.
- *The replaced item.* `add_technology` of a path that has an item: `g_hash_table_insert`
  destroys the old item after the new one set its callback, and the destruction clears it. The
  item is in `items` and not in `callbacks`.
- *Watch lists are sets.* Order among the functions of one filter is not promised. The filters are
  in order: the loop of `message_filter` goes on to those behind the one it is at.
- *add_match that fails.* `g_dbus_add_signal_watch` then returns 0 and has changed nothing: the
  new filter is freed again. That is a stutter, and no action. `remove_match` that fails is
  (`ok`).
- *A NULL in a call.* A group whose buttons were never toggled is sent with a NULL string
  (lib/service.c:1065, :1079). libdbus does not append it, and the call is no valid message: in
  `Settings` the daemon does not get it and an error comes back (`Set`), unless libdbus or the
  bus ends the program there. `Ipv6` starts with buttons that were toggled once.

- *One field per question.* `Settings` takes a group's texts as one field and its buttons as
  another, and a configuration for one value; `Ipv6` takes one group apart, and has a call
  answered at once.
- *The header's handlers.* `update_header` hooks the handlers of its two buttons each time it
  finds the service favorite, and never unhooks them; `hooks` counts them, up to "several" (2).
  Every further one calls what the second already called.
- *What the daemon signals.* A configuration is signalled after each SetProperty that is taken,
  also if nothing changed; AutoConnect only if it did. Signals come before the call's answer.
- *Objects of one process.* This program exports the agent's object only, and attaches no
  object manager. `Objects` has any client of the library, since its registry is written for
  any, and its calls may come in any order.

### Things left out

The texts and layout of dialogs and menus (but the icon's tooltip); icons; allocation failures; the fields of a
request beyond which dialog they call for; tethering and the printed
SetProperty errors of technologies; Connect, Disconnect and the fields of the settings dialog
that are only shown. libdbus, GTK and ConnMan are external: modelled from how the code uses them,
and marked so in `PROJECT.json`.

Some behaviours are kept out by a guard, the first two since no caller in this program shows
them, the others since what follows is undefined:

- The service watch is made first and never removed. It is so in lib/interface.c until the
  process ends, and no other service watch is made: `check_service` finds no owner in the cache,
  and its idle source for one it does find is not modelled. Name watches are not the program's
  to remove.
- The rules of two watches are the same or match no common message.
- A function that returns FALSE does not remove its own watch (it would be freed twice).
- An object of `Objects` that was registered above others takes them into its own list without
  taking them off the list of the object above it. Once one of them goes, that list has a freed
  object: `Intact` ends the behaviour there. The agent's object has none above or below.

Left out by choice: `set_property_cb` does not store the index of the property in the error it puts off,
so that the source, once it ran, is still noted for that property, and a later error asks glib to remove a source
that is gone (glib warns, and nothing else happens); text pasted into an entry without a key
(nothing then counts as changed); the arrays and structures of lib/dbus.c, which keep no state.

## Not modelled

- `g_dbus_remove_all_watches` (gdbus/watch.c). It runs once, after the main loop
  ended and the parts were finalized, and the process ends next. It frees each
  filter with its functions but leaves the match rules on the bus and the pending calls of name
  watches alone, on purpose, since the connection goes with the process. The accounting
  of rules and calls that `Accounted` states ends there, and so does the model.
- `gdbus/mainloop.c`, which wraps the sources of libdbus for glib: the modules take its effect,
  one callback at a time, as given. `gdbus/polkit.c` is linked and never called,
  `gdbus/client.c` not built. The setters of widgets in `utils.c` have no state.
- The dispatch of method calls, privileges and setting of properties of gdbus/object.c. The
  program's one object has neither properties nor privileges.
- Reading of arrays and structures in lib/dbus.c, and ipv4, proxy and provider dictionaries,
  which are read as the one in `Ipv6` is, with strings only.

## Runs

| run | question | instance |
|---|---|---|
| `Agent` | every order of requests, cancels, releases, crashes and clicks; is the agent registered in the end? | 2 services, 3 requests, daemon started twice |
| `AgentLogin` | is a login answered, too? (it is not) | 1 service, 1 request, daemon started once |
| `Service` | do table, order, menu and settings agree, and does the open menu come to rest? | 2 services, 2 changes, 2 popups, 1 failure or loss of the daemon |
| `GDBusWatch` | do the lists keep their promises? | 2 signals, the names of 2 daemons, watch numbers up to 7 |
| `Manager` | does the icon tell, and come to tell, the daemon's state, and does the last click prevail? | 2 states, 2 changes, 2 clicks, 2 popups, 1 failure, 1 start after an end |
| `ManagerItem` | does an airplane mode item do what it says? (it may not) | 1 change, 1 click, 1 popup |
| `Technology` | do table, notifications and items agree? | 2 technologies (interchangeable), 2 changes, 2 popups, 1 click, 1 failure, 1 loss |
| `TechnologyLive` | does a Scan's answer find its technology, and does the table catch up? | 1 technology, 3 changes, 3 scans, 1 failure, 1 loss |
| `Settings` | does OK send what is shown, are edits kept, do replies find who called? | a group with buttons, one with a text; 2 edits, 2 OK, 2 popups, 1 change, 2 lists, 1 failure or loss |
| `SettingsHeader` | do header and daemon stop answering each other, does the echo set AutoConnect against whoever set it last, and does an OK reload? | 1 text, 1 change of AutoConnect or Favorite, 1 click, 1 OK, 1 failure |
| `Objects` | do links, caches and announcements agree with what is registered? | 3 nested paths, 3 interfaces, 4 objects, 5 calls, 1 change of a property |
| `Ipv6` | is what is known what was said, and does OK send what was shown? | 2 addresses, all methods and levels of privacy, a prefix within eight bits and one beyond; 2 changes, 2 edits, 2 OK |

Why these are enough: two paths let one be selected, shown or removed while the other is not;
three requests let one be pending, one be queued and one come after; the second start of the
daemon meets what the first left behind; the second popup meets what the first left behind;
three changes take a technology away and bring it back while calls for its first life are in
flight; seven watch numbers give both signals a watch with its name watch and leave two that
are added and removed during dispatches, or give one signal three filters, each with its name
watch; two groups of settings let the first to be sent hold up
the second, and two presses of OK let the second come before the answer to the first; three
nested paths let an object come and go between two others. Every counter of a bound is in a guard and in the
module's CONSTANTS (`Max...`). `CHECK_DEADLOCK FALSE` is set since the bounds end each behaviour.

What the runs show that is not obvious, with the exceptions stated in the properties (each is
needed: TLC violates the property without it):

- A request is never answered twice, dropped or answered after its withdrawal, although Cancel
  hides one dialog only and any leftover dialog can be clicked. But OK in the login dialog is no
  answer: `connman_agent_reply_login` makes a reply that is no valid message (lib/agent.c:491 has the
  iterators exchanged, :486-489 appends NULL for an empty field) and forgets the request, so that the daemon waits
  in vain (`spoilt` in `NoRequestDropped`; the run `AgentLogin` checks it without that exception
  and expects a violation). And two kinds have no dialog that must answer: RequestBrowser, and a login, which
  is refused with both fields empty while its dialog is hidden (`DialogForRequest`).
- A signal watched again once the daemon is known gets a second filter, since `filter_data_find_match`
  compares the cached owner (gdbus/watch.c:101) with none. The loop at :531 may come to it with the
  message under way, so that a watch added by a function is called for that very message (`Add` of
  `WatchSpec` allows it for keys in `several`), and if one message leaves both empty, the loop that
  deletes them (:569) uses what it freed (`broken`; `FaultNeedsTwins` states that this is the only
  way there). lib/ comes to have two such filters for the service of the settings dialog, whose
  watch outlives the table (service.c:228, :842), but its functions neither return FALSE nor
  remove a watch of their own signal, so it does not come to that loop with two.
- A filter whose rule the bus does not drop stays without a callback until the next message of its
  signal deletes it (`refused` in `FiltersInUse` and `OneRulePerFilter`).
- The technology table keeps a ghost if a technology that the first list named goes before the
  signals are watched: the second list adds and never removes (`TableAccurate`, `ghosts`). A
  change in the same window, of a technology only the second list names, is lost (`stale`).
- A property of the daemon that changes between its answer to GetProperties and the match rule
  stays unknown (`StateAccurate`, `missed`), and after an error to GetProperties the icon says
  "Connman is not running" until the state changes (`IconTruthful`, `failed`).
- Both airplane mode items send the opposite of the mode known at the click. So a second
  click before the first is answered does not undo it (`AirplaneAsAsked`); but an item may do the
  opposite of its tooltip if the mode changed while the menu was open, or if the menu
  was open when the daemon came up, which shows both items (`ItemDoesAsItSays`, a run that
  expects a violation).
- An item that is replaced loses its callback; this happens to ghosts and to items left open
  over a restart of the daemon (`MenuConsistent`, `adrift`).
- An error to the first GetTechnologies (lib/technology.c:354) is never retried: no signal is watched,
  and the table stays empty, until the daemon comes back (`TableSettles`, `failed`).
- A switch greyed by a click stays grey if the daemon refuses the call (`SwitchTruthful`,
  `refused`).
- Two Scan calls on one technology at once leave the first one's answer with a freed technology if it is removed
  (`ScanForLive`, `overlapped`).
- The left menu can open on leftovers of an earlier opening (`MenuAccurate`, `clean`).
- Settings: OK sends one group, the first in the code's order that changed. The next
  notification of any property, or an error, reloads the dialog, and the other edits are gone
  (`EditsCounted` promises them until OK only; an error to a call of an earlier dialog reloads
  as well). If that first group is as it is known to be, nothing is sent at all, and the groups
  after it have to wait.
- A button that was on when the dialog was made has not run its handler, so the static variable
  OK sends for it is left from an earlier dialog, or NULL, in which case the call is no valid
  message and ends in an error (`SentAsShown`, `touched`; `Set`).
- The entry of the time servers is never found: settings.c asks for "timerservers_conf" (:298, :636
  and :697), src/data/ui/settings.ui:1328 has "timeservers_conf". Nothing hears of an edit there, nothing
  is shown in it and nothing is sent (`Found`). `EditsCounted` would not hold of it, so that no
  instance has the entry among its fields.
- The header's own handlers run when a notification sets its buttons, and call the daemon back
  with what it has just said. That repeats a value and ends (`EchoRepeats`, `ComesToRest`),
  unless a click or another program was faster than what
  was on its way: a change, a list, or the news of the daemon's end (`raced`). The same echo calls Remove when a service ceases to be favorite.
- A prefix length that the daemon sends as a byte named PrefixLength is found under "Prefix", whose
  entry is read as a 16-bit number: the variable read from is never written. So the length shown
  is arbitrary, and OK sends it back if another field of the group is edited; only a length the user types is kept, modulo 256
  (`KnownAsSaid`, `OkAsShown` leave the field out or say so).
- Entries a later dictionary leaves out keep their old values, and OK sends those
  (`OkAsShown`, `loaded`).
- Objects: one registered above others hides them from the listener until they change
  (`misplaced`); an interface taken off and put back within one turn of the main loop is
  announced as added and then as removed (`crossed`); GetManagedObjects names interfaces that were not announced, and
  if they go first, their removal never is. The comment at gdbus/object.c:687 says that no
  signal is sent for an interface that goes before it was announced, but a change of
  its properties has then been sent.

### Fairness

The runs `Agent`, `Service`, `Manager`, `TechnologyLive` and `SettingsHeader` check liveness,
under weak fairness of the main loop's dispatch (glib serves its sources) and of
the daemon reading its socket and answering the calls that reach it. Nothing is assumed of the
user, of crashes, restarts or changes. Each liveness property has a premise
"from some time on the daemon stays" (and, for the menu, stays open; for the lists, that no call
fails), since nothing could be promised otherwise. None of these runs uses symmetry.

## Proofs

`tlapm` checks every theorem, for any set of paths or signals and any bounds. The
assumptions are those the modules state of their constants (`ConstAssumption`, and those of
`Ipv6`): sentinels differ from the real values, bounds are naturals, and in `Service` and
`Technology` the set of paths is finite, as a table is, and so are the interfaces in `Objects`,
whose paths are sequences. All theorems are proved from an inductive
invariant: the property as the run checks it, and what it takes to carry it through each step.
TLC checked each invariant before it was proved.

**Agent.** `TypeCorrect` is inductive. For `RequestsAnswered` (the invariant `RequestsKept`:
`AnsweredAtMostOnce` and `NoRequestDropped`) and `WithdrawnNotAnswered` the invariant `IInv` adds

- `RequestsDistinct`: requests in the inbox, the pending one and those not yet made are
  neither answered nor withdrawn, and all have different numbers. Without it a reply
  could go to a request that was answered before.
- `WaitingIsLast`: the request the daemon waits for is the last thing it sent, so that nothing
  behind it in the inbox can withdraw it or take its place as the pending one.

What the login dialog answered is in `spoilt` and is the exception of `NoRequestDropped`: the reply that is none
is not counted in `answers`. Nothing is assumed of libdbus but that it sends no other message in its place.

The proof has a lemma per kind of change of the queue (`DistinctDispatched`, `DistinctReply`,
`DistinctWithdrawn`, ...) and one per source of steps (`InvDispatch`, `InvUser`, `InvDaemon`).
`DialogInv` carries the other three. `CallsFound` needs `CallsExpected`: the agent object will be
on the bus when the n-th message of the inbox is handled (`OnAfter`) for every call on its way and,
while the daemon lives, behind the last message, where its next call will be; `CallsFindAgent`
itself says nothing of calls further back. (`Ended`: a program that has ended is sent no more calls.) `DialogsForRequests` needs `PendingHasAgent`: a reply
function returns early without the agent object, and would leave a request pending whose dialog
is hidden. `TrayUsable` (`TrayKeepsMenus`) is inductive as it stands.

**Manager.** `IInv` is the type invariant, `IconFollows`, `ReplyFindsManager` and

- `Told`: a manager whose call was answered knows a state. With `IconFollows` and the lemma that
  only UNKNOWN has its tooltip, it gives `NotRunningIfUntold`, and both together are
  `IconTruthful` (theorem `IconTells`).
- `LastAsked`: the mode wanted is the daemon's, or the last SetProperty in the outbox will make
  it so; with `NothingAsked` (nothing is wanted of a daemon that is gone) it gives
  `AirplaneAsAsked`, which alone says nothing while calls are on their way.

That a reply finds its manager rests on the serials: none is 0, which `call` is when
no call is pending.

`StateKnown` needs the same of every property that did not change unseen, at any time: it is
`Coming` (the end of a daemon is still to be handled, the pending call is to be served or refused,
or the last message about the property tells its value, or it is known; `KnownRight`). Three
invariants carry that: `OneAnswer` (the pending call is in the outbox or answered in the inbox, once, so
that nothing untold is left behind the answer), `StaleFirst` (a call of an earlier manager,
whose answer is dropped, is served before the pending one, which is what the daemon's answer
to it may be mistaken for in `missed`), and `EndsComing` (with a daemon that is gone, its end is in the
inbox behind every start: a new daemon is never taken for the one that was asked).

**Services.** `Shape` has the types and what goes together at any time: `Keyed` (an object is in
the table under its own path), `Chosen` (the selected service is the one whose settings are shown,
in the table or taken out of it), `NoLeakNoDangling` (an object is allocated exactly if the table, the
order or the settings have it), `OrderLive`, `Given` (serials), `Apart` (no change of the list
names a service as gone and there), `Parts` (which callbacks are set when). It gives `TypeCorrect`, `ObjectsCorrect` and
`SettingsCorrect`. For `MenuCorrect` there are

- `EndTold`, as for the manager, and `Numbered`: one answer per call.
- `Watching`: the menu is open, its round of GetServices was answered, the daemon lives and no end of
  it is on the way. There only a handful of steps matter (`WatchingNext` names them), and the
  three parts of the menu's promise are proved for those: `OrderRight` (the order is the daemon's, or the last
  message that orders says so, or the list is asked for), `ShownRight` (every service of the list has an item,
  or a message, the deferred refresh or an answer will give it one) and `GoneRight` (an item whose service is
  gone will be removed, and nothing on the way brings it back).

**Technologies.** `Shape` has the types, `Parts`, `Given`, `Subsets` (a list names as powered only what it
names) and that items and callbacks agree (`CallbackHasItem`, `PositionCounts`). The theorems need,
one by one:

- `ScanSafe`: `Scans`, that a technology waits for one answer to Scan, the one whose call it has; it fails
  for `overlapped` calls only.
- `MenuCorrect`: `Removals`, that what is announced as added is not in the table when its turn comes
  (`AddsAbsent`), that what is announced as gone is not in it afterwards (`GoneAbsent`), and that the first
  list is the last word before the signals are watched (`FirstListLast`); ghosts are the
  exception. With it `ItemsFollow`: the items are those of the table.
- `SwitchCorrect`: `GreyedWaits`, that a grey switch waits for its call, a signal or a source, and
  that a source or a signal sets every switch by what is known.
- `TableCorrect`: `Numbered` (one answer to the pending call), `Retold` (a table that was told is asked for again, or
  its end is to be handled) and `PresentSeen`: what the daemon has is in the table or will be put in by the pending list, no message
  takes it out again, and the last message about its power is right (`Right`), unless it is `stale`.

`EndTold` says that a daemon's end is handled before its next start, here too.

**Watches.** The invariant `IInv` is the type invariant (`TypeCorrect`), the six parts of `Accounted`
(theorem `NothingLost`) and what carries them: no number is in use that was not given out
(`Numbers`); the service watch is there first and stays, and all other filters are signals'
(`ServiceFirst`), which alone remember an owner (`OwnerOfSignals`); the watch whose function
runs is no name watch, and on no filter but the one that calls it (`RunningOwn`); a filter that
waits to be deleted while another is dispatched is an earlier one of the same signal, which has
had two (`Deleting`). The central notion is `Drop(i, gone, freed)`: the watch i goes, with it
the filter it leaves empty and the name watch of that filter. `DropKeeps` shows that this keeps
the invariant, and `DropOwned` and `DropTodo` what it means to `WatchSpec`; a removal, a function
that returns FALSE and the end of a dispatch are such drops. A new watch joins a filter or founds
one (`AddsTo`). Each action then has a lemma that it is an action of
`WatchSpec` under the mapping (lists without name watches, those still to call in the locked
filter and the later ones), and `Implements` is the refinement.

**Ipv6.** `KnownAsSaid` (theorem `KnownIsWhatWasSaid`) is inductive with the types of the dictionary, the
structure and the texts. Its lemmas are about the operators: an entry with the daemon's own
name is the only one found under it (`FoundAlone`), every name is found under some field
(`NothingFound`), a field is read from its entry or keeps what it had (`Parsed`). For
`OkSendsWhatIsShown` the invariant `JInv` adds `ShownAsLoaded`: a field nobody edited is
shown as it was said when the dialog was loaded (its buttons, if they are not greyed), and
`EditedNotGreyed`. Beyond the types of the constants, the assumption is that
NULL is neither a string nor a structure.

**Settings.** `Inv` is, besides the types of the fields, the header and the messages (`Shape`):

- `OnlyEdited` and `TouchedTold`: a button toggled since the dialog was made has told its static variable, so
  that what OK reads from there is what is shown (`OkSendsWhatIsShown`).
- `Replies`: a call in the outbox or an answer in the inbox that is still valid has a call_modify (`Awaited`),
  there is one at most for each property (`Once`), and while the daemon stays, whoever waits is
  answered (`Answered`). `CallbacksCorrect` states what follows for the callbacks: they find the service.
- `EndTold`: a daemon that is gone has been noticed, and no list would bring the service back, or its end is
  behind every list. Without it a list of the last daemon could make a service of the next one.
- `CallbacksNeedDialog`: the property callback is set only while the dialog is open.

`FieldSteps` sorts the steps by what they do to the fields (nothing, a reload, a toggle, a text),
`TrafficSteps` by what they do to calls and messages (nothing, calls are made, a message is taken, the service
is freed, the daemon tells something or serves a call). From the first follows
`EditsStay`: between two OKs only the user changes a text or a flag; `OnlyOkSends` says that
no handler of the header sends a group. `EditsCount_UnlessTime` assumes that the time servers'
entry is not among the fields: its name is misspelt (`Found`).

`EchoCorrect` has an invariant of its own beside these, `EchoInv`, which holds as long as AutoConnect was
only set while the header agreed with the daemon (`raced` is not set):

- `CallsRight`: every call sets AutoConnect to what is wanted, and if the daemon has it otherwise, one such
  call is on its way and no more. `EchoRepeats` follows from this alone.
- `OnceRight`: once it is known, or has been said in a message, that AutoConnect is as wanted, no
  message behind says otherwise. When a call is refused or lost, what is wanted is again what the
  daemon has; then nothing has said the opposite yet (`OnceGivenUp`).
- `Header`: what is known is right, or the button differs from what is wanted and is not toggled by a
  renewal that could echo something else (`Fine`); or the property waits for an answer, which is an echo's
  barrier, and a message that says what is wanted comes before it (`EchoWaits`).
- `Owned`: an item whose service has left the table is not of the dialog's service.

Each action has a lemma that it keeps these; `HeaderRenewed` is the echo itself.

**Objects.** The clients' calls go through states that break what they keep: an object is referenced for an
interface it does not have yet, or it lost the interface and not yet the reference. The invariant
`Inv` is therefore made of operators on any heap and tree, `Sound(h, t, m, mis, r, x)`, in which x is the
object with a reference too many and perhaps with data cached that is no longer so (0: none). Its parts:

- `Shape`, the types, and that a freed object is `Freed`.
- `Owned`, that paths and objects lead to each other, and `Counted`, one reference for each interface of a client
  (`AddCounts`, `RemoveCounts`).
- `Links`, that an object agrees with the tree (`Agrees`) unless it is misplaced, and that without such objects
  no list names one that is gone (`Whole`). What comes in or goes changes the parents of those below only
  (`ParentSame`, from `ClosestAbove`: a non-empty set of paths above has a longest), and
  `invalidate_parent_data` puts the links right as far as it does (`InvalidatedAgrees`, `InvalidatedLinks`).
- `RootOnly` and `Cached`, for Introspect: `NodesSame` says whose elements below a path that comes or
  goes changes, and `Invalidated` that those drop what they cached.

A lemma each says what the functions do to them: `RefSound` (object_path_ref), `AddClient`, `UnrefSound`
(object_path_unref, with `UnrefFrees` for the last reference), `CacheKeeps` and `DressedKeeps` for what
touches neither links nor references. `TypeCorrect`, `TreeCorrect` and `IntrospectCorrect` follow from `Inv`.

For the listener (`MirrorCorrect`) `MirrorInv` says more than `MirrorAccurate`, which speaks of objects with
nothing left to announce only. Of each path, and but for what crossed:

- `FreshAt`: what the listener has of it is there, or is among what its object is about to announce as removed;
- `CompleteAt`: what is there the listener has with the value it has now, or an announcement or a change of it
  waits. This is of objects that nothing came or went above (`Steady`), since `GetManagedObjects` follows the links;
- `Waits`: what waits has a source that will send it; an interface removed and there again waits to be added;
- `Managed`: the manager's object stays at "/" as long as the manager is attached, so that every other object
  that is not misplaced has a parent (`ParentThere`), without which nothing would be announced of it.

All but the call of one property's change touches a single object and path: `ChangedAt` carries the rest over once,
for objects that are `Alike` elsewhere, and leaves of each step the path where it happens (`AddMirrored`,
`RemoveMirrored`, `RefMirrored`, `UnrefMirrored`). `ChangesTell` is what a source's signals tell, `Listed`
that the answer to GetManagedObjects has every steady object: one that is missed would be
below another that is missed (`SteadyReached`, by the length of paths).

**Only model-checked**: the liveness properties (`EventuallyRegistered`, `MenuSettles`, `IconSettles`,
`TableSettles`, `ComesToRest`, `OkReloads`), as liveness under fairness is out of the prover's reach.
Every invariant and action property that a run checks is stated by a theorem.

## Plan

Done, in this order: Agent, Service, GDBusWatch with WatchSpec, Technology, Manager, Settings,
Objects, Ipv6; the proofs of Agent, of GDBusWatch with its refinement, of Manager, of Ipv6, of
Service, of Technology, of Settings and of Objects.

What may follow in the models: tethering of technologies (two more properties that are set like
Powered), ipv4 and proxy dictionaries like `Ipv6`, an abstract `Mirror` (a list that follows the
daemon's) implemented by `Service` and by `Technology` as far as their exceptions allow.
