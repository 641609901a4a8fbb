------------------------------- MODULE Agent -------------------------------
(***************************************************************************)
(* The ConnMan agent of the user interface: lib/agent.c answers the calls  *)
(* the daemon makes on the agent object, src/agent_dialogs.c shows them in *)
(* dialogs, src/tray.c connects and disconnects the tray icon's handlers,  *)
(* and src/main.c brings the agent up and down with the daemon.            *)
(*                                                                         *)
(* The daemon is external code.  It calls the agent one request at a time, *)
(* withdraws a request with Cancel when it stops waiting, and may stop or  *)
(* crash and be started again.  D-Bus keeps the messages from the bus and  *)
(* the daemon to the user interface in order, hence the single inbox.      *)
(*                                                                         *)
(* The reply to a login is no valid message: connman_agent_reply_login     *)
(* closes its dictionary with the two iterators exchanged, and appends a   *)
(* NULL string for a field left empty.  The daemon never gets it.  What    *)
(* else comes of it is libdbus's and the bus's choice: the user interface  *)
(* goes on, or its program ends (libdbus aborts it, or the bus closes its  *)
(* connection and libdbus exits, as no disconnect function is set).        *)
(*                                                                         *)
(* One main loop runs every handler of the user interface to completion,   *)
(* so a handler is one action.                                             *)
(***************************************************************************)
EXTENDS Integers, Sequences, SequencesExt

CONSTANTS
    Paths,        \* D-Bus paths of the services
    NoPath,       \* service.path before any service was selected
    MaxReq,       \* bound: agent calls the daemon makes
    MaxStart      \* bound: times the daemon is started

ASSUME ConstAssumption ==
    /\ NoPath \notin Paths
    /\ MaxReq \in Nat
    /\ MaxStart \in Nat

VARIABLES
    \* the daemon and the bus (external)
    alive,        \* net.connman has an owner
    registered,   \* the daemon knows the agent
    waiting,      \* the request the daemon waits for, 0 for none
    made,         \* agent calls made so far
    starts,       \* times the daemon was started
    running,      \* the user interface's program has not been ended
    inbox,        \* messages to the user interface, in order
    outbox,       \* messages to the daemon, in order
    \* the user interface
    up,           \* manager # NULL: between connman_up and connman_down
    agentIf,      \* agent_if # NULL, the agent object is on the bus
    pending,      \* agent_if->pending_reply
    dialogs,      \* the dialogs shown, the one with the modal grab last
    leftMenu,     \* left_menu_handler_id # 0
    rightMenu,    \* right_menu_handler_id # 0
    selected,     \* service.path of agent_dialogs.c
    \* history
    answers,      \* how many valid replies each request was sent
    withdrawn,    \* requests whose withdrawal the user interface handled
    spoilt        \* requests whose reply was made by the login dialog

daemonVars == <<alive, registered, waiting, made, starts, running>>
agentVars == <<up, agentIf, pending>>
trayVars == <<leftMenu, rightMenu>>
uiVars == <<agentVars, dialogs, trayVars, selected>>
history == <<answers, withdrawn, spoilt>>
vars == <<daemonVars, inbox, outbox, uiVars, history>>

-----------------------------------------------------------------------------
Ids == 1 .. MaxReq

(* What an agent call asks for.  RequestInput is told apart by the fields   *)
(* the dialogs look at: a passphrase or a hidden name, a user name, only an *)
(* identity, or none of the four known fields (WPS alone, for instance).    *)
Kinds == {"ReportError", "RequestBrowser", "InputPassphrase", "InputLogin",
          "InputIdentity", "InputOther"}

Call == [type : {"call"}, id : Ids, kind : Kinds, path : Paths]
Notice == [type : {"Cancel", "Release", "up", "down"}]
NoReply == [type |-> "none"]

ToDaemon == [type : {"RegisterAgent", "UnregisterAgent"}]
              \cup [type : {"reply"}, id : Ids]

Dialogs == {"input", "login", "error", "tethering", "settings"}

Note(t) == [type |-> t]
Reply(r) == [type |-> "reply", id |-> r]

(* A message for a daemon that is gone never arrives. *)
Sent(m) == IF alive THEN Append(outbox, m) ELSE outbox

-----------------------------------------------------------------------------
(* Helpers of the user interface *)

Shown(d) == d \in ToSet(dialogs)

(* gtk_widget_show: a dialog that is shown already keeps its place.         *)
Show(d) == dialogs' = IF Shown(d) THEN dialogs ELSE Append(dialogs, d)

Hide(d) ==
    IF Shown(d)
    THEN \E i \in DOMAIN dialogs : dialogs[i] = d
                                  /\ dialogs' = RemoveAt(dialogs, i)
    ELSE UNCHANGED dialogs

(* Every dialog is modal: only the one shown last takes the user's input.   *)
OnTop(d) == running /\ dialogs # <<>> /\ Last(dialogs) = d

cui_tray_enable == leftMenu' = TRUE /\ rightMenu' = TRUE
cui_tray_disable == leftMenu' = FALSE /\ rightMenu' = FALSE

(* A dialog takes over from the tray menus. *)
Popup(d) == Show(d) /\ cui_tray_disable

(* Faulty variants of the reply functions: the first one keeps              *)
(* pending_reply, the second one forgets to send.                           *)
send_agent_reply_keeping_pending ==
    IF ~agentIf \/ pending = NoReply
    THEN UNCHANGED <<pending, outbox, answers>>
    ELSE /\ outbox' = Sent(Reply(pending.id))
         /\ answers' = [answers EXCEPT ![pending.id] = @ + 1]
         /\ UNCHANGED pending

send_agent_reply_unsent ==
    IF ~agentIf \/ pending = NoReply
    THEN UNCHANGED <<pending, outbox, answers>>
    ELSE /\ pending' = NoReply
         /\ UNCHANGED <<outbox, answers>>

(* The reply functions: nothing happens without a pending request, else the *)
(* reply is sent and the request forgotten.                                 *)
send_agent_reply ==
    IF ~agentIf \/ pending = NoReply
    THEN UNCHANGED <<pending, outbox, answers>>
    ELSE /\ outbox' = Sent(Reply(pending.id))
         /\ answers' = [answers EXCEPT ![pending.id] = @ + 1]
         /\ pending' = NoReply

(* A method answered by its handler's return value: g_dbus_create_error.    *)
ReplyAtOnce(r) ==
    /\ outbox' = Sent(Reply(r))
    /\ answers' = [answers EXCEPT ![r] = @ + 1]

(* The pending request is dropped unanswered. *)
DropPending ==
    /\ withdrawn' = IF pending = NoReply THEN withdrawn
                    ELSE withdrawn \cup {pending.id}
    /\ pending' = NoReply

-----------------------------------------------------------------------------
(* Handlers of messages.  Each takes the first message of the inbox. *)

Receive(t) ==
    /\ inbox # <<>>
    /\ Head(inbox).type = t
    /\ inbox' = Tail(inbox)

agent_report_error_method ==
    /\ Receive("call")
    /\ agentIf
    /\ Head(inbox).kind = "ReportError"
    /\ pending' = Head(inbox)
    /\ Popup("error")
    /\ UNCHANGED <<daemonVars, outbox, up, agentIf, selected, history>>

(* agent_browser_cb returns without an answer. *)
agent_request_browser_method ==
    /\ Receive("call")
    /\ agentIf
    /\ Head(inbox).kind = "RequestBrowser"
    /\ pending' = Head(inbox)
    /\ UNCHANGED <<daemonVars, outbox, up, agentIf, dialogs, trayVars,
                   selected, history>>

(* agent_input_cb shows a dialog for the service the user selected, and     *)
(* cancels the request of any other service and one it has no dialog for.   *)
(* Faulty variant first: the service of the request is not compared.        *)
agent_input_cb_any_path(call) ==
    IF call.kind \in {"InputPassphrase", "InputLogin"}
    THEN /\ pending' = call
         /\ Popup(IF call.kind = "InputLogin" THEN "login" ELSE "input")
         /\ UNCHANGED <<outbox, answers>>
    ELSE /\ ReplyAtOnce(call.id)
         /\ pending' = NoReply
         /\ UNCHANGED <<dialogs, trayVars>>

agent_input_cb(call) ==
    IF call.path = selected /\ call.kind \in {"InputPassphrase", "InputLogin"}
    THEN /\ pending' = call
         /\ Popup(IF call.kind = "InputLogin" THEN "login" ELSE "input")
         /\ UNCHANGED <<outbox, answers>>
    ELSE /\ ReplyAtOnce(call.id)
         /\ pending' = NoReply
         /\ UNCHANGED <<dialogs, trayVars>>

(* A request for none of the known fields is cancelled before it is held.   *)
agent_request_input_method ==
    /\ Receive("call")
    /\ agentIf
    /\ \/ /\ Head(inbox).kind = "InputOther"
          /\ ReplyAtOnce(Head(inbox).id)
          /\ UNCHANGED <<pending, dialogs, trayVars>>
       \/ /\ Head(inbox).kind \in {"InputPassphrase", "InputLogin",
                                    "InputIdentity"}
          /\ agent_input_cb(Head(inbox))
    /\ UNCHANGED <<daemonVars, up, agentIf, selected, withdrawn, spoilt>>

(* Faulty variants: Cancel leaves the request pending, or takes its own     *)
(* message for a pending one as the other methods do.                       *)
agent_cancel_method_keeping_pending ==
    /\ Receive("Cancel")
    /\ IF agentIf
       THEN /\ withdrawn' = IF pending = NoReply THEN withdrawn
                            ELSE withdrawn \cup {pending.id}
            /\ Hide("input") /\ cui_tray_enable
       ELSE UNCHANGED <<withdrawn, dialogs, trayVars>>
    /\ UNCHANGED <<daemonVars, outbox, agentVars, selected, answers, spoilt>>

agent_cancel_method_as_pending ==
    /\ Receive("Cancel")
    /\ IF agentIf
       THEN pending' = Head(inbox) /\ Hide("input") /\ cui_tray_enable
       ELSE UNCHANGED <<pending, dialogs, trayVars>>
    /\ UNCHANGED <<daemonVars, outbox, up, agentIf, selected, history>>

agent_cancel_method ==
    /\ Receive("Cancel")
    /\ IF agentIf
       THEN DropPending /\ Hide("input") /\ cui_tray_enable
       ELSE UNCHANGED <<pending, withdrawn, dialogs, trayVars>>
    /\ UNCHANGED <<daemonVars, outbox, up, agentIf, selected, answers, spoilt>>

agent_release_method ==
    /\ Receive("Release")
    /\ agentIf' = FALSE
    /\ DropPending
    /\ UNCHANGED <<daemonVars, outbox, up, dialogs, trayVars, selected, answers,
                   spoilt>>

(* Faulty variant: registered with the daemon, but not put on the bus. *)
connman_agent_init_off_the_bus ==
    outbox' = Sent(Note("RegisterAgent")) /\ UNCHANGED agentIf

connman_agent_init ==
    IF agentIf THEN UNCHANGED <<agentIf, outbox>>
    ELSE agentIf' = TRUE /\ outbox' = Sent(Note("RegisterAgent"))

connman_up ==
    /\ Receive("up")
    /\ up' = TRUE
    /\ connman_agent_init
    /\ cui_tray_enable
    /\ UNCHANGED <<daemonVars, pending, dialogs, selected, history>>

(* Faulty variant: agent_if is kept, so that the next start finds it. *)
connman_agent_finalize_keeping_agent ==
    IF agentIf
    THEN /\ outbox' = Sent(Note("UnregisterAgent"))
         /\ DropPending
         /\ UNCHANGED agentIf
    ELSE UNCHANGED <<outbox, withdrawn, pending, agentIf>>

connman_agent_finalize ==
    IF agentIf
    THEN /\ outbox' = Sent(Note("UnregisterAgent"))
         /\ DropPending
         /\ agentIf' = FALSE
    ELSE UNCHANGED <<outbox, withdrawn, pending, agentIf>>

connman_down ==
    /\ Receive("down")
    /\ up' = FALSE
    /\ connman_agent_finalize
    /\ leftMenu' = FALSE
    /\ UNCHANGED <<daemonVars, rightMenu, dialogs, selected, answers, spoilt>>

-----------------------------------------------------------------------------
(* What the user does *)

MenuOpen(handler) == running /\ handler /\ up /\ dialogs = <<>>

(* A left click on a service of the left menu connects it. *)
SelectService(p) ==
    /\ MenuOpen(leftMenu)
    /\ selected' = p
    /\ UNCHANGED <<daemonVars, inbox, outbox, agentVars, dialogs, trayVars,
                   history>>

cui_settings_popup ==
    /\ MenuOpen(leftMenu)
    /\ Popup("settings")
    /\ UNCHANGED <<daemonVars, inbox, outbox, agentVars, selected, history>>

agent_popup_tethering_dbox ==
    /\ MenuOpen(rightMenu)
    /\ Popup("tethering")
    /\ UNCHANGED <<daemonVars, inbox, outbox, agentVars, selected, history>>

(* Closing the settings, or accepting the tethering parameters. *)
CloseDialog(d) ==
    /\ d \in {"settings", "tethering"}
    /\ OnTop(d)
    /\ Hide(d)
    /\ cui_tray_enable
    /\ UNCHANGED <<daemonVars, inbox, outbox, agentVars, selected, history>>

(* Faulty variant: the dialog is closed and the request left pending. *)
AnswerDialog_without_reply(d) ==
    /\ d \in {"input", "error"}
    /\ OnTop(d)
    /\ Hide(d)
    /\ cui_tray_enable
    /\ UNCHANGED <<daemonVars, inbox, outbox, agentVars, selected, history>>

(* agent_ok_input and agent_retry *)
AnswerDialog(d) ==
    /\ d \in {"input", "error"}
    /\ OnTop(d)
    /\ Hide(d)
    /\ cui_tray_enable
    /\ send_agent_reply
    /\ UNCHANGED <<daemonVars, inbox, up, agentIf, selected, withdrawn, spoilt>>

(* With both fields empty it refuses to answer.  Otherwise pending_reply is *)
(* dropped with a reply that is no valid message.                           *)
connman_agent_reply_login(filled) ==
    IF ~agentIf \/ pending = NoReply \/ ~filled
    THEN UNCHANGED <<pending, spoilt>>
    ELSE /\ pending' = NoReply
         /\ spoilt' = spoilt \cup {pending.id}

(* The dialog is hidden whether or not there was an answer.                 *)
agent_ok_login(filled) ==
    /\ OnTop("login")
    /\ Hide("login")
    /\ cui_tray_enable
    /\ connman_agent_reply_login(filled)
    /\ UNCHANGED <<daemonVars, inbox, outbox, up, agentIf, selected, answers,
                   withdrawn>>

(* Faulty variant: the tray stays disabled. *)
agent_cancel_tray_disabled(d) ==
    /\ d \in {"input", "login", "error", "tethering"}
    /\ OnTop(d)
    /\ Hide(d)
    /\ send_agent_reply
    /\ UNCHANGED <<daemonVars, inbox, up, agentIf, trayVars, selected,
                   withdrawn, spoilt>>

(* The Cancel button or the window's close button of any dialog of          *)
(* agent.ui, the tethering dialog's included: cancel() answers whatever     *)
(* request is pending.                                                      *)
agent_cancel(d) ==
    /\ d \in {"input", "login", "error", "tethering"}
    /\ OnTop(d)
    /\ Hide(d)
    /\ cui_tray_enable
    /\ send_agent_reply
    /\ UNCHANGED <<daemonVars, inbox, up, agentIf, selected, withdrawn, spoilt>>

-----------------------------------------------------------------------------
(* The daemon and the bus *)

DaemonStart ==
    /\ ~alive /\ running
    /\ starts < MaxStart
    /\ alive' = TRUE
    /\ starts' = starts + 1
    \* At first both the answer to GetNameOwner and NameOwnerChanged may
    \* report the daemon.
    /\ \/ inbox' = Append(inbox, Note("up"))
       \/ starts = 0 /\ inbox' = inbox \o <<Note("up"), Note("up")>>
    /\ UNCHANGED <<registered, waiting, made, running, outbox, uiVars, history>>

DaemonGone ==
    /\ alive' = FALSE
    /\ registered' = FALSE
    /\ waiting' = 0
    /\ outbox' = <<>>
    /\ UNCHANGED <<made, starts, running, uiVars, history>>

DaemonCrash ==
    /\ alive /\ running
    /\ inbox' = Append(inbox, Note("down"))
    /\ DaemonGone

(* A daemon that stops in good order releases its agent first. *)
DaemonStop ==
    /\ alive
    /\ registered
    /\ inbox' = inbox \o <<Note("Release"), Note("down")>>
    /\ DaemonGone

DaemonCall(k, p) ==
    /\ alive
    /\ registered
    /\ waiting = 0
    /\ made < MaxReq
    /\ made' = made + 1
    /\ waiting' = made + 1
    /\ inbox' = Append(inbox, [type |-> "call", id |-> made + 1,
                               kind |-> k, path |-> p])
    /\ UNCHANGED <<alive, registered, starts, running, outbox, uiVars, history>>

(* The daemon no longer waits: its timeout expired, or the service is gone. *)
DaemonCancel ==
    /\ waiting # 0
    /\ waiting' = 0
    /\ inbox' = Append(inbox, Note("Cancel"))
    /\ UNCHANGED <<alive, registered, made, starts, running, outbox, uiVars,
                   history>>

(* A reply to a request the daemon does not wait for is ignored.            *)
DaemonReceive ==
    /\ outbox # <<>>
    /\ outbox' = Tail(outbox)
    /\ LET m == Head(outbox) IN
         \/ /\ m.type = "RegisterAgent"
            /\ registered' = TRUE
            /\ UNCHANGED waiting
         \/ /\ m.type = "UnregisterAgent"
            /\ registered' = FALSE
            /\ waiting' = 0
         \/ /\ m.type = "reply"
            /\ waiting' = IF m.id = waiting THEN 0 ELSE waiting
            /\ UNCHANGED registered
    /\ UNCHANGED <<alive, made, starts, running, inbox, uiVars, history>>

(* The message that is none ends the program: at once, or when the bus has  *)
(* read it.  The daemon learns that its agent is gone.  What the daemon     *)
(* does without the program is not modelled.                                *)
ProgramEnds ==
    /\ spoilt # {} /\ running
    /\ running' = FALSE
    /\ registered' = FALSE /\ waiting' = 0
    /\ inbox' = <<>> /\ outbox' = <<>>
    /\ UNCHANGED <<alive, made, starts, uiVars, history>>

-----------------------------------------------------------------------------
(* The user interface starts without knowing whether the daemon runs:       *)
(* connman_down was called once, and cui_tray_enable before it.             *)
Init ==
    /\ alive = FALSE /\ registered = FALSE /\ waiting = 0
    /\ made = 0 /\ starts = 0 /\ running = TRUE
    /\ inbox = <<>> /\ outbox = <<>>
    /\ up = FALSE /\ agentIf = FALSE /\ pending = NoReply
    /\ dialogs = <<>> /\ leftMenu = FALSE /\ rightMenu = TRUE
    /\ selected = NoPath
    /\ answers = [r \in Ids |-> 0] /\ withdrawn = {} /\ spoilt = {}

Dispatch ==
    \/ agent_report_error_method
    \/ agent_request_browser_method
    \/ agent_request_input_method
    \/ agent_cancel_method
    \/ agent_release_method
    \/ connman_up
    \/ connman_down

User ==
    \/ \E p \in Paths : SelectService(p)
    \/ cui_settings_popup
    \/ agent_popup_tethering_dbox
    \/ \E d \in Dialogs : CloseDialog(d) \/ AnswerDialog(d) \/ agent_cancel(d)
    \/ \E filled \in BOOLEAN : agent_ok_login(filled)

Daemon ==
    \/ DaemonStart
    \/ DaemonCrash
    \/ DaemonStop
    \/ \E k \in Kinds, p \in Paths : DaemonCall(k, p)
    \/ DaemonCancel
    \/ DaemonReceive
    \/ ProgramEnds

Next == Dispatch \/ User \/ Daemon

(* The main loop serves its queue, the daemon reads its socket; nothing is  *)
(* assumed of the user, of crashes or of restarts.                          *)
Fairness == WF_vars(Dispatch) /\ WF_vars(DaemonReceive)

Spec == Init /\ [][Next]_vars
FairSpec == Spec /\ Fairness
-----------------------------------------------------------------------------
TypeOK ==
    /\ alive \in BOOLEAN /\ registered \in BOOLEAN
    /\ waiting \in 0 .. MaxReq /\ made \in 0 .. MaxReq
    /\ starts \in 0 .. MaxStart /\ running \in BOOLEAN
    /\ inbox \in Seq(Call \cup Notice)
    /\ outbox \in Seq(ToDaemon)
    /\ up \in BOOLEAN /\ agentIf \in BOOLEAN
    /\ pending \in Call \cup {NoReply}
    /\ dialogs \in Seq(Dialogs)
    /\ leftMenu \in BOOLEAN /\ rightMenu \in BOOLEAN
    /\ selected \in Paths \cup {NoPath}
    /\ answers \in [Ids -> Nat]
    /\ withdrawn \subseteq Ids /\ spoilt \subseteq Ids

(* Whichever dialogs are left over from earlier requests and whatever the   *)
(* user does with them, no request is sent two replies (pending_reply is    *)
(* dropped with each reply, lib/agent.c send_agent_reply).                  *)
AnsweredAtMostOnce == \A r \in Ids : answers[r] <= 1

(* A request on its way to the user interface, held as pending_reply, or    *)
(* with its reply on the way back.                                          *)
Underway(r) ==
    \/ \E i \in DOMAIN inbox : inbox[i].type = "call" /\ inbox[i].id = r
    \/ pending # NoReply /\ pending.id = r
    \/ \E i \in DOMAIN outbox : outbox[i] = Reply(r)

(* The daemon does not wait in vain for an answer, but for what the login   *)
(* dialog answered, whose reply it never gets.  It would be violated by a   *)
(* handler that drops or overwrites pending_reply while the daemon still    *)
(* counts on it.                                                            *)
NoRequestDropped == waiting # 0 => Underway(waiting) \/ waiting \in spoilt

(* Each request gets its one reply, neither two nor none, unless the login  *)
(* dialog is what answered it.                                              *)
RequestsKept == AnsweredAtMostOnce /\ NoRequestDropped

(* The same for all requests, logins included: src/data/ui/agent.ui tells   *)
(* the user that a login is what gives access to the network, but the reply *)
(* of connman_agent_reply_login never arrives.                              *)
LoginsKeptToo == waiting # 0 => Underway(waiting)

(* A call of the daemon always finds the agent object on the bus (gdbus     *)
(* would answer "unknown method"), although the daemon that releases the    *)
(* agent, goes or comes back does not wait for the user interface.          *)
CallsFindAgent ==
    inbox # <<>> /\ Head(inbox).type = "call" => agentIf

(* Once Cancel, Release or the loss of the daemon was handled, the request  *)
(* it withdrew is never answered, though its dialog may still be shown.     *)
NoAnswerAfterWithdrawal ==
    [][\A r \in withdrawn : answers'[r] = answers[r]]_vars

(* The user can answer what is pending: its dialog is shown.  Left out are  *)
(* RequestBrowser, which shows none, and a login, whose dialog is hidden    *)
(* without an answer if OK finds its fields empty.                          *)
AnswerableRequest ==
    /\ pending # NoReply /\ pending.kind = "InputPassphrase" => Shown("input")
    /\ pending # NoReply /\ pending.kind = "ReportError" => Shown("error")

(* What the user types into a shown dialog goes to the service selected     *)
(* last: the selection cannot move on under a pending request as long as    *)
(* its dialog is shown (the label of the input dialog names that service).  *)
InputForSelected ==
    pending # NoReply =>
        /\ pending.kind = "InputPassphrase" => pending.path = selected
        /\ pending.kind = "InputLogin" /\ Shown("login")
             => pending.path = selected

(* The dialog of what is pending is there to answer it, and is about the    *)
(* service the user selected.                                               *)
DialogForRequest == AnswerableRequest /\ InputForSelected

(* The tray is never left without its menus: with no dialog shown the right *)
(* menu (which holds Quit) is connected, and with the daemon known to run   *)
(* the left menu is as well.  The dialogs, cui_tray_disable and enable and  *)
(* the daemon's coming and going interleave freely.                         *)
TrayUsable == dialogs = <<>> => rightMenu /\ (up => leftMenu)

(* When the daemon and the program stay, the agent ends up registered with  *)
(* the daemon, whatever the order in which earlier starts and losses were   *)
(* handled.                                                                 *)
EventuallyRegistered ==
    <>[](alive /\ running) => <>[](registered /\ agentIf)
=============================================================================
