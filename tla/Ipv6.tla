--------------------------------- MODULE Ipv6 ---------------------------------
(***************************************************************************)
(* The way of a configuration of ipv6 through the bus and back: the entries *)
(* of a dictionary (src/lib/dbus.c), the structure they are read into and   *)
(* written from (src/lib/service.c), the texts of the dialog                *)
(* (src/settings.c).                                                       *)
(*                                                                         *)
(* Module Settings has when things are read, sent and shown, and takes a    *)
(* configuration for one value.  Here it is taken apart, and a call is      *)
(* answered at once.  The service is not in use, so that the buttons show   *)
(* the configuration, and they were toggled once, so that their static      *)
(* variable is what they show.                                             *)
(***************************************************************************)
EXTENDS Integers, FiniteSets

CONSTANTS
    Addresses,   \* what an address or a gateway may be, besides ""
    Numbers,     \* what the user may type as prefix length
    Junk,        \* what an uninitialised uint16_t may hold
    None,        \* NULL
    MaxChange,   \* bound: changes from elsewhere
    MaxEdit,     \* bound: fields the user edits
    MaxOk        \* bound: times OK is pressed

VARIABLES
    conf,      \* the daemon's dictionary: a value for each name in it
    told,      \* the daemon has signalled conf
    known,     \* service->ipv6_conf
    text,      \* the entries of the dialog, and the method of its buttons
    greyed,    \* the fields are insensitive
    waiting,   \* the next notification reloads the dialog
    count,     \* how often each bounded step was taken
    said,      \* per name, its value in the last dictionary that had it
    loaded,    \* said, when the dialog was loaded
    edited     \* fields the user edited since

vars == <<conf, told, known, text, greyed, waiting, count, said, loaded, edited>>

Methods == {"auto", "manual", "off"}
Privacies == {"disabled", "enabled", "prefered"}
Bytes == 0 .. 255

(* The fields of struct connman_ipv6, by the names parse_ipv6 looks for.    *)
Fields == {"Method", "Address", "Prefix", "Gateway", "Privacy"}
Type(f) == IF f = "Prefix" THEN "uint16" ELSE "string"
Strings == Addresses \cup Methods \cup Privacies \cup {""}
Structures ==
    [Method : Strings \cup {None}, Address : Strings \cup {None},
     Prefix : Bytes, Gateway : Strings \cup {None},
     Privacy : Strings \cup {None}]

ASSUME AddressAssumption == "" \notin Addresses
ASSUME NumberAssumption == Numbers \subseteq Nat
ASSUME JunkAssumption ==
    /\ Junk \subseteq Nat /\ Junk # {}
    /\ \A j \in Junk : j < 65536
ASSUME NoneAssumption ==
    None \notin Strings /\ None \notin Structures
ASSUME BoundAssumption == {MaxChange, MaxEdit, MaxOk} \subseteq Nat

Bounds == [change |-> MaxChange, edit |-> MaxEdit, ok |-> MaxOk]

Counted(step) ==
    /\ count[step] < Bounds[step]
    /\ count' = [count EXCEPT ![step] = @ + 1]

(* The names the daemon uses, and their types in its messages.              *)
Names == {"Method", "Address", "PrefixLength", "Gateway", "Privacy"}
TypeOf(name) == IF name = "PrefixLength" THEN "byte" ELSE "string"

(* A structure that was just allocated. *)
Fresh == [f \in Fields |-> IF f = "Prefix" THEN 0 ELSE None]

-----------------------------------------------------------------------------
(* From the bus *)

(* strncmp with the length of the name that is looked for.                  *)
Matches(f, name) == name = f \/ <<f, name>> = <<"Prefix", "PrefixLength">>

Matching(dict, f) == {name \in DOMAIN dict : Matches(f, name)}

(* What may be found for a field.  An entry of another type leaves the      *)
(* caller's variable as it was, uninitialised, and counts as found.         *)
get_dict_entry(dict, f) ==
    UNION {IF TypeOf(name) = Type(f) THEN {dict[name]} ELSE Junk :
             name \in Matching(dict, f)}

(* Faulty variant: the structure starts anew.                               *)
parse_ipv6_anew(dict, ipv6) ==
    LET found == {f \in Fields : Matching(dict, f) # {}}
    IN  IF found = {} THEN {None}
        ELSE {[f \in Fields |->
                 IF f \notin found THEN Fresh[f]
                 ELSE IF f = "Prefix" THEN j % 256
                 ELSE CHOOSE v \in get_dict_entry(dict, f) : TRUE] :
                j \in IF "Prefix" \in found THEN get_dict_entry(dict, "Prefix")
                      ELSE {0}}

(* The structures that may be read: fields that are not found keep what     *)
(* they had, and the structure goes if none is found.                       *)
parse_ipv6(dict, ipv6) ==
    LET old == IF ipv6 = None THEN Fresh ELSE ipv6
        found == {f \in Fields : Matching(dict, f) # {}}
    IN  IF found = {} THEN {None}
        ELSE {[f \in Fields |->
                 IF f \notin found THEN old[f]
                 ELSE IF f = "Prefix" THEN j % 256
                 ELSE CHOOSE v \in get_dict_entry(dict, f) : TRUE] :
                j \in IF "Prefix" \in found THEN get_dict_entry(dict, "Prefix")
                      ELSE {0}}

-----------------------------------------------------------------------------
(* The dialog *)

Text(v) == IF v = None THEN "" ELSE v

(* Method and privacy as the buttons take them; without a configuration     *)
(* they stay.  An empty text for the length is 0, as atoi has it.           *)
Shown(ipv6) ==
    IF ipv6 = None
    THEN [text EXCEPT !.Address = "", !.Prefix = 0, !.Gateway = ""]
    ELSE [Method |-> IF ipv6.Method \in {"auto", "manual"} THEN ipv6.Method
                     ELSE "off",
          Address |-> Text(ipv6.Address), Prefix |-> ipv6.Prefix,
          Gateway |-> Text(ipv6.Gateway),
          Privacy |-> IF ipv6.Privacy \in {"enabled", "prefered"} THEN ipv6.Privacy
                      ELSE "disabled"]

(* Fields that are greyed stay so as long as the dialog is open.            *)
update_ipv6(ipv6, names, grey) ==
    /\ text' = Shown(ipv6)
    /\ greyed' = (grey \/ ipv6 = None)
    /\ edited' = {} /\ loaded' = names
    /\ waiting' = FALSE

(* What a dictionary adds to what was said; an empty one takes it all back. *)
Said(dict) ==
    IF DOMAIN dict = {} THEN << >>
    ELSE [name \in DOMAIN said \cup DOMAIN dict |->
            IF name \in DOMAIN dict THEN dict[name] ELSE said[name]]

(* PropertyChanged of IPv6.Configuration, and its notification.             *)
property_changed ==
    /\ ~told
    /\ told' = TRUE
    /\ known' \in parse_ipv6(conf, known)
    /\ said' = Said(conf)
    /\ IF waiting THEN update_ipv6(known', said', greyed)
       ELSE UNCHANGED <<text, greyed, waiting, loaded, edited>>
    /\ UNCHANGED <<conf, count>>

(* The dialog is opened again. *)
cui_settings_popup ==
    /\ update_ipv6(known, said, FALSE)
    /\ UNCHANGED <<conf, told, known, count, said>>

(* Privacy is for the method auto, the entries are for manual.              *)
Edit(f, v) ==
    /\ Counted("edit")
    /\ ~greyed
    /\ \/ f = "Method"
       \/ f = "Privacy" /\ text.Method = "auto"
       \/ f \in {"Address", "Prefix", "Gateway"} /\ text.Method = "manual"
    /\ v # text[f]
    /\ text' = [text EXCEPT ![f] = v]
    /\ edited' = edited \cup {f}
    /\ UNCHANGED <<conf, told, known, greyed, waiting, said, loaded>>

(* Faulty variant: the length is cut at the largest byte. *)
get_ipv6_configuration_clipped ==
    [text EXCEPT !.Prefix = IF @ > 255 THEN 255 ELSE @]

(* atoi of the entry, in a uint8_t. *)
get_ipv6_configuration ==
    [text EXCEPT !.Prefix = @ % 256]

(* append_ipv6_config writes every field, by the names the daemon reads.    *)
Appended(ipv6) ==
    [Method |-> ipv6.Method, Address |-> ipv6.Address,
     PrefixLength |-> ipv6.Prefix, Gateway |-> ipv6.Gateway,
     Privacy |-> ipv6.Privacy]

(* The daemon (external) keeps what its method uses.                        *)
Accepted(dict) ==
    LET used == CASE dict.Method = "auto" -> {"Method", "Privacy"}
                  [] dict.Method = "manual" ->
                       {name \in Names \ {"Privacy"} :
                          name = "PrefixLength" \/ dict[name] # ""}
                  [] OTHER -> {"Method"}
    IN  [name \in used |-> dict[name]]

(* OK sends what differs from what is known; the daemon takes it or refuses *)
(* it, and an error reloads the dialog.                                     *)
settings_ok_callback ==
    /\ Counted("ok")
    /\ LET new == get_ipv6_configuration
       IN  IF edited = {} \/ known = new
           THEN /\ waiting' = TRUE
                /\ UNCHANGED <<conf, told, text, greyed, edited, loaded>>
           ELSE \/ /\ conf' = Accepted(Appended(new))
                   /\ told' = FALSE /\ waiting' = TRUE
                   /\ UNCHANGED <<text, greyed, edited, loaded>>
                \/ /\ update_ipv6(known, said, greyed)
                   /\ UNCHANGED <<conf, told>>
    /\ UNCHANGED <<known, said>>

(* Another program configures the service, or the daemon forgets it.        *)
DaemonChanges(dict) ==
    /\ Counted("change")
    /\ conf' = dict
    /\ told' = FALSE
    /\ UNCHANGED <<known, text, greyed, waiting, said, loaded, edited>>

Dictionaries ==
    {<< >>}
      \cup {[name \in {"Method"} |-> "off"]}
      \cup {[name \in {"Method", "Privacy"} |->
                IF name = "Method" THEN "auto" ELSE p] : p \in Privacies}
      \cup {Accepted([Method |-> "manual", Address |-> ends[1],
                      PrefixLength |-> 64, Gateway |-> ends[2],
                      Privacy |-> "disabled"]) :
               ends \in Addresses \X (Addresses \cup {""})}

-----------------------------------------------------------------------------
Init ==
    /\ conf \in Dictionaries
    /\ told = FALSE /\ known = None /\ waiting = FALSE /\ greyed = TRUE
    /\ text = [Method |-> "auto", Address |-> "", Prefix |-> 0, Gateway |-> "",
               Privacy |-> "disabled"]
    /\ count = [step \in DOMAIN Bounds |-> 0]
    /\ said = << >> /\ loaded = << >> /\ edited = {}

User ==
    \/ \E v \in Methods : Edit("Method", v)
    \/ \E v \in Privacies : Edit("Privacy", v)
    \/ \E v \in Addresses \cup {""} : Edit("Address", v) \/ Edit("Gateway", v)
    \/ \E v \in Numbers : Edit("Prefix", v)
    \/ settings_ok_callback
    \/ cui_settings_popup

Next ==
    \/ property_changed
    \/ User
    \/ \E dict \in Dictionaries : DaemonChanges(dict)

Spec == Init /\ [][Next]_vars

-----------------------------------------------------------------------------
(* The fields whose names are the daemon's.                                 *)
Common == Fields \cap Names

(* The fields that are groups of buttons, and what these show of nothing.   *)
Buttons == {"Method", "Privacy"}
Unsaid == [f \in Buttons |-> IF f = "Method" THEN "off" ELSE "disabled"]

(* What is known of the configuration are the last values that were said,   *)
(* those of entries that are gone included: a dictionary with less in it    *)
(* takes nothing away, an empty one everything.  No entry is taken for      *)
(* another, though names are compared up to the length of one of them.  The *)
(* prefix length is the exception: it is found under its longer name, and   *)
(* read with the wrong type.                                                *)
KnownAsSaid ==
    /\ known = None <=> said = << >>
    /\ known # None =>
         \A f \in Common :
            known[f] = IF f \in DOMAIN said THEN said[f] ELSE None

(* What OK has the daemon do: a field the user did not edit gets the last   *)
(* value that was said before the dialog was loaded, though the daemon may  *)
(* have dropped it since (a group of buttons none of which was ever said    *)
(* has its last one on); the prefix length gets what the user typed, in     *)
(* eight bits.  (A length nobody typed gets what was read instead of it.)   *)
AsShown ==
    conf' # conf /\ count'.ok > count.ok =>
       \A name \in DOMAIN conf' :
          /\ name \in {"Address", "Gateway"} \ edited
               => name \in DOMAIN loaded /\ conf'[name] = loaded[name]
          /\ name \in Buttons \ edited
               => conf'[name] = IF name \in DOMAIN loaded THEN loaded[name]
                                ELSE Unsaid[name]
          /\ name \in Common /\ name \in edited => conf'[name] = text[name]
          /\ name = "PrefixLength" /\ "Prefix" \in edited
               => conf'[name] \in Bytes /\ (text.Prefix - conf'[name]) % 256 = 0

(* Every step of OK is such a step. *)
OkAsShown == [][AsShown]_vars
=============================================================================
