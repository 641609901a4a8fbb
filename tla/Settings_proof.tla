---------------------------- MODULE Settings_proof ----------------------------
(* Theorems about the settings: what counts as changed and what OK sends,   *)
(* that replies and notifications find whom they are for, and what the      *)
(* header sends back to the daemon.                                         *)
EXTENDS Settings, SequenceTheorems, TLAPS

-----------------------------------------------------------------------------
(* Queues *)

(* q is a sequence, of whatever messages.                                   *)
IsSeq(q) == \E S : q \in Seq(S)

LEMMA SeqLen ==
    ASSUME NEW q, IsSeq(q)
    PROVE  Len(q) \in Nat /\ DOMAIN q = 1 .. Len(q)
  BY DEF IsSeq

LEMMA SeqTail ==
    ASSUME NEW q, IsSeq(q), q # <<>>
    PROVE  /\ IsSeq(Tail(q))
           /\ Len(q) \in Nat /\ Len(q) >= 1 /\ Head(q) = q[1]
           /\ Len(Tail(q)) = Len(q) - 1
           /\ \A i \in 1 .. Len(q) - 1 : Tail(q)[i] = q[i + 1]
<1>1. PICK S : q \in Seq(S) BY DEF IsSeq
<1>2. /\ Tail(q) \in Seq(S) /\ Len(Tail(q)) = Len(q) - 1
      /\ Len(q) \in Nat /\ Len(q) >= 1 /\ Head(q) = q[1]
      /\ \A i \in 1 .. Len(q) - 1 : Tail(q)[i] = q[i + 1]
  BY <1>1, HeadTailProperties
<1> QED BY <1>2 DEF IsSeq

LEMMA SeqConcat ==
    ASSUME NEW q, NEW r, IsSeq(q), IsSeq(r)
    PROVE  /\ IsSeq(q \o r)
           /\ Len(q) \in Nat /\ Len(r) \in Nat /\ Len(q \o r) = Len(q) + Len(r)
           /\ \A i \in 1 .. Len(q) : (q \o r)[i] = q[i]
           /\ \A i \in Len(q) + 1 .. Len(q \o r) :
                i - Len(q) \in 1 .. Len(r) /\ (q \o r)[i] = r[i - Len(q)]
<1>1. PICK S : q \in Seq(S) BY DEF IsSeq
<1>2. PICK T : r \in Seq(T) BY DEF IsSeq
<1>3. q \in Seq(S \cup T) /\ r \in Seq(S \cup T) BY <1>1, <1>2
<1>4. q \o r \in Seq(S \cup T) BY <1>3
<1>5. Len(q) \in Nat /\ Len(r) \in Nat /\ Len(q \o r) = Len(q) + Len(r) BY <1>3
<1>6. /\ \A i \in 1 .. Len(q) : (q \o r)[i] = q[i]
      /\ \A i \in Len(q) + 1 .. Len(q \o r) : (q \o r)[i] = r[i - Len(q)]
  BY <1>3, <1>5
<1>7. \A i \in Len(q) + 1 .. Len(q \o r) : i - Len(q) \in 1 .. Len(r) BY <1>5
<1> QED BY <1>4, <1>5, <1>6, <1>7 DEF IsSeq

LEMMA SeqOne ==
    ASSUME NEW e
    PROVE  IsSeq(<<e>>) /\ Len(<<e>>) = 1 /\ <<e>>[1] = e
<1>1. <<e>> \in Seq({e}) OBVIOUS
<1> QED BY <1>1 DEF IsSeq

LEMMA SeqEmpty == IsSeq(<<>>) /\ Len(<<>>) = 0
<1>1. <<>> \in Seq({}) /\ Len(<<>>) = 0 OBVIOUS
<1> QED BY <1>1 DEF IsSeq

LEMMA SeqAppend ==
    ASSUME NEW q, NEW e, IsSeq(q)
    PROVE  /\ IsSeq(Append(q, e))
           /\ Len(q) \in Nat /\ Len(Append(q, e)) = Len(q) + 1
           /\ \A i \in 1 .. Len(q) : Append(q, e)[i] = q[i]
           /\ Append(q, e)[Len(q) + 1] = e
           /\ q \o <<e>> = Append(q, e)
<1>1. PICK S : q \in Seq(S) BY DEF IsSeq
<1>2. q \in Seq(S \cup {e}) BY <1>1
<1>3. /\ Append(q, e) \in Seq(S \cup {e}) /\ Len(Append(q, e)) = Len(q) + 1
      /\ Len(q) \in Nat
      /\ \A i \in 1 .. Len(q) : Append(q, e)[i] = q[i]
      /\ Append(q, e)[Len(q) + 1] = e
      /\ q \o <<e>> = Append(q, e)
  BY <1>2, AppendProperties
<1> QED BY <1>3 DEF IsSeq

LEMMA SeqMapped ==
    ASSUME NEW q, NEW r, IsSeq(q), r = [i \in DOMAIN q |-> r[i]]
    PROVE  IsSeq(r) /\ Len(r) = Len(q)
<1> DEFINE T == {r[i] : i \in DOMAIN q}
<1>1. DOMAIN q = 1 .. Len(q) /\ Len(q) \in Nat BY SeqLen
<1>2. \A i \in 1 .. Len(q) : r[i] \in T BY <1>1
<1> HIDE DEF T
<1>3. [i \in 1 .. Len(q) |-> r[i]] \in Seq(T) BY <1>1, <1>2
<1>4. Len([i \in 1 .. Len(q) |-> r[i]]) = Len(q) BY <1>1
<1>5. PICK f : f = [i \in 1 .. Len(q) |-> r[i]] OBVIOUS
<1>6. f \in Seq(T) /\ Len(f) = Len(q) BY <1>3, <1>4, <1>5
<1>7. r = f BY <1>1, <1>5, Zenon
<1>8. IsSeq(f) /\ Len(f) = Len(q) BY <1>6 DEF IsSeq
<1> QED BY <1>7, <1>8, Zenon

(* What cancelling does.                                                    *)
LEMMA CancelledSeq ==
    ASSUME NEW q, IsSeq(q)
    PROVE  /\ IsSeq(Cancelled(q)) /\ Len(Cancelled(q)) = Len(q)
           /\ \A i \in 1 .. Len(q) :
                Cancelled(q)[i] = IF q[i].type \in {"SetProperty", "result"}
                                  THEN [q[i] EXCEPT !.valid = FALSE] ELSE q[i]
<1>1. DOMAIN q = 1 .. Len(q) BY SeqLen
<1>2. Cancelled(q) = [i \in DOMAIN q |-> Cancelled(q)[i]] BY DEF Cancelled
<1>3. IsSeq(Cancelled(q)) /\ Len(Cancelled(q)) = Len(q) BY <1>2, SeqMapped
<1> QED BY <1>1, <1>3 DEF Cancelled

LEMMA RemovesSeq ==
    ASSUME NEW n \in Nat
    PROVE  /\ IsSeq([i \in 1 .. n |-> RemoveCall])
           /\ Len([i \in 1 .. n |-> RemoveCall]) = n
           /\ \A i \in 1 .. n : [j \in 1 .. n |-> RemoveCall][i] = RemoveCall
<1> DEFINE f == [i \in 1 .. n |-> RemoveCall]
<1>1. f \in Seq({RemoveCall}) OBVIOUS
<1>2. Len(f) = n OBVIOUS
<1>3. \A i \in 1 .. n : f[i] = RemoveCall OBVIOUS
<1> HIDE DEF f
<1>4. IsSeq(f) BY <1>1 DEF IsSeq
<1> QED BY <1>2, <1>3, <1>4 DEF f

-----------------------------------------------------------------------------
(* Groups of fields and properties *)

LEMMA GroupMembers ==
    ASSUME NEW g \in Groups
    PROVE  /\ "AutoConnect" \notin g /\ "Favorite" \notin g /\ "Other" \notin g
           /\ "in_use" \notin g
<1>1. g \in {ipv4, ipv6, proxy, nameservers, domains, timeservers}
  <2>1. \A i \in DOMAIN AllGroups :
           AllGroups[i] \in {ipv4, ipv6, proxy, nameservers, domains, timeservers}
    BY DEF AllGroups
  <2> QED BY <2>1 DEF Groups, ToSet
<1>2. "AutoConnect" \notin g
  BY <1>1 DEF ipv4, ipv6, proxy, nameservers, domains, timeservers
<1>3. "Favorite" \notin g
  BY <1>1 DEF ipv4, ipv6, proxy, nameservers, domains, timeservers
<1>4. "Other" \notin g
  BY <1>1 DEF ipv4, ipv6, proxy, nameservers, domains, timeservers
<1>5. "in_use" \notin g
  BY <1>1 DEF ipv4, ipv6, proxy, nameservers, domains, timeservers
<1> QED BY <1>2, <1>3, <1>4, <1>5

(* Properties of different kinds differ.                                    *)
LEMMA Kinds ==
    /\ AutoConnect \notin Groups /\ Favorite \notin Groups /\ Other \notin Groups
    /\ AutoConnect # Favorite /\ AutoConnect # Other /\ Favorite # Other
    /\ \A g, h \in Groups : InUse(g) # h
    /\ \A g \in Groups : InUse(g) \notin {AutoConnect, Favorite, Other}
<1>1. AutoConnect \notin Groups /\ Favorite \notin Groups /\ Other \notin Groups
  BY GroupMembers DEF AutoConnect, Favorite, Other
<1>2. AutoConnect # Favorite /\ AutoConnect # Other /\ Favorite # Other
  BY DEF AutoConnect, Favorite, Other
<1>3. \A g, h \in Groups : InUse(g) # h
  BY GroupMembers DEF InUse
<1>4. \A g : "in_use" \in InUse(g) BY DEF InUse
<1>5. "in_use" \notin AutoConnect /\ "in_use" \notin Favorite /\ "in_use" \notin Other
  BY DEF AutoConnect, Favorite, Other
<1> QED BY <1>1, <1>2, <1>3, <1>4, <1>5

LEMMA NoHeaderGroup == AutoConnect \notin Groups
  BY Kinds

LEMMA GroupOfField ==
    ASSUME NEW f \in Fields
    PROVE  GroupOf(f) \in Groups /\ f \in GroupOf(f)
<1>1. \E g \in ToSet(AllGroups) : f \in g BY ConstAssumption
<1>2. \E g \in Groups : f \in g BY <1>1 DEF Groups
<1> QED BY <1>2 DEF GroupOf

LEMMA FieldValues ==
    /\ \A r \in Radios : ValuesOf(r) = Buttons[r] /\ r \in Fields
    /\ \A f \in TextFields : ValuesOf(f) = Texts /\ f \in Fields /\ f \notin Radios
    /\ Fields = Radios \cup TextFields
  BY DEF ValuesOf, Radios, TextFields

-----------------------------------------------------------------------------
(* Types *)

(* What is known of a service, and what calls and messages may hold.        *)
KnownOK(k) ==
    /\ k = [config |-> k.config, inUse |-> k.inUse,
            autoconnect |-> k.autoconnect, favorite |-> k.favorite]
    /\ \A f \in Fields : k.config[f] \in ValuesOf(f) \cup {None}
    /\ \A r \in Radios : k.inUse[r] \in Buttons[r] \cup {None}
    /\ k.autoconnect \in BOOLEAN /\ k.favorite \in BOOLEAN

IsSet(m) ==
    /\ m.type = "SetProperty"
    /\ m = [type |-> "SetProperty", property |-> m.property, value |-> m.value,
            valid |-> m.valid]
    /\ m.valid \in BOOLEAN
    /\ \/ m.property = AutoConnect /\ m.value \in BOOLEAN
       \/ /\ m.property \in Groups
          /\ \A f \in m.property \cap Fields : m.value[f] \in ValuesOf(f) \cup {None}

IsCall(m) == m = RemoveCall \/ IsSet(m)

IsChange(m) ==
    /\ m.type = "PropertyChanged"
    /\ \/ /\ m.property \in Groups
          /\ \A f \in m.property \cap Fields : m.value[f] \in ValuesOf(f) \cup {None}
       \/ m.property \in {AutoConnect, Favorite} /\ m.value \in BOOLEAN
       \/ m.property = Other
       \/ /\ m.property \in {InUse(g) : g \in Groups}
          /\ \A r \in m.property \cap Radios : m.value[r] \in Buttons[r] \cup {None}

IsResult(m) ==
    /\ m.type = "result"
    /\ m = [type |-> "result", property |-> m.property, valid |-> m.valid, ok |-> m.ok]
    /\ m.property \in Groups \cup {AutoConnect}
    /\ m.valid \in BOOLEAN /\ m.ok \in BOOLEAN

IsMessage(m) ==
    \/ m.type = "services" /\ KnownOK(m.known)
    \/ IsChange(m)
    \/ IsResult(m)
    \/ m.type = "down"

Flags == {alive, autoconnect, favorite, inTable, selected, errorCb, open,
          autoButton, favButton, sensitive, item, wanted, raced} \subseteq BOOLEAN

DaemonTypes ==
    /\ DOMAIN config = Fields
    /\ \A f \in Fields : config[f] \in ValuesOf(f)
    /\ \A r \in Radios : inUse[r] \in Buttons[r] \cup {None}

CallTypes == IsSeq(outbox) /\ \A i \in 1 .. Len(outbox) : IsCall(outbox[i])

MessageTypes == IsSeq(inbox) /\ \A i \in 1 .. Len(inbox) : IsMessage(inbox[i])

ObjectTypes ==
    /\ KnownOK(known)
    /\ changedCb \in {"none", "item", "changed", "set"}
    /\ modify \subseteq Groups \cup {AutoConnect}
    /\ toUpdate \subseteq Properties /\ toError \subseteq Properties
    /\ ~live => known = Nothing /\ modify \cup toUpdate \cup toError = {}

WidgetTypes ==
    /\ text \in [TextFields -> Texts]
    /\ DOMAIN active = Radios /\ DOMAIN method = Radios
    /\ \A r \in Radios : /\ active[r] \in Buttons[r]
                         /\ method[r] \in Buttons[r] \cup {None}
    /\ changed \subseteq Groups /\ edited \subseteq Groups
    /\ greyed \subseteq Groups /\ touched \subseteq Radios

Counts ==
    /\ hooks \in 0 .. 2
    /\ DOMAIN count = DOMAIN Bounds
    /\ \A step \in DOMAIN Bounds : count[step] \in 0 .. Bounds[step]

(* A button that was toggled since the dialog was made has told its static  *)
(* variable.                                                                *)
TouchedTold == \A r \in touched : method[r] = active[r]

Shape ==
    /\ Flags /\ DaemonTypes /\ CallTypes /\ MessageTypes
    /\ ObjectTypes /\ WidgetTypes /\ Counts

LEMMA ShapeType == Shape => TypeOK
<1> SUFFICES ASSUME Shape PROVE TypeOK
  OBVIOUS
<1>1. \A m \in ToSet(outbox) : m.type \in {"SetProperty", "Remove"}
  <2>1. \A i \in DOMAIN outbox : IsCall(outbox[i]) BY SeqLen DEF Shape, CallTypes
  <2>2. \A m : IsCall(m) => m.type \in {"SetProperty", "Remove"}
    BY DEF IsCall, IsSet, RemoveCall
  <2> QED BY <2>1, <2>2 DEF ToSet
<1>2. \A m \in ToSet(inbox) :
         m.type \in {"services", "PropertyChanged", "result", "down"}
  <2>1. \A i \in DOMAIN inbox : IsMessage(inbox[i]) BY SeqLen DEF Shape, MessageTypes
  <2>2. \A m : IsMessage(m) =>
                 m.type \in {"services", "PropertyChanged", "result", "down"}
    BY DEF IsMessage, IsChange, IsResult
  <2> QED BY <2>1, <2>2 DEF ToSet
<1>3. \A r \in Radios : known.inUse[r] \in Buttons[r] \cup {None}
  BY DEF Shape, ObjectTypes, KnownOK
<1>4. \A f \in Fields : known.config[f] \in ValuesOf(f) \cup {None}
  BY DEF Shape, ObjectTypes, KnownOK
<1>5. ~live => known = Nothing /\ modify \cup toUpdate \cup toError = {}
  BY DEF Shape, ObjectTypes
<1>6. \A step \in DOMAIN Bounds : count[step] \in 0 .. Bounds[step]
  BY DEF Shape, Counts
<1>7. /\ \A f \in Fields : config[f] \in ValuesOf(f)
      /\ \A r \in Radios : /\ inUse[r] \in Buttons[r] \cup {None}
                           /\ active[r] \in Buttons[r]
                           /\ method[r] \in Buttons[r] \cup {None}
  BY DEF Shape, DaemonTypes, WidgetTypes
<1>8. /\ text \in [TextFields -> Texts]
      /\ changed \subseteq Groups /\ edited \subseteq Groups
      /\ greyed \subseteq Groups /\ touched \subseteq Radios
      /\ hooks \in 0 .. 2
      /\ changedCb \in {"none", "item", "changed", "set"}
      /\ modify \subseteq Groups \cup {AutoConnect}
      /\ toUpdate \subseteq Properties /\ toError \subseteq modify \cup Properties
      /\ {alive, autoconnect, favorite, inTable, selected, errorCb, open,
          autoButton, favButton, sensitive, item, wanted, raced} \subseteq BOOLEAN
  BY DEF Shape, Flags, ObjectTypes, WidgetTypes, Counts
<1> QED BY <1>1, <1>2, <1>3, <1>4, <1>5, <1>6, <1>7, <1>8 DEF TypeOK

LEMMA CountedType ==
    ASSUME Counts, NEW step, step \in DOMAIN Bounds, Counted(step), hooks' \in 0 .. 2
    PROVE  Counts'
<1>1. \A s \in DOMAIN Bounds : Bounds[s] \in Nat
  <2>1. {MaxChange, MaxEdit, MaxOk, MaxClick, MaxPopup, MaxList, MaxTrouble} \subseteq Nat
    BY ConstAssumption
  <2> QED BY <2>1 DEF Bounds
<1>2. DOMAIN count' = DOMAIN Bounds BY DEF Counts, Counted
<1>3. ASSUME NEW s \in DOMAIN Bounds PROVE count'[s] \in 0 .. Bounds[s]
  <2>1. CASE s = step
    <3>1. count'[s] = count[s] + 1 /\ count[s] < Bounds[s] BY <2>1 DEF Counts, Counted
    <3> QED BY <1>1, <3>1 DEF Counts
  <2>2. CASE s # step
    <3>1. count'[s] = count[s] BY <2>2 DEF Counts, Counted
    <3> QED BY <3>1 DEF Counts
  <2> QED BY <2>1, <2>2
<1> QED BY <1>2, <1>3 DEF Counts

-----------------------------------------------------------------------------
(* What a step does to the fields: nothing, ...                             *)
FieldsStay == UNCHANGED <<text, active, method, changed, greyed, edited, touched>>

(* ... a reload, when the dialog is opened, after OK, or after an error, ... *)
Reload ==
    /\ changed' = {} /\ edited' = {}
    /\ \/ update_fields(active, text, touched, greyed)
       \/ update_fields([r \in Radios |-> Default[r]],
                        [f \in TextFields |-> ""], {}, {})

MayReload == ~open \/ changedCb = "set" \/ ~(toError \subseteq toError')

(* ... a button, or a text.                                                 *)
Toggle(r, v) ==
    /\ active' = [active EXCEPT ![r] = v]
    /\ method' = [method EXCEPT ![r] = v]
    /\ touched' = touched \cup {r}
    /\ changed' = changed \cup {GroupOf(r)}
    /\ edited' = edited \cup {GroupOf(r)}
    /\ UNCHANGED <<text, greyed>>

Type(f, v) ==
    /\ text' = [text EXCEPT ![f] = v]
    /\ changed' = IF Found(f) THEN changed \cup {GroupOf(f)} ELSE changed
    /\ edited' = edited \cup {GroupOf(f)}
    /\ UNCHANGED <<active, method, touched, greyed>>

FieldStep ==
    \/ FieldsStay
    \/ Reload /\ MayReload
    \/ \E r \in Radios : \E v \in Buttons[r] : Toggle(r, v)
    \/ \E f \in TextFields : \E v \in Texts : Type(f, v)

LEMMA ErrorReloads ==
    ASSUME NEW p, property_error(p)
    PROVE  FieldStep
<1>1. ~(toError \subseteq toError') BY DEF property_error
<1>2. CASE errorCb
  <2>1. Reload BY <1>2 DEF property_error, service_property_set_cb, Reload
  <2> QED BY <1>1, <2>1 DEF FieldStep, MayReload
<1>3. CASE ~errorCb
  BY <1>3 DEF property_error, FieldStep, FieldsStay, fieldVars
<1> QED BY <1>2, <1>3

LEMMA NotificationReloads ==
    ASSUME NEW p, property_changed_or_error(p)
    PROVE  FieldStep
<1>1. CASE changedCb = "set"
  BY <1>1 DEF property_changed_or_error, service_property_set_cb, Reload,
              FieldStep, MayReload
<1>2. CASE changedCb # "set"
  BY <1>2 DEF property_changed_or_error, FieldStep, FieldsStay, fieldVars
<1> QED BY <1>1, <1>2

LEMMA FieldSteps == [Next]_vars => FieldStep
<1> SUFFICES ASSUME [Next]_vars PROVE FieldStep
  OBVIOUS
<1> USE DEF FieldStep, FieldsStay, fieldVars, history
<1>1. CASE Messages
  BY <1>1 DEF Messages, get_services_cb, property_changed_signal_cb,
              set_property_cb, connman_down
<1>2. CASE \E p \in Properties : property_changed_or_error(p) \/ property_error(p)
  BY <1>2, ErrorReloads, NotificationReloads
<1>3. CASE Menu
  BY <1>3 DEF Menu, MenuLists, MenuShows, MenuCloses
<1>4. CASE cui_settings_popup
  BY <1>4 DEF cui_settings_popup, Reload, MayReload
<1>5. CASE settings_cancel_callback \/ settings_ok_callback
             \/ autoconnect_button_toggled \/ favorite_button_toggled
  BY <1>5 DEF settings_cancel_callback, settings_ok_callback,
              autoconnect_button_toggled, favorite_button_toggled
<1>6. CASE \E r \in Radios : \E v \in Buttons[r] : toggled_method_cb(r, v)
  BY <1>6 DEF toggled_method_cb, Toggle
<1>7. CASE \E f \in TextFields, v \in Texts : key_released_entry_cb(f, v)
  BY <1>7 DEF key_released_entry_cb, Type
<1>8. CASE Daemon
  BY <1>8 DEF Daemon, DaemonServes, DaemonFails, DaemonChanges, DaemonApplies,
              DaemonDown, DaemonUp
<1>9. CASE UNCHANGED vars BY <1>9 DEF vars
<1> QED BY <1>1, <1>2, <1>3, <1>4, <1>5, <1>6, <1>7, <1>8, <1>9
        DEF Next, MainLoop, User

-----------------------------------------------------------------------------
(* A reload shows values of the fields, and tells what it toggles.          *)
LEMMA UpdateFields ==
    ASSUME WidgetTypes, KnownOK(known),
           NEW on, NEW was, NEW seen, NEW grey,
           update_fields(on, was, seen, grey),
           seen \subseteq Radios, \A r \in seen : method[r] = on[r],
           \A r \in Radios : on[r] \in Buttons[r],
           \A f \in TextFields : was[f] \in Texts,
           grey \subseteq Groups
    PROVE  /\ text' \in [TextFields -> Texts]
           /\ DOMAIN active' = Radios /\ DOMAIN method' = Radios
           /\ \A r \in Radios : /\ active'[r] \in Buttons[r]
                                /\ method'[r] \in Buttons[r] \cup {None}
           /\ greyed' \subseteq Groups /\ touched' \subseteq Radios
           /\ TouchedTold'
<1>1. /\ active' = [r \in Radios |-> Shown(r, on[r])]
      /\ method' = [r \in Radios |-> IF active'[r] # on[r] THEN active'[r]
                                     ELSE method[r]]
      /\ touched' = seen \cup {r \in Radios : active'[r] # on[r]}
      /\ text' = [f \in TextFields |-> IF ~Found(f) THEN was[f]
                                       ELSE IF known.config[f] = None THEN ""
                                       ELSE known.config[f]]
      /\ greyed' = Greyed(grey)
  BY DEF update_fields
<1>2. \A r \in Radios : active'[r] \in Buttons[r]
  BY <1>1, FieldValues DEF Shown, KnownOK
<1>3. \A r \in Radios : method'[r] \in Buttons[r] \cup {None}
  BY <1>1, <1>2 DEF WidgetTypes
<1>4. text' \in [TextFields -> Texts]
  <2>1. "" \in Texts BY ConstAssumption
  <2>2. \A f \in TextFields : known.config[f] # None => known.config[f] \in Texts
    BY FieldValues DEF KnownOK
  <2> QED BY <1>1, <2>1, <2>2
<1>5. greyed' \subseteq Groups BY <1>1 DEF Greyed
<1>6. touched' \subseteq Radios BY <1>1
<1>7. \A r \in touched' : method'[r] = active'[r]
  BY <1>1
<1>8. DOMAIN active' = Radios /\ DOMAIN method' = Radios BY <1>1
<1> QED BY <1>2, <1>3, <1>4, <1>5, <1>6, <1>7, <1>8 DEF TouchedTold

LEMMA ReloadKeeps ==
    ASSUME WidgetTypes, TouchedTold, KnownOK(known), Reload
    PROVE  WidgetTypes' /\ TouchedTold' /\ OnlyEdited'
<1>1. WidgetTypes' /\ TouchedTold'
  <2>1. CASE update_fields(active, text, touched, greyed)
    <3>1. /\ \A r \in Radios : active[r] \in Buttons[r]
          /\ \A f \in TextFields : text[f] \in Texts
          /\ greyed \subseteq Groups /\ touched \subseteq Radios
      BY DEF WidgetTypes
    <3>2. \A r \in touched : method[r] = active[r] BY DEF TouchedTold
    <3> QED BY <2>1, <3>1, <3>2, UpdateFields DEF Reload, WidgetTypes
  <2>2. CASE update_fields([r \in Radios |-> Default[r]],
                           [f \in TextFields |-> ""], {}, {})
    <3> DEFINE on == [r \in Radios |-> Default[r]]
               was == [f \in TextFields |-> ""]
    <3>1. update_fields(on, was, {}, {}) BY <2>2
    <3>2. \A r \in Radios : on[r] \in Buttons[r] BY ConstAssumption
    <3>3. \A f \in TextFields : was[f] \in Texts BY ConstAssumption
    <3> HIDE DEF on, was
    <3>4. /\ text' \in [TextFields -> Texts]
          /\ DOMAIN active' = Radios /\ DOMAIN method' = Radios
          /\ \A r \in Radios : /\ active'[r] \in Buttons[r]
                               /\ method'[r] \in Buttons[r] \cup {None}
          /\ greyed' \subseteq Groups /\ touched' \subseteq Radios
          /\ TouchedTold'
      <4>1. {} \subseteq Radios /\ (\A r \in {} : method[r] = on[r]) /\ {} \subseteq Groups
        OBVIOUS
      <4> QED BY <3>1, <3>2, <3>3, <4>1, UpdateFields
    <3>5. changed' = {} /\ edited' = {} BY DEF Reload
    <3> QED BY <3>4, <3>5 DEF WidgetTypes
  <2> QED BY <2>1, <2>2 DEF Reload
<1>2. OnlyEdited' BY DEF Reload, OnlyEdited
<1> QED BY <1>1, <1>2

LEMMA FieldStepKeeps ==
    ASSUME WidgetTypes, TouchedTold, OnlyEdited, KnownOK(known), FieldStep
    PROVE  WidgetTypes' /\ TouchedTold' /\ OnlyEdited'
<1>1. CASE FieldsStay
  BY <1>1 DEF FieldsStay, WidgetTypes, TouchedTold, OnlyEdited
<1>2. CASE Reload BY <1>2, ReloadKeeps
<1>3. ASSUME NEW r \in Radios, NEW v \in Buttons[r], Toggle(r, v)
      PROVE  WidgetTypes' /\ TouchedTold' /\ OnlyEdited'
  <2>0. GroupOf(r) \in Groups BY GroupOfField DEF Radios
  <2>1. WidgetTypes' BY <1>3, <2>0 DEF Toggle, WidgetTypes
  <2>2. TouchedTold' BY <1>3 DEF Toggle, WidgetTypes, TouchedTold
  <2>3. OnlyEdited' BY <1>3 DEF Toggle, OnlyEdited
  <2> QED BY <2>1, <2>2, <2>3
<1>4. ASSUME NEW f \in TextFields, NEW v \in Texts, Type(f, v)
      PROVE  WidgetTypes' /\ TouchedTold' /\ OnlyEdited'
  <2>0. GroupOf(f) \in Groups BY GroupOfField DEF TextFields
  <2> QED BY <1>4, <2>0 DEF Type, WidgetTypes, TouchedTold, OnlyEdited
<1> QED BY <1>1, <1>2, <1>3, <1>4 DEF FieldStep

(* A group that is edited counts, until OK or an error.                     *)
LEMMA EditsStay ==
    ASSUME "timeservers_conf" \notin Fields, WidgetTypes, FieldStep,
           open, changedCb # "set", toError \subseteq toError'
    PROVE  /\ changed \subseteq changed'
           /\ \A f \in TextFields : text'[f] # text[f] => GroupOf(f) \in changed'
<1>1. CASE FieldsStay BY <1>1 DEF FieldsStay
<1>2. CASE Reload /\ MayReload BY <1>2 DEF MayReload
<1>3. CASE \E r \in Radios : \E v \in Buttons[r] : Toggle(r, v) BY <1>3 DEF Toggle
<1>4. ASSUME NEW f \in TextFields, NEW v \in Texts, Type(f, v)
      PROVE  /\ changed \subseteq changed'
             /\ \A g \in TextFields : text'[g] # text[g] => GroupOf(g) \in changed'
  <2>1. Found(f) BY DEF Found, TextFields
  <2>2. changed' = changed \cup {GroupOf(f)} BY <1>4, <2>1 DEF Type
  <2>3. \A g \in TextFields : text'[g] # text[g] => g = f
    BY <1>4 DEF Type, WidgetTypes
  <2> QED BY <2>2, <2>3
<1> QED BY <1>1, <1>2, <1>3, <1>4 DEF FieldStep

-----------------------------------------------------------------------------
(* What a step does to calls and messages *)

Removes(n) == [i \in 1 .. n |-> RemoveCall]

CallsStay == UNCHANGED <<outbox, modify>>

(* The header makes calls, or OK does, ...                                  *)
Removing ==
    \E n \in 0 .. 2 : outbox' = Sent(outbox, Removes(n)) /\ modify' = modify

Setting(p, v, n) ==
    /\ live /\ p \notin modify
    /\ modify' = modify \cup {p}
    /\ outbox' = Sent(outbox, <<SetProperty(p, v)>> \o Removes(n))

HeaderCalls ==
    CallsStay \/ Removing \/ \E v \in BOOLEAN, n \in 0 .. 2 : Setting(AutoConnect, v, n)

OkCalls == CallsStay \/ \E g \in Groups : Setting(g, Configuration(g), 0)

(* ... a message is taken that is not about a call, ...                     *)
Takes ==
    /\ CallsStay
    /\ inbox # <<>> /\ inbox' = Tail(inbox)
    /\ Head(inbox).type \in {"services", "PropertyChanged"}

(* ... the service is freed, ...                                            *)
Freed ==
    /\ modify' = {} /\ outbox' = Cancelled(outbox)
    /\ \/ inbox' = Cancelled(inbox)
       \/ /\ inbox # <<>> /\ Head(inbox).type = "down"
          /\ inbox' = Cancelled(Tail(inbox))
          /\ inTable' = FALSE /\ selected' = FALSE

(* ... the daemon tells something of its own, ...                           *)
Tells ==
    /\ CallsStay /\ alive /\ alive'
    /\ \/ inbox' = inbox
       \/ \E m : /\ inbox' = Append(inbox, m) /\ IsMessage(m)
                 /\ m.type \in {"services", "PropertyChanged"}

Traffic ==
    \/ inbox' = inbox /\ (HeaderCalls \/ OkCalls)
    \/ Takes
    \/ set_property_cb
    \/ Freed
    \/ Tells
    \/ DaemonServes
    \/ DaemonFails
    \/ DaemonDown

LEMMA NoRemoves ==
    ASSUME NEW m
    PROVE  <<m>> \o Removes(0) = <<m>>
<1>1. IsSeq(Removes(0)) /\ Len(Removes(0)) = 0 BY RemovesSeq DEF Removes
<1>2. PICK S : Removes(0) \in Seq(S) BY <1>1 DEF IsSeq
<1>3. Removes(0) = <<>> BY <1>1, <1>2, EmptySeq
<1>4. <<m>> \in Seq({m}) OBVIOUS
<1>5. <<m>> \o <<>> = <<m>> BY <1>4
<1> QED BY <1>3, <1>5

LEMMA UpdateHeaderCalls ==
    ASSUME NEW auto, NEW fav, NEW n \in 0 .. 2, known.autoconnect \in BOOLEAN,
           update_header(auto, fav, n)
    PROVE  /\ HeaderCalls /\ hooks' \in 0 .. 2
           /\ autoButton' = known.autoconnect
           /\ {favButton', sensitive'} \subseteq {known.favorite}
           /\ \/ CallsStay \/ Removing
              \/ /\ live /\ n > 0 /\ auto # known.autoconnect
                 /\ \E k \in 0 .. 2 : Setting(AutoConnect, known.autoconnect, k)
<1> DEFINE removes == IF live /\ fav /\ ~known.favorite
                      THEN [i \in 1 .. n |-> RemoveCall] ELSE <<>>
           toggled == live /\ n > 0 /\ auto # known.autoconnect
                      /\ AutoConnect \notin modify
           call == <<SetProperty(AutoConnect, known.autoconnect)>>
<1>1. /\ outbox' = Sent(outbox, (IF toggled THEN call ELSE <<>>) \o removes)
      /\ modify' = IF toggled THEN modify \cup {AutoConnect} ELSE modify
  BY DEF update_header
<1>2. hooks' \in 0 .. 2 /\ autoButton' = known.autoconnect
      /\ {favButton', sensitive'} \subseteq {known.favorite}
  BY DEF update_header
<1>3. PICK k \in 0 .. 2 : removes = Removes(k)
  <2>1. removes = Removes(n) \/ removes = <<>> BY DEF Removes
  <2>2. Removes(0) = <<>>
    <3>1. IsSeq(Removes(0)) /\ Len(Removes(0)) = 0 BY RemovesSeq DEF Removes
    <3>2. PICK S : Removes(0) \in Seq(S) BY <3>1 DEF IsSeq
    <3> QED BY <3>1, <3>2, EmptySeq
  <2>3. 0 \in 0 .. 2 OBVIOUS
  <2> HIDE DEF removes
  <2> QED BY <2>1, <2>2, <2>3
<1>4. CASE toggled
  <2>1. outbox' = Sent(outbox, call \o Removes(k)) /\ modify' = modify \cup {AutoConnect}
    BY <1>1, <1>3, <1>4
  <2>2. Setting(AutoConnect, known.autoconnect, k) BY <1>4, <2>1 DEF Setting
  <2> QED BY <1>2, <1>4, <2>2 DEF HeaderCalls
<1>5. CASE ~toggled
  <2>1. <<>> \o Removes(k) = Removes(k)
    <3>1. k \in Nat OBVIOUS
    <3>2. IsSeq(Removes(k)) BY <3>1, RemovesSeq DEF Removes
    <3> QED BY <3>2 DEF IsSeq
  <2>2. outbox' = Sent(outbox, Removes(k)) /\ modify' = modify
    BY <1>1, <1>3, <1>5, <2>1
  <2>3. Removing BY <2>2 DEF Removing
  <2> QED BY <1>2, <2>3 DEF HeaderCalls
<1> QED BY <1>4, <1>5

LEMMA SetPropertyCalls ==
    ASSUME NEW p, NEW v, live, set_service_property(p, v)
    PROVE  CallsStay \/ Setting(p, v, 0)
  BY NoRemoves DEF set_service_property, CallsStay, Setting

LEMMA KnownAuto == Shape => known.autoconnect \in BOOLEAN /\ known.favorite \in BOOLEAN
                            /\ hooks \in 0 .. 2
  BY DEF Shape, ObjectTypes, KnownOK, Counts

LEMMA UserTraffic ==
    ASSUME Shape, User
    PROVE  (inbox' = inbox /\ (HeaderCalls \/ OkCalls)) \/ Freed
<1>1. CASE cui_settings_popup
  <2>1. update_header(FALSE, FALSE, 0) /\ inbox' = inbox BY <1>1 DEF cui_settings_popup
  <2>2. FALSE \in BOOLEAN /\ 0 \in 0 .. 2 /\ known.autoconnect \in BOOLEAN BY KnownAuto
  <2>3. HeaderCalls BY <2>1, <2>2, UpdateHeaderCalls
  <2> QED BY <2>1, <2>3
<1>2. CASE settings_cancel_callback
  <2>1. CASE inTable BY <1>2, <2>1 DEF settings_cancel_callback, HeaderCalls, CallsStay
  <2>2. CASE ~inTable BY <1>2, <2>2 DEF settings_cancel_callback, service_free, Freed
  <2> QED BY <2>1, <2>2
<1>3. CASE settings_ok_callback
  <2>1. inbox' = inbox BY <1>3 DEF settings_ok_callback
  <2>2. CASE UNCHANGED <<modify, outbox>> BY <2>1, <2>2 DEF HeaderCalls, CallsStay
  <2>3. ASSUME NEW i \in DOMAIN AllGroups, AllGroups[i] \in changed,
               connman_service_set_config(AllGroups[i], Configuration(AllGroups[i]))
        PROVE  OkCalls
    <3>1. AllGroups[i] \in Groups BY <2>3 DEF Shape, WidgetTypes
    <3>2. CASE UNCHANGED <<modify, outbox>> BY <3>2 DEF OkCalls, CallsStay
    <3>3. CASE live /\ set_service_property(AllGroups[i], Configuration(AllGroups[i]))
      BY <3>1, <3>3, SetPropertyCalls DEF OkCalls
    <3> QED BY <2>3, <3>2, <3>3 DEF connman_service_set_config
  <2> QED BY <1>3, <2>1, <2>2, <2>3 DEF settings_ok_callback
<1>4. CASE \E r \in Radios : \E v \in Buttons[r] : toggled_method_cb(r, v)
  BY <1>4 DEF toggled_method_cb, HeaderCalls, CallsStay
<1>5. CASE \E f \in TextFields, v \in Texts : key_released_entry_cb(f, v)
  BY <1>5 DEF key_released_entry_cb, HeaderCalls, CallsStay
<1>6. CASE autoconnect_button_toggled
  <2>1. inbox' = inbox /\ connman_service_set_autoconnectable(~autoButton)
    BY <1>6 DEF autoconnect_button_toggled
  <2>2. CASE UNCHANGED <<modify, outbox>> BY <2>1, <2>2 DEF HeaderCalls, CallsStay
  <2>3. CASE live /\ set_service_property(AutoConnect, ~autoButton)
    <3>1. (~autoButton) \in BOOLEAN /\ 0 \in 0 .. 2 OBVIOUS
    <3>2. CallsStay \/ Setting(AutoConnect, ~autoButton, 0) BY <2>3, SetPropertyCalls
    <3> QED BY <2>1, <3>1, <3>2 DEF HeaderCalls
  <2> QED BY <2>1, <2>2, <2>3 DEF connman_service_set_autoconnectable
<1>7. CASE favorite_button_toggled
  <2>1. inbox' = inbox /\ modify' = modify BY <1>7 DEF favorite_button_toggled
  <2>2. outbox' = outbox \/ outbox' = Sent(outbox, Removes(hooks))
    BY <1>7 DEF favorite_button_toggled, Removes
  <2>3. HeaderCalls BY <2>1, <2>2, KnownAuto DEF HeaderCalls, CallsStay, Removing
  <2> QED BY <2>1, <2>3
<1> QED BY <1>1, <1>2, <1>3, <1>4, <1>5, <1>6, <1>7 DEF User

LEMMA MainTraffic ==
    ASSUME Shape, MainLoop
    PROVE  Traffic
<1>0. Traffic <=> \/ inbox' = inbox /\ (HeaderCalls \/ OkCalls)
                  \/ Takes \/ set_property_cb \/ Freed \/ Tells
                  \/ DaemonServes \/ DaemonFails \/ DaemonDown
  BY DEF Traffic
<1>1. CASE get_services_cb \/ property_changed_signal_cb
  <2>1. Takes BY <1>1 DEF get_services_cb, property_changed_signal_cb, Receive, Takes, CallsStay
  <2> QED BY <1>0, <2>1
<1>2. CASE set_property_cb BY <1>0, <1>2
<1>3. CASE connman_down
  <2>1. Freed BY <1>3 DEF connman_down, service_free, Freed
  <2> QED BY <1>0, <2>1
<1>4. ASSUME NEW p, property_changed_or_error(p) \/ property_error(p)
      PROVE  Traffic
  <2>1. inbox' = inbox BY <1>4 DEF property_changed_or_error, property_error
  <2>2. UNCHANGED <<outbox, modify>> \/ update_header(autoButton, favButton, hooks)
    BY <1>4 DEF property_changed_or_error, property_error, service_property_set_cb
  <2>3. HeaderCalls
    <3>1. CASE UNCHANGED <<outbox, modify>> BY <3>1 DEF HeaderCalls, CallsStay
    <3>2. CASE update_header(autoButton, favButton, hooks)
      BY <3>2, KnownAuto, UpdateHeaderCalls
    <3> QED BY <2>2, <3>1, <3>2
  <2> QED BY <1>0, <2>1, <2>3
<1> QED BY <1>1, <1>2, <1>3, <1>4 DEF MainLoop, Messages

(* What the daemon tells has the types of what it has.                      *)
LEMMA ListedOK ==
    ASSUME Shape
    PROVE  KnownOK(Listed)
<1>1. /\ Listed.config = config /\ Listed.inUse = inUse
      /\ Listed.autoconnect = autoconnect /\ Listed.favorite = favorite
  BY DEF Listed
<1>2. autoconnect \in BOOLEAN /\ favorite \in BOOLEAN BY DEF Shape, Flags
<1>3. Listed = [config |-> Listed.config, inUse |-> Listed.inUse,
                autoconnect |-> Listed.autoconnect, favorite |-> Listed.favorite]
  BY DEF Listed
<1> HIDE DEF Listed
<1> QED BY <1>1, <1>2, <1>3 DEF KnownOK, Shape, DaemonTypes

LEMMA PartOK ==
    ASSUME NEW g \in Groups, NEW e,
           \A f \in Fields : e[f] \in ValuesOf(f) \cup {None}
    PROVE  IsChange(PropertyChanged(g, Part(e, g)))
<1>1. \A f \in g \cap Fields : Part(e, g)[f] = e[f] BY DEF Part
<1> DEFINE m == PropertyChanged(g, Part(e, g))
<1>2. m.type = "PropertyChanged" /\ m.property = g /\ m.value = Part(e, g)
  BY DEF PropertyChanged
<1> HIDE DEF m
<1> QED BY <1>1, <1>2 DEF IsChange, m

LEMMA InUseOK ==
    ASSUME NEW g \in Groups, NEW e,
           \A r \in Radios : e[r] \in Buttons[r] \cup {None}
    PROVE  IsChange(PropertyChanged(InUse(g), Part(e, g \cap Radios)))
<1> DEFINE m == PropertyChanged(InUse(g), Part(e, g \cap Radios))
<1>1. m.type = "PropertyChanged" /\ m.property = InUse(g) /\ m.value = Part(e, g \cap Radios)
  BY DEF PropertyChanged
<1>2. ASSUME NEW r \in InUse(g) \cap Radios
      PROVE  Part(e, g \cap Radios)[r] \in Buttons[r] \cup {None}
  <2>1. r # "in_use"
    <3>1. DOMAIN Buttons = {"ipv4_method", "ipv6_method", "ipv6_privacy", "proxy_method"}
      BY DEF Buttons
    <3> QED BY <3>1 DEF Radios
  <2>2. r \in (g \cap Radios) \cap Fields BY <1>2, <2>1 DEF InUse, Radios
  <2>3. Part(e, g \cap Radios)[r] = e[r] BY <2>2 DEF Part
  <2> QED BY <2>3
<1>3. InUse(g) \in {InUse(h) : h \in Groups} OBVIOUS
<1> HIDE DEF m
<1> QED BY <1>1, <1>2, <1>3 DEF IsChange, m

LEMMA ButtonOK ==
    ASSUME NEW p \in {AutoConnect, Favorite}, NEW v \in BOOLEAN
    PROVE  IsChange(PropertyChanged(p, v))
  BY DEF IsChange, PropertyChanged

LEMMA ConfigChanges ==
    ASSUME DaemonTypes, NEW f \in Fields, NEW v \in ValuesOf(f),
           config' = [config EXCEPT ![f] = v], inUse' = inUse
    PROVE  DaemonTypes'
  BY DEF DaemonTypes

LEMMA ConfigApplies ==
    ASSUME DaemonTypes, NEW g,
           inUse' = [r \in Radios |-> IF r \in g THEN config[r] ELSE inUse[r]],
           config' = config
    PROVE  DaemonTypes'
<1>1. \A r \in Radios : config[r] \in Buttons[r] BY FieldValues DEF DaemonTypes
<1> QED BY <1>1 DEF DaemonTypes

(* A signal is told to a service that is there.                             *)
LEMMA EmittedTells ==
    ASSUME MessageTypes, CallsStay, alive, alive', NEW m, IsChange(m),
           inbox' = Emitted(<<m>>)
    PROVE  Tells
<1>1. inbox \o <<m>> = Append(inbox, m) BY SeqAppend DEF MessageTypes
<1>2. IsMessage(m) /\ m.type \in {"services", "PropertyChanged"}
  BY DEF IsMessage, IsChange
<1> QED BY <1>1, <1>2 DEF Tells, Emitted

LEMMA ChangesTell ==
    ASSUME Shape, DaemonChanges
    PROVE  Tells /\ DaemonTypes'
<1>0. /\ CallsStay /\ alive /\ alive'
      /\ inUse' = inUse /\ MessageTypes /\ DaemonTypes
  BY DEF DaemonChanges, CallsStay, Shape
<1>1. ASSUME NEW f \in Fields, NEW v \in ValuesOf(f),
             config' = [config EXCEPT ![f] = v],
             inbox' = Emitted(<<PropertyChanged(GroupOf(f), Part(config', GroupOf(f)))>>)
      PROVE  Tells /\ DaemonTypes'
  <2>1. DaemonTypes' BY <1>0, <1>1, ConfigChanges
  <2>2. \A x \in Fields : config'[x] \in ValuesOf(x) \cup {None}
    BY <2>1 DEF DaemonTypes
  <2>3. PICK e : e = config' OBVIOUS
  <2>4. \A x \in Fields : e[x] \in ValuesOf(x) \cup {None} BY <2>2, <2>3
  <2>5. IsChange(PropertyChanged(GroupOf(f), Part(e, GroupOf(f))))
    BY <2>4, GroupOfField, PartOK
  <2>6. inbox' = Emitted(<<PropertyChanged(GroupOf(f), Part(e, GroupOf(f)))>>)
    BY <1>1, <2>3
  <2> QED BY <1>0, <2>1, <2>5, <2>6, EmittedTells
<1>2. ASSUME config' = config,
             \/ inbox' = Emitted(<<PropertyChanged(AutoConnect, ~autoconnect)>>)
             \/ inbox' = Emitted(<<PropertyChanged(Favorite, ~favorite)>>)
             \/ inbox' = Emitted(<<PropertyChanged(Other, None)>>)
      PROVE  Tells /\ DaemonTypes'
  <2>1. DaemonTypes' BY <1>0, <1>2 DEF DaemonTypes
  <2>2. /\ IsChange(PropertyChanged(AutoConnect, ~autoconnect))
        /\ IsChange(PropertyChanged(Favorite, ~favorite))
    BY ButtonOK
  <2>3. IsChange(PropertyChanged(Other, None))
    BY DEF IsChange, PropertyChanged
  <2> QED BY <1>0, <1>2, <2>1, <2>2, <2>3, EmittedTells
<1> QED BY <1>1, <1>2 DEF DaemonChanges

LEMMA AppliesTell ==
    ASSUME Shape, NEW g \in Groups, DaemonApplies(g)
    PROVE  Tells /\ DaemonTypes'
<1>0. CallsStay /\ alive /\ alive' /\ MessageTypes /\ DaemonTypes
  BY DEF DaemonApplies, CallsStay, Shape, objectVars
<1>1. DaemonTypes' BY <1>0, ConfigApplies DEF DaemonApplies
<1>2. PICK e : e = inUse' OBVIOUS
<1>3. \A r \in Radios : e[r] \in Buttons[r] \cup {None} BY <1>1, <1>2 DEF DaemonTypes
<1>4. IsChange(PropertyChanged(InUse(g), Part(e, g \cap Radios))) BY <1>3, InUseOK
<1>5. inbox' = Emitted(<<PropertyChanged(InUse(g), Part(e, g \cap Radios))>>)
  BY <1>2 DEF DaemonApplies
<1> QED BY <1>0, <1>1, <1>4, <1>5, EmittedTells

LEMMA ListsTell ==
    ASSUME Shape, MenuLists
    PROVE  Tells
<1> DEFINE m == [type |-> "services", known |-> Listed]
<1>1. inbox' = Append(inbox, m) /\ CallsStay /\ alive /\ alive'
  BY DEF MenuLists, CallsStay, daemonVars
<1>2. m.type = "services" /\ m.known = Listed OBVIOUS
<1> HIDE DEF m
<1>3. IsMessage(m) BY <1>2, ListedOK DEF IsMessage
<1> QED BY <1>1, <1>2, <1>3 DEF Tells

LEMMA TrafficSteps ==
    ASSUME Shape, [Next]_vars
    PROVE  Traffic
<1>0. Traffic <=> \/ inbox' = inbox /\ (HeaderCalls \/ OkCalls)
                  \/ Takes \/ set_property_cb \/ Freed \/ Tells
                  \/ DaemonServes \/ DaemonFails \/ DaemonDown
  BY DEF Traffic
<1>1. CASE MainLoop BY <1>1, MainTraffic
<1>2. CASE User BY <1>0, <1>2, UserTraffic
<1>3. CASE MenuLists BY <1>0, <1>3, ListsTell
<1>4. CASE MenuShows BY <1>0, <1>4 DEF MenuShows, HeaderCalls, CallsStay
<1>5. CASE MenuCloses
  <2>1. Freed BY <1>5 DEF MenuCloses, service_free, Freed
  <2> QED BY <1>0, <2>1
<1>6. CASE DaemonServes \/ DaemonFails \/ DaemonDown BY <1>0, <1>6
<1>7. CASE DaemonChanges BY <1>0, <1>7, ChangesTell
<1>8. CASE \E g \in Groups : DaemonApplies(g) BY <1>0, <1>8, AppliesTell
<1>9. CASE DaemonUp BY <1>0, <1>9 DEF DaemonUp, HeaderCalls, CallsStay
<1>10. CASE UNCHANGED vars BY <1>0, <1>10 DEF vars, HeaderCalls, CallsStay
<1> QED BY <1>1, <1>2, <1>3, <1>4, <1>5, <1>6, <1>7, <1>8, <1>9, <1>10
        DEF Next, Menu, Daemon

-----------------------------------------------------------------------------
(* Calls and messages keep their types *)

LEMMA SetIsCall ==
    /\ \A v \in BOOLEAN : IsSet(SetProperty(AutoConnect, v))
    /\ \A g \in Groups : \A v :
         (\A f \in g \cap Fields : v[f] \in ValuesOf(f) \cup {None})
           => IsSet(SetProperty(g, v))
  BY DEF IsSet, SetProperty

LEMMA ConfigurationOK ==
    ASSUME WidgetTypes, NEW g \in Groups
    PROVE  IsSet(SetProperty(g, Configuration(g)))
<1>1. ASSUME NEW f \in g \cap Fields
      PROVE  Configuration(g)[f] \in ValuesOf(f) \cup {None}
  <2>1. Configuration(g)[f] = IF f \in Radios THEN method[f] ELSE text[f]
    BY DEF Configuration
  <2>2. f \in Radios \/ f \in TextFields BY FieldValues
  <2>3. CASE f \in Radios BY <2>1, <2>3, FieldValues DEF WidgetTypes
  <2>4. CASE f \in TextFields BY <2>1, <2>4, FieldValues DEF WidgetTypes
  <2> QED BY <2>2, <2>3, <2>4
<1> HIDE DEF Configuration
<1> QED BY <1>1, SetIsCall

LEMMA CancelledCall ==
    ASSUME NEW m, IsSet(m)
    PROVE  LET n == [m EXCEPT !.valid = FALSE]
           IN  /\ IsSet(n) /\ ~n.valid
               /\ n.type = m.type /\ n.property = m.property /\ n.value = m.value
<1>1. PICK p, v, b : m = [type |-> "SetProperty", property |-> p, value |-> v, valid |-> b]
  BY DEF IsSet
<1>2. PICK n : n = [m EXCEPT !.valid = FALSE] OBVIOUS
<1>3. n = [type |-> n.type, property |-> n.property, value |-> n.value, valid |-> n.valid]
  BY <1>1, <1>2
<1>4. n.type = "SetProperty" /\ n.property = p /\ n.value = v /\ n.valid = FALSE
  BY <1>1, <1>2
<1>5. m.type = "SetProperty" /\ m.property = p /\ m.value = v BY <1>1
<1>6. IsSet(n) BY <1>3, <1>4, <1>5 DEF IsSet
<1> QED BY <1>2, <1>4, <1>5, <1>6

LEMMA CancelledResult ==
    ASSUME NEW m, IsResult(m)
    PROVE  LET n == [m EXCEPT !.valid = FALSE]
           IN  IsResult(n) /\ ~n.valid /\ n.property = m.property
<1>1. PICK p, o, b : m = [type |-> "result", property |-> p, valid |-> b, ok |-> o]
  BY DEF IsResult
<1>2. PICK n : n = [m EXCEPT !.valid = FALSE] OBVIOUS
<1>3. n = [type |-> n.type, property |-> n.property, valid |-> n.valid, ok |-> n.ok]
  BY <1>1, <1>2
<1>4. n.type = "result" /\ n.property = p /\ n.valid = FALSE /\ n.ok = o
  BY <1>1, <1>2
<1>5. m.property = p /\ m.ok = o BY <1>1
<1>6. IsResult(n) BY <1>3, <1>4, <1>5 DEF IsResult
<1> QED BY <1>2, <1>4, <1>5, <1>6

LEMMA ResultOK ==
    ASSUME NEW m, IsSet(m), NEW ok \in BOOLEAN
    PROVE  /\ IsResult(Result(m, ok)) /\ IsMessage(Result(m, ok))
           /\ Result(m, ok).type = "result"
           /\ Result(m, ok).property = m.property
           /\ Result(m, ok).valid = m.valid /\ Result(m, ok).ok = ok
<1>1. m.property \in Groups \cup {AutoConnect} /\ m.valid \in BOOLEAN BY DEF IsSet
<1>2. PICK n : n = Result(m, ok) OBVIOUS
<1>3. n.type = "result" /\ n.property = m.property /\ n.valid = m.valid /\ n.ok = ok
      /\ n = [type |-> "result", property |-> n.property, valid |-> n.valid, ok |-> n.ok]
  BY <1>2 DEF Result
<1>4. IsResult(n) BY <1>1, <1>3 DEF IsResult
<1> QED BY <1>2, <1>3, <1>4 DEF IsMessage

(* A call of a program, or several, behind those there are.                 *)
LEMMA SetConcat ==
    ASSUME NEW m, NEW n \in 0 .. 2
    PROVE  LET ms == <<m>> \o Removes(n)
           IN  /\ IsSeq(ms) /\ Len(ms) = 1 + n /\ ms[1] = m
               /\ \A i \in 2 .. Len(ms) : ms[i] = RemoveCall
<1> DEFINE ms == <<m>> \o Removes(n)
<1>0. n \in Nat OBVIOUS
<1>1. /\ IsSeq(Removes(n)) /\ Len(Removes(n)) = n
      /\ \A i \in 1 .. n : Removes(n)[i] = RemoveCall
  BY <1>0, RemovesSeq DEF Removes
<1>2. IsSeq(<<m>>) /\ Len(<<m>>) = 1 /\ <<m>>[1] = m BY SeqOne
<1> HIDE DEF Removes
<1>3. /\ IsSeq(ms) /\ Len(ms) = 1 + n
      /\ \A i \in 1 .. 1 : ms[i] = <<m>>[i]
      /\ \A i \in 1 + 1 .. Len(ms) : i - 1 \in 1 .. n /\ ms[i] = Removes(n)[i - 1]
  BY <1>1, <1>2, SeqConcat
<1> HIDE DEF ms
<1>4. ms[1] = m BY <1>2, <1>3
<1>5. \A i \in 2 .. Len(ms) : ms[i] = RemoveCall BY <1>1, <1>3
<1> QED BY <1>3, <1>4, <1>5 DEF ms

LEMMA SentCalls ==
    ASSUME CallTypes, NEW ms, IsSeq(ms), \A i \in 1 .. Len(ms) : IsCall(ms[i]),
           outbox' = Sent(outbox, ms)
    PROVE  CallTypes'
<1>1. CASE alive
  <2>1. outbox' = outbox \o ms BY <1>1 DEF Sent
  <2>2. /\ IsSeq(outbox \o ms) /\ Len(outbox) \in Nat /\ Len(ms) \in Nat
        /\ Len(outbox \o ms) = Len(outbox) + Len(ms)
        /\ \A i \in 1 .. Len(outbox) : (outbox \o ms)[i] = outbox[i]
        /\ \A i \in Len(outbox) + 1 .. Len(outbox \o ms) :
             i - Len(outbox) \in 1 .. Len(ms) /\ (outbox \o ms)[i] = ms[i - Len(outbox)]
    BY SeqConcat DEF CallTypes
  <2>3. PICK q : q = outbox \o ms OBVIOUS
  <2>4. \A i \in 1 .. Len(q) : i \in 1 .. Len(outbox) \/ i \in Len(outbox) + 1 .. Len(q)
    BY <2>2, <2>3
  <2>5. \A i \in 1 .. Len(q) : IsCall(q[i]) BY <2>2, <2>3, <2>4 DEF CallTypes
  <2> QED BY <2>1, <2>2, <2>3, <2>5 DEF CallTypes
<1>2. CASE ~alive BY <1>2 DEF Sent, CallTypes
<1> QED BY <1>1, <1>2

LEMMA SettingCalls ==
    ASSUME CallTypes, NEW p, NEW v, NEW n \in 0 .. 2, IsSet(SetProperty(p, v)),
           Setting(p, v, n)
    PROVE  CallTypes'
<1> DEFINE m == SetProperty(p, v)
           ms == <<m>> \o Removes(n)
<1>1. IsSet(m) OBVIOUS
<1> HIDE DEF m
<1>2. IsSeq(ms) /\ Len(ms) = 1 + n /\ ms[1] = m /\ \A i \in 2 .. Len(ms) : ms[i] = RemoveCall
  BY SetConcat
<1>3. outbox' = Sent(outbox, ms) BY DEF Setting, m
<1> HIDE DEF ms
<1>4. \A i \in 1 .. Len(ms) : IsCall(ms[i])
  <2>1. \A i \in 1 .. Len(ms) : i = 1 \/ i \in 2 .. Len(ms) BY <1>2
  <2> QED BY <1>1, <1>2, <2>1 DEF IsCall
<1> QED BY <1>2, <1>3, <1>4, SentCalls

LEMMA CallsKeep ==
    ASSUME Shape, HeaderCalls \/ OkCalls
    PROVE  CallTypes' /\ modify' \subseteq Groups \cup {AutoConnect}
<1>0. CallTypes /\ WidgetTypes /\ modify \subseteq Groups \cup {AutoConnect}
  BY DEF Shape, ObjectTypes
<1>1. CASE CallsStay BY <1>0, <1>1 DEF CallsStay, CallTypes
<1>2. CASE Removing
  <2>1. PICK n \in 0 .. 2 : outbox' = Sent(outbox, Removes(n)) /\ modify' = modify
    BY <1>2 DEF Removing
  <2>2. n \in Nat OBVIOUS
  <2>3. /\ IsSeq(Removes(n)) /\ Len(Removes(n)) = n
        /\ \A i \in 1 .. n : Removes(n)[i] = RemoveCall
    BY <2>2, RemovesSeq DEF Removes
  <2>4. \A i \in 1 .. Len(Removes(n)) : IsCall(Removes(n)[i]) BY <2>3 DEF IsCall
  <2> QED BY <1>0, <2>1, <2>3, <2>4, SentCalls
<1>3. ASSUME NEW v \in BOOLEAN, NEW n \in 0 .. 2, Setting(AutoConnect, v, n)
      PROVE  CallTypes' /\ modify' \subseteq Groups \cup {AutoConnect}
  <2>1. CallTypes' BY <1>0, <1>3, SetIsCall, SettingCalls
  <2> QED BY <1>0, <1>3, <2>1 DEF Setting
<1>4. ASSUME NEW g \in Groups, Setting(g, Configuration(g), 0)
      PROVE  CallTypes' /\ modify' \subseteq Groups \cup {AutoConnect}
  <2>1. CallTypes'
    <3>1. 0 \in 0 .. 2 OBVIOUS
    <3> QED BY <1>0, <1>4, <3>1, ConfigurationOK, SettingCalls
  <2> QED BY <1>0, <1>4, <2>1 DEF Setting
<1> QED BY <1>1, <1>2, <1>3, <1>4 DEF HeaderCalls, OkCalls

LEMMA SettingDaemon ==
    ASSUME DaemonTypes, NEW m, IsSet(m), m.property \in Groups, inUse' = inUse,
           \A f \in m.property \cap Fields : m.value[f] # None,
           config' = [f \in Fields |-> IF f \in m.property THEN m.value[f]
                                      ELSE config[f]]
    PROVE  DaemonTypes'
<1>1. \A f \in m.property \cap Fields : m.value[f] \in ValuesOf(f) \cup {None}
  BY NoHeaderGroup DEF IsSet
<1>2. \A f \in Fields : config'[f] \in ValuesOf(f) BY <1>1 DEF DaemonTypes
<1> QED BY <1>2 DEF DaemonTypes

(* A call that is served brings a signal, or none, and an answer behind it. *)
Heard(M) == M = inbox \/ \E c : IsChange(c) /\ M = Append(inbox, c)

LEMMA EmittedHeard ==
    ASSUME MessageTypes, NEW c, IsChange(c)
    PROVE  Heard(Emitted(<<c>>))
<1>1. inbox \o <<c>> = Append(inbox, c) BY SeqAppend DEF MessageTypes
<1> QED BY <1>1 DEF Heard, Emitted

LEMMA HeadOfCalls ==
    ASSUME CallTypes, outbox # <<>>
    PROVE  /\ IsCall(Head(outbox)) /\ Head(outbox) = outbox[1]
           /\ Head(outbox).type = "SetProperty" => IsSet(Head(outbox))
           /\ Head(outbox).type = "Remove" => Head(outbox) = RemoveCall
<1>1. Head(outbox) = outbox[1] /\ 1 \in 1 .. Len(outbox) BY SeqTail DEF CallTypes
<1>2. IsCall(Head(outbox)) BY <1>1 DEF CallTypes
<1> QED BY <1>1, <1>2 DEF IsCall, IsSet, RemoveCall

LEMMA ServesHeard ==
    ASSUME Shape, DaemonServes
    PROVE  /\ outbox # <<>> /\ outbox' = Tail(outbox) /\ modify' = modify
           /\ \/ /\ IsSet(Head(outbox))
                 /\ \E M : \E ok \in BOOLEAN :
                      Heard(M) /\ inbox' = Append(M, Result(Head(outbox), ok))
              \/ Head(outbox) = RemoveCall /\ Heard(inbox')
           /\ DaemonTypes' /\ {autoconnect', favorite'} \subseteq BOOLEAN
<1>0. /\ MessageTypes /\ DaemonTypes /\ CallTypes
      /\ autoconnect \in BOOLEAN /\ favorite \in BOOLEAN
  BY DEF Shape, Flags
<1>1. outbox # <<>> /\ outbox' = Tail(outbox) /\ modify' = modify /\ inUse' = inUse
  BY DEF DaemonServes
<1> DEFINE m == Head(outbox)
<1>2. (m.type = "SetProperty" => IsSet(m)) /\ (m.type = "Remove" => m = RemoveCall)
  BY <1>0, <1>1, HeadOfCalls
<1>3. \/ m.type = "SetProperty" /\ Set(m) /\ UNCHANGED favorite
      \/ /\ m.type = "Remove"
         /\ favorite' = FALSE
         /\ inbox' = IF favorite THEN Emitted(<<PropertyChanged(Favorite, FALSE)>>)
                     ELSE inbox
         /\ UNCHANGED <<config, autoconnect>>
  BY DEF DaemonServes
<1> HIDE DEF m
<1>4. CASE m.type = "SetProperty" /\ Set(m) /\ UNCHANGED favorite
  <2>0. IsSet(m) BY <1>2, <1>4
  <2>1. CASE /\ m.property \in Groups
             /\ \A f \in m.property \cap Fields : m.value[f] # None
             /\ config' = [f \in Fields |-> IF f \in m.property THEN m.value[f]
                                            ELSE config[f]]
             /\ inbox' = Append(Emitted(<<PropertyChanged(m.property,
                                  Part(config', m.property))>>), Result(m, TRUE))
             /\ UNCHANGED autoconnect
    <3>1. DaemonTypes' BY <1>0, <1>1, <2>0, <2>1, SettingDaemon
    <3>2. PICK e : e = config' OBVIOUS
    <3>3. \A f \in Fields : e[f] \in ValuesOf(f) \cup {None} BY <3>1, <3>2 DEF DaemonTypes
    <3>4. IsChange(PropertyChanged(m.property, Part(e, m.property))) BY <2>1, <3>3, PartOK
    <3>5. Heard(Emitted(<<PropertyChanged(m.property, Part(e, m.property))>>))
      BY <1>0, <3>4, EmittedHeard
    <3>6. inbox' = Append(Emitted(<<PropertyChanged(m.property, Part(e, m.property))>>),
                          Result(m, TRUE))
      BY <2>1, <3>2
    <3> QED BY <1>0, <1>1, <1>4, <2>0, <2>1, <3>1, <3>5, <3>6 DEF m
  <2>2. CASE /\ m.property = AutoConnect
             /\ autoconnect' = m.value
             /\ inbox' = Append(IF m.value = autoconnect THEN inbox
                                ELSE Emitted(<<PropertyChanged(AutoConnect, m.value)>>),
                                Result(m, TRUE))
             /\ UNCHANGED config
    <3>1. m.value \in BOOLEAN BY <2>0, <2>2, NoHeaderGroup DEF IsSet
    <3>2. IsChange(PropertyChanged(AutoConnect, m.value)) BY <3>1, ButtonOK
    <3>3. Heard(inbox) /\ Heard(Emitted(<<PropertyChanged(AutoConnect, m.value)>>))
      BY <1>0, <3>2, EmittedHeard DEF Heard
    <3>4. DaemonTypes' BY <1>0, <1>1, <2>2 DEF DaemonTypes
    <3> QED BY <1>0, <1>1, <1>4, <2>0, <2>2, <3>1, <3>3, <3>4 DEF m
  <2>3. CASE /\ m.property \in Groups
             /\ inbox' = Append(inbox, Result(m, FALSE))
             /\ UNCHANGED <<config, autoconnect>>
    <3>1. Heard(inbox) /\ FALSE \in BOOLEAN BY DEF Heard
    <3>2. DaemonTypes' BY <1>0, <1>1, <2>3 DEF DaemonTypes
    <3> QED BY <1>0, <1>1, <1>4, <2>0, <2>3, <3>1, <3>2 DEF m
  <2> QED BY <1>4, <2>1, <2>2, <2>3 DEF Set
<1>5. CASE /\ m.type = "Remove"
           /\ favorite' = FALSE
           /\ inbox' = IF favorite THEN Emitted(<<PropertyChanged(Favorite, FALSE)>>)
                       ELSE inbox
           /\ UNCHANGED <<config, autoconnect>>
  <2>1. m = RemoveCall BY <1>2, <1>5
  <2>2. IsChange(PropertyChanged(Favorite, FALSE)) BY ButtonOK
  <2>3. Heard(inbox') BY <1>0, <1>5, <2>2, EmittedHeard DEF Heard
  <2>4. DaemonTypes' BY <1>0, <1>1, <1>5 DEF DaemonTypes
  <2> QED BY <1>0, <1>1, <1>5, <2>1, <2>3, <2>4 DEF m
<1> QED BY <1>3, <1>4, <1>5

(* Queues grow by messages of the types, and shrink or are cancelled.       *)
LEMMA AppendedMessage ==
    ASSUME NEW q, IsSeq(q), \A i \in 1 .. Len(q) : IsMessage(q[i]), NEW m, IsMessage(m)
    PROVE  IsSeq(Append(q, m)) /\ \A i \in 1 .. Len(Append(q, m)) : IsMessage(Append(q, m)[i])
<1>1. /\ IsSeq(Append(q, m)) /\ Len(q) \in Nat /\ Len(Append(q, m)) = Len(q) + 1
      /\ \A i \in 1 .. Len(q) : Append(q, m)[i] = q[i]
      /\ Append(q, m)[Len(q) + 1] = m
  BY SeqAppend
<1>2. \A i \in 1 .. Len(q) + 1 : i \in 1 .. Len(q) \/ i = Len(q) + 1 BY <1>1
<1> QED BY <1>1, <1>2

LEMMA TailMessages ==
    ASSUME MessageTypes, inbox # <<>>
    PROVE  /\ IsSeq(Tail(inbox)) /\ \A i \in 1 .. Len(Tail(inbox)) : IsMessage(Tail(inbox)[i])
           /\ IsMessage(Head(inbox))
<1>1. /\ IsSeq(Tail(inbox)) /\ Len(inbox) \in Nat /\ Len(inbox) >= 1
      /\ Head(inbox) = inbox[1] /\ Len(Tail(inbox)) = Len(inbox) - 1
      /\ \A i \in 1 .. Len(inbox) - 1 : Tail(inbox)[i] = inbox[i + 1]
  BY SeqTail DEF MessageTypes
<1>2. \A i \in 1 .. Len(inbox) - 1 : i + 1 \in 1 .. Len(inbox) BY <1>1
<1> QED BY <1>1, <1>2 DEF MessageTypes

LEMMA CancelledMessages ==
    ASSUME NEW q, IsSeq(q), \A i \in 1 .. Len(q) : IsMessage(q[i])
    PROVE  /\ IsSeq(Cancelled(q)) /\ Len(Cancelled(q)) = Len(q)
           /\ \A i \in 1 .. Len(q) : /\ IsMessage(Cancelled(q)[i])
                                     /\ IsResult(Cancelled(q)[i]) => ~Cancelled(q)[i].valid
                                     /\ Cancelled(q)[i].type = q[i].type
<1>1. /\ IsSeq(Cancelled(q)) /\ Len(Cancelled(q)) = Len(q)
      /\ \A i \in 1 .. Len(q) :
           Cancelled(q)[i] = IF q[i].type \in {"SetProperty", "result"}
                             THEN [q[i] EXCEPT !.valid = FALSE] ELSE q[i]
  BY CancelledSeq
<1>2. ASSUME NEW i \in 1 .. Len(q)
      PROVE  /\ IsMessage(Cancelled(q)[i])
             /\ IsResult(Cancelled(q)[i]) => ~Cancelled(q)[i].valid
             /\ Cancelled(q)[i].type = q[i].type
  <2>1. CASE IsResult(q[i])
    <3>1. Cancelled(q)[i] = [q[i] EXCEPT !.valid = FALSE] BY <1>1, <2>1 DEF IsResult
    <3>2. PICK n : n = [q[i] EXCEPT !.valid = FALSE] OBVIOUS
    <3>3. IsResult(n) /\ ~n.valid BY <2>1, <3>2, CancelledResult
    <3> QED BY <2>1, <3>1, <3>2, <3>3 DEF IsMessage, IsResult
  <2>2. CASE ~IsResult(q[i])
    <3>1. IsMessage(q[i]) OBVIOUS
    <3>2. q[i].type \in {"services", "PropertyChanged", "down"}
      BY <2>2, <3>1 DEF IsMessage, IsChange
    <3>3. Cancelled(q)[i] = q[i] BY <1>1, <3>2
    <3> QED BY <2>2, <3>1, <3>3
  <2> QED BY <2>1, <2>2
<1> QED BY <1>1, <1>2

LEMMA CancelledCalls ==
    ASSUME NEW q, IsSeq(q), \A i \in 1 .. Len(q) : IsCall(q[i])
    PROVE  /\ IsSeq(Cancelled(q)) /\ Len(Cancelled(q)) = Len(q)
           /\ \A i \in 1 .. Len(q) : /\ IsCall(Cancelled(q)[i])
                                     /\ IsSet(Cancelled(q)[i]) =>
                                          /\ ~Cancelled(q)[i].valid /\ IsSet(q[i])
                                          /\ Cancelled(q)[i].property = q[i].property
                                          /\ Cancelled(q)[i].value = q[i].value
                                     /\ IsSet(q[i]) => IsSet(Cancelled(q)[i])
<1>1. /\ IsSeq(Cancelled(q)) /\ Len(Cancelled(q)) = Len(q)
      /\ \A i \in 1 .. Len(q) :
           Cancelled(q)[i] = IF q[i].type \in {"SetProperty", "result"}
                             THEN [q[i] EXCEPT !.valid = FALSE] ELSE q[i]
  BY CancelledSeq
<1>2. ASSUME NEW i \in 1 .. Len(q)
      PROVE  /\ IsCall(Cancelled(q)[i])
             /\ IsSet(Cancelled(q)[i]) =>
                  /\ ~Cancelled(q)[i].valid /\ IsSet(q[i])
                  /\ Cancelled(q)[i].property = q[i].property
                  /\ Cancelled(q)[i].value = q[i].value
             /\ IsSet(q[i]) => IsSet(Cancelled(q)[i])
  <2>1. CASE IsSet(q[i])
    <3>1. Cancelled(q)[i] = [q[i] EXCEPT !.valid = FALSE] BY <1>1, <2>1 DEF IsSet
    <3>2. PICK n : n = [q[i] EXCEPT !.valid = FALSE] OBVIOUS
    <3>3. IsSet(n) /\ ~n.valid /\ n.property = q[i].property /\ n.value = q[i].value
      BY <2>1, <3>2, CancelledCall
    <3> QED BY <2>1, <3>1, <3>2, <3>3 DEF IsCall
  <2>2. CASE q[i] = RemoveCall
    <3>1. q[i].type = "Remove" BY <2>2 DEF RemoveCall
    <3>2. Cancelled(q)[i] = q[i] BY <1>1, <3>1
    <3>3. ~IsSet(q[i]) BY <3>1 DEF IsSet
    <3> QED BY <2>2, <3>2, <3>3 DEF IsCall
  <2> QED BY <2>1, <2>2 DEF IsCall
<1> QED BY <1>1, <1>2

LEMMA TailCalls ==
    ASSUME CallTypes, outbox # <<>>, outbox' = Tail(outbox)
    PROVE  CallTypes'
<1>1. /\ IsSeq(Tail(outbox)) /\ Len(outbox) \in Nat /\ Len(outbox) >= 1
      /\ Len(Tail(outbox)) = Len(outbox) - 1
      /\ \A i \in 1 .. Len(outbox) - 1 : Tail(outbox)[i] = outbox[i + 1]
  BY SeqTail DEF CallTypes
<1>2. \A i \in 1 .. Len(outbox) - 1 : i + 1 \in 1 .. Len(outbox) BY <1>1
<1>3. \A i \in 1 .. Len(Tail(outbox)) : IsCall(Tail(outbox)[i])
  BY <1>1, <1>2 DEF CallTypes
<1> QED BY <1>1, <1>3 DEF CallTypes

(* The first call is answered for, and stays.                               *)
LEMMA Outdated ==
    ASSUME CallTypes, outbox # <<>>, IsSet(Head(outbox)),
           outbox' = [outbox EXCEPT ![1].valid = FALSE]
    PROVE  /\ CallTypes' /\ Len(outbox') = Len(outbox)
           /\ IsSet(outbox'[1]) /\ ~outbox'[1].valid
           /\ outbox'[1].property = outbox[1].property
           /\ outbox'[1].value = outbox[1].value
           /\ \A i \in 2 .. Len(outbox) : outbox'[i] = outbox[i]
<1>1. /\ Len(outbox) \in Nat /\ Len(outbox) >= 1 /\ Head(outbox) = outbox[1]
      /\ DOMAIN outbox = 1 .. Len(outbox)
  BY SeqTail, SeqLen DEF CallTypes
<1>2. PICK n : n = [outbox[1] EXCEPT !.valid = FALSE] OBVIOUS
<1>3. IsSet(n) /\ ~n.valid /\ n.property = outbox[1].property /\ n.value = outbox[1].value
  BY <1>1, <1>2, CancelledCall
<1>4. outbox' = [outbox EXCEPT ![1] = n] BY <1>2
<1>5. outbox' = [i \in DOMAIN outbox |-> outbox'[i]] BY <1>4
<1>6. IsSeq(outbox') /\ Len(outbox') = Len(outbox) BY <1>5, SeqMapped DEF CallTypes
<1>7. outbox'[1] = n /\ \A i \in 2 .. Len(outbox) : outbox'[i] = outbox[i]
  BY <1>1, <1>4
<1>8. \A i \in 1 .. Len(outbox) : IsCall(outbox'[i])
  <2>1. \A i \in 1 .. Len(outbox) : i = 1 \/ i \in 2 .. Len(outbox) BY <1>1
  <2> QED BY <1>3, <1>7, <2>1 DEF CallTypes, IsCall
<1> QED BY <1>3, <1>6, <1>7, <1>8 DEF CallTypes

LEMMA FailsHeard ==
    ASSUME Shape, DaemonFails
    PROVE  /\ outbox # <<>> /\ IsSet(Head(outbox)) /\ modify' = modify
           /\ inbox' = Append(inbox, Result(Head(outbox), FALSE))
           /\ \/ outbox' = Tail(outbox)
              \/ /\ Head(outbox).valid
                 /\ outbox' = [outbox EXCEPT ![1].valid = FALSE]
<1>1. outbox # <<>> /\ Head(outbox).type = "SetProperty" BY DEF DaemonFails
<1>2. IsSet(Head(outbox)) BY <1>1, HeadOfCalls DEF Shape
<1> QED BY <1>1, <1>2 DEF DaemonFails

LEMMA DownHeard ==
    ASSUME DaemonDown
    PROVE  /\ outbox' = <<>> /\ modify' = modify /\ ~alive'
           /\ inbox' = Append(inbox, Note("down"))
           /\ Note("down").type = "down" /\ IsMessage(Note("down"))
  BY DEF DaemonDown, Note, IsMessage

LEMMA HeardType ==
    ASSUME MessageTypes, NEW M, Heard(M)
    PROVE  IsSeq(M) /\ \A i \in 1 .. Len(M) : IsMessage(M[i])
  BY AppendedMessage DEF Heard, MessageTypes, IsMessage

LEMMA QueuesNext ==
    ASSUME Shape, [Next]_vars
    PROVE  CallTypes' /\ MessageTypes' /\ modify' \subseteq Groups \cup {AutoConnect}
<1>0. CallTypes /\ MessageTypes /\ modify \subseteq Groups \cup {AutoConnect}
  BY DEF Shape, ObjectTypes
<1>1. CASE inbox' = inbox /\ (HeaderCalls \/ OkCalls)
  BY <1>0, <1>1, CallsKeep DEF MessageTypes
<1>2. CASE Takes
  <2>1. MessageTypes' BY <1>0, <1>2, TailMessages DEF Takes, MessageTypes
  <2> QED BY <1>0, <1>2, <2>1 DEF Takes, CallsStay, CallTypes
<1>3. CASE set_property_cb
  <2>1. inbox # <<>> /\ inbox' = Tail(inbox) /\ outbox' = outbox /\ modify' \subseteq modify
    BY <1>3 DEF set_property_cb, Receive
  <2>2. MessageTypes' BY <1>0, <2>1, TailMessages DEF MessageTypes
  <2> QED BY <1>0, <2>1, <2>2 DEF CallTypes
<1>4. CASE Freed
  <2>1. CallTypes'
    <3>1. IsSeq(outbox) /\ \A i \in 1 .. Len(outbox) : IsCall(outbox[i])
      BY <1>0 DEF CallTypes
    <3>2. /\ IsSeq(Cancelled(outbox)) /\ Len(Cancelled(outbox)) = Len(outbox)
          /\ \A i \in 1 .. Len(outbox) : IsCall(Cancelled(outbox)[i])
      BY <3>1, CancelledCalls
    <3> QED BY <1>4, <3>2 DEF Freed, CallTypes
  <2>2. MessageTypes'
    <3>1. ASSUME NEW q, IsSeq(q), \A i \in 1 .. Len(q) : IsMessage(q[i]),
                 inbox' = Cancelled(q)
          PROVE  MessageTypes'
      BY <3>1, CancelledMessages DEF MessageTypes
    <3> QED BY <1>0, <1>4, <3>1, TailMessages DEF Freed, MessageTypes
  <2> QED BY <1>4, <2>1, <2>2 DEF Freed
<1>5. CASE Tells
  <2>1. MessageTypes' BY <1>0, <1>5, AppendedMessage DEF Tells, MessageTypes
  <2> QED BY <1>0, <1>5, <2>1 DEF Tells, CallsStay, CallTypes
<1>6. CASE DaemonServes
  <2>1. outbox # <<>> /\ outbox' = Tail(outbox) /\ modify' = modify BY <1>6, ServesHeard
  <2>2. CallTypes' BY <1>0, <2>1, TailCalls
  <2>3. ASSUME NEW M, NEW ok \in BOOLEAN, Heard(M), IsSet(Head(outbox)),
               inbox' = Append(M, Result(Head(outbox), ok))
        PROVE  MessageTypes'
    <3>1. IsMessage(Result(Head(outbox), ok)) BY <2>3, ResultOK
    <3>2. IsSeq(M) /\ \A i \in 1 .. Len(M) : IsMessage(M[i]) BY <1>0, <2>3, HeardType
    <3> QED BY <2>3, <3>1, <3>2, AppendedMessage DEF MessageTypes
  <2>4. ASSUME Heard(inbox') PROVE MessageTypes'
    BY <1>0, <2>4, HeardType DEF MessageTypes
  <2>5. MessageTypes' BY <1>6, <2>3, <2>4, ServesHeard
  <2> QED BY <1>0, <2>1, <2>2, <2>5
<1>7. CASE DaemonFails
  <2>1. /\ outbox # <<>> /\ IsSet(Head(outbox)) /\ modify' = modify
        /\ inbox' = Append(inbox, Result(Head(outbox), FALSE))
        /\ outbox' = Tail(outbox) \/ outbox' = [outbox EXCEPT ![1].valid = FALSE]
    BY <1>7, FailsHeard
  <2>2. CallTypes' BY <1>0, <2>1, TailCalls, Outdated
  <2>3. IsMessage(Result(Head(outbox), FALSE)) BY <2>1, ResultOK
  <2>4. MessageTypes' BY <1>0, <2>1, <2>3, AppendedMessage DEF MessageTypes
  <2> QED BY <1>0, <2>1, <2>2, <2>4
<1>8. CASE DaemonDown
  <2>1. /\ outbox' = <<>> /\ modify' = modify
        /\ inbox' = Append(inbox, Note("down")) /\ IsMessage(Note("down"))
    BY <1>8, DownHeard
  <2>2. MessageTypes' BY <1>0, <2>1, AppendedMessage DEF MessageTypes
  <2>3. CallTypes'
    <3>1. IsSeq(<<>>) /\ Len(<<>>) = 0 BY SeqEmpty
    <3>2. \A i \in 1 .. 0 : FALSE OBVIOUS
    <3> QED BY <2>1, <3>1, <3>2 DEF CallTypes
  <2> QED BY <1>0, <2>1, <2>2, <2>3
<1> QED BY <1>1, <1>2, <1>3, <1>4, <1>5, <1>6, <1>7, <1>8, TrafficSteps DEF Traffic

-----------------------------------------------------------------------------
(* Replies *)

Asks(m, p) == IsSet(m) /\ m.valid /\ m.property = p
Answers(m, p) == IsResult(m) /\ m.valid /\ m.property = p

(* A valid call or answer is about a property with a call_modify, and there *)
(* is one at most of each.                                                  *)
Awaited ==
    \A p : \/ p \in modify
           \/ /\ \A i \in 1 .. Len(outbox) : ~Asks(outbox[i], p)
              /\ \A i \in 1 .. Len(inbox) : ~Answers(inbox[i], p)

Once ==
    \A p : /\ \A i, j \in 1 .. Len(outbox) :
                Asks(outbox[i], p) /\ Asks(outbox[j], p) => i = j
           /\ \A i, j \in 1 .. Len(inbox) :
                Answers(inbox[i], p) /\ Answers(inbox[j], p) => i = j
           /\ \A i \in 1 .. Len(outbox), j \in 1 .. Len(inbox) :
                ~(Asks(outbox[i], p) /\ Answers(inbox[j], p))

NoDown(q) == \A i \in 1 .. Len(q) : q[i].type # "down"

(* While the daemon stays, whoever waits is answered.                       *)
Waiting(p) ==
    \/ \E i \in 1 .. Len(outbox) : Asks(outbox[i], p)
    \/ \E i \in 1 .. Len(inbox) : Answers(inbox[i], p)

Answered == alive /\ NoDown(inbox) => \A p \in modify : Waiting(p)

Replies == Awaited /\ Once /\ Answered

(* A message that is no answer changes nothing about these.                 *)
LEMMA Kept ==
    ASSUME Replies, outbox' = outbox, modify' = modify, alive' = alive,
           Len(inbox) \in Nat, Len(inbox') \in Nat,
           \/ /\ Len(inbox') = Len(inbox) + 1
              /\ \A i \in 1 .. Len(inbox) : inbox'[i] = inbox[i]
              /\ ~IsResult(inbox'[Len(inbox) + 1])
           \/ /\ Len(inbox') = Len(inbox) - 1 /\ Len(inbox) >= 1
              /\ \A i \in 1 .. Len(inbox) - 1 : inbox'[i] = inbox[i + 1]
              /\ ~IsResult(inbox[1]) /\ inbox[1].type # "down"
           \/ inbox' = inbox
    PROVE  Replies'
<1>1. CASE /\ Len(inbox') = Len(inbox) + 1
           /\ \A i \in 1 .. Len(inbox) : inbox'[i] = inbox[i]
           /\ ~IsResult(inbox'[Len(inbox) + 1])
  <2>1. \A i \in 1 .. Len(inbox') : i \in 1 .. Len(inbox) \/ i = Len(inbox) + 1 BY <1>1
  <2>2. \A i \in 1 .. Len(inbox) : i \in 1 .. Len(inbox') BY <1>1
  <2>3. \A p : \A i \in 1 .. Len(inbox') :
           Answers(inbox'[i], p) => i \in 1 .. Len(inbox) /\ Answers(inbox[i], p)
    BY <1>1, <2>1 DEF Answers
  <2>4. Awaited' BY <2>3 DEF Replies, Awaited
  <2>5. Once' BY <2>3 DEF Replies, Once
  <2>6. NoDown(inbox') => NoDown(inbox) BY <1>1, <2>2 DEF NoDown
  <2>7. \A p : Waiting(p) => Waiting(p)' BY <1>1, <2>2 DEF Waiting
  <2>8. Answered' BY <2>6, <2>7 DEF Replies, Answered
  <2> QED BY <2>4, <2>5, <2>8 DEF Replies
<1>2. CASE /\ Len(inbox') = Len(inbox) - 1 /\ Len(inbox) >= 1
           /\ \A i \in 1 .. Len(inbox) - 1 : inbox'[i] = inbox[i + 1]
           /\ ~IsResult(inbox[1]) /\ inbox[1].type # "down"
  <2>1. \A i \in 1 .. Len(inbox') : i + 1 \in 1 .. Len(inbox) /\ inbox'[i] = inbox[i + 1]
    BY <1>2
  <2>2. \A i \in 1 .. Len(inbox) :
           i = 1 \/ (i - 1 \in 1 .. Len(inbox') /\ inbox'[i - 1] = inbox[i])
    <3>1. \A i \in 1 .. Len(inbox) : i = 1 \/ (i - 1 \in 1 .. Len(inbox) - 1 /\ (i - 1) + 1 = i)
      BY <1>2
    <3> QED BY <1>2, <3>1
  <2>3. \A p : \A i \in 1 .. Len(inbox') :
           Answers(inbox'[i], p) => i + 1 \in 1 .. Len(inbox) /\ Answers(inbox[i + 1], p)
    BY <2>1 DEF Answers
  <2>4. Awaited' BY <2>3 DEF Replies, Awaited
  <2>5. Once'
    <3>1. \A p : \A i, j \in 1 .. Len(inbox') :
             Answers(inbox'[i], p) /\ Answers(inbox'[j], p) => i = j
      <4>1. ASSUME NEW p, NEW i \in 1 .. Len(inbox'), NEW j \in 1 .. Len(inbox'),
                   Answers(inbox'[i], p), Answers(inbox'[j], p)
            PROVE  i = j
        <5>1. i + 1 = j + 1 BY <2>3, <4>1 DEF Replies, Once
        <5> QED BY <5>1
      <4> QED BY <4>1
    <3> QED BY <2>3, <3>1 DEF Replies, Once
  <2>6. NoDown(inbox') => NoDown(inbox) BY <1>2, <2>2 DEF NoDown
  <2>7. \A p : Waiting(p) => Waiting(p)' BY <1>2, <2>2 DEF Waiting, Answers
  <2>8. Answered' BY <2>6, <2>7 DEF Replies, Answered
  <2> QED BY <2>4, <2>5, <2>8 DEF Replies
<1>3. CASE inbox' = inbox
  BY <1>3 DEF Replies, Awaited, Once, Answered, Waiting
<1> QED BY <1>1, <1>2, <1>3

LEMMA RemoveNotSet == ~IsSet(RemoveCall)
  BY DEF IsSet, RemoveCall

LEMMA SentIs ==
    ASSUME CallTypes, alive, NEW ms, IsSeq(ms), outbox' = Sent(outbox, ms)
    PROVE  /\ Len(outbox) \in Nat /\ Len(ms) \in Nat
           /\ Len(outbox') = Len(outbox) + Len(ms)
           /\ \A i \in 1 .. Len(outbox) : i \in 1 .. Len(outbox') /\ outbox'[i] = outbox[i]
           /\ \A i \in Len(outbox) + 1 .. Len(outbox') :
                i - Len(outbox) \in 1 .. Len(ms) /\ outbox'[i] = ms[i - Len(outbox)]
           /\ \A i \in 1 .. Len(outbox') :
                i \in 1 .. Len(outbox) \/ i \in Len(outbox) + 1 .. Len(outbox')
<1>1. outbox' = outbox \o ms BY DEF Sent
<1>2. /\ Len(outbox) \in Nat /\ Len(ms) \in Nat
      /\ Len(outbox \o ms) = Len(outbox) + Len(ms)
      /\ \A i \in 1 .. Len(outbox) : (outbox \o ms)[i] = outbox[i]
      /\ \A i \in Len(outbox) + 1 .. Len(outbox \o ms) :
           i - Len(outbox) \in 1 .. Len(ms) /\ (outbox \o ms)[i] = ms[i - Len(outbox)]
  BY SeqConcat DEF CallTypes
<1>3. PICK q : q = outbox \o ms OBVIOUS
<1>4. \A i \in 1 .. Len(q) : i \in 1 .. Len(outbox) \/ i \in Len(outbox) + 1 .. Len(q)
  BY <1>2, <1>3
<1>5. \A i \in 1 .. Len(outbox) : i \in 1 .. Len(q) BY <1>2, <1>3
<1> QED BY <1>1, <1>2, <1>3, <1>4, <1>5

(* The calls a program makes: at most one asks, and only removals else.     *)
LEMMA SettingSent ==
    ASSUME CallTypes, alive, NEW p, NEW v, NEW n \in 0 .. 2, Setting(p, v, n)
    PROVE  LET L == Len(outbox)
           IN  /\ L \in Nat /\ Len(outbox') = L + 1 + n
               /\ \A i \in 1 .. L : i \in 1 .. Len(outbox') /\ outbox'[i] = outbox[i]
               /\ L + 1 \in 1 .. Len(outbox') /\ outbox'[L + 1] = SetProperty(p, v)
               /\ \A i \in L + 2 .. Len(outbox') : outbox'[i] = RemoveCall
               /\ \A i \in 1 .. Len(outbox') :
                    i \in 1 .. L \/ i = L + 1 \/ i \in L + 2 .. Len(outbox')
<1> DEFINE m == SetProperty(p, v)
           ms == <<m>> \o Removes(n)
           L == Len(outbox)
<1>1. IsSeq(ms) /\ Len(ms) = 1 + n /\ ms[1] = m /\ \A i \in 2 .. Len(ms) : ms[i] = RemoveCall
  BY SetConcat
<1>2. outbox' = Sent(outbox, ms) BY DEF Setting
<1> HIDE DEF ms, m
<1>3. /\ L \in Nat /\ Len(ms) \in Nat
      /\ Len(outbox') = L + Len(ms)
      /\ \A i \in 1 .. L : i \in 1 .. Len(outbox') /\ outbox'[i] = outbox[i]
      /\ \A i \in L + 1 .. Len(outbox') :
           i - L \in 1 .. Len(ms) /\ outbox'[i] = ms[i - L]
      /\ \A i \in 1 .. Len(outbox') : i \in 1 .. L \/ i \in L + 1 .. Len(outbox')
  BY <1>1, <1>2, SentIs
<1> HIDE DEF L
<1>4. Len(outbox') = L + 1 + n /\ L + 1 \in L + 1 .. Len(outbox')
      /\ L + 1 \in 1 .. Len(outbox') /\ (L + 1) - L = 1
  BY <1>1, <1>3
<1>5. outbox'[L + 1] = m BY <1>1, <1>3, <1>4
<1>6. \A i \in L + 2 .. Len(outbox') : i \in L + 1 .. Len(outbox') /\ i - L \in 2 .. Len(ms)
  BY <1>1, <1>3, <1>4
<1>7. \A i \in L + 2 .. Len(outbox') : outbox'[i] = RemoveCall BY <1>1, <1>3, <1>6
<1>8. \A i \in 1 .. Len(outbox') : i \in 1 .. L \/ i = L + 1 \/ i \in L + 2 .. Len(outbox')
  BY <1>3, <1>4
<1> QED BY <1>3, <1>4, <1>5, <1>7, <1>8 DEF L, m

LEMMA RepliesSetting ==
    ASSUME Shape, Replies, NEW p, NEW v, NEW n \in 0 .. 2, IsSet(SetProperty(p, v)),
           Setting(p, v, n), inbox' = inbox, alive' = alive
    PROVE  Replies'
<1>1. p \notin modify /\ modify' = modify \cup {p} BY DEF Setting
<1>2. CASE ~alive
  <2>1. outbox' = outbox BY <1>2 DEF Setting, Sent
  <2>2. Awaited' BY <1>1, <2>1 DEF Replies, Awaited
  <2>3. Once' BY <2>1 DEF Replies, Once
  <2>4. Answered' BY <1>2 DEF Answered
  <2> QED BY <2>2, <2>3, <2>4 DEF Replies
<1>3. CASE alive
  <2> DEFINE L == Len(outbox)
             m == SetProperty(p, v)
  <2>1. /\ L \in Nat
        /\ \A i \in 1 .. L : i \in 1 .. Len(outbox') /\ outbox'[i] = outbox[i]
        /\ L + 1 \in 1 .. Len(outbox') /\ outbox'[L + 1] = m
        /\ \A i \in L + 2 .. Len(outbox') : outbox'[i] = RemoveCall
        /\ \A i \in 1 .. Len(outbox') :
             i \in 1 .. L \/ i = L + 1 \/ i \in L + 2 .. Len(outbox')
    BY <1>3, SettingSent DEF Shape
  <2>2. IsSet(m) /\ m.property = p /\ m.valid BY DEF SetProperty
  <2> HIDE DEF L, m
  <2>3. Asks(m, p) /\ \A x : Asks(m, x) => x = p BY <2>2 DEF Asks
  <2>4. \A x : \A i \in 1 .. Len(outbox') : Asks(outbox'[i], x) =>
           \/ i \in 1 .. L /\ Asks(outbox[i], x)
           \/ i = L + 1 /\ x = p
    BY <2>1, <2>3, RemoveNotSet DEF Asks
  <2>5. /\ \A i \in 1 .. L : ~Asks(outbox[i], p)
        /\ \A i \in 1 .. Len(inbox) : ~Answers(inbox[i], p)
    BY <1>1 DEF Replies, Awaited, L
  <2>6. Awaited' BY <1>1, <2>4 DEF Replies, Awaited, L
  <2>7. Once'
    <3>1. \A x : \A i, j \in 1 .. Len(outbox') :
             Asks(outbox'[i], x) /\ Asks(outbox'[j], x) => i = j
      BY <2>4, <2>5 DEF Replies, Once, L
    <3>2. \A x : \A i \in 1 .. Len(outbox'), j \in 1 .. Len(inbox) :
             ~(Asks(outbox'[i], x) /\ Answers(inbox[j], x))
      BY <2>4, <2>5 DEF Replies, Once, L
    <3> QED BY <3>1, <3>2 DEF Replies, Once
  <2>8. \A x : Waiting(x) => Waiting(x)' BY <2>1 DEF Waiting, L
  <2>9. Waiting(p)' BY <2>1, <2>3 DEF Waiting
  <2>10. Answered' BY <1>1, <2>8, <2>9 DEF Replies, Answered
  <2> QED BY <2>6, <2>7, <2>10 DEF Replies
<1> QED BY <1>2, <1>3

LEMMA RepliesRemoving ==
    ASSUME Shape, Replies, Removing, inbox' = inbox, alive' = alive
    PROVE  Replies'
<1>1. PICK n \in 0 .. 2 : outbox' = Sent(outbox, Removes(n)) /\ modify' = modify
  BY DEF Removing
<1>2. CASE ~alive
  <2>1. outbox' = outbox BY <1>1, <1>2 DEF Sent
  <2> QED BY <1>1, <2>1 DEF Replies, Awaited, Once, Answered, Waiting
<1>3. CASE alive
  <2> DEFINE L == Len(outbox)
             ms == Removes(n)
  <2>0. n \in Nat OBVIOUS
  <2>1. IsSeq(ms) /\ Len(ms) = n /\ \A i \in 1 .. n : ms[i] = RemoveCall
    BY <2>0, RemovesSeq DEF Removes
  <2> HIDE DEF ms
  <2>2. /\ L \in Nat
        /\ \A i \in 1 .. L : i \in 1 .. Len(outbox') /\ outbox'[i] = outbox[i]
        /\ \A i \in L + 1 .. Len(outbox') :
             i - L \in 1 .. Len(ms) /\ outbox'[i] = ms[i - L]
        /\ \A i \in 1 .. Len(outbox') : i \in 1 .. L \/ i \in L + 1 .. Len(outbox')
    BY <1>1, <1>3, <2>1, SentIs DEF Shape, ms
  <2> HIDE DEF L
  <2>3. \A i \in L + 1 .. Len(outbox') : outbox'[i] = RemoveCall BY <2>1, <2>2
  <2>4. \A x : \A i \in 1 .. Len(outbox') : Asks(outbox'[i], x) =>
           i \in 1 .. L /\ Asks(outbox[i], x)
    BY <2>2, <2>3, RemoveNotSet DEF Asks
  <2>5. Awaited' BY <1>1, <2>4 DEF Replies, Awaited, L
  <2>6. Once' BY <2>4 DEF Replies, Once, L
  <2>7. \A x : Waiting(x) => Waiting(x)' BY <2>2 DEF Waiting, L
  <2>8. Answered' BY <1>1, <2>7 DEF Replies, Answered
  <2> QED BY <2>5, <2>6, <2>8 DEF Replies
<1> QED BY <1>2, <1>3

LEMMA RepliesCalls ==
    ASSUME Shape, Replies, HeaderCalls \/ OkCalls, inbox' = inbox, alive' = alive
    PROVE  Replies'
<1>1. CASE CallsStay
  BY <1>1 DEF CallsStay, Replies, Awaited, Once, Answered, Waiting
<1>2. CASE Removing BY <1>2, RepliesRemoving
<1>3. ASSUME NEW v \in BOOLEAN, NEW n \in 0 .. 2, Setting(AutoConnect, v, n)
      PROVE  Replies'
  <2>1. IsSet(SetProperty(AutoConnect, v)) BY SetIsCall
  <2> QED BY <1>3, <2>1, RepliesSetting
<1>4. ASSUME NEW g \in Groups, Setting(g, Configuration(g), 0)
      PROVE  Replies'
  <2>1. IsSet(SetProperty(g, Configuration(g))) /\ 0 \in 0 .. 2
    BY ConfigurationOK DEF Shape
  <2> QED BY <1>4, <2>1, RepliesSetting
<1> QED BY <1>1, <1>2, <1>3, <1>4 DEF HeaderCalls, OkCalls

LEMMA RepliesTaken ==
    ASSUME Shape, Replies, set_property_cb
    PROVE  Replies'
<1> DEFINE m == Head(inbox)
<1>1. /\ inbox # <<>> /\ m.type = "result" /\ inbox' = Tail(inbox) /\ outbox' = outbox
      /\ modify' = IF m.valid THEN modify \ {m.property} ELSE modify
      /\ alive' = alive
  BY DEF set_property_cb, Receive, daemonVars
<1>2. /\ Len(inbox) \in Nat /\ Len(inbox) >= 1
      /\ m = inbox[1] /\ Len(inbox') = Len(inbox) - 1
      /\ \A i \in 1 .. Len(inbox) - 1 : inbox'[i] = inbox[i + 1]
  BY <1>1, SeqTail DEF Shape, MessageTypes
<1>3. 1 \in 1 .. Len(inbox) BY <1>2
<1>4. IsResult(m) BY <1>1, <1>2, <1>3 DEF Shape, MessageTypes, IsMessage, IsChange
<1> HIDE DEF m
<1>5. \A i \in 1 .. Len(inbox') :
         i + 1 \in 1 .. Len(inbox) /\ i + 1 # 1 /\ inbox'[i] = inbox[i + 1]
  BY <1>2
<1>6. \A i \in 1 .. Len(inbox) :
         i = 1 \/ (i - 1 \in 1 .. Len(inbox') /\ inbox'[i - 1] = inbox[i])
  <2>1. \A i \in 1 .. Len(inbox) : i = 1 \/ (i - 1 \in 1 .. Len(inbox) - 1 /\ (i - 1) + 1 = i)
    BY <1>2
  <2> QED BY <1>2, <2>1
<1>7. \A p : \A i \in 1 .. Len(inbox') :
         Answers(inbox'[i], p) => Answers(inbox[i + 1], p)
  BY <1>5 DEF Answers
<1>8. Awaited'
  <2>1. ASSUME NEW p, p \notin modify'
        PROVE  /\ \A i \in 1 .. Len(outbox) : ~Asks(outbox[i], p)
               /\ \A i \in 1 .. Len(inbox') : ~Answers(inbox'[i], p)
    <3>1. CASE p \notin modify
      BY <1>5, <1>7, <3>1 DEF Replies, Awaited
    <3>2. CASE m.valid /\ p = m.property
      <4>1. Answers(inbox[1], p) BY <1>2, <1>4, <3>2 DEF Answers
      <4>2. \A i \in 1 .. Len(outbox) : ~Asks(outbox[i], p)
        BY <1>3, <4>1 DEF Replies, Once
      <4>3. \A i \in 1 .. Len(inbox') : ~Answers(inbox'[i], p)
        BY <1>3, <1>5, <1>7, <4>1 DEF Replies, Once
      <4> QED BY <4>2, <4>3
    <3> QED BY <1>1, <2>1, <3>1, <3>2
  <2> QED BY <1>1, <2>1 DEF Awaited
<1>9. Once'
  <2>1. \A p : \A i, j \in 1 .. Len(inbox') :
           Answers(inbox'[i], p) /\ Answers(inbox'[j], p) => i = j
    <3>1. ASSUME NEW p, NEW i \in 1 .. Len(inbox'), NEW j \in 1 .. Len(inbox'),
                 Answers(inbox'[i], p), Answers(inbox'[j], p)
          PROVE  i = j
      <4>1. i + 1 = j + 1 BY <1>5, <1>7, <3>1 DEF Replies, Once
      <4> QED BY <4>1
    <3> QED BY <3>1
  <2> QED BY <1>1, <1>5, <1>7, <2>1 DEF Replies, Once
<1>10. Answered'
  <2> SUFFICES ASSUME alive, NoDown(inbox'), NEW p \in modify' PROVE Waiting(p)'
    BY <1>1 DEF Answered
  <2>1. NoDown(inbox) BY <1>1, <1>2, <1>6 DEF NoDown
  <2>2. p \in modify /\ ~(m.valid /\ p = m.property) BY <1>1
  <2>3. Waiting(p) BY <2>1, <2>2 DEF Replies, Answered
  <2>4. ~Answers(inbox[1], p) BY <1>2, <2>2 DEF Answers
  <2> QED BY <1>1, <1>6, <2>3, <2>4 DEF Waiting
<1> QED BY <1>8, <1>9, <1>10 DEF Replies

LEMMA RepliesFreed ==
    ASSUME Shape, Freed
    PROVE  Replies'
<1>1. \A i \in 1 .. Len(outbox') : ~(IsSet(outbox'[i]) /\ outbox'[i].valid)
  <2>1. /\ Len(Cancelled(outbox)) = Len(outbox)
        /\ \A i \in 1 .. Len(outbox) :
             IsSet(Cancelled(outbox)[i]) => ~Cancelled(outbox)[i].valid
    BY CancelledCalls DEF Shape, CallTypes
  <2> QED BY <2>1 DEF Freed
<1>2. \A i \in 1 .. Len(inbox') : ~(IsResult(inbox'[i]) /\ inbox'[i].valid)
  <2>1. ASSUME NEW q, IsSeq(q), \A i \in 1 .. Len(q) : IsMessage(q[i]), inbox' = Cancelled(q)
        PROVE  \A i \in 1 .. Len(inbox') : ~(IsResult(inbox'[i]) /\ inbox'[i].valid)
    BY <2>1, CancelledMessages
  <2>2. CASE inbox' = Cancelled(inbox) BY <2>1, <2>2 DEF Shape, MessageTypes
  <2>3. CASE inbox # <<>> /\ inbox' = Cancelled(Tail(inbox))
    BY <2>1, <2>3, TailMessages DEF Shape
  <2> QED BY <2>2, <2>3 DEF Freed
<1>3. modify' = {} BY DEF Freed
<1>4. \A p : /\ \A i \in 1 .. Len(outbox') : ~Asks(outbox'[i], p)
             /\ \A i \in 1 .. Len(inbox') : ~Answers(inbox'[i], p)
  BY <1>1, <1>2 DEF Asks, Answers
<1>5. Awaited' /\ Once' BY <1>4 DEF Awaited, Once
<1>6. Answered' BY <1>3 DEF Answered
<1> QED BY <1>5, <1>6 DEF Replies

LEMMA RepliesMoved ==
    ASSUME Replies, modify' = modify, alive' = alive,
           Len(outbox) \in Nat, Len(outbox) >= 1, Len(inbox) \in Nat,
           NEW d \in {0, 1},
           \A i \in 1 .. Len(outbox') : \A p : Asks(outbox'[i], p) =>
             i + d \in 2 .. Len(outbox) /\ Asks(outbox[i + d], p),
           \A i \in 2 .. Len(outbox) :
             i - d \in 1 .. Len(outbox') /\ outbox'[i - d] = outbox[i],
           Len(inbox') \in {Len(inbox) + 1, Len(inbox) + 2},
           \A i \in 1 .. Len(inbox) : inbox'[i] = inbox[i],
           \A i \in Len(inbox) + 1 .. Len(inbox') - 1 : ~IsResult(inbox'[i]),
           \A p : Answers(inbox'[Len(inbox')], p) <=> Asks(outbox[1], p)
    PROVE  Replies'
<1> DEFINE K == Len(inbox)
           N == Len(inbox')
<1>1. K \in Nat /\ N \in Nat /\ N > K /\ N \in 1 .. N /\ N \notin 1 .. K
  OBVIOUS
<1>2. \A i \in 1 .. N : i \in 1 .. K \/ i \in K + 1 .. N - 1 \/ i = N OBVIOUS
<1>3. \A i \in 1 .. K : i \in 1 .. N OBVIOUS
<1>4. \A p : \A i \in 1 .. N : Answers(inbox'[i], p) =>
         \/ i \in 1 .. K /\ Answers(inbox[i], p)
         \/ i = N /\ Asks(outbox[1], p)
  BY <1>2 DEF Answers
<1>5. 1 \in 1 .. Len(outbox) /\ \A i \in 2 .. Len(outbox) : i \in 1 .. Len(outbox) /\ i # 1
  OBVIOUS
<1>6. \A i \in 1 .. Len(outbox) : i = 1 \/ i \in 2 .. Len(outbox) OBVIOUS
<1> HIDE DEF K, N
<1>7. Awaited' BY <1>4, <1>5 DEF Replies, Awaited, K, N
<1>8. Once'
  <2>1. ASSUME NEW p, NEW i \in 1 .. Len(outbox'), NEW j \in 1 .. Len(outbox'),
               Asks(outbox'[i], p), Asks(outbox'[j], p)
        PROVE  i = j
    <3>1. i + d = j + d BY <1>5, <2>1 DEF Replies, Once
    <3> QED BY <3>1
  <2>2. ASSUME NEW p, NEW i \in 1 .. N, NEW j \in 1 .. N,
               Answers(inbox'[i], p), Answers(inbox'[j], p)
        PROVE  i = j
    <3>1. CASE i \in 1 .. K /\ Answers(inbox[i], p) /\ j \in 1 .. K /\ Answers(inbox[j], p)
      BY <3>1 DEF Replies, Once, K
    <3>2. ASSUME NEW k \in 1 .. K, Answers(inbox[k], p), Asks(outbox[1], p)
          PROVE  FALSE
      BY <1>5, <3>2 DEF Replies, Once, K
    <3> QED BY <1>4, <2>2, <3>1, <3>2
  <2>3. ASSUME NEW p, NEW i \in 1 .. Len(outbox'), NEW j \in 1 .. N,
               Asks(outbox'[i], p), Answers(inbox'[j], p)
        PROVE  FALSE
    <3>1. i + d \in 1 .. Len(outbox) /\ i + d # 1 /\ Asks(outbox[i + d], p)
      BY <1>5, <2>3
    <3>2. CASE j \in 1 .. K /\ Answers(inbox[j], p)
      BY <3>1, <3>2 DEF Replies, Once, K
    <3>3. CASE Asks(outbox[1], p)
      BY <1>5, <3>1, <3>3 DEF Replies, Once
    <3> QED BY <1>4, <2>3, <3>2, <3>3
  <2> QED BY <2>1, <2>2, <2>3 DEF Once, N
<1>9. \A p : Waiting(p) => Waiting(p)'
  <2>1. ASSUME NEW p, NEW i \in 1 .. Len(outbox), Asks(outbox[i], p)
        PROVE  Waiting(p)'
    <3>1. CASE i = 1 BY <1>1, <2>1, <3>1 DEF Waiting, N
    <3>2. CASE i \in 2 .. Len(outbox) BY <2>1, <3>2 DEF Waiting
    <3> QED BY <1>6, <3>1, <3>2
  <2>2. ASSUME NEW p, NEW i \in 1 .. K, Answers(inbox[i], p)
        PROVE  Waiting(p)'
    BY <1>3, <2>2 DEF Waiting, K, N
  <2> QED BY <2>1, <2>2 DEF Waiting, K
<1>10. NoDown(inbox') => NoDown(inbox) BY <1>3 DEF NoDown, K, N
<1>11. Answered' BY <1>9, <1>10 DEF Replies, Answered
<1> QED BY <1>7, <1>8, <1>11 DEF Replies


(* What is heard of a call that is served goes behind what is there.        *)
LEMMA HeardBehind ==
    ASSUME MessageTypes, NEW M, Heard(M)
    PROVE  /\ IsSeq(M) /\ Len(inbox) \in Nat /\ Len(M) \in {Len(inbox), Len(inbox) + 1}
           /\ \A i \in 1 .. Len(inbox) : M[i] = inbox[i]
           /\ \A i \in Len(inbox) + 1 .. Len(M) : IsChange(M[i])
<1>0. IsSeq(inbox) /\ Len(inbox) \in Nat BY SeqLen DEF MessageTypes
<1>1. CASE M = inbox BY <1>0, <1>1
<1>2. ASSUME NEW c, IsChange(c), M = Append(inbox, c)
      PROVE  /\ IsSeq(M) /\ Len(M) = Len(inbox) + 1
             /\ \A i \in 1 .. Len(inbox) : M[i] = inbox[i]
             /\ \A i \in Len(inbox) + 1 .. Len(M) : IsChange(M[i])
  <2>1. /\ IsSeq(M) /\ Len(M) = Len(inbox) + 1
        /\ \A i \in 1 .. Len(inbox) : M[i] = inbox[i]
        /\ M[Len(inbox) + 1] = c
    BY <1>0, <1>2, SeqAppend
  <2>2. \A i \in Len(inbox) + 1 .. Len(M) : i = Len(inbox) + 1 BY <1>0, <2>1
  <2> QED BY <1>2, <2>1, <2>2
<1> QED BY <1>0, <1>1, <1>2 DEF Heard

(* So does an answer, behind the signal.                                    *)
LEMMA AnsweredBehind ==
    ASSUME MessageTypes, NEW M, Heard(M), NEW r, inbox' = Append(M, r)
    PROVE  /\ Len(inbox) \in Nat /\ Len(inbox') \in {Len(inbox) + 1, Len(inbox) + 2}
           /\ \A i \in 1 .. Len(inbox) : inbox'[i] = inbox[i]
           /\ \A i \in Len(inbox) + 1 .. Len(inbox') - 1 : IsChange(inbox'[i])
           /\ inbox'[Len(inbox')] = r
<1>1. /\ IsSeq(M) /\ Len(inbox) \in Nat /\ Len(M) \in {Len(inbox), Len(inbox) + 1}
      /\ \A i \in 1 .. Len(inbox) : M[i] = inbox[i]
      /\ \A i \in Len(inbox) + 1 .. Len(M) : IsChange(M[i])
  BY HeardBehind
<1>2. /\ Len(Append(M, r)) = Len(M) + 1
      /\ \A i \in 1 .. Len(M) : Append(M, r)[i] = M[i]
      /\ Append(M, r)[Len(M) + 1] = r
  BY <1>1, SeqAppend
<1>3. Len(inbox') - 1 = Len(M) /\ \A i \in 1 .. Len(inbox) : i \in 1 .. Len(M)
  BY <1>1, <1>2
<1>4. \A i \in Len(inbox) + 1 .. Len(M) : i \in 1 .. Len(M) BY <1>1
<1>5. Len(inbox') \in {Len(inbox) + 1, Len(inbox) + 2} BY <1>1, <1>2
<1>6. \A i \in 1 .. Len(inbox) : inbox'[i] = inbox[i] BY <1>1, <1>2, <1>3
<1>7. \A i \in Len(inbox) + 1 .. Len(inbox') - 1 : IsChange(inbox'[i])
  BY <1>1, <1>2, <1>3, <1>4
<1> QED BY <1>1, <1>2, <1>5, <1>6, <1>7

LEMMA ChangeNoResult ==
    \A m : IsChange(m) \/ m.type \in {"services", "PropertyChanged", "down"} =>
             ~IsResult(m)
  BY DEF IsChange, IsResult

LEMMA ResultAnswers ==
    ASSUME NEW m, IsSet(m), NEW ok \in BOOLEAN, NEW p
    PROVE  Answers(Result(m, ok), p) <=> Asks(m, p)
  BY ResultOK DEF Answers, Asks

LEMMA RepliesPassed ==
    ASSUME Shape, Replies, Takes \/ Tells, alive' = alive
    PROVE  Replies'
<1>1. outbox' = outbox /\ modify' = modify BY DEF Takes, Tells, CallsStay
<1>2. CASE Takes
  <2>1. /\ Len(inbox) \in Nat /\ Len(inbox) >= 1 /\ Head(inbox) = inbox[1]
        /\ Len(inbox') = Len(inbox) - 1
        /\ \A i \in 1 .. Len(inbox) - 1 : inbox'[i] = inbox[i + 1]
    BY <1>2, SeqTail DEF Shape, MessageTypes, Takes
  <2>2. ~IsResult(inbox[1]) /\ inbox[1].type # "down"
    BY <1>2, <2>1, ChangeNoResult DEF Takes
  <2>3. Len(inbox') \in Nat BY <2>1
  <2> QED BY <1>1, <2>1, <2>2, <2>3, Kept
<1>3. CASE Tells
  <2>1. Len(inbox) \in Nat BY SeqLen DEF Shape, MessageTypes
  <2>2. CASE inbox' = inbox BY <1>1, <2>1, <2>2, Kept
  <2>3. ASSUME NEW m, inbox' = Append(inbox, m), m.type \in {"services", "PropertyChanged"}
        PROVE  Replies'
    <3>1. /\ Len(inbox') = Len(inbox) + 1
          /\ \A i \in 1 .. Len(inbox) : inbox'[i] = inbox[i]
          /\ inbox'[Len(inbox) + 1] = m
      BY <2>3, SeqAppend DEF Shape, MessageTypes
    <3>2. ~IsResult(m) BY <2>3, ChangeNoResult
    <3>3. Len(inbox') \in Nat BY <2>1, <3>1
    <3> QED BY <1>1, <2>1, <3>1, <3>2, <3>3, Kept
  <2> QED BY <1>3, <2>2, <2>3 DEF Tells
<1> QED BY <1>2, <1>3

(* The first call is served, or fails and is gone, or fails and stays.      *)
LEMMA CallsMoved ==
    ASSUME CallTypes, outbox # <<>>, IsSet(Head(outbox)),
           \/ outbox' = Tail(outbox)
           \/ outbox' = [outbox EXCEPT ![1].valid = FALSE]
    PROVE  /\ Len(outbox) \in Nat /\ Len(outbox) >= 1 /\ Head(outbox) = outbox[1]
           /\ \E d \in {0, 1} :
                /\ \A i \in 1 .. Len(outbox') : \A p : Asks(outbox'[i], p) =>
                     i + d \in 2 .. Len(outbox) /\ Asks(outbox[i + d], p)
                /\ \A i \in 2 .. Len(outbox) :
                     i - d \in 1 .. Len(outbox') /\ outbox'[i - d] = outbox[i]
<1>1. /\ Len(outbox) \in Nat /\ Len(outbox) >= 1 /\ Head(outbox) = outbox[1]
      /\ Len(Tail(outbox)) = Len(outbox) - 1
      /\ \A i \in 1 .. Len(outbox) - 1 : Tail(outbox)[i] = outbox[i + 1]
  BY SeqTail DEF CallTypes
<1>2. CASE outbox' = Tail(outbox)
  <2>1. \A i \in 1 .. Len(outbox') : /\ i + 1 \in 2 .. Len(outbox)
                                     /\ outbox'[i] = outbox[i + 1]
    BY <1>1, <1>2
  <2>2. \A i \in 2 .. Len(outbox) : i - 1 \in 1 .. Len(outbox) - 1 /\ (i - 1) + 1 = i
    BY <1>1
  <2>3. \A i \in 2 .. Len(outbox) : /\ i - 1 \in 1 .. Len(outbox')
                                    /\ outbox'[i - 1] = outbox[i]
    BY <1>1, <1>2, <2>2
  <2>4. \A i \in 1 .. Len(outbox') : \A p : Asks(outbox'[i], p) =>
           i + 1 \in 2 .. Len(outbox) /\ Asks(outbox[i + 1], p)
    BY <2>1
  <2>5. 1 \in {0, 1} OBVIOUS
  <2> QED BY <1>1, <2>3, <2>4, <2>5
<1>3. CASE outbox' = [outbox EXCEPT ![1].valid = FALSE]
  <2>1. /\ Len(outbox') = Len(outbox) /\ ~outbox'[1].valid
        /\ \A i \in 2 .. Len(outbox) : outbox'[i] = outbox[i]
    BY <1>3, Outdated
  <2>2. \A i \in 1 .. Len(outbox) : i = 1 \/ i \in 2 .. Len(outbox) BY <1>1
  <2>3. \A i \in 1 .. Len(outbox') : \A p : Asks(outbox'[i], p) =>
           i \in 2 .. Len(outbox) /\ Asks(outbox[i], p)
    BY <2>1, <2>2 DEF Asks
  <2>4. \A i \in 2 .. Len(outbox) : i \in 1 .. Len(outbox') BY <1>1, <2>1
  <2>5. \A i \in 1 .. Len(outbox') : i + 0 = i BY <1>1, <2>1
  <2>6. \A i \in 2 .. Len(outbox) : i - 0 = i BY <1>1
  <2>7. 0 \in {0, 1} OBVIOUS
  <2>8. \A i \in 1 .. Len(outbox') : \A p : Asks(outbox'[i], p) =>
           i + 0 \in 2 .. Len(outbox) /\ Asks(outbox[i + 0], p)
    BY <2>3, <2>5
  <2>9. \A i \in 2 .. Len(outbox) : i - 0 \in 1 .. Len(outbox') /\ outbox'[i - 0] = outbox[i]
    BY <2>1, <2>4, <2>6
  <2> QED BY <1>1, <2>7, <2>8, <2>9
<1> QED BY <1>2, <1>3

LEMMA RepliesServed ==
    ASSUME Shape, Replies, DaemonServes
    PROVE  Replies'
<1>1. /\ outbox # <<>> /\ outbox' = Tail(outbox) /\ modify' = modify
      /\ \/ /\ IsSet(Head(outbox))
            /\ \E M : \E ok \in BOOLEAN :
                      Heard(M) /\ inbox' = Append(M, Result(Head(outbox), ok))
         \/ Head(outbox) = RemoveCall /\ Heard(inbox')
  BY ServesHeard
<1>2. alive' = alive BY DEF DaemonServes
<1>3. ASSUME IsSet(Head(outbox)),
             NEW M, NEW ok \in BOOLEAN, Heard(M),
             inbox' = Append(M, Result(Head(outbox), ok))
      PROVE  Replies'
  <2>1. /\ Len(inbox) \in Nat /\ Len(inbox') \in {Len(inbox) + 1, Len(inbox) + 2}
        /\ \A i \in 1 .. Len(inbox) : inbox'[i] = inbox[i]
        /\ \A i \in Len(inbox) + 1 .. Len(inbox') - 1 : ~IsResult(inbox'[i])
        /\ inbox'[Len(inbox')] = Result(Head(outbox), ok)
    BY <1>3, AnsweredBehind, ChangeNoResult DEF Shape
  <2>2. PICK d \in {0, 1} :
             /\ Len(outbox) \in Nat /\ Len(outbox) >= 1 /\ Head(outbox) = outbox[1]
             /\ \A i \in 1 .. Len(outbox') : \A p : Asks(outbox'[i], p) =>
                  i + d \in 2 .. Len(outbox) /\ Asks(outbox[i + d], p)
             /\ \A i \in 2 .. Len(outbox) :
                  i - d \in 1 .. Len(outbox') /\ outbox'[i - d] = outbox[i]
    BY <1>1, <1>3, CallsMoved DEF Shape
  <2>3. \A p : Answers(inbox'[Len(inbox')], p) <=> Asks(outbox[1], p)
    <3>1. PICK m : m = outbox[1] OBVIOUS
    <3>2. IsSet(m) BY <1>3, <2>2, <3>1
    <3>3. \A p : Answers(Result(m, ok), p) <=> Asks(m, p)
      BY <1>3, <3>2, ResultAnswers, Zenon
    <3>4. inbox'[Len(inbox')] = Result(m, ok) BY <2>1, <2>2, <3>1
    <3> QED BY <3>1, <3>3, <3>4, Zenon
  <2> QED BY <1>1, <1>2, <2>1, <2>2, <2>3, RepliesMoved
<1>4. ASSUME Head(outbox) = RemoveCall, Heard(inbox')
      PROVE  Replies'
  <2>1. /\ Len(inbox) \in Nat /\ Len(inbox') \in {Len(inbox), Len(inbox) + 1}
        /\ \A i \in 1 .. Len(inbox) : inbox'[i] = inbox[i]
        /\ \A i \in Len(inbox) + 1 .. Len(inbox') : ~IsResult(inbox'[i])
    <3>1. PICK M : M = inbox' OBVIOUS
    <3>2. /\ Len(inbox) \in Nat /\ Len(M) \in {Len(inbox), Len(inbox) + 1}
          /\ \A i \in 1 .. Len(inbox) : M[i] = inbox[i]
          /\ \A i \in Len(inbox) + 1 .. Len(M) : IsChange(M[i])
      BY <1>4, <3>1, HeardBehind DEF Shape
    <3> QED BY <3>1, <3>2, ChangeNoResult
  <2>2. /\ Len(outbox) \in Nat /\ Len(outbox) >= 1 /\ Head(outbox) = outbox[1]
        /\ Len(outbox') = Len(outbox) - 1
        /\ \A i \in 1 .. Len(outbox) - 1 : outbox'[i] = outbox[i + 1]
    BY <1>1, SeqTail DEF Shape, CallTypes
  <2>3. \A p : ~Asks(outbox[1], p) BY <1>4, <2>2, RemoveNotSet DEF Asks
  <2>4. /\ \A i \in 1 .. Len(outbox') : i + 1 \in 1 .. Len(outbox) /\ outbox'[i] = outbox[i + 1]
        /\ \A i \in 1 .. Len(outbox) :
             i = 1 \/ (i - 1 \in 1 .. Len(outbox') /\ outbox'[i - 1] = outbox[i])
    <3>1. \A i \in 1 .. Len(outbox) :
             i = 1 \/ (i - 1 \in 1 .. Len(outbox) - 1 /\ (i - 1) + 1 = i)
      BY <2>2
    <3> QED BY <2>2, <3>1
  <2>5. \A i \in 1 .. Len(inbox') : i \in 1 .. Len(inbox) \/ i \in Len(inbox) + 1 .. Len(inbox')
    BY <2>1
  <2>6. \A i \in 1 .. Len(inbox) : i \in 1 .. Len(inbox') BY <2>1
  <2>7. \A p : \A i \in 1 .. Len(inbox') :
           Answers(inbox'[i], p) => i \in 1 .. Len(inbox) /\ Answers(inbox[i], p)
    BY <2>1, <2>5 DEF Answers
  <2>8. Awaited' BY <1>1, <2>4, <2>7 DEF Replies, Awaited
  <2>9. Once'
    <3>1. \A p : \A i, j \in 1 .. Len(outbox') :
             Asks(outbox'[i], p) /\ Asks(outbox'[j], p) => i = j
      <4>1. ASSUME NEW p, NEW i \in 1 .. Len(outbox'), NEW j \in 1 .. Len(outbox'),
                   Asks(outbox'[i], p), Asks(outbox'[j], p)
            PROVE  i = j
        <5>1. i + 1 = j + 1 BY <2>4, <4>1 DEF Replies, Once
        <5> QED BY <5>1
      <4> QED BY <4>1
    <3>2. \A p : \A i, j \in 1 .. Len(inbox') :
             Answers(inbox'[i], p) /\ Answers(inbox'[j], p) => i = j
      BY <2>7 DEF Replies, Once
    <3>3. \A p : \A i \in 1 .. Len(outbox'), j \in 1 .. Len(inbox') :
             ~(Asks(outbox'[i], p) /\ Answers(inbox'[j], p))
      BY <2>4, <2>7 DEF Replies, Once
    <3> QED BY <3>1, <3>2, <3>3 DEF Once
  <2>10. \A p : Waiting(p) => Waiting(p)'
    <3>1. ASSUME NEW p, NEW i \in 1 .. Len(outbox), Asks(outbox[i], p) PROVE Waiting(p)'
      BY <2>3, <2>4, <3>1 DEF Waiting
    <3>2. ASSUME NEW p, NEW i \in 1 .. Len(inbox), Answers(inbox[i], p) PROVE Waiting(p)'
      BY <2>1, <2>6, <3>2 DEF Waiting
    <3> QED BY <3>1, <3>2 DEF Waiting
  <2>11. NoDown(inbox') => NoDown(inbox) BY <2>1, <2>6 DEF NoDown
  <2>12. Answered' BY <1>1, <1>2, <2>10, <2>11 DEF Replies, Answered
  <2> QED BY <2>8, <2>9, <2>12 DEF Replies
<1> QED BY <1>1, <1>3, <1>4

LEMMA RepliesFailed ==
    ASSUME Shape, Replies, DaemonFails
    PROVE  Replies'
<1>1. /\ outbox # <<>> /\ IsSet(Head(outbox)) /\ modify' = modify
      /\ inbox' = Append(inbox, Result(Head(outbox), FALSE))
      /\ outbox' = Tail(outbox) \/ outbox' = [outbox EXCEPT ![1].valid = FALSE]
  BY FailsHeard
<1>2. alive' = alive BY DEF DaemonFails, daemonVars
<1>3. Heard(inbox) BY DEF Heard
<1>4. /\ Len(inbox) \in Nat /\ Len(inbox') \in {Len(inbox) + 1, Len(inbox) + 2}
      /\ \A i \in 1 .. Len(inbox) : inbox'[i] = inbox[i]
      /\ \A i \in Len(inbox) + 1 .. Len(inbox') - 1 : ~IsResult(inbox'[i])
      /\ inbox'[Len(inbox')] = Result(Head(outbox), FALSE)
  BY <1>1, <1>3, AnsweredBehind, ChangeNoResult DEF Shape
<1>5. PICK d \in {0, 1} :
           /\ Len(outbox) \in Nat /\ Len(outbox) >= 1 /\ Head(outbox) = outbox[1]
           /\ \A i \in 1 .. Len(outbox') : \A p : Asks(outbox'[i], p) =>
                i + d \in 2 .. Len(outbox) /\ Asks(outbox[i + d], p)
           /\ \A i \in 2 .. Len(outbox) :
                i - d \in 1 .. Len(outbox') /\ outbox'[i - d] = outbox[i]
  BY <1>1, CallsMoved DEF Shape
<1>6. \A p : Answers(inbox'[Len(inbox')], p) <=> Asks(outbox[1], p)
  <2>1. PICK m : m = outbox[1] OBVIOUS
  <2>2. FALSE \in BOOLEAN /\ IsSet(m) BY <1>1, <1>5, <2>1
  <2>3. \A p : Answers(Result(m, FALSE), p) <=> Asks(m, p)
    BY <2>2, ResultAnswers, Zenon
  <2>4. inbox'[Len(inbox')] = Result(m, FALSE) BY <1>4, <1>5, <2>1
  <2> QED BY <2>1, <2>3, <2>4, Zenon
<1> QED BY <1>1, <1>2, <1>4, <1>5, <1>6, RepliesMoved

LEMMA RepliesDown ==
    ASSUME Shape, Replies, DaemonDown
    PROVE  Replies'
<1>1. /\ outbox' = <<>> /\ modify' = modify /\ ~alive'
      /\ inbox' = Append(inbox, Note("down")) /\ Note("down").type = "down"
  BY DownHeard
<1>2. /\ Len(inbox) \in Nat /\ Len(inbox') = Len(inbox) + 1
      /\ \A i \in 1 .. Len(inbox) : inbox'[i] = inbox[i]
      /\ inbox'[Len(inbox) + 1] = Note("down")
  BY <1>1, SeqAppend DEF Shape, MessageTypes
<1>3. ~IsResult(Note("down")) BY <1>1, ChangeNoResult
<1>4. \A i \in 1 .. Len(inbox') : i \in 1 .. Len(inbox) \/ i = Len(inbox) + 1 BY <1>2
<1>5. \A p : \A i \in 1 .. Len(inbox') :
         Answers(inbox'[i], p) => i \in 1 .. Len(inbox) /\ Answers(inbox[i], p)
  BY <1>2, <1>3, <1>4 DEF Answers
<1>6. Len(outbox') = 0 BY <1>1, SeqEmpty
<1>7. \A i \in 1 .. Len(outbox') : FALSE BY <1>6
<1>8. Awaited' BY <1>1, <1>5, <1>7 DEF Replies, Awaited
<1>9. Once' BY <1>5, <1>7 DEF Replies, Once
<1>10. Answered' BY <1>1 DEF Answered
<1> QED BY <1>8, <1>9, <1>10 DEF Replies

-----------------------------------------------------------------------------
(* The end of the daemon *)

(* A daemon that is gone has been noticed, and no list is left that would   *)
(* bring the service back; or its end is behind every list.                 *)
NoLists(k) == \A i \in 1 .. Len(inbox) : i > k => inbox[i].type # "services"

EndTold ==
    \/ alive
    \/ ~live /\ NoLists(0)
    \/ \E j \in 1 .. Len(inbox) : inbox[j].type = "down" /\ NoLists(j)

LEMMA RepliesUp ==
    ASSUME Shape, Replies, EndTold, DaemonUp
    PROVE  Replies'
<1>1. ~alive /\ UNCHANGED <<outbox, inbox, modify>> BY DEF DaemonUp
<1>2. NoDown(inbox) => modify = {}
  BY <1>1 DEF EndTold, NoDown, Shape, ObjectTypes
<1>3. Answered' BY <1>1, <1>2 DEF Answered
<1>4. Awaited' /\ Once' BY <1>1 DEF Replies, Awaited, Once
<1> QED BY <1>3, <1>4 DEF Replies

LEMMA AliveSteps ==
    ASSUME [Next]_vars
    PROVE  alive' = alive \/ DaemonDown \/ DaemonUp
<1> USE DEF daemonVars
<1>1. CASE MainLoop
  BY <1>1 DEF MainLoop, Messages, get_services_cb, property_changed_signal_cb,
              set_property_cb, connman_down, property_changed_or_error, property_error
<1>2. CASE Menu BY <1>2 DEF Menu, MenuLists, MenuShows, MenuCloses
<1>3. CASE User
  BY <1>3 DEF User, cui_settings_popup, settings_cancel_callback, settings_ok_callback,
              toggled_method_cb, key_released_entry_cb, autoconnect_button_toggled,
              favorite_button_toggled
<1>4. CASE Daemon
  BY <1>4 DEF Daemon, DaemonServes, DaemonFails, DaemonChanges, DaemonApplies
<1>5. CASE UNCHANGED vars BY <1>5 DEF vars
<1> QED BY <1>1, <1>2, <1>3, <1>4, <1>5 DEF Next

LEMMA RepliesNext ==
    ASSUME Shape, Replies, EndTold, [Next]_vars
    PROVE  Replies'
<1>1. CASE DaemonDown BY <1>1, RepliesDown
<1>2. CASE DaemonUp BY <1>2, RepliesUp
<1>3. CASE DaemonServes BY <1>3, RepliesServed
<1>4. CASE DaemonFails BY <1>4, RepliesFailed
<1>5. CASE Freed BY <1>5, RepliesFreed
<1>6. CASE set_property_cb BY <1>6, RepliesTaken
<1>7. ASSUME alive' = alive PROVE Replies'
  BY <1>1, <1>3, <1>4, <1>5, <1>6, <1>7, RepliesCalls, RepliesPassed, TrafficSteps
  DEF Traffic
<1> QED BY <1>1, <1>2, <1>7, AliveSteps

LEMMA LiveSteps ==
    ASSUME [Next]_vars
    PROVE  (live' => live) \/ get_services_cb
<1> USE DEF live, objectVars
<1>1. CASE MainLoop
  BY <1>1 DEF MainLoop, Messages, property_changed_signal_cb,
              set_property_cb, connman_down, property_changed_or_error, property_error
<1>2. CASE Menu BY <1>2 DEF Menu, MenuLists, MenuShows, MenuCloses
<1>3. CASE User
  BY <1>3 DEF User, cui_settings_popup, settings_cancel_callback, settings_ok_callback,
              toggled_method_cb, key_released_entry_cb, autoconnect_button_toggled,
              favorite_button_toggled
<1>4. CASE Daemon
  BY <1>4 DEF Daemon, DaemonServes, DaemonFails, DaemonChanges, DaemonApplies,
              DaemonDown, DaemonUp
<1>5. CASE UNCHANGED vars BY <1>5 DEF vars
<1> QED BY <1>1, <1>2, <1>3, <1>4, <1>5 DEF Next

(* Nothing but lists changes it, wherever they go ...                       *)
LEMMA EndBehind ==
    ASSUME EndTold, alive' = alive, live' => live,
           Len(inbox) \in Nat, Len(inbox') \in Nat, Len(inbox') >= Len(inbox),
           \A i \in 1 .. Len(inbox) : inbox'[i].type = inbox[i].type,
           \A i \in Len(inbox) + 1 .. Len(inbox') : inbox'[i].type # "services"
    PROVE  EndTold'
<1>1. \A i \in 1 .. Len(inbox') : i \in 1 .. Len(inbox) \/ i \in Len(inbox) + 1 .. Len(inbox')
  OBVIOUS
<1>2. \A k : NoLists(k) => NoLists(k)' BY <1>1 DEF NoLists
<1>3. \A j \in 1 .. Len(inbox) : j \in 1 .. Len(inbox') OBVIOUS
<1>4. CASE alive BY <1>4 DEF EndTold
<1>5. CASE ~live /\ NoLists(0) BY <1>2, <1>5 DEF EndTold
<1>6. ASSUME NEW j \in 1 .. Len(inbox), inbox[j].type = "down", NoLists(j)
      PROVE  EndTold'
  BY <1>2, <1>3, <1>6 DEF EndTold
<1> QED BY <1>4, <1>5, <1>6 DEF EndTold

(* ... and whatever is taken that is not the end of the daemon.             *)
LEMMA EndAhead ==
    ASSUME EndTold, alive' = alive, (live' => live) \/ inbox[1].type = "services",
           Len(inbox) \in Nat, Len(inbox) >= 1, Len(inbox') = Len(inbox) - 1,
           \A i \in 1 .. Len(inbox) - 1 : inbox'[i].type = inbox[i + 1].type,
           inbox[1].type # "down" \/ ~live'
    PROVE  EndTold'
<1>1. \A i \in 1 .. Len(inbox') : i + 1 \in 1 .. Len(inbox)
                                  /\ inbox'[i].type = inbox[i + 1].type
  OBVIOUS
<1>2. 1 \in 1 .. Len(inbox) /\ 1 > 0 OBVIOUS
<1>3. CASE alive BY <1>3 DEF EndTold
<1>4. CASE ~live /\ NoLists(0)
  <2>1. ~live' BY <1>2, <1>4 DEF NoLists
  <2>2. \A i \in 1 .. Len(inbox') : i + 1 > 0 OBVIOUS
  <2>3. NoLists(0)' BY <1>1, <1>4, <2>2 DEF NoLists
  <2> QED BY <2>1, <2>3 DEF EndTold
<1>5. ASSUME NEW j \in 1 .. Len(inbox), inbox[j].type = "down", NoLists(j)
      PROVE  EndTold'
  <2>1. \A i \in 1 .. Len(inbox') : i > j - 1 => i + 1 > j OBVIOUS
  <2>2. \A i \in 1 .. Len(inbox') : i > j - 1 => inbox'[i].type # "services"
    BY <1>1, <1>5, <2>1 DEF NoLists
  <2>3. NoLists(j - 1)' BY <2>2 DEF NoLists
  <2>4. CASE j = 1
    <3>1. ~live' BY <1>5, <2>4
    <3>2. NoLists(0)' BY <2>3, <2>4
    <3> QED BY <3>1, <3>2 DEF EndTold
  <2>5. CASE j # 1
    <3>1. j - 1 \in 1 .. Len(inbox') /\ j - 1 \in 1 .. Len(inbox) - 1 /\ (j - 1) + 1 = j
      BY <2>5
    <3>2. inbox'[j - 1].type = "down" BY <1>5, <3>1
    <3> QED BY <2>3, <3>1, <3>2 DEF EndTold
  <2> QED BY <2>4, <2>5
<1> QED BY <1>3, <1>4, <1>5 DEF EndTold

LEMMA EndNext ==
    ASSUME Shape, EndTold, [Next]_vars
    PROVE  EndTold'
<1>0. IsSeq(inbox) /\ Len(inbox) \in Nat /\ MessageTypes
  BY SeqLen DEF Shape, MessageTypes
<1>1. CASE DaemonUp BY <1>1 DEF DaemonUp, EndTold
<1>2. CASE DaemonDown
  <2>1. inbox' = Append(inbox, Note("down")) /\ Note("down").type = "down"
    BY <1>2, DownHeard
  <2>2. Len(inbox') = Len(inbox) + 1 /\ inbox'[Len(inbox) + 1] = Note("down")
    BY <1>0, <2>1, SeqAppend
  <2>3. PICK j : j = Len(inbox) + 1 OBVIOUS
  <2>4. /\ j \in 1 .. Len(inbox') /\ inbox'[j].type = "down"
        /\ \A i \in 1 .. Len(inbox') : ~(i > j)
    BY <1>0, <2>1, <2>2, <2>3
  <2>5. NoLists(j)' BY <2>4 DEF NoLists
  <2> QED BY <2>4, <2>5 DEF EndTold
<1>3. ASSUME alive' = alive PROVE EndTold'
  <2>1. (live' => live) \/ (get_services_cb /\ inbox # <<>> /\ Head(inbox).type = "services")
    BY LiveSteps DEF get_services_cb, Receive
  <2>2. CASE get_services_cb \/ Takes \/ set_property_cb
    <3>1. inbox # <<>> /\ inbox' = Tail(inbox) /\ Head(inbox).type # "down"
      BY <2>2 DEF get_services_cb, Receive, Takes, set_property_cb
    <3>2. /\ Head(inbox) = inbox[1] /\ Len(inbox) >= 1 /\ Len(inbox') = Len(inbox) - 1
          /\ \A i \in 1 .. Len(inbox) - 1 : inbox'[i] = inbox[i + 1]
      BY <1>0, <3>1, SeqTail
    <3> QED BY <1>0, <1>3, <2>1, <3>1, <3>2, EndAhead
  <2>3. ASSUME ~get_services_cb PROVE live' => live BY <2>1, <2>3
  <2>4. CASE inbox' = inbox
    <3>1. ~get_services_cb
      <4>1. ASSUME inbox # <<>>, inbox' = Tail(inbox) PROVE FALSE
        <5>1. Len(Tail(inbox)) = Len(inbox) - 1 BY <1>0, <4>1, SeqTail
        <5> QED BY <1>0, <2>4, <4>1, <5>1
      <4> QED BY <4>1 DEF get_services_cb, Receive
    <3>2. \A i \in Len(inbox) + 1 .. Len(inbox') : FALSE BY <1>0, <2>4
    <3> QED BY <1>0, <1>3, <2>3, <2>4, <3>1, <3>2, EndBehind
  <2>5. CASE Freed /\ ~get_services_cb
    <3>1. CASE inbox' = Cancelled(inbox)
      <4>1. /\ Len(Cancelled(inbox)) = Len(inbox)
            /\ \A i \in 1 .. Len(inbox) : Cancelled(inbox)[i].type = inbox[i].type
        BY <1>0, CancelledMessages DEF MessageTypes
      <4>2. \A i \in Len(inbox) + 1 .. Len(inbox') : FALSE BY <1>0, <3>1, <4>1
      <4> QED BY <1>0, <1>3, <2>3, <2>5, <3>1, <4>1, <4>2, EndBehind
    <3>2. CASE /\ inbox # <<>> /\ inbox' = Cancelled(Tail(inbox))
               /\ inTable' = FALSE /\ selected' = FALSE
      <4>1. IsSeq(Tail(inbox)) /\ \A i \in 1 .. Len(Tail(inbox)) : IsMessage(Tail(inbox)[i])
        BY <1>0, <3>2, TailMessages
      <4>2. /\ Len(inbox') = Len(Tail(inbox))
            /\ \A i \in 1 .. Len(Tail(inbox)) : inbox'[i].type = Tail(inbox)[i].type
        BY <3>2, <4>1, CancelledMessages
      <4>3. /\ Len(inbox) >= 1 /\ Len(Tail(inbox)) = Len(inbox) - 1
            /\ \A i \in 1 .. Len(inbox) - 1 : Tail(inbox)[i] = inbox[i + 1]
        BY <1>0, <3>2, SeqTail
      <4>4. ~live' BY <3>2 DEF live
      <4>5. \A i \in 1 .. Len(inbox) - 1 : inbox'[i].type = inbox[i + 1].type
        BY <4>2, <4>3
      <4> QED BY <1>0, <1>3, <4>2, <4>3, <4>4, <4>5, EndAhead
    <3> QED BY <2>5, <3>1, <3>2 DEF Freed
  <2>6. CASE Tells /\ alive BY <1>3, <2>6 DEF EndTold
  <2>7. CASE DaemonServes \/ DaemonFails
    <3>1. live' => live BY <2>7 DEF DaemonServes, DaemonFails, objectVars, live
    <3>2. /\ Len(inbox') \in Nat /\ Len(inbox') >= Len(inbox)
          /\ \A i \in 1 .. Len(inbox) : inbox'[i] = inbox[i]
          /\ \A i \in Len(inbox) + 1 .. Len(inbox') : inbox'[i].type # "services"
      <4>1. ASSUME NEW M, NEW r, Heard(M), IsResult(r), inbox' = Append(M, r)
            PROVE  <3>2!:
        <5>1. /\ Len(inbox') \in {Len(inbox) + 1, Len(inbox) + 2}
              /\ \A i \in 1 .. Len(inbox) : inbox'[i] = inbox[i]
              /\ \A i \in Len(inbox) + 1 .. Len(inbox') - 1 : IsChange(inbox'[i])
              /\ inbox'[Len(inbox')] = r
          BY <1>0, <4>1, AnsweredBehind
        <5>2. Len(inbox') \in Nat /\ Len(inbox') >= Len(inbox) BY <1>0, <5>1
        <5>3. \A i \in Len(inbox) + 1 .. Len(inbox') :
                 i \in Len(inbox) + 1 .. Len(inbox') - 1 \/ i = Len(inbox')
          BY <1>0, <5>2
        <5>4. \A i \in Len(inbox) + 1 .. Len(inbox') : inbox'[i].type # "services"
          BY <4>1, <5>1, <5>3 DEF IsChange, IsResult
        <5> QED BY <5>1, <5>2, <5>4
      <4>2. ASSUME Heard(inbox') PROVE <3>2!:
        <5>1. PICK M : M = inbox' OBVIOUS
        <5>2. /\ Len(M) \in {Len(inbox), Len(inbox) + 1}
              /\ \A i \in 1 .. Len(inbox) : M[i] = inbox[i]
              /\ \A i \in Len(inbox) + 1 .. Len(M) : IsChange(M[i])
          BY <1>0, <4>2, <5>1, HeardBehind
        <5>3. Len(M) \in Nat /\ Len(M) >= Len(inbox) BY <1>0, <5>2
        <5> QED BY <5>1, <5>2, <5>3 DEF IsChange
      <4>3. CASE DaemonServes
        <5>1. ASSUME IsSet(Head(outbox)),
                     NEW M, NEW ok \in BOOLEAN, Heard(M),
                     inbox' = Append(M, Result(Head(outbox), ok))
              PROVE  <3>2!:
          <6>1. IsResult(Result(Head(outbox), ok)) BY <5>1, ResultOK
          <6> QED BY <4>1, <5>1, <6>1
        <5> QED BY <4>2, <4>3, <5>1, ServesHeard
      <4>4. CASE DaemonFails
        <5>1. IsSet(Head(outbox)) /\ inbox' = Append(inbox, Result(Head(outbox), FALSE))
          BY <4>4, FailsHeard
        <5>2. IsResult(Result(Head(outbox), FALSE)) BY <5>1, ResultOK
        <5>3. Heard(inbox) BY DEF Heard
        <5> QED BY <4>1, <5>1, <5>2, <5>3
      <4> QED BY <2>7, <4>3, <4>4
    <3> QED BY <1>0, <1>3, <3>1, <3>2, EndBehind
  <2>8. CASE Freed /\ get_services_cb BY <2>2, <2>8
  <2>9. Tells => alive BY DEF Tells
  <2> QED BY <1>2, <2>2, <2>4, <2>5, <2>6, <2>7, <2>8, <2>9, TrafficSteps DEF Traffic
<1> QED BY <1>1, <1>2, <1>3, AliveSteps

-----------------------------------------------------------------------------
(* Callbacks *)

LEMMA CallbacksNext ==
    ASSUME CallbacksNeedDialog, [Next]_vars
    PROVE  CallbacksNeedDialog'
<1> USE DEF CallbacksNeedDialog, objectVars
<1>1. CASE Messages
  BY <1>1 DEF Messages, get_services_cb, property_changed_signal_cb,
              set_property_cb, connman_down, service_free
<1>2. ASSUME NEW p, property_changed_or_error(p) \/ property_error(p)
      PROVE  CallbacksNeedDialog'
  BY <1>2 DEF property_changed_or_error, property_error
<1>3. CASE Menu BY <1>3 DEF Menu, MenuLists, MenuShows, MenuCloses, service_free
<1>4. CASE User
  BY <1>4 DEF User, cui_settings_popup, settings_cancel_callback, settings_ok_callback,
              toggled_method_cb, key_released_entry_cb, autoconnect_button_toggled,
              favorite_button_toggled, service_free
<1>5. CASE Daemon
  BY <1>5 DEF Daemon, DaemonServes, DaemonFails, DaemonChanges, DaemonApplies,
              DaemonDown, DaemonUp
<1>6. CASE UNCHANGED vars BY <1>6 DEF vars
<1> QED BY <1>1, <1>2, <1>3, <1>4, <1>5, <1>6 DEF Next, MainLoop

-----------------------------------------------------------------------------
(* What is known keeps its type *)

LEMMA NothingOK == KnownOK(Nothing)
<1>1. /\ Nothing.config = [f \in Fields |-> None]
      /\ Nothing.inUse = [r \in Radios |-> None]
      /\ Nothing.autoconnect = FALSE /\ Nothing.favorite = FALSE
      /\ Nothing = [config |-> Nothing.config, inUse |-> Nothing.inUse,
                    autoconnect |-> Nothing.autoconnect, favorite |-> Nothing.favorite]
  BY DEF Nothing
<1> HIDE DEF Nothing
<1>2. /\ \A f \in Fields : Nothing.config[f] \in ValuesOf(f) \cup {None}
      /\ \A r \in Radios : Nothing.inUse[r] \in Buttons[r] \cup {None}
  BY <1>1
<1> QED BY <1>1, <1>2 DEF KnownOK

LEMMA ChangedOK ==
    ASSUME KnownOK(known), NEW m, IsChange(m)
    PROVE  KnownOK(update_service_property(m))
<1>1. PICK c, u, a, b : known = [config |-> c, inUse |-> u, autoconnect |-> a, favorite |-> b]
  BY DEF KnownOK
<1>2. known.config = c /\ known.inUse = u /\ known.autoconnect = a /\ known.favorite = b
  BY <1>1
<1>3. /\ \A f \in Fields : c[f] \in ValuesOf(f) \cup {None}
      /\ \A r \in Radios : u[r] \in Buttons[r] \cup {None}
      /\ a \in BOOLEAN /\ b \in BOOLEAN
  BY <1>2 DEF KnownOK
<1>4. ASSUME NEW n, NEW d, NEW v, NEW x, NEW y,
             n = [config |-> d, inUse |-> v, autoconnect |-> x, favorite |-> y],
             \A f \in Fields : d[f] \in ValuesOf(f) \cup {None},
             \A r \in Radios : v[r] \in Buttons[r] \cup {None},
             x \in BOOLEAN, y \in BOOLEAN
      PROVE  KnownOK(n)
  <2>1. n.config = d /\ n.inUse = v /\ n.autoconnect = x /\ n.favorite = y BY <1>4
  <2> QED BY <1>4, <2>1 DEF KnownOK
<1>5. PICK n : n = update_service_property(m) OBVIOUS
<1>6. CASE m.property \in Groups
  <2> DEFINE d == [f \in Fields |-> IF f \in m.property THEN m.value[f] ELSE c[f]]
  <2>1. n = [known EXCEPT !.config = d]
    <3>1. n = [known EXCEPT !.config = [f \in Fields |->
                 IF f \in m.property THEN m.value[f] ELSE @[f]]]
      BY <1>5, <1>6, Kinds DEF update_service_property
    <3>2. [f \in Fields |-> IF f \in m.property THEN m.value[f] ELSE known.config[f]] = d
      BY <1>2
    <3> HIDE DEF d
    <3> QED BY <3>1, <3>2
  <2>2. \A f \in m.property \cap Fields : m.value[f] \in ValuesOf(f) \cup {None}
    BY <1>6, Kinds DEF IsChange
  <2>3. \A f \in Fields : d[f] \in ValuesOf(f) \cup {None} BY <1>3, <2>2
  <2> HIDE DEF d
  <2>4. n = [config |-> d, inUse |-> u, autoconnect |-> a, favorite |-> b]
    BY <1>1, <2>1
  <2> QED BY <1>3, <1>4, <1>5, <2>3, <2>4
<1>7. CASE m.property = AutoConnect
  <2>1. n = [known EXCEPT !.autoconnect = m.value]
    BY <1>5, <1>7, Kinds DEF update_service_property
  <2>2. m.value \in BOOLEAN BY <1>7, Kinds DEF IsChange
  <2>3. n = [config |-> c, inUse |-> u, autoconnect |-> m.value, favorite |-> b]
    BY <1>1, <2>1
  <2> QED BY <1>3, <1>4, <1>5, <2>2, <2>3
<1>8. CASE m.property = Favorite
  <2>1. n = [known EXCEPT !.favorite = m.value]
    BY <1>5, <1>8, Kinds DEF update_service_property
  <2>2. m.value \in BOOLEAN BY <1>8, Kinds DEF IsChange
  <2>3. n = [config |-> c, inUse |-> u, autoconnect |-> a, favorite |-> m.value]
    BY <1>1, <2>1
  <2> QED BY <1>3, <1>4, <1>5, <2>2, <2>3
<1>9. CASE m.property = Other
  <2>1. n = known BY <1>5, <1>9, Kinds DEF update_service_property
  <2> QED BY <1>5, <2>1
<1>10. CASE m.property \in {InUse(g) : g \in Groups}
  <2> DEFINE v == [r \in Radios |-> IF r \in m.property THEN m.value[r] ELSE u[r]]
  <2>0. m.property \notin Groups /\ m.property \notin {AutoConnect, Favorite, Other}
    BY <1>10, Kinds
  <2>1. n = [known EXCEPT !.inUse = v] BY <1>2, <1>5, <2>0 DEF update_service_property
  <2>2. \A r \in m.property \cap Radios : m.value[r] \in Buttons[r] \cup {None}
    BY <2>0 DEF IsChange
  <2>3. \A r \in Radios : v[r] \in Buttons[r] \cup {None} BY <1>3, <2>2
  <2> HIDE DEF v
  <2>4. n = [config |-> c, inUse |-> v, autoconnect |-> a, favorite |-> b]
    BY <1>1, <2>1
  <2> QED BY <1>3, <1>4, <1>5, <2>3, <2>4
<1> QED BY <1>6, <1>7, <1>8, <1>9, <1>10 DEF IsChange

LEMMA PropertiesOf ==
    /\ \A m : IsChange(m) => m.property \in Properties
    /\ \A m : IsResult(m) => m.property \in Properties
  BY DEF IsChange, IsResult, Properties

(* A service that is not there asks for nothing.                            *)
LEMMA NoMoreCalls ==
    ASSUME Shape, [Next]_vars, ~live
    PROVE  modify' = {}
<1>1. modify = {} BY DEF Shape, ObjectTypes
<1>2. CASE HeaderCalls \/ OkCalls
  BY <1>1, <1>2 DEF HeaderCalls, OkCalls, CallsStay, Removing, Setting
<1>3. CASE Takes \/ Tells \/ Freed BY <1>1, <1>3 DEF Takes, Tells, Freed, CallsStay
<1>4. CASE set_property_cb BY <1>1, <1>4 DEF set_property_cb
<1>5. CASE DaemonServes \/ DaemonFails \/ DaemonDown
  BY <1>1, <1>5, ServesHeard, FailsHeard, DownHeard
<1> QED BY <1>2, <1>3, <1>4, <1>5, TrafficSteps DEF Traffic

CallbackTypes == {"none", "item", "changed", "set"}

ObjectGone == /\ known' = Nothing /\ modify' = {} /\ changedCb' = "none"
              /\ toUpdate' = {} /\ toError' = {}
ObjectStays == /\ known' = known /\ toUpdate' \subseteq toUpdate
               /\ toError' \subseteq toError /\ (live' <=> live)
               /\ changedCb' \in CallbackTypes

LEMMA ObjectSteps ==
    ASSUME [Next]_vars, changedCb \in CallbackTypes
    PROVE  \/ ObjectGone \/ ObjectStays
           \/ get_services_cb \/ property_changed_signal_cb \/ set_property_cb
<1> USE DEF ObjectStays, ObjectGone, objectVars, live, CallbackTypes
<1>1. CASE Messages BY <1>1 DEF Messages, connman_down, service_free
<1>2. ASSUME NEW p, property_changed_or_error(p)
      PROVE  ObjectStays
  BY <1>2 DEF property_changed_or_error
<1>3. ASSUME NEW p, property_error(p)
      PROVE  ObjectStays
  BY <1>3 DEF property_error
<1>4. CASE Menu BY <1>4 DEF Menu, MenuLists, MenuShows, MenuCloses, service_free
<1>5. CASE cui_settings_popup BY <1>5 DEF cui_settings_popup
<1>6. CASE settings_cancel_callback BY <1>6 DEF settings_cancel_callback, service_free
<1>7. CASE settings_ok_callback BY <1>7 DEF settings_ok_callback
<1>8. CASE \/ \E r \in Radios : \E v \in Buttons[r] : toggled_method_cb(r, v)
           \/ \E f \in TextFields, v \in Texts : key_released_entry_cb(f, v)
           \/ autoconnect_button_toggled \/ favorite_button_toggled
  BY <1>8 DEF toggled_method_cb, key_released_entry_cb, autoconnect_button_toggled,
              favorite_button_toggled
<1>9. CASE Daemon
  BY <1>9 DEF Daemon, DaemonServes, DaemonFails, DaemonChanges, DaemonApplies,
              DaemonDown, DaemonUp
<1>10. CASE UNCHANGED vars BY <1>10 DEF vars
<1> QED BY <1>1, <1>2, <1>3, <1>4, <1>5, <1>6, <1>7, <1>8, <1>9, <1>10
        DEF Next, MainLoop, User

LEMMA ObjectNext ==
    ASSUME Shape, Replies, [Next]_vars
    PROVE  ObjectTypes'
<1>0. /\ KnownOK(known) /\ changedCb \in CallbackTypes
      /\ toUpdate \subseteq Properties /\ toError \subseteq Properties
      /\ ~live => known = Nothing /\ modify = {} /\ toUpdate = {} /\ toError = {}
  BY DEF Shape, ObjectTypes, CallbackTypes
<1>1. modify' \subseteq Groups \cup {AutoConnect} BY QueuesNext
<1>2. ~live => modify' = {} BY NoMoreCalls
<1>3. ASSUME inbox # <<>> PROVE IsMessage(Head(inbox)) BY <1>3, TailMessages DEF Shape
<1>4. ASSUME KnownOK(known'), changedCb' \in CallbackTypes,
             toUpdate' \subseteq Properties, toError' \subseteq Properties,
             ~live' => known' = Nothing /\ modify' = {} /\ toUpdate' = {} /\ toError' = {}
      PROVE  ObjectTypes'
  BY <1>1, <1>4 DEF ObjectTypes, CallbackTypes
<1>5. CASE ObjectGone
  BY <1>4, <1>5, NothingOK DEF ObjectGone, CallbackTypes
<1>6. CASE ObjectStays BY <1>0, <1>2, <1>4, <1>6 DEF ObjectStays
<1>7. CASE get_services_cb
  <2>1. /\ inbox # <<>> /\ Head(inbox).type = "services" /\ inTable' = TRUE
        /\ known' = Head(inbox).known /\ UNCHANGED <<changedCb, toUpdate, toError>>
    BY <1>7 DEF get_services_cb, Receive
  <2>2. KnownOK(Head(inbox).known) BY <1>3, <2>1 DEF IsMessage, IsChange, IsResult
  <2>3. KnownOK(known') BY <2>1, <2>2
  <2> QED BY <1>0, <1>4, <2>1, <2>3 DEF live
<1>8. CASE property_changed_signal_cb
  <2>1. /\ inbox # <<>> /\ Head(inbox).type = "PropertyChanged"
        /\ UNCHANGED <<inTable, selected, changedCb, toError>>
        /\ ~live => UNCHANGED <<known, toUpdate>>
        /\ live => /\ known' = update_service_property(Head(inbox))
                   /\ toUpdate' \subseteq toUpdate \cup {Head(inbox).property}
    BY <1>8 DEF property_changed_signal_cb, Receive
  <2>2. IsChange(Head(inbox)) BY <1>3, <2>1 DEF IsMessage, IsResult
  <2>3. KnownOK(update_service_property(Head(inbox))) BY <1>0, <2>2, ChangedOK
  <2>4. Head(inbox).property \in Properties BY <2>2, PropertiesOf
  <2>5. live' <=> live BY <2>1 DEF live
  <2>6. CASE live
    <3>1. KnownOK(known') BY <2>1, <2>3, <2>6
    <3> QED BY <1>0, <1>4, <2>1, <2>4, <2>5, <2>6, <3>1
  <2>7. CASE ~live
    <3>1. KnownOK(known') BY <1>0, <2>1, <2>7
    <3> QED BY <1>0, <1>2, <1>4, <2>1, <2>5, <2>7, <3>1
  <2> QED BY <2>6, <2>7
<1>9. CASE set_property_cb
  <2> DEFINE m == Head(inbox)
  <2>1. /\ inbox # <<>> /\ m.type = "result"
        /\ UNCHANGED <<inTable, selected, known, changedCb, toUpdate>>
        /\ \/ toError' = toError
           \/ toError' = toError \cup {m.property} /\ m.valid
    BY <1>9 DEF set_property_cb, Receive
  <2>2. IsResult(m) BY <1>3, <2>1 DEF IsMessage, IsChange
  <2>3. m.property \in Properties BY <2>2, PropertiesOf
  <2>4. m = inbox[1] /\ 1 \in 1 .. Len(inbox)
    BY <2>1, SeqTail DEF Shape, MessageTypes
  <2> HIDE DEF m
  <2>5. m.valid => m.property \in modify
    <3>1. m.valid => Answers(inbox[1], m.property) BY <2>2, <2>4 DEF Answers
    <3> QED BY <2>4, <3>1 DEF Replies, Awaited
  <2>6. live' <=> live BY <2>1 DEF live
  <2>7. KnownOK(known') BY <1>0, <2>1
  <2> QED BY <1>0, <1>2, <1>4, <2>1, <2>3, <2>5, <2>6, <2>7
<1> QED BY <1>0, <1>5, <1>6, <1>7, <1>8, <1>9, ObjectSteps

-----------------------------------------------------------------------------
(* The rest of the types *)

IsFlag(b) == b \in BOOLEAN

FlagsOK ==
    /\ IsFlag(alive) /\ IsFlag(autoconnect) /\ IsFlag(favorite)
    /\ IsFlag(inTable) /\ IsFlag(selected) /\ IsFlag(errorCb)
    /\ IsFlag(open) /\ IsFlag(autoButton) /\ IsFlag(favButton)
    /\ IsFlag(sensitive) /\ IsFlag(item) /\ IsFlag(wanted) /\ IsFlag(raced)

LEMMA FlagsAre == (Flags <=> FlagsOK) /\ (Flags <=> FlagsOK)'
  BY DEF Flags, FlagsOK, IsFlag

LEMMA FlagsAnew ==
    /\ \A b : IsFlag(b) => IsFlag(~b)
    /\ \A b, c : IsFlag(b \/ c)
    /\ IsFlag(TRUE) /\ IsFlag(FALSE) /\ IsFlag(live)
  BY DEF IsFlag, live

LEMMA HeaderFlags ==
    ASSUME Shape, NEW auto, NEW fav, NEW n \in 0 .. 2, update_header(auto, fav, n)
    PROVE  IsFlag(autoButton') /\ IsFlag(favButton') /\ IsFlag(sensitive')
  BY KnownAuto DEF update_header, IsFlag

LEMMA FlagsNext ==
    ASSUME Shape, [Next]_vars
    PROVE  Flags'
<1> SUFFICES ASSUME FlagsOK PROVE FlagsOK'
  BY FlagsAre DEF Shape
<1> USE DEF FlagsOK, daemonVars, objectVars, headerVars, history
<1>0. hooks \in 0 .. 2 /\ 0 \in 0 .. 2 BY DEF Shape, Counts
<1>1. CASE Messages
  BY <1>1, FlagsAnew DEF Messages, get_services_cb, property_changed_signal_cb,
              set_property_cb, connman_down, service_free
<1>2. ASSUME NEW p, property_changed_or_error(p) PROVE FlagsOK'
  BY <1>0, <1>2, HeaderFlags DEF property_changed_or_error, service_property_set_cb
<1>3. ASSUME NEW p, property_error(p) PROVE FlagsOK'
  BY <1>0, <1>3, HeaderFlags DEF property_error, service_property_set_cb
<1>4. CASE Menu
  BY <1>4, FlagsAnew DEF Menu, MenuLists, MenuShows, MenuCloses, service_free
<1>5. CASE cui_settings_popup
  BY <1>0, <1>5, FlagsAnew, HeaderFlags DEF cui_settings_popup
<1>6. CASE settings_cancel_callback
  BY <1>6, FlagsAnew DEF settings_cancel_callback, service_free
<1>7. CASE settings_ok_callback BY <1>7 DEF settings_ok_callback
<1>8. CASE \/ \E r \in Radios : \E v \in Buttons[r] : toggled_method_cb(r, v)
           \/ \E f \in TextFields, v \in Texts : key_released_entry_cb(f, v)
  BY <1>8 DEF toggled_method_cb, key_released_entry_cb
<1>9. CASE autoconnect_button_toggled
  <2>1. wanted' = ~autoButton \/ wanted' = wanted BY <1>9 DEF autoconnect_button_toggled
  <2>2. autoButton' = ~autoButton /\ raced' = (raced \/ ~Agreed)
    BY <1>9 DEF autoconnect_button_toggled
  <2>3. IsFlag(wanted') BY <2>1, FlagsAnew
  <2>4. IsFlag(autoButton') /\ IsFlag(raced') BY <2>2, FlagsAnew
  <2> QED BY <1>9, <2>3, <2>4 DEF autoconnect_button_toggled
<1>10. CASE favorite_button_toggled
  BY <1>10, FlagsAnew DEF favorite_button_toggled
<1>11. CASE DaemonServes
  <2>1. IsFlag(autoconnect') /\ IsFlag(favorite') BY <1>11, ServesHeard DEF IsFlag
  <2> QED BY <1>11, <2>1 DEF DaemonServes
<1>12. CASE DaemonFails
  <2>1. wanted' = autoconnect \/ wanted' = wanted BY <1>12 DEF DaemonFails
  <2>2. IsFlag(wanted') BY <2>1
  <2>3. raced' = raced \/ raced' = (raced \/ Head(outbox).property = AutoConnect)
    BY <1>12 DEF DaemonFails
  <2>4. IsFlag(raced') BY <2>3, FlagsAnew
  <2> QED BY <1>12, <2>2, <2>4 DEF DaemonFails
<1>13. CASE DaemonChanges
  <2>1. /\ autoconnect' = autoconnect \/ autoconnect' = ~autoconnect
        /\ favorite' = favorite \/ favorite' = ~favorite
        /\ wanted' = wanted \/ wanted' = ~autoconnect
        /\ raced' = raced \/ raced' = (raced \/ ~Agreed)
    BY <1>13 DEF DaemonChanges
  <2>2. /\ IsFlag(autoconnect') /\ IsFlag(favorite')
        /\ IsFlag(wanted') /\ IsFlag(raced')
    BY <2>1, FlagsAnew
  <2> QED BY <1>13, <2>2 DEF DaemonChanges
<1>14. CASE \E g \in Groups : DaemonApplies(g) BY <1>14 DEF DaemonApplies
<1>15. CASE DaemonDown \/ DaemonUp
  BY <1>15, FlagsAnew DEF DaemonDown, DaemonUp
<1>16. CASE UNCHANGED vars BY <1>16 DEF vars
<1> QED BY <1>1, <1>2, <1>3, <1>4, <1>5, <1>6, <1>7, <1>8, <1>9, <1>10, <1>11,
           <1>12, <1>13, <1>14, <1>15, <1>16 DEF Next, MainLoop, User, Daemon

LEMMA CountsNext ==
    ASSUME Shape, [Next]_vars
    PROVE  Counts'
<1>0. Counts /\ hooks \in 0 .. 2 /\ 0 \in 0 .. 2 /\ known.autoconnect \in BOOLEAN
  BY KnownAuto DEF Shape, Counts
<1>1. ASSUME hooks' \in 0 .. 2, count' = count PROVE Counts'
  BY <1>0, <1>1 DEF Counts
<1>2. {"change", "edit", "ok", "click", "popup", "list", "trouble"} \subseteq DOMAIN Bounds
  BY DEF Bounds
<1>3. CASE UNCHANGED <<hooks, count>> BY <1>0, <1>1, <1>3
<1>4. ASSUME NEW step \in {"change", "edit", "ok", "click", "popup", "list", "trouble"},
             Counted(step), hooks' = hooks
      PROVE  Counts'
  BY <1>0, <1>2, <1>4, CountedType
<1> USE DEF headerVars, history
<1>5. CASE Messages
  BY <1>3, <1>5 DEF Messages, get_services_cb, property_changed_signal_cb,
              set_property_cb, connman_down
<1>6. ASSUME NEW p, property_changed_or_error(p) \/ property_error(p)
      PROVE  Counts'
  <2>1. count' = count /\ (hooks' = hooks \/ update_header(autoButton, favButton, hooks))
    BY <1>6 DEF property_changed_or_error, property_error, service_property_set_cb
  <2> QED BY <1>0, <1>1, <2>1, UpdateHeaderCalls
<1>7. CASE Menu BY <1>3, <1>4, <1>7 DEF Menu, MenuLists, MenuShows, MenuCloses
<1>8. CASE cui_settings_popup
  <2>1. Counted("popup") /\ update_header(FALSE, FALSE, 0)
    BY <1>8 DEF cui_settings_popup
  <2>2. hooks' \in 0 .. 2 BY <1>0, <2>1, UpdateHeaderCalls
  <2> QED BY <1>0, <1>2, <2>1, <2>2, CountedType
<1>9. CASE settings_cancel_callback \/ settings_ok_callback
  BY <1>3, <1>4, <1>9 DEF settings_cancel_callback, settings_ok_callback
<1>10. CASE \/ \E r \in Radios : \E v \in Buttons[r] : toggled_method_cb(r, v)
            \/ \E f \in TextFields, v \in Texts : key_released_entry_cb(f, v)
            \/ autoconnect_button_toggled \/ favorite_button_toggled
  BY <1>4, <1>10 DEF toggled_method_cb, key_released_entry_cb,
              autoconnect_button_toggled, favorite_button_toggled
<1>11. CASE Daemon
  BY <1>3, <1>4, <1>11 DEF Daemon, DaemonServes, DaemonFails, DaemonChanges,
              DaemonApplies, DaemonDown, DaemonUp
<1>12. CASE UNCHANGED vars BY <1>3, <1>12 DEF vars
<1> QED BY <1>5, <1>6, <1>7, <1>8, <1>9, <1>10, <1>11, <1>12 DEF Next, MainLoop, User

LEMMA DaemonNext ==
    ASSUME Shape, [Next]_vars
    PROVE  DaemonTypes'
<1>1. CASE DaemonServes BY <1>1, ServesHeard
<1>2. CASE DaemonChanges BY <1>2, ChangesTell
<1>3. CASE \E g \in Groups : DaemonApplies(g) BY <1>3, AppliesTell
<1>4. CASE UNCHANGED <<config, inUse>> BY <1>4 DEF Shape, DaemonTypes
<1> USE DEF daemonVars
<1>5. CASE MainLoop
  BY <1>4, <1>5 DEF MainLoop, Messages, get_services_cb, property_changed_signal_cb,
              set_property_cb, connman_down, property_changed_or_error, property_error
<1>6. CASE Menu BY <1>4, <1>6 DEF Menu, MenuLists, MenuShows, MenuCloses
<1>7. CASE User
  BY <1>4, <1>7 DEF User, cui_settings_popup, settings_cancel_callback,
              settings_ok_callback, toggled_method_cb, key_released_entry_cb,
              autoconnect_button_toggled, favorite_button_toggled
<1>8. CASE DaemonFails \/ DaemonDown \/ DaemonUp
  BY <1>4, <1>8 DEF DaemonFails, DaemonDown, DaemonUp
<1>9. CASE UNCHANGED vars BY <1>4, <1>9 DEF vars
<1> QED BY <1>1, <1>2, <1>3, <1>5, <1>6, <1>7, <1>8, <1>9 DEF Next, Daemon

-----------------------------------------------------------------------------
(* The invariant *)

Inv ==
    /\ Shape /\ TouchedTold /\ OnlyEdited
    /\ Replies /\ EndTold /\ CallbacksNeedDialog

LEMMA InvInit == Init => Inv
<1> SUFFICES ASSUME Init PROVE Inv
  OBVIOUS
<1>1. Flags BY DEF Init, Flags
<1>2. DaemonTypes
  <2>1. \A f \in Fields : config[f] \in ValuesOf(f) BY DEF Init
  <2>2. DOMAIN config = Fields BY DEF Init
  <2>3. \A r \in Radios : inUse[r] \in Buttons[r] \cup {None}
    BY <2>1, FieldValues DEF Init
  <2> QED BY <2>1, <2>2, <2>3 DEF DaemonTypes
<1>3. outbox = <<>> /\ inbox = <<>> BY DEF Init
<1>4. IsSeq(<<>>) /\ Len(<<>>) = 0 BY SeqEmpty
<1>5. \A i \in 1 .. 0 : FALSE OBVIOUS
<1>6. CallTypes /\ MessageTypes BY <1>3, <1>4, <1>5 DEF CallTypes, MessageTypes
<1>7. ObjectTypes BY NothingOK DEF Init, ObjectTypes
<1>8. WidgetTypes /\ TouchedTold /\ OnlyEdited
  BY ConstAssumption DEF Init, WidgetTypes, TouchedTold, OnlyEdited
<1>9. Counts
  <2>1. \A s \in DOMAIN Bounds : Bounds[s] \in Nat
    <3>1. {MaxChange, MaxEdit, MaxOk, MaxClick, MaxPopup, MaxList, MaxTrouble} \subseteq Nat
      BY ConstAssumption
    <3> QED BY <3>1 DEF Bounds
  <2>2. hooks = 0 /\ count = [step \in DOMAIN Bounds |-> 0] BY DEF Init
  <2> QED BY <2>1, <2>2 DEF Counts
<1>10. Replies
  BY <1>3, <1>4, <1>5 DEF Init, Replies, Awaited, Once, Answered
<1>11. EndTold BY DEF Init, EndTold
<1>12. CallbacksNeedDialog BY DEF Init, CallbacksNeedDialog
<1> QED BY <1>1, <1>2, <1>6, <1>7, <1>8, <1>9, <1>10, <1>11, <1>12 DEF Inv, Shape

LEMMA InvNext == Inv /\ [Next]_vars => Inv'
<1> SUFFICES ASSUME Inv, [Next]_vars PROVE Inv'
  OBVIOUS
<1>0. /\ Shape /\ TouchedTold /\ OnlyEdited /\ Replies /\ EndTold /\ CallbacksNeedDialog
      /\ WidgetTypes /\ KnownOK(known)
  BY DEF Inv, Shape, ObjectTypes
<1>1. WidgetTypes' /\ TouchedTold' /\ OnlyEdited' BY <1>0, FieldSteps, FieldStepKeeps
<1>2. Flags' /\ Counts' /\ DaemonTypes' BY <1>0, FlagsNext, CountsNext, DaemonNext
<1>3. CallTypes' /\ MessageTypes' BY <1>0, QueuesNext
<1>4. ObjectTypes' BY <1>0, ObjectNext
<1>5. Replies' BY <1>0, RepliesNext
<1>6. EndTold' BY <1>0, EndNext
<1>7. CallbacksNeedDialog' BY <1>0, CallbacksNext
<1>8. Shape' BY <1>1, <1>2, <1>3, <1>4 DEF Shape
<1> QED BY <1>1, <1>5, <1>6, <1>7, <1>8 DEF Inv

-----------------------------------------------------------------------------
(* Replies find the service *)

LEMMA RepliesFound == Shape /\ Replies /\ EndTold => RepliesFindService
<1> SUFFICES ASSUME Shape, Replies, EndTold PROVE RepliesFindService
  OBVIOUS
<1> DEFINE pending == {x \in ToSet(outbox) \cup ToSet(inbox) :
                         x.type \in {"SetProperty", "result"} /\ x.valid}
           valid == {m.property : m \in pending}
<1>1. /\ ToSet(outbox) = {outbox[i] : i \in 1 .. Len(outbox)}
      /\ ToSet(inbox) = {inbox[i] : i \in 1 .. Len(inbox)}
  BY SeqLen DEF ToSet, Shape, CallTypes, MessageTypes
<1>2. \A m : IsCall(m) /\ m.type \in {"SetProperty", "result"} => IsSet(m)
  BY DEF IsCall, RemoveCall
<1>3. \A m : IsMessage(m) /\ m.type \in {"SetProperty", "result"} => IsResult(m)
  BY DEF IsMessage, IsChange
<1>4. ASSUME NEW m \in pending PROVE m.property \in modify
  <2>1. m.type \in {"SetProperty", "result"} /\ m.valid OBVIOUS
  <2>2. ASSUME NEW i \in 1 .. Len(outbox), m = outbox[i] PROVE m.property \in modify
    <3>1. IsCall(m) BY <2>2 DEF Shape, CallTypes
    <3>2. Asks(outbox[i], m.property) BY <1>2, <2>1, <2>2, <3>1 DEF Asks
    <3> QED BY <3>2 DEF Replies, Awaited
  <2>3. ASSUME NEW i \in 1 .. Len(inbox), m = inbox[i] PROVE m.property \in modify
    <3>1. IsMessage(m) BY <2>3 DEF Shape, MessageTypes
    <3>2. Answers(inbox[i], m.property) BY <1>3, <2>1, <2>3, <3>1 DEF Answers
    <3> QED BY <3>2 DEF Replies, Awaited
  <2>4. m \in ToSet(outbox) \/ m \in ToSet(inbox) OBVIOUS
  <2> QED BY <1>1, <2>2, <2>3, <2>4
<1>5. valid \subseteq modify BY <1>4
<1>6. ASSUME alive, NoDown(inbox), NEW p \in modify PROVE p \in valid
  <2>1. Waiting(p) BY <1>6 DEF Replies, Answered
  <2>2. ASSUME NEW m, m \in ToSet(outbox) \cup ToSet(inbox),
               Asks(m, p) \/ Answers(m, p)
        PROVE  p \in valid
    <3>1. m \in pending /\ m.property = p BY <2>2 DEF Asks, Answers, IsSet, IsResult
    <3> HIDE DEF pending
    <3> QED BY <3>1
  <2>3. \A i \in 1 .. Len(outbox) : outbox[i] \in ToSet(outbox) BY <1>1
  <2>4. \A i \in 1 .. Len(inbox) : inbox[i] \in ToSet(inbox) BY <1>1
  <2> HIDE DEF valid
  <2> QED BY <2>1, <2>2, <2>3, <2>4 DEF Waiting
<1>7. NoDown(inbox) \/ \E m \in ToSet(inbox) : m.type = "down"
  BY <1>1 DEF NoDown
<1> HIDE DEF valid
<1>8. ~alive /\ NoDown(inbox) => modify = {}
  BY DEF EndTold, NoDown, Shape, ObjectTypes
<1>9. modify # valid => \E m \in ToSet(inbox) : m.type = "down"
  BY <1>5, <1>6, <1>7, <1>8
<1> QED BY <1>5, <1>9, Zenon DEF RepliesFindService, valid, pending

-----------------------------------------------------------------------------
(* What OK sends *)

(* No step but OK sends a call for a group.                                 *)
LEMMA OnlyOkSends ==
    ASSUME Shape, [Next]_vars, NEW g \in Groups, Sends(g)
    PROVE  Last(outbox') = SetProperty(g, Configuration(g))
<1>0. /\ CallTypes /\ Len(outbox) \in Nat /\ Len(outbox') = Len(outbox) + 1
      /\ outbox'[Len(outbox')].type = "SetProperty"
      /\ outbox'[Len(outbox')].property = g
      /\ Last(outbox') = outbox'[Len(outbox')]
  BY SeqLen DEF Sends, Last, Shape, CallTypes
<1>1. Len(outbox') \in 1 .. Len(outbox') /\ Len(outbox') \notin 1 .. Len(outbox)
  BY <1>0
<1>2. alive \/ Len(outbox') # Len(outbox) BY <1>0
<1>3. RemoveCall.type # "SetProperty" BY DEF RemoveCall
<1>4. ASSUME NEW p, NEW v, NEW n \in 0 .. 2, Setting(p, v, n)
      PROVE  Last(outbox') = SetProperty(p, v) /\ p = g
  <2>1. alive BY <1>0, <1>4 DEF Setting, Sent
  <2>2. /\ Len(outbox') = Len(outbox) + 1 + n
        /\ outbox'[Len(outbox) + 1] = SetProperty(p, v)
    BY <1>0, <1>4, <2>1, SettingSent
  <2>3. outbox'[Len(outbox')] = SetProperty(p, v) BY <1>0, <2>2
  <2>4. SetProperty(p, v).property = p BY DEF SetProperty
  <2> QED BY <1>0, <2>3, <2>4
<1>5. CASE HeaderCalls
  <2>1. ~CallsStay BY <1>0 DEF CallsStay
  <2>2. ASSUME Removing PROVE FALSE
    <3>1. PICK n \in 0 .. 2 : outbox' = Sent(outbox, Removes(n)) BY <2>2 DEF Removing
    <3>2. n \in Nat OBVIOUS
    <3>3. /\ IsSeq(Removes(n)) /\ Len(Removes(n)) = n
          /\ \A i \in 1 .. n : Removes(n)[i] = RemoveCall
      BY <3>2, RemovesSeq DEF Removes
    <3>4. alive BY <1>0, <3>1 DEF Sent
    <3>5. /\ \A i \in Len(outbox) + 1 .. Len(outbox') :
               i - Len(outbox) \in 1 .. n /\ outbox'[i] = Removes(n)[i - Len(outbox)]
      BY <1>0, <3>1, <3>3, <3>4, SentIs
    <3>6. Len(outbox') \in Len(outbox) + 1 .. Len(outbox') BY <1>0
    <3> QED BY <1>0, <1>3, <3>3, <3>5, <3>6
  <2>3. \A v : \A n \in 0 .. 2 : ~Setting(AutoConnect, v, n)
    BY <1>4, NoHeaderGroup
  <2> QED BY <1>5, <2>1, <2>2, <2>3 DEF HeaderCalls
<1>6. CASE OkCalls
  <2>1. ~CallsStay BY <1>0 DEF CallsStay
  <2>2. PICK h \in Groups : Setting(h, Configuration(h), 0)
    BY <1>6, <2>1 DEF OkCalls
  <2>3. 0 \in 0 .. 2 OBVIOUS
  <2> QED BY <1>4, <2>2, <2>3
<1>7. CASE Takes \/ Tells \/ set_property_cb
  BY <1>0, <1>7 DEF Takes, Tells, CallsStay, set_property_cb
<1>8. CASE Freed
  <2>1. Len(Cancelled(outbox)) = Len(outbox) BY <1>0, CancelledSeq DEF CallTypes
  <2> QED BY <1>0, <1>8, <2>1 DEF Freed
<1>9. CASE DaemonServes \/ DaemonFails
  <2>1. /\ outbox # <<>>
        /\ \/ outbox' = Tail(outbox)
           \/ /\ IsSet(Head(outbox))
              /\ outbox' = [outbox EXCEPT ![1].valid = FALSE]
    BY <1>9, ServesHeard, FailsHeard
  <2>2. Len(Tail(outbox)) = Len(outbox) - 1 BY <1>0, <2>1, SeqTail DEF CallTypes
  <2>3. ASSUME outbox' = Tail(outbox) PROVE FALSE
    <3>1. Len(outbox') = Len(outbox) - 1 BY <2>2, <2>3
    <3> QED BY <1>0, <3>1
  <2>4. Len(outbox') = Len(outbox) BY <1>0, <2>1, <2>3, Outdated
  <2> QED BY <1>0, <2>4
<1>10. CASE DaemonDown
  <2>1. Len(outbox') = 0 BY <1>10, DownHeard, SeqEmpty
  <2> QED BY <1>0, <2>1
<1> QED BY <1>5, <1>6, <1>7, <1>8, <1>9, <1>10, TrafficSteps DEF Traffic

(* A call sent for a group has its texts and toggled buttons.               *)
LEMMA SendsShown ==
    ASSUME WidgetTypes, TouchedTold, NEW g \in Groups, NEW f \in g \cap Fields,
           Last(outbox') = SetProperty(g, Configuration(g))
    PROVE  /\ f \in TextFields => Last(outbox').value[f] = text[f]
           /\ f \in touched => Last(outbox').value[f] = active[f]
<1>1. Last(outbox').value = Configuration(g) BY DEF SetProperty
<1>2. Configuration(g)[f] = IF f \in Radios THEN method[f] ELSE text[f]
  BY DEF Configuration
<1>3. f \in TextFields => f \notin Radios BY DEF TextFields
<1>4. f \in touched => f \in Radios /\ method[f] = active[f]
  BY DEF TouchedTold, WidgetTypes
<1> QED BY <1>1, <1>2, <1>3, <1>4

-----------------------------------------------------------------------------
(* The echo of the header's button *)

(* A call sets AutoConnect to what is wanted; while the daemon has it       *)
(* otherwise, one such call is on its way, and no more.                     *)
Sets(m) == m.type = "SetProperty" /\ m.property = AutoConnect

CallsRight ==
    /\ \A i \in 1 .. Len(outbox) : Sets(outbox[i]) => outbox[i].value = wanted
    /\ autoconnect = wanted
         \/ \E i \in 1 .. Len(outbox) :
              Sets(outbox[i]) /\ \A j \in 1 .. Len(outbox) : Sets(outbox[j]) => j = i

(* Message m says that AutoConnect is v.                                    *)
Says(m, v) ==
    \/ m.type = "services" /\ m.known.autoconnect = v
    \/ m.type = "PropertyChanged" /\ m.property = AutoConnect /\ m.value = v

(* The daemon has what is wanted, and so say all messages behind the k-th.  *)
AllRight(k) ==
    /\ autoconnect = wanted
    /\ \A i \in 1 .. Len(inbox) : i > k => \A v : Says(inbox[i], v) => v = wanted

(* Once it is known, or said, that AutoConnect is as wanted, nothing says   *)
(* otherwise any more; nor where nothing is known of a service that is      *)
(* shown, or will not be when a message has been read.                      *)
Settled == IF live THEN known.autoconnect = wanted ELSE open \/ item
Settles(m) == Says(m, wanted) \/ m.type = "down"

OnceRight ==
    /\ Settled => AllRight(0)
    /\ \A i \in 1 .. Len(inbox) : Settles(inbox[i]) => AllRight(i)

(* What would be echoed is right: what is known is, or the button has to be *)
(* toggled first to show what is known.  Or nothing is echoed until an      *)
(* answer comes, and what is wanted is said before.                         *)
Fine == known.autoconnect = wanted \/ autoButton # wanted

Said(n) == \E j \in 1 .. Len(inbox) : j < n /\ Says(inbox[j], wanted)

EchoWaits ==
    /\ AutoConnect \in modify
    /\ \A i \in 1 .. Len(inbox) : Answers(inbox[i], AutoConnect) => Said(i)
    /\ autoconnect # wanted \/ Said(Len(inbox) + 1)
         \/ \A i \in 1 .. Len(outbox) : ~Asks(outbox[i], AutoConnect)

Header == open /\ live => Fine \/ EchoWaits

(* An item whose service left the table is not the dialog's.                *)
Owned == (item /\ ~inTable => ~selected) /\ (selected => open)

EchoInv == Owned /\ (raced \/ (CallsRight /\ OnceRight /\ Header))

(* Messages that say the same; a message that says what the daemon has.     *)
Alike(m, n) == m.type = n.type /\ \A v : Says(m, v) <=> Says(n, v)
Tells_AutoConnect(m, b) == m.type # "down" /\ \A v : Says(m, v) => v = b

(* Messages that come behind the others and say what the daemon has.        *)
LEMMA OnceGrown ==
    ASSUME OnceRight, wanted' = wanted, autoconnect' \in {autoconnect, wanted},
           Len(inbox) \in Nat, Len(inbox') \in Nat, Len(inbox') >= Len(inbox),
           \A i \in 1 .. Len(inbox) : Alike(inbox'[i], inbox[i]),
           \A i \in Len(inbox) + 1 .. Len(inbox') :
             Tells_AutoConnect(inbox'[i], autoconnect'),
           Settled' => Settled
    PROVE  OnceRight'
<1>1. \A i \in 1 .. Len(inbox') : i \in 1 .. Len(inbox) \/ i \in Len(inbox) + 1 .. Len(inbox')
  OBVIOUS
<1>2. ASSUME NEW k, AllRight(k)
      PROVE  AllRight(k)'
  <2>1. autoconnect' = wanted' BY <1>2 DEF AllRight
  <2>2. ASSUME NEW i \in 1 .. Len(inbox'), i > k, NEW v, Says(inbox'[i], v)
        PROVE  v = wanted'
    <3>1. CASE i \in 1 .. Len(inbox) BY <1>2, <2>2, <3>1 DEF AllRight, Alike
    <3>2. CASE i \in Len(inbox) + 1 .. Len(inbox')
      BY <2>1, <2>2, <3>2 DEF Tells_AutoConnect
    <3> QED BY <1>1, <3>1, <3>2
  <2>3. \A i \in 1 .. Len(inbox') : i > k => \A v : Says(inbox'[i], v) => v = wanted'
    BY <2>2
  <2> QED BY <2>1, <2>3 DEF AllRight, Says
<1>3. Settled' => AllRight(0)' BY <1>2 DEF OnceRight
<1>4. ASSUME NEW i \in 1 .. Len(inbox'), Settles(inbox[i])'
      PROVE  AllRight(i)'
  <2>0. Says(inbox'[i], wanted') \/ inbox'[i].type = "down" BY <1>4 DEF Settles, Says
  <2>1. CASE i \in 1 .. Len(inbox)
    <3>1. Settles(inbox[i]) BY <2>0, <2>1 DEF Settles, Alike
    <3> QED BY <1>2, <2>1, <3>1 DEF OnceRight
  <2>2. CASE i \in Len(inbox) + 1 .. Len(inbox')
    <3>1. wanted' = autoconnect' BY <2>0, <2>2 DEF Tells_AutoConnect
    <3>2. ASSUME NEW j \in 1 .. Len(inbox'), j > i, NEW v, Says(inbox'[j], v)
          PROVE  v = wanted'
      <4>1. j \in Len(inbox) + 1 .. Len(inbox') BY <2>2, <3>2
      <4> QED BY <3>1, <3>2, <4>1 DEF Tells_AutoConnect
    <3>3. \A j \in 1 .. Len(inbox') : j > i => \A v : Says(inbox'[j], v) => v = wanted'
      BY <3>2
    <3> QED BY <3>1, <3>3 DEF AllRight, Says
  <2> QED BY <1>1, <2>1, <2>2
<1> QED BY <1>3, <1>4 DEF OnceRight

(* The first message is read.                                               *)
LEMMA OnceShifted ==
    ASSUME OnceRight, wanted' = wanted, autoconnect' = autoconnect,
           Len(inbox) \in Nat, Len(inbox) >= 1, Len(inbox') = Len(inbox) - 1,
           \A i \in 1 .. Len(inbox) - 1 : Alike(inbox'[i], inbox[i + 1]),
           Settled' => Settled \/ Settles(inbox[1])
    PROVE  OnceRight'
<1>1. \A i \in 1 .. Len(inbox') : i + 1 \in 1 .. Len(inbox) /\ Alike(inbox'[i], inbox[i + 1])
  OBVIOUS
<1>2. ASSUME NEW k \in Nat, AllRight(k + 1)
      PROVE  AllRight(k)'
  <2>1. \A i \in 1 .. Len(inbox') : i > k => i + 1 > k + 1 OBVIOUS
  <2>2. \A i \in 1 .. Len(inbox') : i > k => \A v : Says(inbox'[i], v) => v = wanted'
    BY <1>1, <1>2, <2>1 DEF AllRight, Alike
  <2>3. autoconnect' = wanted' BY <1>2 DEF AllRight
  <2> QED BY <2>2, <2>3 DEF AllRight, Says
<1>3. 1 \in 1 .. Len(inbox) /\ 0 + 1 = 1 OBVIOUS
<1>4. AllRight(0) => AllRight(1)
  <2>1. \A i \in 1 .. Len(inbox) : i > 1 => i > 0 OBVIOUS
  <2> QED BY <2>1 DEF AllRight
<1>5. Settled' => AllRight(0)' BY <1>2, <1>3, <1>4 DEF OnceRight
<1>6. ASSUME NEW i \in 1 .. Len(inbox'), Settles(inbox[i])'
      PROVE  AllRight(i)'
  <2>1. Says(inbox'[i], wanted') \/ inbox'[i].type = "down" BY <1>6 DEF Settles, Says
  <2>2. Settles(inbox[i + 1]) BY <1>1, <2>1 DEF Settles, Alike
  <2> QED BY <1>1, <1>2, <2>2 DEF OnceRight
<1> QED BY <1>5, <1>6 DEF OnceRight

LEMMA SaysFlag ==
    ASSUME NEW m, NEW v, IsMessage(m), Says(m, v)
    PROVE  v \in BOOLEAN
<1>1. CASE m.type = "services" /\ m.known.autoconnect = v
  BY <1>1 DEF IsMessage, KnownOK, IsChange, IsResult
<1>2. CASE m.type = "PropertyChanged" /\ m.property = AutoConnect /\ m.value = v
  <2>1. IsChange(m) BY <1>2 DEF IsMessage, IsResult
  <2> QED BY <1>2, <2>1, Kinds DEF IsChange
<1> QED BY <1>1, <1>2 DEF Says

(* A call is refused or lost, and what the daemon has is wanted again: if   *)
(* that is news, nothing has said yet that it is otherwise.                 *)
LEMMA OnceGivenUp ==
    ASSUME OnceRight, {wanted, autoconnect, known.autoconnect} \subseteq BOOLEAN,
           wanted' = autoconnect, UNCHANGED <<autoconnect, known, inTable, selected, open, item>>,
           Len(inbox) \in Nat, Len(inbox') = Len(inbox) + 1,
           \A i \in 1 .. Len(inbox) : inbox'[i] = inbox[i] /\ IsMessage(inbox[i]),
           \A v : ~Says(inbox'[Len(inbox) + 1], v)
    PROVE  OnceRight' /\ (wanted' # wanted /\ live => known.autoconnect = wanted')
<1>1. \A i \in 1 .. Len(inbox') : i \in 1 .. Len(inbox) \/ i = Len(inbox) + 1
  OBVIOUS
<1>2. ASSUME NEW k, \A i \in 1 .. Len(inbox) : i > k => \A v : Says(inbox[i], v) => v = wanted'
      PROVE  AllRight(k)'
  <2>1. \A i \in 1 .. Len(inbox') : i > k => \A v : Says(inbox'[i], v) => v = wanted'
    BY <1>1, <1>2
  <2> QED BY <2>1 DEF AllRight, Says
<1>3. CASE wanted' = wanted
  <2>1. \A k : AllRight(k) => AllRight(k)' BY <1>2, <1>3 DEF AllRight
  <2>2. Settled' => Settled BY <1>3 DEF Settled, live
  <2>3. ASSUME NEW i \in 1 .. Len(inbox'), Settles(inbox[i])' PROVE AllRight(i)'
    <3>1. CASE i \in 1 .. Len(inbox)
      <4>1. Settles(inbox[i]) BY <1>3, <2>3, <3>1 DEF Settles, Says
      <4> QED BY <2>1, <3>1, <4>1 DEF OnceRight
    <3>2. CASE i = Len(inbox) + 1
      <4>1. \A j \in 1 .. Len(inbox) : ~(j > i) BY <3>2
      <4> QED BY <1>2, <4>1
    <3> QED BY <1>1, <3>1, <3>2
  <2> QED BY <1>3, <2>1, <2>2, <2>3 DEF OnceRight
<1>4. CASE wanted' # wanted
  <2>1. \A k : ~AllRight(k) BY <1>4 DEF AllRight
  <2>2. ~Settled /\ \A i \in 1 .. Len(inbox) : ~Says(inbox[i], wanted)
    BY <2>1 DEF OnceRight, Settles
  <2>3. \A i \in 1 .. Len(inbox) : \A v : Says(inbox[i], v) => v = wanted'
    BY <1>4, <2>2, SaysFlag
  <2>4. \A k : AllRight(k)' BY <1>2, <2>3
  <2>5. live => known.autoconnect = wanted' BY <1>4, <2>2 DEF Settled
  <2> QED BY <2>4, <2>5 DEF OnceRight
<1> QED BY <1>3, <1>4

(* AutoConnect is set by someone else, when nothing says anything of it.    *)
LEMMA OnceAnew ==
    ASSUME ~Settled' \/ autoconnect' = wanted',
           Len(inbox) \in Nat, Len(inbox') \in Nat, Len(inbox') >= Len(inbox),
           \A i \in 1 .. Len(inbox) : inbox'[i] = inbox[i] /\ inbox[i].type # "down"
                                      /\ \A v : ~Says(inbox[i], v),
           \A i \in Len(inbox) + 1 .. Len(inbox') :
             autoconnect' = wanted' /\ Tells_AutoConnect(inbox'[i], autoconnect')
    PROVE  OnceRight'
<1>1. \A i \in 1 .. Len(inbox') : i \in 1 .. Len(inbox) \/ i \in Len(inbox) + 1 .. Len(inbox')
  OBVIOUS
<1>2. \A i \in 1 .. Len(inbox') : \A v : Says(inbox'[i], v) => autoconnect' = wanted' /\ v = wanted'
  BY <1>1 DEF Tells_AutoConnect
<1>3. \A k : autoconnect' = wanted' => AllRight(k)' BY <1>2 DEF AllRight, Says
<1>4. ASSUME NEW i \in 1 .. Len(inbox'), Settles(inbox[i])' PROVE autoconnect' = wanted'
  <2>1. Says(inbox'[i], wanted') \/ inbox'[i].type = "down" BY <1>4 DEF Settles, Says
  <2>2. CASE i \in 1 .. Len(inbox) BY <2>1, <2>2
  <2>3. CASE i \in Len(inbox) + 1 .. Len(inbox') BY <2>3
  <2> QED BY <1>1, <2>2, <2>3
<1> QED BY <1>3, <1>4 DEF OnceRight

(* The calls: they stay, with others behind them; or the first is served or *)
(* refused.                                                                 *)
LEMMA RightCallsKept ==
    ASSUME CallsRight, wanted' = wanted, autoconnect' = autoconnect,
           Len(outbox) \in Nat, Len(outbox') \in Nat, Len(outbox') >= Len(outbox),
           \A i \in 1 .. Len(outbox) :
             /\ Sets(outbox'[i]) <=> Sets(outbox[i])
             /\ Sets(outbox[i]) => outbox'[i].value = outbox[i].value,
           \A i \in Len(outbox) + 1 .. Len(outbox') :
             Sets(outbox'[i]) => autoconnect = wanted /\ outbox'[i].value = wanted
    PROVE  CallsRight'
<1>1. \A i \in 1 .. Len(outbox') :
         i \in 1 .. Len(outbox) \/ i \in Len(outbox) + 1 .. Len(outbox')
  OBVIOUS
<1>2. \A i \in 1 .. Len(outbox) : i \in 1 .. Len(outbox') OBVIOUS
<1>3. \A i \in 1 .. Len(outbox') : Sets(outbox'[i]) => outbox'[i].value = wanted'
  BY <1>1 DEF CallsRight
<1>4. CASE autoconnect = wanted BY <1>3, <1>4 DEF CallsRight, Sets
<1>5. CASE autoconnect # wanted
  <2>1. PICK i \in 1 .. Len(outbox) :
          Sets(outbox[i]) /\ \A j \in 1 .. Len(outbox) : Sets(outbox[j]) => j = i
    BY <1>5 DEF CallsRight
  <2>2. \A j \in 1 .. Len(outbox') : Sets(outbox'[j]) => j = i BY <1>1, <1>5, <2>1
  <2>3. i \in 1 .. Len(outbox') /\ Sets(outbox'[i]) BY <1>2, <2>1
  <2> QED BY <1>3, <2>2, <2>3 DEF CallsRight, Sets
<1> QED BY <1>4, <1>5

LEMMA RightCallsTaken ==
    ASSUME CallsRight, CallTypes, outbox # <<>>, outbox' = Tail(outbox),
           Sets(outbox[1]) => /\ autoconnect' = wanted'
                              /\ wanted' = wanted \/ autoconnect # wanted,
           ~Sets(outbox[1]) => UNCHANGED <<wanted, autoconnect>>
    PROVE  CallsRight'
<1>0. /\ Len(outbox) \in Nat /\ Len(outbox) >= 1 /\ Len(outbox') = Len(outbox) - 1
      /\ \A i \in 1 .. Len(outbox) - 1 : outbox'[i] = outbox[i + 1]
  BY SeqTail DEF CallTypes
<1>1. \A i \in 1 .. Len(outbox') : i + 1 \in 1 .. Len(outbox) /\ i + 1 # 1
                                   /\ outbox'[i] = outbox[i + 1]
  BY <1>0
<1>2. 1 \in 1 .. Len(outbox) BY <1>0
<1>3. CASE autoconnect # wanted
  <2>1. PICK k \in 1 .. Len(outbox) :
          Sets(outbox[k]) /\ \A j \in 1 .. Len(outbox) : Sets(outbox[j]) => j = k
    BY <1>3 DEF CallsRight
  <2>2. CASE Sets(outbox[1])
    <3>1. \A i \in 1 .. Len(outbox') : ~Sets(outbox'[i]) BY <1>1, <1>2, <2>1, <2>2
    <3> QED BY <2>2, <3>1 DEF CallsRight, Sets
  <2>3. CASE ~Sets(outbox[1])
    <3>1. k - 1 \in 1 .. Len(outbox') /\ (k - 1) + 1 = k
      <4>1. k # 1 BY <2>1, <2>3
      <4> QED BY <1>0, <4>1
    <3>2. Sets(outbox'[k - 1]) BY <1>1, <2>1, <3>1
    <3>3. \A j \in 1 .. Len(outbox') : Sets(outbox'[j]) => j + 1 = k BY <1>1, <2>1
    <3>4. \A j \in 1 .. Len(outbox') : Sets(outbox'[j]) => j = k - 1 BY <1>0, <3>3
    <3>5. \A j \in 1 .. Len(outbox') : Sets(outbox'[j]) => outbox'[j].value = wanted'
      BY <1>1, <2>3 DEF CallsRight
    <3> QED BY <3>1, <3>2, <3>4, <3>5 DEF CallsRight, Sets
  <2> QED BY <2>2, <2>3
<1>4. CASE autoconnect = wanted
  <2>1. wanted' = wanted /\ autoconnect' = wanted' BY <1>4
  <2>2. \A j \in 1 .. Len(outbox') : Sets(outbox'[j]) => outbox'[j].value = wanted'
    BY <1>1, <2>1 DEF CallsRight
  <2> QED BY <2>1, <2>2 DEF CallsRight, Sets
<1> QED BY <1>3, <1>4

(* What is said for the header, and its wait.                               *)
LEMMA HeaderStays ==
    ASSUME Header, open' /\ live' => open /\ live, UNCHANGED <<wanted, autoButton>>,
           known'.autoconnect = known.autoconnect,
           EchoWaits => EchoWaits'
    PROVE  Header'
<1>1. CASE ~(open' /\ live') BY <1>1 DEF Header
<1>2. CASE open' /\ live' /\ Fine BY <1>2 DEF Header, Fine
<1>3. CASE open' /\ live' /\ ~Fine BY <1>3 DEF Header
<1> QED BY <1>1, <1>2, <1>3

LEMMA SaidGrown ==
    ASSUME wanted' = wanted, Len(inbox) \in Nat, Len(inbox') \in Nat, Len(inbox') >= Len(inbox),
           \A i \in 1 .. Len(inbox) : inbox'[i] = inbox[i],
           NEW n \in Nat, NEW m \in Nat, n <= m, Said(n)
    PROVE  Said(m)'
<1>1. PICK j \in 1 .. Len(inbox) : j < n /\ Says(inbox[j], wanted) BY DEF Said
<1>2. j \in 1 .. Len(inbox') /\ j < m BY <1>1
<1>3. Says(inbox'[j], wanted') BY <1>1
<1> QED BY <1>2, <1>3 DEF Said, Says

LEMMA WaitsGrown ==
    ASSUME EchoWaits, AutoConnect \in modify', UNCHANGED <<wanted, autoconnect>>,
           Len(inbox) \in Nat, Len(inbox') \in Nat, Len(inbox') >= Len(inbox),
           \A i \in 1 .. Len(inbox) : inbox'[i] = inbox[i],
           \A i \in Len(inbox) + 1 .. Len(inbox') : ~Answers(inbox'[i], AutoConnect),
           \A i \in 1 .. Len(outbox') : Asks(outbox'[i], AutoConnect) =>
             \E k \in 1 .. Len(outbox) : Asks(outbox[k], AutoConnect)
    PROVE  EchoWaits'
<1>1. \A i \in 1 .. Len(inbox') : i \in 1 .. Len(inbox) \/ i \in Len(inbox) + 1 .. Len(inbox')
  OBVIOUS
<1>2. \A n, m \in Nat : n <= m /\ Said(n) => Said(m)' BY SaidGrown
<1>3. \A i \in 1 .. Len(inbox') : Answers(inbox'[i], AutoConnect) => Said(i)'
  <2>1. \A i \in 1 .. Len(inbox') : i \in Nat /\ i <= i OBVIOUS
  <2> QED BY <1>1, <1>2, <2>1 DEF EchoWaits
<1>4. Said(Len(inbox) + 1) => Said(Len(inbox) + 1)'
  <2>1. Len(inbox) + 1 \in Nat /\ Len(inbox') + 1 \in Nat /\ Len(inbox) + 1 <= Len(inbox') + 1
    OBVIOUS
  <2>2. PICK m : m = Len(inbox') + 1 OBVIOUS
  <2>3. Said(Len(inbox) + 1) => Said(m)' BY <1>2, <2>1, <2>2
  <2> QED BY <2>2, <2>3 DEF Said
<1>5. autoconnect' # wanted' \/ Said(Len(inbox) + 1)'
        \/ \A i \in 1 .. Len(outbox') : ~Asks(outbox'[i], AutoConnect)
  BY <1>4 DEF EchoWaits
<1> QED BY <1>3, <1>5 DEF EchoWaits, Answers, Asks, IsResult, IsSet

LEMMA WaitsShifted ==
    ASSUME EchoWaits, AutoConnect \in modify', UNCHANGED <<wanted, autoconnect, outbox>>,
           Len(inbox) \in Nat, Len(inbox) >= 1, Len(inbox') = Len(inbox) - 1,
           \A i \in 1 .. Len(inbox) - 1 : inbox'[i] = inbox[i + 1],
           ~Says(inbox[1], wanted)
    PROVE  EchoWaits'
<1>1. \A i \in 1 .. Len(inbox') : i + 1 \in 1 .. Len(inbox) /\ inbox'[i] = inbox[i + 1]
  OBVIOUS
<1>2. ASSUME NEW n \in Nat, Said(n + 1) PROVE Said(n)'
  <2>1. PICK j \in 1 .. Len(inbox) : j < n + 1 /\ Says(inbox[j], wanted) BY <1>2 DEF Said
  <2>2. j # 1 BY <2>1
  <2>3. j - 1 \in 1 .. Len(inbox') /\ j - 1 < n /\ (j - 1) + 1 = j BY <2>1, <2>2
  <2>4. Says(inbox'[j - 1], wanted') BY <1>1, <2>1, <2>3
  <2> QED BY <2>3, <2>4 DEF Said, Says
<1>3. \A i \in 1 .. Len(inbox') : Answers(inbox'[i], AutoConnect) => Said(i)'
  <2>1. \A i \in 1 .. Len(inbox') : i \in Nat OBVIOUS
  <2> QED BY <1>1, <1>2, <2>1 DEF EchoWaits
<1>4. Said(Len(inbox) + 1) => Said(Len(inbox) + 1)'
  <2>1. Len(inbox) \in Nat /\ Len(inbox') + 1 = Len(inbox) OBVIOUS
  <2>2. PICK m : m = Len(inbox) OBVIOUS
  <2>3. Said(m + 1) => Said(m)' BY <1>2, <2>1, <2>2
  <2> QED BY <2>1, <2>2, <2>3 DEF Said
<1>5. autoconnect' # wanted' \/ Said(Len(inbox) + 1)'
        \/ \A i \in 1 .. Len(outbox') : ~Asks(outbox'[i], AutoConnect)
  BY <1>4 DEF EchoWaits
<1> QED BY <1>3, <1>5 DEF EchoWaits, Answers, Asks, IsResult, IsSet

LEMMA AppendedAll ==
    ASSUME NEW q, NEW s, IsSeq(q), NEW r, r \in {q, Append(q, s)}
    PROVE  /\ IsSeq(r) /\ Len(r) \in Nat /\ Len(r) >= Len(q)
           /\ \A i \in 1 .. Len(q) : r[i] = q[i]
           /\ \A i \in Len(q) + 1 .. Len(r) : r[i] = s
<1>0. Len(q) \in Nat BY SeqLen
<1>1. CASE r = q BY <1>0, <1>1
<1>2. CASE r = Append(q, s)
  <2>1. /\ IsSeq(r) /\ Len(r) = Len(q) + 1
        /\ \A i \in 1 .. Len(q) : r[i] = q[i]
        /\ r[Len(q) + 1] = s
    BY <1>2, SeqAppend
  <2>2. \A i \in Len(q) + 1 .. Len(r) : i = Len(q) + 1 BY <1>0, <2>1
  <2> QED BY <1>0, <2>1, <2>2
<1> QED BY <1>1, <1>2

(* Calls are made, of other kinds.                                          *)
Quiet ==
    /\ Len(outbox) \in Nat /\ Len(outbox') \in Nat /\ Len(outbox') >= Len(outbox)
    /\ \A i \in 1 .. Len(outbox) : outbox'[i] = outbox[i]
    /\ \A i \in Len(outbox) + 1 .. Len(outbox') : ~Sets(outbox'[i])
    /\ AutoConnect \in modify <=> AutoConnect \in modify'

LEMMA OtherCalls ==
    /\ ~Sets(RemoveCall)
    /\ \A p, v : Sets(SetProperty(p, v)) <=> p = AutoConnect
    /\ \A m, p : Asks(m, p) => m.type = "SetProperty" /\ m.property = p
  BY DEF Sets, RemoveCall, SetProperty, Asks, IsSet

LEMMA QuietCalls ==
    ASSUME CallTypes, CallsStay \/ Removing \/ \E g \in Groups : \E v : Setting(g, v, 0)
    PROVE  Quiet
<1>0. IsSeq(outbox) /\ Len(outbox) \in Nat BY SeqLen DEF CallTypes
<1>1. CASE CallsStay BY <1>0, <1>1 DEF CallsStay, Quiet
<1>2. CASE outbox' = outbox /\ (AutoConnect \in modify <=> AutoConnect \in modify')
  BY <1>0, <1>2 DEF Quiet
<1>3. ASSUME NEW n \in 0 .. 2, outbox' = Sent(outbox, Removes(n)), modify' = modify, alive
      PROVE  Quiet
  <2>1. IsSeq(Removes(n)) /\ Len(Removes(n)) = n /\ \A i \in 1 .. n : Removes(n)[i] = RemoveCall
    <3>1. n \in Nat OBVIOUS
    <3> QED BY <3>1, RemovesSeq DEF Removes
  <2>2. /\ Len(outbox') = Len(outbox) + n
        /\ \A i \in 1 .. Len(outbox) : outbox'[i] = outbox[i]
        /\ \A i \in Len(outbox) + 1 .. Len(outbox') :
             i - Len(outbox) \in 1 .. n /\ outbox'[i] = Removes(n)[i - Len(outbox)]
    BY <1>3, <2>1, SentIs
  <2>3. \A i \in Len(outbox) + 1 .. Len(outbox') : outbox'[i] = RemoveCall BY <2>1, <2>2
  <2> QED BY <1>0, <1>3, <2>2, <2>3, OtherCalls DEF Quiet
<1>4. ASSUME NEW g \in Groups, NEW v, Setting(g, v, 0), alive
      PROVE  Quiet
  <2>0. 0 \in 0 .. 2 OBVIOUS
  <2>1. LET L == Len(outbox)
        IN  /\ L \in Nat /\ Len(outbox') = L + 1
            /\ \A i \in 1 .. L : outbox'[i] = outbox[i]
            /\ outbox'[L + 1] = SetProperty(g, v)
    BY <1>4, <2>0, SettingSent
  <2>2. \A i \in Len(outbox) + 1 .. Len(outbox') : i = Len(outbox) + 1 BY <2>1
  <2>3. ~Sets(SetProperty(g, v)) BY OtherCalls, NoHeaderGroup
  <2>4. modify' = modify \cup {g} BY <1>4 DEF Setting
  <2>5. AutoConnect \in modify <=> AutoConnect \in modify' BY <2>4, NoHeaderGroup
  <2> QED BY <1>0, <2>1, <2>2, <2>3, <2>5 DEF Quiet
<1>5. CASE Removing
  <2>1. PICK n \in 0 .. 2 : outbox' = Sent(outbox, Removes(n)) /\ modify' = modify
    BY <1>5 DEF Removing
  <2>2. CASE alive BY <1>3, <2>1, <2>2
  <2>3. CASE ~alive BY <1>2, <2>1, <2>3 DEF Sent
  <2> QED BY <2>2, <2>3
<1>6. ASSUME NEW g \in Groups, NEW v, Setting(g, v, 0) PROVE Quiet
  <2>1. CASE alive BY <1>4, <1>6, <2>1
  <2>2. CASE ~alive
    <3>1. modify' = modify \cup {g} /\ outbox' = outbox BY <1>6, <2>2 DEF Setting, Sent
    <3> QED BY <1>2, <3>1, NoHeaderGroup
  <2> QED BY <2>1, <2>2
<1> QED BY <1>1, <1>5, <1>6

EchoGood == CallsRight /\ OnceRight /\ Header

LEMMA AlikeSame ==
    /\ \A m : Alike(m, m)
    /\ \A m, n : m = n => Alike(m, n)
  BY DEF Alike

LEMMA QuietRight ==
    ASSUME CallsRight, Quiet, UNCHANGED <<wanted, autoconnect>>
    PROVE  CallsRight'
<1>1. \A i \in 1 .. Len(outbox) : /\ Sets(outbox'[i]) <=> Sets(outbox[i])
                                  /\ Sets(outbox[i]) => outbox'[i].value = outbox[i].value
  BY DEF Quiet
<1> QED BY <1>1, RightCallsKept DEF Quiet

LEMMA QuietAsks ==
    ASSUME Quiet
    PROVE  \A i \in 1 .. Len(outbox') : Asks(outbox'[i], AutoConnect) =>
             \E k \in 1 .. Len(outbox) : Asks(outbox[k], AutoConnect)
<1>1. \A i \in 1 .. Len(outbox') :
         i \in 1 .. Len(outbox) \/ i \in Len(outbox) + 1 .. Len(outbox')
  BY DEF Quiet
<1>2. \A m : Asks(m, AutoConnect) => Sets(m) BY DEF Asks, Sets, IsSet
<1> QED BY <1>1, <1>2 DEF Quiet

LEMMA OnceStays ==
    ASSUME MessageTypes, OnceRight, inbox' = inbox, UNCHANGED <<wanted, autoconnect>>,
           Settled' => Settled
    PROVE  OnceRight'
<1>1. Len(inbox) \in Nat BY SeqLen DEF MessageTypes
<1>2. \A i \in Len(inbox) + 1 .. Len(inbox') : FALSE BY <1>1
<1>3. \A i \in 1 .. Len(inbox) : Alike(inbox'[i], inbox[i]) BY AlikeSame
<1> QED BY <1>1, <1>2, <1>3, OnceGrown

LEMMA WaitsStay ==
    ASSUME MessageTypes, EchoWaits, Quiet, inbox' = inbox, UNCHANGED <<wanted, autoconnect>>
    PROVE  EchoWaits'
<1>1. Len(inbox) \in Nat BY SeqLen DEF MessageTypes
<1>2. \A i \in Len(inbox) + 1 .. Len(inbox') : FALSE BY <1>1
<1>3. AutoConnect \in modify' BY DEF EchoWaits, Quiet
<1> QED BY <1>1, <1>2, <1>3, QuietAsks, WaitsGrown

(* Whatever else happens to the dialog and the menu.                        *)
LEMMA EchoAside ==
    ASSUME MessageTypes, EchoGood, Quiet, inbox' = inbox,
           UNCHANGED <<wanted, autoconnect, known, autoButton>>,
           Settled' => Settled, open' /\ live' => open /\ live
    PROVE  EchoGood'
<1>1. CallsRight' BY QuietRight DEF EchoGood
<1>2. OnceRight' BY OnceStays DEF EchoGood
<1>3. Header' BY WaitsStay, HeaderStays DEF EchoGood
<1> QED BY <1>1, <1>2, <1>3 DEF EchoGood

(* The header is renewed; it echoes only what is wanted.                    *)
LEMMA HeaderRenewed ==
    ASSUME Shape, EchoGood, open, update_header(autoButton, favButton, hooks),
           inbox' = inbox,
           UNCHANGED <<wanted, autoconnect, known, inTable, selected, open, item>>
    PROVE  EchoGood'
<1>0. /\ CallTypes /\ MessageTypes /\ hooks \in 0 .. 2 /\ known.autoconnect \in BOOLEAN
      /\ {wanted, autoButton} \subseteq BOOLEAN
  BY KnownAuto DEF Shape, Flags
<1>1. /\ autoButton' = known.autoconnect
      /\ \/ CallsStay \/ Removing
         \/ /\ live /\ autoButton # known.autoconnect
            /\ \E k \in 0 .. 2 : Setting(AutoConnect, known.autoconnect, k)
  BY <1>0, UpdateHeaderCalls
<1>2. OnceRight' BY <1>0, OnceStays DEF EchoGood, Settled, live
<1>3. Header' BY <1>1 DEF Header, Fine
<1>4. CASE CallsStay \/ Removing
  <2>1. CallsRight' BY <1>0, <1>4, QuietCalls, QuietRight DEF EchoGood
  <2> QED BY <1>2, <1>3, <2>1 DEF EchoGood
<1>5. ASSUME live, autoButton # known.autoconnect, NEW k \in 0 .. 2,
             Setting(AutoConnect, known.autoconnect, k)
      PROVE  CallsRight'
  <2>1. ~EchoWaits BY <1>5 DEF Setting, EchoWaits
  <2>2. known.autoconnect = wanted BY <1>0, <1>5, <2>1 DEF EchoGood, Header, Fine
  <2>3. autoconnect = wanted BY <1>5, <2>2 DEF EchoGood, OnceRight, Settled, AllRight
  <2>4. CASE ~alive
    <3>1. outbox' = outbox BY <1>5, <2>4 DEF Setting, Sent
    <3>2. CallsRight BY DEF EchoGood
    <3> QED BY <3>1, <3>2 DEF CallsRight
  <2>5. CASE alive
    <3>1. LET L == Len(outbox)
          IN  /\ L \in Nat /\ Len(outbox') = L + 1 + k
              /\ \A i \in 1 .. L : outbox'[i] = outbox[i]
              /\ outbox'[L + 1] = SetProperty(AutoConnect, known.autoconnect)
              /\ \A i \in L + 2 .. Len(outbox') : outbox'[i] = RemoveCall
      BY <1>0, <1>5, <2>5, SettingSent
    <3>2. \A i \in Len(outbox) + 1 .. Len(outbox') :
            i = Len(outbox) + 1 \/ i \in Len(outbox) + 2 .. Len(outbox')
      BY <3>1
    <3>3. SetProperty(AutoConnect, known.autoconnect).value = wanted
      BY <2>2 DEF SetProperty
    <3>4. \A i \in Len(outbox) + 1 .. Len(outbox') :
            Sets(outbox'[i]) => autoconnect = wanted /\ outbox'[i].value = wanted
      BY <2>3, <3>1, <3>2, <3>3, OtherCalls
    <3>5. Len(outbox') \in Nat /\ Len(outbox') >= Len(outbox) BY <3>1
    <3> QED BY <3>1, <3>4, <3>5, RightCallsKept DEF EchoGood
  <2> QED BY <2>4, <2>5
<1> QED BY <1>1, <1>2, <1>3, <1>4, <1>5 DEF EchoGood

(* The dialog's and the menu's own steps.                                   *)
LEMMA EchoMain ==
    ASSUME Shape, CallbacksNeedDialog, EchoGood, NEW p,
           property_changed_or_error(p) \/ property_error(p)
    PROVE  EchoGood'
<1>0. /\ inbox' = inbox /\ CallTypes /\ MessageTypes
      /\ UNCHANGED <<wanted, autoconnect, known, inTable, selected, open, item>>
  BY DEF property_changed_or_error, property_error, daemonVars, Shape
<1>1. \/ UNCHANGED <<outbox, modify, autoButton>>
      \/ open /\ update_header(autoButton, favButton, hooks)
  BY DEF property_changed_or_error, property_error, service_property_set_cb,
         CallbacksNeedDialog, headerVars
<1>2. CASE UNCHANGED <<outbox, modify, autoButton>>
  <2>1. Quiet BY <1>0, <1>2, QuietCalls DEF CallsStay
  <2> QED BY <1>0, <1>2, <2>1, EchoAside DEF Settled, live
<1>3. CASE open /\ update_header(autoButton, favButton, hooks)
  BY <1>0, <1>3, HeaderRenewed
<1> QED BY <1>1, <1>2, <1>3

LEMMA EchoPopup ==
    ASSUME Shape, EchoGood, cui_settings_popup
    PROVE  EchoGood'
<1>0. /\ inbox' = inbox /\ CallTypes /\ MessageTypes /\ known.autoconnect \in BOOLEAN
      /\ update_header(FALSE, FALSE, 0) /\ UNCHANGED <<wanted, autoconnect, known>>
      /\ ~open /\ item /\ open' = TRUE /\ item' = FALSE /\ selected' = live /\ inTable' = FALSE
  BY KnownAuto DEF cui_settings_popup, daemonVars, Shape
<1>1. live' <=> live BY <1>0 DEF live
<1>3. autoButton' = known.autoconnect /\ (CallsStay \/ Removing)
  <2>1. 0 \in 0 .. 2 /\ ~(0 > 0) OBVIOUS
  <2> QED BY <1>0, <2>1, UpdateHeaderCalls
<1>4. CallsRight' BY <1>0, <1>3, QuietCalls, QuietRight DEF EchoGood
<1>5. Settled' => Settled BY <1>0, <1>1 DEF Settled
<1>6. OnceRight' BY <1>0, <1>5, OnceStays DEF EchoGood
<1>7. Header' BY <1>0, <1>3 DEF Header, Fine
<1> QED BY <1>4, <1>6, <1>7 DEF EchoGood

(* Steps that leave the header alone.                                       *)
LEMMA EchoUser ==
    ASSUME Shape, EchoGood,
           \/ settings_ok_callback
           \/ \E r \in Radios : \E v \in Buttons[r] : toggled_method_cb(r, v)
           \/ \E f \in TextFields, v \in Texts : key_released_entry_cb(f, v)
           \/ favorite_button_toggled
           \/ DaemonUp
           \/ UNCHANGED vars
    PROVE  EchoGood'
<1>0. CallTypes /\ MessageTypes /\ changed \subseteq Groups /\ hooks \in 0 .. 2
  BY KnownAuto DEF Shape, WidgetTypes
<1>1. /\ inbox' = inbox
      /\ UNCHANGED <<wanted, autoconnect, known, autoButton, inTable, selected, open, item>>
  <2> USE DEF daemonVars, objectVars, headerVars, history
  <2>1. CASE settings_ok_callback BY <2>1 DEF settings_ok_callback
  <2>2. CASE \E r \in Radios : \E v \in Buttons[r] : toggled_method_cb(r, v)
    BY <2>2 DEF toggled_method_cb
  <2>3. CASE \E f \in TextFields, v \in Texts : key_released_entry_cb(f, v)
    BY <2>3 DEF key_released_entry_cb
  <2>4. CASE favorite_button_toggled BY <2>4 DEF favorite_button_toggled
  <2>5. CASE DaemonUp BY <2>5 DEF DaemonUp
  <2>6. CASE UNCHANGED vars BY <2>6 DEF vars
  <2> QED BY <2>1, <2>2, <2>3, <2>4, <2>5, <2>6
<1>2. CallsStay \/ Removing \/ \E g \in Groups : \E v : Setting(g, v, 0)
  <2>1. CASE settings_ok_callback
    <3>1. ASSUME NEW i \in DOMAIN AllGroups, AllGroups[i] \in changed,
                 connman_service_set_config(AllGroups[i], Configuration(AllGroups[i]))
          PROVE  CallsStay \/ \E g \in Groups : \E v : Setting(g, v, 0)
      <4>1. AllGroups[i] \in Groups BY <1>0, <3>1
      <4>2. CASE UNCHANGED <<modify, outbox>> BY <4>2 DEF CallsStay
      <4>3. CASE live /\ set_service_property(AllGroups[i], Configuration(AllGroups[i]))
        BY <4>1, <4>3, SetPropertyCalls
      <4> QED BY <3>1, <4>2, <4>3 DEF connman_service_set_config
    <3>2. CASE UNCHANGED <<modify, outbox>> BY <3>2 DEF CallsStay
    <3> QED BY <2>1, <3>1, <3>2 DEF settings_ok_callback
  <2>2. CASE favorite_button_toggled
    <3>1. modify' = modify /\ (outbox' = outbox \/ outbox' = Sent(outbox, Removes(hooks)))
      BY <2>2 DEF favorite_button_toggled, Removes
    <3> QED BY <1>0, <3>1 DEF CallsStay, Removing
  <2>3. CASE \/ \E r \in Radios : \E v \in Buttons[r] : toggled_method_cb(r, v)
             \/ \E f \in TextFields, v \in Texts : key_released_entry_cb(f, v)
             \/ DaemonUp
             \/ UNCHANGED vars
    BY <2>3 DEF toggled_method_cb, key_released_entry_cb, DaemonUp, vars, CallsStay
  <2> QED BY <2>1, <2>2, <2>3
<1>3. Quiet BY <1>0, <1>2, QuietCalls
<1>4. EchoGood' BY <1>0, <1>1, <1>3, EchoAside DEF Settled, live
<1> QED BY <1>4

LEMMA EchoShows ==
    ASSUME Shape, EchoGood, MenuShows
    PROVE  EchoGood'
<1>0. /\ inbox' = inbox /\ MessageTypes /\ CallTypes /\ CallsStay
      /\ UNCHANGED <<wanted, autoconnect, known, autoButton, inTable, selected, open>>
      /\ inTable
  BY DEF MenuShows, daemonVars, headerVars, history, Shape, CallsStay
<1>1. Quiet BY <1>0, QuietCalls
<1>2. Settled' => Settled BY <1>0 DEF Settled, live
<1>3. EchoGood' BY <1>0, <1>1, <1>2, EchoAside DEF live
<1> QED BY <1>3

(* The service is freed: its calls and their answers are cancelled.         *)
LEMMA CancelledAlike ==
    ASSUME NEW q, IsSeq(q), \A i \in 1 .. Len(q) : IsMessage(q[i])
    PROVE  \A i \in 1 .. Len(q) : Alike(Cancelled(q)[i], q[i])
<1>1. \A i \in 1 .. Len(q) :
        Cancelled(q)[i] = IF q[i].type \in {"SetProperty", "result"}
                          THEN [q[i] EXCEPT !.valid = FALSE] ELSE q[i]
  BY CancelledSeq
<1>2. \A i \in 1 .. Len(q) : Cancelled(q)[i].type = q[i].type BY CancelledMessages
<1>3. ASSUME NEW i \in 1 .. Len(q) PROVE Alike(Cancelled(q)[i], q[i])
  <2>1. CASE q[i].type \in {"SetProperty", "result"}
    <3>1. Cancelled(q)[i].type \notin {"services", "PropertyChanged"} BY <1>2, <2>1
    <3>2. q[i].type \notin {"services", "PropertyChanged"} BY <2>1
    <3> QED BY <1>2, <3>1, <3>2 DEF Alike, Says
  <2>2. CASE q[i].type \notin {"SetProperty", "result"}
    <3>1. Cancelled(q)[i] = q[i] BY <1>1, <2>2
    <3> QED BY <3>1, AlikeSame
  <2> QED BY <2>1, <2>2
<1> QED BY <1>3

LEMMA FreedCalls ==
    ASSUME CallTypes, CallsRight, outbox' = Cancelled(outbox), UNCHANGED <<wanted, autoconnect>>
    PROVE  CallsRight'
<1>1. /\ IsSeq(Cancelled(outbox)) /\ Len(Cancelled(outbox)) = Len(outbox)
      /\ \A i \in 1 .. Len(outbox) :
           /\ IsCall(Cancelled(outbox)[i])
           /\ IsSet(Cancelled(outbox)[i]) =>
                /\ IsSet(outbox[i])
                /\ Cancelled(outbox)[i].property = outbox[i].property
                /\ Cancelled(outbox)[i].value = outbox[i].value
           /\ IsSet(outbox[i]) => IsSet(Cancelled(outbox)[i])
  BY CancelledCalls DEF CallTypes
<1>2. Len(outbox) \in Nat BY SeqLen DEF CallTypes
<1>3. \A m : IsCall(m) /\ Sets(m) => IsSet(m) BY OtherCalls DEF IsCall
<1>4. \A m : IsSet(m) => m.type = "SetProperty" BY DEF IsSet
<1>5. \A i \in 1 .. Len(outbox) :
         /\ Sets(outbox'[i]) <=> Sets(outbox[i])
         /\ Sets(outbox[i]) => outbox'[i].value = outbox[i].value
  BY <1>1, <1>3, <1>4 DEF Sets, CallTypes
<1>6. \A i \in Len(outbox) + 1 .. Len(outbox') : FALSE BY <1>1, <1>2
<1> QED BY <1>1, <1>2, <1>5, <1>6, RightCallsKept

LEMMA EchoFreed ==
    ASSUME Shape, EchoGood, outbox' = Cancelled(outbox), inbox' = Cancelled(inbox),
           UNCHANGED <<wanted, autoconnect>>, Settled' => Settled, ~(open' /\ live')
    PROVE  EchoGood'
<1>0. CallTypes /\ MessageTypes /\ Len(inbox) \in Nat
  BY SeqLen DEF Shape, MessageTypes
<1>1. CallsRight' BY <1>0, FreedCalls DEF EchoGood
<1>2. Len(inbox') = Len(inbox) /\ \A i \in 1 .. Len(inbox) : Alike(inbox'[i], inbox[i])
  BY <1>0, CancelledSeq, CancelledAlike DEF MessageTypes
<1>3. \A i \in Len(inbox) + 1 .. Len(inbox') : FALSE BY <1>0, <1>2
<1>4. OnceRight' BY <1>0, <1>2, <1>3, OnceGrown DEF EchoGood
<1>5. Header' BY DEF Header
<1> QED BY <1>1, <1>4, <1>5 DEF EchoGood

LEMMA EchoCloses ==
    ASSUME Shape, Owned, EchoGood, settings_cancel_callback \/ MenuCloses
    PROVE  EchoGood'
<1>0. UNCHANGED <<wanted, autoconnect, autoButton>> /\ MessageTypes /\ CallTypes
  BY DEF settings_cancel_callback, MenuCloses, daemonVars, headerVars, history, Shape
<1>1. CASE settings_cancel_callback
  <2>1. open /\ open' = FALSE /\ selected' = FALSE /\ UNCHANGED <<inTable, item>>
    BY <1>1 DEF settings_cancel_callback
  <2>3. CASE inTable
    <3>1. UNCHANGED <<known, modify, outbox, inbox>>
      BY <1>1, <2>3 DEF settings_cancel_callback
    <3>2. Quiet BY <1>0, <3>1, QuietCalls DEF CallsStay
    <3>3. Settled' => Settled BY <1>0, <2>1, <2>3, <3>1 DEF Settled, live
    <3> QED BY <1>0, <2>1, <3>1, <3>2, <3>3, EchoAside
  <2>4. CASE ~inTable
    <3>1. outbox' = Cancelled(outbox) /\ inbox' = Cancelled(inbox)
      BY <1>1, <2>4 DEF settings_cancel_callback, service_free
    <3>2. Settled' => Settled BY <1>0, <2>1, <2>4 DEF Settled, live, Owned
    <3> QED BY <1>0, <2>1, <3>1, <3>2, EchoFreed
  <2> QED BY <2>3, <2>4
<1>2. CASE MenuCloses
  <2>1. /\ ~open /\ item' = FALSE /\ inTable' = FALSE /\ UNCHANGED <<selected, open>>
        /\ outbox' = Cancelled(outbox) /\ inbox' = Cancelled(inbox)
    BY <1>2 DEF MenuCloses, service_free
  <2>2. ~live' /\ ~Settled' BY <2>1 DEF live, Settled, Owned
  <2> QED BY <1>0, <2>1, <2>2, EchoFreed
<1> QED BY <1>1, <1>2

(* Messages are read.                                                       *)
LEMMA ReadTail ==
    ASSUME MessageTypes, inbox # <<>>
    PROVE  /\ Len(inbox) \in Nat /\ Len(inbox) >= 1 /\ Head(inbox) = inbox[1]
           /\ IsSeq(Tail(inbox)) /\ Len(Tail(inbox)) = Len(inbox) - 1
           /\ \A i \in 1 .. Len(inbox) - 1 : Tail(inbox)[i] = inbox[i + 1]
           /\ \A i \in 1 .. Len(inbox) - 1 : IsMessage(Tail(inbox)[i])
           /\ IsMessage(inbox[1]) /\ 1 \in 1 .. Len(inbox)
  BY SeqTail, TailMessages DEF MessageTypes

(* A message that says what AutoConnect is, to a service that is there or   *)
(* will be.                                                                 *)
LEMMA EchoLearns ==
    ASSUME Shape, EchoGood, inbox # <<>>, inbox' = Tail(inbox), CallsStay,
           UNCHANGED <<wanted, autoconnect, autoButton, open, item>>,
           live', NEW v, Says(inbox[1], v), known'.autoconnect = v,
           \A w : Says(inbox[1], w) => w = v
    PROVE  EchoGood'
<1>0. /\ MessageTypes /\ CallTypes /\ wanted \in BOOLEAN /\ autoButton \in BOOLEAN
      /\ known.autoconnect \in BOOLEAN
  BY KnownAuto DEF Shape, Flags
<1>1. /\ Len(inbox) \in Nat /\ Len(inbox) >= 1
      /\ Len(inbox') = Len(inbox) - 1
      /\ \A i \in 1 .. Len(inbox) - 1 : inbox'[i] = inbox[i + 1]
      /\ IsMessage(inbox[1]) /\ 1 \in 1 .. Len(inbox)
  BY <1>0, ReadTail
<1>2. Quiet BY <1>0, QuietCalls
<1>3. CallsRight' BY <1>2, QuietRight DEF EchoGood
<1>4. Settled' => Settles(inbox[1]) BY DEF Settled, Settles
<1>5. OnceRight' BY <1>1, <1>4, AlikeSame, OnceShifted DEF EchoGood
<1>6. v \in BOOLEAN BY <1>1, SaysFlag
<1>7. v = wanted => Header' BY DEF Header, Fine
<1>8. ASSUME open, v # wanted PROVE Header'
  <2>1. ~Settled
    <3>1. Settled => v = wanted
      BY <1>1 DEF EchoGood, OnceRight, AllRight
    <3> QED BY <1>8, <3>1
  <2>2. live /\ known.autoconnect # wanted BY <1>8, <2>1 DEF Settled
  <2>3. autoButton # wanted \/ EchoWaits BY <1>8, <2>2 DEF EchoGood, Header, Fine
  <2>4. ~Says(inbox[1], wanted) BY <1>8
  <2>5. EchoWaits => EchoWaits'
    <3>1. EchoWaits => AutoConnect \in modify' BY DEF EchoWaits, CallsStay
    <3> QED BY <1>1, <2>4, <3>1, WaitsShifted DEF CallsStay
  <2> QED BY <2>3, <2>5 DEF Header, Fine
<1>9. Header' BY <1>7, <1>8 DEF Header
<1> QED BY <1>3, <1>5, <1>9 DEF EchoGood

(* A message that does not.                                                 *)
LEMMA EchoReads ==
    ASSUME Shape, EchoGood, inbox # <<>>, inbox' = Tail(inbox), outbox' = outbox,
           UNCHANGED <<wanted, autoconnect, autoButton, open, item, inTable, selected>>,
           known'.autoconnect = known.autoconnect,
           live => \A v : ~Says(inbox[1], v),
           AutoConnect \in modify' <=>
             AutoConnect \in modify /\ ~Answers(inbox[1], AutoConnect)
    PROVE  EchoGood'
<1>0. MessageTypes /\ CallTypes /\ Len(outbox) \in Nat
  BY SeqLen DEF Shape, CallTypes
<1>1. /\ Len(inbox) \in Nat /\ Len(inbox) >= 1
      /\ Len(inbox') = Len(inbox) - 1
      /\ \A i \in 1 .. Len(inbox) - 1 : inbox'[i] = inbox[i + 1]
      /\ 1 \in 1 .. Len(inbox)
  BY <1>0, ReadTail
<1>2. CallsRight' BY DEF EchoGood, CallsRight
<1>3. (live' <=> live) /\ (Settled' => Settled) BY DEF Settled, live
<1>4. OnceRight' BY <1>1, <1>3, AlikeSame, OnceShifted DEF EchoGood
<1>5. ASSUME live, EchoWaits PROVE EchoWaits'
  <2>1. ~Answers(inbox[1], AutoConnect)
    <3>1. Answers(inbox[1], AutoConnect) => Said(1) BY <1>1, <1>5 DEF EchoWaits
    <3>2. ~Said(1) BY <1>1 DEF Said
    <3> QED BY <3>1, <3>2
  <2>2. AutoConnect \in modify' BY <1>5, <2>1 DEF EchoWaits
  <2> QED BY <1>1, <1>5, <2>2, WaitsShifted
<1>6. live => Header' BY <1>3, <1>5, HeaderStays DEF EchoGood
<1>7. ~live => Header' BY <1>3 DEF Header
<1> QED BY <1>2, <1>4, <1>6, <1>7 DEF EchoGood

LEMMA EchoLists ==
    ASSUME Shape, EchoGood, get_services_cb
    PROVE  EchoGood'
<1>1. /\ inbox # <<>> /\ inbox' = Tail(inbox) /\ CallsStay /\ inTable' = TRUE
      /\ UNCHANGED <<wanted, autoconnect, autoButton, open, item, selected>>
      /\ known' = Head(inbox).known /\ Head(inbox).type = "services"
  BY DEF get_services_cb, Receive, daemonVars, headerVars, history, CallsStay
<1>2. Head(inbox) = inbox[1] BY <1>1, ReadTail DEF Shape
<1>3. /\ Says(inbox[1], known'.autoconnect) /\ live'
      /\ \A w : Says(inbox[1], w) => w = known'.autoconnect
  BY <1>1, <1>2 DEF Says, live
<1>4. EchoGood' BY <1>1, <1>3, EchoLearns
<1> QED BY <1>4

LEMMA EchoSignal ==
    ASSUME Shape, EchoGood, property_changed_signal_cb
    PROVE  EchoGood'
<1>1. /\ inbox # <<>> /\ inbox' = Tail(inbox) /\ CallsStay
      /\ UNCHANGED <<wanted, autoconnect, autoButton, open, item, inTable, selected>>
      /\ Head(inbox).type = "PropertyChanged"
      /\ IF live THEN known' = update_service_property(Head(inbox)) ELSE known' = known
  BY DEF property_changed_signal_cb, Receive, daemonVars, headerVars, history, CallsStay
<1>2. Head(inbox) = inbox[1] /\ IsMessage(inbox[1]) BY <1>1, ReadTail DEF Shape
<1>4. DOMAIN known = {"config", "inUse", "autoconnect", "favorite"}
  BY DEF Shape, ObjectTypes, KnownOK
<1>5. IsChange(inbox[1]) /\ inbox[1].type = "PropertyChanged"
  BY <1>1, <1>2 DEF IsMessage, IsResult
<1>6. CASE live /\ inbox[1].property = AutoConnect
  <2>1. known' = [known EXCEPT !.autoconnect = inbox[1].value]
    BY <1>1, <1>2, <1>6, Kinds DEF update_service_property
  <2>2. known'.autoconnect = inbox[1].value BY <1>4, <2>1
  <2>3. /\ Says(inbox[1], inbox[1].value) /\ live'
        /\ \A w : Says(inbox[1], w) => w = inbox[1].value
    BY <1>1, <1>5, <1>6 DEF Says, live
  <2> QED BY <1>1, <2>2, <2>3, EchoLearns
<1>7. CASE live /\ inbox[1].property # AutoConnect
  <2>1. known'.autoconnect = known.autoconnect
    <3>1. known' = update_service_property(inbox[1]) BY <1>1, <1>2, <1>7
    <3>2. \A x : [known EXCEPT !.config = x].autoconnect = known.autoconnect BY <1>4
    <3>3. \A x : [known EXCEPT !.inUse = x].autoconnect = known.autoconnect BY <1>4
    <3>4. \A x : [known EXCEPT !.favorite = x].autoconnect = known.autoconnect BY <1>4
    <3>5. CASE inbox[1].property \in Groups
      <4>1. PICK n : n = known' OBVIOUS
      <4>2. n = [known EXCEPT !.config = [f \in Fields |->
                   IF f \in inbox[1].property THEN inbox[1].value[f] ELSE @[f]]]
        BY <3>1, <3>5, <4>1, Kinds DEF update_service_property
      <4> QED BY <3>2, <4>1, <4>2
    <3>6. CASE inbox[1].property = Favorite
      BY <3>1, <3>4, <3>6, Kinds DEF update_service_property
    <3>7. CASE inbox[1].property = Other
      BY <3>1, <3>7, Kinds DEF update_service_property
    <3>8. CASE inbox[1].property \notin Groups \cup {Favorite, Other}
      BY <1>7, <3>1, <3>3, <3>8 DEF update_service_property
    <3> QED BY <3>5, <3>6, <3>7, <3>8
  <2>2. \A v : ~Says(inbox[1], v) BY <1>5, <1>7 DEF Says
  <2>3. ~Answers(inbox[1], AutoConnect) BY <1>5 DEF Answers, IsResult
  <2> QED BY <1>1, <2>1, <2>2, <2>3, EchoReads DEF CallsStay
<1>8. CASE ~live
  <2>1. ~Answers(inbox[1], AutoConnect) BY <1>5 DEF Answers, IsResult
  <2> QED BY <1>1, <1>8, <2>1, EchoReads DEF CallsStay
<1> QED BY <1>6, <1>7, <1>8

LEMMA EchoAnswered ==
    ASSUME Shape, EchoGood, set_property_cb
    PROVE  EchoGood'
<1>1. /\ inbox # <<>> /\ inbox' = Tail(inbox) /\ outbox' = outbox
      /\ UNCHANGED <<wanted, autoconnect, autoButton, open, item, inTable, selected, known>>
      /\ Head(inbox).type = "result"
      /\ modify' = IF Head(inbox).valid THEN modify \ {Head(inbox).property} ELSE modify
  BY DEF set_property_cb, Receive, daemonVars, headerVars, history
<1>2. Head(inbox) = inbox[1] /\ IsMessage(inbox[1]) BY <1>1, ReadTail DEF Shape
<1>3. IsResult(inbox[1]) BY <1>1, <1>2 DEF IsMessage, IsChange
<1>4. \A v : ~Says(inbox[1], v) BY <1>3 DEF Says, IsResult
<1>5. AutoConnect \in modify' <=>
        AutoConnect \in modify /\ ~Answers(inbox[1], AutoConnect)
  BY <1>1, <1>2, <1>3 DEF Answers
<1> QED BY <1>1, <1>4, <1>5, EchoReads

LEMMA EchoDown ==
    ASSUME Shape, EchoGood, connman_down
    PROVE  EchoGood'
<1>1. /\ inbox # <<>> /\ Head(inbox).type = "down"
      /\ inTable' = FALSE /\ selected' = FALSE
      /\ outbox' = Cancelled(outbox) /\ inbox' = Cancelled(Tail(inbox))
      /\ UNCHANGED <<wanted, autoconnect, open, item>>
  BY DEF connman_down, service_free, daemonVars, headerVars, history
<1>2. /\ Len(inbox) \in Nat /\ Len(inbox) >= 1 /\ Head(inbox) = inbox[1]
      /\ IsSeq(Tail(inbox)) /\ Len(Tail(inbox)) = Len(inbox) - 1
      /\ \A i \in 1 .. Len(inbox) - 1 : Tail(inbox)[i] = inbox[i + 1]
      /\ \A i \in 1 .. Len(inbox) - 1 : IsMessage(Tail(inbox)[i])
  BY <1>1, ReadTail DEF Shape
<1>3. /\ Len(inbox') = Len(inbox) - 1
      /\ \A i \in 1 .. Len(inbox) - 1 : Alike(inbox'[i], inbox[i + 1])
  <2>1. PICK t : t = Tail(inbox) OBVIOUS
  <2>2. Len(Cancelled(t)) = Len(t) BY <1>2, <2>1, CancelledSeq
  <2>3. \A i \in 1 .. Len(t) : Alike(Cancelled(t)[i], t[i])
    BY <1>2, <2>1, CancelledAlike
  <2>4. inbox' = Cancelled(t) /\ Len(t) = Len(inbox) - 1
        /\ \A i \in 1 .. Len(inbox) - 1 : t[i] = inbox[i + 1]
    BY <1>1, <1>2, <2>1
  <2> QED BY <2>2, <2>3, <2>4
<1>4. Settles(inbox[1]) BY <1>1, <1>2 DEF Settles
<1>5. OnceRight' BY <1>1, <1>2, <1>3, <1>4, OnceShifted DEF EchoGood
<1>6. CallsRight' BY <1>1, FreedCalls DEF EchoGood, Shape
<1>7. Header' BY <1>1 DEF Header, live
<1> QED BY <1>5, <1>6, <1>7 DEF EchoGood

(* The daemon tells something, of AutoConnect what it has.                  *)
LEMMA EchoTold ==
    ASSUME Shape, EchoGood, CallsStay,
           UNCHANGED <<wanted, autoconnect, known, autoButton, inTable, selected, open, item>>,
           \/ inbox' = inbox
           \/ \E m : /\ inbox' = Append(inbox, m) /\ ~IsResult(m)
                     /\ Tells_AutoConnect(m, autoconnect)
    PROVE  EchoGood'
<1>0. MessageTypes /\ CallTypes /\ Len(inbox) \in Nat
  BY SeqLen DEF Shape, MessageTypes
<1>1. Quiet BY <1>0, QuietCalls
<1>2. CASE inbox' = inbox BY <1>0, <1>1, <1>2, EchoAside DEF Settled, live
<1>3. ASSUME NEW m, inbox' = Append(inbox, m), ~IsResult(m), Tells_AutoConnect(m, autoconnect)
      PROVE  EchoGood'
  <2>1. /\ Len(inbox') = Len(inbox) + 1
        /\ \A i \in 1 .. Len(inbox) : inbox'[i] = inbox[i]
        /\ inbox'[Len(inbox) + 1] = m
    BY <1>0, <1>3, SeqAppend DEF MessageTypes
  <2>2. \A i \in Len(inbox) + 1 .. Len(inbox') : inbox'[i] = m
    <3>1. \A i \in Len(inbox) + 1 .. Len(inbox') : i = Len(inbox) + 1 BY <1>0, <2>1
    <3> QED BY <2>1, <3>1
  <2>3. CallsRight' BY <1>1, QuietRight DEF EchoGood
  <2>4. OnceRight'
    BY <1>0, <1>3, <2>1, <2>2, AlikeSame, OnceGrown DEF EchoGood, Settled, live
  <2>5. EchoWaits => EchoWaits'
    <3>1. EchoWaits => AutoConnect \in modify' BY DEF EchoWaits, CallsStay
    <3>2. ~Answers(m, AutoConnect) BY <1>3 DEF Answers
    <3> QED BY <1>0, <1>1, <2>1, <2>2, <3>1, <3>2, QuietAsks, WaitsGrown
  <2>6. Header' BY <2>5, HeaderStays DEF EchoGood, live
  <2> QED BY <2>3, <2>4, <2>6 DEF EchoGood
<1> QED BY <1>2, <1>3

(* A signal about something else says nothing of AutoConnect.               *)
LEMMA SilentSignal ==
    ASSUME NEW p, NEW v, p # AutoConnect
    PROVE  /\ ~IsResult(PropertyChanged(p, v))
           /\ \A b : Tells_AutoConnect(PropertyChanged(p, v), b)
           /\ \A b : ~Says(PropertyChanged(p, v), b)
  BY DEF PropertyChanged, IsResult, Tells_AutoConnect, Says

LEMMA AutoSignal ==
    ASSUME NEW v
    PROVE  /\ ~IsResult(PropertyChanged(AutoConnect, v))
           /\ Tells_AutoConnect(PropertyChanged(AutoConnect, v), v)
           /\ Says(PropertyChanged(AutoConnect, v), v)
  BY DEF PropertyChanged, IsResult, Tells_AutoConnect, Says

LEMMA EmittedOne ==
    ASSUME MessageTypes, NEW m
    PROVE  Emitted(<<m>>) = IF live THEN Append(inbox, m) ELSE inbox
  BY SeqAppend DEF Emitted, MessageTypes

LEMMA EchoSignalled ==
    ASSUME Shape, EchoGood, CallsStay,
           UNCHANGED <<wanted, autoconnect, known, autoButton, inTable, selected, open, item>>,
           NEW p, NEW v, p # AutoConnect, inbox' = Emitted(<<PropertyChanged(p, v)>>)
    PROVE  EchoGood'
<1>1. inbox' = inbox \/ inbox' = Append(inbox, PropertyChanged(p, v))
  BY EmittedOne DEF Shape
<1> QED BY <1>1, SilentSignal, EchoTold

LEMMA EchoListed ==
    ASSUME Shape, EchoGood, MenuLists
    PROVE  EchoGood'
<1> DEFINE m == [type |-> "services", known |-> Listed]
<1>1. /\ inbox' = Append(inbox, m) /\ CallsStay
      /\ UNCHANGED <<wanted, autoconnect, known, autoButton, inTable, selected, open, item>>
  BY DEF MenuLists, CallsStay, daemonVars, objectVars, headerVars
<1>2. ~IsResult(m) BY DEF IsResult
<1>3. Tells_AutoConnect(m, autoconnect) BY DEF Tells_AutoConnect, Says, Listed
<1> HIDE DEF m
<1> QED BY <1>1, <1>2, <1>3, EchoTold

LEMMA EchoApplies ==
    ASSUME Shape, EchoGood, NEW g \in Groups, DaemonApplies(g)
    PROVE  EchoGood'
<1>1. /\ CallsStay
      /\ UNCHANGED <<wanted, autoconnect, known, autoButton, inTable, selected, open, item>>
      /\ inbox' = Emitted(<<PropertyChanged(InUse(g), Part(inUse', g \cap Radios))>>)
  BY DEF DaemonApplies, CallsStay, objectVars, headerVars, history
<1>2. InUse(g) # AutoConnect BY Kinds
<1>3. PICK v : v = Part(inUse', g \cap Radios) OBVIOUS
<1> QED BY <1>1, <1>2, <1>3, EchoSignalled

(* Nothing is on its way when AutoConnect is set anew.                      *)
LEMMA AgreedQuiet ==
    ASSUME MessageTypes, CallTypes, Agreed
    PROVE  /\ \A i \in 1 .. Len(outbox) : ~Sets(outbox[i]) /\ ~Asks(outbox[i], AutoConnect)
           /\ \A i \in 1 .. Len(inbox) : /\ inbox[i].type # "down"
                                         /\ \A v : ~Says(inbox[i], v)
                                         /\ ~Answers(inbox[i], AutoConnect)
<1>1. DOMAIN outbox = 1 .. Len(outbox) /\ DOMAIN inbox = 1 .. Len(inbox)
  BY SeqLen DEF MessageTypes, CallTypes
<1>2. \A i \in 1 .. Len(outbox) : ~Sets(outbox[i]) /\ ~Asks(outbox[i], AutoConnect)
  BY <1>1 DEF Agreed, Sets, Asks, IsSet
<1>3. \A i \in 1 .. Len(inbox) : /\ inbox[i].type # "down"
                                 /\ \A v : ~Says(inbox[i], v)
                                 /\ ~Answers(inbox[i], AutoConnect)
  BY <1>1 DEF Agreed, Says, Answers, IsResult
<1> QED BY <1>2, <1>3

LEMMA EchoChanges ==
    ASSUME Shape, EchoGood, DaemonChanges, ~raced'
    PROVE  EchoGood'
<1>0. /\ MessageTypes /\ CallTypes /\ CallsStay /\ Len(inbox) \in Nat
      /\ UNCHANGED <<known, autoButton, inTable, selected, open, item>>
      /\ autoconnect \in BOOLEAN
  BY SeqLen
  DEF DaemonChanges, CallsStay, objectVars, headerVars, Shape, Flags, MessageTypes
<1>1. ASSUME NEW f \in Fields, UNCHANGED <<autoconnect, wanted>>,
             inbox' = Emitted(<<PropertyChanged(GroupOf(f), Part(config', GroupOf(f)))>>)
      PROVE  EchoGood'
  <2>1. GroupOf(f) # AutoConnect BY GroupOfField, NoHeaderGroup
  <2>2. PICK v : v = Part(config', GroupOf(f)) OBVIOUS
  <2> QED BY <1>0, <1>1, <2>1, <2>2, EchoSignalled
<1>2. ASSUME UNCHANGED <<autoconnect, wanted>>,
             \/ inbox' = Emitted(<<PropertyChanged(Favorite, ~favorite)>>)
             \/ inbox' = Emitted(<<PropertyChanged(Other, None)>>)
      PROVE  EchoGood'
  BY <1>0, <1>2, Kinds, EchoSignalled
<1>3. ASSUME autoconnect' = ~autoconnect, wanted' = ~autoconnect, Agreed,
             inbox' = Emitted(<<PropertyChanged(AutoConnect, ~autoconnect)>>)
      PROVE  EchoGood'
  <2>1. /\ \A i \in 1 .. Len(outbox) : ~Sets(outbox[i])
        /\ \A i \in 1 .. Len(inbox) : inbox[i].type # "down" /\ \A v : ~Says(inbox[i], v)
    BY <1>0, <1>3, AgreedQuiet
  <2>2. CallsRight' BY <1>0, <1>3, <2>1 DEF CallsRight, CallsStay
  <2>3. Header' BY <1>0, <1>3 DEF Agreed, Header, Fine, live
  <2>4. inbox' = inbox \/ inbox' = Append(inbox, PropertyChanged(AutoConnect, ~autoconnect))
    BY <1>0, <1>3, EmittedOne
  <2>5. Tells_AutoConnect(PropertyChanged(AutoConnect, ~autoconnect), ~autoconnect)
    BY AutoSignal
  <2>6. /\ Len(inbox') \in Nat /\ Len(inbox') >= Len(inbox)
        /\ \A i \in 1 .. Len(inbox) : inbox'[i] = inbox[i]
        /\ \A i \in Len(inbox) + 1 .. Len(inbox') :
             inbox'[i] = PropertyChanged(AutoConnect, ~autoconnect)
    <3>1. CASE inbox' = inbox BY <1>0, <3>1
    <3>2. CASE inbox' = Append(inbox, PropertyChanged(AutoConnect, ~autoconnect))
      <4>1. /\ Len(inbox') = Len(inbox) + 1
            /\ \A i \in 1 .. Len(inbox) : inbox'[i] = inbox[i]
            /\ inbox'[Len(inbox) + 1] = PropertyChanged(AutoConnect, ~autoconnect)
        BY <1>0, <3>2, SeqAppend DEF MessageTypes
      <4>2. \A i \in Len(inbox) + 1 .. Len(inbox') : i = Len(inbox) + 1 BY <1>0, <4>1
      <4> QED BY <1>0, <4>1, <4>2
    <3> QED BY <2>4, <3>1, <3>2
  <2>7. OnceRight' BY <1>0, <1>3, <2>1, <2>5, <2>6, OnceAnew
  <2> QED BY <2>2, <2>3, <2>7 DEF EchoGood
<1> QED BY <1>1, <1>2, <1>3 DEF DaemonChanges

(* The user's click.                                                        *)
LEMMA EchoClick ==
    ASSUME Shape, EchoGood, autoconnect_button_toggled, ~raced'
    PROVE  EchoGood'
<1>0. /\ MessageTypes /\ CallTypes /\ inbox' = inbox /\ Len(inbox) \in Nat
      /\ IsSeq(outbox) /\ Len(outbox) \in Nat
      /\ UNCHANGED <<known, autoconnect, inTable, selected, open, item>>
      /\ {autoconnect, autoButton, wanted, known.autoconnect} \subseteq BOOLEAN
      /\ Agreed /\ open /\ autoButton' = ~autoButton
  BY SeqLen, KnownAuto
  DEF autoconnect_button_toggled, daemonVars, objectVars, Shape, Flags, MessageTypes, CallTypes
<1>1. /\ \A i \in 1 .. Len(outbox) : ~Sets(outbox[i]) /\ ~Asks(outbox[i], AutoConnect)
      /\ \A i \in 1 .. Len(inbox) : /\ inbox[i].type # "down"
                                    /\ \A v : ~Says(inbox[i], v)
                                    /\ ~Answers(inbox[i], AutoConnect)
  BY <1>0, AgreedQuiet
<1>2. autoconnect = wanted BY <1>1 DEF EchoGood, CallsRight
<1>3. autoButton = autoconnect /\ (live => known.autoconnect = autoconnect)
  BY <1>0 DEF Agreed
<1>4. \/ outbox' = outbox /\ (CallsStay \/ modify' = modify \cup {AutoConnect})
      \/ /\ live /\ alive /\ modify' = modify \cup {AutoConnect}
         /\ Setting(AutoConnect, ~autoButton, 0)
  <2>1. CallsStay \/ (live /\ Setting(AutoConnect, ~autoButton, 0))
    BY SetPropertyCalls
    DEF autoconnect_button_toggled, connman_service_set_autoconnectable, CallsStay
  <2> QED BY <2>1 DEF Setting, Sent, CallsStay
<1>5. CASE outbox' = outbox
  <2>1. wanted' = wanted BY <1>5 DEF autoconnect_button_toggled
  <2>2. CallsRight' BY <1>0, <1>5, <2>1 DEF EchoGood, CallsRight
  <2>3. OnceRight' BY <1>0, <2>1, OnceStays DEF EchoGood, Settled, live
  <2>4. Header' BY <1>0, <1>2, <1>3, <2>1 DEF Header, Fine, live
  <2> QED BY <2>2, <2>3, <2>4 DEF EchoGood
<1>6. CASE /\ live /\ alive /\ modify' = modify \cup {AutoConnect} /\ outbox' # outbox
           /\ Setting(AutoConnect, ~autoButton, 0)
  <2>0. 0 \in 0 .. 2 OBVIOUS
  <2>1. wanted' = ~autoButton BY <1>6 DEF autoconnect_button_toggled
  <2>2. LET L == Len(outbox)
        IN  /\ L \in Nat /\ Len(outbox') = L + 1 + 0
            /\ \A i \in 1 .. L : outbox'[i] = outbox[i]
            /\ outbox'[L + 1] = SetProperty(AutoConnect, ~autoButton)
            /\ \A i \in 1 .. Len(outbox') : i \in 1 .. L \/ i = L + 1 \/ i \in L + 2 .. Len(outbox')
    BY <1>0, <1>6, <2>0, SettingSent
  <2>3. \A i \in 1 .. Len(outbox') : i \in 1 .. Len(outbox) \/ i = Len(outbox) + 1
    BY <2>2
  <2>4. /\ Sets(SetProperty(AutoConnect, ~autoButton))
        /\ SetProperty(AutoConnect, ~autoButton).value = wanted'
    BY <2>1 DEF Sets, SetProperty
  <2>5. \A i \in 1 .. Len(outbox') :
          Sets(outbox'[i]) => i = Len(outbox) + 1 /\ outbox'[i].value = wanted'
    BY <1>1, <2>2, <2>3, <2>4
  <2>6. Len(outbox) + 1 \in 1 .. Len(outbox') /\ Sets(outbox'[Len(outbox) + 1])
    BY <2>2, <2>4
  <2>7. CallsRight' BY <2>5, <2>6 DEF CallsRight, Sets
  <2>8. ~Settled' BY <1>0, <1>3, <1>6, <2>1 DEF Settled, live
  <2>9. \A i \in Len(inbox) + 1 .. Len(inbox') : FALSE BY <1>0
  <2>10. OnceRight'
    <3>1. \A i \in 1 .. Len(inbox) : inbox'[i] = inbox[i] /\ inbox[i].type # "down"
                                     /\ \A v : ~Says(inbox[i], v)
      BY <1>0, <1>1
    <3> QED BY <1>0, <2>8, <2>9, <3>1, OnceAnew
  <2>11. EchoWaits'
    <3>1. AutoConnect \in modify' BY <1>6
    <3>2. \A i \in 1 .. Len(inbox') : ~Answers(inbox'[i], AutoConnect) BY <1>0, <1>1
    <3>3. autoconnect' # wanted' BY <1>0, <1>3, <2>1
    <3> QED BY <3>1, <3>2, <3>3 DEF EchoWaits, Answers, IsResult
  <2>12. Header' BY <2>11 DEF Header
  <2> QED BY <2>7, <2>10, <2>12 DEF EchoGood
<1> QED BY <1>4, <1>5, <1>6

(* The first call is done: what the daemon tells is behind what it told.    *)
LEMMA EchoDone ==
    ASSUME Shape, EchoGood, outbox # <<>>, outbox' = Tail(outbox), modify' = modify,
           UNCHANGED <<wanted, known, autoButton, inTable, selected, open, item>>,
           Len(inbox') \in Nat, Len(inbox') >= Len(inbox),
           \A i \in 1 .. Len(inbox) : inbox'[i] = inbox[i],
           \A i \in Len(inbox) + 1 .. Len(inbox') :
             /\ Tells_AutoConnect(inbox'[i], autoconnect')
             /\ Answers(inbox'[i], AutoConnect) => Asks(outbox[1], AutoConnect),
           ~Sets(outbox[1]) => autoconnect' = autoconnect,
           Sets(outbox[1]) =>
             /\ autoconnect' = outbox[1].value
             /\ live /\ autoconnect' # autoconnect =>
                  /\ Len(inbox) + 1 \in 1 .. Len(inbox')
                  /\ Says(inbox'[Len(inbox) + 1], autoconnect')
                  /\ ~Answers(inbox'[Len(inbox) + 1], AutoConnect)
    PROVE  EchoGood'
<1>0. CallTypes /\ Len(inbox) \in Nat BY SeqLen DEF Shape, MessageTypes
<1>1. /\ Len(outbox) \in Nat /\ Len(outbox) >= 1 /\ Len(outbox') = Len(outbox) - 1
      /\ \A i \in 1 .. Len(outbox) - 1 : outbox'[i] = outbox[i + 1]
  BY <1>0, SeqTail DEF CallTypes
<1>2. 1 \in 1 .. Len(outbox)
      /\ \A i \in 1 .. Len(outbox') : i + 1 \in 1 .. Len(outbox) /\ outbox'[i] = outbox[i + 1]
  BY <1>1
<1>3. Sets(outbox[1]) => autoconnect' = wanted
  BY <1>2 DEF EchoGood, CallsRight
<1>4. CallsRight' BY <1>0, <1>3, RightCallsTaken DEF EchoGood
<1>5. OnceRight' BY <1>0, <1>3, AlikeSame, OnceGrown DEF EchoGood, Settled, live
<1>6. \A n, m \in Nat : n <= m /\ Said(n) => Said(m)' BY <1>0, SaidGrown
<1>7. \A i \in 1 .. Len(inbox') :
        i \in Nat /\ (i \in 1 .. Len(inbox) \/ i \in Len(inbox) + 1 .. Len(inbox'))
  OBVIOUS
<1>8. PICK k : k = Len(inbox') + 1 OBVIOUS
<1>9. ASSUME live, EchoWaits
      PROVE  EchoWaits'
  <2>1. AutoConnect \in modify' BY <1>9 DEF EchoWaits
  <2>2. \A i \in 1 .. Len(inbox) : Answers(inbox[i], AutoConnect) => Said(i)'
    <3>1. \A i \in 1 .. Len(inbox) : i \in Nat /\ i <= i OBVIOUS
    <3> QED BY <1>6, <1>9, <3>1 DEF EchoWaits
  <2>3. CASE autoconnect' # autoconnect
    <3>1. autoconnect' = wanted' BY <1>3, <2>3
    <3>2. /\ Len(inbox) + 1 \in 1 .. Len(inbox')
          /\ Says(inbox'[Len(inbox) + 1], wanted')
          /\ ~Answers(inbox'[Len(inbox) + 1], AutoConnect)
      BY <1>9, <2>3, <3>1
    <3>3. ASSUME NEW n \in Nat, Len(inbox) + 1 < n PROVE Said(n)'
      BY <3>2, <3>3 DEF Said, Says
    <3>4. ASSUME NEW i \in 1 .. Len(inbox'), Answers(inbox'[i], AutoConnect)
          PROVE  Said(i)'
      <4>1. CASE i \in 1 .. Len(inbox) BY <2>2, <3>4, <4>1
      <4>2. CASE i \in Len(inbox) + 1 .. Len(inbox')
        <5>1. i # Len(inbox) + 1 BY <3>2, <3>4
        <5>2. Len(inbox) + 1 < i BY <1>0, <4>2, <5>1
        <5> QED BY <1>7, <3>3, <5>2
      <4> QED BY <1>7, <4>1, <4>2
    <3>5. Said(k)'
      <4>1. k \in Nat /\ Len(inbox) + 1 < k BY <1>0, <1>8, <3>2
      <4> QED BY <3>3, <4>1
    <3>6. Said(Len(inbox) + 1)' BY <1>8, <3>5 DEF Said
    <3> QED BY <2>1, <3>4, <3>6 DEF EchoWaits, Answers, IsResult
  <2>4. CASE autoconnect' = autoconnect
    <3>1. Said(Len(inbox) + 1) => \A n \in Nat : Len(inbox) + 1 <= n => Said(n)'
      <4>1. Len(inbox) + 1 \in Nat BY <1>0
      <4> QED BY <1>6, <4>1
    <3>2. ASSUME NEW i \in 1 .. Len(inbox'), Answers(inbox'[i], AutoConnect)
          PROVE  Said(i)'
      <4>1. CASE i \in 1 .. Len(inbox) BY <2>2, <3>2, <4>1
      <4>2. CASE i \in Len(inbox) + 1 .. Len(inbox')
        <5>1. Asks(outbox[1], AutoConnect) BY <3>2, <4>2
        <5>2. Sets(outbox[1]) BY <5>1 DEF Asks, Sets, IsSet
        <5>3. Said(Len(inbox) + 1)
          BY <1>2, <1>3, <1>9, <2>4, <5>1, <5>2 DEF EchoWaits
        <5>4. i \in Nat /\ Len(inbox) + 1 <= i BY <1>0, <4>2
        <5> QED BY <3>1, <5>3, <5>4
      <4> QED BY <1>7, <4>1, <4>2
    <3>3. Said(Len(inbox) + 1) => Said(Len(inbox) + 1)'
      <4>1. k \in Nat /\ Len(inbox) + 1 <= k BY <1>0, <1>8
      <4>2. Said(Len(inbox) + 1) => Said(k)' BY <3>1, <4>1
      <4> QED BY <1>8, <4>2 DEF Said
    <3>4. \/ autoconnect' # wanted' \/ Said(Len(inbox) + 1)'
          \/ \A i \in 1 .. Len(outbox') : ~Asks(outbox'[i], AutoConnect)
      BY <1>2, <1>9, <2>4, <3>3 DEF EchoWaits
    <3> QED BY <2>1, <3>2, <3>4 DEF EchoWaits, Answers, IsResult, Asks, IsSet
  <2> QED BY <2>3, <2>4
<1>10. live => Header' BY <1>9, HeaderStays DEF EchoGood, live
<1>11. ~live => Header' BY DEF Header, live
<1> QED BY <1>4, <1>5, <1>10, <1>11 DEF EchoGood

LEMMA ResultSilent ==
    ASSUME NEW m, NEW ok
    PROVE  /\ \A v : ~Says(Result(m, ok), v)
           /\ \A b : Tells_AutoConnect(Result(m, ok), b)
           /\ IsSet(m) /\ Answers(Result(m, ok), AutoConnect) => Asks(m, AutoConnect)
  BY DEF Result, Says, Tells_AutoConnect, Answers, Asks

LEMMA EchoServes ==
    ASSUME Shape, EchoGood, DaemonServes
    PROVE  EchoGood'
<1>0. /\ MessageTypes /\ CallTypes /\ Len(inbox) \in Nat /\ IsSeq(inbox)
      /\ outbox # <<>> /\ outbox' = Tail(outbox)
      /\ UNCHANGED <<wanted, known, autoButton, inTable, selected, open, item, modify>>
  BY SeqLen DEF DaemonServes, objectVars, headerVars, history, Shape, MessageTypes
<1> DEFINE m == Head(outbox)
<1>1. m = outbox[1] /\ IsCall(m) /\ (m.type = "SetProperty" => IsSet(m))
  BY <1>0, HeadOfCalls
<1>2. \/ m.type = "SetProperty" /\ Set(m)
      \/ /\ m.type = "Remove" /\ autoconnect' = autoconnect
         /\ inbox' = IF favorite THEN Emitted(<<PropertyChanged(Favorite, FALSE)>>)
                     ELSE inbox
  BY DEF DaemonServes
<1> HIDE DEF m
<1>3. CASE /\ m.type = "Remove" /\ autoconnect' = autoconnect
           /\ inbox' = IF favorite THEN Emitted(<<PropertyChanged(Favorite, FALSE)>>)
                       ELSE inbox
  <2>1. ~Sets(outbox[1]) BY <1>1, <1>3 DEF Sets
  <2>2. PICK s : s = PropertyChanged(Favorite, FALSE) OBVIOUS
  <2>3. ~IsResult(s) /\ \A b : Tells_AutoConnect(s, b) BY <2>2, Kinds, SilentSignal
  <2>4. inbox' = inbox \/ inbox' = Append(inbox, s) BY <1>0, <1>3, <2>2, EmittedOne
  <2>5. /\ Len(inbox') \in Nat /\ Len(inbox') >= Len(inbox)
        /\ \A i \in 1 .. Len(inbox) : inbox'[i] = inbox[i]
        /\ \A i \in Len(inbox) + 1 .. Len(inbox') : inbox'[i] = s
    BY <1>0, <2>4, AppendedAll
  <2>6. \A i \in Len(inbox) + 1 .. Len(inbox') :
          /\ Tells_AutoConnect(inbox'[i], autoconnect')
          /\ Answers(inbox'[i], AutoConnect) => Asks(outbox[1], AutoConnect)
    BY <2>3, <2>5 DEF Answers
  <2> QED BY <1>0, <1>3, <2>1, <2>5, <2>6, EchoDone
<1>4. ASSUME m.type = "SetProperty", NEW s, NEW M, M \in {inbox, Append(inbox, s)},
             NEW ok \in BOOLEAN, inbox' = Append(M, Result(m, ok)), ~IsResult(s),
             Tells_AutoConnect(s, autoconnect'),
             ~Sets(m) => autoconnect' = autoconnect,
             Sets(m) => /\ autoconnect' = m.value
                        /\ live /\ autoconnect' # autoconnect =>
                             M = Append(inbox, s) /\ Says(s, autoconnect')
      PROVE  EchoGood'
  <2>1. PICK r : r = Result(m, ok) OBVIOUS
  <2>2. /\ Tells_AutoConnect(r, autoconnect')
        /\ Answers(r, AutoConnect) => Asks(outbox[1], AutoConnect)
    BY <1>1, <1>4, <2>1, ResultSilent
  <2>3. /\ Len(M) \in Nat /\ Len(M) >= Len(inbox) /\ IsSeq(M)
        /\ \A i \in 1 .. Len(inbox) : M[i] = inbox[i]
        /\ \A i \in Len(inbox) + 1 .. Len(M) : M[i] = s
    <3>1. IsSeq(inbox) /\ M \in {inbox, Append(inbox, s)} BY <1>0, <1>4
    <3> QED BY <3>1, AppendedAll
  <2>4. /\ Len(inbox') = Len(M) + 1
        /\ \A i \in 1 .. Len(M) : inbox'[i] = M[i]
        /\ inbox'[Len(M) + 1] = r
    BY <1>4, <2>1, <2>3, SeqAppend
  <2>5. /\ Len(inbox') \in Nat /\ Len(inbox') >= Len(inbox)
        /\ \A i \in 1 .. Len(inbox) : inbox'[i] = inbox[i]
    BY <1>0, <2>3, <2>4
  <2>6. \A i \in Len(inbox) + 1 .. Len(inbox') :
          i \in Len(inbox) + 1 .. Len(M) \/ i = Len(M) + 1
    BY <1>0, <2>3, <2>4
  <2>7. \A i \in Len(inbox) + 1 .. Len(inbox') : inbox'[i] = s \/ inbox'[i] = r
    BY <1>0, <2>3, <2>4, <2>6
  <2>8. ~Answers(s, AutoConnect) BY <1>4 DEF Answers
  <2>9. \A i \in Len(inbox) + 1 .. Len(inbox') :
          /\ Tells_AutoConnect(inbox'[i], autoconnect')
          /\ Answers(inbox'[i], AutoConnect) => Asks(outbox[1], AutoConnect)
    BY <1>4, <2>2, <2>7, <2>8
  <2>10. M = Append(inbox, s) => /\ Len(inbox) + 1 \in 1 .. Len(inbox')
                                 /\ inbox'[Len(inbox) + 1] = s
    <3>1. M = Append(inbox, s) => Len(M) = Len(inbox) + 1 BY <1>0, SeqAppend
    <3> QED BY <1>0, <2>3, <2>4, <3>1
  <2>11. Sets(outbox[1]) =>
           /\ autoconnect' = outbox[1].value
           /\ live /\ autoconnect' # autoconnect =>
                /\ Len(inbox) + 1 \in 1 .. Len(inbox')
                /\ Says(inbox'[Len(inbox) + 1], autoconnect')
                /\ ~Answers(inbox'[Len(inbox) + 1], AutoConnect)
    BY <1>1, <1>4, <2>8, <2>10
  <2>12. ~Sets(outbox[1]) => autoconnect' = autoconnect BY <1>1, <1>4
  <2> QED BY <1>0, <2>5, <2>9, <2>11, <2>12, EchoDone
<1>5. CASE m.type = "SetProperty" /\ Set(m)
  <2>1. CASE /\ m.property \in Groups /\ autoconnect' = autoconnect
             /\ inbox' = Append(Emitted(<<PropertyChanged(m.property,
                                  Part(config', m.property))>>), Result(m, TRUE))
    <3>1. PICK s : s = PropertyChanged(m.property, Part(config', m.property)) OBVIOUS
    <3>2. m.property # AutoConnect BY <2>1, NoHeaderGroup
    <3>3. ~IsResult(s) /\ \A b : Tells_AutoConnect(s, b)
      <4>1. PICK v : v = Part(config', m.property) OBVIOUS
      <4> QED BY <3>1, <3>2, <4>1, SilentSignal
    <3>4. Emitted(<<s>>) \in {inbox, Append(inbox, s)} BY <1>0, EmittedOne
    <3>5. inbox' = Append(Emitted(<<s>>), Result(m, TRUE)) BY <2>1, <3>1
    <3>6. ~Sets(m) BY <3>2 DEF Sets
    <3> QED BY <1>4, <1>5, <2>1, <3>3, <3>4, <3>5, <3>6
  <2>2. CASE /\ m.property = AutoConnect /\ autoconnect' = m.value
             /\ inbox' = Append(IF m.value = autoconnect THEN inbox
                                ELSE Emitted(<<PropertyChanged(AutoConnect, m.value)>>),
                                Result(m, TRUE))
    <3> DEFINE s == PropertyChanged(AutoConnect, m.value)
               M == IF m.value = autoconnect THEN inbox ELSE Emitted(<<s>>)
    <3>1. ~IsResult(s) /\ Tells_AutoConnect(s, autoconnect') /\ Says(s, autoconnect')
      BY <2>2, AutoSignal
    <3>2. Sets(m) BY <1>5, <2>2 DEF Sets
    <3>3. Emitted(<<s>>) = IF live THEN Append(inbox, s) ELSE inbox BY <1>0, EmittedOne
    <3>4. inbox' = Append(M, Result(m, TRUE)) BY <2>2
    <3> HIDE DEF s
    <3>5. M \in {inbox, Append(inbox, s)} BY <3>3
    <3>6. live /\ autoconnect' # autoconnect => M = Append(inbox, s) BY <2>2, <3>3
    <3> HIDE DEF M
    <3> QED BY <1>4, <1>5, <2>2, <3>1, <3>2, <3>4, <3>5, <3>6
  <2>3. CASE /\ m.property \in Groups /\ autoconnect' = autoconnect
             /\ inbox' = Append(inbox, Result(m, FALSE))
    <3>1. PICK s : s = PropertyChanged(Favorite, FALSE) OBVIOUS
    <3>2. ~IsResult(s) /\ \A b : Tells_AutoConnect(s, b) BY <3>1, Kinds, SilentSignal
    <3>3. ~Sets(m) BY <2>3, NoHeaderGroup DEF Sets
    <3>4. inbox \in {inbox, Append(inbox, s)} OBVIOUS
    <3> QED BY <1>4, <1>5, <2>3, <3>2, <3>3, <3>4
  <2> QED BY <1>5, <2>1, <2>2, <2>3 DEF Set
<1> QED BY <1>2, <1>3, <1>5

(* A call is refused: what the daemon has is wanted again.                  *)
LEMMA EchoRefused ==
    ASSUME Shape, EchoGood, outbox # <<>>, IsSet(outbox[1]), outbox' = Tail(outbox),
           inbox' = Append(inbox, Result(outbox[1], FALSE)),
           UNCHANGED <<autoconnect, known, autoButton, inTable, selected, open, item, modify>>,
           wanted' = IF outbox[1].property = AutoConnect THEN autoconnect ELSE wanted
    PROVE  EchoGood'
<1>0. /\ MessageTypes /\ CallTypes /\ Len(inbox) \in Nat
      /\ {wanted, autoconnect, known.autoconnect} \subseteq BOOLEAN
  BY SeqLen, KnownAuto DEF Shape, Flags, MessageTypes
<1>1. /\ Len(inbox') = Len(inbox) + 1
      /\ \A i \in 1 .. Len(inbox) : inbox'[i] = inbox[i]
      /\ inbox'[Len(inbox) + 1] = Result(outbox[1], FALSE)
  BY <1>0, SeqAppend DEF MessageTypes
<1>2. \A i \in Len(inbox) + 1 .. Len(inbox') : inbox'[i] = Result(outbox[1], FALSE)
  <2>1. \A i \in Len(inbox) + 1 .. Len(inbox') : i = Len(inbox) + 1 BY <1>0, <1>1
  <2> QED BY <1>1, <2>1
<1>3. Sets(outbox[1]) <=> outbox[1].property = AutoConnect BY DEF Sets, IsSet
<1>4. CASE wanted' = wanted
  <2>1. 1 \in 1 .. Len(outbox) BY <1>0, SeqTail DEF CallTypes
  <2>2. Sets(outbox[1]) => autoconnect' = outbox[1].value
    BY <1>3, <1>4, <2>1 DEF EchoGood, CallsRight
  <2>3. \A i \in Len(inbox) + 1 .. Len(inbox') :
          /\ Tells_AutoConnect(inbox'[i], autoconnect')
          /\ Answers(inbox'[i], AutoConnect) => Asks(outbox[1], AutoConnect)
    BY <1>2, ResultSilent
  <2>4. Len(inbox') \in Nat /\ Len(inbox') >= Len(inbox) BY <1>0, <1>1
  <2> QED BY <1>1, <1>4, <2>2, <2>3, <2>4, EchoDone
<1>5. CASE wanted' # wanted
  <2>1. Sets(outbox[1]) /\ wanted' = autoconnect /\ autoconnect # wanted BY <1>3, <1>5
  <2>2. CallsRight' BY <1>0, <2>1, RightCallsTaken DEF EchoGood
  <2>3. \A i \in 1 .. Len(inbox) : inbox'[i] = inbox[i] /\ IsMessage(inbox[i])
    BY <1>0, <1>1 DEF MessageTypes
  <2>4. \A v : ~Says(inbox'[Len(inbox) + 1], v) BY <1>1, ResultSilent
  <2>5. OnceRight' /\ (live => known.autoconnect = wanted')
    BY <1>0, <1>1, <1>5, <2>1, <2>3, <2>4, OnceGivenUp DEF EchoGood
  <2>6. Header' BY <2>5 DEF Header, Fine, live
  <2> QED BY <2>2, <2>5, <2>6 DEF EchoGood
<1> QED BY <1>4, <1>5

(* The answer comes too late, to a call about something else.               *)
LEMMA EchoLate ==
    ASSUME Shape, EchoGood, outbox # <<>>, IsSet(outbox[1]),
           outbox' = [outbox EXCEPT ![1].valid = FALSE],
           inbox' = Append(inbox, Result(outbox[1], FALSE)),
           UNCHANGED <<wanted, autoconnect, known, autoButton, inTable, selected, open, item,
                       modify>>,
           outbox[1].property # AutoConnect
    PROVE  EchoGood'
<1>0. MessageTypes /\ CallTypes /\ Len(inbox) \in Nat /\ Len(outbox) \in Nat
  BY SeqLen DEF Shape, MessageTypes, CallTypes
<1>1. /\ Len(inbox') = Len(inbox) + 1
      /\ \A i \in 1 .. Len(inbox) : inbox'[i] = inbox[i]
      /\ inbox'[Len(inbox) + 1] = Result(outbox[1], FALSE)
  BY <1>0, SeqAppend DEF MessageTypes
<1>2. \A i \in Len(inbox) + 1 .. Len(inbox') : inbox'[i] = Result(outbox[1], FALSE)
  <2>1. \A i \in Len(inbox) + 1 .. Len(inbox') : i = Len(inbox) + 1 BY <1>0, <1>1
  <2> QED BY <1>1, <2>1
<1>3. Head(outbox) = outbox[1] BY <1>0, SeqTail DEF CallTypes
<1>4. /\ Len(outbox') = Len(outbox)
      /\ outbox'[1].property = outbox[1].property
      /\ \A i \in 2 .. Len(outbox) : outbox'[i] = outbox[i]
  BY <1>0, <1>3, Outdated
<1>5. \A i \in 1 .. Len(outbox) : i = 1 \/ i \in 2 .. Len(outbox) BY <1>0
<1>6. \A i \in 1 .. Len(outbox) :
        /\ Sets(outbox'[i]) <=> Sets(outbox[i])
        /\ Sets(outbox[i]) => outbox'[i].value = outbox[i].value
        /\ Asks(outbox'[i], AutoConnect) => Asks(outbox[i], AutoConnect)
  <2>1. \A i \in 2 .. Len(outbox) :
          /\ Sets(outbox'[i]) <=> Sets(outbox[i])
          /\ Sets(outbox[i]) => outbox'[i].value = outbox[i].value
          /\ Asks(outbox'[i], AutoConnect) => Asks(outbox[i], AutoConnect)
    BY <1>4
  <2>2. ~Sets(outbox'[1]) /\ ~Sets(outbox[1]) /\ ~Asks(outbox'[1], AutoConnect)
    BY <1>4 DEF Sets, Asks
  <2> QED BY <1>5, <2>1, <2>2
<1>7. \A i \in Len(outbox) + 1 .. Len(outbox') : FALSE BY <1>0, <1>4
<1>8. CallsRight'
  <2>1. \A i \in 1 .. Len(outbox) :
          /\ Sets(outbox'[i]) <=> Sets(outbox[i])
          /\ Sets(outbox[i]) => outbox'[i].value = outbox[i].value
    BY <1>6
  <2>2. Len(outbox') \in Nat /\ Len(outbox') >= Len(outbox) BY <1>0, <1>4
  <2> QED BY <1>0, <1>7, <2>1, <2>2, RightCallsKept DEF EchoGood
<1>9. Len(inbox') \in Nat /\ Len(inbox') >= Len(inbox) BY <1>0, <1>1
<1>10. \A i \in Len(inbox) + 1 .. Len(inbox') :
         /\ Tells_AutoConnect(inbox'[i], autoconnect')
         /\ ~Answers(inbox'[i], AutoConnect)
  <2>1. ~Asks(outbox[1], AutoConnect) BY DEF Asks
  <2> QED BY <1>2, <2>1, ResultSilent
<1>11. OnceRight'
  BY <1>0, <1>1, <1>9, <1>10, AlikeSame, OnceGrown DEF EchoGood, Settled, live
<1>12. EchoWaits => EchoWaits'
  <2>1. EchoWaits => AutoConnect \in modify' BY DEF EchoWaits
  <2>2. \A i \in 1 .. Len(outbox') : Asks(outbox'[i], AutoConnect) =>
          \E k \in 1 .. Len(outbox) : Asks(outbox[k], AutoConnect)
    BY <1>4, <1>6
  <2> QED BY <1>0, <1>1, <1>9, <1>10, <2>1, <2>2, WaitsGrown
<1>13. Header' BY <1>12, HeaderStays DEF EchoGood, live
<1> QED BY <1>8, <1>11, <1>13 DEF EchoGood

LEMMA EchoFails ==
    ASSUME Shape, EchoGood, DaemonFails, ~raced'
    PROVE  EchoGood'
<1>1. /\ outbox # <<>> /\ IsSet(Head(outbox)) /\ modify' = modify
      /\ inbox' = Append(inbox, Result(Head(outbox), FALSE))
  BY FailsHeard
<1>2. Head(outbox) = outbox[1] BY <1>1, SeqTail DEF Shape, CallTypes
<1>3. UNCHANGED <<autoconnect, known, autoButton, inTable, selected, open, item>>
  BY DEF DaemonFails, daemonVars, objectVars, headerVars
<1>4. \/ /\ outbox' = Tail(outbox)
         /\ wanted' = IF Head(outbox).property = AutoConnect THEN autoconnect ELSE wanted
      \/ /\ outbox' = [outbox EXCEPT ![1].valid = FALSE]
         /\ Head(outbox).property # AutoConnect /\ wanted' = wanted
  BY DEF DaemonFails
<1> QED BY <1>1, <1>2, <1>3, <1>4, EchoRefused, EchoLate

(* The daemon goes, and the calls to it.                                    *)
LEMMA EchoLost ==
    ASSUME Shape, EchoGood, DaemonDown
    PROVE  EchoGood'
<1>0. /\ MessageTypes /\ Len(inbox) \in Nat
      /\ {wanted, autoconnect, known.autoconnect} \subseteq BOOLEAN
      /\ UNCHANGED <<autoconnect, known, autoButton, inTable, selected, open, item>>
      /\ wanted' = autoconnect
  BY SeqLen, KnownAuto DEF DaemonDown, objectVars, headerVars, Shape, Flags, MessageTypes
<1>1. /\ outbox' = <<>> /\ modify' = modify /\ inbox' = Append(inbox, Note("down"))
      /\ Note("down").type = "down"
  BY DownHeard
<1>2. /\ Len(inbox') = Len(inbox) + 1
      /\ \A i \in 1 .. Len(inbox) : inbox'[i] = inbox[i]
      /\ inbox'[Len(inbox) + 1] = Note("down")
  BY <1>0, <1>1, SeqAppend DEF MessageTypes
<1>3. Len(outbox') = 0 /\ \A i \in 1 .. Len(outbox') : FALSE BY <1>1, SeqEmpty
<1>4. CallsRight' BY <1>0, <1>3 DEF CallsRight
<1>5. \A i \in 1 .. Len(inbox) : inbox'[i] = inbox[i] /\ IsMessage(inbox[i])
  BY <1>0, <1>2 DEF MessageTypes
<1>6. \A v : ~Says(inbox'[Len(inbox) + 1], v) BY <1>1, <1>2 DEF Says
<1>7. OnceRight' /\ (wanted' # wanted /\ live => known.autoconnect = wanted')
  BY <1>0, <1>2, <1>5, <1>6, OnceGivenUp DEF EchoGood
<1>8. ASSUME wanted' = wanted PROVE Header'
  <2>1. EchoWaits => EchoWaits'
    <3>1. EchoWaits => AutoConnect \in modify' BY <1>1 DEF EchoWaits
    <3>2. \A i \in Len(inbox) + 1 .. Len(inbox') : ~Answers(inbox'[i], AutoConnect)
      <4>1. \A i \in Len(inbox) + 1 .. Len(inbox') : i = Len(inbox) + 1 BY <1>0, <1>2
      <4> QED BY <1>1, <1>2, <4>1 DEF Answers, IsResult
    <3>3. Len(inbox') \in Nat /\ Len(inbox') >= Len(inbox) BY <1>0, <1>2
    <3> QED BY <1>0, <1>2, <1>3, <1>8, <3>1, <3>2, <3>3, WaitsGrown
  <2> QED BY <1>0, <1>8, <2>1, HeaderStays DEF EchoGood, live
<1>9. wanted' # wanted => Header' BY <1>0, <1>7 DEF Header, Fine, live
<1>10. Header' BY <1>8, <1>9
<1> QED BY <1>4, <1>7, <1>10 DEF EchoGood

LEMMA OwnedNext ==
    ASSUME Owned, [Next]_vars
    PROVE  Owned'
<1> USE DEF objectVars
<1>1. CASE MainLoop
  BY <1>1 DEF Owned, MainLoop, Messages, get_services_cb, property_changed_signal_cb,
              set_property_cb, connman_down, property_changed_or_error, property_error
<1>2. CASE Menu BY <1>2 DEF Owned, Menu, MenuLists, MenuShows, MenuCloses
<1>3. CASE User
  <2>1. CASE cui_settings_popup BY <2>1 DEF Owned, cui_settings_popup
  <2>2. CASE settings_cancel_callback BY <2>2 DEF Owned, settings_cancel_callback
  <2>3. UNCHANGED <<inTable, selected, open, item>> \/ cui_settings_popup
          \/ settings_cancel_callback
    BY <1>3 DEF User, settings_ok_callback, toggled_method_cb, key_released_entry_cb,
                autoconnect_button_toggled, favorite_button_toggled
  <2> QED BY <2>1, <2>2, <2>3 DEF Owned
<1>4. CASE Daemon
  <2>1. UNCHANGED <<inTable, selected, open, item>>
    BY <1>4 DEF Daemon, DaemonServes, DaemonFails, DaemonChanges, DaemonApplies,
                DaemonDown, DaemonUp
  <2> QED BY <2>1 DEF Owned
<1>5. CASE UNCHANGED vars BY <1>5 DEF Owned, vars
<1> QED BY <1>1, <1>2, <1>3, <1>4, <1>5 DEF Next

LEMMA RacedStays ==
    ASSUME [Next]_vars, raced
    PROVE  raced'
<1> USE DEF history
<1>1. CASE MainLoop
  BY <1>1 DEF MainLoop, Messages, get_services_cb, property_changed_signal_cb,
              set_property_cb, connman_down, property_changed_or_error, property_error
<1>2. CASE Menu BY <1>2 DEF Menu, MenuLists, MenuShows, MenuCloses
<1>3. CASE User
  BY <1>3 DEF User, cui_settings_popup, settings_cancel_callback, settings_ok_callback,
              toggled_method_cb, key_released_entry_cb, autoconnect_button_toggled,
              favorite_button_toggled
<1>4. CASE Daemon
  BY <1>4 DEF Daemon, DaemonServes, DaemonFails, DaemonChanges, DaemonApplies,
              DaemonDown, DaemonUp
<1>5. CASE UNCHANGED vars BY <1>5 DEF vars
<1> QED BY <1>1, <1>2, <1>3, <1>4, <1>5 DEF Next

LEMMA EchoNext ==
    ASSUME Inv, EchoInv, [Next]_vars
    PROVE  EchoInv'
<1>0. Shape /\ CallbacksNeedDialog /\ Owned BY DEF Inv, EchoInv
<1>1. Owned' BY <1>0, OwnedNext
<1>2. SUFFICES ASSUME ~raced' PROVE EchoGood'
  BY <1>1 DEF EchoInv, EchoGood
<1>3. EchoGood BY <1>2, RacedStays DEF EchoInv, EchoGood
<1>4. CASE MainLoop
  BY <1>0, <1>3, <1>4, EchoLists, EchoSignal, EchoAnswered, EchoDown, EchoMain
  DEF MainLoop, Messages
<1>5. CASE Menu BY <1>0, <1>3, <1>5, EchoListed, EchoShows, EchoCloses DEF Menu
<1>6. CASE User
  BY <1>0, <1>2, <1>3, <1>6, EchoPopup, EchoCloses, EchoUser, EchoClick DEF User
<1>7. CASE Daemon
  BY <1>0, <1>2, <1>3, <1>7, EchoServes, EchoFails, EchoChanges, EchoApplies, EchoLost,
     EchoUser
  DEF Daemon
<1>8. CASE UNCHANGED vars BY <1>0, <1>3, <1>8, EchoUser
<1> QED BY <1>4, <1>5, <1>6, <1>7, <1>8 DEF Next

LEMMA EchoInit == Init => EchoInv
<1> SUFFICES ASSUME Init PROVE EchoInv
  OBVIOUS
<1>1. Len(outbox) = 0 /\ Len(inbox) = 0 BY SeqEmpty DEF Init
<1>2. CallsRight /\ OnceRight
  <2>1. /\ \A i \in 1 .. Len(outbox) : FALSE
        /\ \A i \in 1 .. Len(inbox) : FALSE
    BY <1>1
  <2>2. autoconnect = wanted BY DEF Init
  <2> QED BY <2>1, <2>2 DEF CallsRight, OnceRight, AllRight
<1>3. Header /\ Owned BY DEF Init, Header, Owned
<1> QED BY <1>2, <1>3 DEF EchoInv

LEMMA EchoFound == Shape /\ EchoInv => EchoRepeats
<1> SUFFICES ASSUME Shape, EchoInv, ~raced PROVE EchoRepeats
  BY DEF EchoRepeats
<1>1. CallsRight /\ DOMAIN outbox = 1 .. Len(outbox)
  BY SeqLen DEF EchoInv, Shape, CallTypes
<1>2. \A i \in 1 .. Len(outbox) : Sets(outbox[i]) <=> i \in AutoConnectCalls
  BY <1>1 DEF Sets, AutoConnectCalls
<1>3. \A i \in AutoConnectCalls : i \in 1 .. Len(outbox) BY <1>1 DEF AutoConnectCalls
<1>4. AutoConnectCalls = {} => autoconnect = wanted BY <1>1, <1>2 DEF CallsRight
<1>5. \A i \in AutoConnectCalls : outbox[i].value = wanted
  BY <1>1, <1>2, <1>3 DEF CallsRight
<1> QED BY <1>4, <1>5 DEF EchoRepeats

-----------------------------------------------------------------------------
(* The types: above all, that nothing is left of a service that is gone, no *)
(* value known, no call awaited, no notification that could run.            *)
THEOREM TypeCorrect == Spec => []TypeOK
<1>1. Inv => TypeOK BY ShapeType DEF Inv
<1> QED BY InvInit, InvNext, <1>1, PTL DEF Spec

(* A reply finds the service that called and its call_modify, whatever was  *)
(* cancelled, lost or answered late; and the dialog's functions are called  *)
(* only while it is there (lib/service.c, src/settings.c).                  *)
THEOREM CallbacksCorrect == Spec => []CallbacksFindTarget
<1>1. Inv => CallbacksFindTarget
  BY RepliesFound DEF Inv, CallbacksFindTarget
<1> QED BY InvInit, InvNext, <1>1, PTL DEF Spec

(* What OK sends of a group is what the dialog shows of it: the texts, and  *)
(* the button of each toggle since the dialog was made.  No notification,   *)
(* reload or handler of the header sends a group (src/settings.c).          *)
THEOREM OkSendsWhatIsShown == Spec => SentAsShown
<1>1. ASSUME Inv, [Next]_vars
      PROVE  \A g \in Groups : Sends(g) =>
               \A f \in g \cap Fields :
                  /\ f \in TextFields => Last(outbox').value[f] = text[f]
                  /\ f \in touched => Last(outbox').value[f] = active[f]
  BY <1>1, OnlyOkSends, SendsShown DEF Inv, Shape
<1> QED BY InvInit, InvNext, <1>1, PTL DEF Spec, SentAsShown

(* What the user edits counts until OK or an error, and nothing else does,  *)
(* though the program toggles the same buttons (src/settings.c).  The entry *)
(* of the time servers, whose name is misspelt, is the exception.           *)
THEOREM EditsCount_UnlessTime ==
    ASSUME "timeservers_conf" \notin Fields
    PROVE  Spec => EditsCounted
<1>1. Inv => OnlyEdited BY DEF Inv
<1>2. ASSUME Inv, [Next]_vars
      PROVE  open /\ open' /\ changedCb # "set" /\ toError \subseteq toError' =>
               /\ changed \subseteq changed'
               /\ \A f \in TextFields : text'[f] # text[f] => GroupOf(f) \in changed'
  BY <1>2, FieldSteps, EditsStay DEF Inv, Shape
<1> QED BY InvInit, InvNext, <1>1, <1>2, PTL DEF Spec, EditsCounted, KeptUntilOk

(* The header's echo sends what was wanted last, or nothing: it cannot undo *)
(* what the user or another program set while header and daemon agreed,     *)
(* whatever was refused, lost or read in between (src/settings.c).          *)
THEOREM EchoCorrect == Spec => []EchoRepeats
<1>1. Inv /\ EchoInv => EchoRepeats BY EchoFound DEF Inv
<1>2. Init => Inv /\ EchoInv BY InvInit, EchoInit
<1>3. (Inv /\ EchoInv) /\ [Next]_vars => (Inv /\ EchoInv)' BY InvNext, EchoNext
<1> QED BY <1>1, <1>2, <1>3, PTL DEF Spec
=============================================================================
