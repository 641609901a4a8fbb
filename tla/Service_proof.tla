--------------------------- MODULE Service_proof ---------------------------
(* Theorems about the service list, for every finite set of services and    *)
(* every bound: the objects of the table, the settings that follow one of   *)
(* them, and the left menu that shows them.                                 *)
EXTENDS Service, SequenceTheorems, FiniteSetTheorems, TLAPS

-----------------------------------------------------------------------------
(* Queues *)

(* q2 is q with more behind it. *)
Grown(q, q2) ==
    /\ Len(q) <= Len(q2)
    /\ \A i \in 1 .. Len(q) : q2[i] = q[i]

LEMMA QueueTail ==
    ASSUME NEW S, NEW q \in Seq(S), q # <<>>
    PROVE  /\ Len(q) \in Nat /\ Len(q) >= 1
           /\ q[1] \in S /\ Head(q) = q[1]
           /\ Tail(q) \in Seq(S)
           /\ Len(Tail(q)) = Len(q) - 1
           /\ \A i \in 1 .. Len(q) - 1 : Tail(q)[i] = q[i + 1]
  BY HeadTailProperties

LEMMA QueueAppend ==
    ASSUME NEW S, NEW q \in Seq(S), NEW e \in S
    PROVE  /\ Append(q, e) \in Seq(S)
           /\ Len(q) \in Nat /\ Len(Append(q, e)) = Len(q) + 1
           /\ Grown(q, Append(q, e))
           /\ Append(q, e)[Len(q) + 1] = e
  BY AppendProperties DEF Grown

-----------------------------------------------------------------------------
(* Lists and messages *)

LEMMA ListType ==
    ASSUME NEW l \in Lists
    PROVE  /\ l \in Seq(Paths) /\ Len(l) \in Nat /\ DOMAIN l = 1 .. Len(l)
           /\ ToSet(l) \subseteq Paths
           /\ \A i \in DOMAIN l : l[i] \in ToSet(l) /\ l[i] \in Paths
<1>1. Cardinality(Paths) \in Nat BY FS_CardinalityType, ConstAssumption
<1>2. PICK n \in 0 .. Cardinality(Paths) : l \in [1 .. n -> Paths] BY DEF Lists
<1>3. n \in Nat BY <1>1, <1>2
<1>4. l \in Seq(Paths) BY <1>2, <1>3
<1>5. Len(l) \in Nat /\ DOMAIN l = 1 .. Len(l) BY <1>4
<1> QED BY <1>2, <1>4, <1>5 DEF ToSet

LEMMA MessageFields ==
    ASSUME NEW m \in Messages
    PROVE  /\ m.type = "ServicesChanged" => m.list \in Lists /\ m.removed \subseteq Paths
           /\ m.type = "services" => m.serial \in Nat /\ m.list \in Lists
           /\ m.type = "error" => m.serial \in Nat
  BY DEF Messages

LEMMA MessageTypes ==
    /\ \A l \in Lists : \A gone \in SUBSET Paths : Changed(l, gone) \in Messages
    /\ \A s \in Nat : \A l \in Lists : Services(s, l) \in Messages
    /\ \A s \in Nat : Failure(s) \in Messages
    /\ Note("up") \in Messages /\ Note("down") \in Messages
  BY DEF Messages, Changed, Services, Failure, Note

-----------------------------------------------------------------------------
(* The table *)

(* A path is the key of its own object.                                     *)
Keyed == \A p \in Paths : services[p] # None => PathOf(services[p]) = p

(* The selected service is the one whose settings are shown, in the table   *)
(* or taken out of it.                                                      *)
Chosen ==
    selected # None =>
      PathOf(selected) = settings /\ services[PathOf(selected)] \in {None, selected}

TableType ==
    /\ live \subseteq Objects /\ era \in Nat
    /\ services \in [Paths -> Objects \cup {None}]
    /\ ordered \in Seq(Objects)
    /\ selected \in Objects \cup {None}
    /\ settings \in Paths \cup {None}
    /\ orphans \subseteq Objects

Table == TableType /\ Keyed /\ Chosen /\ NoLeakNoDangling /\ OrderLive

LEMMA NoneApart == None \notin Objects /\ None \notin Paths
  BY ConstAssumption DEF Objects

LEMMA ObjectPath ==
    /\ \A o \in Objects : PathOf(o) \in Paths
    /\ \A p \in Paths : \A n \in Nat : <<p, n>> \in Objects /\ PathOf(<<p, n>>) = p
  BY DEF Objects, PathOf

(* get_service finds the one object of a path.                              *)
LEMMA GetService ==
    ASSUME Table, NEW p \in Paths
    PROVE  /\ get_service(p) \in Objects \cup {None}
           /\ get_service(p) # None =>
                get_service(p) \in live /\ PathOf(get_service(p)) = p
           /\ services[p] # None => get_service(p) = services[p]
           /\ selected = None => get_service(p) = services[p]
  BY DEF Table, TableType, Keyed, NoLeakNoDangling, Hashed, get_service

LEMMA OneEach ==
    ASSUME Table
    PROVE  OneObjectPerPath
<1> SUFFICES ASSUME NEW o1 \in live, NEW o2 \in live, PathOf(o1) = PathOf(o2)
             PROVE  o1 = o2
  BY DEF OneObjectPerPath
<1>1. \A o \in live : o = selected \/ (PathOf(o) \in Paths /\ services[PathOf(o)] = o)
  BY DEF Table, TableType, NoLeakNoDangling, Hashed, Keyed
<1>2. \A o \in live : o # None BY NoneApart DEF Table, TableType
<1>3. \A o \in live : o = selected => services[PathOf(o)] \in {None, o}
  BY <1>2 DEF Table, Chosen
<1> QED BY <1>1, <1>2, <1>3

(* What a reported list makes of the table.                                 *)
LEMMA MissingType ==
    ASSUME Table, NEW l \in Lists
    PROVE  /\ Missing(l) \subseteq ToSet(l) /\ Missing(l) \subseteq Paths
           /\ \A p \in Missing(l) : /\ services[p] = None
                                    /\ selected # None => PathOf(selected) # p
           /\ Created(l) \subseteq Objects
           /\ \A o \in Created(l) : PathOf(o) \in Missing(l)
           /\ WithCreated(l) \in [Paths -> Objects \cup {None}]
           /\ \A p \in Missing(l) : WithCreated(l)[p] \in Created(l)
                                    /\ WithCreated(l)[p] = <<p, era + 1>>
           /\ \A p \in Paths \ Missing(l) : WithCreated(l)[p] = services[p]
<1>1. Missing(l) \subseteq ToSet(l) /\ Missing(l) \subseteq Paths
  BY ListType DEF Missing
<1>2. era + 1 \in Nat BY DEF Table, TableType
<1>3. \A p \in Missing(l) : <<p, era + 1>> \in Objects /\ PathOf(<<p, era + 1>>) = p
  BY <1>1, <1>2, ObjectPath
<1>4. \A p \in Missing(l) : get_service(p) = None BY DEF Missing
<1>5. \A p \in Missing(l) : /\ services[p] = None
                            /\ selected # None => PathOf(selected) # p
  BY <1>1, <1>4, GetService DEF get_service
<1>6. /\ Created(l) \subseteq Objects
      /\ \A o \in Created(l) : PathOf(o) \in Missing(l)
  BY <1>3 DEF Created
<1>7. WithCreated(l) \in [Paths -> Objects \cup {None}]
  BY <1>3 DEF WithCreated, Table, TableType
<1>8. \A p \in Missing(l) : WithCreated(l)[p] \in Created(l)
                            /\ WithCreated(l)[p] = <<p, era + 1>>
  BY <1>1 DEF WithCreated, Created
<1>9. \A p \in Paths \ Missing(l) : WithCreated(l)[p] = services[p]
  BY DEF WithCreated
<1> QED BY <1>1, <1>5, <1>6, <1>7, <1>8, <1>9

(* The order names an object for each entry of the list.                    *)
LEMMA OrderType ==
    ASSUME Table, NEW l \in Lists
    PROVE  /\ OrderOf(l) \in Seq(Objects)
           /\ DOMAIN OrderOf(l) = DOMAIN l
           /\ \A i \in DOMAIN l : /\ PathOf(OrderOf(l)[i]) = l[i]
                                  /\ OrderOf(l)[i] \in live \cup Created(l)
<1>1. /\ Len(l) \in Nat /\ DOMAIN l = 1 .. Len(l)
      /\ \A i \in DOMAIN l : l[i] \in ToSet(l) /\ l[i] \in Paths
  BY ListType
<1>2. ASSUME NEW i \in DOMAIN l
      PROVE  /\ OrderOf(l)[i] \in Objects
             /\ PathOf(OrderOf(l)[i]) = l[i]
             /\ OrderOf(l)[i] \in live \cup Created(l)
  <2>1. CASE l[i] \in Missing(l)
    <3>1. OrderOf(l)[i] = <<l[i], era + 1>> BY <2>1 DEF OrderOf
    <3>2. era + 1 \in Nat BY DEF Table, TableType
    <3>3. <<l[i], era + 1>> \in Created(l) BY <2>1 DEF Created
    <3> QED BY <1>1, <3>1, <3>2, <3>3, ObjectPath
  <2>2. CASE l[i] \notin Missing(l)
    <3>1. OrderOf(l)[i] = get_service(l[i]) BY <2>2 DEF OrderOf
    <3>2. get_service(l[i]) # None BY <1>1, <2>2 DEF Missing
    <3> QED BY <1>1, <3>1, <3>2, GetService
  <2> QED BY <2>1, <2>2
<1>3. OrderOf(l) = [i \in 1 .. Len(l) |-> OrderOf(l)[i]] BY <1>1 DEF OrderOf
<1>4. OrderOf(l) \in [1 .. Len(l) -> Objects] BY <1>1, <1>2, <1>3
<1>5. OrderOf(l) \in Seq(Objects) BY <1>1, <1>4
<1> QED BY <1>1, <1>2, <1>4, <1>5

LEMMA TableStays ==
    ASSUME Table, UNCHANGED <<tableVars, settings, orphans>>
    PROVE  Table'
  BY DEF Table, TableType, Keyed, Chosen, NoLeakNoDangling, OrderLive, Hashed, tableVars

(* Without an object there is nothing to order, select or free.             *)
LEMMA TableEmpty ==
    ASSUME live' = {}, services' = NoServices, ordered' = <<>>, selected' = None,
           era' \in Nat, settings' \in Paths \cup {None}, orphans' \subseteq Objects
    PROVE  Table'
<1>1. \A p \in Paths : services'[p] = None BY DEF NoServices
<1>2. NoServices \in [Paths -> Objects \cup {None}] BY DEF NoServices
<1>3. TableType' BY <1>2, NoneApart DEF TableType
<1>4. NoLeakNoDangling' BY <1>1 DEF NoLeakNoDangling, Hashed
<1>5. OrderLive'
  <2>1. DOMAIN ordered' = {} OBVIOUS
  <2> QED BY <2>1 DEF OrderLive, ToSet
<1> QED BY <1>1, <1>3, <1>4, <1>5 DEF Table, Keyed, Chosen

(* A reported list, without removals. *)
LEMMA TableReported ==
    ASSUME Table, NEW l \in Lists, update_or_create_services(l),
           live' = live \cup Created(l), services' = WithCreated(l),
           UNCHANGED <<selected, settings, orphans>>
    PROVE  Table'
<1>1. ordered' = OrderOf(l) /\ era' \in Nat
  BY DEF update_or_create_services, Table, TableType
<1>2. /\ Missing(l) \subseteq Paths
      /\ \A p \in Missing(l) : /\ services[p] = None
                               /\ selected # None => PathOf(selected) # p
      /\ Created(l) \subseteq Objects
      /\ \A o \in Created(l) : PathOf(o) \in Missing(l)
      /\ services' \in [Paths -> Objects \cup {None}]
      /\ \A p \in Missing(l) : services'[p] \in Created(l) /\ services'[p] = <<p, era + 1>>
      /\ \A p \in Paths \ Missing(l) : services'[p] = services[p]
  BY MissingType
<1>3. TableType' BY <1>1, <1>2, OrderType DEF Table, TableType
<1>4. Keyed' BY <1>2 DEF Table, Keyed, PathOf
<1>5. Chosen'
  <2>1. ASSUME selected # None
        PROVE  PathOf(selected) \in Paths /\ PathOf(selected) \notin Missing(l)
    BY <1>2, <2>1, ObjectPath DEF Table, TableType
  <2> QED BY <1>2, <2>1 DEF Table, Chosen
<1>6. NoLeakNoDangling'
  <2>1. Created(l) = {services'[p] : p \in Missing(l)} BY <1>2 DEF Created
  <2>2. Hashed' = Hashed \cup Created(l)
    <3>1. ASSUME NEW o \in Hashed' PROVE o \in Hashed \cup Created(l)
      BY <1>2, <3>1 DEF Hashed
    <3>2. ASSUME NEW o \in Hashed PROVE o \in Hashed'
      <4>1. PICK p \in Paths : services[p] = o /\ o # None BY DEF Hashed
      <4>2. p \notin Missing(l) BY <1>2, <4>1
      <4> QED BY <1>2, <4>1, <4>2 DEF Hashed
    <3>3. ASSUME NEW o \in Created(l) PROVE o \in Hashed'
      <4>1. PICK p \in Missing(l) : services'[p] = o BY <2>1
      <4>2. o # None BY <1>2, NoneApart
      <4> QED BY <1>2, <4>1, <4>2 DEF Hashed
    <3> QED BY <3>1, <3>2, <3>3
  <2> QED BY <2>2 DEF Table, NoLeakNoDangling
<1>7. OrderLive' BY <1>1, OrderType DEF OrderLive, ToSet
<1> QED BY <1>3, <1>4, <1>5, <1>6, <1>7 DEF Table

(* A reported list with removals, which it does not name itself.            *)
LEMMA TableChanged ==
    ASSUME Table, NEW l \in Lists, NEW K \in SUBSET Paths, K \cap ToSet(l) = {},
           \A p \in K : get_service(p) # None,
           update_or_create_services(l),
           live' = Freed({services[p] : p \in K} \ {None}, selected) \cup Created(l),
           services' = [p \in Paths |-> IF p \in K THEN None ELSE WithCreated(l)[p]],
           UNCHANGED <<selected, settings, orphans>>
    PROVE  Table'
<1> DEFINE S == {services[p] : p \in K} \ {None}
<1>1. ordered' = OrderOf(l) /\ era' \in Nat
  BY DEF update_or_create_services, Table, TableType
<1>2. /\ Missing(l) \subseteq Paths /\ Missing(l) \subseteq ToSet(l)
      /\ \A p \in Missing(l) : /\ services[p] = None
                               /\ selected # None => PathOf(selected) # p
      /\ Created(l) \subseteq Objects
      /\ \A o \in Created(l) : PathOf(o) \in Missing(l)
      /\ WithCreated(l) \in [Paths -> Objects \cup {None}]
      /\ \A p \in Missing(l) : WithCreated(l)[p] \in Created(l)
                               /\ WithCreated(l)[p] = <<p, era + 1>>
      /\ \A p \in Paths \ Missing(l) : WithCreated(l)[p] = services[p]
  BY MissingType
<1>3. /\ services' \in [Paths -> Objects \cup {None}]
      /\ \A p \in K : services'[p] = None
      /\ \A p \in Missing(l) : services'[p] \in Created(l) /\ services'[p] = <<p, era + 1>>
      /\ \A p \in Paths \ (K \cup Missing(l)) : services'[p] = services[p]
  BY <1>2
<1>4. live' = (live \ (S \ {selected})) \cup Created(l) BY DEF Freed
<1>5. TableType' BY <1>1, <1>2, <1>3, <1>4, OrderType DEF Table, TableType
<1>6. Keyed' BY <1>2, <1>3 DEF Table, Keyed, PathOf
<1>7. Chosen'
  <2>1. ASSUME selected # None
        PROVE  PathOf(selected) \in Paths /\ PathOf(selected) \notin Missing(l)
    BY <1>2, <2>1, ObjectPath DEF Table, TableType
  <2> QED BY <1>2, <1>3, <2>1 DEF Table, Chosen
<1>8. ASSUME NEW o \in S PROVE PathOf(o) \in K /\ services[PathOf(o)] = o /\ o # None
  BY <1>8 DEF Table, Keyed
<1> HIDE DEF S
<1>9. Hashed' = (Hashed \ S) \cup Created(l)
  <2>1. ASSUME NEW o \in Hashed' PROVE o \in (Hashed \ S) \cup Created(l)
    <3>1. PICK p \in Paths : services'[p] = o /\ o # None BY DEF Hashed
    <3>2. CASE p \in Missing(l) BY <1>3, <3>1, <3>2
    <3>3. CASE p \notin Missing(l)
      <4>1. p \notin K /\ services[p] = o BY <1>3, <3>1, <3>3
      <4>2. PathOf(o) = p /\ o \in Hashed BY <3>1, <4>1 DEF Table, Keyed, Hashed
      <4> QED BY <1>8, <4>1, <4>2
    <3> QED BY <3>2, <3>3
  <2>2. ASSUME NEW o \in Hashed, o \notin S PROVE o \in Hashed'
    <3>1. PICK p \in Paths : services[p] = o /\ o # None BY DEF Hashed
    <3>2. p \notin K BY <2>2, <3>1 DEF S
    <3>3. p \notin Missing(l) BY <1>2, <3>1
    <3> QED BY <1>3, <3>1, <3>2, <3>3 DEF Hashed
  <2>3. ASSUME NEW o \in Created(l) PROVE o \in Hashed'
    <3>1. PICK p \in Missing(l) : o = <<p, era + 1>> BY DEF Created
    <3>2. o # None BY <1>2, NoneApart
    <3> QED BY <1>2, <1>3, <3>1, <3>2 DEF Hashed
  <2> QED BY <2>1, <2>2, <2>3
<1>10. NoLeakNoDangling'
  <2>1. None \notin S BY <1>8
  <2>2. live = Hashed \cup ({selected} \ {None}) BY DEF Table, NoLeakNoDangling
  <2> QED BY <1>4, <1>9, <2>1, <2>2 DEF NoLeakNoDangling
<1>11. OrderLive'
  <2>1. ASSUME NEW i \in DOMAIN l PROVE OrderOf(l)[i] \in live' \cup orphans
    <3>1. PathOf(OrderOf(l)[i]) = l[i] /\ OrderOf(l)[i] \in live \cup Created(l)
      BY OrderType
    <3>2. l[i] \notin K BY DEF ToSet
    <3>3. OrderOf(l)[i] \notin S BY <1>8, <3>1, <3>2
    <3> QED BY <1>4, <3>1, <3>3
  <2>2. DOMAIN OrderOf(l) = DOMAIN l BY OrderType
  <2> QED BY <1>1, <2>1, <2>2 DEF OrderLive, ToSet
<1> QED BY <1>5, <1>6, <1>7, <1>10, <1>11 DEF Table

(* Closing the menu frees what is not selected. *)
LEMMA TableClosed ==
    ASSUME Table, services' = NoServices, ordered' = <<>>, live' = Freed(Hashed, selected'),
           \/ selected' = selected /\ settings' = settings
           \/ /\ selected = None /\ settings' \in Paths
              /\ selected' = get_service(settings'),
           UNCHANGED <<era, orphans>>
    PROVE  Table'
<1>1. \A p \in Paths : services'[p] = None BY DEF NoServices
<1>2. NoServices \in [Paths -> Objects \cup {None}] BY DEF NoServices
<1>3. live = Hashed \cup ({selected} \ {None}) /\ None \notin Hashed
  BY DEF Table, NoLeakNoDangling, Hashed
<1>4. selected' \in Objects \cup {None} /\ (selected' # None => PathOf(selected') = settings')
  BY GetService DEF Table, TableType, Chosen
<1>5. selected' # None => selected' \in live
  BY <1>3, GetService
<1>6. live' = {selected'} \ {None}
  <2>1. CASE selected' = selected BY <1>3, <2>1 DEF Freed
  <2>2. CASE selected = None BY <1>3, <1>5, <2>2 DEF Freed
  <2> QED BY <2>1, <2>2
<1>7. Hashed' = {} BY <1>1 DEF Hashed
<1>8. TableType'
  <2>1. live' \subseteq Objects BY <1>4, <1>6
  <2>2. settings' \in Paths \cup {None} BY DEF Table, TableType
  <2>3. ordered' \in Seq(Objects) OBVIOUS
  <2> QED BY <1>2, <1>4, <2>1, <2>2, <2>3 DEF Table, TableType
<1>9. Chosen'
  <2>1. selected' # None => services'[PathOf(selected')] = None
    BY <1>1, <1>4, ObjectPath
  <2> QED BY <1>4, <2>1 DEF Chosen
<1>10. OrderLive'
  <2>1. DOMAIN ordered' = {} OBVIOUS
  <2> QED BY <2>1 DEF OrderLive, ToSet
<1> QED BY <1>1, <1>6, <1>7, <1>8, <1>9, <1>10 DEF Table, Keyed, NoLeakNoDangling

(* Closing the settings frees a service that left the table.                *)
LEMMA TableDeselected ==
    ASSUME Table, settings' = None, selected' = None,
           IF selected # None /\ services[PathOf(selected)] = None
           THEN live' = live \ {selected} /\ orphans' = orphans \cup {selected}
           ELSE UNCHANGED <<live, orphans>>,
           UNCHANGED <<era, services, ordered>>
    PROVE  Table'
<1>1. live = Hashed \cup ({selected} \ {None}) BY DEF Table, NoLeakNoDangling
<1>2. live' = Hashed
  <2>1. CASE selected = None BY <1>1, <2>1
  <2>2. CASE selected # None /\ services[PathOf(selected)] = None
    <3>1. selected \notin Hashed BY <2>2 DEF Hashed, Table, Keyed
    <3> QED BY <1>1, <2>2, <3>1
  <2>3. CASE selected # None /\ services[PathOf(selected)] # None
    <3>1. PathOf(selected) \in Paths BY <2>3, ObjectPath DEF Table, TableType
    <3>2. selected \in Hashed BY <2>3, <3>1 DEF Hashed, Table, Chosen
    <3> QED BY <1>1, <2>3, <3>2
  <2> QED BY <2>1, <2>2, <2>3
<1>3. live \cup orphans \subseteq live' \cup orphans' OBVIOUS
<1>4. TableType' BY <1>2, <1>1 DEF Table, TableType
<1> QED BY <1>2, <1>3, <1>4 DEF Table, Keyed, Chosen, NoLeakNoDangling, Hashed, OrderLive

(* The order may be dropped at any time. *)
LEMMA TableUnordered ==
    ASSUME Table, ordered' \in {ordered, <<>>},
           UNCHANGED <<live, era, services, selected, settings, orphans>>
    PROVE  Table'
<1>1. ordered' \in Seq(Objects)
  <2>1. ordered \in Seq(Objects) /\ <<>> \in Seq(Objects) BY DEF Table, TableType
  <2> QED BY <2>1
<1>2. OrderLive'
  <2>1. DOMAIN <<>> = {} OBVIOUS
  <2> QED BY <2>1 DEF Table, OrderLive, ToSet
<1> QED BY <1>1, <1>2 DEF Table, TableType, Keyed, Chosen, NoLeakNoDangling, Hashed

-----------------------------------------------------------------------------
(* What is on its way *)

IsAnswer(m) == m.type \in {"services", "error"}

(* Calls and answers carry numbers that were given out.                     *)
Given ==
    /\ call <= serial
    /\ \A i \in 1 .. Len(outbox) : outbox[i] \in 1 .. serial
    /\ \A i \in 1 .. Len(inbox) : IsAnswer(inbox[i]) => inbox[i].serial \in 1 .. serial

(* A service that is told to be gone is not in the list told with it.       *)
Apart ==
    \A i \in 1 .. Len(inbox) :
      inbox[i].type = "ServicesChanged" => inbox[i].removed \cap ToSet(inbox[i].list) = {}

QueuesType ==
    /\ list \in Lists
    /\ outbox \in Seq(Nat) /\ inbox \in Seq(Messages)
    /\ call \in Nat /\ serial \in Nat

Queues == QueuesType /\ Given /\ Apart

(* What belongs to what in the menu and the settings.                       *)
Parts ==
    /\ settings # None => ~open
    /\ matched => open /\ serviceIf /\ refreshCb /\ removedCb
    /\ removedCb => open
    /\ ~serviceIf => /\ ~matched /\ call = 0
                     /\ services = NoServices /\ ordered = <<>> /\ selected = None

Flags ==
    {alive, matched, serviceIf, refreshed, refreshCb, removedCb, idle, open, clean, failed}
      \subseteq BOOLEAN

Rest ==
    /\ staleIdle \in Nat
    /\ items \subseteq Paths
    /\ listener \in Objects \cup {None}
    /\ changes \in 0 .. MaxChange /\ popups \in 0 .. MaxPopup
    /\ troubles \in 0 .. MaxTrouble

Shape == Flags /\ Queues /\ Table /\ Rest /\ Parts

LEMMA ShapeType == Shape => TypeOK
  BY DEF Shape, Flags, Queues, QueuesType, Table, TableType, Rest, TypeOK

LEMMA InboxTail ==
    ASSUME Queues, inbox # <<>>, inbox' = Tail(inbox)
    PROVE  /\ inbox' \in Seq(Messages)
           /\ Len(inbox) \in Nat /\ Len(inbox') = Len(inbox) - 1
           /\ Head(inbox) = inbox[1] /\ 1 \in 1 .. Len(inbox) /\ Head(inbox) \in Messages
           /\ \A i \in 1 .. Len(inbox') : i + 1 \in 1 + 1 .. Len(inbox) /\ i + 1 \in 1 .. Len(inbox)
                                          /\ inbox'[i] = inbox[i + 1]
  BY QueueTail DEF Queues, QueuesType

LEMMA InboxAppend ==
    ASSUME Queues, NEW m \in Messages, inbox' = Append(inbox, m)
    PROVE  /\ inbox' \in Seq(Messages)
           /\ Len(inbox) \in Nat /\ Len(inbox') = Len(inbox) + 1
           /\ inbox'[Len(inbox) + 1] = m /\ Len(inbox) + 1 \in 1 .. Len(inbox')
           /\ \A i \in 1 .. Len(inbox) : inbox'[i] = inbox[i] /\ i \in 1 .. Len(inbox')
           /\ \A i \in 1 .. Len(inbox') : i \in 1 .. Len(inbox) \/ i = Len(inbox) + 1
<1>1. inbox \in Seq(Messages) /\ Len(inbox) \in Nat BY DEF Queues, QueuesType
<1>2. /\ inbox' \in Seq(Messages) /\ Len(inbox') = Len(inbox) + 1
      /\ inbox'[Len(inbox) + 1] = m
      /\ \A i \in 1 .. Len(inbox) : inbox'[i] = inbox[i]
  BY <1>1, QueueAppend DEF Grown
<1> QED BY <1>1, <1>2

LEMMA OutboxTail ==
    ASSUME Queues, outbox # <<>>, outbox' = Tail(outbox)
    PROVE  /\ outbox' \in Seq(Nat)
           /\ Head(outbox) = outbox[1] /\ 1 \in 1 .. Len(outbox) /\ Head(outbox) \in Nat
           /\ Head(outbox) \in 1 .. serial
           /\ \A i \in 1 .. Len(outbox') : i \in Nat /\ i + 1 \in 1 .. Len(outbox) /\ i + 1 # 1
                                           /\ outbox'[i] = outbox[i + 1]
<1>1. /\ outbox' \in Seq(Nat)
      /\ Head(outbox) = outbox[1] /\ 1 \in 1 .. Len(outbox) /\ Head(outbox) \in Nat
      /\ \A i \in 1 .. Len(outbox') : i \in Nat /\ i + 1 \in 1 .. Len(outbox) /\ i + 1 # 1
                                      /\ outbox'[i] = outbox[i + 1]
  BY QueueTail DEF Queues, QueuesType
<1> QED BY <1>1 DEF Queues, Given

LEMMA OutboxAsks ==
    ASSUME Queues, __connman_manager_get_services
    PROVE  /\ outbox' \in Seq(Nat) /\ serial \in Nat
           /\ call' = serial + 1 /\ serial' = serial + 1
           /\ \A i \in 1 .. Len(outbox') :
                outbox'[i] = call' \/ (i \in 1 .. Len(outbox) /\ outbox'[i] = outbox[i])
           /\ \A i, j \in 1 .. Len(outbox') : outbox'[i] = call' /\ outbox'[j] = call' => i = j
           /\ alive => \E i \in 1 .. Len(outbox') : outbox'[i] = call'
<1>1. outbox \in Seq(Nat) /\ serial \in Nat /\ Len(outbox) \in Nat /\ serial + 1 \in Nat
  BY DEF Queues, QueuesType
<1>2. call' = serial + 1 /\ serial' = serial + 1 BY DEF __connman_manager_get_services
<1>3. \A i \in 1 .. Len(outbox) : outbox[i] # serial + 1
  BY <1>1 DEF Queues, Given
<1>4. CASE alive
  <2>1. outbox' = Append(outbox, serial + 1) BY <1>4 DEF __connman_manager_get_services
  <2>2. /\ outbox' \in Seq(Nat) /\ Len(outbox') = Len(outbox) + 1
        /\ outbox'[Len(outbox) + 1] = serial + 1
        /\ \A i \in 1 .. Len(outbox) : outbox'[i] = outbox[i]
    BY <1>1, <2>1, QueueAppend DEF Grown
  <2>3. \A i \in 1 .. Len(outbox') : i \in 1 .. Len(outbox) \/ i = Len(outbox) + 1
    BY <1>1, <2>2
  <2>4. Len(outbox) + 1 \in 1 .. Len(outbox') BY <1>1, <2>2
  <2> QED BY <1>1, <1>2, <1>3, <2>2, <2>3, <2>4
<1>5. CASE ~alive
  <2>1. outbox' = outbox BY <1>5 DEF __connman_manager_get_services
  <2> QED BY <1>1, <1>2, <1>3, <1>5, <2>1
<1> QED BY <1>4, <1>5

(* Where the messages and the calls of a step come from.                    *)
LEMMA MainQueues ==
    ASSUME MainLoop
    PROVE  /\ UNCHANGED <<alive, list>>
           /\ inbox' = inbox \/ (inbox # <<>> /\ inbox' = Tail(inbox))
           /\ \/ __connman_manager_get_services
              \/ UNCHANGED <<outbox, serial>> /\ call' \in {call, 0}
  BY DEF MainLoop, get_services_callback, get_services_cb, get_services_error,
        service_changed_signal_cb, connman_up, connman_down, refresh_cb, Receive, busVars,
        managerVars

LEMMA UserQueues ==
    ASSUME User \/ UNCHANGED vars
    PROVE  /\ UNCHANGED <<alive, list, inbox>>
           /\ \/ __connman_manager_get_services
              \/ UNCHANGED <<outbox, serial, call>>
  BY DEF User, cui_popup_left_menu, cui_popdown_left_menu, cui_settings_popup,
        settings_cancel_callback, vars, busVars, managerVars

(* What the daemon does to the queues.                                      *)
Tells(m) ==
    /\ inbox' = Append(inbox, m)
    /\ IsAnswer(m) => outbox # <<>> /\ outbox' = Tail(outbox) /\ m.serial = Head(outbox)
    /\ m.type = "ServicesChanged" => m.removed \cap ToSet(m.list) = {}

LEMMA DaemonQueues ==
    ASSUME Queues, Daemon
    PROVE  /\ UNCHANGED <<call, serial>> /\ list' \in Lists
           /\ \/ outbox' = outbox
              \/ outbox' = <<>>
              \/ outbox # <<>> /\ outbox' = Tail(outbox)
           /\ inbox' = inbox \/ \E m \in Messages : Tells(m)
<1>1. list \in Lists BY DEF Queues, QueuesType
<1>2. ASSUME NEW l \in Lists, DaemonChange(l)
      PROVE  inbox' = inbox \/ \E m \in Messages : Tells(m)
  <2> DEFINE gone == ToSet(list) \ ToSet(l)
             m == Changed(l, gone)
  <2>1. gone \in SUBSET Paths BY <1>1, ListType
  <2>2. m \in Messages BY <2>1, MessageTypes
  <2>3. m.type = "ServicesChanged" /\ m.removed \cap ToSet(m.list) = {} BY DEF Changed
  <2>4. inbox' = inbox \/ inbox' = Append(inbox, m) BY <1>2 DEF DaemonChange
  <2> HIDE DEF m
  <2> QED BY <2>2, <2>3, <2>4 DEF Tells, IsAnswer
<1>3. ASSUME NEW l \in Lists, DaemonUp(l)
      PROVE  \E m \in Messages : Tells(m)
  <2>1. Note("up") \in Messages /\ Note("up").type = "up" BY MessageTypes DEF Note
  <2>2. inbox' = Append(inbox, Note("up")) BY <1>3 DEF DaemonUp
  <2> QED BY <2>1, <2>2 DEF Tells, IsAnswer
<1>4. ASSUME DaemonDown PROVE \E m \in Messages : Tells(m)
  <2>1. Note("down") \in Messages /\ Note("down").type = "down" BY MessageTypes DEF Note
  <2>2. inbox' = Append(inbox, Note("down")) BY <1>4 DEF DaemonDown
  <2> QED BY <2>1, <2>2 DEF Tells, IsAnswer
<1>5. ASSUME DaemonAnswer PROVE \E m \in Messages : Tells(m)
  <2>1. outbox # <<>> /\ outbox' = Tail(outbox)
        /\ inbox' = Append(inbox, Services(Head(outbox), list))
    BY <1>5 DEF DaemonAnswer
  <2>2. Head(outbox) \in Nat BY <2>1, OutboxTail
  <2>3. Services(Head(outbox), list) \in Messages BY <1>1, <2>2, MessageTypes
  <2>4. Services(Head(outbox), list).type = "services"
        /\ Services(Head(outbox), list).serial = Head(outbox)
    BY DEF Services
  <2> QED BY <2>1, <2>3, <2>4 DEF Tells, IsAnswer
<1>6. ASSUME DaemonError PROVE \E m \in Messages : Tells(m)
  <2>1. outbox # <<>> /\ outbox' = Tail(outbox) /\ inbox' = Append(inbox, Failure(Head(outbox)))
    BY <1>6 DEF DaemonError
  <2>2. Head(outbox) \in Nat BY <2>1, OutboxTail
  <2>3. Failure(Head(outbox)) \in Messages BY <2>2, MessageTypes
  <2>4. Failure(Head(outbox)).type = "error" /\ Failure(Head(outbox)).serial = Head(outbox)
    BY DEF Failure
  <2> QED BY <2>1, <2>3, <2>4 DEF Tells, IsAnswer
<1>7. /\ UNCHANGED <<call, serial>> /\ list' \in Lists
      /\ \/ outbox' = outbox
         \/ outbox' = <<>>
         \/ outbox # <<>> /\ outbox' = Tail(outbox)
  BY <1>1 DEF Daemon, DaemonChange, DaemonUp, DaemonDown, DaemonAnswer, DaemonError, managerVars
<1> QED BY <1>2, <1>3, <1>4, <1>5, <1>6, <1>7 DEF Daemon

LEMMA QueuesMain ==
    ASSUME Queues, list' = list,
           inbox' = inbox \/ (inbox # <<>> /\ inbox' = Tail(inbox)),
           \/ __connman_manager_get_services
           \/ UNCHANGED <<outbox, serial>> /\ call' \in {call, 0}
    PROVE  Queues'
<1>1. /\ call \in Nat /\ serial \in Nat /\ call <= serial /\ outbox \in Seq(Nat)
      /\ inbox \in Seq(Messages) /\ list \in Lists
  BY DEF Queues, QueuesType, Given
<1>2. /\ outbox' \in Seq(Nat) /\ call' \in Nat /\ serial' \in Nat /\ call' <= serial'
      /\ serial <= serial' /\ \A i \in 1 .. Len(outbox') : outbox'[i] \in 1 .. serial'
  <2>1. CASE __connman_manager_get_services
    <3>1. /\ outbox' \in Seq(Nat) /\ call' = serial + 1 /\ serial' = serial + 1
          /\ \A i \in 1 .. Len(outbox') : outbox'[i] = serial + 1 \/ outbox'[i] \in 1 .. serial
      BY <2>1, OutboxAsks DEF Queues, Given
    <3> QED BY <1>1, <3>1
  <2>2. CASE UNCHANGED <<outbox, serial>> /\ call' \in {call, 0}
    BY <1>1, <2>2 DEF Queues, Given
  <2> QED BY <2>1, <2>2
<1>3. /\ inbox' \in Seq(Messages)
      /\ \A i \in 1 .. Len(inbox') : \E j \in 1 .. Len(inbox) : inbox'[i] = inbox[j]
  BY <1>1, InboxTail
<1>4. \A i \in 1 .. Len(inbox') : IsAnswer(inbox'[i]) => inbox'[i].serial \in 1 .. serial'
  <2>1. \A i \in 1 .. Len(inbox') : IsAnswer(inbox'[i]) => inbox'[i].serial \in 1 .. serial
    BY <1>3 DEF Queues, Given
  <2>2. 1 .. serial \subseteq 1 .. serial' BY <1>1, <1>2
  <2> QED BY <2>1, <2>2
<1>5. Apart' BY <1>3 DEF Queues, Apart
<1> QED BY <1>1, <1>2, <1>3, <1>4, <1>5 DEF Queues, QueuesType, Given

LEMMA QueuesDaemon ==
    ASSUME Queues, Daemon
    PROVE  Queues'
<1>1. /\ call \in Nat /\ serial \in Nat /\ call <= serial /\ outbox \in Seq(Nat)
      /\ inbox \in Seq(Messages)
  BY DEF Queues, QueuesType, Given
<1>2. call' = call /\ serial' = serial /\ list' \in Lists BY DaemonQueues
<1>3. outbox' \in Seq(Nat) /\ \A i \in 1 .. Len(outbox') : outbox'[i] \in 1 .. serial
  <2>1. CASE outbox' = outbox BY <1>1, <2>1 DEF Queues, Given
  <2>2. CASE outbox' = <<>>
    <3>1. outbox' \in Seq(Nat) /\ Len(outbox') = 0 BY <2>2
    <3> QED BY <3>1
  <2>3. CASE outbox # <<>> /\ outbox' = Tail(outbox) BY <2>3, OutboxTail DEF Queues, Given
  <2> QED BY <2>1, <2>2, <2>3, DaemonQueues
<1>4. /\ inbox' \in Seq(Messages)
      /\ \A i \in 1 .. Len(inbox') : IsAnswer(inbox'[i]) => inbox'[i].serial \in 1 .. serial
      /\ Apart'
  <2>1. CASE inbox' = inbox BY <1>1, <2>1 DEF Queues, Given, Apart
  <2>2. ASSUME NEW m \in Messages, Tells(m) 
        PROVE  /\ inbox' \in Seq(Messages)
               /\ \A i \in 1 .. Len(inbox') : IsAnswer(inbox'[i]) => inbox'[i].serial \in 1 .. serial
               /\ Apart'
    <3>1. inbox' = Append(inbox, m) BY <2>2 DEF Tells
    <3>2. IsAnswer(m) => m.serial \in 1 .. serial BY <2>2, OutboxTail DEF Tells
    <3>3. m.type = "ServicesChanged" => m.removed \cap ToSet(m.list) = {} BY <2>2 DEF Tells
    <3>4. /\ inbox' \in Seq(Messages)
          /\ \A i \in 1 .. Len(inbox') : (i \in 1 .. Len(inbox) /\ inbox'[i] = inbox[i]) \/ inbox'[i] = m
      BY <3>1, InboxAppend
    <3>5. \A i \in 1 .. Len(inbox') : IsAnswer(inbox'[i]) => inbox'[i].serial \in 1 .. serial
      BY <3>2, <3>4 DEF Queues, Given
    <3>6. Apart' BY <3>3, <3>4 DEF Queues, Apart
    <3> QED BY <3>4, <3>5, <3>6
  <2> QED BY <2>1, <2>2, DaemonQueues
<1> QED BY <1>1, <1>2, <1>3, <1>4 DEF Queues, QueuesType, Given

-----------------------------------------------------------------------------
(* The shape is kept *)

(* The menu opens without settings: nothing is selected.                    *)
LEMMA OpenUnchosen ==
    ASSUME Table, Parts, open
    PROVE  settings = None /\ selected = None
  BY NoneApart, ObjectPath DEF Table, TableType, Chosen, Parts

LEMMA NoObjects ==
    ASSUME Table, services = NoServices, selected = None
    PROVE  live = {} /\ \A p \in Paths : get_service(p) = None
  BY DEF Table, NoLeakNoDangling, Hashed, NoServices, get_service

LEMMA TableMain ==
    ASSUME Queues, Table, Parts, MainLoop
    PROVE  Table'
<1>1. CASE get_services_callback
  <2>1. /\ inbox # <<>> /\ inbox' = Tail(inbox) /\ Head(inbox).type = "services"
        /\ UNCHANGED <<selected, settings, orphans>>
    BY <1>1 DEF get_services_callback, Receive, guiVars, history
  <2>2. Head(inbox).list \in Lists BY <2>1, InboxTail, MessageFields
  <2>3. CASE Head(inbox).serial = call
    <3>1. /\ update_or_create_services(Head(inbox).list)
          /\ live' = live \cup Created(Head(inbox).list)
          /\ services' = WithCreated(Head(inbox).list)
      BY <1>1, <2>3 DEF get_services_callback, get_services_cb
    <3> QED BY <2>1, <2>2, <3>1, TableReported
  <2>4. CASE Head(inbox).serial # call
    <3>1. UNCHANGED <<live, era, services, ordered>>
      BY <1>1, <2>4 DEF get_services_callback
    <3> QED BY <2>1, <3>1, TableStays DEF tableVars
  <2> QED BY <2>3, <2>4
<1>2. CASE get_services_error
  BY <1>2, TableUnordered DEF get_services_error, guiVars
<1>3. CASE service_changed_signal_cb
  <2> DEFINE m == Head(inbox)
             K == {p \in m.removed : get_service(p) # None}
  <2>1. /\ inbox # <<>> /\ inbox' = Tail(inbox) /\ m.type = "ServicesChanged"
        /\ UNCHANGED <<selected, settings, orphans>>
    BY <1>3 DEF service_changed_signal_cb, Receive, history
  <2>2. /\ m.list \in Lists /\ m.removed \subseteq Paths
        /\ m.removed \cap ToSet(m.list) = {}
    BY <2>1, InboxTail, MessageFields DEF Queues, Apart
  <2>3. CASE matched
    <3>1. /\ update_or_create_services(m.list)
          /\ live' = Freed({services[p] : p \in K} \ {None}, selected) \cup Created(m.list)
          /\ services' = [p \in Paths |-> IF p \in K THEN None ELSE WithCreated(m.list)[p]]
      BY <1>3, <2>3 DEF service_changed_signal_cb
    <3>2. /\ K \in SUBSET Paths /\ K \cap ToSet(m.list) = {}
          /\ \A p \in K : get_service(p) # None
      BY <2>2
    <3> HIDE DEF K, m
    <3> QED BY <2>1, <2>2, <3>1, <3>2, TableChanged
  <2>4. CASE ~matched
    <3>1. UNCHANGED <<live, era, services, ordered>>
      BY <1>3, <2>4 DEF service_changed_signal_cb
    <3> QED BY <2>1, <3>1, TableStays DEF tableVars
  <2> QED BY <2>3, <2>4
<1>4. CASE connman_up \/ refresh_cb
  <2>1. UNCHANGED <<tableVars, settings, orphans>>
    BY <1>4 DEF connman_up, refresh_cb, guiVars, history
  <2> QED BY <2>1, TableStays
<1>5. CASE connman_down
  <2>1. /\ live' = live \ (Hashed \cup {selected})
        /\ services' = NoServices /\ ordered' = <<>> /\ selected' = None
        /\ UNCHANGED <<era, settings, orphans>>
    BY <1>5 DEF connman_down, history
  <2>2. live' = {} BY <2>1 DEF Table, NoLeakNoDangling
  <2>3. era' \in Nat /\ settings' \in Paths \cup {None} /\ orphans' \subseteq Objects
    BY <2>1 DEF Table, TableType
  <2> QED BY <2>1, <2>2, <2>3, TableEmpty
<1> QED BY <1>1, <1>2, <1>3, <1>4, <1>5 DEF MainLoop

LEMMA TableUser ==
    ASSUME Table, Parts, User
    PROVE  Table'
<1>1. ASSUME NEW wifi, cui_popup_left_menu(wifi) PROVE Table'
  <2>1. UNCHANGED <<tableVars, settings, orphans>> BY <1>1 DEF cui_popup_left_menu
  <2> QED BY <2>1, TableStays
<1>2. CASE cui_popdown_left_menu
  <2>1. selected' = selected /\ settings' = settings /\ era' = era /\ orphans' = orphans
    BY <1>2 DEF cui_popdown_left_menu, PopdownWith, history
  <2>2. CASE serviceIf
    <3>1. services' = NoServices /\ ordered' = <<>> /\ live' = Freed(Hashed, selected')
      BY <1>2, <2>1, <2>2 DEF cui_popdown_left_menu, PopdownWith
    <3> QED BY <2>1, <3>1, TableClosed
  <2>3. CASE ~serviceIf
    <3>1. UNCHANGED <<services, ordered, live>>
      BY <1>2, <2>3 DEF cui_popdown_left_menu, PopdownWith
    <3> QED BY <2>1, <3>1, TableStays DEF tableVars
  <2> QED BY <2>2, <2>3
<1>3. ASSUME NEW p \in Paths, cui_settings_popup(p) PROVE Table'
  <2>1. selected = None /\ settings' = p /\ era' = era /\ orphans' = orphans
    BY <1>3, OpenUnchosen DEF cui_settings_popup, history
  <2>2. selected' = get_service(p)
    BY <1>3, <2>1 DEF cui_settings_popup, PopdownWith
  <2>3. CASE serviceIf
    <3>1. services' = NoServices /\ ordered' = <<>> /\ live' = Freed(Hashed, selected')
      BY <1>3, <2>1, <2>2, <2>3 DEF cui_settings_popup, PopdownWith
    <3> QED BY <2>1, <2>2, <3>1, TableClosed
  <2>4. CASE ~serviceIf
    <3>1. UNCHANGED <<services, ordered, live>>
      BY <1>3, <2>4 DEF cui_settings_popup, PopdownWith
    <3>2. services = NoServices /\ ordered = <<>> BY <2>4 DEF Parts
    <3>3. live = {} /\ get_service(p) = None BY <2>1, <3>2, NoObjects
    <3>4. era' \in Nat /\ settings' \in Paths \cup {None} /\ orphans' \subseteq Objects
      BY <2>1 DEF Table, TableType
    <3> QED BY <2>2, <3>1, <3>2, <3>3, <3>4, TableEmpty
  <2> QED BY <2>3, <2>4
<1>4. CASE settings_cancel_callback
  BY <1>4, TableDeselected DEF settings_cancel_callback
<1> QED BY <1>1, <1>2, <1>3, <1>4 DEF User

LEMMA TableNext ==
    ASSUME Queues, Table, Parts, [Next]_vars
    PROVE  Table'
<1>1. CASE Daemon \/ UNCHANGED vars
  <2>1. UNCHANGED <<tableVars, settings, orphans>>
    BY <1>1 DEF Daemon, DaemonChange, DaemonUp, DaemonDown, DaemonAnswer, DaemonError, vars,
          guiVars, history
  <2> QED BY <2>1, TableStays
<1> QED BY <1>1, TableMain, TableUser DEF Next

LEMMA PartsMain ==
    ASSUME Queues, Table, Parts, MainLoop
    PROVE  Parts'
<1>1. CASE get_services_callback
  <2>1. UNCHANGED <<settings, open, matched, serviceIf, refreshCb, removedCb>>
    BY <1>1 DEF get_services_callback, guiVars
  <2>2. CASE serviceIf BY <2>1, <2>2 DEF Parts
  <2>3. CASE ~serviceIf
    <3>1. /\ inbox # <<>> /\ Head(inbox).type = "services" /\ Head(inbox) = inbox[1]
          /\ 1 \in 1 .. Len(inbox)
      BY <1>1, InboxTail DEF get_services_callback, Receive
    <3>2. Head(inbox).serial \in 1 .. serial BY <3>1 DEF Queues, Given, IsAnswer
    <3>3. Head(inbox).serial # call BY <2>3, <3>2 DEF Queues, QueuesType, Parts
    <3>4. UNCHANGED <<call, services, ordered, selected>>
      BY <1>1, <3>3 DEF get_services_callback
    <3> QED BY <2>1, <3>4 DEF Parts
  <2> QED BY <2>2, <2>3
<1>2. CASE get_services_error
  BY <1>2 DEF get_services_error, guiVars, refreshVars, Parts
<1>3. CASE service_changed_signal_cb
  <2>1. UNCHANGED <<settings, open, matched, serviceIf, refreshCb, removedCb, call, selected>>
    BY <1>3 DEF service_changed_signal_cb, managerVars
  <2>2. CASE serviceIf BY <2>1, <2>2 DEF Parts
  <2>3. CASE ~serviceIf
    <3>1. ~matched BY <2>3 DEF Parts
    <3>2. UNCHANGED <<services, ordered>> BY <1>3, <3>1 DEF service_changed_signal_cb
    <3> QED BY <2>1, <3>2 DEF Parts
  <2> QED BY <2>2, <2>3
<1>4. CASE connman_up
  BY <1>4 DEF connman_up, guiVars, refreshVars, managerVars, tableVars, Parts
<1>5. CASE connman_down BY <1>5 DEF connman_down, Parts
<1>6. CASE refresh_cb
  BY <1>6 DEF refresh_cb, managerVars, tableVars, Parts
<1> QED BY <1>1, <1>2, <1>3, <1>4, <1>5, <1>6 DEF MainLoop

LEMMA PartsUser ==
    ASSUME Table, Parts, User
    PROVE  Parts'
<1>1. ASSUME NEW wifi, cui_popup_left_menu(wifi) PROVE Parts'
  <2>1. /\ ~open /\ settings = None /\ open' /\ removedCb' = serviceIf
        /\ UNCHANGED <<settings, serviceIf, tableVars>>
        /\ IF serviceIf /\ wifi # "unknown" THEN refreshCb' = TRUE
           ELSE UNCHANGED <<refreshCb, managerVars>>
    BY <1>1 DEF cui_popup_left_menu
  <2>2. ~matched BY <2>1 DEF Parts
  <2> QED BY <2>1, <2>2 DEF Parts, tableVars, managerVars
<1>2. CASE cui_popdown_left_menu
  BY <1>2 DEF cui_popdown_left_menu, PopdownWith, Parts
<1>3. ASSUME NEW p \in Paths, cui_settings_popup(p) PROVE Parts'
  <2>1. ~serviceIf => get_service(p) = None
    BY NoObjects DEF Parts
  <2> QED BY <1>3, <2>1 DEF cui_settings_popup, PopdownWith, Parts
<1>4. CASE settings_cancel_callback
  BY <1>4 DEF settings_cancel_callback, managerVars, refreshVars, Parts
<1> QED BY <1>1, <1>2, <1>3, <1>4 DEF User

LEMMA PartsNext ==
    ASSUME Queues, Table, Parts, [Next]_vars
    PROVE  Parts'
<1>1. CASE Daemon \/ UNCHANGED vars
  <2>1. UNCHANGED <<managerVars, serviceIf, tableVars, refreshVars, guiVars>>
    BY <1>1 DEF Daemon, DaemonChange, DaemonUp, DaemonDown, DaemonAnswer, DaemonError, vars
  <2> QED BY <2>1 DEF guiVars, managerVars, tableVars, refreshVars, Parts
<1> QED BY <1>1, PartsMain, PartsUser DEF Next

LEMMA QueuesNext ==
    ASSUME Queues, [Next]_vars
    PROVE  Queues'
<1>1. CASE MainLoop BY <1>1, MainQueues, QueuesMain
<1>2. CASE User \/ UNCHANGED vars BY <1>2, UserQueues, QueuesMain
<1> QED BY <1>1, <1>2, QueuesDaemon DEF Next

LEMMA FlagsNext ==
    ASSUME Flags, [Next]_vars
    PROVE  Flags'
<1>1. CASE MainLoop
  BY <1>1 DEF Flags, MainLoop, get_services_callback, get_services_cb, call_refresh_callback,
       get_services_error, service_changed_signal_cb, connman_up, connman_down, refresh_cb,
       busVars, managerVars, refreshVars, guiVars, history
<1>2. ASSUME NEW wifi, cui_popup_left_menu(wifi) PROVE Flags'
  <2>1. clean' \in BOOLEAN
    <3>1. PICK c \in BOOLEAN : c = (/\ items = {} /\ Hashed = {} /\ ordered = <<>>
                                    /\ \A i \in DOMAIN inbox : inbox[i].type # "ServicesChanged")
      OBVIOUS
    <3> QED BY <1>2, <3>1 DEF cui_popup_left_menu
  <2>2. matched' \in BOOLEAN /\ refreshCb' \in BOOLEAN /\ removedCb' \in BOOLEAN
        /\ refreshed' \in BOOLEAN
    BY <1>2 DEF cui_popup_left_menu, Flags, managerVars
  <2> QED BY <1>2, <2>1, <2>2 DEF cui_popup_left_menu, Flags
<1>3. CASE User /\ ~\E wifi \in {"unknown", "disabled", "enabled"} : cui_popup_left_menu(wifi)
  BY <1>3 DEF Flags, User, cui_popdown_left_menu, cui_settings_popup, PopdownWith,
       settings_cancel_callback, busVars, managerVars, refreshVars, history
<1>4. CASE Daemon \/ UNCHANGED vars
  <2>1. alive' \in {alive, TRUE, FALSE}
        /\ UNCHANGED <<managerVars, serviceIf, refreshVars, guiVars, clean, failed>>
    BY <1>4 DEF Daemon, DaemonChange, DaemonUp, DaemonDown, DaemonAnswer, DaemonError, vars,
         busVars, history
  <2> QED BY <2>1 DEF Flags, managerVars, refreshVars, guiVars
<1> QED BY <1>1, <1>2, <1>3, <1>4 DEF Next, User

LEMMA ItemsType ==
    ASSUME Table, Rest, [Next]_vars
    PROVE  items' \subseteq Paths /\ listener' \in Objects \cup {None}
<1>1. items \subseteq Paths /\ listener \in Objects \cup {None} BY DEF Rest
<1>2. CASE refresh_cb
  <2>1. \A i \in DOMAIN ordered : ordered[i] \in Objects BY DEF Table, TableType
  <2>2. {PathOf(o) : o \in ToSet(ordered)} \subseteq Paths BY <2>1, ObjectPath DEF ToSet
  <2> QED BY <1>1, <1>2, <2>2 DEF refresh_cb, ShowServices
<1>3. ASSUME NEW p \in Paths, cui_settings_popup(p)
      PROVE  items' \subseteq Paths /\ listener' \in Objects \cup {None}
  <2>1. p # None BY NoneApart
  <2>2. items' = {} /\ listener' = get_service(p)
    BY <1>3, <2>1 DEF cui_settings_popup, PopdownWith
  <2> QED BY <2>2, GetService
<1>4. CASE cui_popdown_left_menu BY <1>1, <1>4 DEF cui_popdown_left_menu, PopdownWith
<1>5. CASE service_changed_signal_cb BY <1>1, <1>5 DEF service_changed_signal_cb
<1>6. CASE Daemon \/ UNCHANGED vars
  <2>1. UNCHANGED guiVars
    BY <1>6 DEF Daemon, DaemonChange, DaemonUp, DaemonDown, DaemonAnswer, DaemonError, vars
  <2> QED BY <1>1, <2>1 DEF guiVars
<1>7. CASE settings_cancel_callback BY <1>1, <1>7 DEF settings_cancel_callback
<1>8. ASSUME NEW wifi, cui_popup_left_menu(wifi)
      PROVE  items' \subseteq Paths /\ listener' \in Objects \cup {None}
  BY <1>1, <1>8 DEF cui_popup_left_menu
<1>9. CASE get_services_callback \/ get_services_error \/ connman_up \/ connman_down
  BY <1>1, <1>9 DEF get_services_callback, get_services_error, connman_up, connman_down, guiVars
<1> QED BY <1>2, <1>3, <1>4, <1>5, <1>6, <1>7, <1>8, <1>9 DEF Next, MainLoop, User

LEMMA CountsType ==
    ASSUME Rest, [Next]_vars
    PROVE  /\ staleIdle' \in Nat
           /\ changes' \in 0 .. MaxChange /\ popups' \in 0 .. MaxPopup
           /\ troubles' \in 0 .. MaxTrouble
<1>1. /\ staleIdle \in Nat
      /\ changes \in 0 .. MaxChange /\ popups \in 0 .. MaxPopup
      /\ troubles \in 0 .. MaxTrouble
      /\ MaxChange \in Nat /\ MaxPopup \in Nat /\ MaxTrouble \in Nat
  BY ConstAssumption DEF Rest
<1>2. staleIdle' \in Nat
  <2>1. CASE connman_down
    <3>1. staleIdle' = staleIdle \/ staleIdle' = staleIdle + 1
      <4>1. staleIdle' = staleIdle + (IF idle THEN 1 ELSE 0) BY <2>1 DEF connman_down
      <4> QED BY <1>1, <4>1
    <3> QED BY <1>1, <3>1
  <2>2. CASE refresh_cb
    <3>1. staleIdle' = staleIdle \/ (staleIdle > 0 /\ staleIdle' = staleIdle - 1)
      BY <2>2 DEF refresh_cb
    <3> QED BY <1>1, <3>1
  <2>3. CASE ~connman_down /\ ~refresh_cb
    <3>1. staleIdle' = staleIdle
      BY <2>3 DEF Next, MainLoop, User, Daemon, get_services_callback, get_services_error,
           service_changed_signal_cb, connman_up, cui_popup_left_menu,
           cui_popdown_left_menu, cui_settings_popup, settings_cancel_callback, DaemonChange,
           DaemonAnswer, DaemonError, DaemonDown, DaemonUp, vars, refreshVars
    <3> QED BY <1>1, <3>1
  <2> QED BY <2>1, <2>2, <2>3
<1>3. /\ changes' = changes \/ (changes < MaxChange /\ changes' = changes + 1)
      /\ popups' = popups \/ (popups < MaxPopup /\ popups' = popups + 1)
      /\ troubles' = troubles \/ (troubles < MaxTrouble /\ troubles' = troubles + 1)
  BY DEF Next, MainLoop, User, Daemon, get_services_callback, get_services_error,
       service_changed_signal_cb, connman_up, connman_down, refresh_cb, cui_popup_left_menu,
       cui_popdown_left_menu, cui_settings_popup, settings_cancel_callback, DaemonChange,
       DaemonAnswer, DaemonError, DaemonDown, DaemonUp, vars, history
<1> QED BY <1>1, <1>2, <1>3

LEMMA ShapeInit == Init => Shape
<1> SUFFICES ASSUME Init PROVE Shape OBVIOUS
<1>1. Queues
  <2>1. inbox = <<Note("up")>> /\ Note("up") \in Messages /\ Note("up").type = "up"
    BY MessageTypes DEF Init, Note
  <2>2. inbox \in Seq(Messages) /\ Len(inbox) = 1 /\ inbox[1].type = "up"
    <3> HIDE DEF Note
    <3> QED BY <2>1
  <2>3. outbox \in Seq(Nat) /\ Len(outbox) = 0 BY DEF Init
  <2> QED BY <2>2, <2>3 DEF Init, Queues, QueuesType, Given, Apart, IsAnswer
<1>2. Table
  <2>1. \A p \in Paths : services[p] = None BY DEF Init, NoServices
  <2>2. services \in [Paths -> Objects \cup {None}] BY DEF Init, NoServices
  <2>3. ordered \in Seq(Objects) /\ DOMAIN ordered = {} BY DEF Init
  <2> QED BY <2>1, <2>2, <2>3 DEF Init, Table, TableType, Keyed, Chosen, NoLeakNoDangling, Hashed,
        OrderLive, ToSet
<1>3. Rest BY ConstAssumption DEF Init, Rest
<1> QED BY <1>1, <1>2, <1>3 DEF Init, Shape, Flags, Parts

LEMMA ShapeNext == Shape /\ [Next]_vars => Shape'
<1> SUFFICES ASSUME Shape, [Next]_vars PROVE Shape' OBVIOUS
<1>1. Rest' BY ItemsType, CountsType DEF Shape, Rest
<1> QED BY <1>1, FlagsNext, QueuesNext, TableNext, PartsNext DEF Shape

(* Every variable stays in its type. *)
THEOREM TypeCorrect == Spec => []TypeOK
<1> QED BY ShapeInit, ShapeNext, ShapeType, PTL DEF Spec

(* A service object lives as long as the table or the settings name it, one *)
(* for each path, and the order points at none that was freed, but for the  *)
(* one freed by closing the settings (service_free, update_or_create_service *)
(* and connman_service_deselect of lib/service.c).                          *)
THEOREM ObjectsCorrect == Spec => []ObjectsKept
<1>1. Shape => ObjectsKept BY OneEach DEF Shape, Table, ObjectsKept
<1> QED BY ShapeInit, ShapeNext, <1>1, PTL DEF Spec

-----------------------------------------------------------------------------
(* The settings *)

(* An item that is shown while the menu is closed stays shown until it      *)
(* opens, and the settings close before that.                               *)
LEMMA SettingsNext ==
    ASSUME Shape, SettingsFollow, [Next]_vars
    PROVE  SettingsFollow'
<1>1. Table /\ Parts BY DEF Shape
<1>2. CASE UNCHANGED <<settings, selected, items, live, listener>>
  BY <1>2 DEF SettingsFollow
<1>3. CASE get_services_callback
  <2>1. UNCHANGED <<settings, selected, items, listener>> /\ live \subseteq live'
    BY <1>3 DEF get_services_callback, get_services_cb, guiVars
  <2> QED BY <2>1 DEF SettingsFollow
<1>4. CASE service_changed_signal_cb
  <2>1. ASSUME selected # None, settings # None
        PROVE  UNCHANGED <<settings, selected, items, listener>>
    BY <1>1, <1>4, <2>1 DEF service_changed_signal_cb, Parts
  <2>2. selected \in live => selected \in live'
    BY <1>4 DEF service_changed_signal_cb, Freed
  <2>3. UNCHANGED <<settings, selected>> BY <1>4 DEF service_changed_signal_cb
  <2> QED BY <2>1, <2>2, <2>3 DEF SettingsFollow
<1>5. CASE connman_down \/ settings_cancel_callback
  BY <1>5 DEF connman_down, settings_cancel_callback, SettingsFollow
<1>6. CASE refresh_cb
  <2>1. UNCHANGED <<settings, selected, live>> BY <1>6 DEF refresh_cb, tableVars
  <2>2. \/ UNCHANGED <<items, listener>>
        \/ LET shown == {PathOf(o) : o \in ToSet(ordered)} IN
             /\ items' = items \cup shown
             /\ listener' = IF \E p \in shown : get_service(p) = listener
                            THEN None ELSE listener
    BY <1>6 DEF refresh_cb, ShowServices
  <2>3. items' = {} => items = {} /\ listener' = listener BY <2>2
  <2> QED BY <2>1, <2>3 DEF SettingsFollow
<1>7. CASE cui_popdown_left_menu
  <2>1. settings' = None
    BY <1>1, <1>7, OpenUnchosen DEF cui_popdown_left_menu
  <2> QED BY <2>1 DEF SettingsFollow
<1>8. ASSUME NEW p \in Paths, cui_settings_popup(p) PROVE SettingsFollow'
  <2>1. selected = None /\ settings' = p
    BY <1>1, <1>8, OpenUnchosen DEF cui_settings_popup
  <2>2. p # None BY NoneApart
  <2>3. selected' = get_service(p) /\ listener' = get_service(p)
    BY <1>8, <2>1, <2>2 DEF cui_settings_popup, PopdownWith
  <2>4. get_service(p) # None => get_service(p) \in live /\ PathOf(get_service(p)) = p
    BY <1>1, GetService
  <2>5. get_service(p) \in live => get_service(p) \in live'
    BY <1>8, <2>3 DEF cui_settings_popup, PopdownWith, Freed
  <2> QED BY <2>1, <2>3, <2>4, <2>5 DEF SettingsFollow
<1>9. CASE get_services_error \/ connman_up \/ Daemon \/ UNCHANGED vars
           \/ \E wifi \in {"unknown", "disabled", "enabled"} : cui_popup_left_menu(wifi)
  <2>1. UNCHANGED <<settings, selected, items, live, listener>>
    BY <1>9 DEF get_services_error, connman_up, Daemon, DaemonChange, DaemonUp, DaemonDown,
         DaemonAnswer, DaemonError, cui_popup_left_menu, vars, guiVars, tableVars
  <2> QED BY <1>2, <2>1
<1> QED BY <1>3, <1>4, <1>5, <1>6, <1>7, <1>8, <1>9 DEF Next, MainLoop, User

(* The settings keep their service, also one the daemon took out of the     *)
(* list, and hear of its changes, until an answer fills the closed menu     *)
(* (cui_settings_popup of src/settings.c, gtk_service_new).                 *)
THEOREM SettingsCorrect == Spec => []SettingsFollow
<1>1. Init => SettingsFollow BY DEF Init, SettingsFollow
<1> QED BY ShapeInit, ShapeNext, SettingsNext, <1>1, PTL DEF Spec

-----------------------------------------------------------------------------
(* The end of the daemon is told before it comes back *)

EndTold ==
    ~alive =>
      \/ ~serviceIf /\ \A i \in 1 .. Len(inbox) : inbox[i].type # "up"
      \/ \E j \in 1 .. Len(inbox) :
           /\ inbox[j].type = "down"
           /\ \A i \in j + 1 .. Len(inbox) : inbox[i].type # "up"

NoDown == \A i \in 1 .. Len(inbox) : inbox[i].type # "down"

LEMMA EndToldMain ==
    ASSUME Queues, EndTold, MainLoop, ~alive
    PROVE  EndTold'
<1>1. CASE inbox' = inbox
  <2>1. serviceIf' = serviceIf
    BY <1>1, InboxTail DEF MainLoop, get_services_callback, get_services_error,
         service_changed_signal_cb, connman_up, connman_down, refresh_cb, Receive
  <2> QED BY <1>1, <2>1, MainQueues DEF EndTold
<1>2. CASE inbox # <<>> /\ inbox' = Tail(inbox)
  <2>1. /\ Len(inbox) \in Nat /\ Len(inbox') = Len(inbox) - 1
        /\ Head(inbox) = inbox[1] /\ 1 \in 1 .. Len(inbox)
        /\ \A i \in 1 .. Len(inbox') : i + 1 \in 1 + 1 .. Len(inbox) /\ i + 1 \in 1 .. Len(inbox)
                                       /\ inbox'[i] = inbox[i + 1]
    BY <1>2, InboxTail
  <2>2. inbox' # inbox
    <3>1. Len(inbox') # Len(inbox) BY <2>1
    <3> QED BY <3>1
  <2>3. /\ serviceIf' => serviceIf \/ inbox[1].type = "up"
        /\ inbox[1].type = "down" => ~serviceIf'
    BY <2>1, <2>2 DEF MainLoop, get_services_callback, get_services_error,
         service_changed_signal_cb, connman_up, connman_down, refresh_cb, Receive, busVars
  <2>4. CASE ~serviceIf /\ \A i \in 1 .. Len(inbox) : inbox[i].type # "up"
    <3>1. ~serviceIf' BY <2>1, <2>3, <2>4
    <3>2. \A i \in 1 .. Len(inbox') : inbox'[i].type # "up" BY <2>1, <2>4
    <3> QED BY <3>1, <3>2 DEF EndTold
  <2>5. ASSUME NEW j \in 1 .. Len(inbox), inbox[j].type = "down",
               \A i \in j + 1 .. Len(inbox) : inbox[i].type # "up"
        PROVE  EndTold'
    <3>1. CASE j = 1
      <4>1. \A i \in 1 .. Len(inbox') : inbox'[i].type # "up" BY <2>1, <2>5, <3>1
      <4> QED BY <2>3, <2>5, <3>1, <4>1 DEF EndTold
    <3>2. CASE j # 1
      <4>1. j - 1 \in 1 .. Len(inbox') /\ (j - 1) + 1 = j BY <2>1, <2>5, <3>2
      <4>2. inbox'[j - 1] = inbox[j] BY <2>1, <4>1
      <4>3. \A i \in (j - 1) + 1 .. Len(inbox') : i \in 1 .. Len(inbox') /\ i + 1 \in j + 1 .. Len(inbox)
        BY <2>1, <2>5, <3>2
      <4>4. \A i \in (j - 1) + 1 .. Len(inbox') : inbox'[i].type # "up" BY <2>1, <2>5, <4>3
      <4> QED BY <2>5, <4>1, <4>2, <4>4 DEF EndTold
    <3> QED BY <3>1, <3>2
  <2> QED BY <2>4, <2>5 DEF EndTold
<1> QED BY <1>1, <1>2, MainQueues

LEMMA EndToldNext ==
    ASSUME Queues, EndTold, [Next]_vars
    PROVE  EndTold'
<1>1. CASE User \/ UNCHANGED vars
  <2>1. UNCHANGED <<alive, inbox, serviceIf>>
    BY <1>1, UserQueues DEF User, cui_popup_left_menu, cui_popdown_left_menu,
         cui_settings_popup, settings_cancel_callback, vars
  <2> QED BY <2>1 DEF EndTold
<1>2. CASE DaemonDown
  <2>1. Note("down") \in Messages /\ Note("down").type = "down" BY MessageTypes DEF Note
  <2>2. inbox' = Append(inbox, Note("down")) BY <1>2 DEF DaemonDown
  <2>3. /\ Len(inbox) \in Nat /\ Len(inbox') = Len(inbox) + 1 /\ Len(inbox) + 1 \in 1 .. Len(inbox')
        /\ inbox'[Len(inbox) + 1].type = "down"
    BY <2>1, <2>2, InboxAppend
  <2>4. \A i \in (Len(inbox) + 1) + 1 .. Len(inbox') : FALSE BY <2>3
  <2> QED BY <2>3, <2>4 DEF EndTold
<1>3. ASSUME NEW l \in Lists, DaemonUp(l) PROVE EndTold' BY <1>3 DEF DaemonUp, EndTold
<1>4. CASE Daemon /\ ~DaemonDown /\ ~\E l \in Lists : DaemonUp(l)
  <2>1. UNCHANGED <<alive, serviceIf>>
    BY <1>4 DEF Daemon, DaemonChange, DaemonAnswer, DaemonError
  <2>2. CASE inbox' = inbox BY <2>1, <2>2 DEF EndTold
  <2>3. ASSUME NEW m \in Messages, Tells(m) PROVE EndTold'
    <3>1. inbox' = Append(inbox, m) BY <2>3 DEF Tells
    <3>2. /\ Len(inbox) \in Nat /\ Len(inbox') = Len(inbox) + 1 /\ inbox'[Len(inbox) + 1] = m
          /\ \A i \in 1 .. Len(inbox) : inbox'[i] = inbox[i] /\ i \in 1 .. Len(inbox')
          /\ \A i \in 1 .. Len(inbox') : i \in 1 .. Len(inbox) \/ i = Len(inbox) + 1
      BY <3>1, InboxAppend
    <3>3. m.type # "up"
      <4>1. \/ \E l \in Lists : inbox' = inbox \/ inbox' = Append(inbox, Changed(l, ToSet(list) \ ToSet(l)))
            \/ inbox' = Append(inbox, Services(Head(outbox), list))
            \/ inbox' = Append(inbox, Failure(Head(outbox)))
        BY <1>4 DEF Daemon, DaemonChange, DaemonAnswer, DaemonError
      <4>2. inbox' # inbox
        <5>1. Len(inbox') # Len(inbox) BY <3>2
        <5> QED BY <5>1
      <4>3. ASSUME NEW e, inbox' = Append(inbox, e) PROVE e = m
        <5>1. inbox \in Seq(Messages) BY DEF Queues, QueuesType
        <5>2. Append(inbox, e)[Len(inbox) + 1] = e BY <5>1
        <5> QED BY <3>2, <4>3, <5>2
      <4>4. /\ \A l \in Lists : Changed(l, ToSet(list) \ ToSet(l)).type # "up"
            /\ Services(Head(outbox), list).type # "up" /\ Failure(Head(outbox)).type # "up"
        BY DEF Changed, Services, Failure
      <4> HIDE DEF Changed, Services, Failure
      <4> QED BY <4>1, <4>2, <4>3, <4>4
    <3>4. \A i \in 1 .. Len(inbox') : inbox'[i].type = "up" => i \in 1 .. Len(inbox) /\ inbox[i].type = "up"
      BY <3>2, <3>3
    <3>5. ASSUME NEW j \in 1 .. Len(inbox), inbox[j].type = "down",
                 \A i \in j + 1 .. Len(inbox) : inbox[i].type # "up"
          PROVE  EndTold'
      <4>1. \A i \in j + 1 .. Len(inbox') : i \in 1 .. Len(inbox') /\ (i \in 1 .. Len(inbox) => i \in j + 1 .. Len(inbox))
        BY <3>2, <3>5
      <4>2. \A i \in j + 1 .. Len(inbox') : inbox'[i].type # "up" BY <3>4, <3>5, <4>1
      <4> QED BY <3>2, <3>5, <4>2 DEF EndTold
    <3> QED BY <2>1, <3>4, <3>5 DEF EndTold
  <2> QED BY <1>4, <2>2, <2>3, DaemonQueues
<1>5. CASE MainLoop
  <2>1. alive' = alive BY <1>5, MainQueues
  <2>2. CASE alive BY <2>1, <2>2 DEF EndTold
  <2> QED BY <1>5, <2>2, EndToldMain
<1> QED BY <1>1, <1>2, <1>3, <1>4, <1>5 DEF Next, Daemon

-----------------------------------------------------------------------------
(* A call has one answer *)

Current(m, c) == IsAnswer(m) /\ m.serial = c

Numbered ==
    /\ \A i, j \in 1 .. Len(outbox) : outbox[i] = call /\ outbox[j] = call => i = j
    /\ \A i, j \in 1 .. Len(inbox) :
         Current(inbox[i], call) /\ Current(inbox[j], call) => i = j
    /\ \A i \in 1 .. Len(outbox), j \in 1 .. Len(inbox) :
         outbox[i] = call => ~Current(inbox[j], call)

(* No answer has the number of no call, or of one that is yet to be made.   *)
LEMMA NumbersGiven ==
    ASSUME Queues
    PROVE  /\ \A i \in 1 .. Len(inbox) : ~Current(inbox[i], 0) /\ ~Current(inbox[i], serial + 1)
           /\ \A i \in 1 .. Len(outbox) : outbox[i] # 0 /\ outbox[i] # serial + 1
<1>1. serial \in Nat BY DEF Queues, QueuesType
<1>2. \A n \in 1 .. serial : n # 0 /\ n # serial + 1 BY <1>1
<1> QED BY <1>2 DEF Queues, Given, Current

LEMMA NumberedCalls ==
    ASSUME Queues, Numbered,
           inbox' = inbox \/ (inbox # <<>> /\ inbox' = Tail(inbox)),
           \/ __connman_manager_get_services
           \/ UNCHANGED <<outbox, serial>> /\ call' \in {call, 0}
    PROVE  Numbered'
<1>1. PICK d \in {0, 1} : \A i \in 1 .. Len(inbox') :
        i \in Nat /\ i + d \in 1 .. Len(inbox) /\ inbox'[i] = inbox[i + d]
  <2>1. CASE inbox' = inbox BY <2>1 DEF Queues, QueuesType
  <2>2. CASE inbox # <<>> /\ inbox' = Tail(inbox)
    <3>1. \A i \in 1 .. Len(inbox') : i \in Nat /\ i + 1 \in 1 .. Len(inbox)
                                      /\ inbox'[i] = inbox[i + 1]
      <4>1. /\ Len(inbox) \in Nat /\ Len(inbox') = Len(inbox) - 1
            /\ \A i \in 1 .. Len(inbox') : i + 1 \in 1 .. Len(inbox) /\ inbox'[i] = inbox[i + 1]
        BY <2>2, InboxTail
      <4>2. Len(inbox') \in Int BY <4>1
      <4> QED BY <4>1, <4>2
    <3> QED BY <3>1
  <2> QED BY <2>1, <2>2
<1>2. CASE __connman_manager_get_services
  <2>1. \A i \in 1 .. Len(inbox') : ~Current(inbox'[i], call')
    BY <1>1, <1>2, OutboxAsks, NumbersGiven
  <2> QED BY <1>2, <2>1, OutboxAsks DEF Numbered
<1>3. CASE UNCHANGED <<outbox, serial>> /\ call' = call
  <2>1. ASSUME NEW i \in 1 .. Len(inbox'), NEW j \in 1 .. Len(inbox'),
               Current(inbox'[i], call'), Current(inbox'[j], call')
        PROVE  i = j
    <3>1. i + d = j + d BY <1>1, <1>3, <2>1 DEF Numbered
    <3> QED BY <1>1, <3>1
  <2> QED BY <1>1, <1>3, <2>1 DEF Numbered
<1>4. CASE UNCHANGED <<outbox, serial>> /\ call' = 0
  BY <1>1, <1>4, NumbersGiven DEF Numbered
<1> QED BY <1>2, <1>3, <1>4

LEMMA NumberedDaemon ==
    ASSUME Queues, Numbered, Daemon
    PROVE  Numbered'
<1>1. call' = call BY DaemonQueues
<1>2. ASSUME outbox # <<>>, outbox' = Tail(outbox)
      PROVE  /\ Head(outbox) = outbox[1] /\ 1 \in 1 .. Len(outbox)
             /\ \A i \in 1 .. Len(outbox') : i \in Nat /\ i + 1 \in 1 .. Len(outbox) /\ i + 1 # 1
                                             /\ outbox'[i] = outbox[i + 1]
  BY <1>2, OutboxTail
<1>3. /\ \A i, j \in 1 .. Len(outbox') : outbox'[i] = call /\ outbox'[j] = call => i = j
      /\ \A i \in 1 .. Len(outbox') : outbox'[i] = call => \E k \in 1 .. Len(outbox) : outbox[k] = call
  <2>1. CASE outbox' = outbox BY <2>1 DEF Numbered
  <2>2. CASE outbox' = <<>>
    <3>1. Len(outbox') = 0 BY <2>2
    <3> QED BY <3>1
  <2>3. CASE outbox # <<>> /\ outbox' = Tail(outbox)
    <3>1. ASSUME NEW i \in 1 .. Len(outbox'), NEW j \in 1 .. Len(outbox'),
                 outbox'[i] = call, outbox'[j] = call
          PROVE  i = j
      <4>1. i + 1 = j + 1 BY <1>2, <2>3, <3>1 DEF Numbered
      <4> QED BY <4>1
    <3> QED BY <1>2, <2>3, <3>1
  <2> QED BY <2>1, <2>2, <2>3, DaemonQueues
<1>4. CASE inbox' = inbox BY <1>1, <1>3, <1>4 DEF Numbered
<1>5. ASSUME NEW m \in Messages, Tells(m) PROVE Numbered'
  <2>1. inbox' = Append(inbox, m) BY <1>5 DEF Tells
  <2>2. /\ Len(inbox) \in Nat /\ inbox'[Len(inbox) + 1] = m
        /\ \A i \in 1 .. Len(inbox) : inbox'[i] = inbox[i]
        /\ \A i \in 1 .. Len(inbox') : i \in 1 .. Len(inbox) \/ i = Len(inbox) + 1
    BY <2>1, InboxAppend
  <2>3. CASE Current(m, call)
    <3>1. outbox # <<>> /\ outbox' = Tail(outbox) /\ Head(outbox) = call
      BY <1>5, <2>3 DEF Tells, Current
    <3>2. \A i \in 1 .. Len(inbox) : ~Current(inbox[i], call) BY <1>2, <3>1 DEF Numbered
    <3>3. \A i \in 1 .. Len(outbox') : outbox'[i] # call BY <1>2, <3>1 DEF Numbered
    <3> QED BY <1>1, <1>3, <2>2, <3>2, <3>3 DEF Numbered
  <2>4. CASE ~Current(m, call)
    <3>1. \A i \in 1 .. Len(inbox') : Current(inbox'[i], call) =>
              i \in 1 .. Len(inbox) /\ Current(inbox[i], call)
      BY <2>2, <2>4
    <3> QED BY <1>1, <1>3, <3>1 DEF Numbered
  <2> QED BY <2>3, <2>4
<1> QED BY <1>4, <1>5, DaemonQueues

LEMMA NumberedNext ==
    ASSUME Queues, Numbered, [Next]_vars
    PROVE  Numbered'
  BY MainQueues, UserQueues, NumberedCalls, NumberedDaemon DEF Next

-----------------------------------------------------------------------------
(* The menu, while signals are watched and the daemon stays *)

Live(m, c) == m.type = "services" /\ m.serial = c
Orders(m, c) == m.type = "ServicesChanged" \/ Live(m, c)

Watching == matched /\ alive /\ NoDown

(* The steps from there to there, and the one that starts watching.         *)
LEMMA WatchingNext ==
    ASSUME Shape, EndTold, [Next]_vars, Watching'
    PROVE  \/ \E wifi : cui_popup_left_menu(wifi) /\ alive /\ __connman_manager_get_services
           \/ /\ Watching
              /\ \/ get_services_callback \/ get_services_error \/ service_changed_signal_cb
                 \/ connman_up \/ refresh_cb
                 \/ \E l \in Lists : DaemonChange(l)
                 \/ DaemonAnswer \/ DaemonError
                 \/ UNCHANGED vars
<1>1. Queues /\ Table /\ Parts BY DEF Shape
<1>2. CASE MainLoop
  <2>1. ~connman_down BY DEF connman_down, Watching
  <2>2. get_services_callback \/ get_services_error \/ service_changed_signal_cb
        \/ connman_up \/ refresh_cb
    BY <1>2, <2>1 DEF MainLoop
  <2>3. matched' = matched /\ alive' = alive
    BY <2>2 DEF get_services_callback, get_services_error, service_changed_signal_cb,
         connman_up, refresh_cb, managerVars, busVars
  <2>4. NoDown
    <3>1. CASE inbox' = inbox BY <3>1 DEF Watching, NoDown
    <3>2. CASE inbox # <<>> /\ inbox' = Tail(inbox) /\ Head(inbox).type # "down"
      <4>1. /\ Len(inbox) \in Nat /\ Len(inbox') = Len(inbox) - 1 /\ Head(inbox) = inbox[1]
            /\ \A i \in 1 .. Len(inbox') : inbox'[i] = inbox[i + 1]
        BY <1>1, <3>2, InboxTail
      <4>2. \A i \in 1 .. Len(inbox) : i # 1 =>
              i - 1 \in 1 .. Len(inbox') /\ (i - 1) + 1 = i
        BY <4>1
      <4>3. \A i \in 1 .. Len(inbox) : i # 1 => inbox'[i - 1] = inbox[i] BY <4>1, <4>2
      <4> QED BY <3>2, <4>1, <4>2, <4>3 DEF Watching, NoDown
    <3>3. inbox' = inbox \/ (inbox # <<>> /\ inbox' = Tail(inbox) /\ Head(inbox).type # "down")
      BY <2>2 DEF get_services_callback, get_services_error, service_changed_signal_cb,
           connman_up, refresh_cb, Receive, busVars
    <3> QED BY <3>1, <3>2, <3>3
  <2> QED BY <2>2, <2>3, <2>4 DEF Watching
<1>3. CASE User
  <2>1. UNCHANGED <<alive, inbox>> BY <1>3, UserQueues
  <2>2. ~cui_popdown_left_menu
    BY <1>1 DEF cui_popdown_left_menu, PopdownWith, Watching, Parts
  <2>3. ASSUME NEW p \in Paths, cui_settings_popup(p) PROVE FALSE
    BY <1>1, <2>3 DEF cui_settings_popup, PopdownWith, Watching, Parts
  <2>4. ~settings_cancel_callback
    BY <1>1 DEF settings_cancel_callback, managerVars, Watching, Parts
  <2>5. PICK wifi : cui_popup_left_menu(wifi) BY <1>3, <2>2, <2>3, <2>4 DEF User
  <2>6. ~matched BY <1>1, <2>5 DEF cui_popup_left_menu, Parts
  <2>7. alive /\ __connman_manager_get_services
    <3>1. matched' /\ alive' = alive /\ alive' BY <2>1 DEF Watching
    <3>2. CASE serviceIf /\ wifi # "unknown" BY <2>5, <3>1, <3>2 DEF cui_popup_left_menu
    <3>3. CASE ~(serviceIf /\ wifi # "unknown")
      <4>1. matched' = matched BY <2>5, <3>3 DEF cui_popup_left_menu, managerVars
      <4> QED BY <2>6, <3>1, <4>1
    <3> QED BY <3>2, <3>3
  <2> QED BY <2>5, <2>7
<1>4. CASE Daemon
  <2>1. matched' = matched
    BY <1>4 DEF Daemon, DaemonChange, DaemonUp, DaemonDown, DaemonAnswer, DaemonError, managerVars
  <2>2. \A i \in 1 .. Len(inbox) : inbox'[i] = inbox[i] /\ i \in 1 .. Len(inbox')
    <3>1. CASE inbox' = inbox BY <3>1
    <3>2. ASSUME NEW m \in Messages, Tells(m)
          PROVE  \A i \in 1 .. Len(inbox) : inbox'[i] = inbox[i] /\ i \in 1 .. Len(inbox')
      BY <1>1, <3>2, InboxAppend DEF Tells
    <3> QED BY <1>1, <1>4, <3>1, <3>2, DaemonQueues
  <2>3. NoDown BY <2>2 DEF Watching, NoDown
  <2>4. alive BY <1>1, <2>1, <2>3 DEF Watching, EndTold, NoDown, Parts
  <2>5. ~DaemonDown BY DEF DaemonDown, Watching
  <2>6. ~\E l \in Lists : DaemonUp(l) BY <2>4 DEF DaemonUp
  <2> QED BY <1>4, <2>1, <2>3, <2>4, <2>5, <2>6 DEF Daemon, Watching
<1>5. CASE UNCHANGED vars
  <2>1. UNCHANGED <<matched, alive, inbox>> BY <1>5 DEF vars, managerVars, busVars
  <2> QED BY <1>5, <2>1 DEF Watching, NoDown
<1> QED BY <1>2, <1>3, <1>4, <1>5 DEF Next

(* The list is asked for, or will not be told. *)
Asked ==
    \/ \E i \in 1 .. Len(outbox) : outbox[i] = call
    \/ \E i \in 1 .. Len(inbox) : inbox[i].type = "error" /\ inbox[i].serial = call

PathsOf(s) == [i \in DOMAIN s |-> PathOf(s[i])]

(* The order is l, or will be once the messages of q are handled.           *)
Ordering(q, c, s, l) ==
    \/ s = l /\ \A i \in 1 .. Len(q) : ~Orders(q[i], c)
    \/ \E i \in 1 .. Len(q) :
         /\ Orders(q[i], c) /\ q[i].list = l
         /\ \A j \in i + 1 .. Len(q) : ~Orders(q[j], c)

OrderRight ==
    Watching /\ ~failed => Asked \/ Ordering(inbox, call, PathsOf(ordered), list)

(* All services are shown, or will be. *)
Showing ==
    \/ \E i \in 1 .. Len(inbox) : Live(inbox[i], call)
    \/ /\ refreshed
       /\ \/ \E i \in 1 .. Len(inbox) : inbox[i].type = "ServicesChanged"
          \/ idle
          \/ ToSet(list) \subseteq items

ShownRight == Watching /\ ~failed => Asked \/ Showing

(* No service is shown that is gone, or its removal will be handled.        *)
Known == {p \in Paths : services[p] # None}
Brings(m, c, p) == Orders(m, c) /\ p \in ToSet(m.list)
Takes(m, p) == m.type = "ServicesChanged" /\ p \in m.removed

Forgotten(q, c, K, p) ==
    \/ p \notin K /\ \A i \in 1 .. Len(q) : ~Brings(q[i], c, p)
    \/ \E i \in 1 .. Len(q) :
         /\ Takes(q[i], p)
         /\ \A j \in i + 1 .. Len(q) : ~Brings(q[j], c, p)

GoneRight ==
    Watching /\ clean =>
      /\ items \subseteq Known
      /\ ToSet(PathsOf(ordered)) \subseteq Known
      /\ \A p \in Paths \ ToSet(list) : Forgotten(inbox, call, Known, p)

LEMMA OrderingTail ==
    ASSUME NEW q \in Seq(Messages), q # <<>>, NEW c, NEW c2, NEW s, NEW s2, NEW l,
           Ordering(q, c, s, l),
           \A i \in 1 .. Len(Tail(q)) : Orders(Tail(q)[i], c2) <=> Orders(Tail(q)[i], c),
           s2 = IF Orders(q[1], c) THEN q[1].list ELSE s
    PROVE  Ordering(Tail(q), c2, s2, l)
<1>1. /\ Len(q) \in Nat /\ Len(q) >= 1 /\ Len(Tail(q)) = Len(q) - 1
      /\ \A i \in 1 .. Len(q) - 1 : Tail(q)[i] = q[i + 1]
  BY QueueTail
<1>2. \A i \in 1 .. Len(Tail(q)) : i + 1 \in 1 .. Len(q) /\ i \in 1 .. Len(q) - 1
  BY <1>1
<1>3. \A i \in 1 .. Len(Tail(q)) : Orders(Tail(q)[i], c2) <=> Orders(q[i + 1], c)
  BY <1>1, <1>2
<1>4. CASE s = l /\ \A i \in 1 .. Len(q) : ~Orders(q[i], c)
  <2>1. 1 \in 1 .. Len(q) BY <1>1
  <2>2. s2 = l BY <1>4, <2>1
  <2> QED BY <1>2, <1>3, <1>4, <2>2 DEF Ordering
<1>5. ASSUME NEW i \in 1 .. Len(q), Orders(q[i], c), q[i].list = l,
             \A j \in i + 1 .. Len(q) : ~Orders(q[j], c)
      PROVE  Ordering(Tail(q), c2, s2, l)
  <2>1. \A j \in 1 .. Len(Tail(q)) : j >= i => j + 1 \in i + 1 .. Len(q) BY <1>1, <1>5
  <2>2. \A j \in 1 .. Len(Tail(q)) : j >= i => ~Orders(Tail(q)[j], c2) BY <1>3, <1>5, <2>1
  <2>3. CASE i = 1
    <3>1. s2 = l BY <1>5, <2>3
    <3>2. \A j \in 1 .. Len(Tail(q)) : j >= i BY <1>1, <2>3
    <3> QED BY <2>2, <3>1, <3>2 DEF Ordering
  <2>4. CASE i # 1
    <3>1. i - 1 \in 1 .. Len(Tail(q)) /\ (i - 1) + 1 = i /\ i - 1 \in 1 .. Len(q) - 1
      BY <1>1, <1>5, <2>4
    <3>2. Orders(Tail(q)[i - 1], c2) /\ Tail(q)[i - 1] = q[i] BY <1>1, <1>3, <1>5, <3>1
    <3>3. \A j \in (i - 1) + 1 .. Len(Tail(q)) : j \in 1 .. Len(Tail(q)) /\ j >= i
      BY <1>1, <1>5, <2>4
    <3> QED BY <1>5, <2>2, <3>1, <3>2, <3>3 DEF Ordering
  <2> QED BY <2>3, <2>4
<1> QED BY <1>4, <1>5 DEF Ordering

LEMMA OrderingAppend ==
    ASSUME NEW q \in Seq(Messages), NEW m \in Messages, NEW c, NEW s, NEW l, NEW l2,
           \/ Orders(m, c) /\ m.list = l2
           \/ ~Orders(m, c) /\ Ordering(q, c, s, l) /\ l2 = l
    PROVE  Ordering(Append(q, m), c, s, l2)
<1>1. /\ Len(q) \in Nat /\ Len(Append(q, m)) = Len(q) + 1 /\ Append(q, m)[Len(q) + 1] = m
      /\ \A i \in 1 .. Len(q) : Append(q, m)[i] = q[i]
  BY QueueAppend DEF Grown
<1>2. /\ Len(q) + 1 \in 1 .. Len(Append(q, m))
      /\ \A i \in (Len(q) + 1) + 1 .. Len(Append(q, m)) : FALSE
      /\ \A i \in 1 .. Len(Append(q, m)) : i \in 1 .. Len(q) \/ i = Len(q) + 1
  BY <1>1
<1>3. CASE Orders(m, c) /\ m.list = l2 BY <1>1, <1>2, <1>3 DEF Ordering
<1>4. CASE ~Orders(m, c) /\ Ordering(q, c, s, l) /\ l2 = l
  <2>1. \A i \in 1 .. Len(Append(q, m)) : Orders(Append(q, m)[i], c) =>
            i \in 1 .. Len(q) /\ Append(q, m)[i] = q[i]
    BY <1>1, <1>2, <1>4
  <2>2. CASE s = l /\ \A i \in 1 .. Len(q) : ~Orders(q[i], c)
    BY <1>4, <2>1, <2>2 DEF Ordering
  <2>3. ASSUME NEW i \in 1 .. Len(q), Orders(q[i], c), q[i].list = l,
               \A j \in i + 1 .. Len(q) : ~Orders(q[j], c)
        PROVE  Ordering(Append(q, m), c, s, l2)
    <3>1. i \in 1 .. Len(Append(q, m)) BY <1>1
    <3>2. \A j \in i + 1 .. Len(Append(q, m)) : j \in 1 .. Len(Append(q, m))
            /\ (j \in 1 .. Len(q) => j \in i + 1 .. Len(q))
      BY <1>1
    <3>3. \A j \in i + 1 .. Len(Append(q, m)) : ~Orders(Append(q, m)[j], c)
      BY <2>1, <2>3, <3>2
    <3> QED BY <1>1, <1>4, <2>3, <3>1, <3>3 DEF Ordering
  <2> QED BY <1>4, <2>2, <2>3 DEF Ordering
<1> QED BY <1>3, <1>4

LEMMA ForgottenTail ==
    ASSUME NEW q \in Seq(Messages), q # <<>>, NEW c, NEW c2, NEW K, NEW K2, NEW p,
           Forgotten(q, c, K, p),
           \A i \in 1 .. Len(Tail(q)) : Brings(Tail(q)[i], c2, p) => Brings(Tail(q)[i], c, p),
           p \in K2 => p \in K \/ Brings(q[1], c, p),
           Takes(q[1], p) => p \notin K2
    PROVE  Forgotten(Tail(q), c2, K2, p)
<1>1. /\ Len(q) \in Nat /\ Len(q) >= 1 /\ Len(Tail(q)) = Len(q) - 1
      /\ \A i \in 1 .. Len(q) - 1 : Tail(q)[i] = q[i + 1]
  BY QueueTail
<1>2. \A i \in 1 .. Len(Tail(q)) : i + 1 \in 1 .. Len(q) /\ i \in 1 .. Len(q) - 1
  BY <1>1
<1>3. \A i \in 1 .. Len(Tail(q)) : Brings(Tail(q)[i], c2, p) => Brings(q[i + 1], c, p)
  BY <1>1, <1>2
<1>4. CASE p \notin K /\ \A i \in 1 .. Len(q) : ~Brings(q[i], c, p)
  <2>1. 1 \in 1 .. Len(q) BY <1>1
  <2> QED BY <1>2, <1>3, <1>4, <2>1 DEF Forgotten
<1>5. ASSUME NEW i \in 1 .. Len(q), Takes(q[i], p),
             \A j \in i + 1 .. Len(q) : ~Brings(q[j], c, p)
      PROVE  Forgotten(Tail(q), c2, K2, p)
  <2>1. \A j \in 1 .. Len(Tail(q)) : j >= i => j + 1 \in i + 1 .. Len(q) BY <1>1, <1>5
  <2>2. \A j \in 1 .. Len(Tail(q)) : j >= i => ~Brings(Tail(q)[j], c2, p)
    BY <1>3, <1>5, <2>1
  <2>3. CASE i = 1
    <3>1. \A j \in 1 .. Len(Tail(q)) : j >= i BY <1>1, <2>3
    <3> QED BY <1>5, <2>2, <2>3, <3>1 DEF Forgotten
  <2>4. CASE i # 1
    <3>1. i - 1 \in 1 .. Len(Tail(q)) /\ (i - 1) + 1 = i /\ i - 1 \in 1 .. Len(q) - 1
      BY <1>1, <1>5, <2>4
    <3>2. Takes(Tail(q)[i - 1], p) BY <1>1, <1>5, <3>1
    <3>3. \A j \in (i - 1) + 1 .. Len(Tail(q)) : j \in 1 .. Len(Tail(q)) /\ j >= i
      BY <1>1, <1>5, <2>4
    <3> QED BY <2>2, <3>1, <3>2, <3>3 DEF Forgotten
  <2> QED BY <2>3, <2>4
<1> QED BY <1>4, <1>5 DEF Forgotten

LEMMA ForgottenAppend ==
    ASSUME NEW q \in Seq(Messages), NEW m \in Messages, NEW c, NEW K, NEW p,
           \/ Takes(m, p)
           \/ ~Brings(m, c, p) /\ Forgotten(q, c, K, p)
    PROVE  Forgotten(Append(q, m), c, K, p)
<1>1. /\ Len(q) \in Nat /\ Len(Append(q, m)) = Len(q) + 1 /\ Append(q, m)[Len(q) + 1] = m
      /\ \A i \in 1 .. Len(q) : Append(q, m)[i] = q[i]
  BY QueueAppend DEF Grown
<1>2. /\ Len(q) + 1 \in 1 .. Len(Append(q, m))
      /\ \A i \in (Len(q) + 1) + 1 .. Len(Append(q, m)) : FALSE
      /\ \A i \in 1 .. Len(Append(q, m)) : i \in 1 .. Len(q) \/ i = Len(q) + 1
  BY <1>1
<1>3. CASE Takes(m, p) BY <1>1, <1>2, <1>3 DEF Forgotten
<1>4. CASE ~Brings(m, c, p) /\ Forgotten(q, c, K, p)
  <2>1. \A i \in 1 .. Len(Append(q, m)) : Brings(Append(q, m)[i], c, p) =>
            i \in 1 .. Len(q) /\ Brings(q[i], c, p)
    BY <1>1, <1>2, <1>4
  <2>2. CASE p \notin K /\ \A i \in 1 .. Len(q) : ~Brings(q[i], c, p)
    BY <2>1, <2>2 DEF Forgotten
  <2>3. ASSUME NEW i \in 1 .. Len(q), Takes(q[i], p),
               \A j \in i + 1 .. Len(q) : ~Brings(q[j], c, p)
        PROVE  Forgotten(Append(q, m), c, K, p)
    <3>1. i \in 1 .. Len(Append(q, m)) BY <1>1
    <3>2. \A j \in i + 1 .. Len(Append(q, m)) : j \in 1 .. Len(Append(q, m))
            /\ (j \in 1 .. Len(q) => j \in i + 1 .. Len(q))
      BY <1>1
    <3>3. \A j \in i + 1 .. Len(Append(q, m)) : ~Brings(Append(q, m)[j], c, p)
      BY <2>1, <2>3, <3>2
    <3> QED BY <1>1, <2>3, <3>1, <3>3 DEF Forgotten
  <2> QED BY <1>4, <2>2, <2>3 DEF Forgotten
<1> QED BY <1>3, <1>4

LEMMA AskedKept ==
    ASSUME Queues, Asked, call' = call,
           \/ outbox' = outbox
           \/ outbox # <<>> /\ outbox' = Tail(outbox) /\ Head(outbox) # call,
           \/ inbox' = inbox
           \/ /\ inbox # <<>> /\ inbox' = Tail(inbox)
              /\ ~(Head(inbox).type = "error" /\ Head(inbox).serial = call)
           \/ \E m \in Messages : inbox' = Append(inbox, m)
    PROVE  Asked'
<1>1. ASSUME NEW i \in 1 .. Len(outbox), outbox[i] = call PROVE Asked'
  <2>1. CASE outbox' = outbox BY <1>1, <2>1 DEF Asked
  <2>2. CASE outbox # <<>> /\ outbox' = Tail(outbox) /\ Head(outbox) # call
    <3>1. /\ outbox \in Seq(Nat) /\ Len(outbox) \in Nat /\ Len(outbox') = Len(outbox) - 1
          /\ \A j \in 1 .. Len(outbox) - 1 : outbox'[j] = outbox[j + 1]
          /\ Head(outbox) = outbox[1]
      BY <2>2, QueueTail DEF Queues, QueuesType
    <3>2. i # 1 BY <1>1, <2>2, <3>1
    <3>3. i - 1 \in 1 .. Len(outbox') /\ i - 1 \in 1 .. Len(outbox) - 1 /\ (i - 1) + 1 = i
      BY <3>1, <3>2
    <3>4. outbox'[i - 1] = call' BY <1>1, <3>1, <3>3
    <3> QED BY <3>3, <3>4 DEF Asked
  <2> QED BY <2>1, <2>2
<1>2. ASSUME NEW i \in 1 .. Len(inbox), inbox[i].type = "error", inbox[i].serial = call
      PROVE  Asked'
  <2>1. CASE inbox' = inbox BY <1>2, <2>1 DEF Asked
  <2>2. CASE /\ inbox # <<>> /\ inbox' = Tail(inbox)
             /\ ~(Head(inbox).type = "error" /\ Head(inbox).serial = call)
    <3>1. /\ Len(inbox) \in Nat /\ Len(inbox') = Len(inbox) - 1 /\ Head(inbox) = inbox[1]
          /\ \A j \in 1 .. Len(inbox') : inbox'[j] = inbox[j + 1]
      BY <2>2, InboxTail
    <3>2. i # 1 BY <1>2, <2>2, <3>1
    <3>3. i - 1 \in 1 .. Len(inbox') /\ (i - 1) + 1 = i BY <3>1, <3>2
    <3>4. inbox'[i - 1] = inbox[i] BY <3>1, <3>3
    <3> QED BY <1>2, <3>3, <3>4 DEF Asked
  <2>3. ASSUME NEW m \in Messages, inbox' = Append(inbox, m) PROVE Asked'
    <3>1. inbox'[i] = inbox[i] /\ i \in 1 .. Len(inbox') BY <2>3, InboxAppend
    <3> QED BY <1>2, <3>1 DEF Asked
  <2> QED BY <2>1, <2>2, <2>3
<1> QED BY <1>1, <1>2 DEF Asked

LEMMA AskedNow ==
    ASSUME Queues, alive, __connman_manager_get_services
    PROVE  Asked'
  BY OutboxAsks DEF Asked

LEMMA OrderedPaths ==
    ASSUME Table, NEW l \in Lists
    PROVE  PathsOf(OrderOf(l)) = l
<1>1. l = [i \in DOMAIN l |-> l[i]] BY ListType
<1> QED BY <1>1, OrderType DEF PathsOf

(* The answer that is taken is the only one.                                *)
LEMMA LiveTail ==
    ASSUME Queues, Numbered, inbox # <<>>, inbox' = Tail(inbox), Live(Head(inbox), call)
    PROVE  /\ ~Asked
           /\ \A i \in 1 .. Len(inbox') :
                ~Live(inbox'[i], call) /\ ~Live(inbox'[i], 0) /\ ~Live(inbox'[i], serial + 1)
<1>1. /\ Len(inbox) \in Nat /\ Len(inbox') = Len(inbox) - 1
      /\ Head(inbox) = inbox[1] /\ 1 \in 1 .. Len(inbox)
      /\ \A i \in 1 .. Len(inbox') : i + 1 \in 1 .. Len(inbox) /\ inbox'[i] = inbox[i + 1]
  BY InboxTail
<1>2. Current(inbox[1], call) BY <1>1 DEF Live, Current, IsAnswer
<1>3. ~Asked
  <2>1. \A i \in 1 .. Len(outbox) : outbox[i] # call BY <1>1, <1>2 DEF Numbered
  <2>2. ASSUME NEW i \in 1 .. Len(inbox), inbox[i].type = "error", inbox[i].serial = call
        PROVE  FALSE
    <3>1. i = 1 BY <1>1, <1>2, <2>2 DEF Numbered, Current, IsAnswer
    <3> QED BY <1>1, <2>2, <3>1 DEF Live
  <2> QED BY <2>1, <2>2 DEF Asked
<1>4. ASSUME NEW i \in 1 .. Len(inbox')
      PROVE  ~Live(inbox'[i], call) /\ ~Live(inbox'[i], 0) /\ ~Live(inbox'[i], serial + 1)
  <2>1. i + 1 # 1 /\ i + 1 \in 1 .. Len(inbox) /\ inbox'[i] = inbox[i + 1] BY <1>1
  <2>2. ~Current(inbox[i + 1], call) BY <1>1, <1>2, <2>1 DEF Numbered
  <2>3. ~Current(inbox[i + 1], 0) /\ ~Current(inbox[i + 1], serial + 1) BY <2>1, NumbersGiven
  <2> QED BY <2>1, <2>2, <2>3 DEF Live, Current, IsAnswer
<1> QED BY <1>3, <1>4

LEMMA OrderNext ==
    ASSUME Shape, EndTold, Numbered, OrderRight, [Next]_vars
    PROVE  OrderRight'
<1> SUFFICES ASSUME Watching', ~failed'
             PROVE  Asked' \/ Ordering(inbox', call', PathsOf(ordered'), list')
  BY DEF OrderRight
<1>1. Queues /\ Table /\ Parts BY DEF Shape
<1>2. inbox \in Seq(Messages) /\ list \in Lists BY <1>1 DEF Queues, QueuesType
<1>3. ASSUME NEW wifi, cui_popup_left_menu(wifi), alive, __connman_manager_get_services
      PROVE  Asked'
  BY <1>1, <1>3, AskedNow
<1>4. ASSUME Watching, ~failed,
             inbox # <<>>, inbox' = Tail(inbox), UNCHANGED <<call, outbox, list>>,
             ~(Head(inbox).type = "error" /\ Head(inbox).serial = call),
             PathsOf(ordered') = IF Orders(Head(inbox), call) THEN Head(inbox).list
                                 ELSE PathsOf(ordered)
      PROVE  Asked' \/ Ordering(inbox', call', PathsOf(ordered'), list')
  <2>1. CASE Asked BY <1>1, <1>4, <2>1, AskedKept
  <2>2. CASE Ordering(inbox, call, PathsOf(ordered), list)
    <3>1. Head(inbox) = inbox[1] BY <1>1, <1>4, InboxTail
    <3> QED BY <1>2, <1>4, <2>2, <3>1, OrderingTail
  <2> QED BY <1>4, <2>1, <2>2 DEF OrderRight
<1>5. CASE Watching /\ get_services_callback
  <2>1. /\ inbox # <<>> /\ inbox' = Tail(inbox) /\ Head(inbox).type = "services"
        /\ UNCHANGED <<alive, list, failed>>
    BY <1>5 DEF get_services_callback, Receive, history
  <2>2. Head(inbox).list \in Lists BY <1>1, <2>1, InboxTail, MessageFields
  <2>3. CASE Head(inbox).serial = call
    <3>1. Live(Head(inbox), call) BY <2>1, <2>3 DEF Live
    <3>2. ordered' = OrderOf(Head(inbox).list)
      BY <1>5, <2>3 DEF get_services_callback, get_services_cb, update_or_create_services
    <3>3. PathsOf(ordered') = Head(inbox).list BY <1>1, <2>2, <3>2, OrderedPaths
    <3>4. CASE refreshed
      <4>1. call' = 0 BY <1>5, <2>3, <3>4 DEF get_services_callback, get_services_cb
      <4>2. Ordering(inbox, call, PathsOf(ordered), list)
        BY <1>1, <1>5, <2>1, <3>1, LiveTail DEF OrderRight
      <4>3. \A i \in 1 .. Len(inbox') : Orders(inbox'[i], call') <=> Orders(inbox'[i], call)
        BY <1>1, <2>1, <3>1, <4>1, LiveTail DEF Orders
      <4>4. Head(inbox) = inbox[1] /\ Orders(inbox[1], call)
        BY <1>1, <2>1, <3>1, InboxTail DEF Orders
      <4> QED BY <1>2, <2>1, <3>3, <4>2, <4>3, <4>4, OrderingTail
    <3>5. CASE ~refreshed
      <4>1. __connman_manager_get_services
        BY <1>5, <2>3, <3>5 DEF get_services_callback, get_services_cb
      <4> QED BY <1>1, <1>5, <4>1, AskedNow DEF Watching
    <3> QED BY <3>4, <3>5
  <2>4. CASE Head(inbox).serial # call
    <3>1. UNCHANGED <<outbox, call, ordered>> BY <1>5, <2>4 DEF get_services_callback
    <3>2. ~Orders(Head(inbox), call) BY <2>1, <2>4 DEF Orders, Live
    <3> QED BY <1>4, <1>5, <2>1, <3>1, <3>2
  <2> QED BY <2>3, <2>4
<1>6. CASE Watching /\ get_services_error
  <2>1. /\ inbox # <<>> /\ inbox' = Tail(inbox) /\ Head(inbox).type = "error"
        /\ UNCHANGED <<outbox, list>>
    BY <1>6 DEF get_services_error, Receive
  <2>2. Head(inbox).serial # call /\ UNCHANGED <<call, ordered, failed>>
    BY <1>6 DEF get_services_error
  <2>3. ~Orders(Head(inbox), call) BY <2>1 DEF Orders, Live
  <2> QED BY <1>4, <1>6, <2>1, <2>2, <2>3
<1>7. CASE Watching /\ service_changed_signal_cb
  <2>1. /\ inbox # <<>> /\ inbox' = Tail(inbox) /\ Head(inbox).type = "ServicesChanged"
        /\ UNCHANGED <<call, outbox, list, failed>>
    BY <1>7 DEF service_changed_signal_cb, Receive, history, managerVars
  <2>2. Head(inbox).list \in Lists BY <1>1, <2>1, InboxTail, MessageFields
  <2>3. ordered' = OrderOf(Head(inbox).list)
    BY <1>7 DEF service_changed_signal_cb, update_or_create_services, Watching
  <2>4. PathsOf(ordered') = Head(inbox).list BY <1>1, <2>2, <2>3, OrderedPaths
  <2>5. Orders(Head(inbox), call) BY <2>1 DEF Orders
  <2> QED BY <1>4, <1>7, <2>1, <2>4, <2>5
<1>8. CASE Watching /\ connman_up
  <2>1. /\ inbox # <<>> /\ inbox' = Tail(inbox) /\ Head(inbox).type = "up"
        /\ UNCHANGED <<call, outbox, list, failed, ordered>>
    BY <1>8 DEF connman_up, Receive, history, managerVars, tableVars
  <2>2. ~Orders(Head(inbox), call) BY <2>1 DEF Orders, Live
  <2> QED BY <1>4, <1>8, <2>1, <2>2
<1>9. CASE Watching /\ (refresh_cb \/ UNCHANGED vars)
  <2>1. UNCHANGED <<inbox, outbox, call, list, ordered, failed>>
    BY <1>9 DEF refresh_cb, vars, busVars, managerVars, tableVars, history
  <2> QED BY <1>9, <2>1 DEF OrderRight, Asked
<1>10. ASSUME NEW l \in Lists, Watching, DaemonChange(l)
       PROVE  Ordering(inbox', call', PathsOf(ordered'), list')
  <2> DEFINE m == Changed(l, ToSet(list) \ ToSet(l))
  <2>1. m \in Messages
    <3>1. ToSet(list) \ ToSet(l) \in SUBSET Paths BY <1>2, ListType
    <3> QED BY <3>1, MessageTypes
  <2>2. Orders(m, call) /\ m.list = l BY DEF Changed, Orders
  <2>3. inbox' = Append(inbox, m) /\ list' = l
    BY <1>10 DEF DaemonChange, Watching
  <2>4. call' = call BY <1>10 DEF DaemonChange, managerVars
  <2> HIDE DEF m
  <2> QED BY <1>2, <2>1, <2>2, <2>3, <2>4, OrderingAppend
<1>11. ASSUME Watching, ~failed, UNCHANGED <<call, ordered, list>>,
              outbox # <<>>, outbox' = Tail(outbox),
              NEW m \in Messages, inbox' = Append(inbox, m), IsAnswer(m), m.serial = Head(outbox),
              m.type = "services" => m.list = list
       PROVE  Asked' \/ Ordering(inbox', call', PathsOf(ordered'), list')
  <2>1. CASE m.type = "error" /\ m.serial = call
    <3>1. inbox'[Len(inbox) + 1] = m /\ Len(inbox) + 1 \in 1 .. Len(inbox')
      BY <1>1, <1>11, InboxAppend
    <3> QED BY <1>11, <2>1, <3>1 DEF Asked
  <2>2. CASE Live(m, call)
    <3>1. Orders(m, call) /\ m.list = list BY <1>11, <2>2 DEF Orders, Live
    <3> QED BY <1>2, <1>11, <3>1, OrderingAppend
  <2>3. CASE m.serial # call
    <3>1. ~Orders(m, call) BY <1>11, <2>3 DEF Orders, Live, IsAnswer
    <3>2. CASE Asked BY <1>1, <1>11, <2>3, <3>2, AskedKept
    <3>3. CASE Ordering(inbox, call, PathsOf(ordered), list)
      BY <1>2, <1>11, <3>1, <3>3, OrderingAppend
    <3> QED BY <1>11, <3>2, <3>3 DEF OrderRight
  <2> QED BY <1>11, <2>1, <2>2, <2>3 DEF IsAnswer, Live
<1>12. CASE Watching /\ DaemonAnswer
  <2> DEFINE m == Services(Head(outbox), list)
  <2>1. /\ outbox # <<>> /\ outbox' = Tail(outbox) /\ inbox' = Append(inbox, m)
        /\ UNCHANGED <<call, ordered, list, failed>>
    BY <1>12 DEF DaemonAnswer, managerVars, tableVars, history
  <2>2. m \in Messages BY <1>1, <1>2, <2>1, OutboxTail, MessageTypes
  <2>3. m.type = "services" /\ m.serial = Head(outbox) /\ m.list = list BY DEF Services
  <2> HIDE DEF m
  <2> QED BY <1>11, <1>12, <2>1, <2>2, <2>3 DEF IsAnswer
<1>13. CASE Watching /\ DaemonError
  <2> DEFINE m == Failure(Head(outbox))
  <2>1. /\ outbox # <<>> /\ outbox' = Tail(outbox) /\ inbox' = Append(inbox, m)
        /\ UNCHANGED <<call, ordered, list, failed>>
    BY <1>13 DEF DaemonError, managerVars, tableVars
  <2>2. m \in Messages BY <1>1, <2>1, OutboxTail, MessageTypes
  <2>3. m.type = "error" /\ m.serial = Head(outbox) BY DEF Failure
  <2> HIDE DEF m
  <2> QED BY <1>11, <1>13, <2>1, <2>2, <2>3 DEF IsAnswer
<1> QED BY <1>3, <1>5, <1>6, <1>7, <1>8, <1>9, <1>10, <1>12, <1>13, WatchingNext

LEMMA ShownNext ==
    ASSUME Shape, EndTold, Numbered, OrderRight, ShownRight, [Next]_vars
    PROVE  ShownRight'
<1> SUFFICES ASSUME Watching', ~failed' PROVE Asked' \/ Showing' BY DEF ShownRight
<1>1. Queues /\ Table /\ Parts BY DEF Shape
<1>2. inbox \in Seq(Messages) /\ list \in Lists /\ Len(inbox) \in Nat
  BY <1>1 DEF Queues, QueuesType
<1>3. ASSUME NEW wifi, cui_popup_left_menu(wifi), alive, __connman_manager_get_services
      PROVE  Asked'
  BY <1>1, <1>3, AskedNow
<1>4. ASSUME Watching, ~failed,
             inbox # <<>>, inbox' = Tail(inbox), UNCHANGED <<call, outbox, list, refreshed>>,
             ~(Head(inbox).type = "error" /\ Head(inbox).serial = call), ~Live(Head(inbox), call),
             \/ Head(inbox).type # "ServicesChanged" /\ UNCHANGED <<idle, items>>
             \/ refreshed => idle'
      PROVE  Asked' \/ Showing'
  <2>1. CASE Asked BY <1>1, <1>4, <2>1, AskedKept
  <2>2. /\ Len(inbox') = Len(inbox) - 1 /\ Head(inbox) = inbox[1]
        /\ \A i \in 1 .. Len(inbox') : inbox'[i] = inbox[i + 1]
    BY <1>1, <1>4, InboxTail
  <2>3. \A i \in 1 .. Len(inbox) : i # 1 => i - 1 \in 1 .. Len(inbox') /\ (i - 1) + 1 = i
    BY <1>2, <2>2
  <2>4. \A i \in 1 .. Len(inbox) : i # 1 => i - 1 \in 1 .. Len(inbox') /\ inbox'[i - 1] = inbox[i]
    BY <2>2, <2>3
  <2>5. ASSUME NEW i \in 1 .. Len(inbox), Live(inbox[i], call) PROVE Showing'
    <3>1. i # 1 BY <1>4, <2>2, <2>5
    <3> QED BY <1>4, <2>4, <2>5, <3>1 DEF Showing
  <2>6. ASSUME refreshed, NEW i \in 1 .. Len(inbox), inbox[i].type = "ServicesChanged"
        PROVE  Showing'
    <3>1. CASE i = 1 BY <1>4, <2>2, <2>6, <3>1 DEF Showing
    <3>2. CASE i # 1 BY <1>4, <2>4, <2>6, <3>2 DEF Showing
    <3> QED BY <3>1, <3>2
  <2>7. CASE refreshed /\ (idle \/ ToSet(list) \subseteq items)
    <3>1. idle' \/ UNCHANGED <<idle, items>> BY <1>4, <2>7
    <3> QED BY <1>4, <2>7, <3>1 DEF Showing
  <2> QED BY <1>4, <2>1, <2>5, <2>6, <2>7 DEF ShownRight, Showing
<1>5. CASE Watching /\ get_services_callback
  <2>1. /\ inbox # <<>> /\ inbox' = Tail(inbox) /\ Head(inbox).type = "services"
        /\ UNCHANGED <<alive, list, failed, items>>
    BY <1>5 DEF get_services_callback, Receive, history, guiVars
  <2>2. CASE Head(inbox).serial = call
    <3>1. CASE refreshed
      <4>1. idle' = (refreshCb \/ idle) /\ refreshed' = refreshed
        BY <1>5, <2>2, <3>1 DEF get_services_callback, get_services_cb, call_refresh_callback
      <4>2. refreshCb BY <1>1, <1>5 DEF Watching, Parts
      <4>3. idle' BY <4>1, <4>2
      <4> QED BY <3>1, <4>1, <4>3 DEF Showing
    <3>2. CASE ~refreshed
      <4>1. __connman_manager_get_services
        BY <1>5, <2>2, <3>2 DEF get_services_callback, get_services_cb
      <4> QED BY <1>1, <1>5, <4>1, AskedNow DEF Watching
    <3> QED BY <3>1, <3>2
  <2>3. CASE Head(inbox).serial # call
    <3>1. UNCHANGED <<outbox, call, refreshed, idle>> BY <1>5, <2>3 DEF get_services_callback
    <3>2. ~Live(Head(inbox), call) BY <2>3 DEF Live
    <3> QED BY <1>4, <1>5, <2>1, <2>3, <3>1, <3>2
  <2> QED BY <2>2, <2>3
<1>6. CASE Watching /\ get_services_error
  <2>1. /\ inbox # <<>> /\ inbox' = Tail(inbox) /\ Head(inbox).type = "error"
        /\ UNCHANGED <<outbox, list, refreshed, idle, items>>
    BY <1>6 DEF get_services_error, Receive, refreshVars, guiVars
  <2>2. Head(inbox).serial # call /\ UNCHANGED <<call, failed>>
    BY <1>6 DEF get_services_error
  <2>3. ~Live(Head(inbox), call) BY <2>1 DEF Live
  <2> QED BY <1>4, <1>6, <2>1, <2>2, <2>3
<1>7. CASE Watching /\ service_changed_signal_cb
  <2>1. /\ inbox # <<>> /\ inbox' = Tail(inbox) /\ Head(inbox).type = "ServicesChanged"
        /\ UNCHANGED <<call, outbox, list, failed, refreshed>>
    BY <1>7 DEF service_changed_signal_cb, Receive, history, managerVars
  <2>2. ~Live(Head(inbox), call) BY <2>1 DEF Live
  <2>3. refreshed => idle'
    <3>1. refreshed => idle' = (refreshCb \/ idle)
      BY <1>7 DEF service_changed_signal_cb, call_refresh_callback, Watching
    <3>2. refreshCb BY <1>1, <1>7 DEF Watching, Parts
    <3> QED BY <3>1, <3>2
  <2> QED BY <1>4, <1>7, <2>1, <2>2, <2>3
<1>8. CASE Watching /\ connman_up
  <2>1. /\ inbox # <<>> /\ inbox' = Tail(inbox) /\ Head(inbox).type = "up"
        /\ UNCHANGED <<call, outbox, list, failed, refreshed, idle, items>>
    BY <1>8 DEF connman_up, Receive, history, managerVars, refreshVars, guiVars
  <2>2. ~Live(Head(inbox), call) BY <2>1 DEF Live
  <2> QED BY <1>4, <1>8, <2>1, <2>2
<1>9. CASE Watching /\ refresh_cb
  <2>1. UNCHANGED <<inbox, outbox, call, list, failed, refreshed>>
    BY <1>9 DEF refresh_cb, busVars, managerVars, history
  <2>2. serviceIf /\ refreshCb BY <1>1, <1>9 DEF Watching, Parts
  <2>3. items' = items \cup {PathOf(o) : o \in ToSet(ordered)}
    BY <1>9, <2>2 DEF refresh_cb, ShowServices
  <2>4. Asked => Asked' BY <2>1 DEF Asked
  <2>5. CASE \E i \in 1 .. Len(inbox) : Live(inbox[i], call) BY <2>1, <2>5 DEF Showing
  <2>6. CASE \E i \in 1 .. Len(inbox) : inbox[i].type = "ServicesChanged" /\ refreshed
    BY <2>1, <2>6 DEF Showing
  <2>7. CASE ToSet(list) \subseteq items /\ refreshed BY <2>1, <2>3, <2>7 DEF Showing
  <2>8. CASE /\ ~Asked /\ refreshed
             /\ \A i \in 1 .. Len(inbox) : ~Live(inbox[i], call) /\ inbox[i].type # "ServicesChanged"
    <3>1. PathsOf(ordered) = list BY <1>9, <2>1, <2>8 DEF OrderRight, Ordering, Orders
    <3>2. DOMAIN list = DOMAIN ordered /\ \A i \in DOMAIN ordered : list[i] = PathOf(ordered[i])
      BY <3>1 DEF PathsOf
    <3>3. ToSet(list) \subseteq items' BY <2>3, <3>2 DEF ToSet
    <3> QED BY <2>1, <2>8, <3>3 DEF Showing
  <2> QED BY <1>9, <2>1, <2>4, <2>5, <2>6, <2>7, <2>8 DEF ShownRight, Showing
<1>10. ASSUME NEW m \in Messages, inbox' = Append(inbox, m), Watching, ~failed,
              UNCHANGED <<call, refreshed, idle, items>>,
              \/ outbox' = outbox
              \/ outbox # <<>> /\ outbox' = Tail(outbox) /\ Head(outbox) # call,
              list' = list \/ m.type = "ServicesChanged"
       PROVE  Asked' \/ Showing'
  <2>1. CASE Asked BY <1>1, <1>10, <2>1, AskedKept
  <2>2. /\ inbox'[Len(inbox) + 1] = m /\ Len(inbox) + 1 \in 1 .. Len(inbox')
        /\ \A i \in 1 .. Len(inbox) : inbox'[i] = inbox[i] /\ i \in 1 .. Len(inbox')
    BY <1>1, <1>10, InboxAppend
  <2>3. CASE \E i \in 1 .. Len(inbox) : Live(inbox[i], call) BY <1>10, <2>2, <2>3 DEF Showing
  <2>4. CASE refreshed /\ \E i \in 1 .. Len(inbox) : inbox[i].type = "ServicesChanged"
    BY <1>10, <2>2, <2>4 DEF Showing
  <2>5. CASE refreshed /\ m.type = "ServicesChanged" BY <1>10, <2>2, <2>5 DEF Showing
  <2>6. CASE refreshed /\ list' = list /\ (idle \/ ToSet(list) \subseteq items)
    BY <1>10, <2>6 DEF Showing
  <2> QED BY <1>10, <2>1, <2>3, <2>4, <2>5, <2>6 DEF ShownRight, Showing
<1>11. ASSUME NEW l \in Lists, Watching, DaemonChange(l)
       PROVE  Asked' \/ Showing'
  <2> DEFINE m == Changed(l, ToSet(list) \ ToSet(l))
  <2>1. m \in Messages
    <3>1. ToSet(list) \ ToSet(l) \in SUBSET Paths BY <1>2, ListType
    <3> QED BY <3>1, MessageTypes
  <2>2. m.type = "ServicesChanged" BY DEF Changed
  <2>3. /\ inbox' = Append(inbox, m)
        /\ UNCHANGED <<call, outbox, refreshed, idle, items, failed>>
    BY <1>11 DEF DaemonChange, Watching, managerVars, refreshVars, guiVars
  <2> HIDE DEF m
  <2> QED BY <1>10, <1>11, <2>1, <2>2, <2>3
<1>12. CASE Watching /\ DaemonAnswer
  <2> DEFINE m == Services(Head(outbox), list)
  <2>1. /\ outbox # <<>> /\ outbox' = Tail(outbox) /\ inbox' = Append(inbox, m)
        /\ UNCHANGED <<call, list, failed, refreshed, idle, items>>
    BY <1>12 DEF DaemonAnswer, managerVars, refreshVars, guiVars, history
  <2>2. m \in Messages BY <1>1, <1>2, <2>1, OutboxTail, MessageTypes
  <2>3. m.type = "services" /\ m.serial = Head(outbox) BY DEF Services
  <2> HIDE DEF m
  <2>4. CASE Head(outbox) = call
    <3>1. inbox'[Len(inbox) + 1] = m /\ Len(inbox) + 1 \in 1 .. Len(inbox')
      BY <1>1, <2>1, <2>2, InboxAppend
    <3>2. Live(inbox'[Len(inbox) + 1], call') BY <2>1, <2>3, <2>4, <3>1 DEF Live
    <3> QED BY <3>1, <3>2 DEF Showing
  <2> QED BY <1>10, <1>12, <2>1, <2>2, <2>4
<1>13. CASE Watching /\ DaemonError
  <2> DEFINE m == Failure(Head(outbox))
  <2>1. /\ outbox # <<>> /\ outbox' = Tail(outbox) /\ inbox' = Append(inbox, m)
        /\ UNCHANGED <<call, list, failed, refreshed, idle, items>>
    BY <1>13 DEF DaemonError, managerVars, refreshVars, guiVars
  <2>2. m \in Messages BY <1>1, <2>1, OutboxTail, MessageTypes
  <2>3. m.type = "error" /\ m.serial = Head(outbox) BY DEF Failure
  <2> HIDE DEF m
  <2>4. CASE Head(outbox) = call
    <3>1. inbox'[Len(inbox) + 1] = m /\ Len(inbox) + 1 \in 1 .. Len(inbox')
      BY <1>1, <2>1, <2>2, InboxAppend
    <3> QED BY <2>1, <2>3, <2>4, <3>1 DEF Asked
  <2> QED BY <1>10, <1>13, <2>1, <2>2, <2>4
<1>14. CASE Watching /\ UNCHANGED vars
  <2>1. UNCHANGED <<inbox, outbox, call, list, failed, refreshed, idle, items>>
    BY <1>14 DEF vars, busVars, managerVars, refreshVars, guiVars, history
  <2> QED BY <1>14, <2>1 DEF ShownRight, Asked, Showing
<1> QED BY <1>3, <1>5, <1>6, <1>7, <1>8, <1>9, <1>11, <1>12, <1>13, <1>14, WatchingNext

(* What a reported list makes of the paths that have an object.             *)
LEMMA KnownReported ==
    ASSUME Table, selected = None, NEW l \in Lists, services' = WithCreated(l)
    PROVE  Known' = Known \cup ToSet(l)
<1>1. ToSet(l) \subseteq Paths BY ListType
<1>2. \A p \in Missing(l) : services'[p] # None
  BY MissingType, NoneApart
<1>3. \A p \in Paths \ Missing(l) : services'[p] = services[p] BY MissingType
<1>4. \A p \in ToSet(l) : p \in Missing(l) \/ services[p] # None
  BY <1>1, GetService DEF Missing
<1>5. Missing(l) \subseteq ToSet(l) /\ Missing(l) \subseteq Paths BY MissingType
<1> QED BY <1>1, <1>2, <1>3, <1>4, <1>5 DEF Known

LEMMA KnownChanged ==
    ASSUME Table, selected = None, NEW l \in Lists, NEW gone \in SUBSET Paths,
           gone \cap ToSet(l) = {},
           services' = [p \in Paths |-> IF p \in {r \in gone : get_service(r) # None} THEN None
                                        ELSE WithCreated(l)[p]]
    PROVE  Known' = (Known \ gone) \cup ToSet(l)
<1>1. ToSet(l) \subseteq Paths BY ListType
<1>2. \A p \in Missing(l) : WithCreated(l)[p] # None
  BY MissingType, NoneApart
<1>3. \A p \in Paths \ Missing(l) : WithCreated(l)[p] = services[p] BY MissingType
<1>4. \A p \in ToSet(l) : p \in Missing(l) \/ services[p] # None
  BY <1>1, GetService DEF Missing
<1>5. Missing(l) \subseteq ToSet(l) /\ Missing(l) \subseteq Paths BY MissingType
<1>6. \A p \in Paths : get_service(p) = services[p] BY GetService
<1>7. /\ \A p \in gone : services'[p] = None
      /\ \A p \in Paths \ gone : services'[p] = WithCreated(l)[p]
  <2>1. ASSUME NEW p \in gone PROVE services'[p] = None
    <3>1. CASE services[p] # None BY <1>6, <3>1
    <3>2. CASE services[p] = None
      <4>1. services'[p] = WithCreated(l)[p] BY <1>6, <3>2
      <4> QED BY <1>3, <1>5, <3>2, <4>1
    <3> QED BY <3>1, <3>2
  <2> QED BY <2>1
<1>8. ASSUME NEW p \in Paths PROVE p \in Known' <=> p \in (Known \ gone) \cup ToSet(l)
  BY <1>2, <1>3, <1>4, <1>5, <1>7 DEF Known
<1> QED BY <1>1, <1>8 DEF Known

LEMMA GoneNext ==
    ASSUME Shape, EndTold, Numbered, GoneRight, [Next]_vars
    PROVE  GoneRight'
<1> SUFFICES ASSUME Watching', clean'
             PROVE  /\ items' \subseteq Known' /\ ToSet(PathsOf(ordered')) \subseteq Known'
                    /\ \A p \in Paths \ ToSet(list') : Forgotten(inbox', call', Known', p)
  BY DEF GoneRight
<1>1. Queues /\ Table /\ Parts BY DEF Shape
<1>2. inbox \in Seq(Messages) /\ list \in Lists /\ Len(inbox) \in Nat
  BY <1>1 DEF Queues, QueuesType
<1> DEFINE Goal == /\ items' \subseteq Known' /\ ToSet(PathsOf(ordered')) \subseteq Known'
                   /\ \A p \in Paths \ ToSet(list') : Forgotten(inbox', call', Known', p)
<1>3. ASSUME NEW wifi, cui_popup_left_menu(wifi), alive, __connman_manager_get_services
      PROVE  Goal
  <2>1. /\ items' = {} /\ Hashed = {} /\ ordered' = <<>> /\ services' = services /\ inbox' = inbox
        /\ \A i \in 1 .. Len(inbox) : inbox[i].type # "ServicesChanged"
    <3>1. UNCHANGED <<items, services, ordered, inbox>>
      BY <1>3 DEF cui_popup_left_menu, tableVars
    <3>2. /\ items = {} /\ Hashed = {} /\ ordered = <<>>
          /\ \A i \in DOMAIN inbox : inbox[i].type # "ServicesChanged"
      BY <1>3 DEF cui_popup_left_menu
    <3>3. DOMAIN inbox = 1 .. Len(inbox) BY <1>2
    <3> QED BY <3>1, <3>2, <3>3
  <2>2. \A i \in 1 .. Len(inbox) : ~Live(inbox[i], call')
    BY <1>1, <1>3, NumbersGiven DEF __connman_manager_get_services, Current, IsAnswer, Live
  <2>3. Known' = {} BY <2>1 DEF Known, Hashed
  <2>4. ToSet(PathsOf(ordered')) = {}
    <3>1. DOMAIN ordered' = {} BY <2>1
    <3> QED BY <3>1 DEF ToSet, PathsOf
  <2> QED BY <2>1, <2>2, <2>3, <2>4 DEF Forgotten, Brings, Orders
<1>4. ASSUME Watching
      PROVE  /\ selected = None /\ removedCb
             /\ (clean => /\ items \subseteq Known /\ ToSet(PathsOf(ordered)) \subseteq Known
                          /\ \A p \in Paths \ ToSet(list) : Forgotten(inbox, call, Known, p))
  BY <1>1, <1>4, OpenUnchosen DEF Watching, Parts, GoneRight
<1>5. ASSUME Watching, clean, inbox # <<>>, inbox' = Tail(inbox), UNCHANGED <<call, list, items>>,
             UNCHANGED services, Head(inbox).type # "ServicesChanged", ~Live(Head(inbox), call),
             ordered' = ordered \/ ordered' = <<>>
      PROVE  Goal
  <2>1. Known' = Known BY <1>5 DEF Known
  <2>2. ToSet(PathsOf(ordered')) \subseteq Known'
    <3>1. CASE ordered' = ordered BY <1>4, <1>5, <2>1, <3>1
    <3>2. CASE ordered' = <<>>
      <4>1. DOMAIN ordered' = {} BY <3>2
      <4> QED BY <4>1 DEF ToSet, PathsOf
    <3> QED BY <1>5, <3>1, <3>2
  <2>3. Head(inbox) = inbox[1] BY <1>1, <1>5, InboxTail
  <2>4. ASSUME NEW p \in Paths \ ToSet(list) PROVE Forgotten(inbox', call', Known', p)
    <3>1. ~Takes(inbox[1], p) BY <1>5, <2>3 DEF Takes
    <3>2. Forgotten(inbox, call, Known, p) BY <1>4, <1>5
    <3> QED BY <1>2, <1>5, <2>1, <3>1, <3>2, ForgottenTail
  <2> QED BY <1>4, <1>5, <2>1, <2>2, <2>4
<1>6. CASE Watching /\ get_services_callback
  <2>1. /\ inbox # <<>> /\ inbox' = Tail(inbox) /\ Head(inbox).type = "services"
        /\ UNCHANGED <<list, clean, items>>
    BY <1>6 DEF get_services_callback, Receive, history, guiVars
  <2>2. Head(inbox).list \in Lists /\ Head(inbox) = inbox[1]
    BY <1>1, <2>1, InboxTail, MessageFields
  <2>3. CASE Head(inbox).serial = call
    <3>1. Live(Head(inbox), call) BY <2>1, <2>3 DEF Live
    <3>2. /\ ordered' = OrderOf(Head(inbox).list)
          /\ services' = WithCreated(Head(inbox).list)
          /\ call' = 0 \/ call' = serial + 1
      BY <1>6, <2>3 DEF get_services_callback, get_services_cb, update_or_create_services,
           __connman_manager_get_services
    <3>3. PathsOf(ordered') = Head(inbox).list BY <1>1, <2>2, <3>2, OrderedPaths
    <3>4. Known' = Known \cup ToSet(Head(inbox).list)
      BY <1>1, <1>4, <1>6, <2>2, <3>2, KnownReported
    <3>5. ASSUME NEW p \in Paths \ ToSet(list) PROVE Forgotten(inbox', call', Known', p)
      <4>1. Forgotten(inbox, call, Known, p) BY <1>4, <1>6, <2>1
      <4>2. \A i \in 1 .. Len(inbox') : Brings(inbox'[i], call', p) => Brings(inbox'[i], call, p)
        BY <1>1, <2>1, <3>1, <3>2, LiveTail DEF Brings, Orders
      <4>3. p \in Known' => p \in Known \/ Brings(inbox[1], call, p)
        BY <2>2, <3>1, <3>4 DEF Brings, Orders
      <4>4. ~Takes(inbox[1], p) BY <2>1, <2>2 DEF Takes
      <4> QED BY <1>2, <2>1, <4>1, <4>2, <4>3, <4>4, ForgottenTail
    <3> QED BY <1>4, <1>6, <2>1, <3>3, <3>4, <3>5
  <2>4. CASE Head(inbox).serial # call
    <3>1. UNCHANGED <<call, ordered, services>> BY <1>6, <2>4 DEF get_services_callback
    <3>2. ~Live(Head(inbox), call) BY <2>4 DEF Live
    <3> QED BY <1>5, <1>6, <2>1, <3>1, <3>2
  <2> QED BY <2>3, <2>4
<1>7. CASE Watching /\ get_services_error
  <2>1. /\ inbox # <<>> /\ inbox' = Tail(inbox) /\ Head(inbox).type = "error"
        /\ UNCHANGED <<list, items, services, clean>>
    BY <1>7 DEF get_services_error, Receive, guiVars
  <2>2. Head(inbox).serial # call => UNCHANGED <<call, ordered>> BY <1>7 DEF get_services_error
  <2>3. ~Live(Head(inbox), call) BY <2>1 DEF Live
  <2>4. CASE Head(inbox).serial # call BY <1>5, <1>7, <2>1, <2>2, <2>3, <2>4
  <2>5. CASE Head(inbox).serial = call
    <3>1. call' = 0 /\ ordered' = <<>> BY <1>7, <2>5 DEF get_services_error
    <3>2. Known' = Known BY <2>1 DEF Known
    <3>3. ToSet(PathsOf(ordered')) = {}
      <4>1. DOMAIN ordered' = {} BY <3>1
      <4> QED BY <4>1 DEF ToSet, PathsOf
    <3>4. ASSUME NEW p \in Paths \ ToSet(list) PROVE Forgotten(inbox', call', Known', p)
      <4>1. Forgotten(inbox, call, Known, p) BY <1>4, <1>7, <2>1
      <4>2. /\ Head(inbox) = inbox[1]
            /\ \A i \in 1 .. Len(inbox') : i + 1 \in 1 .. Len(inbox) /\ inbox'[i] = inbox[i + 1]
        BY <1>1, <2>1, InboxTail
      <4>3. \A i \in 1 .. Len(inbox') : ~Live(inbox'[i], call')
        BY <1>1, <3>1, <4>2, NumbersGiven DEF Live, Current, IsAnswer
      <4>4. \A i \in 1 .. Len(inbox') : Brings(inbox'[i], call', p) => Brings(inbox'[i], call, p)
        BY <4>3 DEF Brings, Orders
      <4>5. ~Takes(inbox[1], p) BY <2>1, <4>2 DEF Takes
      <4> QED BY <1>2, <2>1, <3>2, <4>1, <4>4, <4>5, ForgottenTail
    <3> QED BY <1>4, <1>7, <2>1, <3>2, <3>3, <3>4
  <2> QED BY <2>4, <2>5
<1>8. CASE Watching /\ service_changed_signal_cb
  <2> DEFINE m == Head(inbox)
  <2>1. /\ inbox # <<>> /\ inbox' = Tail(inbox) /\ m.type = "ServicesChanged"
        /\ UNCHANGED <<call, list, clean>>
    BY <1>8 DEF service_changed_signal_cb, Receive, history, managerVars
  <2>2. /\ m = inbox[1] /\ m.list \in Lists /\ m.removed \in SUBSET Paths
        /\ m.removed \cap ToSet(m.list) = {}
    BY <1>1, <2>1, InboxTail, MessageFields DEF Queues, Apart
  <2>3. /\ ordered' = OrderOf(m.list)
        /\ services' = [p \in Paths |-> IF p \in {r \in m.removed : get_service(r) # None} THEN None
                                        ELSE WithCreated(m.list)[p]]
        /\ items' = items \ {r \in m.removed : get_service(r) # None}
    BY <1>4, <1>8 DEF service_changed_signal_cb, update_or_create_services, Watching
  <2> HIDE DEF m
  <2>4. PathsOf(ordered') = m.list BY <1>1, <2>2, <2>3, OrderedPaths
  <2>5. Known' = (Known \ m.removed) \cup ToSet(m.list)
    BY <1>1, <1>4, <1>8, <2>2, <2>3, KnownChanged
  <2>6. items' \subseteq Known'
    <3>1. ASSUME NEW p \in items' PROVE p \in Known \ m.removed
      <4>1. p \in Known /\ p \in Paths /\ services[p] # None
        BY <1>4, <1>8, <2>1, <2>3 DEF Known
      <4>2. get_service(p) # None BY <1>1, <4>1, GetService
      <4> QED BY <2>3, <4>1, <4>2
    <3> QED BY <2>5, <3>1
  <2>7. ASSUME NEW p \in Paths \ ToSet(list) PROVE Forgotten(inbox', call', Known', p)
    <3>1. Forgotten(inbox, call, Known, p) BY <1>4, <1>8, <2>1
    <3>2. p \in Known' => p \in Known \/ Brings(inbox[1], call, p)
      BY <2>1, <2>2, <2>5 DEF Brings, Orders
    <3>3. Takes(inbox[1], p) => p \notin Known' BY <2>2, <2>5 DEF Takes
    <3> QED BY <1>2, <2>1, <3>1, <3>2, <3>3, ForgottenTail
  <2> QED BY <2>1, <2>4, <2>5, <2>6, <2>7
<1>9. CASE Watching /\ connman_up
  <2>1. /\ inbox # <<>> /\ inbox' = Tail(inbox) /\ Head(inbox).type = "up"
        /\ UNCHANGED <<call, list, clean, items, services, ordered>>
    BY <1>9 DEF connman_up, Receive, history, managerVars, guiVars, tableVars
  <2>2. ~Live(Head(inbox), call) BY <2>1 DEF Live
  <2> QED BY <1>5, <1>9, <2>1, <2>2
<1>10. CASE Watching /\ refresh_cb
  <2>1. UNCHANGED <<inbox, call, list, clean, services, ordered>>
    BY <1>10 DEF refresh_cb, busVars, managerVars, history, tableVars
  <2>2. Known' = Known BY <2>1 DEF Known
  <2>3. items' \subseteq items \cup {PathOf(o) : o \in ToSet(ordered)}
    BY <1>10 DEF refresh_cb, ShowServices
  <2>4. {PathOf(o) : o \in ToSet(ordered)} \subseteq ToSet(PathsOf(ordered))
    BY DEF ToSet, PathsOf
  <2> QED BY <1>4, <1>10, <2>1, <2>2, <2>3, <2>4
<1>11. ASSUME NEW l \in Lists, Watching, DaemonChange(l) PROVE Goal
  <2> DEFINE m == Changed(l, ToSet(list) \ ToSet(l))
  <2>1. m \in Messages
    <3>1. ToSet(list) \ ToSet(l) \in SUBSET Paths BY <1>2, ListType
    <3> QED BY <3>1, MessageTypes
  <2>2. m.type = "ServicesChanged" /\ m.list = l /\ m.removed = ToSet(list) \ ToSet(l)
    BY DEF Changed
  <2>3. /\ inbox' = Append(inbox, m) /\ list' = l
        /\ UNCHANGED <<call, services, ordered, items, clean>>
    BY <1>11 DEF DaemonChange, Watching, managerVars, tableVars, guiVars
  <2> HIDE DEF m
  <2>4. Known' = Known BY <2>3 DEF Known
  <2>5. ASSUME NEW p \in Paths \ ToSet(l) PROVE Forgotten(inbox', call', Known', p)
    <3>1. CASE p \in ToSet(list)
      <4>1. Takes(m, p) BY <2>2, <3>1 DEF Takes
      <4> QED BY <1>2, <2>1, <2>3, <2>4, <4>1, ForgottenAppend
    <3>2. CASE p \notin ToSet(list)
      <4>1. ~Brings(m, call, p) BY <2>2 DEF Brings
      <4>2. Forgotten(inbox, call, Known, p) BY <1>4, <1>11, <2>3, <3>2
      <4> QED BY <1>2, <2>1, <2>3, <2>4, <4>1, <4>2, ForgottenAppend
    <3> QED BY <3>1, <3>2
  <2> QED BY <1>4, <1>11, <2>3, <2>4, <2>5
<1>12. ASSUME Watching, NEW m \in Messages, inbox' = Append(inbox, m),
              UNCHANGED <<call, list, services, ordered, items, clean>>,
              m.type = "error" \/ (m.type = "services" /\ m.list = list)
       PROVE  Goal
  <2>1. Known' = Known BY <1>12 DEF Known
  <2>2. ASSUME NEW p \in Paths \ ToSet(list) PROVE Forgotten(inbox', call', Known', p)
    <3>1. ~Brings(m, call, p) BY <1>12, <2>2 DEF Brings, Orders, Live
    <3>2. Forgotten(inbox, call, Known, p) BY <1>4, <1>12, <2>2
    <3> QED BY <1>2, <1>12, <2>1, <3>1, <3>2, ForgottenAppend
  <2> QED BY <1>4, <1>12, <2>1, <2>2
<1>13. CASE Watching /\ DaemonAnswer
  <2> DEFINE m == Services(Head(outbox), list)
  <2>1. /\ outbox # <<>> /\ outbox' = Tail(outbox) /\ inbox' = Append(inbox, m)
        /\ UNCHANGED <<call, list, services, ordered, items, clean>>
    BY <1>13 DEF DaemonAnswer, managerVars, tableVars, guiVars, history
  <2>2. m \in Messages BY <1>1, <1>2, <2>1, OutboxTail, MessageTypes
  <2>3. m.type = "services" /\ m.list = list BY DEF Services
  <2> HIDE DEF m
  <2> QED BY <1>12, <1>13, <2>1, <2>2, <2>3
<1>14. CASE Watching /\ DaemonError
  <2> DEFINE m == Failure(Head(outbox))
  <2>1. /\ outbox # <<>> /\ outbox' = Tail(outbox) /\ inbox' = Append(inbox, m)
        /\ UNCHANGED <<call, list, services, ordered, items, clean>>
    BY <1>14 DEF DaemonError, managerVars, tableVars, guiVars
  <2>2. m \in Messages BY <1>1, <2>1, OutboxTail, MessageTypes
  <2>3. m.type = "error" BY DEF Failure
  <2> HIDE DEF m
  <2> QED BY <1>12, <1>14, <2>1, <2>2, <2>3
<1>15. CASE Watching /\ UNCHANGED vars
  <2>1. UNCHANGED <<inbox, call, list, clean, services, ordered, items>>
    BY <1>15 DEF vars, busVars, managerVars, history, tableVars, guiVars
  <2>2. Known' = Known BY <2>1 DEF Known
  <2> QED BY <1>4, <1>15, <2>1, <2>2
<1> QED BY <1>3, <1>6, <1>7, <1>8, <1>9, <1>10, <1>11, <1>13, <1>14, <1>15, WatchingNext

(* Once nothing is on its way the open menu shows the services of the       *)
(* daemon in its order, and none that is gone if it opened without          *)
(* leftovers (the two rounds of get_services_cb, service_changed_signal_cb  *)
(* and the refresh source of lib/service.c, src/left-menu.c).               *)
THEOREM MenuCorrect == Spec => []MenuAccurate
<1> DEFINE Inv == EndTold /\ Numbered /\ OrderRight /\ ShownRight /\ GoneRight
<1>1. Init => Inv
  <2> SUFFICES ASSUME Init PROVE Inv OBVIOUS
  <2>1. \A i \in 1 .. Len(inbox) : inbox[i] = Note("up") BY DEF Init
  <2>2. ~IsAnswer(Note("up")) BY DEF IsAnswer, Note
  <2>3. Numbered BY <2>1, <2>2 DEF Init, Numbered, Current
  <2>4. ~Watching BY DEF Init, Watching
  <2>5. EndTold BY DEF Init, EndTold
  <2> QED BY <2>3, <2>4, <2>5 DEF OrderRight, ShownRight, GoneRight
<1>2. Shape /\ Inv /\ [Next]_vars => Inv'
  BY EndToldNext, NumberedNext, OrderNext, ShownNext, GoneNext DEF Shape
<1>3. Shape /\ Inv => MenuAccurate
  <2> SUFFICES ASSUME Shape, Inv, Settled PROVE MenuAccurate BY DEF MenuAccurate
  <2>1. inbox = <<>> /\ outbox = <<>> /\ Len(inbox) = 0 /\ matched /\ alive /\ ~failed /\ ~idle
    BY DEF Settled
  <2>2. Watching BY <2>1 DEF Watching, NoDown
  <2>3. ~Asked BY <2>1 DEF Asked
  <2>4. PathsOf(ordered) = list BY <2>1, <2>2, <2>3 DEF OrderRight, Ordering
  <2>5. ToSet(list) \subseteq items BY <2>1, <2>2, <2>3 DEF ShownRight, Showing
  <2>6. ASSUME clean PROVE items \subseteq ToSet(list)
    <3>1. items \subseteq Known /\ \A p \in Paths \ ToSet(list) : p \notin Known
      BY <2>1, <2>2, <2>6 DEF GoneRight, Forgotten
    <3> QED BY <3>1 DEF Known
  <2> QED BY <2>4, <2>5, <2>6 DEF MenuAccurate, PathsOf
<1> QED BY ShapeInit, ShapeNext, <1>1, <1>2, <1>3, PTL DEF Spec
=============================================================================
