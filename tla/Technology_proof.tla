-------------------------- MODULE Technology_proof --------------------------
(* Theorems about the technologies, for every finite set of them and every  *)
(* bound: the table, the items of the menu with their switches, and scans.  *)
EXTENDS Technology, SequenceTheorems, FiniteSetTheorems, TLAPS

-----------------------------------------------------------------------------
(* Queues *)

(* q2 is q with more behind it. *)
Grown(q, q2) ==
    /\ Len(q) <= Len(q2)
    /\ \A i \in 1 .. Len(q) : q2[i] = q[i]

LEMMA QueueTail ==
    ASSUME NEW S, NEW q \in Seq(S), q # <<>>
    PROVE  /\ Len(q) \in Nat /\ Len(q) >= 1
           /\ q[1] \in S /\ Head(q) = q[1]
           /\ Tail(q) \in Seq(S)
           /\ Len(Tail(q)) = Len(q) - 1
           /\ \A i \in 1 .. Len(q) - 1 : Tail(q)[i] = q[i + 1]
  BY HeadTailProperties

LEMMA QueueAppend ==
    ASSUME NEW S, NEW q \in Seq(S), NEW e \in S
    PROVE  /\ Append(q, e) \in Seq(S)
           /\ Len(q) \in Nat /\ Len(Append(q, e)) = Len(q) + 1
           /\ Grown(q, Append(q, e))
           /\ Append(q, e)[Len(q) + 1] = e
  BY AppendProperties DEF Grown

LEMMA QueueConcat ==
    ASSUME NEW S, NEW q \in Seq(S), NEW r \in Seq(S)
    PROVE  /\ q \o r \in Seq(S)
           /\ Len(q) \in Nat /\ Len(r) \in Nat /\ Len(q \o r) = Len(q) + Len(r)
           /\ Grown(q, q \o r)
           /\ \A i \in Len(q) + 1 .. Len(q \o r) : (q \o r)[i] = r[i - Len(q)]
  BY ConcatProperties, LenProperties DEF Grown

LEMMA QueueOne ==
    ASSUME NEW S, NEW q \in Seq(S), NEW e \in S
    PROVE  q \o <<e>> = Append(q, e) /\ q \o <<>> = q /\ Append(q, e) \in Seq(S)
OBVIOUS

-----------------------------------------------------------------------------
(* Messages *)

LEMMA MessageFields ==
    ASSUME NEW m \in Messages
    PROVE  /\ m.type = "technologies" =>
                m.serial \in Nat /\ m.paths \subseteq Paths /\ m.on \subseteq Paths
           /\ m.type = "result" => m.serial \in Nat
           /\ m.type \in {"TechnologyAdded", "TechnologyRemoved", "PropertyChanged"}
                => m.path \in Paths /\ m.on \in BOOLEAN
  BY DEF Messages

LEMMA CallFields ==
    ASSUME NEW m \in ToDaemon
    PROVE  /\ m.serial \in Nat
           /\ m.type \in {"GetTechnologies", "SetPowered"}
           /\ m.type = "SetPowered" => m.path \in Paths /\ m.on \in BOOLEAN
           /\ m.type = "GetTechnologies" => m = GetTechnologies(m.serial)
  BY DEF ToDaemon, GetTechnologies

LEMMA MessageTypes ==
    /\ \A s \in Nat : GetTechnologies(s) \in ToDaemon
    /\ \A s \in Nat, p \in Paths, on \in BOOLEAN : SetPowered(p, on, s) \in ToDaemon
    /\ \A s \in Nat : \A ok \in BOOLEAN : Result(s, ok) \in Messages
    /\ \A t \in {"TechnologyAdded", "TechnologyRemoved", "PropertyChanged"} :
         \A p \in Paths, on \in BOOLEAN : Signal(t, p, on) \in Messages
    /\ Note("up") \in Messages /\ Note("down") \in Messages
  BY DEF ToDaemon, Messages, GetTechnologies, SetPowered, Result, Signal, Note

LEMMA ListType ==
    ASSUME present \subseteq Paths, power \subseteq present, NEW s \in Nat
    PROVE  Technologies(s) \in Messages
  BY DEF Messages, Technologies

-----------------------------------------------------------------------------
(* What is on its way *)
Live(m, c) == m.type = "technologies" /\ m.serial = c

(* m puts p into the table, or takes it out of it; c is the number of the   *)
(* call whose list is waited for.                                           *)
Brings(m, c, p) ==
    \/ m.type = "TechnologyAdded" /\ m.path = p
    \/ Live(m, c) /\ p \in m.paths

Takes(m, p) == m.type = "TechnologyRemoved" /\ m.path = p

(* Once the first n messages of q are handled the table K is without p.     *)
Absent(q, c, K, p, n) ==
    \/ p \notin K /\ \A j \in 1 .. n : ~Brings(q[j], c, p)
    \/ \E k \in 1 .. n : /\ Takes(q[k], p)
                         /\ \A j \in k + 1 .. n : ~Brings(q[j], c, p)

(* The end of the daemon is not among the first n messages.                 *)
NoDown(q, n) == \A j \in 1 .. n : q[j].type # "down"

(* What is announced was not in the table when its turn comes, and what is  *)
(* gone will not be in it, but for what went before the signals were        *)
(* watched.                                                                 *)
AddsAbsent ==
    set => \A i \in 1 .. Len(inbox) :
             inbox[i].type = "TechnologyAdded" /\ NoDown(inbox, i - 1)
               => \/ inbox[i].path \in ghosts
                  \/ Absent(inbox, call, known, inbox[i].path, i - 1)

GoneAbsent ==
    set /\ NoDown(inbox, Len(inbox)) =>
        \A p \in Paths \ present :
            p \in ghosts \/ Absent(inbox, call, known, p, Len(inbox))

(* The first list is the last word before the signals are watched: what it  *)
(* names is there, or is a ghost.                                           *)
FirstListLast ==
    ~set => \A i \in 1 .. Len(inbox) : Live(inbox[i], call) =>
              /\ inbox[i].paths \subseteq present \cup ghosts
              /\ \A j \in i + 1 .. Len(inbox) :
                   inbox[j].type \notin {"TechnologyAdded", "TechnologyRemoved", "PropertyChanged"}

(* What belongs to what: the interface, the table and the open menu.        *)
Parts ==
    /\ set => techIf
    /\ ~set => known = {}
    /\ call # 0 => techIf
    /\ techIf = ~disabled
    /\ menuCb => open
    /\ ~open => items = {}
    /\ ~menuCb => items \subseteq adrift
    /\ ~alive => outbox = <<>>

(* What a list says to be powered is in the list.                           *)
Subsets == \A i \in 1 .. Len(inbox) :
    inbox[i].type = "technologies" => inbox[i].on \subseteq inbox[i].paths

IsAnswer(m) == m.type \in {"technologies", "result"}

(* Calls and answers carry numbers that were given out.                     *)
Given ==
    /\ \A i \in 1 .. Len(outbox) : outbox[i].serial \in 1 .. serial
    /\ \A i \in 1 .. Len(inbox) : IsAnswer(inbox[i]) => inbox[i].serial \in 1 .. serial

(* The pending call has one answer, or is on its way to get it.             *)
Numbered ==
    /\ \A i, j \in 1 .. Len(outbox) :
         outbox[i].serial = call /\ outbox[j].serial = call => i = j
    /\ \A i, j \in 1 .. Len(inbox) :
         /\ IsAnswer(inbox[i]) /\ inbox[i].serial = call
         /\ IsAnswer(inbox[j]) /\ inbox[j].serial = call
         => i = j
    /\ \A i \in 1 .. Len(outbox), j \in 1 .. Len(inbox) :
         outbox[i].serial = call => ~(IsAnswer(inbox[j]) /\ inbox[j].serial = call)

(* The end of the daemon is told before its next start.                     *)
EndTold ==
    ~alive =>
      \/ ~techIf /\ \A i \in 1 .. Len(inbox) : inbox[i].type # "up"
      \/ \E j \in 1 .. Len(inbox) :
           /\ inbox[j].type = "down"
           /\ \A i \in j + 1 .. Len(inbox) : inbox[i].type # "up"

(* Asked again, or about to be. *)
Asked ==
    \/ \E i \in 1 .. Len(outbox) : outbox[i] = GetTechnologies(call)
    \/ \E i \in 1 .. Len(inbox) :
         \/ inbox[i].type = "result" /\ inbox[i].serial = call
         \/ inbox[i].type = "TechnologyAdded"

(* m says whether p is powered, and what it says.                           *)
Tells(m, c, p) ==
    \/ Live(m, c) /\ p \in m.paths
    \/ m.type = "PropertyChanged" /\ m.path = p

OnOf(m, p) == IF m.type = "technologies" THEN p \in m.on ELSE m.on

(* Once the messages of q are handled, p is known to be powered if v.       *)
Right(q, c, P, p, v) ==
    \/ /\ \A j \in 1 .. Len(q) : ~Tells(q[j], c, p)
       /\ (p \in P) = v
    \/ \E k \in 1 .. Len(q) :
         /\ Tells(q[k], c, p) /\ OnOf(q[k], p) = v
         /\ \A j \in k + 1 .. Len(q) : ~Tells(q[j], c, p)

(* p is in the table or will be, and its power is known or will be.         *)
Seen(p) ==
    /\ \A j \in 1 .. Len(inbox) : ~Takes(inbox[j], p)
    /\ \/ p \in known
       \/ \E j \in 1 .. Len(inbox) : Live(inbox[j], call) /\ p \in inbox[j].paths
    /\ p \in stale \/ Right(inbox, call, powered, p, p \in power)

PresentSeen ==
    set /\ alive /\ ~failed /\ NoDown(inbox, Len(inbox)) =>
        Asked \/ \A p \in present : Seen(p)

(* The switch of p is asked for, or an answer to that will be told.         *)
Pending(q, p) == \E i \in 1 .. Len(q) : q[i].type = "SetPowered" /\ q[i].path = p

Telling(q, p) ==
    \E i \in 1 .. Len(q) : \/ q[i].type = "PropertyChanged" /\ q[i].path = p
                           \/ q[i].type = "down"

(* A grey switch waits for something: its call, a signal, or a source.      *)
GreyedWaits ==
    \A p \in greyed : \/ p \in refused \cup adrift \cup ghosts \cup notify
                      \/ Pending(outbox, p)
                      \/ Telling(inbox, p)

(* A technology waits for one answer to Scan, the one it has the call of.   *)
Scans ==
    \A p \in Paths : \A s \in scanning[p] :
        s \in overlapped \/ (scanning[p] = {s} /\ scanCall[p] = s)

(* The types, and what belongs to what in the user interface.               *)
Shape ==
    /\ TypeOK
    /\ Parts
    /\ Subsets
    /\ Given
    /\ CallbackHasItem
    /\ PositionCounts

-----------------------------------------------------------------------------
(* Types *)

Flags == {alive, techIf, set, menuCb, disabled, open, failed} \subseteq BOOLEAN

Queues ==
    /\ present \subseteq Paths /\ power \subseteq present
    /\ outbox \in Seq(ToDaemon) /\ inbox \in Seq(Messages)

Table ==
    /\ known \subseteq Paths /\ powered \subseteq known /\ notify \subseteq known
    /\ {callbacks, items, ghosts, stale, refused, adrift} \subseteq SUBSET Paths
    /\ switch \subseteq items /\ greyed \subseteq items

Numbers ==
    /\ call \in 0 .. serial /\ serial \in Nat
    /\ modify \in [Paths -> 0 .. serial] /\ scanCall \in [Paths -> 0 .. serial]
    /\ scanning \in [Paths -> SUBSET (1 .. serial)]
    /\ dangling \subseteq 1 .. serial /\ overlapped \subseteq 1 .. serial

Counts ==
    /\ position \in Nat
    /\ \A step \in DOMAIN Bounds : count[step] \in 0 .. Bounds[step]

LEMMA TypeParts == TypeOK <=> Flags /\ Queues /\ Table /\ Numbers /\ Counts
  BY DEF TypeOK, Flags, Queues, Table, Numbers, Counts

(* Numbers given out are still so when more are. *)
LEMMA NumbersKeep ==
    ASSUME Numbers, serial' \in {serial, serial + 1}, call' \in 0 .. serial',
           UNCHANGED <<modify, scanVars>>
    PROVE  Numbers'
<1>1. serial \in Nat /\ serial' \in Nat /\ 0 .. serial \subseteq 0 .. serial'
      /\ 1 .. serial \subseteq 1 .. serial'
  BY DEF Numbers
<1>2. modify \in [Paths -> 0 .. serial'] /\ scanCall \in [Paths -> 0 .. serial']
  BY <1>1 DEF Numbers
<1>3. scanning \in [Paths -> SUBSET (1 .. serial')]
  BY <1>1 DEF Numbers
<1> QED BY <1>1, <1>2, <1>3 DEF Numbers, scanVars

LEMMA PositionType ==
    ASSUME NEW S \in SUBSET Paths
    PROVE  3 + Cardinality(S) \in Nat
  BY FS_Subset, FS_CardinalityType, ConstAssumption

LEMMA CountedType ==
    ASSUME TypeOK, NEW step \in DOMAIN Bounds, Counted(step)
    PROVE  \A s \in DOMAIN Bounds : count'[s] \in 0 .. Bounds[s]
<1>1. \A s \in DOMAIN Bounds : Bounds[s] \in Nat
  BY ConstAssumption DEF Bounds
<1>2. ASSUME NEW s \in DOMAIN Bounds PROVE count'[s] \in 0 .. Bounds[s]
  BY <1>1 DEF TypeOK, Counted
<1> QED BY <1>2

LEMMA ReceiveType ==
    ASSUME TypeOK, NEW t, Receive(t)
    PROVE  /\ inbox' \in Seq(Messages)
           /\ Head(inbox) \in Messages /\ Head(inbox) = inbox[1]
           /\ Head(inbox).type = t
           /\ inbox # <<>>
  BY QueueTail DEF Receive, TypeOK

LEMMA AskType ==
    ASSUME TypeOK, __connman_manager_get_technologies
    PROVE  /\ call' = serial + 1 /\ serial' = serial + 1 /\ serial \in Nat
           /\ outbox' \in Seq(ToDaemon)
  BY MessageTypes, QueueAppend DEF TypeOK, __connman_manager_get_technologies, Sent

LEMMA SerialType ==
    ASSUME TypeOK, serial' = serial + 1 \/ serial' = serial
    PROVE  /\ serial' \in Nat /\ 0 .. serial \subseteq 0 .. serial'
           /\ 1 .. serial \subseteq 1 .. serial'
  BY DEF TypeOK

LEMMA FreeType ==
    ASSUME TypeOK, NEW S \in SUBSET Paths, technology_free(S), serial' = serial
    PROVE  /\ powered' = powered \ S /\ notify' = notify \ S
           /\ modify' \in [Paths -> 0 .. serial'] /\ scanCall' \in [Paths -> 0 .. serial']
           /\ scanning' \in [Paths -> SUBSET (1 .. serial')]
           /\ dangling' \subseteq 1 .. serial' /\ overlapped' \subseteq 1 .. serial'
<1>1. /\ powered' = powered \ S /\ notify' = notify \ S
      /\ modify' \in [Paths -> 0 .. serial'] /\ scanCall' \in [Paths -> 0 .. serial']
  BY DEF TypeOK, technology_free
<1>2. scanning' \in [Paths -> SUBSET (1 .. serial')]
  BY DEF TypeOK, technology_free
<1>3. \A p \in Paths : scanning[p] \subseteq 1 .. serial BY DEF TypeOK
<1>4. dangling' \subseteq 1 .. serial' /\ overlapped' \subseteq 1 .. serial'
  BY <1>3 DEF TypeOK, technology_free
<1> QED BY <1>1, <1>2, <1>4

LEMMA ItemsType ==
    ASSUME Shape, NEW p \in Paths, add_technology(p)
    PROVE  /\ items' = items \cup {p}
           /\ callbacks' \subseteq callbacks \cup {p}
           /\ switch' \subseteq items' /\ greyed' \subseteq items'
           /\ position' = 3 + Cardinality(items')
<1>1. items \subseteq Paths BY DEF Shape, TypeOK
<1>2. IsFiniteSet(items) BY <1>1, FS_Subset, ConstAssumption
<1>3. Cardinality(items') = IF p \in items THEN Cardinality(items) ELSE Cardinality(items) + 1
  BY <1>2, FS_AddElement DEF add_technology
<1>4. Cardinality(items) \in Nat BY <1>2, FS_CardinalityType
<1>5. position' = 3 + Cardinality(items')
  BY <1>3, <1>4 DEF Shape, PositionCounts, add_technology
<1> QED BY <1>5 DEF add_technology, With, Shape, TypeOK

LEMMA DeleteType ==
    ASSUME Shape, NEW S, delete_technology_items(S)
    PROVE  /\ items' = items \ S /\ switch' = switch \ S /\ greyed' = greyed \ S
           /\ position' = 3 + Cardinality(items')
<1>1. items \subseteq Paths BY DEF Shape, TypeOK
<1>2. IsFiniteSet(items) BY <1>1, FS_Subset, ConstAssumption
<1>3. Cardinality(items \ S) = Cardinality(items) - Cardinality(items \cap S)
  BY <1>2, FS_Difference
<1>4. Cardinality(items) \in Nat /\ Cardinality(items \cap S) \in Nat
  BY <1>2, FS_CardinalityType, FS_Intersection
<1>5. position' = 3 + Cardinality(items')
  BY <1>3, <1>4 DEF Shape, PositionCounts, delete_technology_items
<1> QED BY <1>5 DEF delete_technology_items

-----------------------------------------------------------------------------
(* What the steps do to the queues *)

(* Taking a message leaves a queue of which the same is true.               *)
LEMMA InboxTail ==
    ASSUME Shape, inbox # <<>>, inbox' = Tail(inbox)
    PROVE  /\ Subsets' /\ inbox' \in Seq(Messages)
           /\ \A i \in 1 .. Len(inbox') :
                IsAnswer(inbox'[i]) => inbox'[i].serial \in 1 .. serial
<1>1. inbox' \in Seq(Messages)
      /\ \A i \in 1 .. Len(inbox') : i + 1 \in 1 .. Len(inbox) /\ inbox'[i] = inbox[i + 1]
  BY QueueTail DEF Shape, TypeOK
<1> QED BY <1>1 DEF Subsets, Given, Shape

(* The messages behind those of the inbox. *)
NewTold ==
    /\ inbox' \in Seq(Messages) /\ Grown(inbox, inbox')
    /\ \A i \in Len(inbox) + 1 .. Len(inbox') :
         /\ IsAnswer(inbox'[i]) => inbox'[i].serial \in 1 .. serial
         /\ inbox'[i].type = "technologies" => inbox'[i].on \subseteq inbox'[i].paths

LEMMA InboxGrows ==
    ASSUME Shape, NewTold
    PROVE  /\ Subsets' /\ inbox' \in Seq(Messages)
           /\ \A i \in 1 .. Len(inbox') :
                IsAnswer(inbox'[i]) => inbox'[i].serial \in 1 .. serial
<1>1. inbox \in Seq(Messages) /\ Len(inbox) \in Nat /\ Len(inbox') \in Nat
  BY DEF Shape, TypeOK, NewTold
<1>2. ASSUME NEW i \in 1 .. Len(inbox')
      PROVE  /\ IsAnswer(inbox'[i]) => inbox'[i].serial \in 1 .. serial
             /\ inbox'[i].type = "technologies" => inbox'[i].on \subseteq inbox'[i].paths
  <2>1. CASE i \in 1 .. Len(inbox)
    BY <2>1 DEF NewTold, Grown, Shape, Subsets, Given
  <2>2. CASE i \notin 1 .. Len(inbox)
    <3>1. i \in Len(inbox) + 1 .. Len(inbox') BY <1>1, <2>2
    <3> QED BY <3>1 DEF NewTold
  <2> QED BY <2>1, <2>2
<1> QED BY <1>2 DEF Subsets, NewTold

LEMMA NewTolds ==
    ASSUME Shape, NEW m \in Messages, inbox' = Append(inbox, m),
           IsAnswer(m) => m.serial \in 1 .. serial,
           m.type = "technologies" => m.on \subseteq m.paths
    PROVE  /\ NewTold /\ Len(inbox') = Len(inbox) + 1 /\ Len(inbox) \in Nat
           /\ inbox'[Len(inbox) + 1] = m
<1>1. inbox \in Seq(Messages) BY DEF Shape, TypeOK
<1>2. /\ inbox' \in Seq(Messages) /\ Grown(inbox, inbox')
      /\ Len(inbox') = Len(inbox) + 1 /\ Len(inbox) \in Nat
      /\ inbox'[Len(inbox) + 1] = m
  BY <1>1, QueueAppend
<1> QED BY <1>2 DEF NewTold

LEMMA NoneTold ==
    ASSUME Shape, inbox' = inbox
    PROVE  NewTold
  BY DEF Shape, TypeOK, NewTold, Grown

LEMMA ToggledSignals ==
    ASSUME NEW p \in Paths
    PROVE  /\ ToggledSignal(p) \in Seq(Messages)
           /\ Len(ToggledSignal(p)) = IF p \in known THEN 1 ELSE 0
           /\ \A i \in 1 .. Len(ToggledSignal(p)) :
                ToggledSignal(p)[i] = Signal("PropertyChanged", p, p \notin power)
<1>1. Signal("PropertyChanged", p, p \notin power) \in Messages BY MessageTypes
<1> HIDE DEF Messages
<1>2. CASE p \in known
  <2>1. ToggledSignal(p) = <<Signal("PropertyChanged", p, p \notin power)>>
    BY <1>2 DEF ToggledSignal
  <2> QED BY <1>1, <1>2, <2>1
<1>3. CASE p \notin known
  <2>1. ToggledSignal(p) = <<>> BY <1>3 DEF ToggledSignal
  <2> QED BY <1>3, <2>1
<1> QED BY <1>2, <1>3

(* The two messages about a call that is served. *)
Answer == Result(Head(outbox).serial, TRUE)
Change == Signal("PropertyChanged", Head(outbox).path, Head(outbox).path \notin power)

(* A switched technology is told of, if it is known, before or behind the   *)
(* answer to its call.                                                      *)
LEMMA SetTells ==
    ASSUME Shape, DaemonSet
    PROVE  /\ inbox \in Seq(Messages) /\ Len(inbox) \in Nat
           /\ Answer \in Messages /\ Change \in Messages
           /\ Head(outbox) \in ToDaemon /\ Head(outbox).serial \in 1 .. serial
           /\ inbox' \in Seq(Messages) /\ Grown(inbox, inbox')
           /\ \/ /\ Head(outbox).path \in known /\ Len(inbox') = Len(inbox) + 2
                 /\ \/ inbox'[Len(inbox) + 1] = Change /\ inbox'[Len(inbox) + 2] = Answer
                    \/ inbox'[Len(inbox) + 1] = Answer /\ inbox'[Len(inbox) + 2] = Change
              \/ /\ Head(outbox).path \notin known /\ Len(inbox') = Len(inbox) + 1
                 /\ inbox'[Len(inbox) + 1] = Answer
<1> DEFINE h == Head(outbox)
           r == Answer
           c == Change
           t == ToggledSignal(h.path)
<1>1. h \in ToDaemon /\ h.serial \in 1 .. serial /\ h.path \in Paths
  BY QueueTail, CallFields DEF DaemonSet, Serve, Shape, TypeOK, Given
<1>2. inbox \in Seq(Messages) /\ Len(inbox) \in Nat BY DEF Shape, TypeOK
<1>3. r \in Messages
  <2>1. h.serial \in Nat /\ TRUE \in BOOLEAN BY <1>1 DEF Shape, TypeOK
  <2> QED BY <2>1, MessageTypes DEF Answer
<1>4. c \in Messages
  <2>1. (h.path \notin power) \in BOOLEAN OBVIOUS
  <2> QED BY <1>1, <2>1, MessageTypes DEF Change
<1>5. /\ inbox' = inbox \o t \o <<r>> \/ inbox' = inbox \o <<r>> \o t
      /\ t = IF h.path \in known THEN <<c>> ELSE <<>>
  BY DEF DaemonSet, ToggledSignal, Answer, Change
<1> HIDE DEF h, r, c, t, Messages
<1>6. ASSUME NEW a \in Messages, NEW b \in Messages, inbox' = Append(Append(inbox, a), b)
      PROVE  /\ inbox' \in Seq(Messages) /\ Grown(inbox, inbox') /\ Len(inbox') = Len(inbox) + 2
             /\ inbox'[Len(inbox) + 1] = a /\ inbox'[Len(inbox) + 2] = b
  <2> DEFINE q == Append(inbox, a)
  <2>1. /\ q \in Seq(Messages) /\ Grown(inbox, q) /\ Len(q) = Len(inbox) + 1
        /\ q[Len(inbox) + 1] = a
    BY <1>2, QueueAppend
  <2>2. inbox' = Append(q, b) BY <1>6
  <2> HIDE DEF q
  <2>3. /\ inbox' \in Seq(Messages) /\ Grown(q, inbox') /\ Len(inbox') = Len(q) + 1
        /\ inbox'[Len(q) + 1] = b
    BY <2>1, <2>2, QueueAppend
  <2> QED BY <1>2, <2>1, <2>3 DEF Grown
<1>7. CASE h.path \in known
  <2>1. \/ inbox' = Append(Append(inbox, c), r) \/ inbox' = Append(Append(inbox, r), c)
    <3>1. inbox' = inbox \o <<c>> \o <<r>> \/ inbox' = inbox \o <<r>> \o <<c>>
      BY <1>5, <1>7
    <3>2. inbox \o <<c>> = Append(inbox, c) /\ Append(inbox, c) \in Seq(Messages)
          /\ inbox \o <<r>> = Append(inbox, r) /\ Append(inbox, r) \in Seq(Messages)
      BY <1>2, <1>3, <1>4, QueueOne
    <3>3. ASSUME NEW q \in Seq(Messages), NEW m \in Messages
          PROVE  q \o <<m>> = Append(q, m)
      BY QueueOne
    <3>4. Append(inbox, c) \o <<r>> = Append(Append(inbox, c), r)
      BY <1>3, <3>2, <3>3, Zenon
    <3>5. Append(inbox, r) \o <<c>> = Append(Append(inbox, r), c)
      BY <1>4, <3>2, <3>3, Zenon
    <3> QED BY <3>1, <3>2, <3>4, <3>5, Zenon
  <2> QED BY <1>1, <1>2, <1>3, <1>4, <1>6, <1>7, <2>1 DEF h, r, c
<1>8. CASE h.path \notin known
  <2>1. inbox' = Append(inbox, r)
    <3>1. inbox' = inbox \o <<>> \o <<r>> \/ inbox' = inbox \o <<r>> \o <<>> BY <1>5, <1>8
    <3>2. inbox \o <<>> = inbox /\ inbox \o <<r>> = Append(inbox, r)
          /\ Append(inbox, r) \in Seq(Messages)
      BY <1>2, <1>3, QueueOne
    <3>3. Append(inbox, r) \o <<>> = Append(inbox, r) BY <1>3, <3>2, QueueOne
    <3> QED BY <3>1, <3>2, <3>3, Zenon
  <2> QED BY <1>1, <1>2, <1>3, <1>4, <1>8, <2>1, QueueAppend DEF h, r, c
<1> QED BY <1>7, <1>8

(* One of the messages is the answer. *)
LEMMA SetAnswers ==
    ASSUME Shape, DaemonSet
    PROVE  \E k \in Len(inbox) + 1 .. Len(inbox') :
             /\ inbox'[k].serial = Head(outbox).serial
             /\ \A i \in Len(inbox) + 1 .. Len(inbox') : i # k => ~IsAnswer(inbox'[i])
<1>3. /\ Len(inbox) \in Nat
      /\ \/ /\ Len(inbox') = Len(inbox) + 2
            /\ \/ inbox'[Len(inbox) + 1] = Change /\ inbox'[Len(inbox) + 2] = Answer
               \/ inbox'[Len(inbox) + 1] = Answer /\ inbox'[Len(inbox) + 2] = Change
         \/ /\ Len(inbox') = Len(inbox) + 1
            /\ inbox'[Len(inbox) + 1] = Answer
  BY SetTells
<1>4. Answer.serial = Head(outbox).serial /\ ~IsAnswer(Change)
  BY DEF Answer, Change, Result, Signal, IsAnswer
<1>5. \A i \in Len(inbox) + 1 .. Len(inbox') :
        i = Len(inbox) + 1 \/ (i = Len(inbox) + 2 /\ Len(inbox') = Len(inbox) + 2)
  BY <1>3
<1>6. /\ Len(inbox) + 1 \in Len(inbox) + 1 .. Len(inbox')
      /\ Len(inbox') = Len(inbox) + 2 => Len(inbox) + 2 \in Len(inbox) + 1 .. Len(inbox')
  BY <1>3
<1>7. CASE inbox'[Len(inbox) + 1] = Answer BY <1>3, <1>4, <1>5, <1>6, <1>7
<1>8. CASE inbox'[Len(inbox) + 1] = Change /\ inbox'[Len(inbox) + 2] = Answer /\ Len(inbox') = Len(inbox) + 2
  BY <1>4, <1>5, <1>6, <1>8
<1> QED BY <1>3, <1>7, <1>8

(* A served call is answered by its number, a change told if it is seen.    *)
LEMMA SetTold ==
    ASSUME Shape, DaemonSet
    PROVE  /\ NewTold
           /\ \A i \in Len(inbox) + 1 .. Len(inbox') :
                \/ inbox'[i] = Result(Head(outbox).serial, TRUE)
                \/ inbox'[i] = Signal("PropertyChanged", Head(outbox).path,
                                     Head(outbox).path \notin power)
<1>3. /\ inbox' \in Seq(Messages) /\ Grown(inbox, inbox') /\ Head(outbox).serial \in 1 .. serial
      /\ Len(inbox) \in Nat /\ Len(inbox') \in {Len(inbox) + 1, Len(inbox) + 2}
      /\ inbox'[Len(inbox) + 1] \in {Answer, Change}
      /\ Len(inbox') = Len(inbox) + 2 => inbox'[Len(inbox) + 2] \in {Answer, Change}
  BY SetTells
<1>4. \A i \in Len(inbox) + 1 .. Len(inbox') : inbox'[i] \in {Answer, Change}
  <2>1. \A i \in Len(inbox) + 1 .. Len(inbox') :
          i = Len(inbox) + 1 \/ (i = Len(inbox) + 2 /\ Len(inbox') = Len(inbox) + 2)
    BY <1>3
  <2> QED BY <1>3, <2>1
<1>5. Answer.serial = Head(outbox).serial /\ Answer.type = "result" /\ Change.type = "PropertyChanged"
  BY DEF Answer, Change, Result, Signal
<1> QED BY <1>3, <1>4, <1>5 DEF NewTold, IsAnswer, Answer, Change

(* What the daemon tells on its own. *)
LEMMA ToggleTold ==
    ASSUME Shape, NEW p \in Paths, DaemonToggle(p)
    PROVE  /\ NewTold /\ Len(inbox) \in Nat
           /\ Len(inbox') = IF p \in known THEN Len(inbox) + 1 ELSE Len(inbox)
           /\ \A i \in Len(inbox) + 1 .. Len(inbox') :
                inbox'[i] = Signal("PropertyChanged", p, p \notin power)
<1>1. inbox \in Seq(Messages) BY DEF Shape, TypeOK
<1>2. inbox' = inbox \o ToggledSignal(p) BY DEF DaemonToggle
<1> HIDE DEF ToggledSignal
<1>3. /\ inbox' \in Seq(Messages) /\ Grown(inbox, inbox')
      /\ Len(inbox) \in Nat /\ Len(inbox') = Len(inbox) + Len(ToggledSignal(p))
      /\ \A i \in Len(inbox) + 1 .. Len(inbox') : inbox'[i] = ToggledSignal(p)[i - Len(inbox)]
  BY <1>1, <1>2, ToggledSignals, QueueConcat
<1>4. Len(ToggledSignal(p)) \in Nat BY ToggledSignals
<1>5. ASSUME NEW i \in Len(inbox) + 1 .. Len(inbox')
      PROVE  inbox'[i] = Signal("PropertyChanged", p, p \notin power)
  <2>1. i - Len(inbox) \in 1 .. Len(ToggledSignal(p)) BY <1>3, <1>4
  <2> QED BY <2>1, <1>3, ToggledSignals
<1>6. NewTold BY <1>3, <1>5 DEF NewTold, IsAnswer, Signal
<1>7. Len(inbox') = IF p \in known THEN Len(inbox) + 1 ELSE Len(inbox)
  <2>1. Len(ToggledSignal(p)) = IF p \in known THEN 1 ELSE 0 BY ToggledSignals
  <2> QED BY <1>3, <2>1
<1> QED BY <1>3, <1>5, <1>6, <1>7

(* Sending a call, if the daemon is there. *)
LEMMA OutboxGrows ==
    ASSUME Shape, NEW m \in ToDaemon, m.serial = serial + 1, serial' = serial + 1,
           outbox' = Sent(m)
    PROVE  /\ outbox' \in Seq(ToDaemon) /\ Grown(outbox, outbox')
           /\ ~alive => outbox' = outbox
           /\ alive => Len(outbox') = Len(outbox) + 1 /\ outbox'[Len(outbox) + 1] = m
           /\ \A i \in 1 .. Len(outbox') : outbox'[i].serial \in 1 .. serial'
<1>1. serial \in Nat /\ outbox \in Seq(ToDaemon) BY DEF Shape, TypeOK
<1>2. CASE ~alive
  BY <1>1, <1>2 DEF Sent, Shape, Given, Grown
<1>3. CASE alive
  <2>1. outbox' = Append(outbox, m) BY <1>3 DEF Sent
  <2>2. /\ outbox' \in Seq(ToDaemon) /\ Grown(outbox, outbox')
        /\ Len(outbox') = Len(outbox) + 1 /\ Len(outbox) \in Nat
        /\ outbox'[Len(outbox) + 1] = m
    BY <1>1, <2>1, QueueAppend
  <2>3. ASSUME NEW i \in 1 .. Len(outbox') PROVE outbox'[i].serial \in 1 .. serial'
    <3>1. CASE i = Len(outbox) + 1 BY <2>2, <3>1, <1>1
    <3>2. CASE i # Len(outbox) + 1
      <4>1. i \in 1 .. Len(outbox) BY <2>2, <3>2
      <4> QED BY <4>1, <2>2, <1>1 DEF Shape, Given, Grown
    <3> QED BY <3>1, <3>2
  <2> QED BY <1>3, <2>2, <2>3
<1> QED BY <1>2, <1>3

LEMMA OutboxAsks ==
    ASSUME Shape, __connman_manager_get_technologies
    PROVE  /\ outbox' \in Seq(ToDaemon) /\ Grown(outbox, outbox')
           /\ ~alive => outbox' = outbox
           /\ alive => /\ Len(outbox') = Len(outbox) + 1
                       /\ outbox'[Len(outbox) + 1] = GetTechnologies(serial + 1)
           /\ \A i \in 1 .. Len(outbox') : outbox'[i].serial \in 1 .. serial'
           /\ call' = serial + 1 /\ serial' = serial + 1 /\ serial \in Nat
<1>1. serial \in Nat BY DEF Shape, TypeOK
<1>2. GetTechnologies(serial + 1) \in ToDaemon
      /\ GetTechnologies(serial + 1).serial = serial + 1
  BY <1>1, MessageTypes DEF GetTechnologies
<1> HIDE DEF GetTechnologies
<1>3. /\ serial' = serial + 1 /\ call' = serial + 1
      /\ outbox' = Sent(GetTechnologies(serial + 1))
  BY DEF __connman_manager_get_technologies
<1> QED BY <1>1, <1>2, <1>3, OutboxGrows

LEMMA OutboxStays ==
    ASSUME Shape, outbox' = outbox, serial' \in {serial, serial + 1}
    PROVE  /\ outbox' \in Seq(ToDaemon)
           /\ \A i \in 1 .. Len(outbox') : outbox'[i].serial \in 1 .. serial'
  BY DEF Shape, Given, TypeOK

(* The daemon takes the first call. *)
LEMMA OutboxTail ==
    ASSUME Shape, outbox # <<>>, outbox' = Tail(outbox), serial' = serial
    PROVE  /\ outbox' \in Seq(ToDaemon)
           /\ \A i \in 1 .. Len(outbox') : outbox'[i].serial \in 1 .. serial'
           /\ Head(outbox) \in ToDaemon /\ Head(outbox) = outbox[1]
           /\ Head(outbox).serial \in 1 .. serial /\ Len(outbox) >= 1
<1>1. /\ outbox' \in Seq(ToDaemon) /\ Len(outbox) >= 1
      /\ Head(outbox) \in ToDaemon /\ Head(outbox) = outbox[1]
      /\ \A i \in 1 .. Len(outbox') : i + 1 \in 1 .. Len(outbox) /\ outbox'[i] = outbox[i + 1]
  BY QueueTail DEF Shape, TypeOK
<1> QED BY <1>1 DEF Given, Shape

(* Messages, and the numbers of calls and answers, through each step.       *)
QueuesOK == Queues /\ Given /\ Subsets

LEMMA QueuesOkFrom ==
    ASSUME Shape, present' \subseteq Paths, power' \subseteq present',
           outbox' \in Seq(ToDaemon), serial' \in {serial, serial + 1},
           \A i \in 1 .. Len(outbox') : outbox'[i].serial \in 1 .. serial',
           NewTold \/ (inbox # <<>> /\ inbox' = Tail(inbox))
    PROVE  QueuesOK'
<1>1. /\ Subsets' /\ inbox' \in Seq(Messages)
      /\ \A i \in 1 .. Len(inbox') : IsAnswer(inbox'[i]) => inbox'[i].serial \in 1 .. serial
  BY InboxTail, InboxGrows
<1>2. serial \in Nat BY DEF Shape, TypeOK
<1>3. 1 .. serial \subseteq 1 .. serial' BY <1>2
<1> QED BY <1>1, <1>3 DEF QueuesOK, Queues, Given

LEMMA QueuesKeepMain ==
    ASSUME Shape, MainLoop
    PROVE  QueuesOK'
<1>1. present \subseteq Paths /\ power \subseteq present /\ serial \in Nat
  BY DEF Shape, TypeOK
<1>2. CASE get_technologies_callback
  <2>1. outbox' \in Seq(ToDaemon) /\ serial' \in {serial, serial + 1}
        /\ \A i \in 1 .. Len(outbox') : outbox'[i].serial \in 1 .. serial'
    <3>1. __connman_manager_get_technologies \/ (outbox' = outbox /\ serial' = serial)
      BY <1>2 DEF get_technologies_callback, get_technologies_cb, callVars
    <3> QED BY <3>1, OutboxAsks, OutboxStays
  <2> QED BY <1>1, <1>2, <2>1, QueuesOkFrom DEF get_technologies_callback, Receive
<1>3. CASE technology_added_cb
  <2>1. outbox' \in Seq(ToDaemon) /\ serial' \in {serial, serial + 1}
        /\ \A i \in 1 .. Len(outbox') : outbox'[i].serial \in 1 .. serial'
    <3>1. __connman_manager_get_technologies \/ (outbox' = outbox /\ serial' = serial)
      BY <1>3 DEF technology_added_cb, callVars
    <3> QED BY <3>1, OutboxAsks, OutboxStays
  <2> QED BY <1>1, <1>3, <2>1, QueuesOkFrom DEF technology_added_cb, Receive
<1>4. CASE connman_up
  <2>1. outbox' \in Seq(ToDaemon) /\ serial' \in {serial, serial + 1}
        /\ \A i \in 1 .. Len(outbox') : outbox'[i].serial \in 1 .. serial'
    <3>1. __connman_manager_get_technologies \/ (outbox' = outbox /\ serial' = serial)
      BY <1>4 DEF connman_up, callVars
    <3> QED BY <3>1, OutboxAsks, OutboxStays
  <2> QED BY <1>1, <1>4, <2>1, QueuesOkFrom DEF connman_up, Receive
<1>5. CASE \/ get_technologies_error \/ set_property_cb \/ technology_removed_cb
           \/ property_changed_signal_cb \/ connman_down
  <2>1. /\ outbox' = outbox /\ serial' = serial /\ inbox # <<>> /\ inbox' = Tail(inbox)
        /\ present' = present /\ power' = power
    BY <1>5 DEF get_technologies_error, set_property_cb, technology_removed_cb,
                property_changed_signal_cb, connman_down, callVars, Receive
  <2> QED BY <1>1, <2>1, OutboxStays, QueuesOkFrom
<1>6. ASSUME NEW p \in Paths, property_changed_or_error(p) PROVE QueuesOK'
  <2>1. UNCHANGED <<busVars, serial>> BY <1>6 DEF property_changed_or_error, callVars
  <2> QED BY <1>1, <2>1, OutboxStays, NoneTold, QueuesOkFrom DEF busVars
<1> QED BY <1>2, <1>3, <1>4, <1>5, <1>6 DEF MainLoop

LEMMA QueuesKeepUser ==
    ASSUME Shape, User \/ \E s \in 1 .. serial : scan_callback(s)
    PROVE  QueuesOK'
<1>1. present \subseteq Paths /\ power \subseteq present /\ serial \in Nat
  BY DEF Shape, TypeOK
<1>2. CASE \/ cui_popup_right_menu \/ cui_popdown_right_menu
           \/ \E p \in Paths : connman_technology_scan(p)
           \/ \E s \in 1 .. serial : scan_callback(s)
  <2>1. UNCHANGED busVars /\ serial' \in {serial, serial + 1}
    BY <1>2 DEF cui_popup_right_menu, cui_popdown_right_menu, connman_technology_scan,
                scan_callback, callVars
  <2> QED BY <1>1, <2>1, OutboxStays, NoneTold, QueuesOkFrom DEF busVars
<1>3. ASSUME NEW p \in Paths, gtk_technology_button_release_event(p) PROVE QueuesOK'
  <2>1. PICK on \in BOOLEAN : on = (p \notin switch) OBVIOUS
  <2>2. \/ outbox' = Sent(SetPowered(p, on, serial + 1)) /\ serial' = serial + 1
        \/ outbox' = outbox /\ serial' = serial
    BY <1>3, <2>1 DEF gtk_technology_button_release_event
  <2>3. SetPowered(p, on, serial + 1) \in ToDaemon
        /\ SetPowered(p, on, serial + 1).serial = serial + 1
    BY <1>1, MessageTypes DEF SetPowered
  <2> HIDE DEF SetPowered
  <2>4. outbox' \in Seq(ToDaemon) /\ serial' \in {serial, serial + 1}
        /\ \A i \in 1 .. Len(outbox') : outbox'[i].serial \in 1 .. serial'
    BY <2>2, <2>3, OutboxGrows, OutboxStays
  <2>5. inbox' = inbox /\ present' = present /\ power' = power
    BY <1>3 DEF gtk_technology_button_release_event
  <2> QED BY <1>1, <2>4, <2>5, NoneTold, QueuesOkFrom
<1> QED BY <1>2, <1>3 DEF User

LEMMA QueuesKeepDaemon ==
    ASSUME Shape, Daemon
    PROVE  QueuesOK'
<1>1. present \subseteq Paths /\ power \subseteq present /\ serial \in Nat
  BY DEF Shape, TypeOK
<1>2. ASSUME NEW p \in Paths, NEW on \in BOOLEAN, DaemonAdd(p, on) PROVE QueuesOK'
  <2>1. Signal("TechnologyAdded", p, on) \in Messages
        /\ Signal("TechnologyAdded", p, on).type = "TechnologyAdded"
    BY MessageTypes DEF Signal
  <2>2. NewTold
    BY <1>2, <2>1, NewTolds, NoneTold DEF DaemonAdd, IsAnswer
  <2>3. present' \subseteq Paths /\ power' \subseteq present'
    BY <1>1, <1>2 DEF DaemonAdd, With
  <2> QED BY <1>2, <2>2, <2>3, OutboxStays, QueuesOkFrom DEF DaemonAdd, callVars
<1>3. ASSUME NEW p \in Paths, DaemonRemove(p) PROVE QueuesOK'
  <2>1. Signal("TechnologyRemoved", p, FALSE) \in Messages
        /\ Signal("TechnologyRemoved", p, FALSE).type = "TechnologyRemoved"
    BY MessageTypes DEF Signal
  <2>2. NewTold
    BY <1>3, <2>1, NewTolds, NoneTold DEF DaemonRemove, IsAnswer
  <2>3. present' \subseteq Paths /\ power' \subseteq present'
    BY <1>1, <1>3 DEF DaemonRemove
  <2> QED BY <1>3, <2>2, <2>3, OutboxStays, QueuesOkFrom DEF DaemonRemove, callVars
<1>4. ASSUME NEW p \in Paths, DaemonToggle(p) PROVE QueuesOK'
  <2>1. present' \subseteq Paths /\ power' \subseteq present'
    BY <1>1, <1>4 DEF DaemonToggle, Toggled, With
  <2>2. NewTold BY <1>4, ToggleTold
  <2> QED BY <1>4, <2>1, <2>2, OutboxStays, QueuesOkFrom DEF DaemonToggle, callVars
<1>5. ASSUME DaemonServe PROVE QueuesOK'
  <2>1. /\ outbox # <<>> /\ outbox' = Tail(outbox) /\ serial' = serial /\ present' = present
    BY <1>5 DEF DaemonServe, DaemonList, DaemonListError, DaemonSet, DaemonSetError,
                Serve, callVars
  <2>2. /\ outbox' \in Seq(ToDaemon) /\ Head(outbox).serial \in 1 .. serial
        /\ \A i \in 1 .. Len(outbox') : outbox'[i].serial \in 1 .. serial'
        /\ Head(outbox) \in ToDaemon
    BY <2>1, OutboxTail
  <2>3. CASE DaemonList
    <3>1. Technologies(Head(outbox).serial) \in Messages
      BY <1>1, <2>2, ListType DEF Shape, TypeOK
    <3>2. NewTold
      BY <2>2, <2>3, <3>1, <1>1, NewTolds DEF DaemonList, Technologies, IsAnswer
    <3> QED BY <1>1, <2>1, <2>2, <2>3, <3>2, QueuesOkFrom DEF DaemonList
  <2>4. CASE DaemonListError \/ DaemonSetError
    <3>1. Result(Head(outbox).serial, FALSE) \in Messages
      <4>1. Head(outbox).serial \in Nat /\ FALSE \in BOOLEAN BY <1>1, <2>2
      <4> QED BY <4>1, MessageTypes
    <3>2. NewTold /\ power' = power
      BY <2>2, <2>4, <3>1, NewTolds DEF DaemonListError, DaemonSetError, Result, IsAnswer
    <3> QED BY <1>1, <2>1, <2>2, <2>4, <3>2, QueuesOkFrom
  <2>5. CASE DaemonSet
    <3>1. power' \subseteq present' BY <1>1, <2>1, <2>5 DEF DaemonSet, Toggled, With
    <3> QED BY <1>1, <2>1, <2>2, <2>5, <3>1, SetTold, QueuesOkFrom
  <2> QED BY <1>5, <2>3, <2>4, <2>5 DEF DaemonServe
<1>6. CASE DaemonDown
  <2>1. NewTold BY <1>6, MessageTypes, NewTolds DEF DaemonDown, Note, IsAnswer
  <2>2. outbox' \in Seq(ToDaemon) /\ Len(outbox') = 0 BY <1>6 DEF DaemonDown
  <2> QED BY <1>1, <1>6, <2>1, <2>2, QueuesOkFrom DEF DaemonDown, callVars
<1>7. CASE DaemonUp
  <2>1. NewTold BY <1>7, MessageTypes, NewTolds DEF DaemonUp, Note, IsAnswer
  <2> QED BY <1>1, <1>7, <2>1, OutboxStays, QueuesOkFrom DEF DaemonUp, callVars
<1> QED BY <1>2, <1>3, <1>4, <1>5, <1>6, <1>7 DEF Daemon

-----------------------------------------------------------------------------
(* The other types, through each step.                                      *)

LEMMA NumbersOK ==
    ASSUME Shape, Next
    PROVE  Numbers'
<1>1. Numbers BY TypeParts DEF Shape
<1>2. CASE \/ get_technologies_callback \/ technology_added_cb \/ connman_up
  <2>1. \/ __connman_manager_get_technologies
        \/ call' \in {0, call} /\ serial' = serial
    BY <1>2 DEF get_technologies_callback, get_technologies_cb, technology_added_cb,
                connman_up, callVars
  <2>2. serial' \in {serial, serial + 1} /\ call' \in 0 .. serial'
    BY <1>1, <2>1, AskType DEF Numbers, Shape
  <2>3. UNCHANGED <<modify, scanVars>>
    BY <1>2 DEF get_technologies_callback, technology_added_cb, connman_up, techVars
  <2> QED BY <1>1, <2>2, <2>3, NumbersKeep
<1>3. CASE \/ get_technologies_error \/ property_changed_signal_cb
           \/ \E p \in Paths : property_changed_or_error(p)
           \/ cui_popup_right_menu \/ cui_popdown_right_menu \/ Daemon
  <2>1. serial' = serial /\ call' \in {0, call} /\ UNCHANGED <<modify, scanVars>>
    BY <1>3 DEF get_technologies_error, property_changed_signal_cb,
                property_changed_or_error, cui_popup_right_menu, cui_popdown_right_menu,
                Daemon, DaemonAdd, DaemonRemove, DaemonToggle, DaemonServe, DaemonList,
                DaemonListError, DaemonSet, DaemonSetError, Serve, DaemonDown, DaemonUp,
                callVars, techVars
  <2> QED BY <1>1, <2>1, NumbersKeep DEF Numbers
<1>4. CASE set_property_cb
  <2>1. \E n : modify' = [p \in Paths |-> IF modify[p] = n THEN 0 ELSE modify[p]]
    BY <1>4 DEF set_property_cb
  <2>2. modify' \in [Paths -> 0 .. serial] BY <1>1, <2>1 DEF Numbers
  <2> QED BY <1>1, <1>4, <2>2 DEF set_property_cb, Numbers, callVars, scanVars
<1>5. CASE technology_removed_cb \/ connman_down
  <2>1. /\ serial' = serial /\ call' \in {0, call}
        /\ \/ \E S \in SUBSET Paths : technology_free(S)
           \/ UNCHANGED <<modify, scanVars>>
    <3>1. known \subseteq Paths BY DEF Shape, TypeOK
    <3>2. \A S : known \cap S \in SUBSET Paths BY <3>1
    <3>3. CASE technology_removed_cb BY <3>2, <3>3 DEF technology_removed_cb, callVars, techVars
    <3>4. CASE connman_down BY <3>1, <3>4 DEF connman_down
    <3> QED BY <1>5, <3>3, <3>4
  <2>2. CASE UNCHANGED <<modify, scanVars>> BY <1>1, <2>1, <2>2, NumbersKeep DEF Numbers
  <2>3. ASSUME NEW S \in SUBSET Paths, technology_free(S) PROVE Numbers'
    BY <1>1, <2>1, <2>3, FreeType DEF Shape, Numbers
  <2> QED BY <2>1, <2>2, <2>3
<1>6. ASSUME NEW p \in Paths, gtk_technology_button_release_event(p) PROVE Numbers'
  <2>1. /\ call' = call /\ UNCHANGED scanVars
        /\ \/ serial' = serial + 1 /\ modify' = [modify EXCEPT ![p] = serial + 1]
           \/ serial' = serial /\ modify' = modify
    BY <1>6 DEF gtk_technology_button_release_event
  <2>2. CASE serial' = serial /\ modify' = modify BY <1>1, <2>1, <2>2, NumbersKeep DEF Numbers
  <2>3. CASE serial' = serial + 1 /\ modify' = [modify EXCEPT ![p] = serial + 1]
    <3>1. /\ serial \in Nat /\ serial + 1 \in 0 .. serial' /\ 0 .. serial \subseteq 0 .. serial'
          /\ 1 .. serial \subseteq 1 .. serial'
      BY <1>1, <2>3 DEF Numbers
    <3>2. modify' \in [Paths -> 0 .. serial'] BY <1>1, <2>3, <3>1 DEF Numbers
    <3>3. scanCall \in [Paths -> 0 .. serial'] /\ scanning \in [Paths -> SUBSET (1 .. serial')]
      BY <1>1, <3>1 DEF Numbers
    <3> QED BY <1>1, <2>1, <3>1, <3>2, <3>3 DEF Numbers, scanVars
  <2> QED BY <2>1, <2>2, <2>3
<1>7. ASSUME NEW p \in Paths, connman_technology_scan(p) PROVE Numbers'
  <2>1. /\ serial \in Nat /\ serial' = serial + 1 /\ serial + 1 \in 1 .. serial'
        /\ 0 .. serial \subseteq 0 .. serial' /\ 1 .. serial \subseteq 1 .. serial'
        /\ serial + 1 \in 0 .. serial'
    BY <1>1, <1>7 DEF Numbers, connman_technology_scan
  <2>2. scanCall' \in [Paths -> 0 .. serial']
    BY <1>1, <1>7, <2>1 DEF Numbers, connman_technology_scan
  <2>3. scanning' \in [Paths -> SUBSET (1 .. serial')]
    <3>1. scanning \in [Paths -> SUBSET (1 .. serial')] BY <1>1, <2>1 DEF Numbers
    <3>2. scanning[p] \cup {serial + 1} \in SUBSET (1 .. serial') BY <2>1, <3>1
    <3> QED BY <1>7, <3>1, <3>2 DEF connman_technology_scan
  <2>4. modify \in [Paths -> 0 .. serial'] BY <1>1, <2>1 DEF Numbers
  <2>5. dangling' \subseteq 1 .. serial' /\ overlapped' \subseteq 1 .. serial'
    <3>1. scanning[p] \subseteq 1 .. serial' BY <1>1, <2>1 DEF Numbers
    <3> QED BY <1>1, <1>7, <2>1, <3>1 DEF Numbers, connman_technology_scan
  <2> QED BY <1>1, <1>7, <2>1, <2>2, <2>3, <2>4, <2>5
          DEF Numbers, connman_technology_scan, techVars
<1>8. ASSUME NEW s \in 1 .. serial, scan_callback(s) PROVE Numbers'
  <2>1. UNCHANGED <<call, serial, modify, overlapped>>
    BY <1>8 DEF scan_callback, callVars, techVars
  <2>2. /\ scanning' \in [Paths -> SUBSET (1 .. serial)]
        /\ scanCall' \in [Paths -> 0 .. serial]
        /\ dangling' \subseteq 1 .. serial
    <3>1. CASE s \in dangling /\ dangling' = dangling \ {s} /\ UNCHANGED <<scanning, scanCall>>
      BY <1>1, <3>1 DEF Numbers
    <3>2. ASSUME NEW p \in Paths, scanning' = [scanning EXCEPT ![p] = @ \ {s}],
                 scanCall' = [scanCall EXCEPT ![p] = 0], dangling' = dangling
          PROVE  /\ scanning' \in [Paths -> SUBSET (1 .. serial)]
                 /\ scanCall' \in [Paths -> 0 .. serial]
                 /\ dangling' \subseteq 1 .. serial
      <4>1. scanning[p] \ {s} \in SUBSET (1 .. serial) BY <1>1 DEF Numbers
      <4>2. 0 \in 0 .. serial BY <1>1 DEF Numbers
      <4> QED BY <1>1, <3>2, <4>1, <4>2 DEF Numbers
    <3> QED BY <1>8, <3>1, <3>2 DEF scan_callback
  <2> QED BY <1>1, <2>1, <2>2 DEF Numbers
<1> QED BY <1>2, <1>3, <1>4, <1>5, <1>6, <1>7, <1>8 DEF Next, MainLoop, User

LEMMA FlagsOK ==
    ASSUME Shape, Next
    PROVE  Flags'
<1>1. Flags BY TypeParts DEF Shape
<1>2. CASE MainLoop
  BY <1>1, <1>2 DEF MainLoop, get_technologies_callback, get_technologies_cb,
        get_technologies_error, set_property_cb, technology_added_cb,
        technology_removed_cb, property_changed_signal_cb, connman_up, connman_down,
        property_changed_or_error, Flags, busVars, menuVars, history
<1>3. CASE User \/ \E s \in 1 .. serial : scan_callback(s)
  BY <1>1, <1>3 DEF User, cui_popup_right_menu, cui_popdown_right_menu, scan_callback,
        gtk_technology_button_release_event, connman_technology_scan,
        Flags, busVars, menuVars, history
<1>4. CASE Daemon
  BY <1>1, <1>4 DEF Daemon, DaemonAdd, DaemonRemove, DaemonToggle, DaemonServe, DaemonList,
        DaemonListError, DaemonSet, DaemonSetError, Serve, DaemonDown, DaemonUp,
        Flags, menuVars, history
<1> QED BY <1>2, <1>3, <1>4 DEF Next

LEMMA CountsOK ==
    ASSUME Shape, Next
    PROVE  \A step \in DOMAIN Bounds : count'[step] \in 0 .. Bounds[step]
<1>1. \/ count' = count
      \/ \E step \in DOMAIN Bounds : Counted(step)
  <2>1. {"change", "popup", "click", "scan", "fail", "down"} \subseteq DOMAIN Bounds
    BY DEF Bounds
  <2>2. CASE MainLoop
    BY <2>2 DEF MainLoop, get_technologies_callback, get_technologies_error,
          set_property_cb, technology_added_cb, technology_removed_cb,
          property_changed_signal_cb, connman_up, connman_down,
          property_changed_or_error, history
  <2>3. CASE User \/ \E s \in 1 .. serial : scan_callback(s)
    BY <2>1, <2>3 DEF User, cui_popup_right_menu, cui_popdown_right_menu, scan_callback,
          gtk_technology_button_release_event, connman_technology_scan, history
  <2>4. CASE Daemon
    BY <2>1, <2>4 DEF Daemon, DaemonAdd, DaemonRemove, DaemonToggle, DaemonServe, DaemonList,
          DaemonListError, DaemonSet, DaemonSetError, Serve, DaemonDown, DaemonUp, history
  <2> QED BY <2>2, <2>3, <2>4 DEF Next
<1>2. TypeOK BY DEF Shape
<1> QED BY <1>1, <1>2, CountedType DEF TypeOK

-----------------------------------------------------------------------------
(* The table and the menu, through each step. *)

TableOK == Table /\ CallbackHasItem /\ PositionCounts

(* A change of the table that leaves the menu alone.                        *)
LEMMA TableKeeps ==
    ASSUME Shape, known \subseteq known', known' \subseteq Paths,
           powered' \subseteq known', notify' \subseteq known',
           UNCHANGED <<callbacks, items, switch, position, refused, adrift>>,
           greyed' \subseteq items,
           ghosts' \subseteq Paths, stale' \subseteq Paths
    PROVE  TableOK'
  BY DEF Shape, TypeOK, Table, CallbackHasItem, PositionCounts, TableOK

LEMMA TableKeepsMain ==
    ASSUME Shape, MainLoop
    PROVE  TableOK'
<1>1. Table /\ CallbackHasItem /\ PositionCounts /\ Parts BY TypeParts DEF Shape
<1>2. CASE get_technologies_callback
  <2> DEFINE m == Head(inbox)
  <2>1. m \in Messages /\ m = inbox[1] /\ m.type = "technologies" /\ Len(inbox) >= 1
    BY <1>2, ReceiveType, QueueTail DEF Shape, TypeOK, get_technologies_callback
  <2>2. m.paths \subseteq Paths /\ m.on \subseteq m.paths
    <3>1. 1 \in 1 .. Len(inbox) BY <2>1 DEF Shape, TypeOK
    <3> QED BY <2>1, <3>1, MessageFields DEF Shape, Subsets
  <2> HIDE DEF m
  <2>3. \/ /\ known' = known \cup m.paths /\ powered' = (powered \ m.paths) \cup m.on
           /\ notify' = notify \cup (m.paths \cap callbacks)
        \/ UNCHANGED <<known, powered, notify>>
    BY <1>2 DEF get_technologies_callback, get_technologies_cb, property_update, m
  <2>4. UNCHANGED <<callbacks, items, switch, position, refused, adrift, greyed, ghosts, stale>>
    BY <1>2 DEF get_technologies_callback, menuVars, history
  <2>5. known \subseteq known' /\ known' \subseteq Paths
        /\ powered' \subseteq known' /\ notify' \subseteq known'
    BY <1>1, <2>2, <2>3 DEF Table
  <2> QED BY <1>1, <2>4, <2>5, TableKeeps DEF Table
<1>3. CASE get_technologies_error \/ set_property_cb \/ connman_up
  <2>1. UNCHANGED <<known, powered, notify, callbacks, items, switch, position, refused,
                    adrift, greyed, ghosts, stale>>
    BY <1>3 DEF get_technologies_error, set_property_cb, connman_up, techVars, menuVars, history
  <2> QED BY <1>1, <2>1, TableKeeps DEF Table
<1>4. CASE technology_added_cb
  <2> DEFINE m == Head(inbox)
  <2>1. m \in Messages /\ m.type = "TechnologyAdded"
    BY <1>4, ReceiveType DEF Shape, technology_added_cb
  <2>2. m.path \in Paths BY <2>1, MessageFields
  <2> HIDE DEF m
  <2>3. UNCHANGED <<refused, adrift, ghosts, stale>>
    BY <1>4 DEF technology_added_cb, history
  <2>4. CASE set
    <3>1. /\ known' = known \cup {m.path} /\ powered' = With(powered, m.path, m.on)
          /\ notify' = notify \cup ({m.path} \cap callbacks)
          /\ add_technology(m.path)
             \/ UNCHANGED <<items, callbacks, position, switch, greyed>>
      BY <1>4, <2>4 DEF technology_added_cb, property_update, m
    <3>2. known' \subseteq Paths /\ powered' \subseteq known' /\ notify' \subseteq known'
      BY <1>1, <2>2, <3>1 DEF Table, With
    <3>3. CASE UNCHANGED <<items, callbacks, position, switch, greyed>>
      BY <1>1, <2>3, <3>1, <3>2, <3>3, TableKeeps DEF Table
    <3>4. CASE add_technology(m.path)
      <4>1. /\ items' = items \cup {m.path} /\ callbacks' \subseteq callbacks \cup {m.path}
            /\ switch' \subseteq items' /\ greyed' \subseteq items'
            /\ position' = 3 + Cardinality(items')
        BY <2>2, <3>4, ItemsType
      <4>2. CallbackHasItem' BY <1>1, <3>1, <4>1 DEF CallbackHasItem
      <4>3. Table' BY <1>1, <2>2, <2>3, <3>2, <4>1 DEF Table
      <4> QED BY <4>1, <4>2, <4>3 DEF PositionCounts, TableOK
    <3> QED BY <3>1, <3>3, <3>4
  <2>5. CASE ~set
    <3>1. UNCHANGED <<known, powered, notify, callbacks, items, position, switch, greyed>>
      BY <1>4, <2>5 DEF technology_added_cb
    <3> QED BY <1>1, <2>3, <3>1, TableKeeps DEF Table
  <2> QED BY <2>4, <2>5
<1>5. CASE technology_removed_cb
  <2> DEFINE gone == {Head(inbox).path}
  <2>1. UNCHANGED <<refused, adrift, ghosts, stale>>
    BY <1>5 DEF technology_removed_cb, history
  <2>2. CASE set
    <3>1. /\ delete_technology_items(gone) \/ UNCHANGED <<items, switch, greyed, position>>
          /\ known' = known \ gone /\ callbacks' = callbacks \ gone
          /\ technology_free(known \cap gone)
      BY <1>5, <2>2 DEF technology_removed_cb
    <3> HIDE DEF gone
    <3>2. powered' = powered \ (known \cap gone) /\ notify' = notify \ (known \cap gone)
      BY <3>1 DEF technology_free
    <3>3. known' \subseteq Paths /\ powered' \subseteq known' /\ notify' \subseteq known'
      BY <1>1, <3>1, <3>2 DEF Table
    <3>4. CASE UNCHANGED <<items, switch, greyed, position>>
      BY <1>1, <2>1, <3>1, <3>3, <3>4 DEF Table, CallbackHasItem, PositionCounts, TableOK
    <3>5. CASE delete_technology_items(gone)
      <4>1. /\ items' = items \ gone /\ switch' = switch \ gone /\ greyed' = greyed \ gone
            /\ position' = 3 + Cardinality(items')
        BY <3>5, DeleteType
      <4> QED BY <1>1, <2>1, <3>1, <3>3, <4>1 DEF Table, CallbackHasItem, PositionCounts, TableOK
    <3> QED BY <3>1, <3>4, <3>5
  <2>3. CASE ~set
    <3>1. UNCHANGED <<known, powered, notify, callbacks, items, position, switch, greyed>>
      BY <1>5, <2>3 DEF technology_removed_cb, techVars
    <3> QED BY <1>1, <2>1, <3>1, TableKeeps DEF Table
  <2> QED BY <2>2, <2>3
<1>6. CASE property_changed_signal_cb
  <2> DEFINE m == Head(inbox)
  <2>1. /\ known' = known
        /\ UNCHANGED <<callbacks, items, switch, position, refused, adrift, greyed, ghosts, stale>>
        /\ \/ /\ m.path \in known /\ powered' = With(powered, m.path, m.on)
              /\ notify' = notify \cup ({m.path} \cap callbacks)
           \/ UNCHANGED <<powered, notify>>
    BY <1>6 DEF property_changed_signal_cb, property_update, menuVars, history
  <2>2. powered' \subseteq known' /\ notify' \subseteq known'
    BY <1>1, <2>1 DEF Table, With
  <2> QED BY <1>1, <2>1, <2>2, TableKeeps DEF Table
<1>7. CASE connman_down
  <2>1. /\ known' = {} /\ callbacks' = {} /\ adrift' = items /\ ghosts' = {} /\ stale' = {}
        /\ UNCHANGED <<items, switch, greyed, position, refused>>
        /\ powered' = powered \ known /\ notify' = notify \ known
    BY <1>7 DEF connman_down, menuVars, technology_free
  <2>2. powered' = {} /\ notify' = {} BY <1>1, <2>1 DEF Table
  <2> QED BY <1>1, <2>1, <2>2 DEF Table, CallbackHasItem, PositionCounts, TableOK
<1>8. ASSUME NEW p \in Paths, property_changed_or_error(p) PROVE TableOK'
  <2>1. /\ UNCHANGED <<known, powered, callbacks, items, position, refused, adrift, ghosts, stale>>
        /\ notify' = notify \ {p}
        /\ \/ p \in callbacks /\ switch' = With(switch, p, p \in powered) /\ greyed' = greyed \ {p}
           \/ UNCHANGED <<switch, greyed>>
    BY <1>8 DEF property_changed_or_error, history
  <2>2. switch' \subseteq items /\ greyed' \subseteq items
    BY <1>1, <2>1 DEF Table, CallbackHasItem, With
  <2> QED BY <1>1, <2>1, <2>2 DEF Table, CallbackHasItem, PositionCounts, TableOK
<1> QED BY <1>2, <1>3, <1>4, <1>5, <1>6, <1>7, <1>8 DEF MainLoop

LEMMA TableKeepsUser ==
    ASSUME Shape, User \/ \E s \in 1 .. serial : scan_callback(s)
    PROVE  TableOK'
<1>1. Table /\ CallbackHasItem /\ PositionCounts /\ Parts BY TypeParts DEF Shape
<1>2. CASE cui_popup_right_menu
  <2>1. PICK shown : /\ shown \in {{}, known} /\ items' = shown
                     /\ position' = position + Cardinality(shown)
                     /\ callbacks' = callbacks \cup shown /\ switch' = powered \cap shown
    BY <1>2 DEF cui_popup_right_menu
  <2>2. /\ UNCHANGED <<known, powered, notify, greyed, refused, adrift, ghosts, stale>>
        /\ ~open
    BY <1>2 DEF cui_popup_right_menu
  <2>3. items = {} /\ callbacks = {} /\ greyed = {}
    BY <1>1, <2>2 DEF Parts, CallbackHasItem, Table
  <2>4. position = 3 BY <1>1, <2>3, FS_EmptySet DEF PositionCounts
  <2> QED BY <1>1, <2>1, <2>2, <2>3, <2>4 DEF Table, CallbackHasItem, PositionCounts, TableOK
<1>3. CASE cui_popdown_right_menu
  <2>1. /\ callbacks' = callbacks \ items /\ delete_technology_items(items) /\ adrift' = {}
        /\ UNCHANGED <<known, powered, notify, refused, ghosts, stale>>
    BY <1>3 DEF cui_popdown_right_menu
  <2>2. /\ items' = items \ items /\ switch' = switch \ items /\ greyed' = greyed \ items
        /\ position' = 3 + Cardinality(items')
    BY <2>1, DeleteType
  <2>3. items' = {} /\ switch' = {} /\ greyed' = {} /\ callbacks' = {}
    BY <1>1, <2>1, <2>2 DEF Table, CallbackHasItem
  <2> QED BY <1>1, <2>1, <2>2, <2>3 DEF Table, CallbackHasItem, PositionCounts, TableOK
<1>4. ASSUME NEW p \in Paths, gtk_technology_button_release_event(p) PROVE TableOK'
  <2>1. /\ UNCHANGED <<known, powered, notify, callbacks, items, switch, position, refused,
                       adrift, ghosts, stale>>
        /\ p \in items /\ greyed' \in {greyed, greyed \cup {p}}
    BY <1>4 DEF gtk_technology_button_release_event
  <2>2. greyed' \subseteq items BY <1>1, <2>1 DEF Table
  <2> QED BY <1>1, <2>1, <2>2, TableKeeps DEF Table
<1>5. CASE \/ \E p \in Paths : connman_technology_scan(p)
           \/ \E s \in 1 .. serial : scan_callback(s)
  <2>1. UNCHANGED <<known, powered, notify, callbacks, items, switch, position, refused,
                    adrift, ghosts, stale, greyed>>
    BY <1>5 DEF connman_technology_scan, scan_callback, techVars, menuVars, history
  <2> QED BY <1>1, <2>1, TableKeeps DEF Table
<1> QED BY <1>2, <1>3, <1>4, <1>5 DEF User

LEMMA TableKeepsDaemon ==
    ASSUME Shape, Daemon
    PROVE  TableOK'
<1>1. Table /\ CallbackHasItem /\ PositionCounts BY TypeParts DEF Shape
<1>2. UNCHANGED <<techVars, menuVars, adrift>>
  BY DEF Daemon, DaemonAdd, DaemonRemove, DaemonToggle, DaemonServe, DaemonList,
         DaemonListError, DaemonSet, DaemonSetError, Serve, DaemonDown, DaemonUp, history
<1>3. ghosts' \subseteq Paths /\ stale' \subseteq Paths /\ refused' \subseteq Paths
  <2>1. ghosts \subseteq Paths /\ stale \subseteq Paths /\ refused \subseteq Paths
    BY <1>1 DEF Table
  <2>2. CASE \E p \in Paths : \/ \E on \in BOOLEAN : DaemonAdd(p, on)
                              \/ DaemonRemove(p) \/ DaemonToggle(p)
    BY <2>1, <2>2 DEF DaemonAdd, DaemonRemove, DaemonToggle, Toggled
  <2>3. CASE DaemonList \/ DaemonListError \/ DaemonDown \/ DaemonUp
    BY <2>1, <2>3 DEF DaemonList, DaemonListError, Serve, DaemonDown, DaemonUp, history
  <2>4. CASE DaemonSet \/ DaemonSetError
    <3>1. Head(outbox) \in ToDaemon /\ Head(outbox).type = "SetPowered"
      <4>1. outbox # <<>> /\ Head(outbox).type = "SetPowered" /\ outbox \in Seq(ToDaemon)
        BY <2>4 DEF Shape, TypeOK, DaemonSet, DaemonSetError, Serve
      <4> QED BY <4>1, QueueTail
    <3>2. Head(outbox).path \in Paths BY <3>1, CallFields
    <3> QED BY <2>1, <2>4, <3>2 DEF DaemonSet, DaemonSetError, Serve, Toggled
  <2> QED BY <2>2, <2>3, <2>4 DEF Daemon, DaemonServe
<1> QED BY <1>1, <1>2, <1>3 DEF Table, CallbackHasItem, PositionCounts, TableOK, techVars, menuVars

LEMMA PartsOK ==
    ASSUME Shape, Next
    PROVE  Parts'
<1>1. Parts BY DEF Shape
<1>2. CASE get_technologies_callback
  <2>1. PICK m \in Messages : /\ m = Head(inbox) /\ m.type = "technologies" /\ m.serial # 0
    <3>1. Head(inbox) \in Messages /\ Head(inbox) = inbox[1] /\ Len(inbox) >= 1
          /\ Head(inbox).type = "technologies" /\ Len(inbox) \in Nat
      BY <1>2, ReceiveType, QueueTail DEF Shape, TypeOK, get_technologies_callback
    <3>2. 1 \in 1 .. Len(inbox) BY <3>1
    <3>3. Head(inbox).serial \in 1 .. serial BY <3>1, <3>2 DEF Shape, Given, IsAnswer
    <3> QED BY <3>1, <3>3
  <2>2. CASE m.serial = call
    <3>1. techIf BY <1>1, <2>1, <2>2 DEF Parts
    <3>2. set' = TRUE /\ (~alive => outbox' = outbox)
      BY <1>2, <2>1, <2>2, OutboxAsks DEF get_technologies_callback, get_technologies_cb
    <3>3. UNCHANGED <<alive, techIf, menuCb, disabled, open, items, adrift>>
      BY <1>2 DEF get_technologies_callback, menuVars, history
    <3> QED BY <1>1, <3>1, <3>2, <3>3 DEF Parts
  <2>3. CASE m.serial # call
    BY <1>1, <1>2, <2>1, <2>3 DEF Parts, get_technologies_callback, callVars, menuVars, history
  <2> QED BY <2>2, <2>3
<1>3. CASE technology_added_cb
  <2>1. ~alive => outbox' = outbox
    BY <1>3, OutboxAsks DEF technology_added_cb, callVars
  <2>2. UNCHANGED <<alive, techIf, set, menuCb, disabled, open, adrift>>
    BY <1>3 DEF technology_added_cb, history
  <2>3. set => techIf /\ known' = known \cup {Head(inbox).path}
    BY <1>1, <1>3 DEF technology_added_cb, Parts
  <2>4. ~set => UNCHANGED <<known, items, call>> BY <1>3 DEF technology_added_cb, callVars
  <2>5. ~menuCb => UNCHANGED items BY <1>3 DEF technology_added_cb
  <2> QED BY <1>1, <2>1, <2>2, <2>3, <2>4, <2>5 DEF Parts
<1>4. CASE connman_up
  <2>1. ~alive => outbox' = outbox
    BY <1>4, OutboxAsks DEF connman_up, callVars
  <2> QED BY <1>1, <1>4, <2>1 DEF connman_up, Parts, techVars, menuVars
<1>5. CASE technology_removed_cb
  <2>1. UNCHANGED <<alive, techIf, set, menuCb, disabled, open, adrift, call, outbox>>
    BY <1>5 DEF technology_removed_cb, callVars, history
  <2>2. known' \subseteq known /\ items' \subseteq items
    BY <1>5 DEF technology_removed_cb, delete_technology_items, techVars
  <2> QED BY <1>1, <2>1, <2>2 DEF Parts
<1>6. CASE get_technologies_error \/ set_property_cb \/ property_changed_signal_cb
           \/ \E p \in Paths : property_changed_or_error(p)
  BY <1>1, <1>6 DEF Parts, get_technologies_error, set_property_cb,
        property_changed_signal_cb, property_changed_or_error, busVars, callVars, techVars,
        menuVars, history
<1>7. CASE connman_down
  BY <1>1, <1>7 DEF Parts, connman_down, menuVars
<1>8. CASE User \/ \E s \in 1 .. serial : scan_callback(s)
  <2>1. CASE cui_popup_right_menu
    BY <1>1, <2>1 DEF Parts, cui_popup_right_menu, busVars, callVars
  <2>2. CASE cui_popdown_right_menu
    BY <1>1, <2>2 DEF Parts, cui_popdown_right_menu, delete_technology_items, busVars, callVars
  <2>3. CASE \/ \E p \in Paths : gtk_technology_button_release_event(p)
             \/ \E p \in Paths : connman_technology_scan(p)
             \/ \E s \in 1 .. serial : scan_callback(s)
    <3>1. UNCHANGED <<alive, techIf, set, menuCb, disabled, open, items, known, adrift, call>>
      BY <2>3 DEF gtk_technology_button_release_event, connman_technology_scan, scan_callback,
            busVars, callVars, techVars, menuVars, history
    <3>2. ~alive => outbox' = outbox
      BY <2>3 DEF gtk_technology_button_release_event, connman_technology_scan, scan_callback,
            busVars, Sent
    <3> QED BY <1>1, <3>1, <3>2 DEF Parts
  <2> QED BY <1>8, <2>1, <2>2, <2>3 DEF User
<1>9. CASE Daemon
  <2>1. UNCHANGED <<techIf, set, menuCb, disabled, open, items, known, adrift, call>>
    BY <1>9 DEF Daemon, DaemonAdd, DaemonRemove, DaemonToggle, DaemonServe, DaemonList,
          DaemonListError, DaemonSet, DaemonSetError, Serve, DaemonDown, DaemonUp,
          callVars, techVars, menuVars, history
  <2>2. ~alive' => outbox' = <<>>
    BY <1>1, <1>9 DEF Parts, Daemon, DaemonAdd, DaemonRemove, DaemonToggle, DaemonServe, DaemonList,
          DaemonListError, DaemonSet, DaemonSetError, Serve, DaemonDown, DaemonUp
  <2> QED BY <1>1, <2>1, <2>2 DEF Parts
<1> QED BY <1>2, <1>3, <1>4, <1>5, <1>6, <1>7, <1>8, <1>9 DEF Next, MainLoop

LEMMA ShapeInit == Init => Shape
<1> SUFFICES ASSUME Init PROVE Shape OBVIOUS
<1>1. inbox \in Seq(Messages) /\ inbox[1] = Note("up") /\ Len(inbox) = 1
  BY MessageTypes DEF Init
<1>2. /\ TypeOK
  <2>1. Flags BY DEF Init, Flags
  <2>2. Queues BY <1>1 DEF Init, Queues
  <2>3. Table BY DEF Init, Table
  <2>4. Numbers BY DEF Init, Numbers
  <2>5. Counts BY ConstAssumption DEF Init, Counts, Bounds
  <2> QED BY <2>1, <2>2, <2>3, <2>4, <2>5, TypeParts
<1>3. Parts BY DEF Init, Parts
<1>4. Subsets /\ Given BY <1>1 DEF Init, Subsets, Given, Note, IsAnswer
<1>5. CallbackHasItem /\ PositionCounts
  BY FS_EmptySet DEF Init, CallbackHasItem, PositionCounts
<1> QED BY <1>2, <1>3, <1>4, <1>5 DEF Shape

LEMMA ShapeNext == Shape /\ [Next]_vars => Shape'
<1> SUFFICES ASSUME Shape, [Next]_vars PROVE Shape' OBVIOUS
<1>1. CASE Next
  <2>1. QueuesOK' BY <1>1, QueuesKeepMain, QueuesKeepUser, QueuesKeepDaemon DEF Next
  <2>2. TableOK' BY <1>1, TableKeepsMain, TableKeepsUser, TableKeepsDaemon DEF Next
  <2>3. Numbers' BY <1>1, NumbersOK
  <2>4. Flags' BY <1>1, FlagsOK
  <2>5. Counts'
    <3>1. items' \in SUBSET Paths BY <2>2 DEF TableOK, Table
    <3>2. 3 + Cardinality(items') \in Nat BY <3>1, PositionType
    <3> QED BY <1>1, <2>2, <3>2, CountsOK DEF Counts, TableOK, PositionCounts
  <2>6. TypeOK'
    BY <2>1, <2>2, <2>3, <2>4, <2>5
    DEF QueuesOK, TableOK, TypeOK, Flags, Queues, Table, Numbers, Counts
  <2>7. Parts' BY <1>1, PartsOK
  <2> QED BY <2>1, <2>2, <2>6, <2>7 DEF Shape, QueuesOK, TableOK
<1>2. CASE UNCHANGED vars
  <2>1. TypeOK'
    <3>1. Flags' BY <1>2, TypeParts DEF Shape, Flags, vars, busVars, menuVars, history
    <3>2. Queues' BY <1>2, TypeParts DEF Shape, Queues, vars, busVars
    <3>3. Table' BY <1>2, TypeParts DEF Shape, Table, vars, techVars, menuVars, history
    <3>4. Numbers' BY <1>2, TypeParts DEF Shape, Numbers, vars, techVars, callVars, scanVars
    <3>5. Counts' BY <1>2, TypeParts DEF Shape, Counts, vars, menuVars, history
    <3> QED
      BY <3>1, <3>2, <3>3, <3>4, <3>5
      DEF TypeOK, Flags, Queues, Table, Numbers, Counts
  <2>2. Parts' BY <1>2 DEF Shape, Parts, vars, busVars, callVars, techVars, menuVars, history
  <2>3. Subsets' /\ Given' BY <1>2 DEF Shape, Subsets, Given, vars, busVars, callVars
  <2>4. CallbackHasItem' /\ PositionCounts'
    BY <1>2 DEF Shape, CallbackHasItem, PositionCounts, vars, techVars, menuVars
  <2> QED BY <2>1, <2>2, <2>3, <2>4 DEF Shape
<1> QED BY <1>1, <1>2

(* The variables keep their types (lib/technology.c, src/right-menu.c): the *)
(* calls and messages are those of ConnMan, a switch belongs to an item, a  *)
(* notification to a technology of the table.                               *)
THEOREM TypeCorrect == Spec => []TypeOK
<1>1. Shape => TypeOK BY DEF Shape
<1> QED BY ShapeInit, ShapeNext, <1>1, PTL DEF Spec

-----------------------------------------------------------------------------
(* Scans *)

(* A step that leaves the scans alone. *)
LEMMA ScansStay ==
    ASSUME Scans, ScanForLive, UNCHANGED scanVars
    PROVE  Scans' /\ ScanForLive'
  BY DEF Scans, ScanForLive, scanVars

(* Freed technologies leave behind only scans that overlapped. *)
LEMMA ScansFreed ==
    ASSUME TypeOK, Scans, ScanForLive, NEW S \in SUBSET Paths, technology_free(S)
    PROVE  Scans' /\ ScanForLive'
<1>1. Scans'
  <2>1. ASSUME NEW p \in Paths
        PROVE  scanning'[p] = {} \/ (scanning'[p] = scanning[p] /\ scanCall'[p] = scanCall[p])
    BY DEF technology_free
  <2> QED BY <2>1 DEF Scans, technology_free
<1>2. ASSUME NEW s \in dangling' PROVE s \in overlapped'
  <2>1. s \in dangling \/ \E p \in S : s \in scanning[p] /\ s # scanCall[p]
    BY DEF technology_free
  <2> QED BY <2>1 DEF Scans, ScanForLive, technology_free
<1> QED BY <1>1, <1>2 DEF ScanForLive

LEMMA ScansNext ==
    ASSUME Shape, Scans, ScanForLive, [Next]_vars
    PROVE  Scans' /\ ScanForLive'
<1>1. TypeOK BY DEF Shape
<1>2. CASE UNCHANGED vars BY <1>2, ScansStay DEF vars
<1>3. CASE technology_removed_cb
  <2>1. CASE set
    <3>1. known \cap {Head(inbox).path} \in SUBSET Paths BY <1>1 DEF TypeOK
    <3> QED BY <1>1, <1>3, <2>1, <3>1, ScansFreed DEF technology_removed_cb
  <2>2. CASE ~set BY <1>3, <2>2, ScansStay DEF technology_removed_cb
  <2> QED BY <2>1, <2>2
<1>4. CASE connman_down
  <2>1. known \in SUBSET Paths BY <1>1 DEF TypeOK
  <2> QED BY <1>1, <1>4, <2>1, ScansFreed DEF connman_down
<1>5. ASSUME NEW s \in 1 .. serial, scan_callback(s)
      PROVE  Scans' /\ ScanForLive'
  <2>1. overlapped' = overlapped /\ dangling' \subseteq dangling
    BY <1>5 DEF scan_callback
  <2>2. CASE /\ UNCHANGED <<scanning, scanCall>>
    BY <2>1, <2>2 DEF Scans, ScanForLive
  <2>3. ASSUME NEW p \in Paths, s \in scanning[p],
               scanning' = [scanning EXCEPT ![p] = @ \ {s}],
               scanCall' = [scanCall EXCEPT ![p] = 0]
        PROVE  Scans'
    <3>1. scanning \in [Paths -> SUBSET (1 .. serial)] /\ scanCall \in [Paths -> 0 .. serial]
      BY <1>1 DEF TypeOK
    <3>2. ASSUME NEW r \in Paths, r # p
          PROVE  scanning'[r] = scanning[r] /\ scanCall'[r] = scanCall[r]
      BY <2>3, <3>1, <3>2
    <3>3. scanning'[p] = scanning[p] \ {s} BY <2>3, <3>1
    <3>4. \A r \in scanning'[p] : r \in overlapped BY <2>3, <3>3 DEF Scans
    <3> QED BY <2>1, <3>2, <3>4 DEF Scans
  <2> QED BY <1>5, <2>1, <2>2, <2>3 DEF scan_callback, ScanForLive
<1>6. ASSUME NEW p \in Paths, connman_technology_scan(p)
      PROVE  Scans' /\ ScanForLive'
  <2>1. /\ scanning \in [Paths -> SUBSET (1 .. serial)]
        /\ scanCall \in [Paths -> 0 .. serial]
    BY <1>1 DEF TypeOK
  <2>2. overlapped \subseteq overlapped' /\ dangling' = dangling
    BY <1>6 DEF connman_technology_scan
  <2>3. ASSUME NEW r \in Paths, r # p
        PROVE  scanning'[r] = scanning[r] /\ scanCall'[r] = scanCall[r]
    BY <1>6, <2>1, <2>3 DEF connman_technology_scan
  <2>4. scanning'[p] = scanning[p] \cup {serial + 1} /\ scanCall'[p] = serial + 1
    BY <1>6, <2>1 DEF connman_technology_scan
  <2>5. \A s \in scanning'[p] :
          s \in overlapped' \/ (scanning'[p] = {s} /\ scanCall'[p] = s)
    BY <1>6, <2>4 DEF connman_technology_scan
  <2> QED BY <2>2, <2>3, <2>5 DEF Scans, ScanForLive
<1>7. CASE \/ get_technologies_callback \/ get_technologies_error \/ set_property_cb
           \/ technology_added_cb \/ property_changed_signal_cb \/ connman_up
           \/ \E p \in Paths : property_changed_or_error(p)
           \/ cui_popup_right_menu \/ cui_popdown_right_menu
           \/ \E p \in Paths : gtk_technology_button_release_event(p)
           \/ Daemon
  <2>1. UNCHANGED scanVars
    BY <1>7 DEF get_technologies_callback, get_technologies_error, set_property_cb,
          technology_added_cb, property_changed_signal_cb, connman_up,
          property_changed_or_error, cui_popup_right_menu, cui_popdown_right_menu,
          gtk_technology_button_release_event, Daemon, DaemonAdd, DaemonRemove,
          DaemonToggle, DaemonServe, DaemonList, DaemonListError, DaemonSet,
          DaemonSetError, Serve, DaemonDown, DaemonUp
  <2> QED BY <2>1, ScansStay
<1> QED BY <1>2, <1>3, <1>4, <1>5, <1>6, <1>7 DEF Next, MainLoop, User

(* An answer to Scan finds its technology alive unless two Scan calls of    *)
(* that technology overlapped (connman_technology_scan and technology_free  *)
(* of lib/technology.c).                                                    *)
THEOREM ScanSafe == Spec => []ScanForLive
<1>1. Init => Scans /\ ScanForLive BY DEF Init, Scans, ScanForLive
<1>2. Shape /\ Scans /\ ScanForLive /\ [Next]_vars => Scans' /\ ScanForLive'
  BY ScansNext
<1> QED BY ShapeInit, ShapeNext, <1>1, <1>2, PTL DEF Spec

-----------------------------------------------------------------------------
(* Switches *)

(* A change of the power of some technologies that their items are told of. *)
LEMMA SwitchTold ==
    ASSUME SwitchFollows, NEW S, property_update(S), callbacks' = callbacks, switch' = switch,
           \A p \in callbacks \ S : p \in powered' <=> p \in powered
    PROVE  SwitchFollows'
  BY DEF SwitchFollows, property_update

LEMMA SwitchStays ==
    ASSUME SwitchFollows, callbacks' \subseteq callbacks,
           \A p \in callbacks' : /\ p \in switch' <=> p \in switch
                                 /\ p \in powered' <=> p \in powered
                                 /\ p \in notify => p \in notify'
    PROVE  SwitchFollows'
  BY DEF SwitchFollows

LEMMA SwitchNext ==
    ASSUME Shape, SwitchFollows, [Next]_vars
    PROVE  SwitchFollows'
<1>1. CASE get_technologies_callback
  <2>1. callbacks' = callbacks /\ switch' = switch
    BY <1>1 DEF get_technologies_callback, menuVars
  <2>2. CASE Head(inbox).serial = call
    <3>1. Head(inbox).on \subseteq Head(inbox).paths
      <4>1. inbox # <<>> /\ Head(inbox) = inbox[1] /\ 1 \in 1 .. Len(inbox)
            /\ inbox[1].type = "technologies"
        BY <1>1, ReceiveType, QueueTail DEF Shape, TypeOK, get_technologies_callback
      <4> QED BY <4>1 DEF Shape, Subsets
    <3> QED BY <1>1, <2>1, <2>2, <3>1, SwitchTold DEF get_technologies_callback, get_technologies_cb
  <2>3. CASE Head(inbox).serial # call
    BY <1>1, <2>1, <2>3, SwitchStays DEF get_technologies_callback
  <2> QED BY <2>2, <2>3
<1>2. CASE technology_added_cb
  <2>1. CASE ~set \/ ~menuCb
    <3>1. CASE ~set BY <1>2, <3>1, SwitchStays DEF technology_added_cb
    <3>2. CASE set /\ ~menuCb
      BY <1>2, <3>2, SwitchTold DEF technology_added_cb, With
    <3> QED BY <2>1, <3>1, <3>2
  <2>2. CASE set /\ menuCb
    BY <1>2, <2>2 DEF technology_added_cb, add_technology, With, property_update, SwitchFollows
  <2> QED BY <2>1, <2>2
<1>3. CASE technology_removed_cb
  <2>1. CASE set
    <3>1. callbacks' = callbacks \ {Head(inbox).path} /\ notify' = notify \ (known \cap {Head(inbox).path})
          /\ powered' = powered \ (known \cap {Head(inbox).path})
      BY <1>3, <2>1 DEF technology_removed_cb, technology_free
    <3>2. switch' \in {switch, switch \ {Head(inbox).path}}
      BY <1>3, <2>1 DEF technology_removed_cb, delete_technology_items
    <3> QED BY <3>1, <3>2, SwitchStays
  <2>2. CASE ~set BY <1>3, <2>2, SwitchStays DEF technology_removed_cb, techVars
  <2> QED BY <2>1, <2>2
<1>4. CASE property_changed_signal_cb
  <2>1. callbacks \subseteq known BY DEF Shape, CallbackHasItem
  <2>2. CASE Head(inbox).path \in known
    BY <1>4, <2>2, SwitchTold DEF property_changed_signal_cb, With, menuVars
  <2>3. CASE Head(inbox).path \notin known
    BY <1>4, <2>3, SwitchStays DEF property_changed_signal_cb, menuVars
  <2> QED BY <2>2, <2>3
<1>5. CASE connman_down BY <1>5 DEF connman_down, SwitchFollows
<1>6. ASSUME NEW p \in Paths, property_changed_or_error(p) PROVE SwitchFollows'
  BY <1>6 DEF property_changed_or_error, SwitchFollows, With
<1>7. CASE cui_popup_right_menu
  <2>1. callbacks = {} BY <1>7 DEF cui_popup_right_menu, Shape, CallbackHasItem, Parts
  <2> QED BY <1>7, <2>1 DEF cui_popup_right_menu, SwitchFollows
<1>8. CASE cui_popdown_right_menu
  <2>1. callbacks' = {} BY <1>8 DEF cui_popdown_right_menu, Shape, CallbackHasItem
  <2> QED BY <2>1 DEF SwitchFollows
<1>9. CASE \/ get_technologies_error \/ set_property_cb \/ connman_up
           \/ \E p \in Paths : gtk_technology_button_release_event(p)
           \/ \E p \in Paths : connman_technology_scan(p)
           \/ \E s \in 1 .. serial : scan_callback(s)
           \/ Daemon \/ UNCHANGED vars
  <2>1. UNCHANGED <<callbacks, switch, powered, notify>>
    BY <1>9 DEF get_technologies_error, set_property_cb, connman_up,
          gtk_technology_button_release_event, connman_technology_scan, scan_callback,
          Daemon, DaemonAdd, DaemonRemove, DaemonToggle, DaemonServe, DaemonList,
          DaemonListError, DaemonSet, DaemonSetError, Serve, DaemonDown, DaemonUp,
          techVars, menuVars, vars
  <2> QED BY <2>1, SwitchStays
<1> QED BY <1>1, <1>2, <1>3, <1>4, <1>5, <1>6, <1>7, <1>8, <1>9 DEF Next, MainLoop, User

-----------------------------------------------------------------------------
(* Removals.  Handling the first message leaves a queue of which the same   *)
(* is true, and so do messages at its end that do not bring p.              *)

LEMMA AbsentTail ==
    ASSUME NEW q \in Seq(Messages), q # <<>>, NEW c, NEW c2, NEW K, NEW K2, NEW p,
           NEW n \in 1 .. Len(q), Absent(q, c, K, p, n),
           \A j \in 2 .. Len(q) : Brings(q[j], c2, p) => Brings(q[j], c, p),
           p \in K2 => p \in K \/ Brings(q[1], c, p),
           Takes(q[1], p) => p \notin K2
    PROVE  Absent(Tail(q), c2, K2, p, n - 1)
<1>1. /\ Len(q) \in Nat /\ n \in Nat /\ n - 1 \in Nat
      /\ \A i \in 1 .. Len(q) - 1 : Tail(q)[i] = q[i + 1]
  BY QueueTail
<1>2. ASSUME NEW j \in 1 .. n - 1, Brings(Tail(q)[j], c2, p)
      PROVE  Brings(q[j + 1], c, p) /\ j + 1 \in 2 .. n
  <2>1. j \in 1 .. Len(q) - 1 /\ j + 1 \in 2 .. Len(q) /\ j + 1 \in 2 .. n BY <1>1
  <2> QED BY <1>1, <1>2, <2>1
<1>3. CASE p \notin K /\ \A j \in 1 .. n : ~Brings(q[j], c, p)
  <2>1. 1 \in 1 .. n BY <1>1
  <2>2. p \notin K2 BY <1>3, <2>1
  <2>3. \A j \in 1 .. n - 1 : ~Brings(Tail(q)[j], c2, p)
    <3>1. ASSUME NEW j \in 1 .. n - 1, Brings(Tail(q)[j], c2, p) PROVE FALSE
      <4>1. Brings(q[j + 1], c, p) /\ j + 1 \in 1 .. n BY <1>1, <1>2, <3>1
      <4> QED BY <4>1, <1>3
    <3> QED BY <3>1
  <2> QED BY <2>2, <2>3 DEF Absent
<1>4. ASSUME NEW k \in 1 .. n, Takes(q[k], p), \A j \in k + 1 .. n : ~Brings(q[j], c, p)
      PROVE  Absent(Tail(q), c2, K2, p, n - 1)
  <2>1. ASSUME NEW j \in k .. n - 1, j >= 1 PROVE ~Brings(Tail(q)[j], c2, p)
    <3>1. j \in 1 .. n - 1 /\ j + 1 \in k + 1 .. n BY <1>1
    <3> QED BY <1>2, <1>4, <3>1
  <2>2. CASE k = 1
    <3>1. p \notin K2 BY <1>4, <2>2
    <3>2. \A j \in 1 .. n - 1 : ~Brings(Tail(q)[j], c2, p) BY <1>1, <2>1, <2>2
    <3> QED BY <3>1, <3>2 DEF Absent
  <2>3. CASE k # 1
    <3>1. k - 1 \in 1 .. n - 1 /\ k - 1 \in 1 .. Len(q) - 1 /\ (k - 1) + 1 = k BY <1>1, <2>3
    <3>2. Takes(Tail(q)[k - 1], p) BY <1>1, <1>4, <3>1
    <3>3. \A j \in (k - 1) + 1 .. n - 1 : ~Brings(Tail(q)[j], c2, p)
      BY <1>1, <2>1, <3>1
    <3> QED BY <3>1, <3>2, <3>3 DEF Absent
  <2> QED BY <2>2, <2>3
<1> QED BY <1>3, <1>4 DEF Absent

LEMMA AbsentGrown ==
    ASSUME NEW q \in Seq(Messages), NEW q2 \in Seq(Messages), Grown(q, q2), NEW c, NEW K, NEW p,
           NEW n \in 0 .. Len(q), Absent(q, c, K, p, n)
    PROVE  Absent(q2, c, K, p, n)
<1>1. \A j \in 1 .. n : q2[j] = q[j] BY DEF Grown
<1>2. CASE p \notin K /\ \A j \in 1 .. n : ~Brings(q[j], c, p)
  BY <1>1, <1>2 DEF Absent
<1>3. ASSUME NEW k \in 1 .. n, Takes(q[k], p), \A j \in k + 1 .. n : ~Brings(q[j], c, p)
      PROVE  Absent(q2, c, K, p, n)
  <2>1. \A j \in k + 1 .. n : j \in 1 .. n OBVIOUS
  <2> QED BY <1>1, <1>3, <2>1 DEF Absent
<1> QED BY <1>2, <1>3 DEF Absent

LEMMA AbsentEnd ==
    ASSUME NEW q \in Seq(Messages), NEW q2 \in Seq(Messages), Grown(q, q2), NEW c, NEW K, NEW p,
           Absent(q, c, K, p, Len(q)),
           \A j \in Len(q) + 1 .. Len(q2) : ~Brings(q2[j], c, p)
    PROVE  Absent(q2, c, K, p, Len(q2))
<1>1. Len(q) \in Nat /\ Len(q2) \in Nat /\ Len(q) <= Len(q2)
      /\ \A j \in 1 .. Len(q) : q2[j] = q[j]
  BY DEF Grown
<1>2. CASE p \notin K /\ \A j \in 1 .. Len(q) : ~Brings(q[j], c, p)
  <2>1. \A j \in 1 .. Len(q2) : j \in 1 .. Len(q) \/ j \in Len(q) + 1 .. Len(q2) BY <1>1
  <2> QED BY <1>1, <1>2, <2>1 DEF Absent
<1>3. ASSUME NEW k \in 1 .. Len(q), Takes(q[k], p),
             \A j \in k + 1 .. Len(q) : ~Brings(q[j], c, p)
      PROVE  Absent(q2, c, K, p, Len(q2))
  <2>1. k \in 1 .. Len(q2) /\ \A j \in k + 1 .. Len(q2) :
          (j \in k + 1 .. Len(q) /\ j \in 1 .. Len(q)) \/ j \in Len(q) + 1 .. Len(q2)
    BY <1>1
  <2>2. \A j \in k + 1 .. Len(q2) : ~Brings(q2[j], c, p) BY <1>1, <1>3, <2>1
  <2> QED BY <1>1, <1>3, <2>1, <2>2 DEF Absent
<1> QED BY <1>2, <1>3 DEF Absent

Removals == AddsAbsent /\ GoneAbsent /\ FirstListLast

LEMMA RemovalsStay ==
    ASSUME Removals, UNCHANGED <<inbox, set, call, known, present, ghosts>>
    PROVE  Removals'
  BY DEF Removals, AddsAbsent, GoneAbsent, FirstListLast

(* What no longer is, or never was, the pending call is not answered.       *)
LEMMA NotLive ==
    ASSUME Shape, inbox # <<>>, inbox' = Tail(inbox),
           call' \in {0, serial + 1}
    PROVE  \A i \in 1 .. Len(inbox') : ~Live(inbox'[i], call')
<1>1. serial \in Nat BY DEF Shape, TypeOK
<1>2. ASSUME NEW i \in 1 .. Len(inbox'), Live(inbox'[i], call') PROVE FALSE
  <2>1. inbox'[i].serial \in 1 .. serial BY <1>2, InboxTail DEF Live, IsAnswer
  <2> QED BY <1>1, <1>2, <2>1 DEF Live
<1> QED BY <1>2

LEMMA FewerLive ==
    ASSUME Shape, inbox # <<>>, inbox' = Tail(inbox),
           call' \in {call, 0, serial + 1}, NEW p
    PROVE  \A j \in 2 .. Len(inbox) : Brings(inbox[j], call', p) => Brings(inbox[j], call, p)
<1>1. serial \in Nat BY DEF Shape, TypeOK
<1>2. ASSUME NEW j \in 2 .. Len(inbox), Live(inbox[j], call'), call' \in {0, serial + 1}
      PROVE  FALSE
  <2>1. j \in 1 .. Len(inbox) OBVIOUS
  <2>2. inbox[j].serial \in 1 .. serial BY <1>2, <2>1 DEF Live, IsAnswer, Shape, Given
  <2> QED BY <1>1, <1>2, <2>2 DEF Live
<1> QED BY <1>2 DEF Brings

(* The message of a technology that goes, or another one, is handled while  *)
(* the signals are watched.                                                 *)
LEMMA RemovalsTail ==
    ASSUME Shape, Removals, set, set', inbox # <<>>, inbox' = Tail(inbox),
           Head(inbox).type # "down", UNCHANGED <<present, ghosts>>,
           call' \in {call, 0, serial + 1},
           \A p \in known' : p \in known \/ Brings(Head(inbox), call, p),
           \A p \in Paths : Takes(Head(inbox), p) => p \notin known'
    PROVE  Removals'
<1>1. /\ inbox \in Seq(Messages) /\ Head(inbox) = inbox[1] /\ Len(inbox) \in Nat
      /\ Len(inbox) >= 1 /\ inbox' \in Seq(Messages) /\ Len(inbox') = Len(inbox) - 1
      /\ \A i \in 1 .. Len(inbox') : inbox'[i] = inbox[i + 1]
  BY QueueTail DEF Shape, TypeOK
<1>2. ASSUME NEW n \in 1 .. Len(inbox), NoDown(inbox', n - 1) PROVE NoDown(inbox, n)
  <2>1. ASSUME NEW j \in 1 .. n, j # 1 PROVE inbox[j].type # "down"
    <3>1. j - 1 \in 1 .. n - 1 /\ j - 1 \in 1 .. Len(inbox') /\ (j - 1) + 1 = j BY <1>1, <2>1
    <3> QED BY <1>1, <1>2, <3>1 DEF NoDown
  <2> QED BY <1>1, <2>1 DEF NoDown
<1>3. ASSUME NEW p \in Paths, NEW n \in 1 .. Len(inbox), Absent(inbox, call, known, p, n)
      PROVE  Absent(inbox', call', known', p, n - 1)
  <2>1. \A j \in 2 .. Len(inbox) : Brings(inbox[j], call', p) => Brings(inbox[j], call, p)
    BY FewerLive
  <2> QED BY <1>1, <1>3, <2>1, AbsentTail
<1>4. AddsAbsent'
  <2>1. ASSUME NEW i \in 1 .. Len(inbox'), inbox'[i].type = "TechnologyAdded",
               NoDown(inbox', i - 1), inbox'[i].path \notin ghosts'
        PROVE  Absent(inbox', call', known', inbox'[i].path, i - 1)
    <3>1. i + 1 \in 1 .. Len(inbox) /\ i \in 1 .. Len(inbox) /\ (i + 1) - 1 = i
          /\ inbox'[i] = inbox[i + 1]
      BY <1>1
    <3>2. NoDown(inbox, i) BY <1>2, <2>1, <3>1
    <3>3. Absent(inbox, call, known, inbox'[i].path, i)
      BY <2>1, <3>1, <3>2 DEF Removals, AddsAbsent
    <3>4. inbox'[i].path \in Paths BY <1>1, <2>1, MessageFields
    <3> QED BY <1>3, <3>1, <3>3, <3>4
  <2> QED BY <2>1 DEF AddsAbsent
<1>5. GoneAbsent'
  <2>1. ASSUME NoDown(inbox', Len(inbox')), NEW p \in Paths \ present', p \notin ghosts'
        PROVE  Absent(inbox', call', known', p, Len(inbox'))
    <3>1. Len(inbox) \in 1 .. Len(inbox) BY <1>1
    <3>2. NoDown(inbox, Len(inbox)) BY <1>1, <1>2, <2>1, <3>1
    <3>3. Absent(inbox, call, known, p, Len(inbox))
      BY <2>1, <3>2 DEF Removals, GoneAbsent
    <3> QED BY <1>1, <1>3, <3>1, <3>3
  <2> QED BY <2>1 DEF GoneAbsent
<1> QED BY <1>4, <1>5 DEF Removals, FirstListLast

(* The same before they are watched. *)
LEMMA RemovalsUnset ==
    ASSUME Shape, Removals, ~set, ~set', inbox # <<>>, inbox' = Tail(inbox),
           UNCHANGED <<present, ghosts>>, call' \in {call, 0, serial + 1}
    PROVE  Removals'
<1>1. CASE call' = call
  <2>1. /\ \A i \in 1 .. Len(inbox') : i + 1 \in 1 .. Len(inbox) /\ inbox'[i] = inbox[i + 1]
        /\ Len(inbox) \in Nat /\ Len(inbox') = Len(inbox) - 1
    BY QueueTail DEF Shape, TypeOK
  <2>2. ASSUME NEW i \in 1 .. Len(inbox'), Live(inbox'[i], call')
        PROVE  /\ inbox'[i].paths \subseteq present' \cup ghosts'
               /\ \A j \in i + 1 .. Len(inbox') :
                    inbox'[j].type \notin {"TechnologyAdded", "TechnologyRemoved", "PropertyChanged"}
    <3>1. /\ inbox[i + 1].paths \subseteq present \cup ghosts
          /\ \A j \in (i + 1) + 1 .. Len(inbox) :
               inbox[j].type \notin {"TechnologyAdded", "TechnologyRemoved", "PropertyChanged"}
      BY <1>1, <2>1, <2>2 DEF Removals, FirstListLast
    <3>2. \A j \in i + 1 .. Len(inbox') :
            j + 1 \in (i + 1) + 1 .. Len(inbox) /\ j \in 1 .. Len(inbox')
      BY <2>1
    <3> QED BY <2>1, <3>1, <3>2
  <2> QED BY <2>2 DEF Removals, AddsAbsent, GoneAbsent, FirstListLast
<1>2. CASE call' \in {0, serial + 1}
  BY <1>2, NotLive DEF Removals, AddsAbsent, GoneAbsent, FirstListLast
<1> QED BY <1>1, <1>2

(* The first list is taken: no signal is behind it. *)
LEMMA RemovalsSet ==
    ASSUME Shape, Removals, ~set, set', inbox # <<>>, inbox' = Tail(inbox),
           Live(Head(inbox), call), known' = Head(inbox).paths,
           UNCHANGED <<present, ghosts>>, call' = serial + 1
    PROVE  Removals'
<1>1. /\ Head(inbox) = inbox[1] /\ Len(inbox) \in Nat /\ 1 \in 1 .. Len(inbox)
      /\ \A i \in 1 .. Len(inbox') : i + 1 \in 2 .. Len(inbox) /\ inbox'[i] = inbox[i + 1]
      /\ Len(inbox') \in Nat
  BY QueueTail DEF Shape, TypeOK
<1>2. /\ known' \subseteq present \cup ghosts
      /\ \A j \in 1 + 1 .. Len(inbox) :
           inbox[j].type \notin {"TechnologyAdded", "TechnologyRemoved", "PropertyChanged"}
  BY <1>1 DEF Removals, FirstListLast
<1>3. \A i \in 1 .. Len(inbox') : inbox'[i].type # "TechnologyAdded" BY <1>1, <1>2
<1>4. \A i \in 1 .. Len(inbox') : ~Live(inbox'[i], call') BY NotLive
<1>5. AddsAbsent' BY <1>3 DEF AddsAbsent
<1>6. GoneAbsent' BY <1>2, <1>3, <1>4 DEF GoneAbsent, Absent, Brings
<1> QED BY <1>5, <1>6 DEF Removals, FirstListLast

(* New messages of the daemon: a technology added is one that was not       *)
(* there, what is not there is not brought, or goes with the last of them,  *)
(* and only a list comes unless the signals are watched.                    *)
LEMMA RemovalsGrow ==
    ASSUME Shape, Removals, NewTold, UNCHANGED <<set, call, known>>,
           ghosts \subseteq ghosts', present \cup ghosts \subseteq present' \cup ghosts',
           \A i \in Len(inbox) + 1 .. Len(inbox') :
             inbox'[i].type = "TechnologyAdded" =>
               i = Len(inbox) + 1 /\ inbox'[i].path \in Paths \ present,
           set => \A p \in Paths \ present' :
             \/ p \notin present /\ \A i \in Len(inbox) + 1 .. Len(inbox') :
                                      ~Brings(inbox'[i], call, p)
             \/ Len(inbox') = Len(inbox) + 1 /\ Takes(inbox'[Len(inbox) + 1], p),
           ~set => \A i \in Len(inbox) + 1 .. Len(inbox') :
             /\ inbox'[i].type \notin {"TechnologyAdded", "TechnologyRemoved", "PropertyChanged"}
             /\ Live(inbox'[i], call) => inbox'[i].paths \subseteq present'
    PROVE  Removals'
<1>1. /\ inbox \in Seq(Messages) /\ inbox' \in Seq(Messages) /\ Grown(inbox, inbox')
      /\ Len(inbox) \in Nat /\ Len(inbox') \in Nat /\ Len(inbox) <= Len(inbox')
      /\ \A i \in 1 .. Len(inbox) : inbox'[i] = inbox[i]
  BY DEF Shape, TypeOK, NewTold, Grown
<1>2. \A i \in 1 .. Len(inbox') : i \in 1 .. Len(inbox) \/ i \in Len(inbox) + 1 .. Len(inbox')
  BY <1>1
<1>3. ASSUME NEW n \in 0 .. Len(inbox), NoDown(inbox', n) PROVE NoDown(inbox, n)
  BY <1>1, <1>3 DEF NoDown
<1>4. ASSUME set PROVE AddsAbsent'
  <2>1. ASSUME NEW i \in 1 .. Len(inbox'), inbox'[i].type = "TechnologyAdded",
               NoDown(inbox', i - 1), inbox'[i].path \notin ghosts'
        PROVE  Absent(inbox', call, known, inbox'[i].path, i - 1)
    <3>1. i - 1 \in 0 .. Len(inbox) /\ (i \in 1 .. Len(inbox) \/ i = Len(inbox) + 1)
      BY <1>1, <1>2, <2>1
    <3>2. NoDown(inbox, i - 1) BY <1>3, <2>1, <3>1
    <3>3. Absent(inbox, call, known, inbox'[i].path, i - 1)
      <4>1. CASE i \in 1 .. Len(inbox)
        BY <1>1, <1>4, <2>1, <3>2, <4>1 DEF Removals, AddsAbsent
      <4>2. CASE i = Len(inbox) + 1
        <5>1. i \in Len(inbox) + 1 .. Len(inbox') /\ i - 1 = Len(inbox) BY <1>1, <4>2
        <5>2. inbox'[i].path \in Paths \ present BY <2>1, <5>1
        <5> QED BY <1>4, <2>1, <3>2, <5>1, <5>2 DEF Removals, GoneAbsent
      <4> QED BY <3>1, <4>1, <4>2
    <3> QED BY <1>1, <3>1, <3>3, AbsentGrown
  <2> QED BY <2>1 DEF AddsAbsent
<1>5. ASSUME set PROVE GoneAbsent'
  <2>1. ASSUME NoDown(inbox', Len(inbox')), NEW p \in Paths \ present', p \notin ghosts'
        PROVE  Absent(inbox', call, known, p, Len(inbox'))
    <3>1. CASE p \notin present /\ \A i \in Len(inbox) + 1 .. Len(inbox') :
                                     ~Brings(inbox'[i], call, p)
      <4>1. NoDown(inbox, Len(inbox)) BY <1>1, <2>1 DEF NoDown
      <4>2. Absent(inbox, call, known, p, Len(inbox))
        BY <1>5, <2>1, <3>1, <4>1 DEF Removals, GoneAbsent
      <4> QED BY <1>1, <3>1, <4>2, AbsentEnd
    <3>2. CASE Len(inbox') = Len(inbox) + 1 /\ Takes(inbox'[Len(inbox) + 1], p)
      <4>1. Len(inbox') \in 1 .. Len(inbox') /\ Takes(inbox'[Len(inbox')], p)
            /\ \A j \in Len(inbox') + 1 .. Len(inbox') : FALSE
        BY <1>1, <3>2
      <4> QED BY <4>1 DEF Absent
    <3> QED BY <1>5, <3>1, <3>2
  <2> QED BY <2>1 DEF GoneAbsent
<1>6. ASSUME ~set PROVE FirstListLast'
  <2>1. ASSUME NEW i \in 1 .. Len(inbox'), Live(inbox'[i], call)
        PROVE  /\ inbox'[i].paths \subseteq present' \cup ghosts'
               /\ \A j \in i + 1 .. Len(inbox') :
                    inbox'[j].type \notin {"TechnologyAdded", "TechnologyRemoved", "PropertyChanged"}
    <3>1. inbox'[i].paths \subseteq present' \cup ghosts'
      BY <1>1, <1>2, <1>6, <2>1 DEF Removals, FirstListLast
    <3>2. ASSUME NEW j \in i + 1 .. Len(inbox')
          PROVE  inbox'[j].type \notin {"TechnologyAdded", "TechnologyRemoved", "PropertyChanged"}
      <4>1. CASE j \in Len(inbox) + 1 .. Len(inbox') BY <1>6, <4>1
      <4>2. CASE j \notin Len(inbox) + 1 .. Len(inbox')
        <5>1. j \in i + 1 .. Len(inbox) /\ i \in 1 .. Len(inbox) /\ j \in 1 .. Len(inbox)
          BY <1>1, <4>2
        <5> QED BY <1>1, <1>6, <2>1, <5>1 DEF Removals, FirstListLast
      <4> QED BY <4>1, <4>2
    <3> QED BY <3>1, <3>2
  <2> QED BY <2>1 DEF FirstListLast
<1> QED BY <1>4, <1>5, <1>6 DEF Removals, AddsAbsent, GoneAbsent, FirstListLast

LEMMA RemovalsMain ==
    ASSUME Shape, Removals, MainLoop
    PROVE  Removals'
<1>1. TypeOK /\ Parts BY DEF Shape
<1>2. CASE get_technologies_callback
  <2>1. /\ inbox # <<>> /\ inbox' = Tail(inbox) /\ Head(inbox).type = "technologies"
        /\ UNCHANGED <<present, ghosts>>
    BY <1>2 DEF get_technologies_callback, Receive, history
  <2>2. CASE Head(inbox).serial # call
    <3>1. UNCHANGED <<set, call, known>>
      BY <1>2, <2>2 DEF get_technologies_callback, callVars
    <3>2. CASE set BY <2>1, <3>1, <3>2, RemovalsTail DEF Takes
    <3>3. CASE ~set BY <2>1, <3>1, <3>3, RemovalsUnset
    <3> QED BY <3>2, <3>3
  <2>3. CASE Head(inbox).serial = call
    <3>1. Live(Head(inbox), call) BY <2>1, <2>3 DEF Live
    <3>2. known' = known \cup Head(inbox).paths
      BY <1>2, <2>3 DEF get_technologies_callback, get_technologies_cb
    <3>3. CASE set
      <4>1. set' /\ call' = 0
        BY <1>2, <2>3, <3>3 DEF get_technologies_callback, get_technologies_cb
      <4> QED BY <2>1, <3>1, <3>2, <3>3, <4>1, RemovalsTail DEF Takes, Brings
    <3>4. CASE ~set
      <4>1. set' = TRUE /\ call' = serial + 1
        BY <1>2, <2>3, <3>4 DEF get_technologies_callback, get_technologies_cb,
                                __connman_manager_get_technologies
      <4>2. known' = Head(inbox).paths BY <1>1, <3>2, <3>4 DEF Parts
      <4> QED BY <2>1, <3>1, <3>4, <4>1, <4>2, RemovalsSet
    <3> QED BY <3>3, <3>4
  <2> QED BY <2>2, <2>3
<1>3. CASE get_technologies_error \/ set_property_cb \/ property_changed_signal_cb
  <2>1. /\ inbox # <<>> /\ inbox' = Tail(inbox)
        /\ Head(inbox).type \in {"result", "PropertyChanged"}
        /\ UNCHANGED <<present, ghosts, set, known>> /\ call' \in {call, 0}
    BY <1>3 DEF get_technologies_error, set_property_cb, property_changed_signal_cb,
          Receive, history, techVars, callVars
  <2>2. CASE set BY <2>1, <2>2, RemovalsTail DEF Takes
  <2>3. CASE ~set BY <2>1, <2>3, RemovalsUnset
  <2> QED BY <2>2, <2>3
<1>4. CASE technology_added_cb
  <2>1. /\ inbox # <<>> /\ inbox' = Tail(inbox) /\ Head(inbox).type = "TechnologyAdded"
        /\ UNCHANGED <<present, ghosts, set>>
    BY <1>4 DEF technology_added_cb, Receive, history
  <2>2. CASE set
    <3>1. known' = known \cup {Head(inbox).path} /\ call' = serial + 1
      BY <1>4, <2>2 DEF technology_added_cb, __connman_manager_get_technologies
    <3> QED BY <2>1, <2>2, <3>1, RemovalsTail DEF Takes, Brings
  <2>3. CASE ~set
    <3>1. call' = call BY <1>4, <2>3 DEF technology_added_cb, callVars
    <3> QED BY <2>1, <2>3, <3>1, RemovalsUnset
  <2> QED BY <2>2, <2>3
<1>5. CASE technology_removed_cb
  <2>1. /\ inbox # <<>> /\ inbox' = Tail(inbox) /\ Head(inbox).type = "TechnologyRemoved"
        /\ UNCHANGED <<present, ghosts, set, call>>
    BY <1>5 DEF technology_removed_cb, Receive, history, callVars
  <2>2. CASE set
    <3>1. known' = known \ {Head(inbox).path} BY <1>5, <2>2 DEF technology_removed_cb
    <3> QED BY <2>1, <2>2, <3>1, RemovalsTail DEF Takes
  <2>3. CASE ~set BY <2>1, <2>3, RemovalsUnset
  <2> QED BY <2>2, <2>3
<1>6. CASE connman_up
  <2>1. /\ inbox # <<>> /\ inbox' = Tail(inbox) /\ Head(inbox).type = "up"
        /\ UNCHANGED <<present, ghosts, set, known>>
    BY <1>6 DEF connman_up, Receive, techVars
  <2>2. call' \in {call, serial + 1}
    BY <1>6 DEF connman_up, callVars, __connman_manager_get_technologies
  <2>3. CASE set BY <2>1, <2>2, <2>3, RemovalsTail DEF Takes
  <2>4. CASE ~set BY <2>1, <2>2, <2>4, RemovalsUnset
  <2> QED BY <2>3, <2>4
<1>7. CASE connman_down
  <2>1. inbox # <<>> /\ inbox' = Tail(inbox) /\ set' = FALSE /\ call' = 0
    BY <1>7 DEF connman_down, Receive
  <2> QED BY <2>1, NotLive DEF Removals, AddsAbsent, GoneAbsent, FirstListLast
<1>8. ASSUME NEW p \in Paths, property_changed_or_error(p) PROVE Removals'
  BY <1>8, RemovalsStay DEF property_changed_or_error, busVars, callVars, history
<1> QED BY <1>2, <1>3, <1>4, <1>5, <1>6, <1>7, <1>8 DEF MainLoop

LEMMA RemovalsDaemon ==
    ASSUME Shape, Removals, Daemon
    PROVE  Removals'
<1>1. TypeOK /\ Parts BY DEF Shape
<1>2. UNCHANGED <<set, call, known>>
  BY DEF Daemon, DaemonAdd, DaemonRemove, DaemonToggle, DaemonServe, DaemonList,
        DaemonListError, DaemonSet, DaemonSetError, Serve, DaemonDown, DaemonUp,
        callVars, techVars
<1>3. ASSUME NEW p \in Paths, NEW on \in BOOLEAN, DaemonAdd(p, on) PROVE Removals'
  <2> DEFINE m == Signal("TechnologyAdded", p, on)
  <2>1. m \in Messages /\ m.type = "TechnologyAdded" /\ m.path = p
    BY MessageTypes DEF Signal
  <2>2. inbox' = (IF set THEN Append(inbox, m) ELSE inbox) /\ p \notin present
        /\ present' = present \cup {p} /\ ghosts' = ghosts
    BY <1>3 DEF DaemonAdd
  <2> HIDE DEF m
  <2>3. CASE set
    <3>1. NewTold /\ Len(inbox') = Len(inbox) + 1 /\ Len(inbox) \in Nat
          /\ inbox'[Len(inbox) + 1] = m
      BY <2>1, <2>2, <2>3, NewTolds DEF IsAnswer
    <3>2. \A i \in Len(inbox) + 1 .. Len(inbox') : i = Len(inbox) + 1 BY <3>1
    <3>3. \A q \in Paths \ present' : q # p /\ q \notin present BY <2>2
    <3> QED BY <1>2, <2>1, <2>2, <2>3, <3>1, <3>2, <3>3, RemovalsGrow DEF Brings, Live
  <2>4. CASE ~set
    <3>1. NewTold /\ \A i \in Len(inbox) + 1 .. Len(inbox') : FALSE
      BY <1>1, <2>2, <2>4, NoneTold DEF TypeOK
    <3> QED BY <1>2, <2>2, <2>4, <3>1, RemovalsGrow
  <2> QED BY <2>3, <2>4
<1>4. ASSUME NEW p \in Paths, DaemonRemove(p) PROVE Removals'
  <2> DEFINE m == Signal("TechnologyRemoved", p, FALSE)
  <2>1. m \in Messages /\ m.type = "TechnologyRemoved" /\ m.path = p
    BY MessageTypes DEF Signal
  <2>2. inbox' = (IF set THEN Append(inbox, m) ELSE inbox) /\ present' = present \ {p}
        /\ ghosts' = IF ~set /\ Listed(p) THEN ghosts \cup {p} ELSE ghosts
    BY <1>4 DEF DaemonRemove
  <2> HIDE DEF m
  <2>3. CASE set
    <3>1. NewTold /\ Len(inbox') = Len(inbox) + 1 /\ Len(inbox) \in Nat
          /\ inbox'[Len(inbox) + 1] = m
      BY <2>1, <2>2, <2>3, NewTolds DEF IsAnswer
    <3>2. \A i \in Len(inbox) + 1 .. Len(inbox') : i = Len(inbox) + 1 BY <3>1
    <3>3. Grown(inbox, inbox') /\ inbox' \in Seq(Messages) /\ inbox \in Seq(Messages)
          /\ \A i \in 1 .. Len(inbox) : inbox'[i] = inbox[i]
      BY <1>1, <3>1 DEF NewTold, Grown, TypeOK
    <3>4. AddsAbsent'
      <4>1. ASSUME NEW i \in 1 .. Len(inbox'), inbox'[i].type = "TechnologyAdded",
                   NoDown(inbox', i - 1), inbox'[i].path \notin ghosts'
            PROVE  Absent(inbox', call, known, inbox'[i].path, i - 1)
        <5>1. i \in 1 .. Len(inbox) /\ i - 1 \in 0 .. Len(inbox) BY <2>1, <3>1, <4>1
        <5>2. NoDown(inbox, i - 1) BY <3>1, <3>3, <4>1, <5>1 DEF NoDown
        <5>3. Absent(inbox, call, known, inbox'[i].path, i - 1)
          BY <2>2, <2>3, <3>3, <4>1, <5>1, <5>2 DEF Removals, AddsAbsent
        <5> QED BY <3>3, <5>1, <5>3, AbsentGrown
      <4> QED BY <1>2, <4>1 DEF AddsAbsent
    <3>5. GoneAbsent'
      <4>1. ASSUME NoDown(inbox', Len(inbox')), NEW q \in Paths \ present', q \notin ghosts'
            PROVE  Absent(inbox', call, known, q, Len(inbox'))
        <5>1. CASE q = p
          <6>1. Len(inbox') \in 1 .. Len(inbox') /\ Takes(inbox'[Len(inbox')], q)
                /\ \A j \in Len(inbox') + 1 .. Len(inbox') : FALSE
            BY <2>1, <3>1, <5>1 DEF Takes
          <6> QED BY <6>1 DEF Absent
        <5>2. CASE q # p
          <6>1. NoDown(inbox, Len(inbox)) BY <3>1, <3>3, <4>1 DEF NoDown
          <6>2. Absent(inbox, call, known, q, Len(inbox))
            BY <2>2, <2>3, <4>1, <5>2, <6>1 DEF Removals, GoneAbsent
          <6>3. \A j \in Len(inbox) + 1 .. Len(inbox') : ~Brings(inbox'[j], call, q)
            BY <2>1, <3>1, <3>2 DEF Brings, Live
          <6> QED BY <3>3, <6>2, <6>3, AbsentEnd
        <5> QED BY <5>1, <5>2
      <4> QED BY <1>2, <4>1 DEF GoneAbsent
    <3> QED BY <1>2, <2>3, <3>4, <3>5 DEF Removals, FirstListLast
  <2>4. CASE ~set
    <3>1. inbox' = inbox BY <2>2, <2>4
    <3>2. ASSUME NEW i \in 1 .. Len(inbox), Live(inbox[i], call)
          PROVE  inbox[i].paths \subseteq present' \cup ghosts'
      <4>1. inbox[i].paths \subseteq present \cup ghosts
        BY <2>4, <3>2 DEF Removals, FirstListLast
      <4>2. p \in inbox[i].paths => Listed(p)
        <5>1. i \in DOMAIN inbox BY <1>1, <3>2 DEF TypeOK
        <5> QED BY <3>2, <5>1 DEF Listed, Live
      <4> QED BY <2>2, <2>4, <4>1, <4>2
    <3> QED BY <1>2, <2>4, <3>1, <3>2 DEF Removals, AddsAbsent, GoneAbsent, FirstListLast
  <2> QED BY <2>3, <2>4
<1>5. ASSUME NewTold, present' = present, ghosts' = ghosts,
             \A i \in Len(inbox) + 1 .. Len(inbox') :
               \/ inbox'[i].type \in {"result", "up", "down"}
               \/ inbox'[i].type = "technologies" /\ inbox'[i].paths = present
               \/ inbox'[i].type = "PropertyChanged" /\ set
      PROVE  Removals'
  BY <1>2, <1>5, RemovalsGrow DEF Brings, Live
<1>6. ASSUME NEW p \in Paths, DaemonToggle(p) PROVE Removals'
  <2>1. /\ NewTold /\ Len(inbox) \in Nat
        /\ Len(inbox') = IF p \in known THEN Len(inbox) + 1 ELSE Len(inbox)
        /\ \A i \in Len(inbox) + 1 .. Len(inbox') :
             inbox'[i] = Signal("PropertyChanged", p, p \notin power)
    BY <1>6, ToggleTold
  <2>2. \A i \in Len(inbox) + 1 .. Len(inbox') : inbox'[i].type = "PropertyChanged" /\ set
    <3>1. CASE p \in known BY <1>1, <2>1, <3>1 DEF Parts, Signal
    <3>2. CASE p \notin known BY <2>1, <3>2
    <3> QED BY <3>1, <3>2
  <2>3. present' = present /\ ghosts' = ghosts BY <1>6 DEF DaemonToggle
  <2> QED BY <1>5, <2>1, <2>2, <2>3
<1>7. CASE DaemonServe
  <2>1. /\ present' = present /\ ghosts' = ghosts
        /\ outbox # <<>> /\ outbox' = Tail(outbox) /\ serial' = serial
    BY <1>7 DEF DaemonServe, DaemonList, DaemonListError, DaemonSet, DaemonSetError, Serve, callVars
  <2>2. Head(outbox).serial \in 1 .. serial /\ Head(outbox) \in ToDaemon /\ serial \in Nat
    BY <1>1, <2>1, OutboxTail DEF TypeOK
  <2>3. CASE DaemonList
    <3>1. Technologies(Head(outbox).serial) \in Messages
      BY <1>1, <2>2, ListType DEF TypeOK
    <3>2. /\ NewTold /\ Len(inbox') = Len(inbox) + 1 /\ Len(inbox) \in Nat
          /\ inbox'[Len(inbox) + 1] = Technologies(Head(outbox).serial)
      BY <2>2, <2>3, <3>1, <1>1, NewTolds DEF DaemonList, Technologies, IsAnswer, TypeOK
    <3>3. \A i \in Len(inbox) + 1 .. Len(inbox') :
            inbox'[i].type = "technologies" /\ inbox'[i].paths = present
      BY <3>2 DEF Technologies
    <3> QED BY <1>5, <2>1, <3>2, <3>3
  <2>4. CASE DaemonListError \/ DaemonSetError
    <3>1. Result(Head(outbox).serial, FALSE) \in Messages
      <4>1. Head(outbox).serial \in Nat /\ FALSE \in BOOLEAN BY <2>2
      <4> QED BY <4>1, MessageTypes
    <3>2. /\ NewTold /\ Len(inbox') = Len(inbox) + 1 /\ Len(inbox) \in Nat
          /\ inbox'[Len(inbox) + 1] = Result(Head(outbox).serial, FALSE)
      BY <2>2, <2>4, <3>1, NewTolds DEF DaemonListError, DaemonSetError, Result, IsAnswer
    <3>3. \A i \in Len(inbox) + 1 .. Len(inbox') : inbox'[i].type = "result"
      BY <3>2 DEF Result
    <3> QED BY <1>5, <2>1, <3>2, <3>3
  <2>5. CASE DaemonSet
    <3>1. /\ NewTold
          /\ \A i \in Len(inbox) + 1 .. Len(inbox') :
                \/ inbox'[i] = Result(Head(outbox).serial, TRUE)
                \/ inbox'[i] = Signal("PropertyChanged", Head(outbox).path,
                                     Head(outbox).path \notin power)
      BY <2>5, SetTold
    <3>2. CASE set
      <4>1. \A i \in Len(inbox) + 1 .. Len(inbox') :
              inbox'[i].type = "result" \/ inbox'[i].type = "PropertyChanged"
        BY <3>1 DEF Result, Signal
      <4> QED BY <1>5, <2>1, <3>1, <3>2, <4>1
    <3>3. CASE ~set
      <4>1. Head(outbox).path \notin known BY <1>1, <3>3 DEF Parts
      <4>2. ToggledSignal(Head(outbox).path) = <<>> BY <4>1 DEF ToggledSignal
      <4>3. <<Result(Head(outbox).serial, TRUE)>> \in Seq(Messages)
            /\ Result(Head(outbox).serial, TRUE) \in Messages
        <5>1. Head(outbox).serial \in Nat /\ TRUE \in BOOLEAN BY <2>2
        <5> DEFINE r == Result(Head(outbox).serial, TRUE)
        <5>2. r \in Messages BY <5>1, MessageTypes
        <5>3. <<r>> \in Seq(Messages)
          <6> HIDE DEF r, Messages
          <6> QED BY <5>2
        <5> QED BY <5>2, <5>3
      <4>4. inbox' = Append(inbox, Result(Head(outbox).serial, TRUE))
        <5> DEFINE r == Result(Head(outbox).serial, TRUE)
        <5>1. inbox' = inbox \o <<>> \o <<r>> \/ inbox' = inbox \o <<r>> \o <<>>
          BY <2>5, <4>2 DEF DaemonSet
        <5>2. inbox \in Seq(Messages) /\ <<r>> \in Seq(Messages) BY <1>1, <4>3 DEF TypeOK
        <5> HIDE DEF r, Messages
        <5>3. inbox \o <<>> = inbox /\ (inbox \o <<r>>) \o <<>> = inbox \o <<r>>
              /\ inbox \o <<r>> = Append(inbox, r)
          BY <5>2
        <5> QED BY <5>1, <5>3 DEF r
      <4>5. /\ NewTold /\ Len(inbox') = Len(inbox) + 1 /\ Len(inbox) \in Nat
            /\ inbox'[Len(inbox) + 1] = Result(Head(outbox).serial, TRUE)
        BY <2>2, <4>3, <4>4, NewTolds DEF Result, IsAnswer
      <4>6. \A i \in Len(inbox) + 1 .. Len(inbox') : inbox'[i].type = "result"
        BY <4>5 DEF Result
      <4> QED BY <1>5, <2>1, <4>5, <4>6
    <3> QED BY <3>2, <3>3
  <2> QED BY <1>7, <2>3, <2>4, <2>5 DEF DaemonServe
<1>8. CASE DaemonDown \/ DaemonUp
  <2>1. \E t \in {"up", "down"} : inbox' = Append(inbox, Note(t))
    BY <1>8 DEF DaemonDown, DaemonUp
  <2>2. present' = present /\ ghosts' = ghosts BY <1>8 DEF DaemonDown, DaemonUp, history
  <2>3. PICK t \in {"up", "down"} : inbox' = Append(inbox, Note(t)) BY <2>1
  <2>4. Note(t) \in Messages /\ Note(t).type = t BY <2>3, MessageTypes DEF Note
  <2>5. /\ NewTold /\ Len(inbox') = Len(inbox) + 1 /\ Len(inbox) \in Nat
        /\ inbox'[Len(inbox) + 1] = Note(t)
    BY <2>3, <2>4, NewTolds DEF IsAnswer
  <2>6. \A i \in Len(inbox) + 1 .. Len(inbox') : inbox'[i].type = t BY <2>4, <2>5
  <2> QED BY <1>5, <2>2, <2>3, <2>5, <2>6
<1> QED BY <1>3, <1>4, <1>6, <1>7, <1>8 DEF Daemon

LEMMA RemovalsNext ==
    ASSUME Shape, Removals, [Next]_vars
    PROVE  Removals'
<1>1. CASE User \/ (\E s \in 1 .. serial : scan_callback(s)) \/ UNCHANGED vars
  <2>1. UNCHANGED <<inbox, set, call, known, present, ghosts>>
    BY <1>1 DEF User, cui_popup_right_menu, cui_popdown_right_menu,
          gtk_technology_button_release_event, connman_technology_scan, scan_callback, vars,
          busVars, callVars, techVars, history
  <2> QED BY <2>1, RemovalsStay
<1> QED BY <1>1, RemovalsMain, RemovalsDaemon DEF Next

-----------------------------------------------------------------------------
(* Items *)

LEMMA ItemsNext ==
    ASSUME Shape, Removals, ItemsFollow, [Next]_vars
    PROVE  ItemsFollow'
<1>1. TypeOK /\ Parts /\ CallbackHasItem BY DEF Shape
<1>2. CASE technology_added_cb
  <2>1. adrift' = adrift /\ ghosts' = ghosts BY <1>2 DEF technology_added_cb, history
  <2>2. CASE set /\ menuCb
    <3> DEFINE p == Head(inbox).path
    <3>1. items' = items \cup {p}
          /\ callbacks' = IF p \in items THEN callbacks \ {p} ELSE callbacks \cup {p}
      BY <1>2, <2>2 DEF technology_added_cb, add_technology
    <3>2. p \notin known \/ p \in ghosts
      <4>1. /\ Head(inbox) = inbox[1] /\ 1 \in 1 .. Len(inbox)
            /\ inbox[1].type = "TechnologyAdded"
        BY <1>1, <1>2, ReceiveType, QueueTail DEF TypeOK, technology_added_cb
      <4>2. NoDown(inbox, 1 - 1) BY DEF NoDown
      <4>3. p \in ghosts \/ Absent(inbox, call, known, p, 1 - 1)
        BY <2>2, <4>1, <4>2 DEF Removals, AddsAbsent
      <4> QED BY <4>3 DEF Absent
    <3>3. p \in items => p \in adrift \cup ghosts
      BY <1>1, <3>2 DEF ItemsFollow, CallbackHasItem
    <3> HIDE DEF p
    <3> QED BY <2>1, <3>1, <3>3 DEF ItemsFollow
  <2>3. CASE ~(set /\ menuCb)
    <3>1. UNCHANGED <<items, callbacks>> BY <1>2, <2>3 DEF technology_added_cb
    <3> QED BY <2>1, <3>1 DEF ItemsFollow
  <2> QED BY <2>2, <2>3
<1>3. CASE technology_removed_cb
  <2>1. adrift' = adrift /\ ghosts' = ghosts BY <1>3 DEF technology_removed_cb, history
  <2>2. CASE set /\ menuCb
    BY <1>3, <2>1, <2>2 DEF technology_removed_cb, delete_technology_items, ItemsFollow
  <2>3. CASE set /\ ~menuCb
    BY <1>1, <1>3, <2>1, <2>3 DEF technology_removed_cb, Parts, ItemsFollow
  <2>4. CASE ~set
    BY <1>3, <2>1, <2>4 DEF technology_removed_cb, techVars, ItemsFollow
  <2> QED BY <2>2, <2>3, <2>4
<1>4. CASE connman_down BY <1>4 DEF connman_down, menuVars, ItemsFollow
<1>5. CASE cui_popup_right_menu BY <1>5 DEF cui_popup_right_menu, ItemsFollow
<1>6. CASE cui_popdown_right_menu
  BY <1>6 DEF cui_popdown_right_menu, delete_technology_items, ItemsFollow
<1>7. CASE \/ get_technologies_callback \/ get_technologies_error \/ set_property_cb
           \/ property_changed_signal_cb \/ connman_up
           \/ \E p \in Paths : property_changed_or_error(p)
           \/ \E p \in Paths : gtk_technology_button_release_event(p)
           \/ \E p \in Paths : connman_technology_scan(p)
           \/ \E s \in 1 .. serial : scan_callback(s)
           \/ UNCHANGED vars
  <2>1. UNCHANGED <<items, callbacks, adrift, ghosts>>
    BY <1>7 DEF get_technologies_callback, get_technologies_error, set_property_cb,
          property_changed_signal_cb, connman_up, property_changed_or_error,
          gtk_technology_button_release_event, connman_technology_scan, scan_callback,
          techVars, menuVars, history, vars
  <2> QED BY <2>1 DEF ItemsFollow
<1>8. CASE Daemon
  <2>1. UNCHANGED <<items, callbacks, adrift>> /\ ghosts \subseteq ghosts'
    BY <1>8 DEF Daemon, DaemonAdd, DaemonRemove, DaemonToggle, DaemonServe, DaemonList,
          DaemonListError, DaemonSet, DaemonSetError, Serve, DaemonDown, DaemonUp,
          techVars, menuVars, history
  <2> QED BY <2>1 DEF ItemsFollow
<1> QED BY <1>2, <1>3, <1>4, <1>5, <1>6, <1>7, <1>8 DEF Next, MainLoop, User

(* Items, their callbacks and their technologies belong together through    *)
(* all additions and removals (right-menu.c, lib/technology.c): what is     *)
(* added was not in the table, or the user interface missed its removal.    *)
THEOREM MenuCorrect == Spec => []MenuConsistent
<1>1. Init => Removals /\ ItemsFollow
  <2> SUFFICES ASSUME Init PROVE Removals /\ ItemsFollow OBVIOUS
  <2>1. ~Live(Note("up"), call) BY DEF Live, Note
  <2>2. \A i \in 1 .. Len(inbox) : inbox[i] = Note("up") BY DEF Init
  <2>3. FirstListLast BY <2>1, <2>2 DEF FirstListLast
  <2> QED BY <2>3 DEF Init, Removals, AddsAbsent, GoneAbsent, ItemsFollow
<1>2. Shape /\ Removals /\ ItemsFollow /\ [Next]_vars => Removals' /\ ItemsFollow'
  BY RemovalsNext, ItemsNext
<1>3. Shape /\ ItemsFollow => MenuConsistent BY DEF Shape, MenuConsistent
<1> QED BY ShapeInit, ShapeNext, <1>1, <1>2, <1>3, PTL DEF Spec

-----------------------------------------------------------------------------
(* Greyed switches *)

(* The daemon only adds messages, and tells that it is back when it is.     *)
LEMMA DaemonTells ==
    ASSUME Shape, Daemon
    PROVE  /\ NewTold
           /\ ~alive' => \A i \in Len(inbox) + 1 .. Len(inbox') : inbox'[i].type # "up"
<1>1. TypeOK BY DEF Shape
<1>2. ASSUME inbox' = inbox
      PROVE  NewTold /\ \A i \in Len(inbox) + 1 .. Len(inbox') : inbox'[i].type # "up"
  BY <1>1, <1>2, NoneTold DEF TypeOK
<1>3. ASSUME NEW m \in Messages, inbox' = Append(inbox, m), m.type # "up",
             IsAnswer(m) => m.serial \in 1 .. serial,
             m.type = "technologies" => m.on \subseteq m.paths
      PROVE  NewTold /\ \A i \in Len(inbox) + 1 .. Len(inbox') : inbox'[i].type # "up"
  BY <1>3, NewTolds
<1>4. ASSUME NEW p \in Paths, NEW on \in BOOLEAN, DaemonAdd(p, on) \/ DaemonRemove(p)
      PROVE  NewTold /\ \A i \in Len(inbox) + 1 .. Len(inbox') : inbox'[i].type # "up"
  <2>1. PICK t \in {"TechnologyAdded", "TechnologyRemoved"}, b \in BOOLEAN :
            inbox' = inbox \/ inbox' = Append(inbox, Signal(t, p, b))
    BY <1>4 DEF DaemonAdd, DaemonRemove
  <2>2. Signal(t, p, b) \in Messages /\ Signal(t, p, b).type = t
    BY MessageTypes DEF Signal
  <2> HIDE DEF Signal
  <2> QED BY <1>2, <1>3, <2>1, <2>2 DEF IsAnswer
<1>5. ASSUME NEW p \in Paths, DaemonToggle(p)
      PROVE  NewTold /\ \A i \in Len(inbox) + 1 .. Len(inbox') : inbox'[i].type # "up"
  <2>1. NewTold BY <1>5, ToggleTold
  <2>2. \A i \in Len(inbox) + 1 .. Len(inbox') :
          inbox'[i] = Signal("PropertyChanged", p, p \notin power)
    BY <1>5, ToggleTold
  <2>3. Signal("PropertyChanged", p, p \notin power).type = "PropertyChanged" BY DEF Signal
  <2> QED BY <2>1, <2>2, <2>3
<1>6. CASE DaemonServe
  <2>1. outbox # <<>> /\ outbox' = Tail(outbox) /\ serial' = serial
    BY <1>6 DEF DaemonServe, DaemonList, DaemonListError, DaemonSet, DaemonSetError,
                Serve, callVars
  <2>2. Head(outbox).serial \in 1 .. serial /\ serial \in Nat
    BY <1>1, <2>1, OutboxTail DEF TypeOK
  <2>3. CASE DaemonList
    <3>1. Technologies(Head(outbox).serial) \in Messages
      BY <1>1, <2>2, ListType DEF TypeOK
    <3> QED BY <1>1, <1>3, <2>2, <2>3, <3>1 DEF DaemonList, Technologies, IsAnswer, TypeOK
  <2>4. CASE DaemonListError \/ DaemonSetError
    <3>1. Result(Head(outbox).serial, FALSE) \in Messages
      <4>1. Head(outbox).serial \in Nat /\ FALSE \in BOOLEAN BY <2>2
      <4> QED BY <4>1, MessageTypes
    <3> QED BY <1>3, <2>2, <2>4, <3>1 DEF DaemonListError, DaemonSetError, Result, IsAnswer
  <2>5. CASE DaemonSet
    BY <2>5, SetTold DEF Result, Signal
  <2> QED BY <1>6, <2>3, <2>4, <2>5 DEF DaemonServe
<1>7. CASE DaemonDown
  BY <1>3, <1>7, MessageTypes DEF DaemonDown, Note, IsAnswer
<1>8. CASE DaemonUp
  <2>1. NewTold BY <1>8, MessageTypes, NewTolds DEF DaemonUp, Note, IsAnswer
  <2> QED BY <1>8, <2>1 DEF DaemonUp
<1> QED BY <1>4, <1>5, <1>6, <1>7, <1>8 DEF Daemon

(* A handler of a message takes the first.                                  *)
LEMMA MainTakes ==
    ASSUME Shape, MainLoop
    PROVE  \/ inbox' = inbox /\ \E p \in Paths : property_changed_or_error(p)
           \/ inbox # <<>> /\ inbox' = Tail(inbox)
  BY DEF MainLoop, get_technologies_callback, get_technologies_error, set_property_cb,
         technology_added_cb, technology_removed_cb, property_changed_signal_cb,
         connman_up, connman_down, property_changed_or_error, Receive, busVars

(* The loss of the daemon is told, and nothing behind it says it is back.   *)
LEMMA EndToldNext ==
    ASSUME Shape, EndTold, [Next]_vars
    PROVE  EndTold'
<1>1. TypeOK BY DEF Shape
<1>2. ASSUME UNCHANGED <<inbox, alive, techIf>> PROVE EndTold'
  BY <1>2 DEF EndTold
<1>3. CASE UNCHANGED vars \/ User \/ \E s \in 1 .. serial : scan_callback(s)
  <2>1. UNCHANGED <<inbox, alive, techIf>>
    BY <1>3 DEF vars, busVars, User, cui_popup_right_menu, cui_popdown_right_menu,
          gtk_technology_button_release_event, connman_technology_scan, scan_callback
  <2> QED BY <2>1, <1>2
<1>4. CASE MainLoop
  <2>1. alive' = alive
    BY <1>4 DEF MainLoop, get_technologies_callback, get_technologies_error, set_property_cb,
         technology_added_cb, technology_removed_cb, property_changed_signal_cb,
         connman_up, connman_down, property_changed_or_error, busVars
  <2>2. ASSUME NEW p \in Paths, property_changed_or_error(p) PROVE EndTold'
    BY <1>2, <2>2 DEF property_changed_or_error, busVars
  <2>3. CASE inbox # <<>> /\ inbox' = Tail(inbox)
    <3>1. /\ Len(inbox) \in Nat /\ Head(inbox) = inbox[1] /\ Len(inbox) >= 1
          /\ Len(inbox') = Len(inbox) - 1
          /\ \A i \in 1 .. Len(inbox') : i + 1 \in 1 .. Len(inbox) /\ inbox'[i] = inbox[i + 1]
      BY <1>1, <2>3, QueueTail DEF TypeOK
    <3>2. techIf' = techIf \/ Head(inbox).type \in {"up", "down"}
      BY <1>4 DEF MainLoop, get_technologies_callback, get_technologies_error,
         set_property_cb, technology_added_cb, technology_removed_cb,
         property_changed_signal_cb, connman_up, connman_down, property_changed_or_error,
         Receive
    <3>3. Head(inbox).type = "down" => techIf' = FALSE
      <4>1. inbox' # inbox BY <3>1
      <4>2. MainLoop /\ \A p \in Paths : ~property_changed_or_error(p)
        BY <1>4, <4>1 DEF property_changed_or_error, busVars
      <4> QED
        BY <4>2 DEF MainLoop, get_technologies_callback, get_technologies_error,
           set_property_cb, technology_added_cb, technology_removed_cb,
           property_changed_signal_cb, connman_up, connman_down, Receive
    <3>4. ASSUME ~alive, ~techIf, \A i \in 1 .. Len(inbox) : inbox[i].type # "up"
          PROVE  EndTold'
      BY <3>1, <3>2, <3>3, <3>4 DEF EndTold
    <3>5. ASSUME ~alive, NEW j \in 1 .. Len(inbox), inbox[j].type = "down",
                 \A i \in j + 1 .. Len(inbox) : inbox[i].type # "up"
          PROVE  EndTold'
      <4>1. CASE j = 1
        <5>1. \A i \in 1 .. Len(inbox') : i + 1 \in j + 1 .. Len(inbox) BY <3>1, <4>1
        <5> QED BY <3>1, <3>3, <3>5, <4>1, <5>1 DEF EndTold
      <4>2. CASE j # 1
        <5>1. j - 1 \in 1 .. Len(inbox') /\ (j - 1) + 1 = j BY <3>1, <4>2
        <5>2. inbox'[j - 1].type = "down" BY <3>1, <3>5, <5>1
        <5>3. \A i \in (j - 1) + 1 .. Len(inbox') :
                i \in 1 .. Len(inbox') /\ i + 1 \in j + 1 .. Len(inbox)
          BY <3>1, <4>2
        <5>4. \A i \in (j - 1) + 1 .. Len(inbox') : inbox'[i].type # "up"
          BY <3>1, <3>5, <5>3
        <5> QED BY <5>1, <5>2, <5>4 DEF EndTold
      <4> QED BY <4>1, <4>2
    <3> QED BY <2>1, <3>4, <3>5 DEF EndTold
  <2> QED BY <1>4, <2>2, <2>3, MainTakes
<1>5. CASE Daemon
  <2>1. /\ NewTold /\ Len(inbox) \in Nat /\ Len(inbox') \in Nat
        /\ ~alive' => \A i \in Len(inbox) + 1 .. Len(inbox') : inbox'[i].type # "up"
    BY <1>1, <1>5, DaemonTells DEF NewTold, TypeOK
  <2>2. techIf' = techIf
    BY <1>5 DEF Daemon, DaemonAdd, DaemonRemove, DaemonToggle, DaemonServe, DaemonList,
          DaemonListError, DaemonSet, DaemonSetError, Serve, DaemonDown, DaemonUp
  <2>3. /\ Len(inbox) <= Len(inbox') /\ \A i \in 1 .. Len(inbox) : inbox'[i] = inbox[i]
        /\ \A i \in 1 .. Len(inbox') : i \in 1 .. Len(inbox) \/ i \in Len(inbox) + 1 .. Len(inbox')
    BY <2>1 DEF NewTold, Grown
  <2>4. ASSUME ~alive, ~alive' PROVE EndTold'
    <3>1. ASSUME ~techIf, \A i \in 1 .. Len(inbox) : inbox[i].type # "up" PROVE EndTold'
      BY <2>1, <2>2, <2>3, <2>4, <3>1 DEF EndTold
    <3>2. ASSUME NEW j \in 1 .. Len(inbox), inbox[j].type = "down",
                 \A i \in j + 1 .. Len(inbox) : inbox[i].type # "up"
          PROVE  EndTold'
      <4>1. j \in 1 .. Len(inbox') /\ inbox'[j].type = "down" BY <2>1, <2>3, <3>2
      <4>2. ASSUME NEW i \in j + 1 .. Len(inbox') PROVE inbox'[i].type # "up"
        <5>1. CASE i \in Len(inbox) + 1 .. Len(inbox') BY <2>1, <2>4, <5>1
        <5>2. CASE i \notin Len(inbox) + 1 .. Len(inbox')
          <6>1. i \in j + 1 .. Len(inbox) /\ i \in 1 .. Len(inbox) BY <2>1, <5>2
          <6> QED BY <2>3, <3>2, <6>1
        <5> QED BY <5>1, <5>2
      <4> QED BY <4>1, <4>2 DEF EndTold
    <3> QED BY <2>4, <3>1, <3>2 DEF EndTold
  <2>5. ASSUME alive, ~alive' PROVE EndTold'
    <3>1. inbox' = Append(inbox, Note("down"))
      BY <1>5, <2>5 DEF Daemon, DaemonAdd, DaemonRemove, DaemonToggle, DaemonServe, DaemonList,
          DaemonListError, DaemonSet, DaemonSetError, Serve, DaemonDown, DaemonUp
    <3>2. Note("down") \in Messages /\ Note("down").type = "down" BY MessageTypes DEF Note
    <3>3. inbox'[Len(inbox) + 1].type = "down" /\ Len(inbox') = Len(inbox) + 1
      BY <1>1, <3>1, <3>2, QueueAppend DEF TypeOK
    <3>4. Len(inbox') \in 1 .. Len(inbox') /\ \A i \in Len(inbox') + 1 .. Len(inbox') : FALSE
      BY <2>1, <3>3
    <3> QED BY <3>3, <3>4 DEF EndTold
  <2> QED BY <2>4, <2>5 DEF EndTold
<1> QED BY <1>3, <1>4, <1>5 DEF Next

(* What is asked or told of p stays so until it is handled.                 *)
LEMMA PendingTail ==
    ASSUME NEW q \in Seq(ToDaemon), q # <<>>, NEW p, Pending(q, p),
           ~(q[1].type = "SetPowered" /\ q[1].path = p)
    PROVE  Pending(Tail(q), p)
<1>1. /\ Len(q) \in Nat /\ Len(Tail(q)) = Len(q) - 1
      /\ \A i \in 1 .. Len(q) - 1 : Tail(q)[i] = q[i + 1]
  BY QueueTail
<1>2. PICK i \in 1 .. Len(q) : q[i].type = "SetPowered" /\ q[i].path = p BY DEF Pending
<1>3. i - 1 \in 1 .. Len(q) - 1 /\ (i - 1) + 1 = i BY <1>1, <1>2
<1> QED BY <1>1, <1>2, <1>3 DEF Pending

LEMMA TellingTail ==
    ASSUME NEW q \in Seq(Messages), q # <<>>, NEW p, Telling(q, p),
           ~(q[1].type = "PropertyChanged" /\ q[1].path = p), q[1].type # "down"
    PROVE  Telling(Tail(q), p)
<1>1. /\ Len(q) \in Nat /\ Len(Tail(q)) = Len(q) - 1
      /\ \A i \in 1 .. Len(q) - 1 : Tail(q)[i] = q[i + 1]
  BY QueueTail
<1>2. PICK i \in 1 .. Len(q) : \/ q[i].type = "PropertyChanged" /\ q[i].path = p
                               \/ q[i].type = "down"
  BY DEF Telling
<1>3. i - 1 \in 1 .. Len(q) - 1 /\ (i - 1) + 1 = i BY <1>1, <1>2
<1> QED BY <1>1, <1>2, <1>3 DEF Telling

LEMMA PendingGrown ==
    ASSUME NEW q \in Seq(ToDaemon), NEW q2 \in Seq(ToDaemon), Grown(q, q2), NEW p, Pending(q, p)
    PROVE  Pending(q2, p)
<1>1. Len(q) \in Nat /\ Len(q2) \in Nat OBVIOUS
<1> QED BY <1>1 DEF Pending, Grown

LEMMA TellingGrown ==
    ASSUME NEW q \in Seq(Messages), NEW q2 \in Seq(Messages), Grown(q, q2), NEW p, Telling(q, p)
    PROVE  Telling(q2, p)
<1>1. Len(q) \in Nat /\ Len(q2) \in Nat OBVIOUS
<1> QED BY <1>1 DEF Telling, Grown

(* What was waited for before the step is waited for behind it.             *)
LEMMA WaitsFrom ==
    ASSUME Shape, GreyedWaits, greyed' \subseteq greyed,
           \A p \in greyed' : p \in refused \cup adrift \cup ghosts \cup notify
                => \/ p \in refused' \cup adrift' \cup ghosts' \cup notify'
                   \/ Pending(outbox', p) \/ Telling(inbox', p),
           \A p \in greyed' : Pending(outbox, p)
                => \/ p \in refused' \cup adrift' \cup ghosts' \cup notify'
                   \/ Pending(outbox', p) \/ Telling(inbox', p),
           \A p \in greyed' : Telling(inbox, p)
                => \/ p \in refused' \cup adrift' \cup ghosts' \cup notify'
                   \/ Pending(outbox', p) \/ Telling(inbox', p)
    PROVE  GreyedWaits'
  BY DEF GreyedWaits

(* An answer or a list is handled: calls may be sent, nothing is taken.     *)
LEMMA WaitsMain ==
    ASSUME Shape, ItemsFollow, SwitchFollows, GreyedWaits, MainLoop
    PROVE  GreyedWaits'
<1>1. TypeOK /\ Parts /\ CallbackHasItem BY DEF Shape
<1>2. /\ \A p : Pending(outbox, p) => Pending(outbox', p)
      /\ outbox \in Seq(ToDaemon) /\ inbox \in Seq(Messages)
  <2>1. outbox \in Seq(ToDaemon) /\ inbox \in Seq(Messages) BY <1>1 DEF TypeOK
  <2>2. outbox' = outbox \/ __connman_manager_get_technologies
    BY DEF MainLoop, get_technologies_callback, get_technologies_cb, get_technologies_error,
           set_property_cb, technology_added_cb, technology_removed_cb,
           property_changed_signal_cb, connman_up, connman_down, property_changed_or_error,
           busVars, callVars
  <2>3. ASSUME __connman_manager_get_technologies, NEW p, Pending(outbox, p)
        PROVE  Pending(outbox', p)
    BY <2>1, <2>3, OutboxAsks, PendingGrown
  <2> QED BY <2>1, <2>2, <2>3
<1>3. ASSUME inbox # <<>>, inbox' = Tail(inbox), Head(inbox).type # "down", NEW p,
             Telling(inbox, p), ~(Head(inbox).type = "PropertyChanged" /\ Head(inbox).path = p)
      PROVE  Telling(inbox', p)
  <2>1. Head(inbox) = inbox[1] BY <1>2, <1>3, QueueTail
  <2> QED BY <1>2, <1>3, <2>1, TellingTail
<1>4. CASE get_technologies_callback \/ get_technologies_error \/ set_property_cb \/ connman_up
  <2>1. /\ UNCHANGED <<greyed, refused, adrift, ghosts>> /\ notify \subseteq notify'
        /\ inbox # <<>> /\ inbox' = Tail(inbox)
        /\ Head(inbox).type \notin {"down", "PropertyChanged"}
    BY <1>4 DEF get_technologies_callback, get_technologies_cb, get_technologies_error,
          set_property_cb, connman_up, property_update, techVars, menuVars, history, Receive
  <2> QED BY <1>2, <1>3, <2>1, WaitsFrom
<1>5. CASE technology_added_cb
  <2>1. /\ UNCHANGED <<refused, adrift, ghosts>> /\ notify \subseteq notify'
        /\ inbox # <<>> /\ inbox' = Tail(inbox) /\ greyed' \subseteq greyed
        /\ Head(inbox).type \notin {"down", "PropertyChanged"}
    BY <1>5 DEF technology_added_cb, add_technology, property_update, history, Receive
  <2> QED BY <1>2, <1>3, <2>1, WaitsFrom
<1>6. CASE technology_removed_cb
  <2>1. /\ UNCHANGED <<refused, adrift, ghosts>>
        /\ inbox # <<>> /\ inbox' = Tail(inbox) /\ greyed' \subseteq greyed
        /\ Head(inbox).type \notin {"down", "PropertyChanged"}
    BY <1>6 DEF technology_removed_cb, delete_technology_items, history, Receive
  <2>2. notify' = notify \/ notify' = notify \ (known \cap {Head(inbox).path})
    BY <1>6 DEF technology_removed_cb, technology_free, techVars
  <2>3. ASSUME NEW p \in greyed', p \in notify PROVE p \in notify' \cup adrift'
    <3>1. CASE set /\ menuCb
      <4>1. p # Head(inbox).path
        BY <1>6, <2>3, <3>1 DEF technology_removed_cb, delete_technology_items
      <4> QED BY <2>2, <2>3, <4>1
    <3>2. CASE ~menuCb
      <4>1. p \in items BY <1>1, <2>1, <2>3 DEF TypeOK
      <4> QED BY <1>1, <2>1, <3>2, <4>1 DEF Parts
    <3>3. CASE ~set BY <1>6, <2>3, <3>3 DEF technology_removed_cb, techVars
    <3> QED BY <3>1, <3>2, <3>3
  <2> QED BY <1>2, <1>3, <2>1, <2>3, WaitsFrom
<1>7. CASE property_changed_signal_cb
  <2>1. /\ UNCHANGED <<greyed, refused, adrift, ghosts>>
        /\ inbox # <<>> /\ inbox' = Tail(inbox) /\ Head(inbox).type # "down"
        /\ notify \subseteq notify'
    BY <1>7 DEF property_changed_signal_cb, property_update, menuVars, history, Receive
  <2>2. ASSUME NEW p \in greyed, Telling(inbox, p)
        PROVE  p \in adrift \cup ghosts \cup notify' \/ Telling(inbox', p)
    <3>1. CASE p = Head(inbox).path
      <4>1. p \in items BY <1>1, <2>2 DEF TypeOK
      <4>2. p \in callbacks => p \in notify'
        BY <1>1, <1>7, <3>1 DEF CallbackHasItem, property_changed_signal_cb, property_update
      <4> QED BY <4>1, <4>2 DEF ItemsFollow
    <3>2. CASE p # Head(inbox).path BY <1>3, <2>1, <2>2, <3>2
    <3> QED BY <3>1, <3>2
  <2> QED BY <1>2, <2>1, <2>2, WaitsFrom
<1>8. CASE connman_down
  <2>1. greyed' = greyed /\ adrift' = items BY <1>8 DEF connman_down, menuVars
  <2>2. greyed \subseteq items BY <1>1 DEF TypeOK
  <2> QED BY <2>1, <2>2 DEF GreyedWaits
<1>9. ASSUME NEW p \in Paths, property_changed_or_error(p) PROVE GreyedWaits'
  <2>1. /\ UNCHANGED <<refused, adrift, ghosts, inbox, outbox>> /\ notify' = notify \ {p}
        /\ greyed' \subseteq greyed /\ (p \in callbacks => p \notin greyed')
    BY <1>9 DEF property_changed_or_error, busVars, history
  <2>2. p \in greyed' => p \in adrift \cup ghosts
    BY <1>1, <2>1 DEF TypeOK, ItemsFollow
  <2> QED BY <2>1, <2>2, WaitsFrom
<1> QED BY <1>4, <1>5, <1>6, <1>7, <1>8, <1>9 DEF MainLoop

LEMMA WaitsUser ==
    ASSUME Shape, ItemsFollow, SwitchFollows, EndTold, GreyedWaits,
           User \/ \E s \in 1 .. serial : scan_callback(s)
    PROVE  GreyedWaits'
<1>1. TypeOK /\ Parts /\ CallbackHasItem BY DEF Shape
<1>2. outbox \in Seq(ToDaemon) /\ inbox \in Seq(Messages) /\ serial \in Nat BY <1>1 DEF TypeOK
<1>3. CASE cui_popup_right_menu
  <2>1. greyed' = {} BY <1>1, <1>3 DEF cui_popup_right_menu, TypeOK, Parts
  <2> QED BY <2>1 DEF GreyedWaits
<1>4. CASE cui_popdown_right_menu
  <2>1. greyed' = {}
    BY <1>1, <1>4 DEF cui_popdown_right_menu, delete_technology_items, TypeOK
  <2> QED BY <2>1 DEF GreyedWaits
<1>5. CASE \/ \E p \in Paths : connman_technology_scan(p)
           \/ \E s \in 1 .. serial : scan_callback(s)
  <2>1. UNCHANGED <<greyed, refused, adrift, ghosts, notify, outbox, inbox>>
    BY <1>5 DEF connman_technology_scan, scan_callback, busVars, techVars, menuVars, history
  <2> QED BY <2>1 DEF GreyedWaits
<1>6. ASSUME NEW p \in Paths, gtk_technology_button_release_event(p) PROVE GreyedWaits'
  <2>1. UNCHANGED <<refused, adrift, ghosts, notify, inbox>> /\ p \in items
    BY <1>6 DEF gtk_technology_button_release_event
  <2>2. PICK on \in BOOLEAN : on = (p \notin switch) OBVIOUS
  <2>3. \/ outbox' = Sent(SetPowered(p, on, serial + 1)) /\ serial' = serial + 1
        \/ outbox' = outbox
    BY <1>6, <2>2 DEF gtk_technology_button_release_event
  <2>4. SetPowered(p, on, serial + 1) \in ToDaemon
        /\ SetPowered(p, on, serial + 1).serial = serial + 1
        /\ SetPowered(p, on, serial + 1).type = "SetPowered"
        /\ SetPowered(p, on, serial + 1).path = p
    <3>1. serial + 1 \in Nat BY <1>2
    <3>2. SetPowered(p, on, serial + 1) \in ToDaemon BY <3>1, MessageTypes
    <3> QED BY <3>2 DEF SetPowered
  <2>5. \A q : Pending(outbox, q) => Pending(outbox', q)
    <3>1. ASSUME outbox' = Sent(SetPowered(p, on, serial + 1)), serial' = serial + 1
          PROVE  outbox' \in Seq(ToDaemon) /\ Grown(outbox, outbox')
      <4> HIDE DEF SetPowered
      <4> QED BY <2>4, <3>1, OutboxGrows
    <3> QED BY <1>2, <2>3, <3>1, PendingGrown
  <2>6. ASSUME p \in greyed', p \notin greyed
        PROVE  p \in adrift \cup ghosts \cup notify \/ Pending(outbox', p) \/ Telling(inbox, p)
    <3>1. p \in known BY <1>6, <2>6 DEF gtk_technology_button_release_event
    <3>2. CASE outbox' = Sent(SetPowered(p, on, serial + 1)) /\ serial' = serial + 1
      <4>1. CASE alive
        <5>1. Len(outbox') = Len(outbox) + 1 /\ outbox'[Len(outbox) + 1] = SetPowered(p, on, serial + 1)
          <6> HIDE DEF SetPowered
          <6> QED BY <2>4, <3>2, <4>1, OutboxGrows
        <5>2. Len(outbox) + 1 \in 1 .. Len(outbox') BY <1>2, <5>1
        <5> QED BY <2>4, <5>1, <5>2 DEF Pending
      <4>2. CASE ~alive
        <5>1. techIf BY <1>1, <3>1 DEF Parts
        <5> QED BY <4>2, <5>1 DEF EndTold, Telling
      <4> QED BY <4>1, <4>2
    <3>3. CASE ~(outbox' = Sent(SetPowered(p, on, serial + 1)) /\ serial' = serial + 1)
      <4>1. (p \in powered) = (p \notin switch)
        BY <1>6, <2>2, <2>6, <3>1, <3>3 DEF gtk_technology_button_release_event
      <4>2. p \in callbacks => p \in notify BY <4>1 DEF SwitchFollows
      <4> QED BY <2>1, <4>2 DEF ItemsFollow
    <3> QED BY <3>2, <3>3
  <2>7. greyed' \subseteq greyed \cup {p} BY <1>6 DEF gtk_technology_button_release_event
  <2> QED BY <2>1, <2>5, <2>6, <2>7 DEF GreyedWaits
<1> QED BY <1>3, <1>4, <1>5, <1>6 DEF User

LEMMA WaitsDaemon ==
    ASSUME Shape, ItemsFollow, GreyedWaits, Daemon
    PROVE  GreyedWaits'
<1>1. TypeOK /\ Parts /\ CallbackHasItem BY DEF Shape
<1>2. outbox \in Seq(ToDaemon) /\ inbox \in Seq(Messages) /\ inbox' \in Seq(Messages)
      /\ \A p : Telling(inbox, p) => Telling(inbox', p)
  <2>1. outbox \in Seq(ToDaemon) /\ inbox \in Seq(Messages) BY <1>1 DEF TypeOK
  <2>2. inbox' \in Seq(Messages) /\ Grown(inbox, inbox') BY DaemonTells DEF NewTold
  <2> QED BY <2>1, <2>2, TellingGrown
<1>3. UNCHANGED <<greyed, adrift, notify>> /\ ghosts \subseteq ghosts'
  BY DEF Daemon, DaemonAdd, DaemonRemove, DaemonToggle, DaemonServe, DaemonList,
        DaemonListError, DaemonSet, DaemonSetError, Serve, DaemonDown, DaemonUp,
        techVars, menuVars, history
<1>4. ASSUME NEW p \in Paths, NEW on \in BOOLEAN,
             DaemonAdd(p, on) \/ DaemonRemove(p) \/ DaemonToggle(p)
      PROVE  GreyedWaits'
  <2>1. outbox' = outbox /\ refused' = refused
    BY <1>4 DEF DaemonAdd, DaemonRemove, DaemonToggle
  <2> QED BY <1>2, <1>3, <2>1, WaitsFrom
<1>5. CASE DaemonServe
  <2>1. outbox # <<>> /\ outbox' = Tail(outbox) /\ Head(outbox) = outbox[1]
    <3>1. outbox # <<>> /\ outbox' = Tail(outbox)
      BY <1>5 DEF DaemonServe, DaemonList, DaemonListError, DaemonSet, DaemonSetError, Serve
    <3> QED BY <1>2, <3>1, QueueTail
  <2>2. ASSUME NEW p, Pending(outbox, p),
               ~(Head(outbox).type = "SetPowered" /\ Head(outbox).path = p)
        PROVE  Pending(outbox', p)
    BY <1>2, <2>1, <2>2, PendingTail
  <2>3. CASE DaemonList \/ DaemonListError
    <3>1. refused' = refused /\ Head(outbox).type = "GetTechnologies"
      BY <2>3 DEF DaemonList, DaemonListError, Serve
    <3> QED BY <1>2, <1>3, <2>2, <3>1, WaitsFrom
  <2>4. CASE DaemonSetError
    <3>1. refused' = refused \cup {Head(outbox).path} BY <2>4 DEF DaemonSetError
    <3> QED BY <1>2, <1>3, <2>2, <3>1, WaitsFrom
  <2>5. CASE DaemonSet
    <3> DEFINE h == Head(outbox).path
    <3>1. refused' = refused \ {h} BY <2>5 DEF DaemonSet
    <3>2. h \in greyed => h \in adrift \cup ghosts \/ h \in known
      BY <1>1 DEF TypeOK, ItemsFollow, CallbackHasItem
    <3>3. ASSUME h \in known PROVE Telling(inbox', h)
      <4>2. /\ Len(inbox') = Len(inbox) + 2 /\ Len(inbox) \in Nat
            /\ inbox'[Len(inbox) + 1] = Change \/ inbox'[Len(inbox) + 2] = Change
        BY <2>5, <3>3, SetTells
      <4>3. Change.type = "PropertyChanged" /\ Change.path = h BY DEF Change, Signal
      <4>4. Len(inbox) + 1 \in 1 .. Len(inbox') /\ Len(inbox) + 2 \in 1 .. Len(inbox')
        BY <4>2
      <4> QED BY <4>2, <4>3, <4>4 DEF Telling
    <3> HIDE DEF h
    <3>4. ASSUME NEW p, Pending(outbox, p), p # h PROVE Pending(outbox', p)
      BY <2>2, <3>4 DEF h
    <3> QED BY <1>2, <1>3, <3>1, <3>2, <3>3, <3>4, WaitsFrom
  <2> QED BY <1>5, <2>3, <2>4, <2>5 DEF DaemonServe
<1>6. CASE DaemonDown
  <2>1. inbox' = Append(inbox, Note("down")) BY <1>6 DEF DaemonDown
  <2>2. Note("down") \in Messages /\ Note("down").type = "down" BY MessageTypes DEF Note
  <2>3. Len(inbox') = Len(inbox) + 1 /\ inbox'[Len(inbox) + 1].type = "down" /\ Len(inbox) \in Nat
    BY <1>2, <2>1, <2>2, QueueAppend
  <2>4. Len(inbox) + 1 \in 1 .. Len(inbox') BY <2>3
  <2> QED BY <2>3, <2>4 DEF GreyedWaits, Telling
<1>7. CASE DaemonUp
  <2>1. outbox' = outbox /\ refused' = refused BY <1>7 DEF DaemonUp, history
  <2> QED BY <1>2, <1>3, <2>1, WaitsFrom
<1> QED BY <1>4, <1>5, <1>6, <1>7 DEF Daemon

(* A switch shows the power of its technology or a source is waiting that   *)
(* will show it; when all is settled it can be used, unless the daemon      *)
(* refused what it asked for or its item is not kept up to date             *)
(* (gtktechnology.c, call_modify and property_update of lib/technology.c).  *)
THEOREM SwitchCorrect == Spec => []SwitchTruthful
<1> DEFINE Inv == Removals /\ ItemsFollow /\ SwitchFollows /\ EndTold /\ GreyedWaits
<1>1. Init => Inv
  <2> SUFFICES ASSUME Init PROVE Inv OBVIOUS
  <2>1. ~Live(Note("up"), call) BY DEF Live, Note
  <2>2. \A i \in 1 .. Len(inbox) : inbox[i] = Note("up") BY DEF Init
  <2>3. FirstListLast BY <2>1, <2>2 DEF FirstListLast
  <2> QED
    BY <2>3 DEF Init, Removals, AddsAbsent, GoneAbsent, ItemsFollow, SwitchFollows, EndTold,
           GreyedWaits
<1>2. Shape /\ Inv /\ [Next]_vars => Inv'
  <2> SUFFICES ASSUME Shape, Inv, [Next]_vars PROVE Inv' OBVIOUS
  <2>1. GreyedWaits'
    <3>1. CASE UNCHANGED vars
      BY <3>1 DEF GreyedWaits, vars, busVars, techVars, menuVars, history
    <3> QED BY <3>1, WaitsMain, WaitsUser, WaitsDaemon DEF Next
  <2> QED BY <2>1, RemovalsNext, ItemsNext, SwitchNext, EndToldNext
<1>3. Inv => SwitchTruthful
  <2> SUFFICES ASSUME Inv, Settled, notify = {}, NEW p \in greyed
               PROVE  p \in refused \cup adrift \cup ghosts
    BY DEF SwitchTruthful, GreyedForAReason
  <2>1. ~Pending(outbox, p) /\ ~Telling(inbox, p) BY DEF Settled, Pending, Telling
  <2> QED BY <2>1 DEF GreyedWaits
<1> QED BY ShapeInit, ShapeNext, <1>1, <1>2, <1>3, PTL DEF Spec

-----------------------------------------------------------------------------
(* Numbers of calls *)

(* A served call is answered once; nothing else of the daemon is an answer. *)
LEMMA DaemonAnswers ==
    ASSUME Shape, Daemon
    PROVE  \/ /\ outbox' \in {outbox, <<>>}
              /\ \A i \in Len(inbox) + 1 .. Len(inbox') : ~IsAnswer(inbox'[i])
           \/ /\ outbox # <<>> /\ outbox' = Tail(outbox)
              /\ \E k \in Len(inbox) + 1 .. Len(inbox') :
                   /\ inbox'[k].serial = Head(outbox).serial
                   /\ \A i \in Len(inbox) + 1 .. Len(inbox') : i # k => ~IsAnswer(inbox'[i])
<1>1. TypeOK BY DEF Shape
<1>2. inbox \in Seq(Messages) /\ Len(inbox) \in Nat BY <1>1 DEF TypeOK
<1>3. ASSUME NEW m \in Messages, inbox' \in {inbox, Append(inbox, m)}
      PROVE  /\ inbox' = Append(inbox, m) =>
                  /\ Len(inbox) + 1 \in Len(inbox) + 1 .. Len(inbox')
                  /\ inbox'[Len(inbox) + 1] = m
             /\ \A i \in Len(inbox) + 1 .. Len(inbox') : i = Len(inbox) + 1 /\ inbox'[i] = m
  <2>1. CASE inbox' = Append(inbox, m) BY <1>2, <2>1, QueueAppend
  <2>2. CASE inbox' # Append(inbox, m) BY <1>2, <1>3, <2>2
  <2> QED BY <2>1, <2>2
<1>4. ASSUME NEW p \in Paths, NEW on \in BOOLEAN, DaemonAdd(p, on) \/ DaemonRemove(p)
      PROVE  outbox' = outbox /\ \A i \in Len(inbox) + 1 .. Len(inbox') : ~IsAnswer(inbox'[i])
  <2>1. PICK t \in {"TechnologyAdded", "TechnologyRemoved"}, b \in BOOLEAN :
            inbox' = inbox \/ inbox' = Append(inbox, Signal(t, p, b))
    BY <1>4 DEF DaemonAdd, DaemonRemove
  <2>2. Signal(t, p, b) \in Messages /\ Signal(t, p, b).type = t
    BY MessageTypes DEF Signal
  <2>3. outbox' = outbox BY <1>4 DEF DaemonAdd, DaemonRemove
  <2> HIDE DEF Signal
  <2> QED BY <1>3, <2>1, <2>2, <2>3 DEF IsAnswer
<1>5. ASSUME NEW p \in Paths, DaemonToggle(p)
      PROVE  outbox' = outbox /\ \A i \in Len(inbox) + 1 .. Len(inbox') : ~IsAnswer(inbox'[i])
  <2>1. \A i \in Len(inbox) + 1 .. Len(inbox') :
          inbox'[i] = Signal("PropertyChanged", p, p \notin power)
    BY <1>5, ToggleTold
  <2>2. Signal("PropertyChanged", p, p \notin power).type = "PropertyChanged" BY DEF Signal
  <2>3. outbox' = outbox BY <1>5 DEF DaemonToggle
  <2> QED BY <2>1, <2>2, <2>3 DEF IsAnswer
<1>6. CASE DaemonServe
  <2>1. outbox # <<>> /\ outbox' = Tail(outbox) /\ serial' = serial
    BY <1>6 DEF DaemonServe, DaemonList, DaemonListError, DaemonSet, DaemonSetError,
                Serve, callVars
  <2>2. Head(outbox).serial \in 1 .. serial /\ serial \in Nat
    BY <1>1, <2>1, OutboxTail DEF TypeOK
  <2>6. ASSUME NEW m \in Messages, m.serial = Head(outbox).serial, inbox' = Append(inbox, m)
        PROVE  \E k \in Len(inbox) + 1 .. Len(inbox') :
                 /\ inbox'[k].serial = Head(outbox).serial
                 /\ \A i \in Len(inbox) + 1 .. Len(inbox') : i # k => ~IsAnswer(inbox'[i])
    BY <1>3, <2>6
  <2>3. CASE DaemonList
    <3>1. Technologies(Head(outbox).serial) \in Messages
      BY <1>1, <2>2, ListType DEF TypeOK
    <3>2. Technologies(Head(outbox).serial).serial = Head(outbox).serial
      BY DEF Technologies
    <3>3. inbox' = Append(inbox, Technologies(Head(outbox).serial)) BY <2>3 DEF DaemonList
    <3> HIDE DEF Technologies
    <3> QED BY <2>1, <2>6, <3>1, <3>2, <3>3
  <2>4. CASE DaemonListError \/ DaemonSetError
    <3>1. Result(Head(outbox).serial, FALSE) \in Messages
      <4>1. Head(outbox).serial \in Nat /\ FALSE \in BOOLEAN BY <2>2
      <4> QED BY <4>1, MessageTypes
    <3>2. Result(Head(outbox).serial, FALSE).serial = Head(outbox).serial BY DEF Result
    <3>3. inbox' = Append(inbox, Result(Head(outbox).serial, FALSE))
      BY <2>4 DEF DaemonListError, DaemonSetError
    <3> HIDE DEF Result
    <3> QED BY <2>1, <2>6, <3>1, <3>2, <3>3
  <2>5. CASE DaemonSet BY <2>1, <2>5, SetAnswers
  <2> QED BY <1>6, <2>3, <2>4, <2>5 DEF DaemonServe
<1>7. CASE DaemonDown \/ DaemonUp
  <2>1. PICK t \in {"up", "down"} : inbox' = Append(inbox, Note(t))
    BY <1>7 DEF DaemonDown, DaemonUp
  <2>2. Note(t) \in Messages /\ Note(t).type = t BY MessageTypes DEF Note
  <2>3. outbox' \in {outbox, <<>>} BY <1>7 DEF DaemonDown, DaemonUp
  <2> HIDE DEF Note
  <2> QED BY <1>3, <2>1, <2>2, <2>3 DEF IsAnswer
<1> QED BY <1>4, <1>5, <1>6, <1>7 DEF Daemon

(* The pending call is in one place at most: on its way, or answered.       *)
LEMMA NumberedFrom ==
    ASSUME Shape, Numbered, outbox' = outbox, call' \in {call, 0}, serial' = serial,
           inbox' = inbox \/ (inbox # <<>> /\ inbox' = Tail(inbox))
    PROVE  Numbered'
<1>1. inbox \in Seq(Messages) /\ serial \in Nat BY DEF Shape, TypeOK
<1>2. CASE call' = 0
  <2>1. \A i \in 1 .. Len(outbox') : outbox'[i].serial # 0 BY DEF Shape, Given
  <2>2. \A i \in 1 .. Len(inbox') : IsAnswer(inbox'[i]) => inbox'[i].serial # 0
    <3>1. \A i \in 1 .. Len(inbox') : IsAnswer(inbox'[i]) => inbox'[i].serial \in 1 .. serial
      BY InboxTail DEF Shape, Given
    <3> QED BY <3>1
  <2> QED BY <1>2, <2>1, <2>2 DEF Numbered
<1>3. CASE call' = call /\ inbox' = inbox BY <1>3 DEF Numbered
<1>4. CASE call' = call /\ inbox # <<>> /\ inbox' = Tail(inbox)
  <2>1. \A i \in 1 .. Len(inbox') : i \in Nat /\ i + 1 \in 1 .. Len(inbox) /\ inbox'[i] = inbox[i + 1]
    BY <1>1, <1>4, QueueTail
  <2>2. \A i, j \in 1 .. Len(inbox') :
           /\ IsAnswer(inbox'[i]) /\ inbox'[i].serial = call
           /\ IsAnswer(inbox'[j]) /\ inbox'[j].serial = call
           => i = j
    <3> SUFFICES ASSUME NEW i \in 1 .. Len(inbox'), NEW j \in 1 .. Len(inbox'),
                        IsAnswer(inbox'[i]), inbox'[i].serial = call,
                        IsAnswer(inbox'[j]), inbox'[j].serial = call
                 PROVE  i = j
      OBVIOUS
    <3>1. i + 1 = j + 1 BY <2>1 DEF Numbered
    <3> QED BY <2>1, <3>1
  <2> QED BY <1>4, <2>1, <2>2 DEF Numbered
<1> QED BY <1>2, <1>3, <1>4

LEMMA NumberedAsks ==
    ASSUME Shape, __connman_manager_get_technologies, inbox # <<>>, inbox' = Tail(inbox)
    PROVE  Numbered'
<1>1. /\ outbox' \in Seq(ToDaemon) /\ Grown(outbox, outbox') /\ outbox \in Seq(ToDaemon)
      /\ outbox' # outbox => Len(outbox') = Len(outbox) + 1
      /\ call' = serial + 1 /\ serial \in Nat
  BY OutboxAsks DEF Shape, TypeOK
<1>2. \A i \in 1 .. Len(outbox') : outbox'[i].serial = call' => i = Len(outbox) + 1
  <2>1. \A i \in 1 .. Len(outbox') : i \in 1 .. Len(outbox) \/ i = Len(outbox) + 1
    BY <1>1
  <2>2. \A i \in 1 .. Len(outbox) : outbox'[i].serial \in 1 .. serial
    BY <1>1 DEF Grown, Shape, Given
  <2> QED BY <1>1, <2>1, <2>2
<1>3. \A i \in 1 .. Len(inbox') : ~(IsAnswer(inbox'[i]) /\ inbox'[i].serial = call')
  BY <1>1, InboxTail
<1> QED BY <1>2, <1>3 DEF Numbered

LEMMA NumberedDaemon ==
    ASSUME Shape, Numbered, Daemon
    PROVE  Numbered'
<1>1. /\ outbox \in Seq(ToDaemon) /\ inbox \in Seq(Messages) /\ Len(inbox) \in Nat
      /\ Len(outbox) \in Nat
  BY DEF Shape, TypeOK
<1>2. /\ \A i \in 1 .. Len(inbox) : inbox'[i] = inbox[i]
      /\ Len(inbox') \in Nat /\ Len(inbox) <= Len(inbox')
      /\ \A i \in 1 .. Len(inbox') : i \in 1 .. Len(inbox) \/ i \in Len(inbox) + 1 .. Len(inbox')
  BY <1>1, DaemonTells DEF NewTold, Grown
<1>3. call' = call
  BY DEF Daemon, DaemonAdd, DaemonRemove, DaemonToggle, DaemonServe, DaemonList,
        DaemonListError, DaemonSet, DaemonSetError, Serve, DaemonDown, DaemonUp, callVars
<1>4. CASE /\ outbox' \in {outbox, <<>>}
           /\ \A i \in Len(inbox) + 1 .. Len(inbox') : ~IsAnswer(inbox'[i])
  <2>1. \A i \in 1 .. Len(inbox') : IsAnswer(inbox'[i]) => i \in 1 .. Len(inbox) /\ inbox'[i] = inbox[i]
    BY <1>2, <1>4
  <2>2. outbox' = outbox \/ Len(outbox') = 0 BY <1>4
  <2> QED BY <1>3, <2>1, <2>2 DEF Numbered
<1>5. ASSUME outbox # <<>>, outbox' = Tail(outbox),
             NEW k \in Len(inbox) + 1 .. Len(inbox'), inbox'[k].serial = Head(outbox).serial,
             \A i \in Len(inbox) + 1 .. Len(inbox') : i # k => ~IsAnswer(inbox'[i])
      PROVE  Numbered'
  <2>1. /\ Head(outbox) = outbox[1] /\ 1 \in 1 .. Len(outbox)
        /\ \A i \in 1 .. Len(outbox') : i + 1 \in 1 .. Len(outbox) /\ i + 1 # 1
                                        /\ outbox'[i] = outbox[i + 1]
    BY <1>1, <1>5, QueueTail
  <2>2. \A i \in 1 .. Len(inbox') : IsAnswer(inbox'[i]) =>
            (i \in 1 .. Len(inbox) /\ inbox'[i] = inbox[i]) \/ i = k
    BY <1>2, <1>5
  <2>3. ASSUME NEW i \in 1 .. Len(outbox'), NEW j \in 1 .. Len(outbox'),
               outbox'[i].serial = call, outbox'[j].serial = call
        PROVE  i = j
    <3>1. i + 1 = j + 1 BY <2>1, <2>3 DEF Numbered
    <3> QED BY <3>1
  <2>4. ASSUME NEW i \in 1 .. Len(inbox'), NEW j \in 1 .. Len(inbox'),
               IsAnswer(inbox'[i]), inbox'[i].serial = call,
               IsAnswer(inbox'[j]), inbox'[j].serial = call
        PROVE  i = j
    <3>1. CASE outbox[1].serial = call
      <4>1. i = k /\ j = k BY <2>1, <2>2, <2>4, <3>1 DEF Numbered
      <4> QED BY <4>1
    <3>2. CASE outbox[1].serial # call
      <4>1. i # k /\ j # k BY <1>5, <2>1, <2>4, <3>2
      <4> QED BY <2>2, <2>4, <4>1 DEF Numbered
    <3> QED BY <3>1, <3>2
  <2>5. ASSUME NEW i \in 1 .. Len(outbox'), NEW j \in 1 .. Len(inbox'),
               outbox'[i].serial = call, IsAnswer(inbox'[j]), inbox'[j].serial = call
        PROVE  FALSE
    <3>1. j = k BY <2>1, <2>2, <2>5 DEF Numbered
    <3>2. outbox[1].serial = call /\ outbox[i + 1].serial = call BY <1>5, <2>1, <2>5, <3>1
    <3> QED BY <2>1, <3>2 DEF Numbered
  <2> QED BY <1>3, <2>3, <2>4, <2>5 DEF Numbered
<1> QED BY <1>4, <1>5, DaemonAnswers

LEMMA NumberedNext ==
    ASSUME Shape, Numbered, [Next]_vars
    PROVE  Numbered'
<1>1. CASE MainLoop
  <2>1. \/ __connman_manager_get_technologies /\ inbox # <<>> /\ inbox' = Tail(inbox)
        \/ outbox' = outbox /\ call' \in {call, 0} /\ serial' = serial
    BY <1>1 DEF MainLoop, get_technologies_callback, get_technologies_cb,
         get_technologies_error, set_property_cb, technology_added_cb, technology_removed_cb,
         property_changed_signal_cb, connman_up, connman_down, property_changed_or_error,
         Receive, busVars, callVars
  <2> QED BY <1>1, <2>1, MainTakes, NumberedAsks, NumberedFrom
<1>2. CASE \/ UNCHANGED vars \/ cui_popup_right_menu \/ cui_popdown_right_menu
           \/ \E s \in 1 .. serial : scan_callback(s)
  <2>1. outbox' = outbox /\ inbox' = inbox /\ call' = call /\ serial' = serial
    BY <1>2 DEF cui_popup_right_menu, cui_popdown_right_menu, scan_callback, vars, busVars, callVars
  <2> QED BY <2>1, NumberedFrom
<1>3. ASSUME NEW p \in Paths, connman_technology_scan(p) PROVE Numbered'
  BY <1>3 DEF connman_technology_scan, busVars, Numbered
<1>4. ASSUME NEW p \in Paths, gtk_technology_button_release_event(p) PROVE Numbered'
  <2>1. /\ outbox \in Seq(ToDaemon) /\ serial \in Nat /\ call \in 0 .. serial
        /\ Len(outbox) \in Nat
    BY DEF Shape, TypeOK
  <2>2. inbox' = inbox /\ call' = call BY <1>4 DEF gtk_technology_button_release_event
  <2>3. PICK on \in BOOLEAN : on = (p \notin switch) OBVIOUS
  <2>4. \/ outbox' = Sent(SetPowered(p, on, serial + 1)) /\ serial' = serial + 1
        \/ outbox' = outbox
    BY <1>4, <2>3 DEF gtk_technology_button_release_event
  <2>5. SetPowered(p, on, serial + 1) \in ToDaemon
        /\ SetPowered(p, on, serial + 1).serial = serial + 1
    <3>1. serial + 1 \in Nat BY <2>1
    <3>2. SetPowered(p, on, serial + 1) \in ToDaemon BY <3>1, MessageTypes
    <3> QED BY <3>2 DEF SetPowered
  <2>6. \A i \in 1 .. Len(outbox') : outbox'[i].serial = call =>
            i \in 1 .. Len(outbox) /\ outbox'[i] = outbox[i]
    <3>1. CASE outbox' = outbox BY <3>1
    <3>2. CASE outbox' = Append(outbox, SetPowered(p, on, serial + 1))
      <4> HIDE DEF SetPowered
      <4>1. /\ Len(outbox') = Len(outbox) + 1
            /\ \A i \in 1 .. Len(outbox) : outbox'[i] = outbox[i]
            /\ outbox'[Len(outbox) + 1].serial = serial + 1
        BY <2>1, <2>5, <3>2, QueueAppend DEF Grown
      <4>2. \A i \in 1 .. Len(outbox') : i \in 1 .. Len(outbox) \/ i = Len(outbox) + 1
        BY <2>1, <4>1
      <4>3. serial + 1 # call BY <2>1
      <4> QED BY <4>1, <4>2, <4>3
    <3> QED BY <2>4, <3>1, <3>2 DEF Sent
  <2> QED BY <2>2, <2>6 DEF Numbered
<1> QED BY <1>1, <1>2, <1>3, <1>4, NumberedDaemon DEF Next, User

-----------------------------------------------------------------------------
(* What is there is seen.  A removal is followed by the news of the         *)
(* technology if it is there again.                                         *)
Adds(m, p) == m.type = "TechnologyAdded" /\ m.path = p

Retold ==
    set => \A p \in present : \A j \in 1 .. Len(inbox) :
             Takes(inbox[j], p) => \E k \in j + 1 .. Len(inbox) : Adds(inbox[k], p)

LEMMA RetoldTail ==
    ASSUME Shape, Retold, set, inbox # <<>>, inbox' = Tail(inbox), present' = present
    PROVE  Retold'
<1>1. /\ Len(inbox) \in Nat /\ Len(inbox') = Len(inbox) - 1
      /\ \A i \in 1 .. Len(inbox') : i + 1 \in 1 .. Len(inbox) /\ inbox'[i] = inbox[i + 1]
  BY QueueTail DEF Shape, TypeOK
<1>2. ASSUME NEW p \in present', NEW j \in 1 .. Len(inbox'), Takes(inbox'[j], p)
      PROVE  \E k \in j + 1 .. Len(inbox') : Adds(inbox'[k], p)
  <2>1. PICK k \in (j + 1) + 1 .. Len(inbox) : Adds(inbox[k], p) BY <1>1, <1>2 DEF Retold
  <2>2. k - 1 \in j + 1 .. Len(inbox') /\ k - 1 \in 1 .. Len(inbox') /\ (k - 1) + 1 = k
    BY <1>1, <2>1
  <2> QED BY <1>1, <2>1, <2>2
<1> QED BY <1>2 DEF Retold

(* Once the first list is taken no signal is on its way.                    *)
LEMMA RetoldMain ==
    ASSUME Shape, Removals, Retold, MainLoop
    PROVE  Retold'
<1>1. present' = present
  BY DEF MainLoop, get_technologies_callback, get_technologies_error, set_property_cb,
         technology_added_cb, technology_removed_cb, property_changed_signal_cb,
         connman_up, connman_down, property_changed_or_error, busVars
<1>2. CASE set
  <2>1. CASE inbox' = inbox BY <1>1, <1>2, <2>1 DEF Retold
  <2>2. CASE inbox # <<>> /\ inbox' = Tail(inbox) BY <1>1, <1>2, <2>2, RetoldTail
  <2> QED BY <2>1, <2>2, MainTakes
<1>3. CASE ~set /\ set'
  <2>1. get_technologies_callback /\ Live(Head(inbox), call)
    BY <1>3 DEF MainLoop, get_technologies_callback, get_technologies_error, set_property_cb,
         technology_added_cb, technology_removed_cb, property_changed_signal_cb,
         connman_up, connman_down, property_changed_or_error, Receive, Live
  <2>2. inbox # <<>> /\ inbox' = Tail(inbox) BY <2>1 DEF get_technologies_callback, Receive
  <2>3. /\ Head(inbox) = inbox[1] /\ 1 \in 1 .. Len(inbox)
        /\ \A i \in 1 .. Len(inbox') : i + 1 \in 1 + 1 .. Len(inbox) /\ inbox'[i] = inbox[i + 1]
    BY <2>2, QueueTail DEF Shape, TypeOK
  <2>4. \A j \in 1 + 1 .. Len(inbox) : inbox[j].type # "TechnologyRemoved"
    BY <1>3, <2>1, <2>3 DEF Removals, FirstListLast
  <2> QED BY <2>3, <2>4 DEF Retold, Takes
<1> QED BY <1>2, <1>3 DEF Retold

LEMMA RightTail ==
    ASSUME NEW q \in Seq(Messages), q # <<>>, NEW c, NEW c2, NEW P, NEW P2, NEW p,
           NEW v \in BOOLEAN, Right(q, c, P, p, v),
           \A j \in 2 .. Len(q) : Tells(q[j], c2, p) <=> Tells(q[j], c, p),
           Tells(q[1], c, p) /\ (\A j \in 2 .. Len(q) : ~Tells(q[j], c, p))
             => (p \in P2) = OnOf(q[1], p),
           ~Tells(q[1], c, p) => (p \in P2 <=> p \in P)
    PROVE  Right(Tail(q), c2, P2, p, v)
<1>1. /\ Len(q) \in Nat /\ Len(q) >= 1 /\ Len(Tail(q)) = Len(q) - 1
      /\ \A i \in 1 .. Len(Tail(q)) : i + 1 \in 2 .. Len(q) /\ Tail(q)[i] = q[i + 1]
      /\ \A j \in 1 .. Len(q) : j = 1 \/ j \in 2 .. Len(q)
      /\ 1 \in 1 .. Len(q)
  BY QueueTail
<1>2. CASE (\A j \in 1 .. Len(q) : ~Tells(q[j], c, p)) /\ (p \in P) = v
  <2>1. ~Tells(q[1], c, p) BY <1>1, <1>2
  <2>2. (p \in P2) = v BY <1>2, <2>1
  <2>3. \A j \in 1 .. Len(Tail(q)) : ~Tells(Tail(q)[j], c2, p)
    <3>1. \A j \in 2 .. Len(q) : j \in 1 .. Len(q) OBVIOUS
    <3> QED BY <1>1, <1>2, <3>1
  <2> QED BY <2>2, <2>3 DEF Right
<1>3. ASSUME NEW k \in 1 .. Len(q), Tells(q[k], c, p), OnOf(q[k], p) = v,
             \A j \in k + 1 .. Len(q) : ~Tells(q[j], c, p)
      PROVE  Right(Tail(q), c2, P2, p, v)
  <2>1. CASE k = 1
    <3>1. \A j \in 2 .. Len(q) : ~Tells(q[j], c, p) BY <1>3, <2>1
    <3>2. (p \in P2) = v BY <1>3, <2>1, <3>1
    <3>3. \A j \in 1 .. Len(Tail(q)) : ~Tells(Tail(q)[j], c2, p) BY <1>1, <3>1
    <3> QED BY <3>2, <3>3 DEF Right
  <2>2. CASE k # 1
    <3>1. k - 1 \in 1 .. Len(Tail(q)) /\ (k - 1) + 1 = k /\ k \in 2 .. Len(q) BY <1>1, <2>2
    <3>2. Tells(Tail(q)[k - 1], c2, p) /\ OnOf(Tail(q)[k - 1], p) = v BY <1>1, <1>3, <3>1
    <3>3. \A j \in (k - 1) + 1 .. Len(Tail(q)) : j \in 1 .. Len(Tail(q)) /\ j + 1 \in k + 1 .. Len(q)
      BY <1>1, <3>1
    <3>4. \A j \in (k - 1) + 1 .. Len(Tail(q)) : ~Tells(Tail(q)[j], c2, p)
      BY <1>1, <1>3, <3>3
    <3> QED BY <3>1, <3>2, <3>4 DEF Right
  <2> QED BY <2>1, <2>2
<1> QED BY <1>2, <1>3 DEF Right

LEMMA RightGrown ==
    ASSUME NEW q \in Seq(Messages), NEW q2 \in Seq(Messages), Grown(q, q2), NEW c, NEW P, NEW p,
           NEW v, Right(q, c, P, p, v),
           \A j \in Len(q) + 1 .. Len(q2) : ~Tells(q2[j], c, p)
    PROVE  Right(q2, c, P, p, v)
<1>1. /\ Len(q) \in Nat /\ Len(q2) \in Nat /\ Len(q) <= Len(q2)
      /\ \A j \in 1 .. Len(q) : q2[j] = q[j] /\ j \in 1 .. Len(q2)
      /\ \A j \in 1 .. Len(q2) : j \in 1 .. Len(q) \/ j \in Len(q) + 1 .. Len(q2)
  BY DEF Grown
<1>2. CASE (\A j \in 1 .. Len(q) : ~Tells(q[j], c, p)) /\ (p \in P) = v
  BY <1>1, <1>2 DEF Right
<1>3. ASSUME NEW k \in 1 .. Len(q), Tells(q[k], c, p), OnOf(q[k], p) = v,
             \A j \in k + 1 .. Len(q) : ~Tells(q[j], c, p)
      PROVE  Right(q2, c, P, p, v)
  <2>1. \A j \in k + 1 .. Len(q2) : (j \in k + 1 .. Len(q) /\ j \in 1 .. Len(q))
                                    \/ j \in Len(q) + 1 .. Len(q2)
    BY <1>1
  <2>2. \A j \in k + 1 .. Len(q2) : ~Tells(q2[j], c, p) BY <1>1, <1>3, <2>1
  <2> QED BY <1>1, <1>3, <2>2 DEF Right
<1> QED BY <1>2, <1>3 DEF Right

(* A technology that is seen is so when the first message is handled.       *)
LEMMA SeenTail ==
    ASSUME Shape, inbox # <<>>, inbox' = Tail(inbox), UNCHANGED <<power, stale>>,
           NEW p, Seen(p),
           \A j \in 2 .. Len(inbox) : Live(inbox[j], call') <=> Live(inbox[j], call),
           p \in known \/ (Live(Head(inbox), call) /\ p \in Head(inbox).paths) => p \in known',
           Tells(Head(inbox), call, p) /\ (\A j \in 2 .. Len(inbox) : ~Tells(inbox[j], call, p))
             => (p \in powered') = OnOf(Head(inbox), p),
           ~Tells(Head(inbox), call, p) => (p \in powered' <=> p \in powered)
    PROVE  Seen(p)'
<1>1. /\ Len(inbox) \in Nat /\ Len(inbox') = Len(inbox) - 1 /\ Head(inbox) = inbox[1]
      /\ \A i \in 1 .. Len(inbox') : i + 1 \in 1 .. Len(inbox) /\ inbox'[i] = inbox[i + 1]
      /\ inbox \in Seq(Messages)
  BY QueueTail DEF Shape, TypeOK
<1>2. \A j \in 1 .. Len(inbox') : ~Takes(inbox'[j], p) BY <1>1 DEF Seen
<1>3. p \in known' \/ \E j \in 1 .. Len(inbox') : Live(inbox'[j], call') /\ p \in inbox'[j].paths
  <2>1. CASE p \in known BY <2>1
  <2>2. ASSUME NEW j \in 1 .. Len(inbox), Live(inbox[j], call), p \in inbox[j].paths
        PROVE  p \in known' \/ \E i \in 1 .. Len(inbox') : Live(inbox'[i], call') /\ p \in inbox'[i].paths
    <3>1. CASE j = 1 BY <1>1, <2>2, <3>1
    <3>2. CASE j # 1
      <4>1. j - 1 \in 1 .. Len(inbox') /\ (j - 1) + 1 = j /\ j \in 2 .. Len(inbox)
        BY <1>1, <3>2
      <4> QED BY <1>1, <2>2, <4>1
    <3> QED BY <3>1, <3>2
  <2> QED BY <2>1, <2>2 DEF Seen
<1>4. p \in stale' \/ Right(inbox', call', powered', p, p \in power')
  <2>1. CASE p \in stale BY <2>1
  <2>2. CASE p \notin stale
    <3>1. PICK v \in BOOLEAN : v = (p \in power)
      <4>1. (p \in power) \in BOOLEAN OBVIOUS
      <4> QED BY <4>1, Zenon
    <3>2. Right(inbox, call, powered, p, v) BY <2>2, <3>1 DEF Seen
    <3>3. \A j \in 2 .. Len(inbox) : Tells(inbox[j], call', p) <=> Tells(inbox[j], call, p)
      BY DEF Tells
    <3>4. Right(inbox', call', powered', p, v) BY <1>1, <3>2, <3>3, RightTail
    <3> QED BY <3>1, <3>4
  <2> QED BY <2>1, <2>2
<1> QED BY <1>2, <1>3, <1>4 DEF Seen

LEMMA AskedTail ==
    ASSUME Shape, Asked, inbox # <<>>, inbox' = Tail(inbox), UNCHANGED <<outbox, call>>,
           Head(inbox).type # "TechnologyAdded",
           ~(Head(inbox).type = "result" /\ Head(inbox).serial = call)
    PROVE  Asked'
<1>1. /\ Len(inbox) \in Nat /\ Len(inbox') = Len(inbox) - 1 /\ Head(inbox) = inbox[1]
      /\ \A i \in 1 .. Len(inbox') : i + 1 \in 1 .. Len(inbox) /\ inbox'[i] = inbox[i + 1]
  BY QueueTail DEF Shape, TypeOK
<1>2. ASSUME NEW i \in 1 .. Len(inbox),
             \/ inbox[i].type = "result" /\ inbox[i].serial = call
             \/ inbox[i].type = "TechnologyAdded"
      PROVE  Asked'
  <2>1. i # 1 BY <1>1, <1>2
  <2>2. i - 1 \in 1 .. Len(inbox') /\ (i - 1) + 1 = i BY <1>1, <2>1
  <2>3. inbox'[i - 1] = inbox[i] BY <1>1, <2>2
  <2> QED BY <1>2, <2>2, <2>3 DEF Asked
<1> QED BY <1>2 DEF Asked

LEMMA AskedNow ==
    ASSUME Shape, __connman_manager_get_technologies, alive
    PROVE  Asked'
<1>1. /\ outbox'[Len(outbox) + 1] = GetTechnologies(serial + 1)
      /\ Len(outbox') = Len(outbox) + 1 /\ call' = serial + 1 /\ outbox \in Seq(ToDaemon)
  BY OutboxAsks DEF Shape, TypeOK
<1>2. Len(outbox) + 1 \in 1 .. Len(outbox') BY <1>1
<1> QED BY <1>1, <1>2 DEF Asked

(* Through the handlers what is seen stays so, or is asked for again.       *)
LEMMA PresentMain ==
    ASSUME Shape, Numbered, PresentSeen, MainLoop
    PROVE  PresentSeen'
<1>1. TypeOK /\ Parts /\ Subsets BY DEF Shape
<1>2. UNCHANGED <<alive, present, power>>
  BY DEF MainLoop, get_technologies_callback, get_technologies_error, set_property_cb,
         technology_added_cb, technology_removed_cb, property_changed_signal_cb,
         connman_up, connman_down, property_changed_or_error, busVars
<1>3. ASSUME NEW p \in Paths, property_changed_or_error(p) PROVE PresentSeen'
  BY <1>3 DEF property_changed_or_error, busVars, callVars, history, PresentSeen, Asked, Seen
<1>4. ASSUME inbox # <<>>, inbox' = Tail(inbox)
      PROVE  /\ Head(inbox) = inbox[1] /\ 1 \in 1 .. Len(inbox) /\ Head(inbox) \in Messages
             /\ Head(inbox).type # "down" /\ NoDown(inbox', Len(inbox')) => NoDown(inbox, Len(inbox))
             /\ \A j \in 2 .. Len(inbox) : j - 1 \in 1 .. Len(inbox') /\ inbox'[j - 1] = inbox[j]
  <2>1. /\ Len(inbox) \in Nat /\ Len(inbox') = Len(inbox) - 1 /\ Head(inbox) = inbox[1]
        /\ \A i \in 1 .. Len(inbox') : inbox'[i] = inbox[i + 1]
        /\ 1 \in 1 .. Len(inbox) /\ Head(inbox) \in Messages
    BY <1>1, <1>4, QueueTail DEF TypeOK
  <2>2. \A j \in 2 .. Len(inbox) : j - 1 \in 1 .. Len(inbox') /\ inbox'[j - 1] = inbox[j]
    <3>1. ASSUME NEW j \in 2 .. Len(inbox)
          PROVE  j - 1 \in 1 .. Len(inbox') /\ inbox'[j - 1] = inbox[j]
      <4>1. j - 1 \in 1 .. Len(inbox') /\ (j - 1) + 1 = j BY <2>1
      <4>2. inbox'[j - 1] = inbox[(j - 1) + 1] BY <2>1, <4>1
      <4> QED BY <4>1, <4>2
    <3> QED BY <3>1
  <2>3. \A j \in 1 .. Len(inbox) : j = 1 \/ j \in 2 .. Len(inbox) BY <2>1
  <2> QED BY <2>1, <2>2, <2>3 DEF NoDown
<1>5. CASE connman_down BY <1>5 DEF connman_down, PresentSeen
<1>6. CASE get_technologies_error BY <1>6 DEF get_technologies_error, PresentSeen
<1>7. CASE technology_added_cb
  <2>1. CASE set
    <3>1. __connman_manager_get_technologies BY <1>7, <2>1 DEF technology_added_cb
    <3> QED BY <1>2, <3>1, AskedNow DEF PresentSeen
  <2>2. CASE ~set BY <1>7, <2>2 DEF technology_added_cb, PresentSeen
  <2> QED BY <2>1, <2>2
<1>8. CASE connman_up \/ set_property_cb
  <2>1. CASE set
    <3>1. techIf BY <1>1, <2>1 DEF Parts
    <3>2. /\ UNCHANGED <<set, call, known, powered, outbox, failed, stale>>
          /\ inbox # <<>> /\ inbox' = Tail(inbox)
          /\ \/ Head(inbox).type = "up"
             \/ Head(inbox).type = "result" /\ Head(inbox).serial # call
      BY <1>8, <3>1 DEF connman_up, set_property_cb, Receive, techVars, callVars, history
    <3>3. ASSUME NEW p, Seen(p) PROVE Seen(p)'
      BY <1>2, <3>2, <3>3, SeenTail DEF Tells, Live
    <3> QED BY <1>2, <1>4, <3>2, <3>3, AskedTail DEF PresentSeen
  <2>2. CASE ~set BY <1>8, <2>2 DEF connman_up, set_property_cb, PresentSeen
  <2> QED BY <2>1, <2>2
<1>9. CASE technology_removed_cb
  <2>1. CASE set
    <3>1. /\ UNCHANGED <<set, call, outbox, failed, stale>>
          /\ inbox # <<>> /\ inbox' = Tail(inbox) /\ Head(inbox).type = "TechnologyRemoved"
          /\ known' = known \ {Head(inbox).path}
          /\ powered' = powered \ (known \cap {Head(inbox).path})
      BY <1>9, <2>1 DEF technology_removed_cb, technology_free, Receive, callVars, history
    <3>2. ASSUME NEW p, Seen(p) PROVE Seen(p)'
      <4>1. p # Head(inbox).path BY <1>4, <3>1, <3>2 DEF Seen, Takes
      <4> QED BY <1>2, <3>1, <3>2, <4>1, SeenTail DEF Tells, Live
    <3> QED BY <1>2, <1>4, <3>1, <3>2, AskedTail DEF PresentSeen
  <2>2. CASE ~set BY <1>9, <2>2 DEF technology_removed_cb, PresentSeen
  <2> QED BY <2>1, <2>2
<1>10. CASE property_changed_signal_cb
  <2>1. /\ UNCHANGED <<set, call, outbox, failed, stale, known>>
        /\ inbox # <<>> /\ inbox' = Tail(inbox) /\ Head(inbox).type = "PropertyChanged"
        /\ powered' = IF Head(inbox).path \in known
                      THEN With(powered, Head(inbox).path, Head(inbox).on) ELSE powered
    BY <1>10 DEF property_changed_signal_cb, Receive, callVars, history
  <2>2. Head(inbox).on \in BOOLEAN BY <1>4, <2>1, MessageFields
  <2>3. ASSUME NEW p, Seen(p) PROVE Seen(p)'
    <3>1. CASE p # Head(inbox).path
      BY <1>2, <2>1, <2>3, <3>1, SeenTail DEF Tells, Live, With
    <3>2. CASE p = Head(inbox).path /\ p \in known
      BY <1>2, <2>1, <2>2, <2>3, <3>2, SeenTail DEF Tells, Live, With, OnOf
    <3>3. CASE p = Head(inbox).path /\ p \notin known
      <4>1. PICK j \in 1 .. Len(inbox) : Live(inbox[j], call) /\ p \in inbox[j].paths
        BY <2>3, <3>3 DEF Seen
      <4>2. j \in 2 .. Len(inbox)
        <5>1. j # 1 BY <1>4, <2>1, <4>1 DEF Live
        <5> QED BY <5>1
      <4>3. Tells(inbox[j], call, p) BY <4>1 DEF Tells
      <4>4. Tells(Head(inbox), call, p) BY <2>1, <3>3 DEF Tells
      <4> QED BY <1>2, <2>1, <2>3, <3>3, <4>2, <4>3, <4>4, SeenTail DEF Live
    <3> QED BY <3>1, <3>2, <3>3
  <2> QED BY <1>2, <1>4, <2>1, <2>3, AskedTail DEF PresentSeen
<1>11. CASE get_technologies_callback
  <2>1. /\ inbox # <<>> /\ inbox' = Tail(inbox) /\ Head(inbox).type = "technologies"
        /\ UNCHANGED <<failed, stale>>
    BY <1>11 DEF get_technologies_callback, Receive, history
  <2>2. CASE Head(inbox).serial # call
    <3>1. UNCHANGED <<set, call, known, powered, outbox>>
      BY <1>11, <2>2 DEF get_technologies_callback, callVars
    <3>2. ASSUME NEW p, Seen(p) PROVE Seen(p)'
      BY <1>2, <2>1, <2>2, <3>1, <3>2, SeenTail DEF Tells, Live
    <3> QED BY <1>2, <1>4, <2>1, <3>1, <3>2, AskedTail DEF PresentSeen
  <2>3. CASE Head(inbox).serial = call /\ ~set
    <3>1. __connman_manager_get_technologies
      BY <1>11, <2>3 DEF get_technologies_callback, get_technologies_cb
    <3> QED BY <1>2, <3>1, AskedNow DEF PresentSeen
  <2>4. CASE Head(inbox).serial = call /\ set
    <3> DEFINE m == Head(inbox)
    <3>1. /\ set' /\ call' = 0 /\ outbox' = outbox
          /\ known' = known \cup m.paths /\ powered' = (powered \ m.paths) \cup m.on
      BY <1>11, <2>4 DEF get_technologies_callback, get_technologies_cb
    <3>2. Live(m, call) /\ IsAnswer(m) /\ m.on \subseteq m.paths
      BY <1>1, <1>4, <2>1, <2>4 DEF Live, IsAnswer, Subsets
    <3>3. \A j \in 2 .. Len(inbox) : ~(IsAnswer(inbox[j]) /\ inbox[j].serial = call)
      <4>1. ASSUME NEW j \in 2 .. Len(inbox), IsAnswer(inbox[j]), inbox[j].serial = call
            PROVE  FALSE
        <5>1. j \in 1 .. Len(inbox) /\ j # 1 OBVIOUS
        <5> QED BY <1>4, <2>1, <2>4, <3>2, <4>1, <5>1 DEF Numbered
      <4> QED BY <4>1
    <3>4. \A i \in 1 .. Len(outbox) : outbox[i].serial # call
      BY <1>4, <2>1, <2>4, <3>2 DEF Numbered
    <3>5. \A j \in 2 .. Len(inbox) : ~Live(inbox[j], call) /\ ~Live(inbox[j], call')
      <4>1. \A i \in 1 .. Len(inbox') : ~Live(inbox'[i], call') BY <2>1, <3>1, NotLive
      <4> QED BY <1>4, <2>1, <3>3, <4>1 DEF Live, IsAnswer
    <3> HIDE DEF m
    <3>6. ASSUME NEW p, Seen(p) PROVE Seen(p)'
      <4>1. Tells(m, call, p) <=> p \in m.paths BY <2>1, <3>2 DEF Tells, m
      <4>2. OnOf(m, p) = (p \in m.on) BY <2>1 DEF OnOf, m
      <4>3. Tells(m, call, p) => (p \in powered') = OnOf(m, p) BY <3>1, <4>1, <4>2
      <4>4. ~Tells(m, call, p) => (p \in powered' <=> p \in powered)
        BY <3>1, <3>2, <4>1
      <4>5. \A j \in 2 .. Len(inbox) : Live(inbox[j], call') <=> Live(inbox[j], call) BY <3>5
      <4> QED BY <1>2, <2>1, <3>1, <3>6, <4>3, <4>4, <4>5, SeenTail DEF m
    <3>7. Asked => Asked'
      <4>1. SUFFICES ASSUME Asked PROVE Asked' OBVIOUS
      <4>2. \A i \in 1 .. Len(outbox) : outbox[i] # GetTechnologies(call)
        BY <3>4 DEF GetTechnologies
      <4>3. PICK i \in 1 .. Len(inbox) :
               \/ inbox[i].type = "result" /\ inbox[i].serial = call
               \/ inbox[i].type = "TechnologyAdded"
        BY <4>1, <4>2 DEF Asked
      <4>4. i \in 2 .. Len(inbox)
        <5>1. i # 1 BY <1>4, <2>1, <4>3
        <5> QED BY <5>1
      <4>5. inbox[i].type = "TechnologyAdded" BY <3>3, <4>3, <4>4 DEF IsAnswer
      <4>6. i - 1 \in 1 .. Len(inbox') /\ inbox'[i - 1] = inbox[i] BY <1>4, <2>1, <4>4
      <4> QED BY <4>5, <4>6 DEF Asked
    <3> QED BY <1>2, <1>4, <2>1, <2>4, <3>6, <3>7 DEF PresentSeen
  <2> QED BY <2>2, <2>3, <2>4
<1> QED BY <1>3, <1>5, <1>6, <1>7, <1>8, <1>9, <1>10, <1>11 DEF MainLoop

(* New messages that do not concern a technology leave it seen. *)
LEMMA SeenGrown ==
    ASSUME Shape, NewTold, UNCHANGED <<call, known, powered>>, NEW p, Seen(p),
           \A i \in Len(inbox) + 1 .. Len(inbox') :
             ~Takes(inbox'[i], p) /\ ~Tells(inbox'[i], call, p),
           p \in stale => p \in stale', p \in power' <=> p \in power
    PROVE  Seen(p)'
<1>1. /\ inbox \in Seq(Messages) /\ inbox' \in Seq(Messages) /\ Grown(inbox, inbox')
      /\ Len(inbox) \in Nat /\ Len(inbox') \in Nat
      /\ \A i \in 1 .. Len(inbox) : inbox'[i] = inbox[i] /\ i \in 1 .. Len(inbox')
      /\ \A i \in 1 .. Len(inbox') : i \in 1 .. Len(inbox) \/ i \in Len(inbox) + 1 .. Len(inbox')
  BY DEF Shape, TypeOK, NewTold, Grown
<1>2. \A j \in 1 .. Len(inbox') : ~Takes(inbox'[j], p) BY <1>1 DEF Seen
<1>3. p \in known' \/ \E j \in 1 .. Len(inbox') : Live(inbox'[j], call') /\ p \in inbox'[j].paths
  BY <1>1 DEF Seen
<1>4. p \in stale' \/ Right(inbox', call', powered', p, p \in power')
  <2>1. CASE p \in stale BY <2>1
  <2>2. CASE p \notin stale
    <3>1. PICK v \in BOOLEAN : v = (p \in power)
      <4>1. (p \in power) \in BOOLEAN OBVIOUS
      <4> QED BY <4>1, Zenon
    <3>2. Right(inbox, call, powered, p, v) BY <2>2, <3>1 DEF Seen
    <3>3. Right(inbox', call, powered, p, v) BY <1>1, <3>2, RightGrown
    <3>4. v = (p \in power') BY <3>1
    <3> QED BY <3>3, <3>4
  <2> QED BY <2>1, <2>2
<1> QED BY <1>2, <1>3, <1>4 DEF Seen

(* A change is told if the technology is known; if it is only listed it     *)
(* counts as stale.                                                         *)
LEMMA SeenToggled ==
    ASSUME Shape, NewTold, set, UNCHANGED <<call, known, powered>>, NEW p, Seen(p), Toggled(p),
           \A i \in Len(inbox) + 1 .. Len(inbox') : ~Takes(inbox'[i], p),
           p \in known => \E k \in Len(inbox) + 1 .. Len(inbox') :
             /\ inbox'[k].type = "PropertyChanged" /\ inbox'[k].path = p
             /\ inbox'[k].on = (p \notin power)
             /\ \A i \in Len(inbox) + 1 .. Len(inbox') : i # k => ~Tells(inbox'[i], call, p)
    PROVE  Seen(p)'
<1>1. /\ inbox \in Seq(Messages) /\ Len(inbox) \in Nat /\ Len(inbox') \in Nat
      /\ \A i \in 1 .. Len(inbox) : inbox'[i] = inbox[i] /\ i \in 1 .. Len(inbox')
      /\ \A i \in 1 .. Len(inbox') : i \in 1 .. Len(inbox) \/ i \in Len(inbox) + 1 .. Len(inbox')
  BY DEF Shape, TypeOK, NewTold, Grown
<1>2. \A j \in 1 .. Len(inbox') : ~Takes(inbox'[j], p) BY <1>1 DEF Seen
<1>3. p \in known' \/ \E j \in 1 .. Len(inbox') : Live(inbox'[j], call') /\ p \in inbox'[j].paths
  BY <1>1 DEF Seen
<1>4. CASE p \in known
  <2>1. PICK k \in Len(inbox) + 1 .. Len(inbox') :
             /\ inbox'[k].type = "PropertyChanged" /\ inbox'[k].path = p
             /\ inbox'[k].on = (p \notin power)
             /\ \A i \in Len(inbox) + 1 .. Len(inbox') : i # k => ~Tells(inbox'[i], call, p)
    BY <1>4
  <2>2. p \in power' <=> p \notin power BY DEF Toggled, With
  <2>3. Tells(inbox'[k], call', p) BY <2>1 DEF Tells
  <2>4. OnOf(inbox'[k], p) = (p \in power') BY <2>1, <2>2 DEF OnOf
  <2>5. k \in 1 .. Len(inbox') BY <1>1, <2>1
  <2>6. \A j \in k + 1 .. Len(inbox') : j \in Len(inbox) + 1 .. Len(inbox') /\ j # k
    BY <1>1, <2>1
  <2>7. \A j \in k + 1 .. Len(inbox') : ~Tells(inbox'[j], call', p) BY <2>1, <2>6
  <2>8. Right(inbox', call', powered', p, p \in power')
    BY <2>3, <2>4, <2>5, <2>7 DEF Right
  <2> QED BY <1>2, <1>3, <2>8 DEF Seen
<1>5. CASE p \notin known
  <2>1. PICK j \in 1 .. Len(inbox) : Live(inbox[j], call) /\ p \in inbox[j].paths
    BY <1>5 DEF Seen
  <2>2. j \in DOMAIN inbox BY <1>1, <2>1
  <2>3. Listed(p) BY <2>1, <2>2 DEF Listed, Live
  <2>4. p \in stale' BY <1>5, <2>3 DEF Toggled
  <2> QED BY <1>2, <1>3, <2>4 DEF Seen
<1> QED BY <1>4, <1>5

LEMMA AskedGrown ==
    ASSUME Shape, Asked, NewTold, call' = call,
           \/ outbox' = outbox
           \/ outbox # <<>> /\ outbox' = Tail(outbox) /\ Head(outbox) # GetTechnologies(call)
    PROVE  Asked'
<1>1. /\ Len(inbox) \in Nat /\ Len(inbox') \in Nat
      /\ \A i \in 1 .. Len(inbox) : inbox'[i] = inbox[i] /\ i \in 1 .. Len(inbox')
  BY DEF Shape, TypeOK, NewTold, Grown
<1>2. ASSUME NEW i \in 1 .. Len(outbox), outbox[i] = GetTechnologies(call) PROVE Asked'
  <2>1. CASE outbox' = outbox BY <1>2, <2>1 DEF Asked
  <2>2. CASE outbox # <<>> /\ outbox' = Tail(outbox) /\ Head(outbox) # GetTechnologies(call)
    <3>1. /\ Len(outbox) \in Nat /\ Len(outbox') = Len(outbox) - 1 /\ Head(outbox) = outbox[1]
          /\ \A j \in 1 .. Len(outbox) - 1 : outbox'[j] = outbox[j + 1]
      BY <2>2, QueueTail DEF Shape, TypeOK
    <3>2. i - 1 \in 1 .. Len(outbox') /\ i - 1 \in 1 .. Len(outbox) - 1 /\ (i - 1) + 1 = i
      <4>1. i # 1 BY <1>2, <2>2, <3>1
      <4>2. i \in 1 .. Len(outbox) /\ Len(outbox) \in Nat /\ Len(outbox') = Len(outbox) - 1
        BY <1>2, <3>1
      <4> HIDE DEF GetTechnologies
      <4> QED BY <4>1, <4>2
    <3>3. outbox'[i - 1] = GetTechnologies(call) BY <1>2, <3>1, <3>2
    <3> QED BY <3>2, <3>3 DEF Asked
  <2> QED BY <2>1, <2>2
<1> QED BY <1>1, <1>2 DEF Asked

LEMMA RetoldGrown ==
    ASSUME Shape, Retold, NewTold, set' = set, present' \subseteq present,
           \A p \in present' : \A i \in Len(inbox) + 1 .. Len(inbox') : ~Takes(inbox'[i], p)
    PROVE  Retold'
<1>1. /\ Len(inbox) \in Nat /\ Len(inbox') \in Nat /\ Len(inbox) <= Len(inbox')
      /\ \A i \in 1 .. Len(inbox) : inbox'[i] = inbox[i] /\ i \in 1 .. Len(inbox')
      /\ \A i \in 1 .. Len(inbox') : i \in 1 .. Len(inbox) \/ i \in Len(inbox) + 1 .. Len(inbox')
  BY DEF Shape, TypeOK, NewTold, Grown
<1>2. ASSUME set, NEW p \in present', NEW j \in 1 .. Len(inbox'), Takes(inbox'[j], p)
      PROVE  \E k \in j + 1 .. Len(inbox') : Adds(inbox'[k], p)
  <2>1. j \in 1 .. Len(inbox) BY <1>1, <1>2
  <2>2. PICK k \in j + 1 .. Len(inbox) : Adds(inbox[k], p) BY <1>1, <1>2, <2>1 DEF Retold
  <2>3. k \in j + 1 .. Len(inbox') /\ k \in 1 .. Len(inbox) BY <1>1, <2>1, <2>2
  <2> QED BY <1>1, <2>2, <2>3
<1> QED BY <1>2 DEF Retold

(* What the daemon tells on its own, and its answers: a technology that is  *)
(* there stays seen, or the list is asked for, or on its way.               *)
LEMMA PresentDaemon ==
    ASSUME Shape, EndTold, Retold, PresentSeen, Daemon
    PROVE  PresentSeen' /\ Retold'
<1>1. TypeOK /\ Parts BY DEF Shape
<1>2. UNCHANGED <<set, call, known, powered, failed, techIf>>
  BY DEF Daemon, DaemonAdd, DaemonRemove, DaemonToggle, DaemonServe, DaemonList,
        DaemonListError, DaemonSet, DaemonSetError, Serve, DaemonDown, DaemonUp,
        callVars, techVars, history
<1>3. /\ NewTold /\ inbox \in Seq(Messages) /\ inbox' \in Seq(Messages)
      /\ Len(inbox) \in Nat /\ Len(inbox') \in Nat /\ Len(inbox) <= Len(inbox')
      /\ \A i \in 1 .. Len(inbox) : inbox'[i] = inbox[i] /\ i \in 1 .. Len(inbox')
      /\ \A i \in 1 .. Len(inbox') : i \in 1 .. Len(inbox) \/ i \in Len(inbox) + 1 .. Len(inbox')
  <2>1. NewTold BY DaemonTells
  <2>2. inbox \in Seq(Messages) BY <1>1 DEF TypeOK
  <2>3. /\ inbox' \in Seq(Messages) /\ Len(inbox) <= Len(inbox')
        /\ \A i \in 1 .. Len(inbox) : inbox'[i] = inbox[i]
    BY <2>1 DEF NewTold, Grown
  <2>4. Len(inbox) \in Nat /\ Len(inbox') \in Nat BY <2>2, <2>3
  <2>5. /\ \A i \in 1 .. Len(inbox) : i \in 1 .. Len(inbox')
        /\ \A i \in 1 .. Len(inbox') : i \in 1 .. Len(inbox) \/ i \in Len(inbox) + 1 .. Len(inbox')
    BY <2>3, <2>4
  <2> QED BY <2>1, <2>2, <2>3, <2>4, <2>5
<1>4. NoDown(inbox', Len(inbox')) => NoDown(inbox, Len(inbox)) BY <1>3 DEF NoDown
<1>5. ASSUME NEW m \in Messages, inbox' = Append(inbox, m)
      PROVE  /\ Len(inbox') = Len(inbox) + 1 /\ inbox'[Len(inbox) + 1] = m
             /\ Len(inbox) + 1 \in 1 .. Len(inbox')
             /\ Len(inbox) + 1 \in Len(inbox) + 1 .. Len(inbox')
             /\ \A i \in Len(inbox) + 1 .. Len(inbox') : i = Len(inbox) + 1 /\ inbox'[i] = m
  <2>1. Len(inbox') = Len(inbox) + 1 /\ inbox'[Len(inbox) + 1] = m
    BY <1>3, <1>5, QueueAppend
  <2> QED BY <1>3, <2>1
<1>6. ASSUME NEW p \in Paths, NEW on \in BOOLEAN, DaemonAdd(p, on)
      PROVE  PresentSeen' /\ Retold'
  <2> DEFINE m == Signal("TechnologyAdded", p, on)
  <2>1. m \in Messages /\ m.type = "TechnologyAdded" /\ m.path = p
    BY MessageTypes DEF Signal
  <2>2. (set => inbox' = Append(inbox, m)) /\ present' = present \cup {p}
    BY <1>6 DEF DaemonAdd
  <2> HIDE DEF m
  <2>3. CASE ~set BY <1>2, <2>3 DEF PresentSeen, Retold
  <2>4. CASE set
    <3>1. /\ Len(inbox') = Len(inbox) + 1 /\ inbox'[Len(inbox) + 1] = m
          /\ Len(inbox) + 1 \in 1 .. Len(inbox')
      BY <1>5, <2>1, <2>2, <2>4
    <3>2. Asked' BY <2>1, <3>1 DEF Asked
    <3>3. ASSUME NEW q \in present', NEW j \in 1 .. Len(inbox'), Takes(inbox'[j], q)
          PROVE  \E k \in j + 1 .. Len(inbox') : Adds(inbox'[k], q)
      <4>1. j \in 1 .. Len(inbox) /\ inbox'[j] = inbox[j]
        <5>1. j # Len(inbox) + 1 BY <2>1, <3>1, <3>3 DEF Takes
        <5> QED BY <1>3, <3>1, <5>1
      <4>2. CASE q = p
        <5>1. Len(inbox) + 1 \in j + 1 .. Len(inbox') BY <1>3, <3>1, <4>1
        <5> QED BY <2>1, <3>1, <4>2, <5>1 DEF Adds
      <4>3. CASE q # p
        <5>1. PICK k \in j + 1 .. Len(inbox) : Adds(inbox[k], q)
          BY <2>2, <2>4, <3>3, <4>1, <4>3 DEF Retold
        <5>2. k \in j + 1 .. Len(inbox') /\ k \in 1 .. Len(inbox) BY <1>3, <4>1, <5>1
        <5> QED BY <1>3, <5>1, <5>2
      <4> QED BY <4>2, <4>3
    <3> QED BY <3>2, <3>3 DEF PresentSeen, Retold
  <2> QED BY <2>3, <2>4
<1>7. ASSUME NEW p \in Paths, DaemonRemove(p) PROVE PresentSeen' /\ Retold'
  <2> DEFINE m == Signal("TechnologyRemoved", p, FALSE)
  <2>1. m \in Messages /\ m.type = "TechnologyRemoved" /\ m.path = p
    BY MessageTypes DEF Signal
  <2>2. /\ (set => inbox' = Append(inbox, m)) /\ present' = present \ {p}
        /\ power' = power \ {p} /\ UNCHANGED <<alive, outbox, stale>>
    BY <1>7 DEF DaemonRemove
  <2> HIDE DEF m
  <2>3. CASE ~set BY <1>2, <2>3 DEF PresentSeen, Retold
  <2>4. CASE set
    <3>1. \A i \in Len(inbox) + 1 .. Len(inbox') : inbox'[i] = m
      BY <1>5, <2>1, <2>2, <2>4
    <3>2. ASSUME NEW q \in present', NEW i \in Len(inbox) + 1 .. Len(inbox')
          PROVE  ~Takes(inbox'[i], q) /\ ~Tells(inbox'[i], call, q)
      BY <2>1, <2>2, <3>1 DEF Takes, Tells, Live
    <3>3. Retold' BY <1>2, <1>3, <2>2, <3>2, RetoldGrown
    <3>4. ASSUME NEW q \in present', Seen(q) PROVE Seen(q)'
      <4>1. q \in power' <=> q \in power BY <2>2
      <4> QED BY <1>2, <1>3, <2>2, <3>2, <3>4, <4>1, SeenGrown
    <3>5. Asked => Asked' BY <1>2, <1>3, <2>2, AskedGrown
    <3> QED BY <1>2, <1>4, <2>2, <3>3, <3>4, <3>5 DEF PresentSeen
  <2> QED BY <2>3, <2>4
<1>8. ASSUME NEW p \in Paths, DaemonToggle(p) PROVE PresentSeen' /\ Retold'
  <2>1. /\ Len(inbox') = IF p \in known THEN Len(inbox) + 1 ELSE Len(inbox)
        /\ \A i \in Len(inbox) + 1 .. Len(inbox') :
             inbox'[i] = Signal("PropertyChanged", p, p \notin power)
    BY <1>8, ToggleTold
  <2>2. UNCHANGED <<alive, present, outbox>> /\ Toggled(p) BY <1>8 DEF DaemonToggle
  <2>3. \A i \in Len(inbox) + 1 .. Len(inbox') :
          /\ inbox'[i].type = "PropertyChanged" /\ inbox'[i].path = p
          /\ inbox'[i].on = (p \notin power)
    BY <2>1 DEF Signal
  <2>4. \A q : \A i \in Len(inbox) + 1 .. Len(inbox') :
          ~Takes(inbox'[i], q) /\ (q # p => ~Tells(inbox'[i], call, q))
    BY <2>3 DEF Takes, Tells, Live
  <2>5. Retold' BY <1>2, <1>3, <2>2, <2>4, RetoldGrown
  <2>6. ASSUME set, NEW q \in present, Seen(q) PROVE Seen(q)'
    <3>1. CASE q = p
      <4>1. ASSUME p \in known
            PROVE  \E k \in Len(inbox) + 1 .. Len(inbox') :
                     /\ inbox'[k].type = "PropertyChanged" /\ inbox'[k].path = p
                     /\ inbox'[k].on = (p \notin power)
                     /\ \A i \in Len(inbox) + 1 .. Len(inbox') : i # k => ~Tells(inbox'[i], call, p)
        <5>1. Len(inbox') = Len(inbox) + 1 BY <2>1, <4>1
        <5>2. Len(inbox) + 1 \in Len(inbox) + 1 .. Len(inbox') BY <1>3, <5>1
        <5>3. \A i \in Len(inbox) + 1 .. Len(inbox') : i = Len(inbox) + 1 BY <1>3, <5>1
        <5> QED BY <2>3, <5>2, <5>3
      <4> QED BY <1>2, <1>3, <2>2, <2>4, <2>6, <3>1, <4>1, SeenToggled
    <3>2. CASE q # p
      <4>1. q \in power' <=> q \in power BY <2>2, <3>2 DEF Toggled, With
      <4>2. q \in stale => q \in stale' BY <2>2 DEF Toggled
      <4> QED BY <1>2, <1>3, <2>4, <2>6, <3>2, <4>1, <4>2, SeenGrown
    <3> QED BY <3>1, <3>2
  <2>7. Asked => Asked' BY <1>2, <1>3, <2>2, AskedGrown
  <2> QED BY <1>2, <1>4, <2>2, <2>5, <2>6, <2>7 DEF PresentSeen
<1>9. CASE DaemonDown
  <2>1. Note("down") \in Messages /\ Note("down").type = "down" BY MessageTypes DEF Note
  <2>2. inbox' = Append(inbox, Note("down")) /\ alive' = FALSE /\ present' = present
    BY <1>9 DEF DaemonDown
  <2>3. \A i \in Len(inbox) + 1 .. Len(inbox') : inbox'[i].type = "down"
    BY <1>5, <2>1, <2>2
  <2>4. Retold' BY <1>2, <1>3, <2>2, <2>3, RetoldGrown DEF Takes
  <2> QED BY <2>2, <2>4 DEF PresentSeen
<1>10. CASE DaemonUp
  <2>1. Note("up") \in Messages /\ Note("up").type = "up" BY MessageTypes DEF Note
  <2>2. inbox' = Append(inbox, Note("up")) /\ ~alive /\ present' = present
    BY <1>10 DEF DaemonUp
  <2>3. \A i \in Len(inbox) + 1 .. Len(inbox') : inbox'[i].type = "up"
    BY <1>5, <2>1, <2>2
  <2>4. Retold' BY <1>2, <1>3, <2>2, <2>3, RetoldGrown DEF Takes
  <2>5. set => ~NoDown(inbox', Len(inbox'))
    BY <1>1, <1>4, <2>2 DEF Parts, EndTold, NoDown
  <2> QED BY <1>2, <2>4, <2>5 DEF PresentSeen
<1>11. CASE DaemonServe
  <2>1. /\ outbox # <<>> /\ outbox' = Tail(outbox) /\ UNCHANGED <<alive, present, serial>>
    BY <1>11 DEF DaemonServe, DaemonList, DaemonListError, DaemonSet, DaemonSetError, Serve, callVars
  <2>2. /\ Head(outbox) \in ToDaemon /\ Head(outbox).serial \in 1 .. serial /\ serial \in Nat
    BY <1>1, <2>1, OutboxTail DEF TypeOK
  <2>3. ASSUME NEW m \in Messages, m.type \in {"result", "technologies"}, inbox' = Append(inbox, m),
               ~Live(m, call), UNCHANGED <<power, stale>>,
               Head(outbox) = GetTechnologies(call) => m.type = "result" /\ m.serial = call
        PROVE  PresentSeen' /\ Retold'
    <3>1. /\ inbox'[Len(inbox) + 1] = m /\ Len(inbox) + 1 \in 1 .. Len(inbox')
          /\ \A i \in Len(inbox) + 1 .. Len(inbox') : inbox'[i] = m
      BY <1>5, <2>3
    <3>2. \A q : \A i \in Len(inbox) + 1 .. Len(inbox') :
            ~Takes(inbox'[i], q) /\ ~Tells(inbox'[i], call, q)
      BY <2>3, <3>1 DEF Takes, Tells
    <3>3. Retold' BY <1>2, <1>3, <2>1, <3>2, RetoldGrown
    <3>4. ASSUME NEW q, Seen(q) PROVE Seen(q)'
      BY <1>2, <1>3, <2>3, <3>2, <3>4, SeenGrown
    <3>5. Asked => Asked'
      <4>1. CASE Head(outbox) = GetTechnologies(call)
        BY <1>2, <2>3, <3>1, <4>1 DEF Asked
      <4>2. CASE Head(outbox) # GetTechnologies(call)
        BY <1>2, <1>3, <2>1, <4>2, AskedGrown
      <4> QED BY <4>1, <4>2
    <3> QED BY <1>2, <1>4, <2>1, <3>3, <3>4, <3>5 DEF PresentSeen
  <2>4. CASE DaemonListError \/ DaemonSetError
    <3>1. PICK m : m = Result(Head(outbox).serial, FALSE) OBVIOUS
    <3>2. m \in Messages
      <4>1. Head(outbox).serial \in Nat /\ FALSE \in BOOLEAN BY <2>2
      <4> QED BY <3>1, <4>1, MessageTypes
    <3>3. m.type = "result" /\ m.serial = Head(outbox).serial BY <3>1 DEF Result
    <3>4. inbox' = Append(inbox, m) /\ UNCHANGED <<power, stale>>
      BY <2>4, <3>1 DEF DaemonListError, DaemonSetError
    <3>5. Head(outbox) = GetTechnologies(call) => m.serial = call
      BY <3>3 DEF GetTechnologies
    <3>6. ~Live(m, call) BY <3>3 DEF Live
    <3> QED BY <2>3, <3>2, <3>3, <3>4, <3>5, <3>6
  <2>5. CASE DaemonList
    <3>1. PICK m : m = Technologies(Head(outbox).serial) OBVIOUS
    <3>2. m \in Messages
      <4>1. Head(outbox).serial \in Nat BY <2>2
      <4> QED BY <1>1, <3>1, <4>1, ListType DEF TypeOK
    <3>3. m.type = "technologies" /\ m.serial = Head(outbox).serial
          /\ m.paths = present /\ m.on = power
      BY <3>1 DEF Technologies
    <3>4. inbox' = Append(inbox, m) /\ UNCHANGED <<power, stale>>
      BY <2>5, <3>1 DEF DaemonList
    <3>5. Head(outbox) = GetTechnologies(Head(outbox).serial)
      BY <2>2, <2>5, CallFields DEF DaemonList, Serve
    <3>6. CASE Head(outbox).serial # call
      <4>1. ~Live(m, call) BY <3>3, <3>6 DEF Live
      <4>2. Head(outbox) # GetTechnologies(call) BY <3>6 DEF GetTechnologies
      <4> QED BY <2>3, <3>2, <3>3, <3>4, <4>1, <4>2
    <3>7. CASE Head(outbox).serial = call
      <4>1. /\ inbox'[Len(inbox) + 1] = m /\ Len(inbox) + 1 \in 1 .. Len(inbox')
            /\ Len(inbox') = Len(inbox) + 1
            /\ \A i \in Len(inbox) + 1 .. Len(inbox') : inbox'[i] = m
        BY <1>5, <3>2, <3>4
      <4>2. Retold' BY <1>2, <1>3, <2>1, <3>3, <4>1, RetoldGrown DEF Takes
      <4>3. CASE \E i \in 1 .. Len(inbox') : inbox'[i].type = "TechnologyAdded"
        BY <4>2, <4>3 DEF PresentSeen, Asked
      <4>4. CASE \A i \in 1 .. Len(inbox') : inbox'[i].type # "TechnologyAdded"
        <5>1. ASSUME set, NEW p \in present PROVE Seen(p)'
          <6>1. \A j \in 1 .. Len(inbox') : ~Takes(inbox'[j], p)
            <7>1. ASSUME NEW j \in 1 .. Len(inbox'), Takes(inbox'[j], p) PROVE FALSE
              <8>1. PICK k \in j + 1 .. Len(inbox') : Adds(inbox'[k], p)
                BY <1>2, <2>1, <4>2, <5>1, <7>1 DEF Retold
              <8>2. k \in 1 .. Len(inbox') BY <1>3, <7>1, <8>1
              <8> QED BY <4>4, <8>1, <8>2 DEF Adds
            <7> QED BY <7>1
          <6>2. Live(inbox'[Len(inbox) + 1], call') /\ p \in inbox'[Len(inbox) + 1].paths
            BY <1>2, <3>3, <3>7, <4>1, <5>1 DEF Live
          <6>3. Tells(inbox'[Len(inbox) + 1], call', p) BY <6>2 DEF Tells
          <6>4. OnOf(inbox'[Len(inbox) + 1], p) = (p \in power')
            BY <3>3, <3>4, <4>1 DEF OnOf
          <6>5. \A j \in (Len(inbox) + 1) + 1 .. Len(inbox') : FALSE BY <1>3, <4>1
          <6>6. Right(inbox', call', powered', p, p \in power')
            BY <4>1, <6>3, <6>4, <6>5 DEF Right
          <6> QED BY <4>1, <6>1, <6>2, <6>6 DEF Seen
        <5> QED BY <1>2, <2>1, <4>2, <5>1 DEF PresentSeen
      <4> QED BY <4>3, <4>4
    <3> QED BY <3>6, <3>7
  <2>6. CASE DaemonSet
    <3> DEFINE h == Head(outbox).path
    <3>1. Toggled(h) /\ Head(outbox).type = "SetPowered" BY <2>6 DEF DaemonSet, Serve
    <3>2. Answer.type = "result" /\ Change.type = "PropertyChanged" /\ Change.path = h
          /\ Change.on = (h \notin power)
      BY DEF Answer, Change, Result, Signal
    <3>3. \A i \in Len(inbox) + 1 .. Len(inbox') : inbox'[i] = Answer \/ inbox'[i] = Change
      BY <2>6, SetTold DEF Answer, Change
    <3> HIDE DEF h
    <3>4. \A q : \A i \in Len(inbox) + 1 .. Len(inbox') :
            ~Takes(inbox'[i], q) /\ (q # h => ~Tells(inbox'[i], call, q))
      BY <3>2, <3>3 DEF Takes, Tells, Live
    <3>5. Retold' BY <1>2, <1>3, <2>1, <3>4, RetoldGrown
    <3>6. ASSUME h \in known
          PROVE  \E k \in Len(inbox) + 1 .. Len(inbox') :
                   /\ inbox'[k].type = "PropertyChanged" /\ inbox'[k].path = h
                   /\ inbox'[k].on = (h \notin power)
                   /\ \A i \in Len(inbox) + 1 .. Len(inbox') : i # k => ~Tells(inbox'[i], call, h)
      <4>1. /\ Len(inbox') = Len(inbox) + 2
            /\ \/ inbox'[Len(inbox) + 1] = Change /\ inbox'[Len(inbox) + 2] = Answer
               \/ inbox'[Len(inbox) + 1] = Answer /\ inbox'[Len(inbox) + 2] = Change
        BY <2>6, <3>6, SetTells DEF h
      <4>2. /\ Len(inbox) + 1 \in Len(inbox) + 1 .. Len(inbox')
            /\ Len(inbox) + 2 \in Len(inbox) + 1 .. Len(inbox')
            /\ \A i \in Len(inbox) + 1 .. Len(inbox') : i = Len(inbox) + 1 \/ i = Len(inbox) + 2
        BY <1>3, <4>1
      <4>3. ~Tells(Answer, call, h) BY <3>2 DEF Tells, Live
      <4>4. CASE inbox'[Len(inbox) + 1] = Change /\ inbox'[Len(inbox) + 2] = Answer
        BY <3>2, <4>2, <4>3, <4>4
      <4>5. CASE inbox'[Len(inbox) + 1] = Answer /\ inbox'[Len(inbox) + 2] = Change
        BY <3>2, <4>2, <4>3, <4>5
      <4> QED BY <4>1, <4>4, <4>5
    <3>7. ASSUME set, NEW q \in present, Seen(q) PROVE Seen(q)'
      <4>1. CASE q = h
        BY <1>2, <1>3, <3>1, <3>4, <3>6, <3>7, <4>1, SeenToggled
      <4>2. CASE q # h
        <5>1. q \in power' <=> q \in power BY <3>1, <4>2 DEF Toggled, With
        <5>2. q \in stale => q \in stale' BY <3>1 DEF Toggled
        <5> QED BY <1>2, <1>3, <3>4, <3>7, <4>2, <5>1, <5>2, SeenGrown
      <4> QED BY <4>1, <4>2
    <3>8. Asked => Asked'
      <4>1. Head(outbox) # GetTechnologies(call) BY <3>1 DEF GetTechnologies
      <4> QED BY <1>2, <1>3, <2>1, <4>1, AskedGrown
    <3> QED BY <1>2, <1>4, <2>1, <3>5, <3>7, <3>8 DEF PresentSeen
  <2> QED BY <1>11, <2>4, <2>5, <2>6 DEF DaemonServe
<1> QED BY <1>6, <1>7, <1>8, <1>9, <1>10, <1>11 DEF Daemon

(* A click may send a call; nothing else the user does matters here.        *)
LEMMA PresentUser ==
    ASSUME Shape, Retold, PresentSeen,
           \/ UNCHANGED vars
           \/ User
           \/ \E s \in 1 .. serial : scan_callback(s)
    PROVE  PresentSeen' /\ Retold'
<1>1. UNCHANGED <<inbox, call, set, known, powered, alive, present, power, stale, failed>>
  BY DEF User, cui_popup_right_menu, cui_popdown_right_menu, scan_callback,
        gtk_technology_button_release_event, connman_technology_scan, vars, busVars, callVars,
        techVars, history
<1>2. outbox' = outbox \/ \E p \in Paths : gtk_technology_button_release_event(p)
  BY DEF User, cui_popup_right_menu, cui_popdown_right_menu, scan_callback,
        connman_technology_scan, vars, busVars, callVars
<1>3. ASSUME NEW p \in Paths, gtk_technology_button_release_event(p), outbox' # outbox
      PROVE  /\ Len(outbox) \in Nat /\ Len(outbox') \in Nat /\ Len(outbox) <= Len(outbox')
             /\ \A i \in 1 .. Len(outbox) : outbox'[i] = outbox[i]
  <2>1. PICK on \in BOOLEAN : on = (p \notin switch) OBVIOUS
  <2>2. outbox' = Sent(SetPowered(p, on, serial + 1)) /\ serial' = serial + 1
    BY <1>3, <2>1 DEF gtk_technology_button_release_event
  <2>3. serial + 1 \in Nat /\ outbox \in Seq(ToDaemon) BY DEF Shape, TypeOK
  <2>4. SetPowered(p, on, serial + 1) \in ToDaemon BY <2>3, MessageTypes
  <2>5. SetPowered(p, on, serial + 1).serial = serial + 1 BY DEF SetPowered
  <2> HIDE DEF SetPowered
  <2>6. outbox' \in Seq(ToDaemon) /\ Grown(outbox, outbox') BY <2>2, <2>4, <2>5, OutboxGrows
  <2> QED BY <2>3, <2>6 DEF Grown
<1>4. Asked => Asked'
  <2>1. CASE outbox' = outbox BY <1>1, <2>1 DEF Asked
  <2>2. CASE outbox' # outbox
    <3>1. \A i \in 1 .. Len(outbox) : i \in 1 .. Len(outbox') /\ outbox'[i] = outbox[i]
      BY <1>2, <1>3, <2>2
    <3> QED BY <1>1, <3>1 DEF Asked
  <2> QED BY <2>1, <2>2
<1>5. \A p : Seen(p) => Seen(p)' BY <1>1 DEF Seen
<1> QED BY <1>1, <1>4, <1>5 DEF PresentSeen, Retold, NoDown

(* The table agrees with the daemon once nothing is on its way, but for the *)
(* two gaps between a list and the watch for the signals                    *)
(* (get_technologies_cb and technology_added_cb of lib/technology.c).       *)
THEOREM TableCorrect == Spec => []TableAccurate
<1> DEFINE Inv == Removals /\ EndTold /\ Numbered /\ Retold /\ PresentSeen
<1>1. Init => Inv
  <2> SUFFICES ASSUME Init PROVE Inv OBVIOUS
  <2>1. ~Live(Note("up"), call) /\ ~IsAnswer(Note("up")) BY DEF Live, Note, IsAnswer
  <2>2. \A i \in 1 .. Len(inbox) : inbox[i] = Note("up") BY DEF Init
  <2>3. FirstListLast BY <2>1, <2>2 DEF FirstListLast
  <2>4. Numbered BY <2>1, <2>2 DEF Init, Numbered
  <2> QED
    BY <2>3, <2>4 DEF Init, Removals, AddsAbsent, GoneAbsent, EndTold, Retold, PresentSeen
<1>2. Shape /\ Inv /\ [Next]_vars => Inv'
  <2> SUFFICES ASSUME Shape, Inv, [Next]_vars PROVE Inv' OBVIOUS
  <2>1. PresentSeen' /\ Retold'
    <3>1. CASE MainLoop BY <3>1, PresentMain, RetoldMain
    <3>2. CASE Daemon BY <3>2, PresentDaemon
    <3> QED BY <3>1, <3>2, PresentUser DEF Next
  <2> QED BY <2>1, RemovalsNext, EndToldNext, NumberedNext
<1>3. Shape /\ Inv => TableAccurate
  <2> SUFFICES ASSUME Shape, Inv, Settled PROVE TableAccurate BY DEF TableAccurate
  <2>1. inbox = <<>> /\ outbox = <<>> /\ set /\ alive /\ ~failed /\ Len(inbox) = 0
    BY DEF Settled
  <2>2. NoDown(inbox, Len(inbox)) BY <2>1 DEF NoDown
  <2>3. ~Asked BY <2>1 DEF Asked
  <2>4. \A p \in present : Seen(p) BY <2>1, <2>2, <2>3 DEF PresentSeen
  <2>5. \A p \in present : p \in known /\ (p \in stale \/ (p \in powered <=> p \in power))
    BY <2>1, <2>4 DEF Seen, Right
  <2>6. known \ present \subseteq ghosts
    BY <2>1, <2>2 DEF Removals, GoneAbsent, Absent, Shape, TypeOK
  <2> QED BY <2>5, <2>6 DEF TableAccurate
<1> QED BY ShapeInit, ShapeNext, <1>1, <1>2, <1>3, PTL DEF Spec
=============================================================================
