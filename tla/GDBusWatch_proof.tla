-------------------------- MODULE GDBusWatch_proof --------------------------
(***************************************************************************)
(* Proofs about GDBusWatch: filters, match rules, name watches, owners and *)
(* callbacks are in order in every reachable state, also when a signal has *)
(* two filters or the bus refuses to drop a rule, and the lists implement  *)
(* WatchSpec.                                                              *)
(***************************************************************************)
EXTENDS GDBusWatch, TLAPS

(* Numbers are given out once, in turn: to watches and to filters.          *)
Numbers ==
    /\ \A f \in Filters : List(f) \subseteq 1 .. listener_id
    /\ listeners \cup rules \subseteq 0 .. listener_id

(* The service watch is there first and stays; its filter is the only one   *)
(* that is not a signal's.                                                  *)
ServiceFirst ==
    /\ listener_id # 0 => 0 \in listeners /\ 1 \in List(0)
    /\ listener_id = 0 => listeners = {} /\ ~asked
    /\ 1 \notin NameWatches
    /\ rule[0] = Owner
    /\ \A f \in listeners \ {0} : rule[f] \in Signals

(* An owner is remembered by signal filters only. *)
OwnerOfSignals == \A f \in Filters : f = 0 \/ f \notin listeners => owner[f] = None

(* The watch that runs is no name watch, and if it is still on a list then  *)
(* on one of the filter that calls it.                                      *)
RunningOwn ==
    /\ running \in 0 .. listener_id
    /\ running # 0 => running \notin NameWatches
    /\ running # 0 /\ locked # None =>
         \A f \in Filters \ {locked} : running \notin List(f)

(* Only a second filter of a signal is dispatched with one to be deleted.   *)
Deleting ==
    /\ locked = None => delete_listener = {}
    /\ \A f \in delete_listener : rule[f] = rule[locked] /\ f < locked
    /\ delete_listener # {} => rule[locked] \in twins
    /\ broken => locked # None /\ running = 0

IInv ==
    /\ TypeOK
    /\ FiltersInUse /\ OneRulePerFilter /\ NameWatchPerFilter
    /\ OneList /\ OwnerCurrent /\ FaultNeedsTwins
    /\ Numbers /\ ServiceFirst /\ OwnerOfSignals /\ RunningOwn /\ Deleting

-----------------------------------------------------------------------------
(* What the constants are. *)
LEMMA ConstantFacts ==
    /\ Owner \in Keys /\ Owner \notin Signals /\ Signals \subseteq Keys
    /\ None \notin Keys /\ None \notin Filters
    /\ None \notin Names \cup {Gone} /\ Gone \notin Names
    /\ MaxId \in Nat /\ 0 \in Filters /\ Filters \subseteq Nat
  BY ConstAssumption DEF Keys, Filters

(* A filter is a number, the locked one too. *)
LEMMA LockedFacts ==
    ASSUME IInv, locked # None
    PROVE  /\ locked \in listeners /\ locked \in Filters /\ locked \in Nat
           /\ listener_id # 0 /\ rule[locked] \in Keys /\ rule[locked] # None
<1>1. locked \in listeners /\ locked \in Filters /\ locked \in Nat
  BY ConstantFacts DEF IInv, TypeOK
<1>2. listener_id # 0
  BY <1>1 DEF IInv, ServiceFirst
<1>3. rule[locked] \in Keys
  BY <1>1, ConstantFacts DEF IInv, ServiceFirst
<1> QED  BY <1>1, <1>2, <1>3, ConstantFacts

(* Name watches are on the list of filter 0 and on no other, and each is    *)
(* the name watch of a filter.                                              *)
LEMMA NameWatchFacts ==
    ASSUME IInv
    PROVE  /\ \A f \in listeners \ {0} :
                /\ name_watch[f] \in List(0) /\ name_watch[f] \in NameWatches
                /\ name_watch[f] # 0
           /\ \A f \in Filters \ {0} : List(f) \cap NameWatches = {}
           /\ \A x \in NameWatches : x # 0 =>
                x \in List(0) /\ \E f \in listeners \ {0} : x = name_watch[f]
<1>1. ASSUME NEW f \in listeners \ {0}
      PROVE  name_watch[f] \in List(0) /\ name_watch[f] \in NameWatches
             /\ name_watch[f] # 0
  <2>1. f \in Filters /\ name_watch[f] \in List(0)
    BY DEF IInv, TypeOK, NameWatchPerFilter
  <2>2. List(0) \subseteq 1 .. listener_id
    BY ConstantFacts DEF IInv, Numbers
  <2> QED  BY <2>1, <2>2 DEF NameWatches
<1>2. ASSUME NEW x \in NameWatches, x # 0
      PROVE  x \in List(0) /\ \E f \in listeners \ {0} : x = name_watch[f]
  <2>1. PICK f \in Filters : x = name_watch[f]
    BY <1>2 DEF NameWatches
  <2>2. f \in listeners \ {0}
    BY <1>2, <2>1 DEF IInv, NameWatchPerFilter
  <2> QED  BY <1>1, <2>1, <2>2
<1>3. ASSUME NEW f \in Filters \ {0}, NEW x \in List(f), x \in NameWatches
      PROVE  FALSE
  <2>1. x # 0
    BY <1>3 DEF IInv, Numbers
  <2>2. x \in List(0)
    BY <1>2, <1>3, <2>1
  <2> QED  BY <2>2, ConstantFacts DEF IInv, OneList
<1> QED  BY <1>1, <1>2, <1>3

(* The service watch keeps the filter 0 from ever being empty.              *)
LEMMA ServiceFacts ==
    ASSUME IInv, 0 \in listeners
    PROVE  /\ 1 \in List(0) /\ listener_id \in Nat /\ listener_id >= 1
           /\ locked # 0 => 1 \in callbacks[0]
           /\ 0 \notin delete_listener
           /\ \A f \in Filters \ {0} : 1 \notin List(f)
<1>1. listener_id \in Nat /\ listener_id # 0
  BY ConstantFacts DEF IInv, ServiceFirst, TypeOK
<1>2. 1 \in List(0)
  BY <1>1 DEF IInv, ServiceFirst
<1>3. locked # 0 => 1 \in callbacks[0]
  BY <1>2 DEF IInv, FiltersInUse, List
<1>4. 0 \notin delete_listener
  <2> SUFFICES ASSUME 0 \in delete_listener PROVE FALSE
    OBVIOUS
  <2>1. locked # None /\ rule[locked] = Owner /\ 0 < locked
    BY DEF IInv, Deleting, ServiceFirst
  <2>2. locked \in listeners \ {0}
    BY <2>1, LockedFacts
  <2> QED  BY <2>1, <2>2, ConstantFacts DEF IInv, ServiceFirst
<1>5. \A f \in Filters \ {0} : 1 \notin List(f)
  BY <1>2, ConstantFacts DEF IInv, OneList
<1> QED  BY <1>1, <1>2, <1>3, <1>4, <1>5

(* Two filters have one rule only if the signal has had a second filter.    *)
LEMMA TwinFacts ==
    ASSUME IInv, NEW f \in listeners, NEW g \in listeners, f # g, rule[f] = rule[g]
    PROVE  rule[f] \in twins
  BY DEF IInv, OneRulePerFilter

(* The initial state. *)
LEMMA InvInit == Init => IInv
<1> SUFFICES ASSUME Init PROVE IInv
  OBVIOUS
<1>1. \A f \in Filters : List(f) = {}
  BY DEF Init, List
<1>2. TypeOK
  <2>1. rule \in [Filters -> Keys \cup {None}]
    BY ConstantFacts DEF Init
  <2>2. owner \in [Filters -> Names \cup {Gone, None}]
    BY DEF Init
  <2>3. /\ callbacks \in [Filters -> SUBSET (1 .. MaxId)]
        /\ processed \in [Filters -> SUBSET (1 .. MaxId)]
    BY DEF Init
  <2>4. name_watch \in [Filters -> 0 .. MaxId] /\ listener_id \in 0 .. MaxId
        /\ running \in 0 .. MaxId
    BY ConstantFacts DEF Init
  <2> QED  BY <2>1, <2>2, <2>3, <2>4 DEF Init, TypeOK
<1>3. FiltersInUse /\ OneRulePerFilter /\ OneList
  BY <1>1 DEF Init, FiltersInUse, OneRulePerFilter, OneList
<1>4. NameWatchPerFilter /\ OwnerCurrent /\ FaultNeedsTwins
  BY <1>1 DEF Init, NameWatchPerFilter, OwnerCurrent, FaultNeedsTwins
<1>5. Numbers
  BY <1>1 DEF Init, Numbers
<1>6. ServiceFirst /\ OwnerOfSignals
  <2>1. 1 \notin NameWatches
    BY DEF Init, NameWatches
  <2>2. rule[0] = Owner
    BY ConstantFacts DEF Init
  <2> QED  BY <2>1, <2>2 DEF Init, ServiceFirst, OwnerOfSignals
<1>7. RunningOwn /\ Deleting
  BY DEF Init, RunningOwn, Deleting
<1> QED
  BY <1>2, <1>3, <1>4, <1>5, <1>6, <1>7 DEF IInv
-----------------------------------------------------------------------------
(* A step that adds no watch: the callbacks in gone are taken off the lists *)
(* and the filters in freed are freed, with their name watches; i is the    *)
(* one watch of another kind in gone, if there is one.                      *)
Drop(i, gone, freed) ==
    /\ freed \subseteq listeners \ {0}
    /\ gone \subseteq {i} \cup NameWatches
    /\ i = 0 \/ (i \in gone /\ i \notin NameWatches)
    /\ 1 \notin gone
    /\ \A f \in listeners \ {0} : name_watch[f] \in gone <=> f \in freed
    /\ \A f \in freed : List(f) \subseteq gone
    /\ \A f \in Filters : List(f)' = List(f) \ gone
    /\ listeners' = listeners \ freed
    /\ \A f \in Filters : name_watch'[f] = IF f \in freed THEN 0 ELSE name_watch[f]
    /\ rules' \subseteq rules /\ refused \subseteq refused'
    /\ rules \ rules' \subseteq freed
    /\ \A f \in freed : f \in rules' => rule[f] \in refused'
    /\ UNCHANGED <<rule, listener_id, twins>>
    /\ asked' \in {asked, FALSE}

(* The owners are kept by all but the filters freed.                        *)
OwnersKept(freed) ==
    /\ \A f \in Filters : owner'[f] = IF f \in freed THEN None ELSE owner[f]
    /\ daemon' = daemon

(* The callbacks on two lists of one filter, and on the lists of two.       *)
ListsApart == \A f \in Filters : callbacks[f] \cap processed[f] = {}
FiltersApart == \A f, g \in Filters : List(f) \cap List(g) # {} => f = g
ListsGone == \A f \in Filters \ listeners : List(f) = {}

(* The name watches left are those that are not among the callbacks gone.   *)
LEMMA DropNameWatches ==
    ASSUME IInv, NEW i, NEW gone, NEW freed, Drop(i, gone, freed)
    PROVE  /\ NameWatches' \subseteq NameWatches \cup {0}
           /\ \A x \in NameWatches : x # 0 /\ x \notin gone => x \in NameWatches'
           /\ \A x \in NameWatches' : x # 0 => x \notin gone
<1>1. ASSUME NEW x \in NameWatches', x # 0
      PROVE  x \in NameWatches /\ x \notin gone
  <2>1. PICK f \in Filters : x = name_watch'[f]
    BY <1>1 DEF NameWatches
  <2>2. f \notin freed /\ x = name_watch[f]
    BY <1>1, <2>1 DEF Drop
  <2>3. f \in listeners \ {0}
    BY <1>1, <2>2 DEF IInv, NameWatchPerFilter
  <2> QED  BY <2>2, <2>3 DEF Drop, NameWatches
<1>2. ASSUME NEW x \in NameWatches, x # 0, x \notin gone
      PROVE  x \in NameWatches'
  <2>1. PICK f \in listeners \ {0} : x = name_watch[f]
    BY <1>2, NameWatchFacts
  <2>2. f \in Filters /\ f \notin freed
    BY <1>2, <2>1 DEF Drop, IInv, TypeOK
  <2>3. x = name_watch'[f]
    BY <2>1, <2>2 DEF Drop
  <2> QED  BY <2>2, <2>3 DEF NameWatches
<1> QED  BY <1>1, <1>2

(* What such a step keeps. *)
LEMMA DropKeeps ==
    ASSUME IInv, NEW i, NEW gone, NEW freed, Drop(i, gone, freed)
    PROVE  /\ OneRulePerFilter' /\ NameWatchPerFilter' /\ FiltersApart'
           /\ ListsGone' /\ Numbers' /\ ServiceFirst'
<1>1. OneRulePerFilter'
  BY DEF Drop, IInv, OneRulePerFilter
<1>2. NameWatchPerFilter'
  <2>1. ASSUME NEW f \in Filters
        PROVE  IF f \in listeners' \ {0} THEN name_watch'[f] \in List(0)'
               ELSE name_watch'[f] = 0
    <3>1. CASE f \in listeners' \ {0}
      <4>1. f \in listeners \ {0} /\ f \notin freed
        BY <3>1 DEF Drop
      <4>2. name_watch[f] \in List(0) /\ name_watch[f] \notin gone
        BY <4>1, NameWatchFacts DEF Drop
      <4>3. List(0)' = List(0) \ gone /\ name_watch'[f] = name_watch[f]
        BY <4>1, ConstantFacts DEF Drop
      <4> QED  BY <3>1, <4>2, <4>3
    <3>2. CASE f \notin listeners' \ {0}
      BY <3>2 DEF Drop, IInv, NameWatchPerFilter
    <3> QED  BY <3>1, <3>2
  <2>2. ASSUME NEW f \in Filters, NEW g \in Filters,
               name_watch'[f] = name_watch'[g], name_watch'[f] # 0
        PROVE  f = g
    BY <2>2 DEF Drop, IInv, NameWatchPerFilter
  <2> QED  BY <2>1, <2>2 DEF NameWatchPerFilter
<1>3. FiltersApart'
  BY DEF Drop, IInv, OneList, FiltersApart
<1>4. ListsGone'
  BY DEF Drop, IInv, FiltersInUse, ListsGone
<1>5. Numbers'
  BY DEF Drop, IInv, Numbers
<1>6. ServiceFirst'
  <2>1. 1 \notin NameWatches'
    BY DropNameWatches DEF IInv, ServiceFirst
  <2>2. listener_id' # 0 => 0 \in listeners' /\ 1 \in List(0)'
    BY ConstantFacts DEF Drop, IInv, ServiceFirst
  <2>3. listener_id' = 0 => listeners' = {} /\ ~asked'
    <3>1. listener_id' = 0 => ~asked'
      BY DEF Drop, IInv, ServiceFirst
    <3> QED  BY <3>1 DEF Drop, IInv, ServiceFirst
  <2>4. rule'[0] = Owner /\ \A f \in listeners' \ {0} : rule'[f] \in Signals
    BY DEF Drop, IInv, ServiceFirst
  <2> QED  BY <2>1, <2>2, <2>3, <2>4 DEF ServiceFirst
<1> QED  BY <1>1, <1>2, <1>3, <1>4, <1>5, <1>6

(* The owners, when they are kept. *)
LEMMA DropKeepsOwners ==
    ASSUME IInv, NEW i, NEW gone, NEW freed, Drop(i, gone, freed), OwnersKept(freed)
    PROVE  OwnerCurrent' /\ OwnerOfSignals'
<1>1. OwnerCurrent'
  BY DEF Drop, OwnersKept, IInv, TypeOK, OwnerCurrent
<1>2. OwnerOfSignals'
  BY DEF Drop, OwnersKept, IInv, OwnerOfSignals
<1> QED  BY <1>1, <1>2

(* The watch that runs, unless another one is called.                       *)
LEMMA DropKeepsRunning ==
    ASSUME IInv, NEW i, NEW gone, NEW freed, Drop(i, gone, freed),
           \/ running' = 0
           \/ running' = running /\ locked' = locked
    PROVE  RunningOwn'
<1>0. listener_id \in Nat /\ listener_id' = listener_id
  BY ConstantFacts DEF IInv, TypeOK, Drop
<1>1. CASE running' = 0
  BY <1>0, <1>1 DEF RunningOwn
<1>2. CASE running' = running /\ locked' = locked
  <2>1. running' # 0 => running' \notin NameWatches'
    BY <1>2, DropNameWatches DEF IInv, RunningOwn
  <2>2. running' # 0 /\ locked' # None =>
          \A f \in Filters \ {locked'} : running' \notin List(f)'
    BY <1>2 DEF Drop, IInv, RunningOwn
  <2> QED  BY <1>0, <1>2, <2>1, <2>2 DEF IInv, RunningOwn
<1> QED  BY <1>1, <1>2

(* Those that hold watches see i go, and nothing else.                      *)
LEMMA DropOwned ==
    ASSUME IInv, NEW i, NEW gone, NEW freed, Drop(i, gone, freed), NEW k
    PROVE  Owned(k)' = Owned(k) \ {i}
<1>1. ASSUME NEW x \in Owned(k)'
      PROVE  x \in Owned(k) /\ x # i
  <2>1. x \in 1 .. MaxId /\ x \notin NameWatches'
    BY DEF Owned
  <2>2. PICK f \in listeners' : rule'[f] = k /\ x \in List(f)'
    BY DEF Owned
  <2>3. f \in Filters /\ f \in listeners /\ rule[f] = k /\ x \in List(f) /\ x \notin gone
    BY <2>2 DEF Drop, IInv, TypeOK
  <2>4. x # 0
    BY <2>1
  <2>5. x # i
    BY <2>3, <2>4 DEF Drop
  <2>6. x \notin NameWatches
    BY <2>1, <2>3, <2>4, DropNameWatches
  <2> QED  BY <2>1, <2>3, <2>5, <2>6 DEF Owned
<1>2. ASSUME NEW x \in Owned(k), x # i
      PROVE  x \in Owned(k)'
  <2>1. x \in 1 .. MaxId /\ x \notin NameWatches /\ x # 0
    BY DEF Owned
  <2>2. PICK f \in listeners : rule[f] = k /\ x \in List(f)
    BY DEF Owned
  <2>3. x \notin gone
    BY <1>2, <2>1 DEF Drop
  <2>4. f \in Filters /\ f \in listeners' /\ rule'[f] = k /\ x \in List(f)'
    BY <2>2, <2>3 DEF Drop, IInv, TypeOK
  <2>5. x \notin NameWatches'
    BY <2>1, DropNameWatches
  <2> QED  BY <2>1, <2>4, <2>5 DEF Owned
<1> QED  BY <1>1, <1>2
-----------------------------------------------------------------------------
(* The watches to be called are those on the lists callbacks of the locked  *)
(* filter and of the later ones of its rule.                                *)
LEMMA TodoIs ==
    ASSUME OwnerCurrent, locked # None, locked \in listeners, NEW x
    PROVE  x \in Todo <=>
             /\ x \in 1 .. MaxId /\ x \notin NameWatches
             /\ \E f \in listeners : /\ rule[f] = rule[locked]
                                     /\ f = locked \/ f > locked
                                     /\ x \in callbacks[f]
  BY DEF Todo, Later, Matching, OwnerCurrent

LEMMA TodoIsNext ==
    ASSUME OwnerCurrent', locked' # None, locked' \in listeners', NEW x
    PROVE  x \in Todo' <=>
             /\ x \in 1 .. MaxId /\ x \notin NameWatches'
             /\ \E f \in listeners' : /\ rule'[f] = rule'[locked']
                                      /\ f = locked' \/ f > locked'
                                      /\ x \in callbacks'[f]
  BY DEF Todo, Later, Matching, OwnerCurrent

(* The parts of the invariant. *)
StaysInUse ==
    \A f \in listeners :
        f # locked =>
            /\ processed[f] = {}
            /\ callbacks[f] # {} \/ f \in delete_listener \/ rule[f] \in refused

LEMMA InvParts ==
    ASSUME TypeOK', StaysInUse', ListsGone', OneRulePerFilter', NameWatchPerFilter',
           ListsApart', FiltersApart', OwnerCurrent', FaultNeedsTwins', Numbers',
           ServiceFirst', OwnerOfSignals', RunningOwn', Deleting'
    PROVE  IInv'
<1>1. FiltersInUse'
  BY DEF FiltersInUse, StaysInUse, ListsGone
<1>2. OneList'
  BY DEF OneList, ListsApart, FiltersApart
<1> QED  BY <1>1, <1>2 DEF IInv

(* A step that changes no list of any filter. *)
SameLists ==
    /\ \A f \in Filters : List(f)' = List(f)
    /\ UNCHANGED <<listeners, rule, name_watch, rules, listener_id, history>>
    /\ asked' \in {asked, FALSE}

LEMMA SameListsDrop ==
    ASSUME IInv, SameLists
    PROVE  Drop(0, {}, {})
  BY DEF SameLists, Drop, history, IInv, TypeOK

LEMMA SameOwned ==
    ASSUME IInv, SameLists, NEW k
    PROVE  Owned(k)' = Owned(k)
<1>1. Owned(k)' = Owned(k) \ {0}
  BY SameListsDrop, DropOwned
<1>2. 0 \notin Owned(k)
  BY DEF Owned
<1> QED  BY <1>1, <1>2

(* What a step keeps that moves no callback: it locks a filter, calls a     *)
(* watch, or goes wrong.                                                    *)
LEMMA QuietKeeps ==
    ASSUME IInv, UNCHANGED <<listVars, listener_id, delete_listener, history>>,
           asked' \in {asked, FALSE},
           locked' \in listeners \cup {None}, locked' = locked \/ locked = None
    PROVE  /\ SameLists /\ StaysInUse' /\ ListsGone' /\ OneRulePerFilter'
           /\ NameWatchPerFilter' /\ ListsApart' /\ FiltersApart' /\ Numbers'
           /\ ServiceFirst'
           /\ locked' = None => delete_listener' = {}
           /\ \A f \in delete_listener' : rule'[f] = rule'[locked'] /\ f < locked'
           /\ delete_listener' # {} => rule'[locked'] \in twins'
<1>1. SameLists
  BY DEF SameLists, listVars, List
<1>2. /\ OneRulePerFilter' /\ NameWatchPerFilter' /\ FiltersApart'
      /\ ListsGone' /\ Numbers' /\ ServiceFirst'
  BY <1>1, SameListsDrop, DropKeeps
<1>3. StaysInUse'
  <2>1. \A f \in listeners : f # None
    BY ConstantFacts DEF IInv, TypeOK
  <2> QED  BY <2>1 DEF listVars, history, IInv, FiltersInUse, StaysInUse
<1>4. ListsApart'
  BY DEF listVars, IInv, OneList, ListsApart
<1>5. CASE locked = None
  BY <1>1, <1>2, <1>3, <1>4, <1>5 DEF listVars, history, IInv, Deleting
<1>6. CASE locked' = locked
  BY <1>1, <1>2, <1>3, <1>4, <1>6 DEF listVars, history, IInv, Deleting
<1> QED  BY <1>5, <1>6

(* The types of what such a step changes. *)
LEMMA QuietTypes ==
    ASSUME IInv,
           UNCHANGED <<listeners, rule, callbacks, processed, name_watch, rules>>,
           UNCHANGED <<listener_id, delete_listener, history>>,
           owner' \in [Filters -> Names \cup {Gone, None}],
           daemon' \in Names \cup {Gone},
           asked' \in BOOLEAN, broken' \in BOOLEAN, running' \in 0 .. MaxId,
           locked' \in listeners \cup {None}
    PROVE  TypeOK'
<1>1. /\ listeners' \subseteq Filters /\ rules' \subseteq Filters
      /\ rule' \in [Filters -> Keys \cup {None}]
      /\ callbacks' \in [Filters -> SUBSET (1 .. MaxId)]
      /\ processed' \in [Filters -> SUBSET (1 .. MaxId)]
      /\ name_watch' \in [Filters -> 0 .. MaxId]
      /\ listener_id' \in 0 .. MaxId
      /\ delete_listener' \subseteq Filters
      /\ twins' \subseteq Signals /\ refused' \subseteq Signals
      /\ locked' \in listeners' \cup {None}
  BY DEF IInv, TypeOK, history
<1> QED  BY <1>1 DEF TypeOK

(* A message is handed to the first filter of its rule.                     *)
LEMMA BeginImplements ==
    ASSUME IInv, NEW s \in Signals, Begin(s)
    PROVE  IInv' /\ Watches!Begin(s)
<1>1. /\ locked = None /\ running = 0 /\ ~broken
      /\ UNCHANGED <<listVars, listener_id, delete_listener, asked, running,
                     broken, daemon, history>>
  BY DEF Begin, Idle
<1>2. /\ locked' \in listeners /\ rule[locked'] = s /\ locked' \in Nat
      /\ \A g \in listeners : rule[g] = s => g = locked' \/ g > locked'
      /\ locked' # None
  <2>1. locked' \in Matching(s) /\ \A g \in Matching(s) : locked' <= g
    BY DEF Begin, First
  <2>2. \A g \in listeners : rule[g] = s => g \in Matching(s)
    BY DEF Matching, IInv, OwnerCurrent
  <2>3. locked' \in listeners /\ rule[locked'] = s
    BY <2>1 DEF Matching
  <2>4. listeners \subseteq Nat /\ locked' # None
    BY <2>3, ConstantFacts DEF IInv, TypeOK
  <2> QED  BY <2>1, <2>2, <2>3, <2>4
<1>3. /\ SameLists /\ StaysInUse' /\ ListsGone' /\ OneRulePerFilter'
      /\ NameWatchPerFilter' /\ ListsApart' /\ FiltersApart' /\ Numbers'
      /\ ServiceFirst'
      /\ locked' = None => delete_listener' = {}
      /\ \A f \in delete_listener' : rule'[f] = rule'[locked'] /\ f < locked'
      /\ delete_listener' # {} => rule'[locked'] \in twins'
  BY <1>1, <1>2, QuietKeeps
<1>4. TypeOK'
  BY <1>1, <1>2, QuietTypes DEF listVars, IInv, TypeOK
<1>5. OwnerCurrent' /\ OwnerOfSignals'
  BY <1>1 DEF IInv, OwnerCurrent, OwnerOfSignals, listVars
<1>6. FaultNeedsTwins' /\ Deleting'
  BY <1>1, <1>3 DEF FaultNeedsTwins, Deleting
<1>7. RunningOwn'
  BY <1>1 DEF IInv, RunningOwn
<1>8. IInv'
  BY <1>3, <1>4, <1>5, <1>6, <1>7, InvParts
<1>9. \A k \in Keys : Owned(k)' = Owned(k)
  BY <1>3, SameOwned
<1>10. Todo' = Owned(s)
  <2>1. ASSUME NEW x
        PROVE  x \in Todo' <=> x \in Owned(s)
    <3>1. NameWatches' = NameWatches
      BY <1>1 DEF NameWatches, listVars
    <3>2. \A f \in listeners : List(f) = callbacks[f]
      BY <1>1, ConstantFacts DEF IInv, TypeOK, FiltersInUse, List
    <3>3. x \in Todo' <=>
             /\ x \in 1 .. MaxId /\ x \notin NameWatches
             /\ \E f \in listeners : rule[f] = s /\ x \in callbacks[f]
      BY <1>1, <1>2, <1>5, <3>1, TodoIsNext DEF listVars
    <3> QED  BY <3>2, <3>3 DEF Owned
  <2> QED  BY <2>1
<1>11. Message = None /\ Message' = s
  BY <1>1, <1>2 DEF Message, listVars
<1>12. s \in Keys /\ Owned(s) = [k \in Keys |-> Owned(k)][s]
  BY ConstantFacts
<1> QED
  BY <1>1, <1>8, <1>9, <1>10, <1>11, <1>12 DEF Watches!Begin, history
(* The function called is one still owed this message.                      *)
LEMMA CallImplements ==
    ASSUME IInv, NEW i \in 1 .. MaxId, CallWatch(i)
    PROVE  IInv' /\ Watches!Call(i) /\ i \in 1 .. listener_id
<1>1. /\ locked # None /\ running = 0 /\ running' = i /\ ~broken
      /\ i \in callbacks[locked] /\ i \notin NameWatches
      /\ UNCHANGED <<listVars, listener_id, locked, delete_listener, asked, broken,
                     daemon, history>>
  BY DEF CallWatch, Dispatching
<1>2. locked \in listeners /\ locked \in Filters /\ i \in List(locked)
  BY <1>1, LockedFacts DEF List
<1>3. /\ SameLists /\ StaysInUse' /\ ListsGone' /\ OneRulePerFilter'
      /\ NameWatchPerFilter' /\ ListsApart' /\ FiltersApart' /\ Numbers'
      /\ ServiceFirst'
      /\ locked' = None => delete_listener' = {}
      /\ \A f \in delete_listener' : rule'[f] = rule'[locked'] /\ f < locked'
      /\ delete_listener' # {} => rule'[locked'] \in twins'
  BY <1>1, <1>2, QuietKeeps
<1>4. TypeOK'
  <2>1. running' \in 0 .. MaxId
    BY <1>1, ConstantFacts
  <2> QED  BY <1>1, <1>2, <2>1, QuietTypes DEF listVars, IInv, TypeOK
<1>5. OwnerCurrent' /\ OwnerOfSignals'
  BY <1>1 DEF IInv, OwnerCurrent, OwnerOfSignals, listVars
<1>6. FaultNeedsTwins' /\ Deleting'
  BY <1>1, <1>3 DEF FaultNeedsTwins, Deleting
<1>7. i \in 1 .. listener_id
  BY <1>2 DEF IInv, Numbers
<1>8. RunningOwn'
  <2>1. running' \in 0 .. listener_id'
    BY <1>1, <1>7, ConstantFacts DEF IInv, TypeOK
  <2>2. NameWatches' = NameWatches
    BY <1>1 DEF NameWatches, listVars
  <2>3. \A f \in Filters \ {locked} : i \notin List(f)
    BY <1>2 DEF IInv, OneList
  <2>4. \A f \in Filters : List(f)' = List(f)
    BY <1>3 DEF SameLists
  <2> QED  BY <1>1, <2>1, <2>2, <2>3, <2>4 DEF RunningOwn
<1>9. IInv'
  BY <1>3, <1>4, <1>5, <1>6, <1>8, InvParts
<1>10. \A k \in Keys : Owned(k)' = Owned(k)
  BY <1>3, SameOwned
<1>11. i \in Todo
  BY <1>1, <1>2, TodoIs DEF IInv
<1>12. Todo' = Todo /\ Message' = Message
  BY <1>1 DEF Todo, Later, Matching, Message, NameWatches, listVars
<1> QED
  BY <1>1, <1>7, <1>9, <1>10, <1>11, <1>12 DEF Watches!Call, history

(* The deletion goes wrong only when the signal has had a second filter,    *)
(* and those that hold watches do not see it.                               *)
LEMMA FaultyImplements ==
    ASSUME IInv, FaultyEnd
    PROVE  IInv' /\ UNCHANGED Watches!vars
<1>1. /\ locked # None /\ running = 0 /\ broken' = TRUE /\ Faulty
      /\ UNCHANGED <<listVars, listener_id, locked, delete_listener, asked, running,
                     daemon, history>>
  BY DEF FaultyEnd, Dispatching
<1>2. locked \in listeners
  BY <1>1, LockedFacts
<1>3. /\ SameLists /\ StaysInUse' /\ ListsGone' /\ OneRulePerFilter'
      /\ NameWatchPerFilter' /\ ListsApart' /\ FiltersApart' /\ Numbers'
      /\ ServiceFirst'
      /\ locked' = None => delete_listener' = {}
      /\ \A f \in delete_listener' : rule'[f] = rule'[locked'] /\ f < locked'
      /\ delete_listener' # {} => rule'[locked'] \in twins'
  BY <1>1, <1>2, QuietKeeps
<1>4. TypeOK'
  <2>1. asked' \in BOOLEAN /\ broken' \in BOOLEAN
    BY <1>1 DEF IInv, TypeOK
  <2> QED  BY <1>1, <1>2, <2>1, QuietTypes DEF listVars, IInv, TypeOK
<1>5. OwnerCurrent' /\ OwnerOfSignals'
  BY <1>1 DEF IInv, OwnerCurrent, OwnerOfSignals, listVars
<1>6. delete_listener # {}
  BY <1>1, <1>2 DEF Faulty, Empty
<1>7. FaultNeedsTwins' /\ Deleting'
  BY <1>1, <1>3, <1>6 DEF FaultNeedsTwins, Deleting
<1>8. RunningOwn'
  BY <1>1 DEF IInv, RunningOwn
<1>9. IInv'
  BY <1>3, <1>4, <1>5, <1>7, <1>8, InvParts
<1>10. \A k \in Keys : Owned(k)' = Owned(k)
  BY <1>3, SameOwned
<1>11. Todo' = Todo /\ Message' = Message
  BY <1>1 DEF Todo, Later, Matching, Message, NameWatches, listVars
<1> QED
  BY <1>1, <1>9, <1>10, <1>11 DEF Watches!vars, history

-----------------------------------------------------------------------------
(* update_name_cache: all signal filters come to know the owner.            *)
LEMMA CacheKeeps ==
    ASSUME IInv, NEW new \in Names \cup {Gone}, update_name_cache(new),
           daemon' = new, listeners' = listeners
    PROVE  /\ OwnerCurrent' /\ OwnerOfSignals'
           /\ owner' \in [Filters -> Names \cup {Gone, None}]
           /\ daemon' \in Names \cup {Gone}
<1>1. \A f \in Filters : owner'[f] = IF f \in listeners \ {0} THEN new ELSE owner[f]
  BY DEF update_name_cache
<1>2. OwnerCurrent'
  <2> SUFFICES ASSUME NEW f \in listeners PROVE owner'[f] \in {None, daemon'}
    BY DEF OwnerCurrent
  <2>1. f \in Filters
    BY DEF IInv, TypeOK
  <2> QED  BY <1>1, <2>1 DEF IInv, OwnerOfSignals
<1>3. OwnerOfSignals'
  BY <1>1 DEF IInv, OwnerOfSignals
<1>4. owner' \in [Filters -> Names \cup {Gone, None}]
  BY DEF update_name_cache, IInv, TypeOK
<1> QED  BY <1>2, <1>3, <1>4

(* The change of the name's owner is handed to the watches on the name.     *)
LEMMA OwnerImplements ==
    ASSUME IInv, NEW new \in Names \cup {Gone}, NameOwnerChanged(new)
    PROVE  IInv' /\ Watches!Begin(Owner)
<1>1. /\ locked = None /\ running = 0 /\ ~broken /\ 0 \in listeners
      /\ locked' = 0 /\ daemon' = new /\ update_name_cache(new)
      /\ UNCHANGED <<listeners, rule, callbacks, processed, name_watch, rules>>
      /\ UNCHANGED <<listener_id, delete_listener, asked, running, broken, history>>
  BY DEF NameOwnerChanged, Idle
<1>2. SameLists
  BY <1>1 DEF SameLists, List
<1>3. /\ OneRulePerFilter' /\ NameWatchPerFilter' /\ FiltersApart'
      /\ ListsGone' /\ Numbers' /\ ServiceFirst'
  BY <1>2, SameListsDrop, DropKeeps
<1>4. /\ OwnerCurrent' /\ OwnerOfSignals'
      /\ owner' \in [Filters -> Names \cup {Gone, None}]
      /\ daemon' \in Names \cup {Gone}
  BY <1>1, CacheKeeps
<1>5. TypeOK'
  BY <1>1, <1>4, QuietTypes DEF IInv, TypeOK
<1>6. \A f \in listeners : f # None /\ f \in Filters
  BY ConstantFacts DEF IInv, TypeOK
<1>7. StaysInUse' /\ ListsApart'
  BY <1>1, <1>6
  DEF history, IInv, FiltersInUse, OneList, StaysInUse, ListsApart
<1>8. delete_listener' = {} /\ ~broken'
  BY <1>1 DEF IInv, Deleting
<1>9. Deleting' /\ FaultNeedsTwins' /\ RunningOwn'
  BY <1>1, <1>8, ConstantFacts DEF Deleting, FaultNeedsTwins, IInv, RunningOwn
<1>10. IInv'
  BY <1>3, <1>4, <1>5, <1>7, <1>9, InvParts
<1>11. \A k \in Keys : Owned(k)' = Owned(k)
  BY <1>2, SameOwned
<1>12. Todo' = Owned(Owner)
  <2>1. ASSUME NEW x
        PROVE  x \in Todo' <=> x \in Owned(Owner)
    <3>1. NameWatches' = NameWatches
      BY <1>1 DEF NameWatches
    <3>2. \A f \in listeners : List(f) = callbacks[f]
      BY <1>1, <1>6 DEF IInv, FiltersInUse, List
    <3>3. rule[0] = Owner
          /\ \A f \in listeners : rule[f] = Owner => f = 0
      BY ConstantFacts DEF IInv, ServiceFirst
    <3>4. x \in Todo' <=>
             /\ x \in 1 .. MaxId /\ x \notin NameWatches
             /\ \E f \in listeners : rule[f] = Owner /\ x \in callbacks[f]
      BY <1>1, <1>4, <1>6, <3>1, <3>3, TodoIsNext
    <3> QED  BY <3>2, <3>4 DEF Owned
  <2> QED  BY <2>1
<1>13. Message = None /\ Message' = Owner
  BY <1>1, <1>6 DEF Message, IInv, ServiceFirst
<1>14. Owner \in Keys /\ Owned(Owner) = [k \in Keys |-> Owned(k)][Owner]
  BY ConstantFacts
<1> QED
  BY <1>1, <1>10, <1>11, <1>12, <1>13, <1>14 DEF Watches!Begin, history

(* The answer to check_service goes to the service watch that asked.        *)
LEMMA UpdateImplements ==
    ASSUME IInv, NEW there \in BOOLEAN, update_service(there)
    PROVE  IInv' /\ Watches!Tell(1, there) /\ 1 \in 1 .. listener_id
<1>1. /\ locked = None /\ running = 0 /\ ~broken /\ asked /\ asked' = FALSE
      /\ UNCHANGED <<listeners, rule, callbacks, processed, name_watch, rules>>
      /\ UNCHANGED <<listener_id, locked, delete_listener, broken, daemon, history>>
      /\ running' = IF there THEN 1 ELSE 0
      /\ IF there THEN update_name_cache(daemon) ELSE owner' = owner
  BY DEF update_service, Idle
<1>2. SameLists
  BY <1>1 DEF SameLists, List
<1>3. /\ OneRulePerFilter' /\ NameWatchPerFilter' /\ FiltersApart'
      /\ ListsGone' /\ Numbers' /\ ServiceFirst'
  BY <1>2, SameListsDrop, DropKeeps
<1>4. /\ OwnerCurrent' /\ OwnerOfSignals'
      /\ owner' \in [Filters -> Names \cup {Gone, None}]
      /\ daemon' \in Names \cup {Gone}
  <2>1. CASE there
    <3>1. daemon \in Names \cup {Gone} /\ update_name_cache(daemon)
      BY <1>1, <2>1 DEF IInv, TypeOK
    <3> QED  BY <1>1, <3>1, CacheKeeps
  <2>2. CASE ~there
    BY <1>1, <2>2 DEF IInv, TypeOK, OwnerCurrent, OwnerOfSignals
  <2> QED  BY <2>1, <2>2
<1>5. /\ listener_id \in Nat /\ listener_id # 0 /\ listener_id <= MaxId
      /\ 0 \in listeners
  <2>1. listener_id # 0
    BY <1>1 DEF IInv, ServiceFirst
  <2> QED  BY <2>1, ConstantFacts DEF IInv, TypeOK, ServiceFirst
<1>6. 1 \in 1 .. listener_id /\ running' \in 0 .. listener_id /\ running' \in 0 .. MaxId
  BY <1>1, <1>5, ConstantFacts
<1>7. TypeOK'
  <2>1. asked' \in BOOLEAN /\ broken' \in BOOLEAN
    BY <1>1 DEF IInv, TypeOK
  <2> QED  BY <1>1, <1>4, <1>6, <2>1, QuietTypes DEF IInv, TypeOK
<1>8. \A f \in listeners : f # None /\ f \in Filters
  BY ConstantFacts DEF IInv, TypeOK
<1>9. StaysInUse' /\ ListsApart'
  BY <1>1, <1>8
  DEF history, IInv, FiltersInUse, OneList, StaysInUse, ListsApart
<1>10. Deleting' /\ FaultNeedsTwins'
  BY <1>1 DEF IInv, Deleting, FaultNeedsTwins
<1>11. RunningOwn'
  <2>1. 1 \notin NameWatches'
    BY <1>3 DEF ServiceFirst
  <2> QED  BY <1>1, <1>6, <2>1 DEF RunningOwn
<1>12. IInv'
  BY <1>3, <1>4, <1>7, <1>9, <1>10, <1>11, InvParts
<1>13. \A k \in Keys : Owned(k)' = Owned(k)
  BY <1>2, SameOwned
<1>14. Todo' = Todo /\ Message' = Message /\ Message = None
  BY <1>1 DEF Todo, Message
<1>15. (IF asked THEN {1} ELSE {}) = {1} /\ (IF asked' THEN {1} ELSE {}) = {}
  BY <1>1
<1> QED
  BY <1>1, <1>6, <1>12, <1>13, <1>14, <1>15 DEF Watches!Tell, history
-----------------------------------------------------------------------------
(* A callback of the locked filter moves to its list processed.             *)
LEMMA MoveKeeps ==
    ASSUME IInv, NEW i, locked # None, i \in callbacks[locked], Move(i),
           UNCHANGED <<listeners, rule, owner, name_watch, rules>>,
           UNCHANGED <<listener_id, locked, delete_listener, asked, broken, daemon>>,
           UNCHANGED history, running' \in {running, 0}
    PROVE  /\ IInv'
           /\ \A k \in Keys : Owned(k)' = Owned(k)
           /\ Todo' = Todo \ {i}
           /\ Message' = Message
<1>1. /\ locked \in listeners /\ locked \in Filters
      /\ callbacks \in [Filters -> SUBSET (1 .. MaxId)]
      /\ processed \in [Filters -> SUBSET (1 .. MaxId)]
      /\ i \in 1 .. MaxId
  BY LockedFacts DEF IInv, TypeOK
<1>2. /\ \A f \in Filters : callbacks'[f] = IF f = locked THEN callbacks[f] \ {i}
                                            ELSE callbacks[f]
      /\ \A f \in Filters : processed'[f] = IF f = locked THEN processed[f] \cup {i}
                                            ELSE processed[f]
  BY <1>1 DEF Move
<1>3. \A f \in Filters : List(f)' = List(f)
  BY <1>1, <1>2 DEF List
<1>4. SameLists
  BY <1>3 DEF SameLists
<1>5. /\ OneRulePerFilter' /\ NameWatchPerFilter' /\ FiltersApart'
      /\ ListsGone' /\ Numbers' /\ ServiceFirst'
  BY <1>4, SameListsDrop, DropKeeps
<1>6. StaysInUse'
  BY <1>2 DEF history, IInv, TypeOK, FiltersInUse, StaysInUse
<1>7. ListsApart'
  BY <1>2 DEF IInv, OneList, ListsApart
<1>8. OwnerCurrent' /\ OwnerOfSignals'
  BY DEF IInv, OwnerCurrent, OwnerOfSignals
<1>9. FaultNeedsTwins' /\ Deleting'
  <2>1. broken' => running' = 0
    BY DEF IInv, Deleting
  <2> QED  BY <2>1 DEF history, IInv, FaultNeedsTwins, Deleting
<1>10. RunningOwn'
  BY <1>4, SameListsDrop, DropKeepsRunning
<1>11. TypeOK'
  <2>1. callbacks' \in [Filters -> SUBSET (1 .. MaxId)]
    BY <1>1 DEF Move
  <2>2. processed' \in [Filters -> SUBSET (1 .. MaxId)]
    BY <1>1 DEF Move
  <2>3. running' \in 0 .. MaxId
    BY ConstantFacts DEF IInv, TypeOK
  <2> QED  BY <2>1, <2>2, <2>3 DEF IInv, TypeOK, history
<1>12. IInv'
  BY <1>5, <1>6, <1>7, <1>8, <1>9, <1>10, <1>11, InvParts
<1>13. \A k \in Keys : Owned(k)' = Owned(k)
  BY <1>4, SameOwned
<1>14. Todo' = Todo \ {i}
  <2>1. ASSUME NEW x
        PROVE  x \in Todo' <=> x \in Todo /\ x # i
    <3>1. NameWatches' = NameWatches
      BY DEF NameWatches
    <3>2. x \in Todo' <=>
             /\ x \in 1 .. MaxId /\ x \notin NameWatches
             /\ \E f \in listeners : /\ rule[f] = rule[locked]
                                     /\ f = locked \/ f > locked
                                     /\ x \in callbacks'[f]
      BY <1>1, <1>8, <3>1, TodoIsNext
    <3>3. x \in Todo <=>
             /\ x \in 1 .. MaxId /\ x \notin NameWatches
             /\ \E f \in listeners : /\ rule[f] = rule[locked]
                                     /\ f = locked \/ f > locked
                                     /\ x \in callbacks[f]
      BY <1>1, TodoIs DEF IInv
    <3>4. \A f \in listeners : x \in callbacks'[f] <=> x \in callbacks[f] /\ x # i
      <4>1. \A f \in Filters : f # locked => i \notin callbacks[f]
        BY <1>1 DEF IInv, OneList, List
      <4> QED  BY <1>2, <4>1 DEF IInv, TypeOK
    <3> QED  BY <3>2, <3>3, <3>4
  <2> QED  BY <2>1
<1> QED  BY <1>12, <1>13, <1>14 DEF Message

(* Passing over a name watch is a step no owner of a watch sees.            *)
LEMMA SkipImplements ==
    ASSUME IInv, NEW i \in 1 .. MaxId, SkipNameWatch(i)
    PROVE  IInv' /\ UNCHANGED Watches!vars
<1>1. /\ locked # None /\ i \in callbacks[locked] /\ i \in NameWatches /\ Move(i)
      /\ UNCHANGED <<listeners, rule, owner, name_watch, rules>>
      /\ UNCHANGED <<listener_id, locked, delete_listener, asked, broken, daemon>>
      /\ UNCHANGED history /\ running' = running
  BY DEF SkipNameWatch, Dispatching
<1>2. /\ IInv'
      /\ \A k \in Keys : Owned(k)' = Owned(k)
      /\ Todo' = Todo \ {i}
      /\ Message' = Message
  BY <1>1, MoveKeeps
<1>3. i \notin Todo
  BY <1>1 DEF Todo
<1>4. Todo' = Todo
  BY <1>2, <1>3
<1> QED  BY <1>1, <1>2, <1>4 DEF Watches!vars, history

(* A function that has returned is not owed the message any more, whether   *)
(* or not its watch is still on the list.                                   *)
LEMMA ReturnedImplements ==
    ASSUME IInv, Returned
    PROVE  IInv' /\ Watches!Return(TRUE)
<1>1. /\ running # 0 /\ running' = 0
      /\ UNCHANGED <<listeners, rule, owner, name_watch, rules>>
      /\ UNCHANGED <<listener_id, locked, delete_listener, asked, broken, daemon>>
      /\ UNCHANGED history
  BY DEF Returned
<1>2. CASE locked # None /\ running \in callbacks[locked]
  <2>1. Move(running)
    BY <1>2 DEF Returned
  <2>2. /\ IInv'
        /\ \A k \in Keys : Owned(k)' = Owned(k)
        /\ Todo' = Todo \ {running}
        /\ Message' = Message
    BY <1>1, <1>2, <2>1, MoveKeeps
  <2> QED  BY <1>1, <2>2 DEF Watches!Return, history
<1>3. CASE ~(locked # None /\ running \in callbacks[locked])
  <2>1. UNCHANGED <<listVars, listener_id, delete_listener, history>>
    BY <1>1, <1>3 DEF Returned, listVars
  <2>2. locked \in listeners \cup {None}
    BY DEF IInv, TypeOK
  <2>3. /\ SameLists /\ StaysInUse' /\ ListsGone' /\ OneRulePerFilter'
        /\ NameWatchPerFilter' /\ ListsApart' /\ FiltersApart' /\ Numbers'
        /\ ServiceFirst'
        /\ locked' = None => delete_listener' = {}
        /\ \A f \in delete_listener' : rule'[f] = rule'[locked'] /\ f < locked'
        /\ delete_listener' # {} => rule'[locked'] \in twins'
    BY <1>1, <2>1, <2>2, QuietKeeps
  <2>4. TypeOK'
    <3>1. running' \in 0 .. MaxId
      BY <1>1, ConstantFacts
    <3> QED  BY <1>1, <2>1, <2>2, <3>1, QuietTypes DEF listVars, IInv, TypeOK
  <2>5. OwnerCurrent' /\ OwnerOfSignals'
    BY <1>1 DEF IInv, OwnerCurrent, OwnerOfSignals
  <2>6. FaultNeedsTwins' /\ Deleting'
    BY <1>1, <2>3 DEF FaultNeedsTwins, Deleting, IInv, history
  <2>7. RunningOwn'
    BY <1>1, <2>3, SameListsDrop, DropKeepsRunning
  <2>8. IInv'
    BY <2>3, <2>4, <2>5, <2>6, <2>7, InvParts
  <2>9. \A k \in Keys : Owned(k)' = Owned(k)
    BY <2>3, SameOwned
  <2>10. Todo' = Todo /\ Message' = Message
    BY <1>1, <2>1 DEF Todo, Later, Matching, Message, NameWatches, listVars
  <2>11. running \notin Todo
    <3>1. CASE locked = None
      BY <3>1 DEF Todo
    <3>2. CASE locked # None
      <4>1. \A f \in listeners : running \notin callbacks[f]
        BY <1>1, <1>3, <3>2 DEF IInv, TypeOK, RunningOwn, List
      <4> QED  BY <3>2, <4>1, LockedFacts, TodoIs DEF IInv
    <3> QED  BY <3>1, <3>2
  <2>12. Todo' = Todo \ {running}
    BY <2>10, <2>11
  <2> QED  BY <1>1, <2>8, <2>9, <2>10, <2>12 DEF Watches!Return, history
<1> QED  BY <1>2, <1>3

-----------------------------------------------------------------------------
(* The next filter of the rule is locked, the one before may be noted for   *)
(* deletion; those that hold watches do not see it.                         *)
LEMMA NextFilterImplements ==
    ASSUME IInv, NextFilter
    PROVE  IInv' /\ UNCHANGED Watches!vars
<1>1. /\ locked # None /\ running = 0 /\ ~broken
      /\ callbacks[locked] = {}
      /\ callbacks' = Exchanged
      /\ processed' = [processed EXCEPT ![locked] = {}]
      /\ delete_listener' = Empty
      /\ locked' \in Later /\ \A g \in Later : locked' <= g
      /\ UNCHANGED <<listeners, rule, owner, name_watch, rules>>
      /\ UNCHANGED <<listener_id, asked, running, broken, daemon>>
      /\ UNCHANGED history
  BY DEF NextFilter, Dispatching, First
<1>2. /\ locked \in listeners /\ locked \in Filters /\ locked \in Nat
      /\ callbacks \in [Filters -> SUBSET (1 .. MaxId)]
      /\ processed \in [Filters -> SUBSET (1 .. MaxId)]
      /\ listeners \subseteq Filters /\ Filters \subseteq Nat
  BY <1>1, LockedFacts, ConstantFacts DEF IInv, TypeOK
<1>3. /\ locked' \in listeners /\ rule[locked'] = rule[locked] /\ locked' > locked
      /\ locked' \in Filters /\ locked' \in Nat /\ locked' # None
      /\ \A g \in listeners : rule[g] = rule[locked] /\ g > locked => locked' <= g
  BY <1>1, <1>2, ConstantFacts DEF Later, Matching, IInv, OwnerCurrent
<1>4. rule[locked] \in twins
  BY <1>2, <1>3, TwinFacts
<1>5. /\ \A f \in Filters : callbacks'[f] = IF f = locked THEN processed[f]
                                            ELSE callbacks[f]
      /\ \A f \in Filters : processed'[f] = IF f = locked THEN {} ELSE processed[f]
  BY <1>1, <1>2 DEF Exchanged
<1>6. \A f \in Filters : List(f)' = List(f)
  BY <1>1, <1>5 DEF List
<1>7. SameLists
  BY <1>1, <1>6 DEF SameLists
<1>8. /\ OneRulePerFilter' /\ NameWatchPerFilter' /\ FiltersApart'
      /\ ListsGone' /\ Numbers' /\ ServiceFirst'
  BY <1>7, SameListsDrop, DropKeeps
<1>9. StaysInUse'
  <2> SUFFICES ASSUME NEW f \in listeners
               PROVE  /\ processed'[f] = {}
                      /\ callbacks'[f] # {} \/ f \in Empty \/ rule[f] \in refused
    BY <1>1 DEF StaysInUse, history
  <2>1. CASE f = locked
    BY <1>2, <1>5, <2>1 DEF Empty
  <2>2. CASE f # locked
    BY <1>2, <1>5, <2>2 DEF Empty, IInv, FiltersInUse
  <2> QED  BY <2>1, <2>2
<1>10. ListsApart'
  BY <1>5 DEF IInv, OneList, ListsApart
<1>11. OwnerCurrent' /\ OwnerOfSignals'
  BY <1>1 DEF IInv, OwnerCurrent, OwnerOfSignals
<1>12. FaultNeedsTwins' /\ Deleting'
  <2>1. \A f \in Empty : f \in Nat /\ rule[f] = rule[locked] /\ f <= locked
    BY <1>2 DEF Empty, IInv, TypeOK, Deleting
  <2>2. \A f \in Empty : rule[f] = rule[locked'] /\ f < locked'
    BY <1>2, <1>3, <2>1
  <2> QED  BY <1>1, <1>3, <1>4, <2>2 DEF FaultNeedsTwins, Deleting, history
<1>13. RunningOwn'
  BY <1>1 DEF IInv, RunningOwn
<1>14. TypeOK'
  <2>1. callbacks' \in [Filters -> SUBSET (1 .. MaxId)]
    BY <1>1, <1>2 DEF Exchanged
  <2>2. processed' \in [Filters -> SUBSET (1 .. MaxId)]
    BY <1>1, <1>2
  <2>3. delete_listener' \subseteq Filters
    BY <1>1, <1>2 DEF Empty, IInv, TypeOK
  <2>4. locked' \in listeners' \cup {None}
    BY <1>1, <1>3
  <2> QED  BY <1>1, <2>1, <2>2, <2>3, <2>4 DEF IInv, TypeOK, history
<1>15. IInv'
  BY <1>8, <1>9, <1>10, <1>11, <1>12, <1>13, <1>14, InvParts
<1>16. \A k \in Keys : Owned(k)' = Owned(k)
  BY <1>7, SameOwned
<1>17. Todo' = Todo
  <2>1. ASSUME NEW x
        PROVE  x \in Todo' <=> x \in Todo
    <3>1. NameWatches' = NameWatches
      BY <1>1 DEF NameWatches
    <3>2. x \in Todo' <=>
             /\ x \in 1 .. MaxId /\ x \notin NameWatches
             /\ \E f \in listeners : /\ rule[f] = rule[locked]
                                     /\ f = locked' \/ f > locked'
                                     /\ x \in callbacks'[f]
      BY <1>1, <1>3, <1>11, <3>1, TodoIsNext
    <3>3. x \in Todo <=>
             /\ x \in 1 .. MaxId /\ x \notin NameWatches
             /\ \E f \in listeners : /\ rule[f] = rule[locked]
                                     /\ f = locked \/ f > locked
                                     /\ x \in callbacks[f]
      BY <1>1, <1>2, TodoIs DEF IInv
    <3>4. \A f \in listeners : rule[f] = rule[locked] =>
            ((f = locked' \/ f > locked') <=> f > locked)
      BY <1>2, <1>3
    <3>5. \A f \in listeners : f > locked => f # locked /\ callbacks'[f] = callbacks[f]
      BY <1>2, <1>5
    <3> QED  BY <1>1, <3>2, <3>3, <3>4, <3>5
  <2> QED  BY <2>1
<1>18. Message' = Message
  BY <1>1, <1>3 DEF Message
<1> QED  BY <1>1, <1>15, <1>16, <1>17, <1>18 DEF Watches!vars, history
-----------------------------------------------------------------------------
(* The watches to be called are those there were, without the one removed.  *)
LEMMA DropTodo ==
    ASSUME IInv, NEW i, NEW gone, NEW freed, Drop(i, gone, freed), OwnerCurrent',
           \A f \in Filters : callbacks'[f] = callbacks[f] \ gone,
           locked' = locked, locked \notin freed
    PROVE  Todo' = Todo \ {i}
<1>1. CASE locked = None
  BY <1>1 DEF Todo
<1>2. CASE locked # None
  <2>1. locked \in listeners /\ locked' \in listeners'
    BY <1>2, LockedFacts DEF Drop
  <2>2. \A f \in listeners : f \in Filters
    BY DEF IInv, TypeOK
  <2>3. ASSUME NEW x
        PROVE  x \in Todo' <=> x \in Todo /\ x # i
    <3>1. x \in Todo' <=>
             /\ x \in 1 .. MaxId /\ x \notin NameWatches'
             /\ \E f \in listeners' : /\ rule[f] = rule[locked]
                                      /\ f = locked \/ f > locked
                                      /\ x \in callbacks'[f]
      BY <1>2, <2>1, TodoIsNext DEF Drop
    <3>2. x \in Todo <=>
             /\ x \in 1 .. MaxId /\ x \notin NameWatches
             /\ \E f \in listeners : /\ rule[f] = rule[locked]
                                     /\ f = locked \/ f > locked
                                     /\ x \in callbacks[f]
      BY <1>2, <2>1, TodoIs DEF IInv
    <3>3. ASSUME x \in Todo'
          PROVE  x \in Todo /\ x # i
      <4>1. x # 0
        BY <3>1, <3>3
      <4>2. PICK f \in listeners' : /\ rule[f] = rule[locked]
                                    /\ f = locked \/ f > locked
                                    /\ x \in callbacks'[f]
        BY <3>1, <3>3
      <4>3. f \in listeners /\ x \in callbacks[f] /\ x \notin gone
        BY <2>2, <4>2 DEF Drop
      <4>4. x # i
        BY <4>1, <4>3 DEF Drop
      <4>5. x \in NameWatches => x \in NameWatches'
        BY <4>1, <4>3, DropNameWatches
      <4>6. x \in 1 .. MaxId /\ x \notin NameWatches
        BY <3>1, <3>3, <4>5
      <4> QED  BY <3>2, <4>2, <4>3, <4>4, <4>6
    <3>4. ASSUME x \in Todo, x # i
          PROVE  x \in Todo'
      <4>1. x # 0 /\ x \notin NameWatches
        BY <3>2, <3>4
      <4>2. PICK f \in listeners : /\ rule[f] = rule[locked]
                                   /\ f = locked \/ f > locked
                                   /\ x \in callbacks[f]
        BY <3>2, <3>4
      <4>3. x \notin gone
        BY <3>4, <4>1 DEF Drop
      <4>4. f \in listeners' /\ x \in callbacks'[f]
        BY <2>2, <4>2, <4>3 DEF Drop, List
      <4>5. x \notin NameWatches'
        BY <4>1, DropNameWatches
      <4> QED  BY <3>1, <3>2, <3>4, <4>2, <4>4, <4>5
    <3> QED  BY <3>3, <3>4
  <2> QED  BY <2>3
<1> QED  BY <1>1, <1>2

(* A function that returns FALSE drops its watch as WatchSpec says.         *)
LEMMA ReturnedFalseImplements ==
    ASSUME IInv, ReturnedFalse
    PROVE  IInv' /\ Watches!Return(FALSE)
<1> DEFINE gone == {running}
<1>1. /\ running # 0 /\ running' = 0 /\ locked # None /\ locked # 0
      /\ running \in callbacks[locked]
      /\ callbacks' = Dropped(callbacks, gone) /\ processed' = processed
      /\ UNCHANGED <<listeners, rule, owner, name_watch, rules>>
      /\ UNCHANGED <<listener_id, locked, delete_listener, asked, broken, daemon>>
      /\ UNCHANGED history
  BY DEF ReturnedFalse
<1>2. /\ locked \in listeners /\ locked \in Filters /\ listener_id # 0
      /\ callbacks \in [Filters -> SUBSET (1 .. MaxId)]
      /\ running \in List(locked)
  BY <1>1, LockedFacts DEF IInv, TypeOK, List
<1>3. \A f \in Filters : callbacks'[f] = callbacks[f] \ gone
  BY <1>1 DEF Dropped
<1>4. \A f \in Filters : running \notin processed[f]
                         /\ (f # locked => running \notin callbacks[f])
  <2>1. \A f \in Filters : f # locked => running \notin List(f)
    BY <1>2 DEF IInv, OneList
  <2> QED  BY <1>1, <1>2, <2>1 DEF List, IInv, OneList
<1>5. Drop(running, gone, {})
  <2>1. running \notin NameWatches
    BY <1>1 DEF IInv, RunningOwn
  <2>2. running # 1
    <3>1. 0 \in listeners
      BY <1>2 DEF IInv, ServiceFirst
    <3> QED  BY <1>1, <1>2, <3>1, ServiceFacts
  <2>3. \A f \in listeners \ {0} : name_watch[f] \notin gone
    BY <2>1, NameWatchFacts
  <2>4. \A f \in Filters : List(f)' = List(f) \ gone
    BY <1>1, <1>3, <1>4 DEF List
  <2> QED  BY <1>1, <2>1, <2>2, <2>3, <2>4 DEF Drop, history
<1>6. /\ OneRulePerFilter' /\ NameWatchPerFilter' /\ FiltersApart'
      /\ ListsGone' /\ Numbers' /\ ServiceFirst'
  BY <1>5, DropKeeps
<1>7. OwnerCurrent' /\ OwnerOfSignals'
  BY <1>1 DEF IInv, OwnerCurrent, OwnerOfSignals
<1>8. StaysInUse'
  <2>1. \A f \in listeners : f # locked => callbacks'[f] = callbacks[f]
    <3> SUFFICES ASSUME NEW f \in listeners, f # locked
                 PROVE  callbacks'[f] = callbacks[f]
      OBVIOUS
    <3>1. f \in Filters
      BY DEF IInv, TypeOK
    <3> QED  BY <1>3, <1>4, <3>1
  <2> QED  BY <1>1, <2>1 DEF StaysInUse, IInv, FiltersInUse, history
<1>9. ListsApart'
  BY <1>1, <1>3 DEF ListsApart, IInv, OneList
<1>10. FaultNeedsTwins' /\ Deleting'
  BY <1>1 DEF FaultNeedsTwins, Deleting, IInv, history
<1>11. RunningOwn'
  BY <1>1, <1>5, DropKeepsRunning
<1>12. TypeOK'
  <2>1. callbacks' \in [Filters -> SUBSET (1 .. MaxId)]
    BY <1>1, <1>2 DEF Dropped
  <2>2. running' \in 0 .. MaxId
    BY <1>1, ConstantFacts
  <2> QED  BY <1>1, <2>1, <2>2 DEF IInv, TypeOK, history
<1>13. IInv'
  BY <1>6, <1>7, <1>8, <1>9, <1>10, <1>11, <1>12, InvParts
<1>14. \A k \in Keys : Owned(k)' = Owned(k) \ {running}
  BY <1>5, DropOwned
<1>15. Todo' = Todo \ {running}
  BY <1>1, <1>3, <1>5, <1>7, DropTodo
<1>16. Message' = Message
  BY <1>1 DEF Message
<1>17. running # 1
  BY <1>5 DEF Drop
<1> HIDE DEF gone
<1> QED
  BY <1>1, <1>13, <1>14, <1>15, <1>16, <1>17 DEF Watches!Return, history

(* Removals are removals of WatchSpec. *)
LEMMA RemoveImplements ==
    ASSUME IInv, NEW i \in 1 .. MaxId, NEW ok \in BOOLEAN, g_dbus_remove_watch(i, ok)
    PROVE  IInv' /\ Watches!Remove(i) /\ i \in 1 .. listener_id
<1>1. /\ i \notin NameWatches /\ i # 1 /\ CallerRuns
      /\ UNCHANGED <<rule, listener_id, locked, delete_listener, asked, running>>
      /\ UNCHANGED <<broken, daemon, twins>>
  BY DEF g_dbus_remove_watch
<1>2. PICK f \in listeners : i \in List(f) /\ filter_data_remove_callback(f, i, ok)
  BY DEF g_dbus_remove_watch
<1> DEFINE empty == f # locked /\ callbacks[f] \subseteq {i}
           freed == IF empty /\ ok THEN {f} ELSE {}
           gone == IF empty /\ ok THEN {i, name_watch[f]} ELSE {i}
<1>3. /\ callbacks' = Dropped(callbacks, gone) /\ processed' = Dropped(processed, gone)
      /\ empty => remove_match(f, ok)
      /\ ~empty => UNCHANGED <<rules, refused>>
      /\ empty /\ ok => filter_data_free(f)
      /\ ~(empty /\ ok) => UNCHANGED <<listeners, name_watch, owner>>
  BY <1>2 DEF filter_data_remove_callback
<1>4. /\ f \in Filters /\ listeners \subseteq Filters
      /\ callbacks \in [Filters -> SUBSET (1 .. MaxId)]
      /\ processed \in [Filters -> SUBSET (1 .. MaxId)]
      /\ name_watch \in [Filters -> 0 .. MaxId]
      /\ owner \in [Filters -> Names \cup {Gone, None}]
      /\ rules \subseteq Filters
  BY DEF IInv, TypeOK
<1>5. 0 \in listeners /\ i \in 1 .. listener_id
  <2>1. i \in 1 .. listener_id
    BY <1>2, <1>4 DEF IInv, Numbers
  <2> QED  BY <2>1 DEF IInv, ServiceFirst
<1>6. empty => f # 0 /\ rule[f] \in Signals /\ processed[f] = {}
  BY <1>1, <1>2, <1>5, ServiceFacts DEF IInv, ServiceFirst, FiltersInUse
<1>7. empty /\ ok => /\ name_watch[f] \in NameWatches
                     /\ name_watch[f] # 0 /\ name_watch[f] # 1
  BY <1>2, <1>6, NameWatchFacts DEF IInv, ServiceFirst
<1>8. /\ \A g \in Filters : callbacks'[g] = callbacks[g] \ gone
      /\ \A g \in Filters : processed'[g] = processed[g] \ gone
      /\ listeners' = listeners \ freed
      /\ \A g \in Filters : name_watch'[g] = IF g \in freed THEN 0 ELSE name_watch[g]
      /\ \A g \in Filters : owner'[g] = IF g \in freed THEN None ELSE owner[g]
  BY <1>3, <1>4 DEF Dropped, filter_data_free
<1>9. /\ rules' \subseteq rules /\ rules \ rules' \subseteq freed
      /\ refused' \subseteq refused \cup {rule[f]} /\ refused \subseteq refused'
      /\ refused' # refused => empty
      /\ \A g \in freed : g \notin rules'
      /\ empty /\ ~ok => rule[f] \in refused'
  BY <1>3 DEF remove_match
<1>10. \A g \in Filters : List(g)' = List(g) \ gone
  BY <1>8 DEF List
<1>11. \A g \in listeners \ {0} : name_watch[g] \in gone <=> g \in freed
  <2> SUFFICES ASSUME NEW g \in listeners \ {0}
               PROVE  name_watch[g] \in gone <=> g \in freed
    OBVIOUS
  <2>1. name_watch[g] # i /\ name_watch[g] # 0 /\ g \in Filters
    BY <1>1, <1>4, NameWatchFacts
  <2>2. name_watch[g] = name_watch[f] => g = f
    BY <1>4, <2>1 DEF IInv, NameWatchPerFilter
  <2> QED  BY <2>1, <2>2
<1>12. Drop(i, gone, freed)
  <2>1. freed \subseteq listeners \ {0}
    BY <1>6
  <2>2. gone \subseteq {i} \cup NameWatches /\ i \in gone /\ 1 \notin gone
    BY <1>1, <1>7
  <2>3. \A g \in freed : List(g) \subseteq gone
    BY <1>6 DEF List
  <2> HIDE DEF freed, gone
  <2> QED
    BY <1>1, <1>8, <1>9, <1>10, <1>11, <2>1, <2>2, <2>3 DEF Drop
<1>13. OwnersKept(freed)
  BY <1>1, <1>8 DEF OwnersKept
<1>14. locked \notin freed
  OBVIOUS
<1>15. StaysInUse'
  <2> SUFFICES ASSUME NEW g \in listeners', g # locked
               PROVE  /\ processed'[g] = {}
                      /\ callbacks'[g] # {} \/ g \in delete_listener
                         \/ rule[g] \in refused'
    BY <1>1 DEF StaysInUse
  <2>1. /\ g \in listeners /\ g \in Filters /\ g \notin freed
        /\ processed[g] = {}
        /\ callbacks[g] # {} \/ g \in delete_listener \/ rule[g] \in refused
    BY <1>4, <1>8 DEF IInv, FiltersInUse
  <2>2. processed'[g] = {}
    BY <1>8, <2>1
  <2>3. CASE g = f
    <3>1. empty => rule[g] \in refused'
      BY <1>9, <2>1, <2>3
    <3>2. ~empty => callbacks'[g] # {}
      BY <1>8, <2>1, <2>3
    <3> QED  BY <2>2, <3>1, <3>2
  <2>4. CASE g = 0 /\ g # f
    <3>1. 1 \in callbacks[0]
      BY <1>5, <2>4, ServiceFacts
    <3>2. 1 \in callbacks'[0]
      BY <1>1, <1>7, <1>8, <2>1, <2>4, <3>1
    <3> QED  BY <2>2, <2>4, <3>2
  <2>5. CASE g # 0 /\ g # f
    <3>1. i \notin callbacks[g]
      BY <1>2, <1>4, <2>1, <2>5 DEF IInv, OneList, List
    <3>2. empty /\ ok => name_watch[f] \notin callbacks[g]
      BY <1>7, <2>1, <2>5, NameWatchFacts DEF List
    <3>3. \A x \in callbacks[g] : x \notin gone
      BY <3>1, <3>2
    <3>4. callbacks'[g] = callbacks[g] \ gone
      BY <1>8, <2>1
    <3>5. callbacks[g] \ gone = callbacks[g]
      <4> HIDE DEF gone
      <4> QED  BY <3>3
    <3> QED  BY <1>9, <2>1, <2>2, <3>4, <3>5
  <2> QED  BY <2>3, <2>4, <2>5
<1>16. TypeOK'
  <2>1. callbacks' \in [Filters -> SUBSET (1 .. MaxId)]
        /\ processed' \in [Filters -> SUBSET (1 .. MaxId)]
    BY <1>3, <1>4 DEF Dropped
  <2>2. name_watch' \in [Filters -> 0 .. MaxId]
    BY <1>3, <1>4, ConstantFacts DEF filter_data_free
  <2>3. owner' \in [Filters -> Names \cup {Gone, None}]
    BY <1>3, <1>4 DEF filter_data_free
  <2>4. refused' \subseteq Signals
    BY <1>6, <1>9 DEF IInv, TypeOK
  <2>5. locked' \in listeners' \cup {None}
    BY <1>1, <1>8 DEF IInv, TypeOK
  <2>6. listeners' \subseteq Filters /\ rules' \subseteq Filters
    BY <1>4, <1>8, <1>9
  <2> HIDE DEF freed, gone, empty
  <2> QED  BY <1>1, <2>1, <2>2, <2>3, <2>4, <2>5, <2>6 DEF IInv, TypeOK
<1> HIDE DEF freed, gone, empty
<1>17. /\ OneRulePerFilter' /\ NameWatchPerFilter' /\ FiltersApart'
       /\ ListsGone' /\ Numbers' /\ ServiceFirst'
  BY <1>12, DropKeeps
<1>18. OwnerCurrent' /\ OwnerOfSignals'
  BY <1>12, <1>13, DropKeepsOwners
<1>19. RunningOwn'
  BY <1>1, <1>12, DropKeepsRunning
<1>20. ListsApart'
  BY <1>8 DEF ListsApart, IInv, OneList
<1>21. FaultNeedsTwins' /\ Deleting'
  BY <1>1 DEF FaultNeedsTwins, Deleting, IInv
<1>22. IInv'
  BY <1>15, <1>16, <1>17, <1>18, <1>19, <1>20, <1>21, InvParts
<1>23. \A k \in Keys : Owned(k)' = Owned(k) \ {i}
  BY <1>12, DropOwned
<1>24. Todo' = Todo \ {i}
  BY <1>1, <1>8, <1>12, <1>14, <1>18, DropTodo
<1>25. Message' = Message
  BY <1>1 DEF Message
<1>26. running # 0 \/ Message = None
  BY <1>1 DEF CallerRuns, Message
<1> QED
  BY <1>1, <1>5, <1>9, <1>22, <1>23, <1>24, <1>25, <1>26
  DEF Watches!Remove, Watches!CallerRuns
-----------------------------------------------------------------------------
(* The message is through, and the one filter left empty is deleted.        *)
LEMMA EndImplements ==
    ASSUME IInv, NEW ok \in BOOLEAN, EndDispatch(ok)
    PROVE  IInv' /\ Watches!End
<1> DEFINE gone == {name_watch[f] : f \in Deleted}
<1>1. /\ locked # None /\ running = 0 /\ ~broken
      /\ callbacks[locked] = {} /\ Later = {}
      /\ Empty \subseteq listeners
      /\ \A f, g \in Empty : f = g
      /\ callbacks' = Dropped(Exchanged, gone)
      /\ processed' = Dropped([processed EXCEPT ![locked] = {}], gone)
      /\ locked' = None /\ delete_listener' = {}
      /\ UNCHANGED <<rule, listener_id, asked, running, broken, daemon, twins>>
  BY DEF EndDispatch, Dispatching, Faulty
<1>2. \/ /\ Deleted = {}
         /\ UNCHANGED <<listeners, name_watch, owner, rules, refused>>
      \/ \E f \in Deleted : filter_data_free(f) /\ remove_match(f, ok)
  BY DEF EndDispatch
<1>3. /\ locked \in listeners /\ locked \in Filters /\ listener_id # 0
      /\ listeners \subseteq Filters
      /\ callbacks \in [Filters -> SUBSET (1 .. MaxId)]
      /\ processed \in [Filters -> SUBSET (1 .. MaxId)]
      /\ name_watch \in [Filters -> 0 .. MaxId]
      /\ owner \in [Filters -> Names \cup {Gone, None}]
      /\ rules \subseteq Filters
  BY <1>1, LockedFacts DEF IInv, TypeOK
<1>4. 0 \in listeners
  BY <1>3 DEF IInv, ServiceFirst
<1>5. /\ \A f \in Filters : Exchanged[f] = IF f = locked THEN processed[f]
                                           ELSE callbacks[f]
      /\ Exchanged \in [Filters -> SUBSET (1 .. MaxId)]
  BY <1>3 DEF Exchanged
<1>6. /\ \A f \in Filters : callbacks'[f] = Exchanged[f] \ gone
      /\ \A f \in Filters : processed'[f] = (IF f = locked THEN {} ELSE processed[f])
                                            \ gone
  BY <1>1, <1>3 DEF Dropped
<1>7. \A f \in Filters : List(f)' = List(f) \ gone
  BY <1>1, <1>5, <1>6 DEF List
<1>8. ASSUME NEW f \in Deleted
      PROVE  f \in listeners \ {0} /\ f \in Empty /\ List(f) = {}
  <2>1. f \in Empty /\ f \in listeners /\ f \in Filters /\ Exchanged[f] = {}
    BY <1>1, <1>3 DEF Deleted
  <2>2. List(f) = {}
    BY <1>1, <1>5, <2>1 DEF List, IInv, FiltersInUse
  <2>3. f # 0
    BY <1>4, <2>2, ServiceFacts
  <2> QED  BY <2>1, <2>2, <2>3
<1>9. \A f, g \in Deleted : f = g
  BY <1>1, <1>8
<1>10. /\ listeners' = listeners \ Deleted
       /\ \A f \in Filters : name_watch'[f] = IF f \in Deleted THEN 0 ELSE name_watch[f]
       /\ \A f \in Filters : owner'[f] = IF f \in Deleted THEN None ELSE owner[f]
       /\ rules' \subseteq rules /\ refused \subseteq refused'
       /\ rules \ rules' \subseteq Deleted
       /\ \A f \in Deleted : f \in rules' => rule[f] \in refused'
       /\ \A s \in refused' : s \in refused \/ \E f \in Deleted : s = rule[f]
       /\ name_watch' \in [Filters -> 0 .. MaxId]
       /\ owner' \in [Filters -> Names \cup {Gone, None}]
  <2>1. CASE /\ Deleted = {}
             /\ UNCHANGED <<listeners, name_watch, owner, rules, refused>>
    BY <1>3, <2>1
  <2>2. CASE \E f \in Deleted : filter_data_free(f) /\ remove_match(f, ok)
    <3>1. PICK d \in Deleted : filter_data_free(d) /\ remove_match(d, ok)
      BY <2>2
    <3>2. Deleted = {d} /\ d \in Filters
      BY <1>3, <1>8, <1>9
    <3>3. /\ listeners' = listeners \ {d}
          /\ name_watch' = [name_watch EXCEPT ![d] = 0]
          /\ owner' = [owner EXCEPT ![d] = None]
      BY <3>1 DEF filter_data_free
    <3>4. /\ rules' \subseteq rules /\ refused \subseteq refused'
          /\ rules \ rules' \subseteq {d}
          /\ d \in rules' => rule[d] \in refused'
          /\ \A s \in refused' : s \in refused \/ s = rule[d]
      BY <3>1 DEF remove_match
    <3>5. /\ name_watch' \in [Filters -> 0 .. MaxId]
          /\ \A f \in Filters : name_watch'[f] = IF f = d THEN 0 ELSE name_watch[f]
      BY <1>3, <3>2, <3>3, ConstantFacts
    <3>6. /\ owner' \in [Filters -> Names \cup {Gone, None}]
          /\ \A f \in Filters : owner'[f] = IF f = d THEN None ELSE owner[f]
      BY <1>3, <3>2, <3>3
    <3> QED  BY <3>2, <3>3, <3>4, <3>5, <3>6
  <2> QED  BY <1>2, <2>1, <2>2
<1>11. \A f \in listeners \ {0} : name_watch[f] \in gone <=> f \in Deleted
  <2> SUFFICES ASSUME NEW f \in listeners \ {0}, name_watch[f] \in gone
               PROVE  f \in Deleted
    OBVIOUS
  <2>1. PICK g \in Deleted : name_watch[f] = name_watch[g]
    OBVIOUS
  <2>2. name_watch[f] # 0 /\ f \in Filters /\ g \in Filters
    BY <1>3, <1>8, NameWatchFacts
  <2>3. f = g
    BY <2>1, <2>2 DEF IInv, NameWatchPerFilter
  <2> QED  BY <2>3
<1>12. gone \subseteq NameWatches
  <2> SUFFICES ASSUME NEW f \in Deleted PROVE name_watch[f] \in NameWatches
    OBVIOUS
  <2> QED  BY <1>8, NameWatchFacts
<1> HIDE DEF gone
<1>13. 1 \notin gone
  BY <1>12 DEF IInv, ServiceFirst
<1>14. Drop(0, gone, Deleted)
  <2>1. Deleted \subseteq listeners \ {0}
    BY <1>8
  <2>2. \A f \in Deleted : List(f) \subseteq gone
    BY <1>8
  <2> QED
    BY <1>1, <1>7, <1>10, <1>11, <1>12, <1>13, <2>1, <2>2 DEF Drop
<1>15. OwnersKept(Deleted)
  BY <1>1, <1>10 DEF OwnersKept
<1>16. /\ OneRulePerFilter' /\ NameWatchPerFilter' /\ FiltersApart'
       /\ ListsGone' /\ Numbers' /\ ServiceFirst'
  BY <1>14, DropKeeps
<1>17. OwnerCurrent' /\ OwnerOfSignals'
  BY <1>14, <1>15, DropKeepsOwners
<1>18. RunningOwn'
  BY <1>1, <1>14, DropKeepsRunning
<1>19. ListsApart'
  BY <1>5, <1>6 DEF ListsApart, IInv, OneList
<1>20. StaysInUse'
  <2> SUFFICES ASSUME NEW f \in listeners'
               PROVE  /\ processed'[f] = {}
                      /\ callbacks'[f] # {} \/ rule[f] \in refused'
    BY <1>1 DEF StaysInUse
  <2>1. f \in listeners /\ f \in Filters /\ f \notin Deleted
    BY <1>3, <1>10
  <2>2. processed'[f] = {}
    BY <1>6, <2>1 DEF IInv, FiltersInUse
  <2>3. CASE f = 0
    <3>1. 1 \in Exchanged[0]
      BY <1>1, <1>4, <1>5, <2>1, <2>3, ServiceFacts DEF List
    <3>2. 1 \in callbacks'[0]
      BY <1>6, <1>13, <2>1, <2>3, <3>1
    <3> QED  BY <2>2, <2>3, <3>2
  <2>4. CASE f # 0
    <3>1. Exchanged[f] # {} \/ rule[f] \in refused
      <4>1. f \in Empty => Exchanged[f] # {}
        BY <2>1 DEF Deleted
      <4>2. f \notin Empty => Exchanged[f] # {} \/ rule[f] \in refused
        BY <1>5, <2>1 DEF Empty, IInv, FiltersInUse
      <4> QED  BY <4>1, <4>2
    <3>2. Exchanged[f] \subseteq List(f)
      BY <1>5, <2>1 DEF List
    <3>3. \A x \in Exchanged[f] : x \notin gone
      BY <1>12, <2>1, <2>4, <3>2, NameWatchFacts
    <3>4. callbacks'[f] = Exchanged[f]
      BY <1>6, <2>1, <3>3
    <3> QED  BY <1>10, <2>2, <3>1, <3>4
  <2> QED  BY <2>3, <2>4
<1>21. FaultNeedsTwins' /\ Deleting'
  BY <1>1 DEF FaultNeedsTwins, Deleting
<1>22. TypeOK'
  <2>1. callbacks' \in [Filters -> SUBSET (1 .. MaxId)]
    BY <1>1, <1>5 DEF Dropped
  <2>2. processed' \in [Filters -> SUBSET (1 .. MaxId)]
    BY <1>1, <1>3 DEF Dropped
  <2>3. refused' \subseteq Signals
    BY <1>8, <1>10 DEF IInv, TypeOK, ServiceFirst
  <2>4. listeners' \subseteq Filters /\ rules' \subseteq Filters
        /\ locked' \in listeners' \cup {None} /\ delete_listener' \subseteq Filters
    BY <1>1, <1>3, <1>10
  <2> QED
    BY <1>1, <1>10, <2>1, <2>2, <2>3, <2>4 DEF IInv, TypeOK
<1>23. IInv'
  BY <1>16, <1>17, <1>18, <1>19, <1>20, <1>21, <1>22, InvParts
<1>24. \A k \in Keys : Owned(k)' = Owned(k)
  <2>1. \A k \in Keys : Owned(k)' = Owned(k) \ {0} /\ 0 \notin Owned(k)
    BY <1>14, DropOwned DEF Owned
  <2> QED  BY <2>1
<1>25. Todo = {} /\ Todo' = {}
  BY <1>1 DEF Todo
<1>26. Message # None /\ Message' = None
  BY <1>1, LockedFacts DEF Message
<1> QED
  BY <1>1, <1>10, <1>23, <1>24, <1>25, <1>26 DEF Watches!End
-----------------------------------------------------------------------------
(* The service watch, made before everything else.                          *)
LEMMA AddServiceImplements ==
    ASSUME IInv, g_dbus_add_service_watch
    PROVE  IInv' /\ Watches!Add(Owner, TRUE)
<1>1. /\ listener_id = 0 /\ MaxId > 0 /\ listener_id' = 1
      /\ listeners' = {0} /\ rules' = {0}
      /\ callbacks' = [callbacks EXCEPT ![0] = {1}]
      /\ asked' = TRUE
      /\ UNCHANGED <<rule, owner, processed, name_watch, locked, delete_listener>>
      /\ UNCHANGED <<running, broken, daemon, history>>
  BY DEF g_dbus_add_service_watch
<1>2. /\ listeners = {} /\ ~asked /\ locked = None /\ delete_listener = {}
      /\ running = 0 /\ ~broken
  <2>1. listeners = {} /\ ~asked
    BY <1>1 DEF IInv, ServiceFirst
  <2>2. locked = None
    BY <1>1, LockedFacts
  <2> QED  BY <1>1, <2>1, <2>2 DEF IInv, Deleting, RunningOwn
<1>3. /\ \A f \in Filters : callbacks[f] = {} /\ processed[f] = {}
      /\ \A f \in Filters : name_watch[f] = 0
      /\ callbacks \in [Filters -> SUBSET (1 .. MaxId)]
  BY <1>2 DEF IInv, FiltersInUse, NameWatchPerFilter, List, TypeOK
<1>4. /\ \A f \in Filters : callbacks'[f] = IF f = 0 THEN {1} ELSE {}
      /\ \A f \in Filters : processed'[f] = {}
      /\ \A f \in Filters : List(f)' = IF f = 0 THEN {1} ELSE {}
  BY <1>1, <1>3 DEF List
<1>5. NameWatches = {0} /\ NameWatches' = {0}
  BY <1>1, <1>3, ConstantFacts DEF NameWatches
<1>6. StaysInUse' /\ ListsGone' /\ ListsApart' /\ FiltersApart'
  BY <1>1, <1>4, ConstantFacts DEF StaysInUse, ListsGone, ListsApart, FiltersApart
<1>7. OneRulePerFilter' /\ NameWatchPerFilter'
  BY <1>1, <1>3 DEF OneRulePerFilter, NameWatchPerFilter
<1>8. Numbers'
  BY <1>1, <1>4 DEF Numbers
<1>9. ServiceFirst'
  BY <1>1, <1>4, <1>5, ConstantFacts DEF ServiceFirst, IInv
<1>10. OwnerCurrent' /\ OwnerOfSignals'
  BY <1>1, <1>2, ConstantFacts DEF IInv, OwnerCurrent, OwnerOfSignals
<1>11. FaultNeedsTwins' /\ Deleting' /\ RunningOwn'
  BY <1>1, <1>2 DEF FaultNeedsTwins, Deleting, RunningOwn
<1>12. TypeOK'
  <2>1. callbacks' \in [Filters -> SUBSET (1 .. MaxId)]
    BY <1>1, <1>3, ConstantFacts
  <2>2. /\ listeners' \subseteq Filters /\ rules' \subseteq Filters
        /\ locked' \in listeners' \cup {None} /\ listener_id' \in 0 .. MaxId
    BY <1>1, <1>2, ConstantFacts
  <2>3. asked' \in BOOLEAN
    BY <1>1
  <2> QED  BY <1>1, <2>1, <2>2, <2>3 DEF IInv, TypeOK, history
<1>13. IInv'
  BY <1>6, <1>7, <1>8, <1>9, <1>10, <1>11, <1>12, InvParts
<1>14. \A k : Owned(k) = {}
  BY <1>2 DEF Owned
<1>15. \A k \in Keys : Owned(k)' = IF k = Owner THEN {1} ELSE {}
  <2>1. rule'[0] = Owner
    BY <1>9 DEF ServiceFirst
  <2>2. 1 \in 1 .. MaxId
    BY <1>1, ConstantFacts
  <2> QED  BY <1>1, <1>4, <1>5, <2>1, <2>2, ConstantFacts DEF Owned
<1>16. Todo = {} /\ Todo' = {} /\ Message = None /\ Message' = None
  BY <1>1, <1>2 DEF Todo, Message
<1>17. [k \in Keys |-> Owned(k)'] =
         [[k \in Keys |-> Owned(k)] EXCEPT ![Owner] = @ \cup {1}]
  BY <1>14, <1>15, ConstantFacts
<1>18. /\ (IF asked THEN {1} ELSE {}) = {}
       /\ (IF asked' THEN {1} ELSE {}) = {1}
  BY <1>1, <1>2
<1> QED
  BY <1>1, <1>13, <1>16, <1>17, <1>18
  DEF Watches!Add, Watches!CallerRuns, history

-----------------------------------------------------------------------------
(* What a new watch on s brings: f is the filter it goes to.                *)
Joins(s, f) ==
    /\ f \in listeners \ {0} /\ rule[f] = s /\ name_watch[f] # 0
    /\ owner[f] = None
    /\ UNCHANGED <<listeners, rules, name_watch, rule>>
    /\ listener_id' = listener_id + 1

Founds(s, f) ==
    /\ f = listener_id + 1 /\ f \notin listeners /\ f \notin rules
    /\ List(f) = {} /\ name_watch[f] = 0 /\ owner[f] = None
    /\ listeners' = listeners \cup {f} /\ rules' = rules \cup {f}
    /\ rule' = [rule EXCEPT ![f] = s]
    /\ name_watch' = [name_watch EXCEPT ![f] = listener_id + 2]
    /\ listener_id' = listener_id + 2

(* The numbers added to the filter g. *)
NewOn(f, g) ==
    IF g = f THEN {listener_id + 1}
    ELSE IF g = 0 /\ name_watch[f] = 0 THEN {listener_id + 2} ELSE {}

AddsTo(s, f) ==
    /\ f \in Filters \ {0}
    /\ Joins(s, f) \/ Founds(s, f)
    /\ CallerRuns /\ 0 \in listeners
    /\ listener_id \in Nat /\ listener_id + 2 <= MaxId
    /\ \A g \in Filters : callbacks'[g] = IF g = locked THEN callbacks[g]
                                          ELSE callbacks[g] \cup NewOn(f, g)
    /\ \A g \in Filters : processed'[g] = IF g = locked
                                          THEN processed[g] \cup NewOn(f, g)
                                          ELSE processed[g]
    /\ \A g \in Filters : List(g)' = List(g) \cup NewOn(f, g)
    /\ callbacks' \in [Filters -> SUBSET (1 .. MaxId)]
    /\ processed' \in [Filters -> SUBSET (1 .. MaxId)]
    /\ twins' = IF \E g \in listeners \ {f} : rule[g] = s THEN twins \cup {s} ELSE twins
    /\ UNCHANGED <<owner, locked, delete_listener, asked, running>>
    /\ UNCHANGED <<broken, daemon, refused>>

LEMMA AddSignalAdds ==
    ASSUME IInv, NEW s \in Signals, g_dbus_add_signal_watch(s)
    PROVE  \E f : AddsTo(s, f)
<1>1. PICK f \in filter_data_get(s) :
        LET id == listener_id + 1
            first == name_watch[f] = 0
            new == [g \in Filters |-> IF g = f THEN {id}
                                      ELSE IF g = 0 /\ first THEN {id + 1} ELSE {}]
        IN  /\ CallerRuns
            /\ 0 \in listeners /\ id < MaxId
            /\ add_match(f)
            /\ listeners' = listeners \cup {f}
            /\ rule' = [rule EXCEPT ![f] = s]
            /\ filter_data_add_callback(new)
            /\ name_watch' = IF first THEN [name_watch EXCEPT ![f] = id + 1]
                             ELSE name_watch
            /\ listener_id' = IF first THEN id + 1 ELSE id
            /\ twins' = IF \E g \in listeners \ {f} : rule[g] = s
                        THEN twins \cup {s} ELSE twins
            /\ UNCHANGED <<owner, locked, delete_listener, asked, running,
                           broken, daemon, refused>>
  BY DEF g_dbus_add_signal_watch
<1> DEFINE new == [g \in Filters |-> NewOn(f, g)]
<1>2. /\ listener_id \in Nat /\ MaxId \in Nat /\ listener_id + 1 < MaxId
      /\ rule \in [Filters -> Keys \cup {None}]
      /\ name_watch \in [Filters -> 0 .. MaxId]
      /\ callbacks \in [Filters -> SUBSET (1 .. MaxId)]
      /\ processed \in [Filters -> SUBSET (1 .. MaxId)]
      /\ listeners \subseteq Filters
  BY <1>1, ConstantFacts DEF IInv, TypeOK
<1>3. filter_data_add_callback(new)
  <2>1. \A g \in Filters :
          (IF g = f THEN {listener_id + 1}
           ELSE IF g = 0 /\ name_watch[f] = 0 THEN {(listener_id + 1) + 1} ELSE {})
          = NewOn(f, g)
    <3>1. (listener_id + 1) + 1 = listener_id + 2
      BY <1>2
    <3> QED  BY <3>1, Zenon DEF NewOn
  <2>2. [g \in Filters |->
           IF g = f THEN {listener_id + 1}
           ELSE IF g = 0 /\ name_watch[f] = 0 THEN {(listener_id + 1) + 1} ELSE {}]
        = new
    BY <2>1
  <2> QED  BY <1>1, <2>2
<1>4. new \in [Filters -> SUBSET (1 .. MaxId)]
  <2>1. ASSUME NEW g, NEW x \in NewOn(f, g)
        PROVE  x \in 1 .. MaxId
    <3>1. x = listener_id + 1 \/ x = listener_id + 2
      BY DEF NewOn
    <3> QED  BY <1>2, <3>1
  <2> QED  BY <2>1
<1>5. \A g \in Filters : new[g] = NewOn(f, g)
  OBVIOUS
<1> HIDE DEF new
<1>6. /\ \A g \in Filters : callbacks'[g] = IF g = locked THEN callbacks[g]
                                            ELSE callbacks[g] \cup NewOn(f, g)
      /\ \A g \in Filters : processed'[g] = IF g = locked
                                            THEN processed[g] \cup NewOn(f, g)
                                            ELSE processed[g]
  BY <1>3, <1>5 DEF filter_data_add_callback
<1>7. /\ callbacks' \in [Filters -> SUBSET (1 .. MaxId)]
      /\ processed' \in [Filters -> SUBSET (1 .. MaxId)]
  BY <1>2, <1>3, <1>4 DEF filter_data_add_callback
<1>8. \A g \in Filters : List(g)' = List(g) \cup NewOn(f, g)
  BY <1>6 DEF List
<1>9. f \in Filters \ {0} /\ (Joins(s, f) \/ Founds(s, f))
  <2> DEFINE found == {g \in listeners : rule[g] = s /\ owner[g] = None}
  <2>1. CASE found = {}
    <3>1. f = listener_id + 1
      BY <1>1, <2>1 DEF filter_data_get, filter_data_find_match
    <3>2. f \in Filters /\ f # 0
      BY <1>2, <3>1 DEF Filters
    <3>3. f \notin listeners /\ f \notin rules
      BY <1>2, <3>1 DEF IInv, Numbers
    <3>4. List(f) = {} /\ name_watch[f] = 0 /\ owner[f] = None
      BY <3>2, <3>3 DEF IInv, FiltersInUse, NameWatchPerFilter, OwnerOfSignals
    <3>5. /\ listeners' = listeners \cup {f} /\ rules' = rules \cup {f}
          /\ rule' = [rule EXCEPT ![f] = s]
          /\ name_watch' = [name_watch EXCEPT ![f] = listener_id + 2]
          /\ listener_id' = listener_id + 2
      BY <1>1, <1>2, <3>3, <3>4 DEF add_match
    <3> QED  BY <3>1, <3>2, <3>3, <3>4, <3>5 DEF Founds
  <2>2. CASE found # {}
    <3>1. f \in listeners /\ rule[f] = s /\ owner[f] = None
      BY <1>1, <2>2 DEF filter_data_get, filter_data_find_match, First
    <3>2. f \in listeners \ {0} /\ f \in Filters
      BY <1>2, <3>1, ConstantFacts DEF IInv, ServiceFirst
    <3>3. name_watch[f] # 0
      BY <3>2, NameWatchFacts
    <3>4. /\ listeners' = listeners /\ rules' = rules /\ rule' = rule
          /\ name_watch' = name_watch /\ listener_id' = listener_id + 1
      BY <1>1, <1>2, <3>1, <3>2, <3>3 DEF add_match
    <3> QED  BY <3>1, <3>2, <3>3, <3>4 DEF Joins
  <2> QED  BY <2>1, <2>2
<1>10. listener_id + 2 <= MaxId
  BY <1>2
<1> QED
  BY <1>1, <1>2, <1>6, <1>7, <1>8, <1>9, <1>10 DEF AddsTo

(* The lists and the name watches after such a step.                        *)
LEMMA AddsFacts ==
    ASSUME IInv, NEW s \in Signals, NEW f, AddsTo(s, f)
    PROVE  /\ listeners' = listeners \cup {f}
           /\ rule'[f] = s
           /\ \A g \in listeners : rule'[g] = rule[g] /\ g \in Filters
           /\ \A g \in Filters : g # f => rule'[g] = rule[g]
           /\ f \notin listeners => List(f) = {} /\ name_watch[f] = 0
           /\ \A g \in Filters : \A x \in List(g) : x \in 1 .. listener_id
           /\ NameWatches' \subseteq NameWatches \cup {listener_id + 2}
           /\ \A x \in NameWatches : x # 0 => x \in NameWatches'
           /\ name_watch[f] = 0 => listener_id + 2 \in NameWatches'
           /\ \A x \in NameWatches : x \in 0 .. listener_id
<1>1. /\ f \in Filters \ {0} /\ listener_id \in Nat
      /\ rule \in [Filters -> Keys \cup {None}]
      /\ name_watch \in [Filters -> 0 .. MaxId] /\ listeners \subseteq Filters
  BY DEF AddsTo, IInv, TypeOK
<1>2. \A g \in Filters : \A x \in List(g) : x \in 1 .. listener_id
  BY DEF IInv, Numbers
<1>3. \A x \in NameWatches : x \in 0 .. listener_id
  BY <1>1, <1>2, NameWatchFacts, ConstantFacts
<1>4. CASE Joins(s, f)
  <2>1. NameWatches' = NameWatches
    BY <1>4 DEF Joins, NameWatches
  <2> QED  BY <1>1, <1>2, <1>3, <1>4, <2>1 DEF Joins
<1>5. CASE Founds(s, f)
  <2>1. /\ name_watch'[f] = listener_id + 2
        /\ \A g \in Filters : g # f => name_watch'[g] = name_watch[g]
        /\ name_watch[f] = 0
    BY <1>1, <1>5 DEF Founds
  <2>2. NameWatches' \subseteq NameWatches \cup {listener_id + 2}
    BY <2>1 DEF NameWatches
  <2>3. \A x \in NameWatches : x # 0 => x \in NameWatches'
    BY <2>1 DEF NameWatches
  <2>4. listener_id + 2 \in NameWatches'
    BY <1>1, <2>1 DEF NameWatches
  <2> QED  BY <1>1, <1>2, <1>3, <1>5, <2>2, <2>3, <2>4 DEF Founds
<1> QED  BY <1>4, <1>5 DEF AddsTo
(* The invariant. *)
LEMMA AddsKeep ==
    ASSUME IInv, NEW s \in Signals, NEW f, AddsTo(s, f)
    PROVE  IInv'
<1>1. /\ f \in Filters \ {0} /\ listener_id \in Nat /\ listener_id + 2 <= MaxId
      /\ 0 \in listeners /\ 0 \in Filters
      /\ listener_id' \in {listener_id + 1, listener_id + 2}
      /\ \A g \in Filters : callbacks'[g] = IF g = locked THEN callbacks[g]
                                            ELSE callbacks[g] \cup NewOn(f, g)
      /\ \A g \in Filters : processed'[g] = IF g = locked
                                            THEN processed[g] \cup NewOn(f, g)
                                            ELSE processed[g]
      /\ \A g \in Filters : List(g)' = List(g) \cup NewOn(f, g)
      /\ UNCHANGED <<owner, locked, delete_listener, asked, running>>
      /\ UNCHANGED <<broken, daemon, refused>>
  BY ConstantFacts DEF AddsTo, Joins, Founds
<1>2. /\ listeners' = listeners \cup {f}
      /\ rule'[f] = s
      /\ \A g \in listeners : rule'[g] = rule[g] /\ g \in Filters
      /\ \A g \in Filters : g # f => rule'[g] = rule[g]
      /\ f \notin listeners => List(f) = {} /\ name_watch[f] = 0
      /\ \A g \in Filters : \A x \in List(g) : x \in 1 .. listener_id
      /\ NameWatches' \subseteq NameWatches \cup {listener_id + 2}
      /\ \A x \in NameWatches : x \in 0 .. listener_id
  BY AddsFacts
<1>3. \A g \in Filters : \A x \in NewOn(f, g) :
        /\ x \in {listener_id + 1, listener_id + 2}
        /\ x = listener_id + 1 => g = f
        /\ x = listener_id + 2 => g = 0 /\ listener_id' = listener_id + 2
  <2>1. name_watch[f] = 0 => listener_id' = listener_id + 2
    BY DEF AddsTo, Joins, Founds
  <2> QED  BY <1>1, <2>1 DEF NewOn
<1>4. \A g, h \in Filters : \A x \in NewOn(f, g) : x \notin List(h)
  BY <1>1, <1>2, <1>3
<1>5. StaysInUse'
  <2> SUFFICES ASSUME NEW g \in listeners', g # locked
               PROVE  /\ processed'[g] = {}
                      /\ callbacks'[g] # {} \/ g \in delete_listener
                         \/ rule'[g] \in refused
    BY <1>1 DEF StaysInUse
  <2>1. CASE g = f
    <3>1. processed[f] = {}
      BY <1>1, <1>2, <2>1 DEF IInv, FiltersInUse, List
    <3>2. listener_id + 1 \in callbacks'[f]
      BY <1>1, <2>1 DEF NewOn
    <3> QED  BY <1>1, <2>1, <3>1, <3>2
  <2>2. CASE g # f
    BY <1>1, <1>2, <2>2 DEF IInv, FiltersInUse
  <2> QED  BY <2>1, <2>2
<1>6. ListsGone'
  <2> SUFFICES ASSUME NEW g \in Filters \ listeners' PROVE List(g)' = {}
    BY DEF ListsGone
  <2>1. g # f /\ g \notin listeners /\ g # 0
    BY <1>1, <1>2
  <2> QED  BY <1>1, <2>1 DEF NewOn, IInv, FiltersInUse
<1>7. OneRulePerFilter'
  <2>1. listeners' \subseteq rules'
    BY <1>2 DEF AddsTo, Joins, Founds, IInv, OneRulePerFilter
  <2>2. \A g \in rules' \ listeners' : rule'[g] \in refused'
    <3> SUFFICES ASSUME NEW g \in rules' \ listeners' PROVE rule'[g] \in refused
      BY <1>1
    <3>1. g # f /\ g \notin listeners /\ g \in rules
      BY <1>2 DEF AddsTo, Joins, Founds
    <3>2. g \in Filters
      BY <3>1 DEF IInv, TypeOK
    <3> QED  BY <1>2, <3>1, <3>2 DEF IInv, OneRulePerFilter
  <2>3. ASSUME NEW g \in listeners', NEW h \in listeners', g # h, rule'[g] = rule'[h]
        PROVE  rule'[g] \in twins'
    <3>1. CASE g # f /\ h # f
      <4>1. /\ g \in listeners /\ h \in listeners
            /\ rule'[g] = rule[g] /\ rule'[h] = rule[h]
        BY <1>2, <3>1
      <4> QED  BY <2>3, <4>1, TwinFacts DEF AddsTo
    <3>2. CASE g = f \/ h = f
      <4>1. \E e \in listeners \ {f} : rule[e] = s
        BY <1>2, <2>3, <3>2
      <4> QED  BY <1>2, <2>3, <3>2, <4>1 DEF AddsTo
    <3> QED  BY <3>1, <3>2
  <2> QED  BY <2>1, <2>2, <2>3 DEF OneRulePerFilter
<1>8. NameWatchPerFilter'
  <2>1. CASE Joins(s, f)
    BY <1>1, <2>1 DEF Joins, IInv, NameWatchPerFilter
  <2>2. CASE Founds(s, f)
    <3>1. /\ name_watch'[f] = listener_id + 2 /\ listener_id + 2 \in List(0)'
          /\ \A g \in Filters : g # f => name_watch'[g] = name_watch[g]
      BY <1>1, <2>2 DEF Founds, NewOn, IInv, TypeOK
    <3>2. \A g \in Filters : name_watch[g] \in NameWatches
      BY DEF NameWatches
    <3>3. \A g \in Filters : name_watch[g] # listener_id + 2
      BY <1>1, <1>2, <3>2
    <3> QED  BY <1>1, <1>2, <3>1, <3>3 DEF IInv, NameWatchPerFilter
  <2> QED  BY <2>1, <2>2 DEF AddsTo
<1>9. ListsApart'
  BY <1>1, <1>4 DEF ListsApart, IInv, OneList, List
<1>10. FiltersApart'
  <2> SUFFICES ASSUME NEW g \in Filters, NEW h \in Filters, NEW x,
                      x \in List(g)', x \in List(h)'
               PROVE  g = h
    BY DEF FiltersApart
  <2>1. /\ x \in List(g) \/ x \in NewOn(f, g)
        /\ x \in List(h) \/ x \in NewOn(f, h)
    BY <1>1
  <2>2. CASE x \in List(g) /\ x \in List(h)
    BY <2>2 DEF IInv, OneList
  <2>3. CASE x \in NewOn(f, g) /\ x \in NewOn(f, h)
    BY <1>1, <1>3, <2>3
  <2> QED  BY <1>4, <2>1, <2>2, <2>3
<1>11. Numbers'
  <2>1. ASSUME NEW g \in Filters, NEW x \in List(g)'
        PROVE  x \in 1 .. listener_id'
    <3>1. CASE x \in List(g)
      BY <1>1, <1>2, <3>1
    <3>2. CASE x \in NewOn(f, g)
      BY <1>1, <1>3, <3>2
    <3> QED  BY <1>1, <3>1, <3>2
  <2>2. listeners' \cup rules' \subseteq 0 .. listener_id'
    <3>1. listeners \cup rules \subseteq 0 .. listener_id
      BY DEF IInv, Numbers
    <3> QED  BY <1>1, <3>1 DEF AddsTo, Joins, Founds
  <2> QED  BY <2>1, <2>2 DEF Numbers
<1>12. ServiceFirst'
  <2>1. listener_id >= 1 /\ 1 \in List(0)
    BY <1>1, ServiceFacts
  <2>2. listener_id' # 0 /\ 0 \in listeners' /\ 1 \in List(0)'
    BY <1>1, <1>2, <2>1
  <2>3. 1 \notin NameWatches'
    BY <1>1, <1>2, <2>1 DEF IInv, ServiceFirst
  <2>4. rule'[0] = Owner /\ \A g \in listeners' \ {0} : rule'[g] \in Signals
    BY <1>1, <1>2 DEF IInv, ServiceFirst
  <2> QED  BY <2>2, <2>3, <2>4 DEF ServiceFirst
<1>13. OwnerCurrent' /\ OwnerOfSignals'
  BY <1>1, <1>2 DEF AddsTo, Joins, Founds, IInv, OwnerCurrent, OwnerOfSignals
<1>14. RunningOwn'
  <2>1. running \in 0 .. listener_id
    BY DEF IInv, RunningOwn
  <2>2. running' \in 0 .. listener_id'
    BY <1>1, <2>1
  <2>3. running # 0 => running \notin NameWatches'
    BY <1>1, <1>2, <2>1 DEF IInv, RunningOwn
  <2>4. running # 0 /\ locked # None =>
          \A g \in Filters \ {locked} : running \notin List(g)'
    BY <1>1, <1>3, <2>1 DEF IInv, RunningOwn
  <2> QED  BY <1>1, <2>2, <2>3, <2>4 DEF RunningOwn
<1>15. ~broken /\ ~broken'
  BY <1>1 DEF AddsTo, CallerRuns
<1>16. Deleting'
  <2>1. CASE locked = None
    BY <1>1, <1>15, <2>1 DEF IInv, Deleting
  <2>2. CASE locked # None
    <3>1. locked \in listeners /\ locked \in Nat /\ rule'[locked] = rule[locked]
      BY <1>2, <2>2, LockedFacts
    <3>2. \A g \in delete_listener : rule'[g] = rule[g]
      <4> SUFFICES ASSUME NEW g \in delete_listener PROVE rule'[g] = rule[g]
        OBVIOUS
      <4>1. g < locked /\ g \in Filters /\ g \in Nat
        BY ConstantFacts DEF IInv, Deleting, TypeOK
      <4>2. locked <= listener_id
        BY <1>1, <3>1 DEF IInv, Numbers
      <4>3. CASE Founds(s, f)
        BY <1>1, <1>2, <3>1, <4>1, <4>2, <4>3 DEF Founds
      <4>4. CASE Joins(s, f)
        BY <4>4 DEF Joins
      <4> QED  BY <4>3, <4>4 DEF AddsTo
    <3>3. twins \subseteq twins'
      BY DEF AddsTo
    <3> QED  BY <1>1, <1>15, <2>2, <3>1, <3>2, <3>3 DEF IInv, Deleting
  <2> QED  BY <2>1, <2>2
<1>17. FaultNeedsTwins'
  BY <1>15 DEF FaultNeedsTwins
<1>18. TypeOK'
  <2>1. listeners' \subseteq Filters /\ locked' \in listeners' \cup {None}
    BY <1>1, <1>2 DEF IInv, TypeOK
  <2>2. rules' \subseteq Filters /\ rule' \in [Filters -> Keys \cup {None}]
    <3>1. rules' \subseteq Filters
      BY <1>1 DEF AddsTo, Joins, Founds, IInv, TypeOK
    <3>2. CASE Joins(s, f)
      BY <3>1, <3>2 DEF Joins, IInv, TypeOK
    <3>3. CASE Founds(s, f)
      BY <3>1, <3>3, ConstantFacts DEF Founds, IInv, TypeOK
    <3> QED  BY <3>2, <3>3 DEF AddsTo
  <2>3. listener_id' \in 0 .. MaxId
    BY <1>1, ConstantFacts
  <2>4. name_watch' \in [Filters -> 0 .. MaxId]
    <3>1. CASE Joins(s, f)
      BY <3>1 DEF Joins, IInv, TypeOK
    <3>2. CASE Founds(s, f)
      <4>1. listener_id + 2 \in 0 .. MaxId
        BY <1>1, ConstantFacts
      <4> QED  BY <3>2, <4>1 DEF Founds, IInv, TypeOK
    <3> QED  BY <3>1, <3>2 DEF AddsTo
  <2>5. twins' \subseteq Signals
    BY DEF AddsTo, IInv, TypeOK
  <2>6. /\ callbacks' \in [Filters -> SUBSET (1 .. MaxId)]
        /\ processed' \in [Filters -> SUBSET (1 .. MaxId)]
    BY DEF AddsTo
  <2> QED
    BY <1>1, <2>1, <2>2, <2>3, <2>4, <2>5, <2>6 DEF IInv, TypeOK
<1> QED
  BY <1>5, <1>6, <1>7, <1>8, <1>9, <1>10, <1>11, <1>12, <1>13, <1>14, <1>16,
     <1>17, <1>18, InvParts
(* Those that hold watches see one more on s, to be called for the message  *)
(* under way only if its filter is a second one and comes later.            *)
LEMMA AddsImplement ==
    ASSUME IInv, NEW s \in Signals, NEW f, AddsTo(s, f)
    PROVE  Watches!Add(s, FALSE)
<1>1. /\ f \in Filters \ {0} /\ listener_id \in Nat /\ listener_id + 2 <= MaxId
      /\ listener_id' \in {listener_id + 1, listener_id + 2}
      /\ \A g \in Filters : callbacks'[g] = IF g = locked THEN callbacks[g]
                                            ELSE callbacks[g] \cup NewOn(f, g)
      /\ \A g \in Filters : List(g)' = List(g) \cup NewOn(f, g)
      /\ locked' = locked /\ asked' = asked /\ running' = running
      /\ refused' = refused
      /\ twins' = IF \E g \in listeners \ {f} : rule[g] = s THEN twins \cup {s}
                  ELSE twins
      /\ CallerRuns
  BY DEF AddsTo, Joins, Founds
<1>2. /\ listeners' = listeners \cup {f}
      /\ rule'[f] = s
      /\ \A g \in listeners : rule'[g] = rule[g] /\ g \in Filters
      /\ f \notin listeners => List(f) = {} /\ name_watch[f] = 0
      /\ \A g \in Filters : \A x \in List(g) : x \in 1 .. listener_id
      /\ NameWatches' \subseteq NameWatches \cup {listener_id + 2}
      /\ \A x \in NameWatches : x # 0 => x \in NameWatches'
      /\ name_watch[f] = 0 => listener_id + 2 \in NameWatches'
      /\ \A x \in NameWatches : x \in 0 .. listener_id
  BY AddsFacts
<1> DEFINE id == listener_id + 1
<1>3. /\ id \notin NameWatches' /\ id \in 1 .. MaxId /\ id # 0
      /\ \A g \in Filters : id \notin List(g)
  BY <1>1, <1>2, ConstantFacts
<1>4. \A g \in Filters : \A x \in NewOn(f, g) :
        (g = f /\ x = id) \/ x \in NameWatches'
  BY <1>2 DEF NewOn
<1>5. id \in NewOn(f, f)
  BY DEF NewOn
<1>6. \A g \in Filters : \A x \in List(g) : x \in NameWatches' => x \in NameWatches
  BY <1>1, <1>2
<1> HIDE DEF id
<1>7. ASSUME NEW k \in Keys
      PROVE  Owned(k)' = IF k = s THEN Owned(k) \cup {id} ELSE Owned(k)
  <2>1. ASSUME NEW x \in Owned(k)'
        PROVE  x \in Owned(k) \/ (k = s /\ x = id)
    <3>1. x \in 1 .. MaxId /\ x \notin NameWatches'
      BY DEF Owned
    <3>2. PICK g \in listeners' : rule'[g] = k /\ x \in List(g)'
      BY DEF Owned
    <3>3. g \in Filters /\ (x \in List(g) \/ x \in NewOn(f, g))
      BY <1>1, <1>2, <3>2
    <3>4. CASE x \in NewOn(f, g)
      BY <1>2, <1>4, <3>1, <3>2, <3>3, <3>4
    <3>5. CASE x \in List(g)
      <4>1. g \in listeners /\ rule[g] = k
        BY <1>2, <3>2, <3>5
      <4>2. x \notin NameWatches
        BY <1>2, <3>1
      <4> QED  BY <3>1, <3>5, <4>1, <4>2 DEF Owned
    <3> QED  BY <3>3, <3>4, <3>5
  <2>2. ASSUME NEW x \in Owned(k)
        PROVE  x \in Owned(k)'
    <3>1. x \in 1 .. MaxId /\ x \notin NameWatches
      BY DEF Owned
    <3>2. PICK g \in listeners : rule[g] = k /\ x \in List(g)
      BY DEF Owned
    <3>3. g \in Filters /\ g \in listeners' /\ rule'[g] = k /\ x \in List(g)'
      BY <1>1, <1>2, <3>2
    <3>4. x \notin NameWatches'
      BY <1>6, <3>1, <3>2, <3>3
    <3> QED  BY <3>1, <3>3, <3>4 DEF Owned
  <2>3. k = s => id \in Owned(k)'
    BY <1>1, <1>2, <1>3, <1>5 DEF Owned
  <2> QED  BY <2>1, <2>2, <2>3
<1>8. [k \in Keys |-> Owned(k)'] =
        [[k \in Keys |-> Owned(k)] EXCEPT ![s] = @ \cup {id}]
  BY <1>7, ConstantFacts
<1>9. Message' = Message
  BY <1>1, <1>2, LockedFacts DEF Message
<1>10. \/ twins' = twins
       \/ /\ [k \in Keys |-> Owned(k)][s] # {} \/ Message = s \/ s \in refused
          /\ twins' = twins \cup {s}
  <2>1. CASE \E g \in listeners \ {f} : rule[g] = s
    <3>1. PICK g \in listeners \ {f} : rule[g] = s
      BY <2>1
    <3>2. g \in Filters \ {0} /\ s \in Keys
      BY <1>2, <3>1, ConstantFacts DEF IInv, ServiceFirst
    <3>3. CASE g = locked
      BY <1>1, <2>1, <3>1, <3>2, <3>3, ConstantFacts DEF Message, IInv, TypeOK
    <3>4. CASE g \in delete_listener
      <4>1. locked # None /\ rule[g] = rule[locked]
        BY <3>4 DEF IInv, Deleting
      <4> QED  BY <1>1, <2>1, <3>1, <4>1 DEF Message
    <3>5. CASE rule[g] \in refused
      BY <1>1, <2>1, <3>1, <3>5
    <3>6. CASE g # locked /\ g \notin delete_listener /\ rule[g] \notin refused
      <4>1. PICK x : x \in callbacks[g]
        BY <3>1, <3>6 DEF IInv, FiltersInUse
      <4>2. x \in List(g) /\ x \in 1 .. MaxId
        BY <3>2, <4>1 DEF List, IInv, TypeOK
      <4>3. x \notin NameWatches
        BY <3>2, <4>2, NameWatchFacts
      <4>4. x \in Owned(s)
        BY <3>1, <4>2, <4>3 DEF Owned
      <4> QED  BY <1>1, <2>1, <3>2, <4>4
    <3> QED  BY <3>3, <3>4, <3>5, <3>6
  <2>2. CASE ~\E g \in listeners \ {f} : rule[g] = s
    BY <1>1, <2>2
  <2> QED  BY <2>1, <2>2
<1>11. \/ Todo' = Todo
       \/ s = Message /\ s \in twins' /\ Todo' = Todo \cup {id}
  <2>1. CASE locked = None
    BY <1>1, <2>1 DEF Todo
  <2>2. CASE locked # None
    <3>1. locked \in listeners /\ locked' \in listeners' /\ locked' # None
      BY <1>1, <1>2, <2>2, LockedFacts
    <3>2. OwnerCurrent' /\ OwnerCurrent
      BY AddsKeep DEF IInv
    <3> DEFINE late == f # locked /\ s = rule[locked] /\ f > locked
    <3>3. ASSUME NEW x
          PROVE  x \in Todo' <=> x \in Todo \/ (late /\ x = id)
      <4>1. x \in Todo' <=>
               /\ x \in 1 .. MaxId /\ x \notin NameWatches'
               /\ \E g \in listeners' : /\ rule'[g] = rule[locked]
                                        /\ g = locked \/ g > locked
                                        /\ x \in callbacks'[g]
        BY <1>1, <1>2, <3>1, <3>2, TodoIsNext
      <4>2. x \in Todo <=>
               /\ x \in 1 .. MaxId /\ x \notin NameWatches
               /\ \E g \in listeners : /\ rule[g] = rule[locked]
                                       /\ g = locked \/ g > locked
                                       /\ x \in callbacks[g]
        BY <2>2, <3>1, <3>2, TodoIs
      <4>3. ASSUME x \in Todo'
            PROVE  x \in Todo \/ (late /\ x = id)
        <5>1. PICK g \in listeners' : /\ rule'[g] = rule[locked]
                                      /\ g = locked \/ g > locked
                                      /\ x \in callbacks'[g]
          BY <4>1, <4>3
        <5>2. g \in Filters
          BY <1>1, <1>2
        <5>3. CASE x \in callbacks[g]
          <6>1. x \in List(g)
            BY <5>3 DEF List
          <6>2. g \in listeners /\ rule[g] = rule[locked]
            BY <1>2, <5>1, <6>1
          <6>3. x \notin NameWatches
            BY <1>2, <4>1, <4>3
          <6> QED  BY <4>1, <4>2, <4>3, <5>1, <5>3, <6>2, <6>3
        <5>4. CASE x \notin callbacks[g]
          <6>1. g # locked /\ x \in NewOn(f, g)
            BY <1>1, <5>1, <5>2, <5>4
          <6>2. g = f /\ x = id
            BY <1>4, <4>1, <4>3, <5>2, <6>1
          <6> QED  BY <1>2, <5>1, <6>1, <6>2
        <5> QED  BY <5>3, <5>4
      <4>4. ASSUME x \in Todo
            PROVE  x \in Todo'
        <5>1. PICK g \in listeners : /\ rule[g] = rule[locked]
                                     /\ g = locked \/ g > locked
                                     /\ x \in callbacks[g]
          BY <4>2, <4>4
        <5>2. g \in Filters /\ x \in List(g)
          BY <1>2, <5>1 DEF List
        <5>3. g \in listeners' /\ rule'[g] = rule[locked] /\ x \in callbacks'[g]
          BY <1>1, <1>2, <5>1, <5>2
        <5>4. x \notin NameWatches'
          BY <1>6, <4>2, <4>4, <5>2
        <5> QED  BY <4>1, <4>2, <4>4, <5>1, <5>3, <5>4
      <4>5. ASSUME late, x = id
            PROVE  x \in Todo'
        <5>1. f \in listeners' /\ rule'[f] = rule[locked] /\ f > locked
          BY <1>2, <4>5
        <5>2. id \in callbacks'[f]
          BY <1>1, <1>5, <4>5
        <5> QED  BY <1>3, <4>1, <4>5, <5>1, <5>2
      <4> QED  BY <4>3, <4>4, <4>5
    <3>4. CASE late
      <4>1. s = Message
        BY <2>2, <3>4 DEF Message
      <4>2. s \in twins'
        BY <1>1, <3>1, <3>4
      <4>3. Todo' = Todo \cup {id}
        BY <3>3, <3>4
      <4> QED  BY <4>1, <4>2, <4>3
    <3>5. CASE ~late
      <4>1. Todo' = Todo
        BY <3>3, <3>5
      <4> QED  BY <4>1
    <3> QED  BY <3>4, <3>5
  <2> QED  BY <2>1, <2>2
<1>12. running # 0 \/ Message = None
  BY <1>1 DEF CallerRuns, Message
<1> USE DEF id
<1> QED
  BY <1>1, <1>8, <1>9, <1>10, <1>11, <1>12 DEF Watches!Add, Watches!CallerRuns

LEMMA AddSignalImplements ==
    ASSUME IInv, NEW s \in Signals, g_dbus_add_signal_watch(s)
    PROVE  IInv' /\ Watches!Add(s, FALSE)
<1>1. PICK f : AddsTo(s, f)
  BY AddSignalAdds
<1> QED  BY <1>1, AddsKeep, AddsImplement
-----------------------------------------------------------------------------
(* Every step of the program keeps the invariant and is a step of           *)
(* WatchSpec, or one that WatchSpec does not see.                           *)
LEMMA StepImplements == IInv /\ [Next]_vars => IInv' /\ [Watches!Next]_Watches!vars
<1> SUFFICES ASSUME IInv, [Next]_vars
             PROVE  IInv' /\ [Watches!Next]_Watches!vars
  OBVIOUS
<1>0. Owner \in Keys /\ Signals \subseteq Keys
  BY ConstantFacts
<1>1. ASSUME g_dbus_add_service_watch
      PROVE  IInv' /\ Watches!Next
  BY <1>0, <1>1, AddServiceImplements DEF Watches!Next
<1>2. ASSUME NEW s \in Signals, g_dbus_add_signal_watch(s)
      PROVE  IInv' /\ Watches!Next
  BY <1>0, <1>2, AddSignalImplements DEF Watches!Next
<1>3. ASSUME NEW i \in 1 .. MaxId, NEW ok \in BOOLEAN, g_dbus_remove_watch(i, ok)
      PROVE  IInv' /\ Watches!Next
  BY <1>3, RemoveImplements DEF Watches!Next
<1>4. ASSUME NEW s \in Signals, Begin(s)
      PROVE  IInv' /\ Watches!Next
  BY <1>0, <1>4, BeginImplements DEF Watches!Next
<1>5. ASSUME NEW new \in Names \cup {Gone}, NameOwnerChanged(new)
      PROVE  IInv' /\ Watches!Next
  BY <1>0, <1>5, OwnerImplements DEF Watches!Next
<1>6. ASSUME NEW i \in 1 .. MaxId, SkipNameWatch(i)
      PROVE  IInv' /\ UNCHANGED Watches!vars
  BY <1>6, SkipImplements
<1>7. ASSUME NEW i \in 1 .. MaxId, CallWatch(i)
      PROVE  IInv' /\ Watches!Next
  BY <1>7, CallImplements DEF Watches!Next
<1>8. ASSUME Returned
      PROVE  IInv' /\ Watches!Next
  BY <1>8, ReturnedImplements DEF Watches!Next
<1>9. ASSUME ReturnedFalse
      PROVE  IInv' /\ Watches!Next
  BY <1>9, ReturnedFalseImplements DEF Watches!Next
<1>10. ASSUME NextFilter
       PROVE  IInv' /\ UNCHANGED Watches!vars
  BY <1>10, NextFilterImplements
<1>11. ASSUME NEW ok \in BOOLEAN, EndDispatch(ok)
       PROVE  IInv' /\ Watches!Next
  BY <1>11, EndImplements DEF Watches!Next
<1>12. ASSUME FaultyEnd
       PROVE  IInv' /\ UNCHANGED Watches!vars
  BY <1>12, FaultyImplements
<1>13. ASSUME NEW there \in BOOLEAN, update_service(there)
       PROVE  IInv' /\ Watches!Next
  BY <1>13, UpdateImplements DEF Watches!Next
<1>14. ASSUME UNCHANGED vars
       PROVE  IInv' /\ UNCHANGED Watches!vars
  <2>1. /\ UNCHANGED <<listeners, rule, owner, callbacks, processed, name_watch>>
        /\ UNCHANGED <<rules, listener_id, locked, delete_listener, asked, running>>
        /\ UNCHANGED <<broken, daemon, twins, refused>>
    BY <1>14 DEF vars, listVars, history
  <2>2. TypeOK'
    BY <2>1 DEF IInv, TypeOK
  <2>3. FiltersInUse' /\ OneRulePerFilter' /\ NameWatchPerFilter' /\ OneList'
    BY <2>1 DEF IInv, FiltersInUse, OneRulePerFilter, NameWatchPerFilter, OneList, List
  <2>4. OwnerCurrent' /\ FaultNeedsTwins' /\ Numbers' /\ ServiceFirst'
    BY <2>1
    DEF IInv, OwnerCurrent, FaultNeedsTwins, Numbers, ServiceFirst, List, NameWatches
  <2>5. OwnerOfSignals' /\ RunningOwn' /\ Deleting'
    BY <2>1 DEF IInv, OwnerOfSignals, RunningOwn, Deleting, List, NameWatches
  <2>6. /\ \A k : Owned(k)' = Owned(k)
        /\ Todo' = Todo /\ Message' = Message
    BY <2>1 DEF Owned, Todo, Later, Matching, Message, NameWatches, List
  <2> QED
    BY <2>1, <2>2, <2>3, <2>4, <2>5, <2>6 DEF IInv, Watches!vars
<1> QED
  BY <1>1, <1>2, <1>3, <1>4, <1>5, <1>6, <1>7, <1>8, <1>9, <1>10, <1>11, <1>12,
     <1>13, <1>14
  DEF Next

(* Every behaviour of the watches keeps the invariant. *)
THEOREM Invariance == Spec => []IInv
<1>1. Init => IInv
  BY InvInit
<1>2. IInv /\ [Next]_vars => IInv'
  BY StepImplements
<1> QED  BY <1>1, <1>2, PTL DEF Spec

(* Lists hold watch numbers in use, a locked filter is one of the list of   *)
(* filters, and only signals come to have a second filter or a rule that    *)
(* the bus keeps, for any number of signals, names and watches              *)
(* (gdbus/watch.c).                                                         *)
THEOREM TypeCorrect == Spec => []TypeOK
<1>1. IInv => TypeOK
  BY DEF IInv
<1> QED  BY <1>1, Invariance, PTL

(* Nothing is lost count of, for any number of signals, names and watches:  *)
(* filters exist while they have callbacks, each has its own rule and name  *)
(* watch, none remembers an owner that is gone, and a signal has two        *)
(* filters, or a message ends in the faulty loop, only if the signal was    *)
(* watched again while its owner was known (gdbus/watch.c:101, :569).       *)
THEOREM NothingLost == Spec => []Accounted
<1>1. IInv => Accounted
  BY DEF IInv, Accounted
<1> QED  BY <1>1, Invariance, PTL

(* The lists, the lock, the name watches and the owners implement WatchSpec *)
(* for any number of signals, names and watches: a watch is called once for *)
(* each message that matches it while it is held, never after its removal,  *)
(* and for a message under way when it was added only if its signal was     *)
(* given a second filter.                                                   *)
THEOREM Implements == Spec => KeepsPromises
<1>1. Init => Watches!Init
  <2> SUFFICES ASSUME Init PROVE Watches!Init
    OBVIOUS
  <2>1. \A k \in Keys : Owned(k) = {}
    BY DEF Init, Owned
  <2> QED  BY <2>1 DEF Init, Watches!Init, Message, Todo
<1>2. IInv /\ [Next]_vars => [Watches!Next]_Watches!vars
  BY StepImplements
<1> QED  BY <1>1, <1>2, Invariance, PTL DEF Spec, KeepsPromises, Watches!Spec
=============================================================================
