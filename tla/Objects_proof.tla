---------------------------- MODULE Objects_proof ----------------------------
(***************************************************************************)
(* Proofs about Objects: what the heap of objects holds, what it has to do *)
(* with the tree of registered paths, what each object has cached, and     *)
(* what a listener knows of them.                                          *)
(*                                                                         *)
(* The invariant is stated for any heap h and tree t, for the calls of the *)
(* clients go through states that break it: an object that was referenced  *)
(* for an interface it does not have yet, or not any more.                 *)
(***************************************************************************)
EXTENDS Objects, FiniteSetTheorems, SequenceTheorems, WellFoundedInduction, TLAPS

Elements == UNION {Range(p) : p \in Paths}

Data == {None} \cup
        [interfaces : SUBSET (Ifaces \cup Own), nodes : SUBSET Elements]

Object == [live : BOOLEAN, path : Paths, refcount : Nat,
           interfaces : SUBSET (Ifaces \cup Own), objects : SUBSET Ids,
           added : SUBSET (Ifaces \cup Own), removed : SUBSET (Ifaces \cup Own),
           idle : BOOLEAN, pending : SUBSET WithProperties,
           introspect : Data, parent : Nat]

(* Types, m objects having been made. *)
Shape(h, t, m) ==
    /\ t \in [Paths -> 0 .. m]
    /\ h \in [Ids -> Object]
    /\ \A id \in Ids :
         /\ h[id].added \subseteq h[id].interfaces
         /\ h[id].pending \subseteq h[id].interfaces
         /\ h[id].objects \subseteq 1 .. m
         /\ h[id].parent \in 0 .. m
         /\ ~h[id].live => h[id] = Freed

(* The object registered at a path, and the path of an object. *)
Owned(h, t) ==
    /\ \A p \in Paths : t[p] # 0 => h[t[p]].live /\ h[t[p]].path = p
    /\ \A id \in Ids : h[id].live => t[h[id].path] = id

Clients(o) == o.interfaces \ {Introspectable, Properties}

(* One reference per interface of a client, and one more of x. *)
Counted(h, x) ==
    \A id \in Ids : h[id].live =>
        /\ h[id].refcount = Cardinality(Clients(h[id])) + (IF id = x THEN 1 ELSE 0)
        /\ h[id].refcount > 0

(* The object's parent is the closest above, which alone lists it. *)
Agrees(h, t, id) ==
    /\ h[id].parent = Parent(t, h[id].path)
    /\ \A d \in Ids : id \in h[d].objects <=> d = h[id].parent

(* No object lists one that is gone. *)
Whole(h) == \A id \in Ids : \A i \in h[id].objects : h[i].live

Links(h, t, mis) ==
    /\ \A id \in Ids : h[id].live /\ id \notin mis => Agrees(h, t, id)
    /\ mis = {} => Whole(h)

RootOnly(h, r) == \A id \in Ids : ObjectManager \in h[id].interfaces => id = r

NodesAt(t, p) == {q[Len(p) + 1] : q \in Below(t, p)}

Truthful(h, t, r, id) ==
    \/ h[id].introspect = None
    \/ h[id].introspect = Xml(h[id].interfaces, NodesAt(t, h[id].path))
    \/ id = r /\ ObjectManager \notin h[id].introspect.interfaces

(* What is cached is true, but perhaps that of x. *)
Cached(h, t, r, x) ==
    \A id \in Ids \ {x} : h[id].live => Truthful(h, t, r, id)

(* All of it, but that x has a reference too many.                          *)
Sound(h, t, m, mis, r, x) ==
    /\ Shape(h, t, m) /\ Owned(h, t)
    /\ Counted(h, x)
    /\ Links(h, t, mis)
    /\ RootOnly(h, r)
    /\ Cached(h, t, r, x)

-----------------------------------------------------------------------------
(* Paths and parents *)

LEMMA StrictlyLonger ==
  ASSUME NEW p \in Paths, NEW q \in Paths, IsStrictPrefix(p, q)
  PROVE  Len(p) \in Nat /\ Len(q) \in Nat /\ Len(p) < Len(q)
<1>1. p \in Seq(Range(p)) /\ q \in Seq(Range(q))
  BY ConstAssumption
<1>2. Len(p) \in Nat /\ Len(q) \in Nat
  BY <1>1, LenProperties
<1>3. SubSeq(p, 1, Len(p)) = p /\ SubSeq(q, 1, Len(q)) = q
  BY <1>1, SubSeqFull
<1> QED
  BY <1>2, <1>3 DEF IsStrictPrefix, IsPrefix

LEMMA LeastNat ==
  ASSUME NEW T \in SUBSET Nat, T # {}
  PROVE  \E x \in T : \A y \in T : x <= y
<1> DEFINE R == {xy \in Nat \X Nat : xy[1] < xy[2]}
<1>1. IsWellFoundedOn(R, Nat)
  BY NatLessThanWellFounded DEF OpToRel
<1>2. \E x \in T : \A y \in T : ~ (<<y, x>> \in R)
  <2> HIDE DEF R
  <2> QED BY <1>1, WFMin
<1>3. \A x, y \in Nat : <<y, x>> \in R <=> y < x
  OBVIOUS
<1> HIDE DEF R
<1>4. PICK x \in T : \A y \in T : ~ (<<y, x>> \in R)
  BY <1>2
<1>5. \A y \in T : x <= y
  <2> TAKE y \in T
  <2>1. x \in Nat /\ y \in Nat
    OBVIOUS
  <2>2. ~ (y < x)
    BY <1>3, <1>4, <2>1
  <2> QED BY <2>1, <2>2
<1> QED BY <1>5

(* There is a closest object above, if there is any. *)
Closest(t, p) ==
    CHOOSE q \in Above(t, p) : \A r \in Above(t, p) : Len(r) <= Len(q)

LEMMA ClosestAbove ==
  ASSUME NEW t, NEW p \in Paths, Above(t, p) # {}
  PROVE  Closest(t, p) \in Above(t, p) /\ Parent(t, p) = t[Closest(t, p)]
<1> DEFINE S == {Len(p) - Len(q) : q \in Above(t, p)}
<1>1. \A q \in Above(t, p) : Len(p) \in Nat /\ Len(q) \in Nat /\ Len(q) < Len(p)
  BY StrictlyLonger DEF Above
<1>2. S \in SUBSET Nat /\ S # {}
  BY <1>1
<1>3. PICK x \in S : \A y \in S : x <= y
  <2> HIDE DEF S
  <2> QED BY <1>2, LeastNat
<1>4. PICK q \in Above(t, p) : x = Len(p) - Len(q)
  BY <1>3
<1>5. \A r \in Above(t, p) : Len(r) <= Len(q)
  <2> TAKE r \in Above(t, p)
  <2>1. Len(p) - Len(q) <= Len(p) - Len(r)
    BY <1>3, <1>4
  <2> QED BY <2>1, <1>1
<1>6. \E a \in Above(t, p) : \A r \in Above(t, p) : Len(r) <= Len(a)
  BY <1>5
<1>7. Closest(t, p) \in Above(t, p)
  BY <1>6, Zenon DEF Closest
<1> QED BY <1>7 DEF Parent, Closest

LEMMA ParentAbove ==
  ASSUME NEW t, NEW p \in Paths, Above(t, p) # {}
  PROVE  \E q \in Above(t, p) : Parent(t, p) = t[q]
BY ClosestAbove

LEMMA ParentNone ==
  ASSUME NEW t, NEW p, Above(t, p) = {}
  PROVE  Parent(t, p) = 0
BY DEF Parent

LEMMA ParentType ==
  ASSUME NEW m \in Nat, NEW t \in [Paths -> 0 .. m], NEW p \in Paths
  PROVE  Parent(t, p) \in 0 .. m
BY ParentAbove, ParentNone DEF Above

(* The parent depends on what is above only. *)
LEMMA ParentSame ==
  ASSUME NEW t, NEW u, NEW p \in Paths,
         \A q \in Paths : IsStrictPrefix(q, p) => t[q] = u[q]
  PROVE  Parent(t, p) = Parent(u, p) /\ Above(t, p) = Above(u, p)
<1>1. Above(t, p) = Above(u, p)
  BY DEF Above
<1>2. \A q \in Above(t, p) : t[q] = u[q]
  BY DEF Above
<1>3. CASE Above(t, p) = {}
  BY <1>1, <1>3, ParentNone
<1>4. CASE Above(t, p) # {}
  <2>1. Closest(t, p) = Closest(u, p)
    BY <1>1 DEF Closest
  <2>2. Closest(t, p) \in Above(t, p) /\ Parent(t, p) = t[Closest(t, p)]
    BY <1>4, ClosestAbove
  <2>3. Parent(u, p) = u[Closest(u, p)]
    BY <1>1, <1>4, ClosestAbove
  <2> QED BY <1>1, <1>2, <2>1, <2>2, <2>3
<1> QED BY <1>3, <1>4

-----------------------------------------------------------------------------
(* Registered paths and their objects *)

LEMMA OwnIds ==
  ASSUME NEW h, NEW t, NEW m \in Nat, m <= MaxObjects, Shape(h, t, m), Owned(h, t)
  PROVE  /\ \A p \in Paths : t[p] # 0 => t[p] \in Ids /\ t[p] \in 1 .. m
         /\ \A id \in Ids : h[id].live => id \in 1 .. m
         /\ \A p, q \in Paths : t[p] # 0 /\ t[p] = t[q] => p = q
<1>0. MaxObjects \in Nat
  BY ConstAssumption
<1>1. \A p \in Paths : t[p] \in 0 .. m
  BY DEF Shape
<1>2. \A p \in Paths : t[p] # 0 => t[p] \in 1 .. m /\ t[p] \in Ids
  BY <1>0, <1>1 DEF Ids
<1>3. \A id \in Ids : h[id].path \in Paths /\ id # 0
  BY DEF Shape, Object, Ids
<1>4. \A id \in Ids : h[id].live => id \in 1 .. m
  BY <1>2, <1>3 DEF Owned
<1>5. \A p, q \in Paths : t[p] # 0 /\ t[p] = t[q] => p = q
  BY DEF Owned
<1> QED BY <1>2, <1>4, <1>5

(* The path of an object's parent is above its own. *)
LEMMA ParentPath ==
  ASSUME NEW h, NEW t, NEW m \in Nat, m <= MaxObjects, Shape(h, t, m), Owned(h, t),
         NEW p \in Paths, Parent(t, p) # 0
  PROVE  /\ Parent(t, p) \in Ids /\ h[Parent(t, p)].live
         /\ h[Parent(t, p)].path \in Above(t, p)
<1>1. PICK q \in Above(t, p) : Parent(t, p) = t[q]
  BY ParentAbove, ParentNone
<1>2. q \in Paths /\ t[q] # 0
  BY DEF Above
<1>3. t[q] \in Ids /\ h[t[q]].live /\ h[t[q]].path = q
  BY <1>2, OwnIds DEF Owned
<1> QED BY <1>1, <1>3

LEMMA SameObject ==
  ASSUME NEW a \in Object, NEW b \in Object,
         a.live = b.live, a.path = b.path, a.refcount = b.refcount,
         a.interfaces = b.interfaces, a.objects = b.objects,
         a.added = b.added, a.removed = b.removed, a.idle = b.idle,
         a.pending = b.pending, a.introspect = b.introspect,
         a.parent = b.parent
  PROVE  a = b
BY DEF Object

(* What invalidate_parent_data writes. *)
Chain(t, p) == {q \in Above(t, p) \cup {p} : t[q] # 0 /\ Parent(t, q) # 0}

Linked(t, p, d) == {t[r] : r \in {s \in Chain(t, p) : Parent(t, s) = d}}

Dropped(t, p) == {t[q] : q \in Above(t, p)}

LEMMA Invalidated ==
  ASSUME NEW h, NEW t, NEW m \in Nat, m <= MaxObjects, Shape(h, t, m), Owned(h, t),
         NEW p \in Paths,
         NEW g, g = invalidate_parent_data(h, t, p)
  PROVE  /\ g \in [Ids -> Object]
         /\ \A id \in Ids :
              /\ g[id].live = h[id].live /\ g[id].path = h[id].path
              /\ g[id].refcount = h[id].refcount
              /\ g[id].interfaces = h[id].interfaces
              /\ g[id].added = h[id].added /\ g[id].removed = h[id].removed
              /\ g[id].idle = h[id].idle /\ g[id].pending = h[id].pending
              /\ g[id].introspect = IF id \in Dropped(t, p) THEN None
                                    ELSE h[id].introspect
              /\ g[id].objects = h[id].objects
                                 \cup Linked(t, p, id)
              /\ g[id].parent =
                   IF h[id].live /\ h[id].path \in Chain(t, p)
                        /\ id \notin h[Parent(t, h[id].path)].objects
                   THEN Parent(t, h[id].path) ELSE h[id].parent
<1> DEFINE link(id) == h[id].live /\ h[id].path \in Chain(t, p)
                         /\ id \notin h[Parent(t, h[id].path)].objects
           list(id) == Linked(t, p, id)
           drop(id) == id \in Dropped(t, p)
<1>1. g = [id \in Ids |->
            [h[id] EXCEPT !.introspect = IF drop(id) THEN None ELSE @,
                          !.objects = @ \cup list(id),
                          !.parent = IF link(id) THEN Parent(t, h[id].path) ELSE @]]
  BY Zenon DEF invalidate_parent_data, Dropped, Linked, Chain
<1>2. \A id \in Ids : h[id] \in Object
  BY DEF Shape
<1>3. \A id \in Ids : list(id) \subseteq Ids
  BY OwnIds DEF Linked, Chain, Above
<1>4. \A id \in Ids : Parent(t, h[id].path) \in Nat
  <2> TAKE id \in Ids
  <2>1. h[id].path \in Paths
    BY <1>2 DEF Object
  <2> QED BY <2>1, ParentType DEF Shape
<1>5. None \in Data
  BY DEF Data
<1> HIDE DEF link, list, drop
<1>6. \A id \in Ids :
        /\ g[id] \in Object
        /\ g[id].live = h[id].live /\ g[id].path = h[id].path
        /\ g[id].refcount = h[id].refcount
        /\ g[id].interfaces = h[id].interfaces
        /\ g[id].added = h[id].added /\ g[id].removed = h[id].removed
        /\ g[id].idle = h[id].idle /\ g[id].pending = h[id].pending
        /\ g[id].introspect = IF drop(id) THEN None ELSE h[id].introspect
        /\ g[id].objects = h[id].objects \cup list(id)
        /\ g[id].parent = IF link(id) THEN Parent(t, h[id].path) ELSE h[id].parent
  <2> TAKE id \in Ids
  <2> DEFINE i == IF drop(id) THEN None ELSE h[id].introspect
             o == h[id].objects \cup list(id)
             u == IF link(id) THEN Parent(t, h[id].path) ELSE h[id].parent
  <2>1. h[id] \in Object
    BY <1>2
  <2>2. i \in Data
    BY <2>1, <1>5 DEF Object
  <2>3. o \in SUBSET Ids
    BY <2>1, <1>3 DEF Object
  <2>4. u \in Nat
    BY <2>1, <1>4 DEF Object
  <2>5. g[id] = [h[id] EXCEPT !.introspect = i, !.objects = o, !.parent = u]
    BY <1>1
  <2> HIDE DEF i, o, u
  <2>6. /\ g[id] \in Object
        /\ g[id].live = h[id].live /\ g[id].path = h[id].path
        /\ g[id].refcount = h[id].refcount
        /\ g[id].interfaces = h[id].interfaces
        /\ g[id].added = h[id].added /\ g[id].removed = h[id].removed
        /\ g[id].idle = h[id].idle /\ g[id].pending = h[id].pending
        /\ g[id].introspect = i /\ g[id].objects = o /\ g[id].parent = u
    BY <2>1, <2>2, <2>3, <2>4, <2>5 DEF Object
  <2> QED BY <2>6 DEF i, o, u
<1>7. \A id \in Ids : g[id] \in Object
  BY <1>6
<1>8. g \in [Ids -> Object]
  BY <1>1, <1>7
<1> QED BY <1>6, <1>8 DEF link, list, drop

LEMMA InvalidatedShape ==
  ASSUME NEW h, NEW t, NEW m \in Nat, m <= MaxObjects, Shape(h, t, m), Owned(h, t),
         NEW p \in Paths,
         NEW g, g = invalidate_parent_data(h, t, p)
  PROVE  Shape(g, t, m) /\ Owned(g, t)
<1> USE DEF Shape
<1>1. /\ g \in [Ids -> Object]
      /\ \A id \in Ids :
           /\ g[id].live = h[id].live /\ g[id].path = h[id].path
           /\ g[id].interfaces = h[id].interfaces
           /\ g[id].added = h[id].added /\ g[id].pending = h[id].pending
  BY Invalidated
<1>2. ASSUME NEW id \in Ids
      PROVE  g[id].objects \subseteq 1 .. m /\ g[id].parent \in 0 .. m
  <2>1. Linked(t, p, id) \subseteq 1 .. m
    BY OwnIds DEF Linked, Chain, Above
  <2>2. h[id].live => Parent(t, h[id].path) \in 0 .. m
    BY ParentType DEF Object
  <2> QED BY <2>1, <2>2, Invalidated
<1>3. ASSUME NEW id \in Ids, ~g[id].live
      PROVE  g[id] = Freed
  <2>1. ~h[id].live /\ h[id] = Freed
    BY <1>1, <1>3
  <2>2. \A r \in Chain(t, p) : Parent(t, r) # id
    BY <2>1, ParentPath DEF Chain, Above
  <2>3. id \notin Dropped(t, p)
    BY <2>1 DEF Owned, Above, Dropped
  <2>4. /\ g[id].live = h[id].live /\ g[id].path = h[id].path
        /\ g[id].refcount = h[id].refcount
        /\ g[id].interfaces = h[id].interfaces
        /\ g[id].added = h[id].added /\ g[id].removed = h[id].removed
        /\ g[id].idle = h[id].idle /\ g[id].pending = h[id].pending
    <3> HIDE DEF Shape
    <3> QED BY Invalidated
  <2>5. g[id].introspect = h[id].introspect
    <3>1. g[id].introspect = IF id \in Dropped(t, p) THEN None
                             ELSE h[id].introspect
      BY Invalidated
    <3> QED BY <2>3, <3>1
  <2>6. g[id].objects = h[id].objects
    <3>1. Linked(t, p, id) = {}
      BY <2>2 DEF Linked
    <3>2. g[id].objects = h[id].objects \cup Linked(t, p, id)
      BY Invalidated
    <3> QED BY <3>1, <3>2
  <2>7. g[id].parent = h[id].parent
    BY <2>1, Invalidated
  <2>8. g[id] \in Object /\ h[id] \in Object
    BY <1>1
  <2>9. g[id] = h[id]
    BY <2>4, <2>5, <2>6, <2>7, <2>8, SameObject
  <2> QED BY <2>1, <2>9
<1>4. Shape(g, t, m)
  BY <1>1, <1>2, <1>3
<1>5. Owned(g, t)
  BY <1>1, OwnIds DEF Owned
<1> QED BY <1>4, <1>5

(* Links that agree stay as they are. *)
LEMMA InvalidatedAgrees ==
  ASSUME NEW h, NEW t, NEW m \in Nat, m <= MaxObjects, Shape(h, t, m), Owned(h, t),
         NEW p \in Paths,
         NEW g, g = invalidate_parent_data(h, t, p),
         NEW id \in Ids, h[id].live, Agrees(h, t, id)
  PROVE  Agrees(g, t, id) /\ \A d \in Ids : id \in g[d].objects => id \in h[d].objects
<1>1. h[id].path \in Paths /\ t[h[id].path] = id
  BY DEF Shape, Object, Owned
<1>2. g[id].path = h[id].path
  BY Invalidated
<1>3. g[id].parent = h[id].parent
  <2>1. CASE h[id].path \in Chain(t, p)
    <3>1. Parent(t, h[id].path) \in Ids
      BY <1>1, <2>1, ParentPath DEF Chain
    <3>2. id \in h[Parent(t, h[id].path)].objects
      BY <3>1 DEF Agrees
    <3> QED BY <3>2, Invalidated
  <2>2. CASE h[id].path \notin Chain(t, p)
    BY <2>2, Invalidated
  <2> QED BY <2>1, <2>2
<1>4. ASSUME NEW d \in Ids, id \in g[d].objects
      PROVE  id \in h[d].objects
  <2>1. g[d].objects = h[d].objects \cup Linked(t, p, d)
    BY Invalidated
  <2>2. CASE id \in h[d].objects
    BY <2>2
  <2>3. CASE \E r \in Chain(t, p) : Parent(t, r) = d /\ id = t[r]
    <3>1. PICK r \in Chain(t, p) : Parent(t, r) = d /\ id = t[r]
      BY <2>3
    <3>2. r \in Paths /\ t[r] # 0
      BY DEF Chain, Above
    <3>3. r = h[id].path
      BY <3>1, <3>2 DEF Owned
    <3> QED BY <3>1, <3>3 DEF Agrees
  <2> QED BY <1>4, <2>1, <2>2, <2>3 DEF Linked
<1>5. \A d \in Ids : id \in h[d].objects => id \in g[d].objects
  BY Invalidated
<1> QED BY <1>2, <1>3, <1>4, <1>5 DEF Agrees

LEMMA InvalidatedWhole ==
  ASSUME NEW h, NEW t, NEW m \in Nat, m <= MaxObjects, Shape(h, t, m), Owned(h, t),
         Whole(h), NEW p \in Paths,
         NEW g, g = invalidate_parent_data(h, t, p)
  PROVE  Whole(g)
<1> SUFFICES ASSUME NEW d \in Ids, NEW i \in g[d].objects
             PROVE  g[i].live
  BY DEF Whole
<1>1. g[d].objects = h[d].objects \cup Linked(t, p, d)
  BY Invalidated
<1>2. i \in Ids /\ h[i].live
  <2>1. CASE i \in h[d].objects
    BY <2>1 DEF Whole, Shape, Object
  <2>2. CASE i \in Linked(t, p, d)
    <3>1. PICK r \in Chain(t, p) : i = t[r]
      BY <2>2 DEF Linked
    <3>2. r \in Paths /\ t[r] # 0
      BY DEF Chain, Above
    <3> QED BY <3>1, <3>2, OwnIds DEF Owned
  <2> QED BY <1>1, <2>1, <2>2
<1> QED BY <1>2, Invalidated

(* A new object is linked to its parent. *)
LEMMA InvalidatedNew ==
  ASSUME NEW h, NEW t, NEW m \in Nat, m <= MaxObjects, Shape(h, t, m), Owned(h, t),
         NEW p \in Paths,
         NEW g, g = invalidate_parent_data(h, t, p),
         NEW id \in Ids, h[id].live, h[id].path = p,
         h[id].parent = 0, \A d \in Ids : id \notin h[d].objects
  PROVE  Agrees(g, t, id)
<1>1. t[p] = id /\ t[p] # 0
  BY DEF Owned, Ids
<1>2. g[id].path = p
  BY Invalidated
<1>3. p \in Chain(t, p) <=> Parent(t, p) # 0
  BY <1>1 DEF Chain
<1>4. Parent(t, p) # 0 => Parent(t, p) \in Ids
  BY ParentPath
<1>5. g[id].parent = Parent(t, p)
  <2>1. CASE Parent(t, p) = 0
    BY <2>1, <1>3, Invalidated
  <2>2. CASE Parent(t, p) # 0
    BY <2>2, <1>3, <1>4, Invalidated
  <2> QED BY <2>1, <2>2
<1>6. ASSUME NEW d \in Ids
      PROVE  id \in g[d].objects <=> d = Parent(t, p)
  <2>1. g[d].objects = h[d].objects \cup Linked(t, p, d)
    BY Invalidated
  <2>2. \A r \in Chain(t, p) : t[r] = id => r = p
    BY <1>1, OwnIds DEF Chain, Above
  <2>3. d # 0
    BY DEF Ids
  <2> QED BY <1>1, <1>3, <2>1, <2>2, <2>3 DEF Linked
<1> QED BY <1>2, <1>5, <1>6 DEF Agrees

-----------------------------------------------------------------------------
(* Interfaces *)

LEMMA AddWrites ==
  ASSUME NEW h \in [Ids -> Object], NEW id \in Ids, NEW n \in Ifaces \cup Own,
         NEW g, g = add_interface(h, id, n)
  PROVE  /\ g \in [Ids -> Object]
         /\ \A i \in Ids \ {id} : g[i] = h[i]
         /\ g[id].interfaces = h[id].interfaces \cup {n}
         /\ g[id].added \subseteq h[id].added \cup {n}
         /\ (g[id].live <=> h[id].live) /\ g[id].path = h[id].path
         /\ g[id].refcount = h[id].refcount /\ g[id].objects = h[id].objects
         /\ g[id].pending = h[id].pending
         /\ g[id].introspect = h[id].introspect /\ g[id].parent = h[id].parent
<1> DEFINE a == IF h[id].parent # 0 THEN h[id].added \cup {n} ELSE h[id].added
           b == h[id].idle \/ h[id].parent # 0
           c == h[id].interfaces \cup {n}
           o == [h[id] EXCEPT !.interfaces = c, !.added = a, !.idle = b]
<1>1. h[id] \in Object
  OBVIOUS
<1>2. a \in SUBSET (Ifaces \cup Own) /\ c \in SUBSET (Ifaces \cup Own)
      /\ a \subseteq h[id].added \cup {n}
  BY <1>1 DEF Object
<1>3. b \in BOOLEAN
  BY <1>1 DEF Object
<1>4. g = [h EXCEPT ![id] = o]
  BY <1>1 DEF add_interface, Object
<1> HIDE DEF a, b, c
<1>5. o \in Object
  BY <1>1, <1>2, <1>3 DEF Object
<1>6. /\ o.interfaces = c /\ o.added = a
      /\ (o.live <=> h[id].live) /\ o.path = h[id].path
      /\ o.refcount = h[id].refcount /\ o.objects = h[id].objects
      /\ o.pending = h[id].pending
      /\ o.introspect = h[id].introspect /\ o.parent = h[id].parent
  BY <1>1 DEF Object
<1> HIDE DEF o
<1>7. g \in [Ids -> Object] /\ g[id] = o /\ \A i \in Ids \ {id} : g[i] = h[i]
  BY <1>4, <1>5
<1> QED BY <1>2, <1>6, <1>7 DEF c

LEMMA RemoveWrites ==
  ASSUME NEW h \in [Ids -> Object], NEW id \in Ids, NEW n \in Ifaces \cup Own,
         NEW g, g = remove_interface(h, id, n)
  PROVE  /\ g \in [Ids -> Object]
         /\ \A i \in Ids \ {id} : g[i] = h[i]
         /\ g[id].interfaces = h[id].interfaces \ {n}
         /\ g[id].added = h[id].added \ {n}
         /\ g[id].pending = h[id].pending \ {n}
         /\ (g[id].live <=> h[id].live) /\ g[id].path = h[id].path
         /\ g[id].refcount = h[id].refcount /\ g[id].objects = h[id].objects
         /\ g[id].introspect = h[id].introspect /\ g[id].parent = h[id].parent
<1> DEFINE told == n \in h[id].interfaces \ h[id].added /\ h[id].parent # 0
           a == h[id].added \ {n}
           b == h[id].idle \/ told
           c == h[id].interfaces \ {n}
           d == h[id].pending \ {n}
           e == IF told THEN h[id].removed \cup {n} ELSE h[id].removed
           o == [h[id] EXCEPT !.interfaces = c, !.pending = d, !.added = a,
                              !.removed = e, !.idle = b]
<1>1. h[id] \in Object
  OBVIOUS
<1>2. /\ a \in SUBSET (Ifaces \cup Own) /\ c \in SUBSET (Ifaces \cup Own)
      /\ e \in SUBSET (Ifaces \cup Own) /\ d \in SUBSET WithProperties
  BY <1>1 DEF Object
<1>3. b \in BOOLEAN
  BY <1>1 DEF Object
<1>4. g = [h EXCEPT ![id] = o]
  BY <1>1 DEF remove_interface, Object
<1> HIDE DEF a, b, c, d, e
<1>5. o \in Object
  BY <1>1, <1>2, <1>3 DEF Object
<1>6. /\ o.interfaces = c /\ o.added = a /\ o.pending = d
      /\ (o.live <=> h[id].live) /\ o.path = h[id].path
      /\ o.refcount = h[id].refcount /\ o.objects = h[id].objects
      /\ o.introspect = h[id].introspect /\ o.parent = h[id].parent
  BY <1>1 DEF Object
<1> HIDE DEF o
<1>7. g \in [Ids -> Object] /\ g[id] = o /\ \A i \in Ids \ {id} : g[i] = h[i]
  BY <1>4, <1>5
<1> QED BY <1>6, <1>7 DEF a, c, d

(* What adding and removing leave to be announced.                          *)
LEMMA AddWaits ==
  ASSUME NEW h \in [Ids -> Object], NEW id \in Ids, NEW n \in Ifaces \cup Own,
         NEW g, g = add_interface(h, id, n)
  PROVE  /\ g[id].removed = h[id].removed
         /\ h[id].parent = 0 => g[id].added = h[id].added
                                /\ (g[id].idle <=> h[id].idle)
         /\ h[id].parent # 0 => g[id].added = h[id].added \cup {n} /\ g[id].idle
<1>1. h[id] \in Object
  OBVIOUS
<1>2. CASE h[id].parent = 0
  <2>1. g[id] = [h[id] EXCEPT !.interfaces = @ \cup {n}, !.added = h[id].added,
                              !.idle = h[id].idle \/ FALSE]
    BY <1>1, <1>2 DEF add_interface, Object
  <2> QED BY <1>1, <1>2, <2>1 DEF Object
<1>3. CASE h[id].parent # 0
  <2>1. g[id] = [h[id] EXCEPT !.interfaces = @ \cup {n},
                              !.added = h[id].added \cup {n},
                              !.idle = h[id].idle \/ TRUE]
    BY <1>1, <1>3 DEF add_interface, Object
  <2> QED BY <1>1, <1>3, <2>1 DEF Object
<1> QED BY <1>2, <1>3

Told(o, n) == n \in o.interfaces \ o.added /\ o.parent # 0

LEMMA RemoveWaits ==
  ASSUME NEW h \in [Ids -> Object], NEW id \in Ids, NEW n \in Ifaces \cup Own,
         NEW g, g = remove_interface(h, id, n)
  PROVE  /\ Told(h[id], n) => g[id].removed = h[id].removed \cup {n} /\ g[id].idle
         /\ ~Told(h[id], n) => g[id].removed = h[id].removed
                               /\ (g[id].idle <=> h[id].idle)
<1>1. h[id] \in Object
  OBVIOUS
<1>2. CASE Told(h[id], n)
  <2>1. g[id] = [h[id] EXCEPT !.interfaces = @ \ {n}, !.pending = @ \ {n},
                              !.added = @ \ {n},
                              !.removed = h[id].removed \cup {n},
                              !.idle = h[id].idle \/ TRUE]
    BY <1>1, <1>2 DEF remove_interface, Object, Told
  <2> QED BY <1>1, <1>2, <2>1 DEF Object
<1>3. CASE ~Told(h[id], n)
  <2>1. g[id] = [h[id] EXCEPT !.interfaces = @ \ {n}, !.pending = @ \ {n},
                              !.added = @ \ {n}, !.removed = h[id].removed,
                              !.idle = h[id].idle \/ FALSE]
    BY <1>1, <1>3 DEF remove_interface, Object, Told
  <2> QED BY <1>1, <1>3, <2>1 DEF Object
<1> QED BY <1>2, <1>3

(* Interfaces are nothing to the tree. *)
SameTree(g, h) ==
    \A id \in Ids :
        /\ (g[id].live <=> h[id].live) /\ g[id].path = h[id].path
        /\ g[id].objects = h[id].objects /\ g[id].parent = h[id].parent

LEMMA SameTreeKeeps ==
  ASSUME NEW h, NEW g, NEW t, SameTree(g, h)
  PROVE  /\ Owned(h, t) /\ (\A p \in Paths : t[p] # 0 => t[p] \in Ids) => Owned(g, t)
         /\ \A id \in Ids : Agrees(g, t, id) <=> Agrees(h, t, id)
         /\ \A mis : Links(h, t, mis) /\ (\A id \in Ids : h[id].objects \subseteq Ids)
                      => Links(g, t, mis)
         /\ Whole(h) /\ (\A id \in Ids : h[id].objects \subseteq Ids) => Whole(g)
<1>1. Owned(h, t) /\ (\A p \in Paths : t[p] # 0 => t[p] \in Ids) => Owned(g, t)
  BY DEF SameTree, Owned
<1>2. \A id \in Ids : Agrees(g, t, id) <=> Agrees(h, t, id)
  BY DEF SameTree, Agrees
<1>3. ASSUME NEW mis, Links(h, t, mis), \A id \in Ids : h[id].objects \subseteq Ids
      PROVE  Links(g, t, mis)
  BY <1>2, <1>3 DEF SameTree, Links, Whole
<1>4. Whole(h) /\ (\A id \in Ids : h[id].objects \subseteq Ids) => Whole(g)
  BY DEF SameTree, Whole
<1> QED BY <1>1, <1>2, <1>3, <1>4

LEMMA AddKeeps ==
  ASSUME NEW h \in [Ids -> Object], NEW t, NEW m \in Nat, m <= MaxObjects, Shape(h, t, m), Owned(h, t),
         NEW id \in Ids, h[id].live, NEW n \in Ifaces \cup Own,
         NEW g, g = add_interface(h, id, n)
  PROVE  /\ Shape(g, t, m) /\ Owned(g, t)
         /\ \A i \in Ids : Agrees(g, t, i) <=> Agrees(h, t, i)
         /\ \A mis : Links(h, t, mis) => Links(g, t, mis)
         /\ Whole(h) => Whole(g)
<1>2. /\ g \in [Ids -> Object]
      /\ \A i \in Ids \ {id} : g[i] = h[i]
      /\ g[id].interfaces = h[id].interfaces \cup {n}
      /\ g[id].added \subseteq h[id].added \cup {n}
      /\ (g[id].live <=> h[id].live) /\ g[id].path = h[id].path
      /\ g[id].objects = h[id].objects
      /\ g[id].pending = h[id].pending /\ g[id].parent = h[id].parent
  BY AddWrites
<1>3. Shape(g, t, m)
  BY <1>2 DEF Shape
<1>4. SameTree(g, h)
  BY <1>2 DEF SameTree
<1>5. \A i \in Ids : h[i].objects \subseteq Ids
  BY DEF Object
<1>6. \A p \in Paths : t[p] # 0 => t[p] \in Ids
  BY OwnIds
<1> QED BY <1>3, <1>4, <1>5, <1>6, SameTreeKeeps

LEMMA RemoveKeeps ==
  ASSUME NEW h \in [Ids -> Object], NEW t, NEW m \in Nat, m <= MaxObjects, Shape(h, t, m), Owned(h, t),
         NEW id \in Ids, h[id].live, NEW n \in Ifaces \cup Own,
         NEW g, g = remove_interface(h, id, n)
  PROVE  /\ Shape(g, t, m) /\ Owned(g, t)
         /\ \A i \in Ids : Agrees(g, t, i) <=> Agrees(h, t, i)
         /\ \A mis : Links(h, t, mis) => Links(g, t, mis)
         /\ Whole(h) => Whole(g)
<1>2. /\ g \in [Ids -> Object]
      /\ \A i \in Ids \ {id} : g[i] = h[i]
      /\ g[id].interfaces = h[id].interfaces \ {n}
      /\ g[id].added = h[id].added \ {n}
      /\ g[id].pending = h[id].pending \ {n}
      /\ (g[id].live <=> h[id].live) /\ g[id].path = h[id].path
      /\ g[id].objects = h[id].objects /\ g[id].parent = h[id].parent
  BY RemoveWrites
<1>3. Shape(g, t, m)
  BY <1>2 DEF Shape
<1>4. SameTree(g, h)
  BY <1>2 DEF SameTree
<1>5. \A i \in Ids : h[i].objects \subseteq Ids
  BY DEF Object
<1>6. \A p \in Paths : t[p] # 0 => t[p] \in Ids
  BY OwnIds
<1> QED BY <1>3, <1>4, <1>5, <1>6, SameTreeKeeps

LEMMA ClientsFinite ==
  ASSUME NEW o \in Object
  PROVE  /\ IsFiniteSet(Clients(o)) /\ Cardinality(Clients(o)) \in Nat
         /\ Cardinality(Clients(o)) = 0 <=> Clients(o) = {}
         /\ Cardinality(Clients(o)) <= Cardinality(Ifaces) + 1
<1>1. IsFiniteSet(Ifaces) /\ Cardinality(Ifaces) \in Nat
  BY ConstAssumption, FS_CardinalityType
<1>2. Clients(o) \in SUBSET (Ifaces \cup {ObjectManager})
  BY DEF Clients, Object, Own
<1>0. ObjectManager \notin Ifaces
  BY ConstAssumption
<1>3. /\ IsFiniteSet(Ifaces \cup {ObjectManager})
      /\ Cardinality(Ifaces \cup {ObjectManager}) \in Nat
      /\ Cardinality(Ifaces \cup {ObjectManager}) <= Cardinality(Ifaces) + 1
  <2>1. /\ IsFiniteSet(Ifaces \cup {ObjectManager})
        /\ Cardinality(Ifaces \cup {ObjectManager}) = Cardinality(Ifaces) + 1
    BY <1>0, <1>1, FS_AddElement
  <2> QED BY <1>1, <2>1
<1>4. /\ IsFiniteSet(Clients(o))
      /\ Cardinality(Clients(o)) <= Cardinality(Ifaces \cup {ObjectManager})
  BY <1>2, <1>3, FS_Subset
<1>5. Cardinality(Clients(o)) \in Nat
  BY <1>4, FS_CardinalityType
<1>6. Cardinality(Clients(o)) = 0 <=> Clients(o) = {}
  BY <1>4, FS_EmptySet
<1> QED BY <1>1, <1>3, <1>4, <1>5, <1>6

(* A client's interface takes up the reference made for it. *)
LEMMA AddCounts ==
  ASSUME NEW h \in [Ids -> Object], NEW id \in Ids, NEW n \in Ifaces \cup Own,
         NEW g, g = add_interface(h, id, n)
  PROVE  /\ n \in {Introspectable, Properties} =>
              \A x : Counted(h, x) => Counted(g, x)
         /\ n \notin {Introspectable, Properties} \cup h[id].interfaces =>
              (h[id].live /\ Counted(h, id) => Counted(g, 0))
<1>1. /\ g \in [Ids -> Object]
      /\ \A i \in Ids \ {id} : g[i] = h[i]
      /\ g[id].interfaces = h[id].interfaces \cup {n}
      /\ (g[id].live <=> h[id].live) /\ g[id].refcount = h[id].refcount
  BY AddWrites
<1>2. ASSUME n \in {Introspectable, Properties}, NEW x, Counted(h, x)
      PROVE  Counted(g, x)
  <2>1. \A i \in Ids : Clients(g[i]) = Clients(h[i])
    BY <1>1, <1>2 DEF Clients
  <2>2. \A i \in Ids : (g[i].live <=> h[i].live) /\ g[i].refcount = h[i].refcount
    BY <1>1
  <2> QED BY <1>2, <2>1, <2>2 DEF Counted
<1>3. ASSUME n \notin {Introspectable, Properties} \cup h[id].interfaces,
             h[id].live, Counted(h, id)
      PROVE  Counted(g, 0)
  <2>1. Clients(g[id]) = Clients(h[id]) \cup {n} /\ n \notin Clients(h[id])
    BY <1>1, <1>3 DEF Clients
  <2>2. Cardinality(Clients(g[id])) = Cardinality(Clients(h[id])) + 1
    BY <2>1, ClientsFinite, FS_AddElement
  <2>3. id # 0
    BY DEF Ids
  <2>4. \A i \in Ids \ {id} : Clients(g[i]) = Clients(h[i])
    BY <1>1
  <2>5. ASSUME NEW i \in Ids, g[i].live
        PROVE  /\ g[i].refcount = Cardinality(Clients(g[i])) + (IF i = 0 THEN 1 ELSE 0)
               /\ g[i].refcount > 0
    <3>1. i # 0
      BY DEF Ids
    <3>2. Cardinality(Clients(g[i])) \in Nat
      BY <1>1, ClientsFinite
    <3>3. CASE i = id
      BY <1>1, <1>3, <2>2, <3>1, <3>2, <3>3 DEF Counted
    <3>4. CASE i # id
      BY <1>1, <1>3, <2>4, <2>5, <3>1, <3>2, <3>4 DEF Counted
    <3> QED BY <3>3, <3>4
  <2> QED BY <2>5 DEF Counted
<1> QED BY <1>2, <1>3

(* An interface that goes leaves its reference behind. *)
LEMMA RemoveCounts ==
  ASSUME NEW h \in [Ids -> Object], NEW id \in Ids, NEW n \in Ifaces \cup Own,
         NEW g, g = remove_interface(h, id, n)
  PROVE  /\ n \in {Introspectable, Properties} =>
              \A i \in Ids : Clients(g[i]) = Clients(h[i])
         /\ n \in h[id].interfaces \ {Introspectable, Properties} =>
              (Counted(h, 0) => Counted(g, id))
<1>1. /\ g \in [Ids -> Object]
      /\ \A i \in Ids \ {id} : g[i] = h[i]
      /\ g[id].interfaces = h[id].interfaces \ {n}
      /\ (g[id].live <=> h[id].live) /\ g[id].refcount = h[id].refcount
  BY RemoveWrites
<1>2. ASSUME n \in {Introspectable, Properties}
      PROVE  \A i \in Ids : Clients(g[i]) = Clients(h[i])
  BY <1>1, <1>2 DEF Clients
<1>3. ASSUME n \in h[id].interfaces \ {Introspectable, Properties}, Counted(h, 0)
      PROVE  Counted(g, id)
  <2>1. Clients(g[id]) = Clients(h[id]) \ {n} /\ n \in Clients(h[id])
    BY <1>1, <1>3 DEF Clients
  <2>2. Cardinality(Clients(g[id])) = Cardinality(Clients(h[id])) - 1
    <3>1. IsFiniteSet(Clients(h[id]))
      BY ClientsFinite
    <3> QED BY <2>1, <3>1, FS_RemoveElement
  <2>3. \A i \in Ids \ {id} : Clients(g[i]) = Clients(h[i])
    BY <1>1
  <2>4. ASSUME NEW i \in Ids, g[i].live
        PROVE  /\ g[i].refcount = Cardinality(Clients(g[i])) + (IF i = id THEN 1 ELSE 0)
               /\ g[i].refcount > 0
    <3>1. i # 0
      BY DEF Ids
    <3>2. Cardinality(Clients(h[i])) \in Nat
      BY ClientsFinite
    <3>3. h[i].refcount = Cardinality(Clients(h[i])) /\ h[i].refcount > 0
      <4>1. h[i].live
        BY <1>1, <2>4
      <4> QED BY <1>3, <4>1, <3>1, <3>2 DEF Counted
    <3>4. CASE i = id
      BY <1>1, <2>2, <3>2, <3>3, <3>4
    <3>5. CASE i # id
      BY <1>1, <2>3, <3>2, <3>3, <3>5
    <3> QED BY <3>4, <3>5
  <2> QED BY <2>4 DEF Counted
<1> QED BY <1>2, <1>3

-----------------------------------------------------------------------------
(* Objects made *)

LEMMA NodesSame ==
  ASSUME NEW t, NEW u, NEW q \in Paths,
         \A r \in Paths : IsStrictPrefix(q, r) => t[r] = u[r]
  PROVE  Below(t, q) = Below(u, q) /\ NodesAt(t, q) = NodesAt(u, q)
<1>1. Below(t, q) = Below(u, q)
  BY DEF Below
<1> QED BY <1>1 DEF NodesAt

NewObject(p) ==
    [Freed EXCEPT !.live = TRUE, !.path = p, !.refcount = 1,
                  !.introspect = Xml({}, {})]

LEMMA NewObjectIs ==
  ASSUME NEW p \in Paths
  PROVE  /\ NewObject(p) \in Object
         /\ NewObject(p).live /\ NewObject(p).path = p /\ NewObject(p).refcount = 1
         /\ NewObject(p).interfaces = {} /\ NewObject(p).objects = {}
         /\ NewObject(p).added = {} /\ NewObject(p).pending = {}
         /\ NewObject(p).parent = 0
         /\ NewObject(p).introspect = Xml({}, {})
<1>1. Xml({}, {}) \in Data
  BY DEF Xml, Data
<1> QED BY <1>1 DEF NewObject, Freed, Object

(* The object before it is linked. *)
LEMMA Inserted ==
  ASSUME NEW m \in Nat, m + 1 <= MaxObjects,
         NEW h \in [Ids -> Object], NEW t,
         Shape(h, t, m), Owned(h, t), Counted(h, 0),
         NEW p \in Paths, t[p] = 0,
         NEW g \in [Ids -> Object], g[m + 1] = NewObject(p),
         \A i \in Ids \ {m + 1} : g[i] = h[i],
         NEW u \in [Paths -> 0 .. m + 1], u[p] = m + 1,
         \A q \in Paths \ {p} : u[q] = t[q]
  PROVE  /\ m + 1 \in Ids /\ ~h[m + 1].live /\ h[m + 1] = Freed
         /\ Shape(g, u, m + 1) /\ Owned(g, u) /\ Counted(g, m + 1)
<1>0. MaxObjects \in Nat
  BY ConstAssumption
<1>1. m + 1 \in Ids /\ m + 1 \notin 1 .. m /\ m + 1 # 0
  BY <1>0 DEF Ids
<1>2. ~h[m + 1].live /\ h[m + 1] = Freed
  BY <1>0, <1>1, OwnIds DEF Shape
<1>4. /\ g \in [Ids -> Object] /\ g[m + 1] = NewObject(p)
      /\ \A i \in Ids \ {m + 1} : g[i] = h[i]
  OBVIOUS
<1>5. t \in [Paths -> 0 .. m] /\ u \in [Paths -> 0 .. m + 1] /\ u[p] = m + 1
      /\ \A q \in Paths \ {p} : u[q] = t[q]
  BY DEF Shape
<1>6. Shape(g, u, m + 1)
  <2>1. ASSUME NEW id \in Ids
        PROVE  /\ g[id].added \subseteq g[id].interfaces
               /\ g[id].pending \subseteq g[id].interfaces
               /\ g[id].objects \subseteq 1 .. m + 1
               /\ g[id].parent \in 0 .. m + 1
               /\ ~g[id].live => g[id] = Freed
    <3>1. CASE id = m + 1
      BY <1>4, <3>1, NewObjectIs
    <3>2. CASE id # m + 1
      BY <1>4, <3>2 DEF Shape
    <3> QED BY <3>1, <3>2
  <2> QED BY <1>4, <1>5, <2>1 DEF Shape
<1>7. Owned(g, u)
  <2>1. ASSUME NEW q \in Paths, u[q] # 0
        PROVE  g[u[q]].live /\ g[u[q]].path = q
    <3>1. CASE q = p
      BY <1>4, <1>5, <3>1, NewObjectIs
    <3>2. CASE q # p
      <4>1. u[q] = t[q] /\ t[q] \in Ids /\ t[q] # m + 1
        BY <1>0, <1>1, <1>5, <2>1, <3>2, OwnIds
      <4> QED BY <1>4, <2>1, <4>1 DEF Owned
    <3> QED BY <3>1, <3>2
  <2>2. ASSUME NEW id \in Ids, g[id].live
        PROVE  u[g[id].path] = id
    <3>1. CASE id = m + 1
      BY <1>4, <1>5, <3>1, NewObjectIs
    <3>2. CASE id # m + 1
      <4>1. h[id].live /\ g[id].path = h[id].path /\ t[h[id].path] = id
        BY <1>4, <2>2, <3>2 DEF Owned
      <4>2. h[id].path \in Paths \ {p}
        BY <4>1 DEF Object, Ids
      <4> QED BY <1>5, <4>1, <4>2
    <3> QED BY <3>1, <3>2
  <2> QED BY <2>1, <2>2 DEF Owned
<1>8. Counted(g, m + 1)
  <2>1. Clients(NewObject(p)) = {} /\ Cardinality({}) = 0
    BY NewObjectIs, FS_EmptySet DEF Clients
  <2>2. ASSUME NEW id \in Ids, g[id].live
        PROVE  /\ g[id].refcount
                    = Cardinality(Clients(g[id])) + (IF id = m + 1 THEN 1 ELSE 0)
               /\ g[id].refcount > 0
    <3>1. CASE id = m + 1
      <4>1. g[id].refcount = 1 /\ Cardinality(Clients(g[id])) = 0
        BY <1>4, <2>1, <3>1, NewObjectIs
      <4> QED BY <3>1, <4>1
    <3>2. CASE id # m + 1
      <4>1. h[id].live /\ g[id] = h[id] /\ id # 0
        BY <1>4, <2>2, <3>2 DEF Ids
      <4>2. h[id].refcount = Cardinality(Clients(h[id])) + 0 /\ h[id].refcount > 0
        BY <4>1 DEF Counted
      <4> QED BY <3>2, <4>1, <4>2
    <3> QED BY <3>1, <3>2
  <2> QED BY <2>2 DEF Counted
<1> QED BY <1>1, <1>2, <1>4, <1>6, <1>7, <1>8

(* Those below p, which are misplaced once it comes or goes. *)
Displaced(t, p) == {t[q] : q \in Below(t, p)}

(* A reference to a path that has no object yet makes one. *)
LEMMA RefNew ==
  ASSUME made \in Nat, made + 1 <= MaxObjects, misplaced \subseteq 1 .. made,
         Sound(heap, tree, made, misplaced, root, 0),
         NEW p \in Paths, tree[p] = 0,
         NEW u \in [Paths -> 0 .. made + 1], u[p] = made + 1,
         \A q \in Paths \ {p} : u[q] = tree[q]
  PROVE  LET g == object_path_ref(p)
         IN  /\ made + 1 \in Ids
             /\ g[made + 1].live /\ g[made + 1].path = p /\ g[made + 1].refcount = 1
             /\ g[made + 1].interfaces = {Introspectable}
             /\ g[made + 1].introspect = Xml({}, {})
             /\ Sound(g, u, made + 1, misplaced \cup Displaced(tree, p), root, made + 1)
             /\ Whole(heap) => Whole(g)
<1> DEFINE n == made + 1
           h == [heap EXCEPT ![n] = NewObject(p)]
           k == invalidate_parent_data(h, u, p)
           g == object_path_ref(p)
           mis == misplaced \cup Displaced(tree, p)
<1> USE DEF Sound
<1> HIDE DEF g
<1>1. /\ n \in Nat /\ n <= MaxObjects /\ heap \in [Ids -> Object]
      /\ tree \in [Paths -> 0 .. made] /\ u \in [Paths -> 0 .. n] /\ u[p] = n
      /\ \A q \in Paths \ {p} : u[q] = tree[q]
  BY DEF Shape
<1>2. /\ n \in Ids /\ ~heap[n].live /\ heap[n] = Freed
      /\ h \in [Ids -> Object] /\ h[n] = NewObject(p)
      /\ \A i \in Ids \ {n} : h[i] = heap[i]
      /\ Shape(h, u, n) /\ Owned(h, u) /\ Counted(h, n)
  <2>1. n \in Ids /\ NewObject(p) \in Object
    BY <1>1, NewObjectIs DEF Ids
  <2>2. h \in [Ids -> Object] /\ h[n] = NewObject(p)
        /\ \A i \in Ids \ {n} : h[i] = heap[i]
    BY <1>1, <2>1
  <2> HIDE DEF h
  <2> QED BY <1>1, <2>2, Inserted
<1>3. g = add_interface(k, n, Introspectable)
  BY <1>1 DEF object_path_ref, NewObject, g
<1>a. misplaced \subseteq mis /\ \A q \in Below(tree, p) : tree[q] \in mis
  BY DEF Displaced
<1> HIDE DEF h, k, n, mis
<1>4. h[n].live /\ h[n].path = p /\ h[n].parent = 0 /\ h[n].objects = {}
  BY <1>2, NewObjectIs
<1>5. ASSUME NEW i \in Ids, i # n, heap[i].live, i \notin mis
      PROVE  Agrees(h, u, i)
  <2>1. Agrees(heap, tree, i) /\ heap[i].path \in Paths /\ tree[heap[i].path] = i
    BY <1>1, <1>5, <1>a DEF Links, Object, Owned
  <2>2. ~IsStrictPrefix(p, heap[i].path)
    BY <1>5, <1>a, <2>1 DEF Below, Ids
  <2>3. Parent(u, heap[i].path) = Parent(tree, heap[i].path)
    <3>1. \A q \in Paths : IsStrictPrefix(q, heap[i].path) => u[q] = tree[q]
      BY <1>1, <2>2
    <3> QED BY <2>1, <3>1, ParentSame
  <2>4. \A d \in Ids : i \in h[d].objects <=> d = heap[i].parent
    <3>1. heap[i].parent # n
      BY DEF Shape, n
    <3> QED BY <1>2, <1>4, <2>1, <3>1 DEF Agrees
  <2> QED BY <1>2, <1>5, <2>3, <2>4, <2>1 DEF Agrees
<1>6. \A d \in Ids : n \notin h[d].objects
  <2>1. \A d \in Ids : n \notin heap[d].objects
    BY DEF Shape, n
  <2> QED BY <1>2, <1>4, <2>1
<1>7. Shape(k, u, n) /\ Owned(k, u)
  BY <1>1, <1>2, InvalidatedShape DEF k
<1>8. /\ k \in [Ids -> Object]
      /\ \A i \in Ids :
           /\ k[i].live = h[i].live /\ k[i].path = h[i].path
           /\ k[i].refcount = h[i].refcount
           /\ k[i].interfaces = h[i].interfaces
           /\ k[i].introspect = IF i \in Dropped(u, p) THEN None
                                ELSE h[i].introspect
           /\ k[i].objects = h[i].objects \cup Linked(u, p, i)
  <2>1. k \in [Ids -> Object]
    BY <1>1, <1>2, Invalidated DEF k
  <2>2. ASSUME NEW i \in Ids
        PROVE  /\ k[i].live = h[i].live /\ k[i].path = h[i].path
               /\ k[i].refcount = h[i].refcount
               /\ k[i].interfaces = h[i].interfaces
    BY <1>1, <1>2, Invalidated DEF k
  <2>3. ASSUME NEW i \in Ids
        PROVE  k[i].introspect = IF i \in Dropped(u, p) THEN None
                                 ELSE h[i].introspect
    BY <1>1, <1>2, Invalidated DEF k
  <2>4. ASSUME NEW i \in Ids
        PROVE  k[i].objects = h[i].objects \cup Linked(u, p, i)
    BY <1>1, <1>2, Invalidated DEF k
  <2> QED BY <2>1, <2>2, <2>3, <2>4
<1>9. ASSUME NEW i \in Ids, k[i].live, i \notin mis
      PROVE  Agrees(k, u, i)
  <2>1. CASE i = n
    BY <1>1, <1>2, <1>4, <1>6, <2>1, InvalidatedNew DEF k
  <2>2. CASE i # n
    <3>1. heap[i].live /\ h[i].live
      BY <1>2, <1>8, <1>9, <2>2
    <3>2. Agrees(h, u, i)
      BY <1>5, <1>9, <2>2, <3>1
    <3> QED BY <1>1, <1>2, <3>1, <3>2, InvalidatedAgrees DEF k
  <2> QED BY <2>1, <2>2
<1>10. Whole(heap) => Whole(k)
  <2> SUFFICES ASSUME Whole(heap), NEW d \in Ids, NEW i \in h[d].objects
               PROVE  h[i].live
    BY <1>1, <1>2, InvalidatedWhole DEF k, Whole
  <2>1. d # n /\ i \in heap[d].objects
    BY <1>2, <1>4
  <2>2. i \in Ids /\ i # n
    BY <1>1, <1>2, <1>6, <2>1 DEF Object
  <2> QED BY <1>2, <2>1, <2>2 DEF Whole
<1>11. Links(k, u, mis)
  BY <1>9, <1>10, <1>a DEF Links
<1>12. Counted(k, n)
  <2>1. \A i \in Ids : Clients(k[i]) = Clients(h[i])
    BY <1>8 DEF Clients
  <2>2. \A i \in Ids : (k[i].live <=> h[i].live) /\ k[i].refcount = h[i].refcount
    BY <1>8
  <2> QED BY <1>2, <2>1, <2>2 DEF Counted
<1>13. RootOnly(k, root)
  BY <1>2, <1>8, NewObjectIs DEF RootOnly
<1>14. ASSUME NEW i \in Ids, i # n, k[i].live
       PROVE  Truthful(k, u, root, i)
  <2>1. CASE i \in Dropped(u, p)
    BY <1>8, <2>1 DEF Truthful
  <2>2. CASE i \notin Dropped(u, p)
    <3>1. heap[i].live /\ i # 0 /\ Truthful(heap, tree, root, i)
      BY <1>2, <1>8, <1>14 DEF Cached, Ids
    <3>2. heap[i].path \in Paths /\ tree[heap[i].path] = i
      BY <1>1, <3>1 DEF Object, Owned
    <3>3. ~IsStrictPrefix(heap[i].path, p)
      <4>1. heap[i].path # p /\ u[heap[i].path] = i
        BY <1>1, <3>1, <3>2
      <4> QED BY <2>2, <3>1, <3>2, <4>1 DEF Dropped, Above
    <3>4. NodesAt(u, heap[i].path) = NodesAt(tree, heap[i].path)
      <4>1. \A q \in Paths : IsStrictPrefix(heap[i].path, q) => u[q] = tree[q]
        BY <1>1, <3>3
      <4> QED BY <3>2, <4>1, NodesSame
    <3>5. /\ k[i].introspect = heap[i].introspect
          /\ k[i].interfaces = heap[i].interfaces /\ k[i].path = heap[i].path
      BY <1>2, <1>8, <1>14, <2>2
    <3> QED BY <3>1, <3>4, <3>5 DEF Truthful
  <2> QED BY <2>1, <2>2
<1>15. k[n].introspect = Xml({}, {}) /\ k[n].interfaces = {}
       /\ k[n].live /\ k[n].path = p /\ k[n].refcount = 1
  <2>1. n \notin Dropped(u, p)
    <3>1. \A q \in Above(u, p) : q \in Paths /\ q # p
      BY DEF Above, IsStrictPrefix
    <3>2. \A q \in Paths \ {p} : u[q] # n
      BY <1>1 DEF n
    <3> QED BY <3>1, <3>2 DEF Dropped
  <2>2. k[n].introspect = h[n].introspect
    BY <1>2, <1>8, <2>1
  <2> QED BY <1>2, <1>8, <2>2, NewObjectIs
<1>16. Introspectable \in Ifaces \cup Own
  BY DEF Own
<1>17. /\ g \in [Ids -> Object] /\ \A i \in Ids \ {n} : g[i] = k[i]
       /\ g[n].interfaces = {Introspectable} /\ g[n].introspect = Xml({}, {})
       /\ g[n].live /\ g[n].path = p /\ g[n].refcount = 1
  BY <1>2, <1>3, <1>8, <1>15, <1>16, AddWrites
<1>18. Shape(g, u, n) /\ Owned(g, u) /\ Links(g, u, mis)
  BY <1>1, <1>2, <1>3, <1>7, <1>8, <1>11, <1>15, <1>16, AddKeeps
<1>19. Counted(g, n)
  BY <1>2, <1>3, <1>8, <1>12, <1>16, AddCounts
<1>20. RootOnly(g, root)
  BY <1>13, <1>17 DEF RootOnly, Introspectable, ObjectManager
<1>22. Whole(heap) => Whole(g)
  BY <1>1, <1>2, <1>3, <1>7, <1>8, <1>10, <1>15, <1>16, AddKeeps
<1>21. Cached(g, u, root, n)
  BY <1>14, <1>17 DEF Cached, Truthful
<1> QED BY <1>2, <1>17, <1>18, <1>19, <1>20, <1>21, <1>22 DEF n, g, mis

-----------------------------------------------------------------------------
(* Objects that go *)

(* The object id of h is not in g. *)
Without(g, h, id) ==
    /\ g[id] = Freed
    /\ \A i \in Ids \ {id} :
         /\ g[i].live <=> h[i].live
         /\ g[i].path = h[i].path /\ g[i].refcount = h[i].refcount
         /\ g[i].interfaces = h[i].interfaces
         /\ g[i].added = h[i].added /\ g[i].removed = h[i].removed
         /\ g[i].idle = h[i].idle /\ g[i].pending = h[i].pending
         /\ g[i].introspect = h[i].introspect
         /\ g[i].objects \subseteq h[i].objects
         /\ h[i].objects \subseteq g[i].objects \cup {id}
         /\ i = h[id].parent => id \notin g[i].objects
         /\ i \notin h[id].objects => g[i].parent = h[i].parent
         /\ i \in h[id].objects => g[i].parent = h[id].parent

LEMMA Unregistered ==
  ASSUME NEW h \in [Ids -> Object], NEW id \in Ids
  PROVE  /\ generic_unregister(h, id) \in [Ids -> Object]
         /\ Without(generic_unregister(h, id), h, id)
<1> DEFINE g == generic_unregister(h, id)
<1>1. Freed \in Object
  BY ConstAssumption DEF Freed, Object, Data
<1>2. g[id] = Freed
  BY DEF generic_unregister
<1>3. ASSUME NEW i \in Ids, i # id
      PROVE  /\ g[i] \in Object
             /\ g[i].live <=> h[i].live
             /\ g[i].path = h[i].path /\ g[i].refcount = h[i].refcount
             /\ g[i].interfaces = h[i].interfaces
             /\ g[i].added = h[i].added /\ g[i].removed = h[i].removed
             /\ g[i].idle = h[i].idle /\ g[i].pending = h[i].pending
             /\ g[i].introspect = h[i].introspect
             /\ g[i].objects \subseteq h[i].objects
             /\ h[i].objects \subseteq g[i].objects \cup {id}
             /\ i = h[id].parent => id \notin g[i].objects
             /\ i \notin h[id].objects => g[i].parent = h[i].parent
             /\ i \in h[id].objects => g[i].parent = h[id].parent
  <2> DEFINE o == IF i = h[id].parent THEN h[i].objects \ {id} ELSE h[i].objects
             u == IF i \in h[id].objects THEN h[id].parent ELSE h[i].parent
  <2>1. h[i] \in Object /\ h[id] \in Object
    OBVIOUS
  <2>2. o \in SUBSET Ids
    BY <2>1 DEF Object
  <2>3. u \in Nat
    BY <2>1 DEF Object
  <2>4. g[i] = [h[i] EXCEPT !.objects = o, !.parent = u]
    BY <1>3 DEF generic_unregister
  <2> HIDE DEF o, u
  <2>5. /\ g[i] \in Object
        /\ g[i].live <=> h[i].live
        /\ g[i].path = h[i].path /\ g[i].refcount = h[i].refcount
        /\ g[i].interfaces = h[i].interfaces
        /\ g[i].added = h[i].added /\ g[i].removed = h[i].removed
        /\ g[i].idle = h[i].idle /\ g[i].pending = h[i].pending
        /\ g[i].introspect = h[i].introspect
        /\ g[i].objects = o /\ g[i].parent = u
    BY <2>1, <2>2, <2>3, <2>4 DEF Object
  <2> QED BY <2>5 DEF o, u
<1>4. g \in [Ids -> Object]
  <2>1. \A i \in Ids : g[i] \in Object
    BY <1>1, <1>2, <1>3
  <2>2. g = [i \in Ids |-> g[i]]
    BY DEF generic_unregister
  <2> QED BY <2>1, <2>2
<1> HIDE DEF g
<1>5. Without(g, h, id)
  BY <1>2, <1>3, Zenon DEF Without
<1> QED BY <1>4, <1>5 DEF g

LEMMA InvalidatedLinks ==
  ASSUME NEW h, NEW t, NEW m \in Nat, m <= MaxObjects, Shape(h, t, m), Owned(h, t),
         NEW mis, Links(h, t, mis), NEW p \in Paths,
         NEW g, g = invalidate_parent_data(h, t, p)
  PROVE  Links(g, t, mis)
<1>1. ASSUME NEW id \in Ids, g[id].live, id \notin mis
      PROVE  Agrees(g, t, id)
  <2>1. h[id].live
    BY <1>1, Invalidated
  <2>2. Agrees(h, t, id)
    BY <1>1, <2>1 DEF Links
  <2> QED BY <2>1, <2>2, InvalidatedAgrees
<1>2. mis = {} => Whole(g)
  BY InvalidatedWhole DEF Links
<1> QED BY <1>1, <1>2 DEF Links

(* An object without the interfaces of its own. *)
Bared(s, h, t, id) ==
    \A i \in Ids :
        /\ s[i].live <=> h[i].live
        /\ s[i].path = h[i].path /\ s[i].refcount = h[i].refcount
        /\ Clients(s[i]) = Clients(h[i])
        /\ i # id => s[i].interfaces = h[i].interfaces
        /\ i \in Dropped(t, h[id].path) => s[i].introspect = None
        /\ i \notin Dropped(t, h[id].path) => s[i].introspect = h[i].introspect

LEMMA StrippedIs ==
  ASSUME NEW h \in [Ids -> Object], NEW t, NEW m \in Nat, m <= MaxObjects,
         Shape(h, t, m), Owned(h, t), NEW mis, Links(h, t, mis),
         NEW id \in Ids, h[id].live = TRUE,
         NEW s, s = Stripped(h, t, id)
  PROVE  /\ Shape(s, t, m) /\ Owned(s, t) /\ Links(s, t, mis)
         /\ Whole(h) => Whole(s)
         /\ Bared(s, h, t, id)
<1> DEFINE a == remove_interface(h, id, Introspectable)
           b == remove_interface(a, id, Properties)
           p == h[id].path
<1>1. s = invalidate_parent_data(b, t, p)
  BY DEF Stripped
<1>2. Introspectable \in Ifaces \cup Own /\ Properties \in Ifaces \cup Own
      /\ Introspectable \in {Introspectable, Properties}
      /\ Properties \in {Introspectable, Properties}
  BY DEF Own
<1> HIDE DEF a, b
<1>3. /\ a \in [Ids -> Object] /\ (a[id].live <=> h[id].live)
      /\ a[id].path = h[id].path /\ a[id].refcount = h[id].refcount
      /\ a[id].introspect = h[id].introspect
      /\ \A i \in Ids \ {id} : a[i] = h[i]
  BY <1>2, RemoveWrites DEF a
<1>4. /\ Shape(a, t, m) /\ Owned(a, t) /\ Links(a, t, mis) /\ (Whole(h) => Whole(a))
      /\ \A i \in Ids : Clients(a[i]) = Clients(h[i])
  BY <1>2, RemoveKeeps, RemoveCounts DEF a
<1>5. /\ b \in [Ids -> Object] /\ (b[id].live <=> a[id].live)
      /\ b[id].path = a[id].path /\ b[id].refcount = a[id].refcount
      /\ b[id].introspect = a[id].introspect
      /\ \A i \in Ids \ {id} : b[i] = a[i]
  BY <1>2, <1>3, RemoveWrites DEF b
<1>6. /\ Shape(b, t, m) /\ Owned(b, t) /\ Links(b, t, mis) /\ (Whole(h) => Whole(b))
      /\ \A i \in Ids : Clients(b[i]) = Clients(h[i])
  BY <1>2, <1>3, <1>4, RemoveKeeps, RemoveCounts DEF b
<1>7. p \in Paths
  BY DEF Object
<1>8. /\ Shape(s, t, m) /\ Owned(s, t) /\ Links(s, t, mis) /\ (Whole(h) => Whole(s))
  BY <1>1, <1>6, <1>7, InvalidatedShape, InvalidatedLinks, InvalidatedWhole
<1>9. ASSUME NEW i \in Ids
      PROVE  /\ s[i].live = b[i].live /\ s[i].path = b[i].path
             /\ s[i].refcount = b[i].refcount
             /\ s[i].interfaces = b[i].interfaces
  BY <1>1, <1>6, <1>7, Invalidated
<1>10. ASSUME NEW i \in Ids
       PROVE  s[i].introspect = IF i \in Dropped(t, p) THEN None
                                ELSE b[i].introspect
  BY <1>1, <1>6, <1>7, Invalidated
<1>11. ASSUME NEW i \in Ids
       PROVE  /\ s[i].live <=> h[i].live
              /\ s[i].path = h[i].path /\ s[i].refcount = h[i].refcount
              /\ Clients(s[i]) = Clients(h[i])
              /\ i # id => s[i].interfaces = h[i].interfaces
              /\ i \in Dropped(t, p) => s[i].introspect = None
              /\ i \notin Dropped(t, p) => s[i].introspect = h[i].introspect
  <2>1. Clients(s[i]) = Clients(b[i])
    BY <1>9 DEF Clients
  <2>2. CASE i = id
    BY <1>3, <1>5, <1>6, <1>9, <1>10, <2>1, <2>2
  <2>3. CASE i # id
    BY <1>3, <1>5, <1>6, <1>9, <1>10, <2>1, <2>3
  <2> QED BY <2>2, <2>3
<1>12. Bared(s, h, t, id)
  BY <1>11 DEF Bared
<1> QED BY <1>8, <1>12

(* One reference less, of several.                                          *)
LEMMA UnrefKeeps ==
  ASSUME NEW m \in Nat, m <= MaxObjects, NEW h, NEW t, NEW mis, NEW r, NEW id \in Ids,
         Sound(h, t, m, mis, r, id), Cached(h, t, r, 0),
         h[id].refcount > 1,
         NEW g, g = [h EXCEPT ![id].refcount = @ - 1]
  PROVE  Sound(g, t, m, mis, r, 0)
<1> USE DEF Sound
<1>1. h \in [Ids -> Object] /\ h[id] \in Object
  BY DEF Shape
<1>2. /\ g \in [Ids -> Object]
      /\ \A i \in Ids \ {id} : g[i] = h[i]
      /\ (g[id].live <=> h[id].live) /\ g[id].path = h[id].path
      /\ g[id].interfaces = h[id].interfaces /\ g[id].objects = h[id].objects
      /\ g[id].added = h[id].added /\ g[id].pending = h[id].pending
      /\ g[id].introspect = h[id].introspect /\ g[id].parent = h[id].parent
      /\ g[id].refcount = h[id].refcount - 1 /\ g[id].refcount \in Nat
  BY <1>1 DEF Object
<1>3. h[id].live
  BY DEF Shape, Freed
<1>4. Shape(g, t, m)
  BY <1>2, <1>3 DEF Shape
<1>5. SameTree(g, h)
  BY <1>2 DEF SameTree
<1>6. Owned(g, t) /\ Links(g, t, mis)
  <2>1. \A p \in Paths : t[p] # 0 => t[p] \in Ids
    BY OwnIds
  <2>2. \A i \in Ids : h[i].objects \subseteq Ids
    BY <1>1 DEF Object
  <2> QED BY <1>5, <2>1, <2>2, SameTreeKeeps
<1>7. ASSUME NEW i \in Ids, g[i].live
      PROVE  /\ g[i].refcount = Cardinality(Clients(g[i])) + (IF i = 0 THEN 1 ELSE 0)
             /\ g[i].refcount > 0
  <2>1. i # 0 /\ Cardinality(Clients(h[i])) \in Nat
    BY <1>1, ClientsFinite DEF Ids
  <2>2. h[i].live /\ Clients(g[i]) = Clients(h[i])
    BY <1>2, <1>7 DEF Clients
  <2>3. /\ h[i].refcount
             = Cardinality(Clients(h[i])) + (IF i = id THEN 1 ELSE 0)
        /\ h[i].refcount > 0
    BY <2>2 DEF Counted
  <2>4. CASE i = id
    BY <1>2, <2>1, <2>2, <2>3, <2>4
  <2>5. CASE i # id
    BY <1>2, <2>1, <2>2, <2>3, <2>5
  <2> QED BY <2>4, <2>5
<1>8. Counted(g, 0)
  BY <1>7 DEF Counted
<1>9. RootOnly(g, r)
  BY <1>2 DEF RootOnly
<1>10. Cached(g, t, r, 0)
  BY <1>2 DEF Cached, Truthful
<1> QED BY <1>4, <1>6, <1>8, <1>9, <1>10

(* What Stripped makes of h, but for the references to id. *)
Bare(s, h, t, id) ==
    \A i \in Ids :
        /\ s[i].live <=> h[i].live
        /\ s[i].path = h[i].path
        /\ i # id => s[i].refcount = h[i].refcount
        /\ i # id => s[i].interfaces = h[i].interfaces
        /\ i \in Dropped(t, h[id].path) => s[i].introspect = None
        /\ i \notin Dropped(t, h[id].path) => s[i].introspect = h[i].introspect

(* The last reference: the object goes. *)
LEMMA WithoutSound ==
  ASSUME NEW m \in Nat, m <= MaxObjects, NEW h, NEW t, NEW mis, NEW r, NEW id \in Ids,
         Sound(h, t, m, mis, r, id), h[id].live,
         NEW s \in [Ids -> Object], Bare(s, h, t, id),
         Shape(s, t, m), Owned(s, t), Links(s, t, mis), Whole(s),
         NEW g \in [Ids -> Object], Without(g, s, id),
         NEW u \in [Paths -> 0 .. m], u[h[id].path] = 0,
         \A q \in Paths \ {h[id].path} : u[q] = t[q],
         NEW nm, nm = mis \cup Displaced(t, h[id].path)
  PROVE  Sound(g, u, m, nm, r, 0)
<1> USE DEF Sound
<1> DEFINE p == h[id].path
<1>1. h \in [Ids -> Object] /\ h[id] \in Object /\ p \in Paths
  BY DEF Shape, Object
<1>2. t[p] = id /\ id # 0
  BY <1>1 DEF Owned, Ids
<1>7. /\ Shape(s, t, m) /\ Owned(s, t) /\ Links(s, t, mis) /\ Whole(s)
      /\ \A i \in Ids :
           /\ s[i].live <=> h[i].live
           /\ s[i].path = h[i].path
           /\ i # id => s[i].refcount = h[i].refcount
           /\ i # id => s[i].interfaces = h[i].interfaces
           /\ i \in Dropped(t, p) => s[i].introspect = None
           /\ i \notin Dropped(t, p) => s[i].introspect = h[i].introspect
  BY DEF Bare
<1>8. s \in [Ids -> Object] /\ s[id].path = p /\ s[id].live
  BY <1>7
<1>9. g \in [Ids -> Object] /\ Without(g, s, id) /\ g[id] = Freed
  BY DEF Without
<1>10. ASSUME NEW i \in Ids, i # id
       PROVE  /\ g[i].live <=> h[i].live
              /\ g[i].path = h[i].path /\ g[i].refcount = h[i].refcount
              /\ g[i].interfaces = h[i].interfaces
              /\ i \in Dropped(t, p) => g[i].introspect = None
              /\ i \notin Dropped(t, p) => g[i].introspect = h[i].introspect
  BY <1>7, <1>9, <1>10 DEF Without
<1>11. Freed.live = FALSE /\ Freed.interfaces = {} /\ Freed.objects = {}
       /\ Freed.added = {} /\ Freed.pending = {} /\ Freed.parent = 0
  BY DEF Freed
<1>12. Shape(g, u, m)
  <2>1. ASSUME NEW i \in Ids
        PROVE  /\ g[i].added \subseteq g[i].interfaces
               /\ g[i].pending \subseteq g[i].interfaces
               /\ g[i].objects \subseteq 1 .. m
               /\ g[i].parent \in 0 .. m
    <3>1. CASE i = id
      BY <1>9, <1>11, <3>1
    <3>2. CASE i # id
      BY <1>7, <1>9, <3>2 DEF Shape, Without
    <3> QED BY <3>1, <3>2
  <2>2. ASSUME NEW i \in Ids, ~g[i].live
        PROVE  g[i] = Freed
    <3>1. CASE i = id
      BY <1>9, <3>1
    <3>2. CASE i # id
      <4>1. ~s[i].live /\ s[i] = Freed
        BY <1>7, <1>9, <2>2, <3>2 DEF Shape, Without
      <4>2. i \notin s[id].objects
        BY <1>7, <4>1 DEF Whole
      <4>3. g[i].objects = s[i].objects
        BY <1>9, <1>11, <3>2, <4>1 DEF Without
      <4>4. g[i].live = s[i].live
        <5>1. g[i] \in Object /\ s[i] \in Object
          BY <1>8, <1>9
        <5> QED BY <5>1, <1>9, <3>2 DEF Object, Without
      <4>5. g[i] \in Object /\ s[i] \in Object
        BY <1>8, <1>9
      <4>6. g[i] = s[i]
        BY <1>9, <3>2, <4>2, <4>3, <4>4, <4>5, SameObject DEF Without
      <4> QED BY <4>1, <4>6
    <3> QED BY <3>1, <3>2
  <2> QED BY <1>9, <2>1, <2>2 DEF Shape
<1>13. Owned(g, u)
  <2>1. ASSUME NEW q \in Paths, u[q] # 0
        PROVE  g[u[q]].live /\ g[u[q]].path = q
    <3>1. q # p /\ u[q] = t[q]
      BY <2>1
    <3>2. t[q] \in Ids /\ h[t[q]].live /\ h[t[q]].path = q
      BY <2>1, <3>1, OwnIds DEF Owned
    <3>3. t[q] # id
      BY <3>1, <3>2
    <3> QED BY <1>10, <3>1, <3>2, <3>3
  <2>2. ASSUME NEW i \in Ids, g[i].live
        PROVE  u[g[i].path] = i
    <3>1. i # id /\ h[i].live /\ g[i].path = h[i].path
      BY <1>9, <1>10, <1>11, <2>2
    <3>2. t[h[i].path] = i /\ h[i].path \in Paths
      BY <1>1, <3>1 DEF Owned, Object
    <3>3. h[i].path # p
      BY <1>2, <3>1, <3>2
    <3> QED BY <3>1, <3>2, <3>3
  <2> QED BY <2>1, <2>2 DEF Owned
<1>14. Counted(g, 0)
  <2> SUFFICES ASSUME NEW i \in Ids, g[i].live
               PROVE  /\ g[i].refcount
                           = Cardinality(Clients(g[i])) + (IF i = 0 THEN 1 ELSE 0)
                      /\ g[i].refcount > 0
    BY DEF Counted
  <2>1. i # id /\ i # 0
    BY <1>9, <1>11 DEF Ids
  <2>2. h[i].live /\ g[i].refcount = h[i].refcount /\ Clients(g[i]) = Clients(h[i])
    BY <1>10, <2>1 DEF Clients
  <2>3. /\ h[i].refcount = Cardinality(Clients(h[i])) + (IF i = id THEN 1 ELSE 0)
        /\ h[i].refcount > 0
    BY <2>2 DEF Counted
  <2> QED BY <2>1, <2>2, <2>3
<1>15. RootOnly(g, r)
  BY <1>9, <1>10, <1>11 DEF RootOnly
<1>16. ASSUME NEW i \in Ids, i # id, h[i].live, i \notin nm
       PROVE  /\ h[i].path \in Paths /\ t[h[i].path] = i
              /\ ~IsStrictPrefix(p, h[i].path) /\ Agrees(s, t, i)
              /\ i \notin s[id].objects
  <2>1. h[i].path \in Paths /\ t[h[i].path] = i /\ i # 0
    BY <1>1, <1>16 DEF Owned, Object, Ids
  <2>2. ~IsStrictPrefix(p, h[i].path)
    BY <1>16, <2>1 DEF Below, Displaced
  <2>3. s[i].live /\ s[i].path = h[i].path
    BY <1>7, <1>16
  <2>4. Agrees(s, t, i)
    BY <1>7, <1>16, <2>3 DEF Links
  <2>5. Parent(t, h[i].path) # id
    <3>1. ASSUME Parent(t, h[i].path) = id
          PROVE  p \in Above(t, h[i].path)
      BY <1>2, <1>7, <1>8, <2>1, <3>1, ParentPath
    <3> QED BY <3>1, <2>2 DEF Above
  <2>6. i \notin s[id].objects
    BY <2>3, <2>4, <2>5 DEF Agrees
  <2> QED BY <2>1, <2>2, <2>4, <2>6
<1>17. ASSUME NEW i \in Ids, g[i].live, i \notin nm
       PROVE  Agrees(g, u, i)
  <2>1. i # id /\ h[i].live
    BY <1>9, <1>10, <1>11, <1>17
  <2>2. /\ h[i].path \in Paths /\ ~IsStrictPrefix(p, h[i].path)
        /\ Agrees(s, t, i) /\ i \notin s[id].objects
    BY <1>16, <1>17, <2>1
  <2>3. g[i].path = h[i].path /\ s[i].path = h[i].path /\ g[i].parent = s[i].parent
    BY <1>7, <1>9, <1>10, <2>1, <2>2 DEF Without
  <2>4. Parent(u, h[i].path) = Parent(t, h[i].path)
    <3>1. \A q \in Paths : IsStrictPrefix(q, h[i].path) => u[q] = t[q]
      BY <2>2
    <3> QED BY <2>2, <3>1, ParentSame
  <2>5. ASSUME NEW d \in Ids
        PROVE  i \in g[d].objects <=> d = g[i].parent
    <3>1. CASE d = id
      BY <1>9, <1>11, <2>2, <2>3, <3>1 DEF Agrees
    <3>2. CASE d # id
      <4>1. i \in g[d].objects <=> i \in s[d].objects
        BY <1>9, <2>1, <3>2 DEF Without
      <4> QED BY <2>2, <2>3, <4>1 DEF Agrees
    <3> QED BY <3>1, <3>2
  <2> QED BY <2>2, <2>3, <2>4, <2>5 DEF Agrees
<1>18. ASSUME nm = {}, NEW d \in Ids, NEW i \in g[d].objects
       PROVE  g[i].live
  <2>1. d # id /\ i \in s[d].objects
    BY <1>9, <1>11, <1>18 DEF Without
  <2>2. i \in Ids /\ s[i].live
    BY <1>7, <1>8, <2>1 DEF Whole, Object
  <2>3. i # id
    <3>1. mis = {}
      BY <1>18
    <3>2. Agrees(s, t, id)
      BY <1>7, <1>8, <3>1 DEF Links
    <3>3. i = id => d = s[id].parent
      BY <2>1, <3>2 DEF Agrees
    <3> QED BY <1>9, <1>18, <2>1, <3>3 DEF Without
  <2> QED BY <1>9, <2>2, <2>3 DEF Without
<1>19. Links(g, u, nm)
  BY <1>17, <1>18 DEF Links, Whole
<1>20. Cached(g, u, r, 0)
  <2> SUFFICES ASSUME NEW i \in Ids, g[i].live
               PROVE  Truthful(g, u, r, i)
    BY DEF Cached
  <2>1. i # id /\ h[i].live
    BY <1>9, <1>10, <1>11
  <2>2. CASE i \in Dropped(t, p)
    BY <1>10, <2>1, <2>2 DEF Truthful
  <2>3. CASE i \notin Dropped(t, p)
    <3>1. Truthful(h, t, r, i) /\ i # 0
      BY <2>1 DEF Cached, Ids
    <3>2. h[i].path \in Paths /\ t[h[i].path] = i
      BY <1>1, <2>1 DEF Owned, Object
    <3>3. ~IsStrictPrefix(h[i].path, p)
      BY <2>3, <3>1, <3>2 DEF Dropped, Above
    <3>4. NodesAt(u, h[i].path) = NodesAt(t, h[i].path)
      <4>1. \A q \in Paths : IsStrictPrefix(h[i].path, q) => u[q] = t[q]
        BY <3>3
      <4> QED BY <3>2, <4>1, NodesSame
    <3>5. /\ g[i].introspect = h[i].introspect
          /\ g[i].interfaces = h[i].interfaces /\ g[i].path = h[i].path
      BY <1>10, <2>1, <2>3
    <3> QED BY <3>1, <3>4, <3>5 DEF Truthful
  <2> QED BY <2>2, <2>3
<1> QED BY <1>12, <1>13, <1>14, <1>15, <1>19, <1>20

LEMMA UnrefFrees ==
  ASSUME NEW m \in Nat, m <= MaxObjects, NEW h, NEW t, NEW mis, NEW r, NEW id \in Ids,
         Sound(h, t, m, mis, r, id), Whole(h),
         h[id].refcount = 1,
         NEW u \in [Paths -> 0 .. m], u[h[id].path] = 0,
         \A q \in Paths \ {h[id].path} : u[q] = t[q]
  PROVE  Sound(generic_unregister(
                 Stripped([h EXCEPT ![id].refcount = @ - 1], t, id), id),
               u, m, mis \cup Displaced(t, h[id].path), r, 0)
<1> USE DEF Sound
<1> DEFINE f == [h EXCEPT ![id].refcount = @ - 1]
           s == Stripped(f, t, id)
           g == generic_unregister(s, id)
           p == h[id].path
<1>1. h \in [Ids -> Object] /\ h[id] \in Object /\ p \in Paths
  BY DEF Shape, Object
<1>2. h[id].live = TRUE
  <2>1. h[id].live
    BY DEF Shape, Freed
  <2> QED BY <1>1, <2>1 DEF Object
<1>3. /\ f \in [Ids -> Object]
      /\ \A i \in Ids \ {id} : f[i] = h[i]
      /\ f[id].live = TRUE /\ f[id].path = p
      /\ f[id].interfaces = h[id].interfaces /\ f[id].objects = h[id].objects
      /\ f[id].added = h[id].added /\ f[id].pending = h[id].pending
      /\ f[id].introspect = h[id].introspect /\ f[id].parent = h[id].parent
  BY <1>1, <1>2 DEF Object
<1> HIDE DEF f, p
<1>4. Shape(f, t, m)
  BY <1>2, <1>3 DEF Shape
<1>5. SameTree(f, h)
  BY <1>2, <1>3 DEF SameTree, p
<1>6. Owned(f, t) /\ Links(f, t, mis) /\ Whole(f)
  <2>1. \A q \in Paths : t[q] # 0 => t[q] \in Ids
    BY OwnIds
  <2>2. \A i \in Ids : h[i].objects \subseteq Ids
    BY <1>1 DEF Object
  <2> QED BY <1>5, <2>1, <2>2, SameTreeKeeps
<1> HIDE DEF s
<1>7. /\ Shape(s, t, m) /\ Owned(s, t) /\ Links(s, t, mis) /\ Whole(s)
      /\ Bared(s, f, t, id)
  BY <1>3, <1>4, <1>6, StrippedIs DEF s
<1>8. ASSUME NEW i \in Ids
      PROVE  /\ s[i].live <=> f[i].live
             /\ s[i].path = f[i].path /\ s[i].refcount = f[i].refcount
             /\ i # id => s[i].interfaces = f[i].interfaces
             /\ i \in Dropped(t, p) => s[i].introspect = None
             /\ i \notin Dropped(t, p) => s[i].introspect = f[i].introspect
  BY <1>3, <1>7 DEF Bared
<1>9. Bare(s, h, t, id)
  BY <1>2, <1>3, <1>8 DEF Bare, p
<1>10. s \in [Ids -> Object]
  BY <1>7 DEF Shape
<1> HIDE DEF g
<1>11. g \in [Ids -> Object] /\ Without(g, s, id)
  BY <1>10, Unregistered DEF g
<1>12. Sound(g, u, m, mis \cup Displaced(t, h[id].path), r, 0)
  <2> HIDE DEF Sound
  <2> QED BY <1>2, <1>7, <1>9, <1>10, <1>11, WithoutSound
<1> QED BY <1>12 DEF g, s, f

-----------------------------------------------------------------------------
(* The calls, in steps *)

(* g is h but for what waits to be announced and what is cached. *)
Dressed(g, h) ==
    \A i \in Ids :
        /\ g[i].live <=> h[i].live
        /\ g[i].path = h[i].path /\ g[i].refcount = h[i].refcount
        /\ g[i].interfaces = h[i].interfaces
        /\ g[i].objects = h[i].objects /\ g[i].parent = h[i].parent
        /\ g[i].added \subseteq h[i].interfaces
        /\ g[i].pending \subseteq h[i].interfaces
        /\ ~h[i].live => g[i] = h[i]

LEMMA DressedKeeps ==
  ASSUME NEW m \in Nat, m <= MaxObjects, NEW h, NEW t,
         Shape(h, t, m), Owned(h, t),
         NEW g \in [Ids -> Object], Dressed(g, h)
  PROVE  /\ Shape(g, t, m) /\ Owned(g, t) /\ (Whole(h) => Whole(g))
         /\ \A mis : Links(h, t, mis) => Links(g, t, mis)
         /\ \A x : Counted(h, x) => Counted(g, x)
         /\ \A r : RootOnly(h, r) => RootOnly(g, r)
<1>1. Shape(g, t, m)
  BY DEF Shape, Dressed
<1>2. SameTree(g, h)
  BY DEF SameTree, Dressed
<1>3. \A p \in Paths : t[p] # 0 => t[p] \in Ids
  BY OwnIds
<1>4. \A i \in Ids : h[i].objects \subseteq Ids
  BY DEF Shape, Object
<1>5. /\ Owned(g, t) /\ (Whole(h) => Whole(g))
      /\ \A mis : Links(h, t, mis) => Links(g, t, mis)
  BY <1>2, <1>3, <1>4, SameTreeKeeps
<1>6. ASSUME NEW x, Counted(h, x)
      PROVE  Counted(g, x)
  <2>1. \A i \in Ids : Clients(g[i]) = Clients(h[i])
    BY DEF Dressed, Clients
  <2> QED BY <1>6, <2>1 DEF Counted, Dressed
<1>7. \A r : RootOnly(h, r) => RootOnly(g, r)
  BY DEF Dressed, RootOnly
<1> QED BY <1>1, <1>5, <1>6, <1>7

(* The cached data of id is replaced by d. *)
LEMMA CacheWrites ==
  ASSUME NEW h \in [Ids -> Object], NEW id \in Ids, NEW d \in Data
  PROVE  LET g == [h EXCEPT ![id].introspect = d]
         IN  /\ g \in [Ids -> Object]
             /\ \A i \in Ids \ {id} : g[i] = h[i]
             /\ g[id].live <=> h[id].live
             /\ g[id].path = h[id].path /\ g[id].refcount = h[id].refcount
             /\ g[id].interfaces = h[id].interfaces /\ g[id].objects = h[id].objects
             /\ g[id].added = h[id].added /\ g[id].pending = h[id].pending
             /\ g[id].parent = h[id].parent /\ g[id].introspect = d
<1> h[id] \in Object
  OBVIOUS
<1> QED BY DEF Object

LEMMA CacheKeeps ==
  ASSUME NEW m \in Nat, m <= MaxObjects, NEW h, NEW t, NEW mis, NEW r, NEW x,
         Shape(h, t, m), Owned(h, t), Links(h, t, mis), Counted(h, x),
         RootOnly(h, r), NEW id \in Ids, Cached(h, t, r, id), h[id].live,
         NEW d \in Data,
         \/ d = None
         \/ d = Xml(h[id].interfaces, NodesAt(t, h[id].path))
  PROVE  LET g == [h EXCEPT ![id].introspect = d]
         IN  /\ Shape(g, t, m) /\ Owned(g, t) /\ (Whole(h) => Whole(g))
             /\ Links(g, t, mis) /\ Counted(g, x) /\ RootOnly(g, r)
             /\ Cached(g, t, r, 0) /\ Dressed(g, h)
<1> DEFINE g == [h EXCEPT ![id].introspect = d]
<1>1. h \in [Ids -> Object] /\ h[id] \in Object
  BY DEF Shape
<1>2. /\ g \in [Ids -> Object]
      /\ \A i \in Ids \ {id} : g[i] = h[i]
      /\ g[id].live <=> h[id].live
      /\ g[id].path = h[id].path /\ g[id].refcount = h[id].refcount
      /\ g[id].interfaces = h[id].interfaces /\ g[id].objects = h[id].objects
      /\ g[id].added = h[id].added /\ g[id].pending = h[id].pending
      /\ g[id].parent = h[id].parent /\ g[id].introspect = d
  BY <1>1, CacheWrites
<1> HIDE DEF g
<1>3. Dressed(g, h)
  BY <1>2 DEF Dressed, Shape
<1>4. Cached(g, t, r, 0)
  BY <1>2 DEF Cached, Truthful
<1>5. /\ Shape(g, t, m) /\ Owned(g, t) /\ (Whole(h) => Whole(g))
      /\ Links(g, t, mis) /\ Counted(g, x) /\ RootOnly(g, r)
  BY <1>2, <1>3, DressedKeeps
<1> QED BY <1>3, <1>4, <1>5 DEF g

(* A reference to the object at p, which is made if there is none. *)
LEMMA RefSound ==
  ASSUME made \in Nat, misplaced \subseteq 1 .. made,
         Sound(heap, tree, made, misplaced, root, 0), Whole(heap),
         NEW p \in Paths,
         (IF tree[p] = 0 THEN made + 1 ELSE made) <= MaxObjects
  PROVE  LET m == IF tree[p] = 0 THEN made + 1 ELSE made
             id == IdAt(p)
             h == object_path_ref(p)
             t == [tree EXCEPT ![p] = id]
             mis == IF tree[p] # 0 THEN misplaced
                    ELSE misplaced \cup Displaced(tree, p)
         IN  /\ m \in Nat /\ id \in Ids /\ id \in 1 .. m
             /\ h[id].live /\ h[id].path = p /\ Whole(h)
             /\ t \in [Paths -> 0 .. m] /\ t[p] = id
             /\ \A q \in Paths \ {p} : t[q] = tree[q]
             /\ Sound(h, t, m, mis, root, id)
             /\ h[id].refcount > 1 => tree[p] # 0 /\ Cached(h, t, root, 0)
             /\ h[id].refcount = 1 => tree[p] = 0
             /\ root = 0 => \/ h[id].introspect = None
                            \/ ObjectManager \notin h[id].introspect.interfaces
<1> DEFINE m == IF tree[p] = 0 THEN made + 1 ELSE made
           id == IdAt(p)
           h == object_path_ref(p)
           t == [tree EXCEPT ![p] = id]
           mis == IF tree[p] # 0 THEN misplaced
                  ELSE misplaced \cup Displaced(tree, p)
<1>1. m \in Nat /\ made <= m /\ id \in 0 .. m /\ tree \in [Paths -> 0 .. made]
  BY DEF IdAt, Sound, Shape
<1>3. m <= MaxObjects
  OBVIOUS
<1> HIDE DEF m, id
<1>2. t \in [Paths -> 0 .. m] /\ t[p] = id /\ \A q \in Paths \ {p} : t[q] = tree[q]
  BY <1>1
<1>6. heap \in [Ids -> Object]
  BY DEF Sound, Shape
<1>4. CASE tree[p] = 0
  <2>1. id = made + 1 /\ m = made + 1
    BY <1>4 DEF IdAt, m, id
  <2>2. mis = misplaced \cup Displaced(tree, p)
    BY <1>4
  <2> HIDE DEF t, mis, h
  <2>3. /\ id \in Ids
        /\ h[id].live /\ h[id].path = p /\ h[id].refcount = 1
        /\ h[id].introspect = Xml({}, {})
        /\ Sound(h, t, m, mis, root, id) /\ (Whole(heap) => Whole(h))
    <3>1. /\ t \in [Paths -> 0 .. made + 1] /\ t[p] = made + 1
          /\ \A q \in Paths \ {p} : t[q] = tree[q]
          /\ made + 1 <= MaxObjects
      BY <1>2, <1>3, <2>1
    <3>2. /\ made + 1 \in Ids
          /\ h[made + 1].live /\ h[made + 1].path = p /\ h[made + 1].refcount = 1
          /\ h[made + 1].introspect = Xml({}, {})
          /\ Sound(h, t, made + 1, mis, root, made + 1)
          /\ Whole(heap) => Whole(h)
      BY <1>4, <2>2, <3>1, RefNew DEF h
    <3> QED BY <2>1, <3>2
  <2>4. ObjectManager \notin Xml({}, {}).interfaces
    BY DEF Xml
  <2>5. id \in 1 .. m
    BY <1>1, <2>3 DEF Ids
  <2> QED BY <1>1, <1>2, <1>4, <2>3, <2>4, <2>5 DEF t, mis, h, m, id
<1>5. CASE tree[p] # 0
  <2> USE DEF Sound
  <2>1. id = tree[p] /\ m = made /\ t = tree /\ mis = misplaced
    BY <1>1, <1>5 DEF IdAt, m, id
  <2>2. id \in Ids /\ id \in 1 .. m /\ heap[id].live /\ heap[id].path = p
    BY <1>1, <1>3, <1>5, <2>1, OwnIds DEF Owned
  <2>3. h = [heap EXCEPT ![id].refcount = @ + 1]
    BY <1>5, <2>1 DEF object_path_ref
  <2> HIDE DEF h
  <2>4. heap[id] \in Object
    BY <1>6, <2>2
  <2>5. /\ h \in [Ids -> Object]
        /\ \A i \in Ids \ {id} : h[i] = heap[i]
        /\ h[id].live <=> heap[id].live
        /\ h[id].path = heap[id].path /\ h[id].refcount = heap[id].refcount + 1
        /\ h[id].interfaces = heap[id].interfaces /\ h[id].objects = heap[id].objects
        /\ h[id].added = heap[id].added /\ h[id].pending = heap[id].pending
        /\ h[id].parent = heap[id].parent /\ h[id].introspect = heap[id].introspect
    BY <1>6, <2>2, <2>3, <2>4 DEF Object
  <2>6. Shape(h, tree, made)
    BY <2>2, <2>5 DEF Shape
  <2>7. SameTree(h, heap)
    BY <2>5 DEF SameTree
  <2>8. Owned(h, tree) /\ Links(h, tree, misplaced) /\ Whole(h)
    <3>1. \A q \in Paths : tree[q] # 0 => tree[q] \in Ids
      BY <1>1, <1>3, <2>1, OwnIds
    <3>2. \A i \in Ids : heap[i].objects \subseteq Ids
      BY <1>6 DEF Object
    <3> QED BY <2>7, <3>1, <3>2, SameTreeKeeps
  <2>9. Counted(h, id)
    <3> SUFFICES ASSUME NEW i \in Ids, h[i].live
                 PROVE  /\ h[i].refcount
                             = Cardinality(Clients(h[i])) + (IF i = id THEN 1 ELSE 0)
                        /\ h[i].refcount > 0
      BY DEF Counted
    <3>1. i # 0 /\ heap[i].live /\ Clients(h[i]) = Clients(heap[i])
      BY <2>5 DEF Ids, Clients
    <3>2. Cardinality(Clients(heap[i])) \in Nat
      BY <1>6, ClientsFinite
    <3>3. heap[i].refcount = Cardinality(Clients(heap[i])) /\ heap[i].refcount > 0
      BY <3>1, <3>2 DEF Counted
    <3>4. CASE i = id
      BY <2>5, <3>1, <3>2, <3>3, <3>4
    <3>5. CASE i # id
      BY <2>5, <3>1, <3>2, <3>3, <3>5
    <3> QED BY <3>4, <3>5
  <2>10. RootOnly(h, root)
    BY <2>5 DEF RootOnly
  <2>11. Cached(h, tree, root, 0) /\ Cached(h, tree, root, id)
    <3> SUFFICES ASSUME NEW i \in Ids, h[i].live
                 PROVE  Truthful(h, tree, root, i)
      BY DEF Cached
    <3>1. /\ heap[i].live /\ i # 0 /\ h[i].introspect = heap[i].introspect
          /\ h[i].interfaces = heap[i].interfaces /\ h[i].path = heap[i].path
      BY <2>5 DEF Ids
    <3>2. Truthful(heap, tree, root, i)
      BY <3>1 DEF Cached
    <3> QED BY <3>1, <3>2 DEF Truthful
  <2>12. h[id].refcount > 1
    <3>1. heap[id].refcount > 0 /\ heap[id].refcount \in Nat
      BY <2>2, <2>4 DEF Counted, Object
    <3> QED BY <2>5, <3>1
  <2>13. root = 0 => \/ h[id].introspect = None
                     \/ ObjectManager \notin h[id].introspect.interfaces
    <3>1. ASSUME root = 0
          PROVE  ObjectManager \notin heap[id].interfaces /\ id # 0
      BY <2>2, <3>1 DEF RootOnly, Ids
    <3>2. id # 0 => Truthful(heap, tree, root, id)
      BY <2>2 DEF Cached
    <3> QED BY <2>5, <3>1, <3>2 DEF Truthful, Xml
  <2>14. Sound(h, tree, made, misplaced, root, id)
    BY <2>6, <2>8, <2>9, <2>10, <2>11
  <2> HIDE DEF Sound, t, mis
  <2>15. m \in Nat /\ h[id].live /\ h[id].path = p /\ h[id].refcount # 1
    BY <1>1, <2>2, <2>5, <2>12
  <2>16. Sound(h, t, m, mis, root, id) /\ Cached(h, t, root, 0) /\ Whole(h)
    BY <2>1, <2>8, <2>11, <2>14
  <2> QED BY <1>2, <1>5, <2>2, <2>13, <2>15, <2>16 DEF t, mis, h, m, id
<1> QED BY <1>4, <1>5

(* Taking one reference from id, whatever that brings.                      *)
LEMMA UnrefSound ==
  ASSUME NEW m \in Nat, m <= MaxObjects, NEW h, NEW t, NEW mis, NEW r, NEW id \in Ids,
         Sound(h, t, m, mis, r, id), Whole(h),
         h[id].refcount > 1 => Cached(h, t, r, 0),
         NEW known, object_path_unref(h, t, id, known)
  PROVE  \/ /\ h[id].refcount > 1
            /\ Sound(heap', tree', m, mis, r, 0)
            /\ misplaced' = misplaced
         \/ /\ h[id].refcount = 1
            /\ Sound(heap', tree', m, mis \cup Displaced(t, h[id].path), r, 0)
            /\ misplaced' = misplaced \cup Displaced(t, h[id].path)
<1> DEFINE p == h[id].path
<1>1. CASE /\ h[id].refcount > 1
           /\ heap' = [h EXCEPT ![id].refcount = @ - 1]
           /\ tree' = t
           /\ misplaced' = misplaced
  BY <1>1, UnrefKeeps
<1>2. CASE /\ h[id].refcount = 1
           /\ heap' = generic_unregister(
                        Stripped([h EXCEPT ![id].refcount = @ - 1], t, id), id)
           /\ tree' = [t EXCEPT ![p] = 0]
           /\ misplaced' = misplaced \cup {t[q] : q \in Below(t, p)}
  <2>1. t \in [Paths -> 0 .. m] /\ p \in Paths
    BY DEF Sound, Shape, Object
  <2>2. /\ tree' \in [Paths -> 0 .. m] /\ tree'[p] = 0
        /\ \A q \in Paths \ {p} : tree'[q] = t[q]
    BY <1>2, <2>1
  <2>3. Sound(heap', tree', m, mis \cup Displaced(t, p), r, 0)
    BY <1>2, <2>2, UnrefFrees
  <2> QED BY <1>2, <2>3 DEF Displaced
<1> QED BY <1>1, <1>2 DEF object_path_unref

(* The invariant.                                                           *)
Inv ==
    /\ made \in 0 .. MaxObjects /\ root \in 0 .. made
    /\ calls \in 0 .. MaxCalls /\ changes \in 0 .. MaxChanges
    /\ misplaced \subseteq 1 .. made
    /\ Sound(heap, tree, made, misplaced, root, 0)

LEMMA IntactWhole ==
  ASSUME Inv, Intact
  PROVE  Whole(heap)
BY DEF Inv, Sound, Shape, Intact, Whole, Freed

(* g is h with a client's interface for the client's reference.             *)
Joined(g, h, t, m, mis, r, id) ==
    /\ Shape(g, t, m) /\ Owned(g, t) /\ Links(g, t, mis)
    /\ Counted(g, 0) /\ RootOnly(g, r) /\ Cached(g, t, r, id)
    /\ g[id].live = TRUE /\ g[id].introspect = h[id].introspect

LEMMA AddClient ==
  ASSUME NEW m \in Nat, m <= MaxObjects, NEW h, NEW t, NEW mis, NEW r, NEW id \in Ids,
         Sound(h, t, m, mis, r, id), h[id].live = TRUE,
         NEW n \in Ifaces \cup {ObjectManager}, n \notin h[id].interfaces
  PROVE  LET g == add_interface(h, id, n)
         IN  /\ n \in Ifaces => Joined(g, h, t, m, mis, r, id)
             /\ n = ObjectManager /\ r = 0 => Joined(g, h, t, m, mis, id, id)
<1> DEFINE g == add_interface(h, id, n)
<1> USE DEF Sound
<1>1. h \in [Ids -> Object] /\ n \in Ifaces \cup Own
  BY DEF Shape, Own
<1>2. n \notin {Introspectable, Properties} \cup h[id].interfaces
  BY ConstAssumption DEF Introspectable, Properties, ObjectManager
<1> HIDE DEF g
<1>3. /\ g \in [Ids -> Object]
      /\ \A i \in Ids \ {id} : g[i] = h[i]
      /\ g[id].interfaces = h[id].interfaces \cup {n}
      /\ (g[id].live <=> h[id].live) /\ g[id].path = h[id].path
      /\ g[id].introspect = h[id].introspect
  BY <1>1, AddWrites DEF g
<1>4. /\ Shape(g, t, m) /\ Owned(g, t)
      /\ Links(g, t, mis)
  BY <1>1, AddKeeps DEF g
<1>5. Counted(g, 0)
  BY <1>1, <1>2, AddCounts DEF g
<1>6. /\ n \in Ifaces => RootOnly(g, r)
      /\ n = ObjectManager /\ r = 0 => RootOnly(g, id)
  <2>1. n \in Ifaces => n # ObjectManager
    BY ConstAssumption
  <2>2. \A i \in Ids : i # 0
    BY DEF Ids
  <2> QED BY <1>3, <2>1, <2>2 DEF RootOnly
<1>7. Cached(g, t, r, id) /\ (r = 0 => Cached(g, t, id, id))
  <2> SUFFICES ASSUME NEW i \in Ids, i # id, g[i].live
               PROVE  Truthful(g, t, r, i) /\ (r = 0 => Truthful(g, t, id, i))
    BY DEF Cached
  <2>1. i # 0 /\ g[i] = h[i]
    BY <1>3 DEF Ids
  <2>2. Truthful(h, t, r, i)
    BY <2>1 DEF Cached
  <2> QED BY <2>1, <2>2 DEF Truthful
<1>8. g[id].live = TRUE
  BY <1>3, <1>1 DEF Object
<1> QED BY <1>3, <1>4, <1>5, <1>6, <1>7, <1>8 DEF g, Joined

-----------------------------------------------------------------------------
(* The actions *)

LEMMA DisplacedSame ==
  ASSUME NEW t, NEW u, NEW p \in Paths, \A q \in Paths \ {p} : u[q] = t[q]
  PROVE  Displaced(u, p) = Displaced(t, p)
<1>1. \A q \in Paths : IsStrictPrefix(p, q) => u[q] = t[q]
  BY DEF IsStrictPrefix
<1>2. Below(u, p) = Below(t, p)
  BY <1>1 DEF Below
<1>3. \A q \in Below(t, p) : u[q] = t[q]
  BY <1>1 DEF Below
<1> QED BY <1>2, <1>3 DEF Displaced

LEMMA DisplacedIds ==
  ASSUME NEW m \in Nat, m <= MaxObjects, NEW h, NEW t,
         Shape(h, t, m), Owned(h, t), NEW p \in Paths
  PROVE  Displaced(t, p) \subseteq 1 .. m
BY OwnIds DEF Displaced, Below

(* The referenced object, in terms of the invariant.                        *)
LEMMA Referenced ==
  ASSUME Inv, Intact, NEW p \in Paths, Made(p)
  PROVE  LET m == IF tree[p] = 0 THEN made + 1 ELSE made
             id == IdAt(p)
             h == object_path_ref(p)
             t == [tree EXCEPT ![p] = id]
             mis == IF tree[p] # 0 THEN misplaced
                    ELSE misplaced \cup Displaced(tree, p)
         IN  /\ made' = m /\ m \in Nat /\ m <= MaxObjects /\ root \in 0 .. m
             /\ id \in Ids /\ id \in 1 .. m /\ mis \subseteq 1 .. m
             /\ h[id].live = TRUE /\ h[id].path = p /\ Whole(h)
             /\ t \in [Paths -> 0 .. m] /\ t[p] = id
             /\ \A q \in Paths \ {p} : t[q] = tree[q]
             /\ Sound(h, t, m, mis, root, id)
             /\ h[id].refcount > 1 => tree[p] # 0 /\ Cached(h, t, root, 0)
             /\ h[id].refcount = 1 => tree[p] = 0
             /\ root = 0 => \/ h[id].introspect = None
                            \/ ObjectManager \notin h[id].introspect.interfaces
<1> DEFINE m == IF tree[p] = 0 THEN made + 1 ELSE made
           id == IdAt(p)
           h == object_path_ref(p)
           t == [tree EXCEPT ![p] = id]
           mis == IF tree[p] # 0 THEN misplaced
                  ELSE misplaced \cup Displaced(tree, p)
<1>0. MaxObjects \in Nat
  BY ConstAssumption
<1>1. made \in Nat /\ misplaced \subseteq 1 .. made
      /\ Sound(heap, tree, made, misplaced, root, 0) /\ root \in 0 .. made
      /\ made <= MaxObjects
  BY <1>0 DEF Inv
<1>2. Whole(heap)
  BY IntactWhole
<1>3. made' = m /\ m \in Nat /\ m <= MaxObjects /\ root \in 0 .. m /\ made <= m
  BY <1>0, <1>1 DEF Made
<1>4. mis \subseteq 1 .. m
  <2>1. Displaced(tree, p) \subseteq 1 .. made
    BY <1>1, DisplacedIds DEF Sound
  <2>2. 1 .. made \subseteq 1 .. m
    BY <1>1, <1>3
  <2> HIDE DEF m
  <2> QED BY <1>1, <2>1, <2>2
<1>5. /\ id \in Ids /\ id \in 1 .. m
      /\ h[id].live /\ h[id].path = p /\ Whole(h)
      /\ t \in [Paths -> 0 .. m] /\ t[p] = id
      /\ \A q \in Paths \ {p} : t[q] = tree[q]
      /\ Sound(h, t, m, mis, root, id)
      /\ h[id].refcount > 1 => tree[p] # 0 /\ Cached(h, t, root, 0)
      /\ h[id].refcount = 1 => tree[p] = 0
      /\ root = 0 => \/ h[id].introspect = None
                     \/ ObjectManager \notin h[id].introspect.interfaces
  BY <1>1, <1>2, <1>3, RefSound, Zenon
<1> HIDE DEF h, t, m, mis, id
<1>6. h[id].live = TRUE
  BY <1>5 DEF Sound, Shape, Object
<1> QED BY <1>3, <1>4, <1>5, <1>6 DEF h, t, m, mis, id

LEMMA Register ==
  ASSUME Inv, Intact, NEW p \in Paths, NEW n \in Ifaces,
         g_dbus_register_interface(p, n)
  PROVE  Inv'
<1> DEFINE m == IF tree[p] = 0 THEN made + 1 ELSE made
           id == IdAt(p)
           h == object_path_ref(p)
           t == [tree EXCEPT ![p] = id]
           mis == IF tree[p] # 0 THEN misplaced
                  ELSE misplaced \cup Displaced(tree, p)
           more == n \in WithProperties /\ Properties \notin h[id].interfaces
           h2 == add_interface(h, id, n)
           h3 == IF more THEN add_interface(h2, id, Properties) ELSE h2
           h4 == [h3 EXCEPT ![id].introspect = None]
<1>1. /\ made' = m /\ m \in Nat /\ m <= MaxObjects /\ root \in 0 .. m
      /\ id \in Ids /\ id \in 1 .. m /\ mis \subseteq 1 .. m
      /\ h[id].live = TRUE /\ h[id].path = p /\ Whole(h)
      /\ t \in [Paths -> 0 .. m] /\ t[p] = id
      /\ \A q \in Paths \ {p} : t[q] = tree[q]
      /\ Sound(h, t, m, mis, root, id)
      /\ h[id].refcount > 1 => tree[p] # 0 /\ Cached(h, t, root, 0)
      /\ h[id].refcount = 1 => tree[p] = 0
  BY Referenced, Zenon DEF g_dbus_register_interface
<1>2. /\ root' = root /\ changes' = changes /\ calls' \in 0 .. MaxCalls
  BY ConstAssumption DEF g_dbus_register_interface, Call, Inv
<1>3. IF n \in h[id].interfaces \cup Experimental
      THEN object_path_unref(h, t, id, view)
      ELSE Kept(p, h4) /\ UNCHANGED view
  BY Zenon DEF g_dbus_register_interface
<1>4. tree[p] # 0 => mis = misplaced
  OBVIOUS
<1>5. tree[p] = 0 => mis = misplaced \cup Displaced(tree, p)
  OBVIOUS
<1>6. t = [tree EXCEPT ![p] = IdAt(p)]
  OBVIOUS
<1> HIDE DEF m, id, h, t, mis, h4
<1>7. Sound(heap', tree', m, misplaced', root, 0) /\ misplaced' \subseteq 1 .. m
  <2>1. CASE n \in h[id].interfaces \cup Experimental
    <3>1. object_path_unref(h, t, id, view)
      BY <1>3, <2>1
    <3>2. \/ /\ h[id].refcount > 1
             /\ Sound(heap', tree', m, mis, root, 0)
             /\ misplaced' = misplaced
          \/ /\ h[id].refcount = 1
             /\ Sound(heap', tree', m, mis \cup Displaced(t, h[id].path), root, 0)
             /\ misplaced' = misplaced \cup Displaced(t, h[id].path)
      BY <1>1, <3>1, UnrefSound
    <3>3. CASE h[id].refcount > 1
      BY <1>1, <1>4, <3>2, <3>3
    <3>4. CASE h[id].refcount = 1
      <4>1. Displaced(t, p) = Displaced(tree, p)
        BY <1>1, DisplacedSame
      <4>2. mis \cup Displaced(t, h[id].path) = mis /\ misplaced' = mis
        BY <1>1, <1>5, <3>2, <3>4, <4>1
      <4> QED BY <1>1, <3>2, <3>4, <4>2
    <3> QED BY <3>2, <3>3, <3>4
  <2>2. CASE n \notin h[id].interfaces \cup Experimental
    <3>1. heap' = h4 /\ tree' = t /\ misplaced' = mis
      BY <1>3, <1>4, <1>5, <1>6, <2>2 DEF Kept, Displaced
    <3>2. /\ Shape(h2, t, m) /\ Owned(h2, t) /\ Links(h2, t, mis)
          /\ Counted(h2, 0) /\ RootOnly(h2, root) /\ Cached(h2, t, root, id)
          /\ h2[id].live = TRUE
      <4>1. n \in Ifaces \cup {ObjectManager} /\ n \notin h[id].interfaces
        BY <2>2
      <4>3. m \in Nat /\ m <= MaxObjects /\ id \in Ids /\ h[id].live = TRUE
            /\ Sound(h, t, m, mis, root, id)
        BY <1>1
      <4>2. Joined(h2, h, t, m, mis, root, id)
        BY <4>1, <4>3, AddClient
      <4> HIDE DEF h2
      <4> QED BY <4>2 DEF Joined
    <3> HIDE DEF h2
    <3>3. /\ Shape(h3, t, m) /\ Owned(h3, t) /\ Links(h3, t, mis)
          /\ Counted(h3, 0) /\ RootOnly(h3, root) /\ Cached(h3, t, root, id)
          /\ h3[id].live = TRUE
      <4>1. CASE ~more
        BY <3>2, <4>1
      <4>2. CASE more
        <5> DEFINE g == add_interface(h2, id, Properties)
        <5>0. h2 \in [Ids -> Object] /\ Properties \in Ifaces \cup Own
              /\ Properties \in {Introspectable, Properties}
              /\ Properties # ObjectManager
          BY <3>2 DEF Shape, Own, Properties, ObjectManager
        <5> HIDE DEF g
        <5>1. /\ g \in [Ids -> Object]
              /\ \A i \in Ids \ {id} : g[i] = h2[i]
              /\ g[id].interfaces = h2[id].interfaces \cup {Properties}
              /\ (g[id].live <=> h2[id].live)
          BY <1>1, <5>0, AddWrites DEF g
        <5>2. Shape(g, t, m) /\ Owned(g, t) /\ Links(g, t, mis)
          BY <1>1, <3>2, <5>0, AddKeeps DEF g
        <5>3. Counted(g, 0)
          BY <1>1, <3>2, <5>0, AddCounts DEF g
        <5>4. RootOnly(g, root)
          BY <3>2, <5>0, <5>1 DEF RootOnly
        <5>5. Cached(g, t, root, id)
          BY <3>2, <5>1 DEF Cached, Truthful
        <5>6. g[id].live = TRUE
          BY <1>1, <3>2, <5>1 DEF Object
        <5> QED BY <4>2, <5>2, <5>3, <5>4, <5>5, <5>6 DEF g
      <4> QED BY <4>1, <4>2
    <3> HIDE DEF h3
    <3>4. None \in Data
      BY DEF Data
    <3>5. Sound(h4, t, m, mis, root, 0)
      BY <1>1, <3>3, <3>4, CacheKeeps DEF h4, Sound
    <3> QED BY <1>1, <3>1, <3>5
  <2> QED BY <2>1, <2>2
<1> QED BY <1>1, <1>2, <1>7, ConstAssumption DEF Inv

LEMMA Attach ==
  ASSUME Inv, Intact, g_dbus_attach_object_manager
  PROVE  Inv'
<1> DEFINE p == Root
           m == IF tree[p] = 0 THEN made + 1 ELSE made
           id == IdAt(p)
           h == object_path_ref(p)
           t == [tree EXCEPT ![p] = id]
           mis == IF tree[p] # 0 THEN misplaced
                  ELSE misplaced \cup Displaced(tree, p)
           g == add_interface(h, id, ObjectManager)
<1>0. p \in Paths
  BY ConstAssumption
<1>1. /\ made' = m /\ m \in Nat /\ m <= MaxObjects
      /\ id \in Ids /\ id \in 1 .. m /\ mis \subseteq 1 .. m
      /\ h[id].live = TRUE
      /\ Sound(h, t, m, mis, root, id)
      /\ root = 0 => \/ h[id].introspect = None
                     \/ ObjectManager \notin h[id].introspect.interfaces
  BY <1>0, Referenced, Zenon DEF g_dbus_attach_object_manager
<1>2. /\ root = 0 /\ root' = id /\ changes' = changes /\ calls' \in 0 .. MaxCalls
  BY ConstAssumption DEF g_dbus_attach_object_manager, Call, Inv
<1>3. heap' = g /\ tree' = t /\ misplaced' = mis
  BY DEF g_dbus_attach_object_manager, Kept, Displaced
<1> HIDE DEF m, id, h, t, mis
<1>4. ObjectManager \notin h[id].interfaces
  BY <1>1, <1>2 DEF Sound, RootOnly, Ids
<1>5. /\ Shape(g, t, m) /\ Owned(g, t) /\ Links(g, t, mis)
      /\ Counted(g, 0) /\ RootOnly(g, id) /\ Cached(g, t, id, id)
      /\ g[id].introspect = h[id].introspect
  <2>1. m \in Nat /\ m <= MaxObjects /\ id \in Ids /\ h[id].live = TRUE
        /\ Sound(h, t, m, mis, root, id)
    BY <1>1, <1>2
  <2>2. ObjectManager \in Ifaces \cup {ObjectManager}
    OBVIOUS
  <2>3. Joined(g, h, t, m, mis, id, id)
    BY <1>2, <1>4, <2>1, <2>2, AddClient
  <2> HIDE DEF g
  <2> QED BY <2>3 DEF Joined
<1> HIDE DEF g
<1>6. Truthful(g, t, id, id)
  BY <1>1, <1>2, <1>5 DEF Truthful
<1>7. Cached(g, t, id, 0)
  BY <1>5, <1>6 DEF Cached
<1>8. Sound(g, t, m, mis, id, 0)
  BY <1>5, <1>7 DEF Sound
<1>9. Sound(heap', tree', m, misplaced', root', 0)
  BY <1>2, <1>3, <1>8
<1> QED BY <1>1, <1>2, <1>3, <1>9, ConstAssumption DEF Inv

(* The object without the interface, which a client's reference outlives. *)
LEMMA Withdrawn ==
  ASSUME Inv, Intact, NEW p \in Paths, NEW n \in Ifaces \cup {ObjectManager},
         unregister_interface(p, n),
         NEW v, \/ n \in Ifaces /\ v = root
                \/ n = ObjectManager /\ v = 0
  PROVE  LET id == tree[p]
             g == [remove_interface(heap, id, n) EXCEPT ![id].introspect = None]
         IN  /\ id \in Ids /\ g[id].path = p /\ g[id].live
             /\ Sound(g, tree, made, misplaced, v, id)
             /\ Cached(g, tree, v, 0) /\ Whole(g)
<1> DEFINE id == tree[p]
           h == remove_interface(heap, id, n)
           g == [h EXCEPT ![id].introspect = None]
<1>1. id # 0 /\ n \in heap[id].interfaces
  BY Zenon DEF unregister_interface
<1>2. made \in Nat /\ made <= MaxObjects /\ misplaced \subseteq 1 .. made
      /\ Sound(heap, tree, made, misplaced, root, 0) /\ Whole(heap)
  BY ConstAssumption, IntactWhole DEF Inv
<1>3. id \in Ids /\ heap[id].live /\ heap[id].path = p
  BY <1>1, <1>2, OwnIds DEF Sound, Owned
<1>4. heap \in [Ids -> Object] /\ n \in Ifaces \cup Own
  BY <1>2 DEF Sound, Shape, Own
<1>5. n \in heap[id].interfaces \ {Introspectable, Properties}
  BY <1>1, ConstAssumption DEF Introspectable, Properties, ObjectManager
<1> HIDE DEF id, h, g
<1>6. /\ h \in [Ids -> Object]
      /\ \A i \in Ids \ {id} : h[i] = heap[i]
      /\ h[id].interfaces = heap[id].interfaces \ {n}
      /\ (h[id].live <=> heap[id].live) /\ h[id].path = heap[id].path
  BY <1>3, <1>4, RemoveWrites DEF h
<1>7. /\ Shape(h, tree, made) /\ Owned(h, tree)
      /\ Links(h, tree, misplaced) /\ Whole(h)
  BY <1>2, <1>3, <1>4, RemoveKeeps DEF h, Sound
<1>8. Counted(h, id)
  BY <1>2, <1>3, <1>4, <1>5, RemoveCounts DEF h, Sound
<1>9. RootOnly(h, v) /\ (v = root \/ id = root)
  <2>1. CASE n \in Ifaces /\ v = root
    BY <1>2, <1>6, <2>1 DEF Sound, RootOnly
  <2>2. CASE n = ObjectManager /\ v = 0
    <3>1. id = root
      BY <1>1, <1>2, <1>3, <2>2 DEF Sound, RootOnly
    <3>2. \A i \in Ids : ObjectManager \notin h[i].interfaces
      <4> TAKE i \in Ids
      <4>1. CASE i = id
        BY <1>6, <2>2, <4>1
      <4>2. CASE i # id
        BY <1>2, <1>6, <3>1, <4>2 DEF Sound, RootOnly
      <4> QED BY <4>1, <4>2
    <3> QED BY <3>1, <3>2 DEF RootOnly
  <2> QED BY <2>1, <2>2
<1>10. Cached(h, tree, v, id)
  <2> SUFFICES ASSUME NEW i \in Ids, i # id, h[i].live
               PROVE  Truthful(h, tree, v, i)
    BY DEF Cached
  <2>1. i # 0 /\ h[i] = heap[i]
    BY <1>6 DEF Ids
  <2>2. Truthful(heap, tree, root, i)
    BY <1>2, <2>1 DEF Sound, Cached
  <2> QED BY <1>9, <2>1, <2>2 DEF Truthful
<1>11. None \in Data /\ h[id].live
  BY <1>3, <1>6 DEF Data
<1>12. /\ Sound(g, tree, made, misplaced, v, id) /\ Cached(g, tree, v, 0)
       /\ Whole(g) /\ g[id].path = p /\ g[id].live
  <2>1. /\ Shape(g, tree, made) /\ Owned(g, tree) /\ Whole(g)
        /\ Links(g, tree, misplaced) /\ Counted(g, id) /\ RootOnly(g, v)
        /\ Cached(g, tree, v, 0) /\ Dressed(g, h)
    BY <1>2, <1>3, <1>7, <1>8, <1>9, <1>10, <1>11, CacheKeeps DEF g
  <2>2. Cached(g, tree, v, id)
    BY <2>1 DEF Cached, Ids
  <2>3. g[id].path = p /\ g[id].live
    BY <1>3, <1>6, <1>11, <2>1 DEF Dressed
  <2> QED BY <2>1, <2>2, <2>3 DEF Sound
<1> QED BY <1>3, <1>12 DEF g, h, id

LEMMA Unregister ==
  ASSUME Inv, Intact, NEW p \in Paths, NEW n \in Ifaces \cup {ObjectManager},
         unregister_interface(p, n),
         NEW v, \/ n \in Ifaces /\ v = root
                \/ n = ObjectManager /\ v = 0
  PROVE  /\ Sound(heap', tree', made, misplaced', v, 0)
         /\ misplaced' \subseteq 1 .. made
<1> DEFINE id == tree[p]
           g == [remove_interface(heap, id, n) EXCEPT ![id].introspect = None]
           known == Hear(view, "PropertiesChanged", p, {n} \cap heap[id].pending)
<1>1. object_path_unref(g, tree, id, known)
  BY Zenon DEF unregister_interface
<1>2. made \in Nat /\ made <= MaxObjects /\ misplaced \subseteq 1 .. made
      /\ Sound(heap, tree, made, misplaced, root, 0)
  BY ConstAssumption DEF Inv
<1>3. /\ id \in Ids /\ g[id].path = p
      /\ Sound(g, tree, made, misplaced, v, id) /\ Cached(g, tree, v, 0)
      /\ Whole(g)
  BY Withdrawn, Zenon
<1>4. Displaced(tree, p) \subseteq 1 .. made
  BY <1>2, DisplacedIds DEF Sound
<1> HIDE DEF id, g, known
<1>5. \/ /\ g[id].refcount > 1
         /\ Sound(heap', tree', made, misplaced, v, 0)
         /\ misplaced' = misplaced
      \/ /\ g[id].refcount = 1
         /\ Sound(heap', tree', made, misplaced \cup Displaced(tree, g[id].path), v, 0)
         /\ misplaced' = misplaced \cup Displaced(tree, g[id].path)
  <2>1. /\ made \in Nat /\ made <= MaxObjects /\ id \in Ids
        /\ Sound(g, tree, made, misplaced, v, id) /\ Whole(g)
        /\ g[id].refcount > 1 => Cached(g, tree, v, 0)
    BY <1>2, <1>3
  <2> QED BY <1>1, <2>1, UnrefSound, Zenon
<1> QED BY <1>2, <1>3, <1>4, <1>5

LEMMA UnregisterInterface ==
  ASSUME Inv, Intact, NEW p \in Paths, NEW n \in Ifaces,
         g_dbus_unregister_interface(p, n)
  PROVE  Inv'
<1>1. unregister_interface(p, n) /\ UNCHANGED <<made, root, changes>>
      /\ calls' \in 0 .. MaxCalls
  BY ConstAssumption DEF g_dbus_unregister_interface, Call, Inv
<1>2. n \in Ifaces \cup {ObjectManager} /\ root = root
  OBVIOUS
<1>3. Sound(heap', tree', made, misplaced', root, 0) /\ misplaced' \subseteq 1 .. made
  BY <1>1, <1>2, Unregister
<1> QED BY <1>1, <1>3 DEF Inv

LEMMA Detach ==
  ASSUME Inv, Intact, g_dbus_detach_object_manager
  PROVE  Inv'
<1>1. /\ unregister_interface(Root, ObjectManager) /\ UNCHANGED <<made, changes>>
      /\ calls' \in 0 .. MaxCalls /\ root' = 0
  BY ConstAssumption DEF g_dbus_detach_object_manager, Call, Inv
<1>2. Root \in Paths /\ ObjectManager \in Ifaces \cup {ObjectManager}
      /\ (ObjectManager = ObjectManager /\ 0 = 0)
  BY ConstAssumption
<1>3. Sound(heap', tree', made, misplaced', 0, 0) /\ misplaced' \subseteq 1 .. made
  BY <1>1, <1>2, Unregister
<1> QED BY <1>1, <1>3, ConstAssumption DEF Inv

(* What waits to be announced changes, and nothing else of the objects. *)
LEMMA Dress ==
  ASSUME Inv, heap' \in [Ids -> Object], Dressed(heap', heap),
         \A i \in Ids : heap'[i].introspect = heap[i].introspect,
         UNCHANGED <<tree, made, root, misplaced>>,
         calls' \in 0 .. MaxCalls, changes' \in 0 .. MaxChanges
  PROVE  Inv'
<1>1. made \in Nat /\ made <= MaxObjects
      /\ Sound(heap, tree, made, misplaced, root, 0)
  BY ConstAssumption DEF Inv
<1>2. /\ Shape(heap', tree, made) /\ Owned(heap', tree)
      /\ Links(heap', tree, misplaced)
      /\ Counted(heap', 0) /\ RootOnly(heap', root)
  BY <1>1, DressedKeeps DEF Sound
<1>3. Cached(heap', tree, root, 0)
  <2> SUFFICES ASSUME NEW i \in Ids \ {0}, heap'[i].live
               PROVE  Truthful(heap', tree, root, i)
    BY DEF Cached
  <2>1. /\ heap[i].live /\ heap'[i].path = heap[i].path
        /\ heap'[i].interfaces = heap[i].interfaces
        /\ heap'[i].introspect = heap[i].introspect
    BY DEF Dressed
  <2>2. Truthful(heap, tree, root, i)
    BY <1>1, <2>1 DEF Sound, Cached
  <2> QED BY <2>1, <2>2 DEF Truthful
<1>4. Sound(heap', tree, made, misplaced, root, 0)
  BY <1>2, <1>3 DEF Sound
<1>5. Sound(heap', tree', made', misplaced', root', 0)
  BY <1>4
<1> QED BY <1>5 DEF Inv

LEMMA PropertyChanged ==
  ASSUME Inv, NEW p \in Paths, NEW n \in Ifaces, g_dbus_emit_property_changed(p, n)
  PROVE  Inv'
<1> DEFINE id == tree[p]
<1>1. /\ n \in WithProperties /\ id # 0 /\ n \in heap[id].interfaces
      /\ heap' = [heap EXCEPT ![id].pending = @ \cup {n}, ![id].idle = TRUE]
      /\ UNCHANGED <<tree, made, root, misplaced>>
      /\ calls' \in 0 .. MaxCalls /\ changes' \in 0 .. MaxChanges
  BY ConstAssumption DEF g_dbus_emit_property_changed, Inv
<1>2. made \in Nat /\ made <= MaxObjects
      /\ Sound(heap, tree, made, misplaced, root, 0)
  BY ConstAssumption DEF Inv
<1>3. id \in Ids /\ heap[id].live /\ heap \in [Ids -> Object]
  BY <1>1, <1>2, OwnIds DEF Sound, Owned, Shape
<1> HIDE DEF id
<1>4. heap[id] \in Object
  BY <1>3
<1>5. /\ heap' \in [Ids -> Object]
      /\ \A i \in Ids \ {id} : heap'[i] = heap[i]
      /\ heap'[id].live = heap[id].live
      /\ heap'[id].path = heap[id].path /\ heap'[id].refcount = heap[id].refcount
      /\ heap'[id].interfaces = heap[id].interfaces
      /\ heap'[id].objects = heap[id].objects /\ heap'[id].parent = heap[id].parent
      /\ heap'[id].added = heap[id].added
      /\ heap'[id].pending = heap[id].pending \cup {n}
      /\ heap'[id].introspect = heap[id].introspect
  BY <1>1, <1>3, <1>4 DEF Object
<1>6. Dressed(heap', heap)
  BY <1>1, <1>2, <1>3, <1>5 DEF Dressed, Sound, Shape
<1>7. \A i \in Ids : heap'[i].introspect = heap[i].introspect
  BY <1>5
<1> QED BY <1>1, <1>5, <1>6, <1>7, Dress

LEMMA ProcessChanges ==
  ASSUME Inv, NEW id \in Ids, process_changes(id)
  PROVE  Inv'
<1>1. /\ heap[id].live /\ heap' = Announced(heap, id)
      /\ UNCHANGED <<tree, made, root, misplaced>>
      /\ calls' \in 0 .. MaxCalls /\ changes' \in 0 .. MaxChanges
  BY DEF process_changes, Inv
<1>2. heap \in [Ids -> Object] /\ Shape(heap, tree, made)
  BY DEF Inv, Sound, Shape
<1>3. heap[id] \in Object
  BY <1>2
<1>4. /\ heap' \in [Ids -> Object]
      /\ \A i \in Ids \ {id} : heap'[i] = heap[i]
      /\ heap'[id].live = heap[id].live
      /\ heap'[id].path = heap[id].path /\ heap'[id].refcount = heap[id].refcount
      /\ heap'[id].interfaces = heap[id].interfaces
      /\ heap'[id].objects = heap[id].objects /\ heap'[id].parent = heap[id].parent
      /\ heap'[id].added \subseteq heap[id].added
      /\ heap'[id].pending = {}
      /\ heap'[id].introspect = heap[id].introspect
  <2>1. CASE Announces(id)
    BY <1>1, <1>2, <1>3, <2>1 DEF Announced, Object
  <2>2. CASE ~Announces(id)
    BY <1>1, <1>2, <1>3, <2>2 DEF Announced, Object
  <2> QED BY <2>1, <2>2
<1>5. Dressed(heap', heap)
  BY <1>1, <1>2, <1>4 DEF Dressed, Shape
<1>6. \A i \in Ids : heap'[i].introspect = heap[i].introspect
  BY <1>4
<1> QED BY <1>1, <1>4, <1>5, <1>6, Dress

LEMMA ContentData ==
  ASSUME NEW id \in Ids, heap[id] \in Object, NEW m \in Nat, tree \in [Paths -> 0 .. m]
  PROVE  /\ Content(id) \in Data
         /\ Content(id) = Xml(heap[id].interfaces, NodesAt(tree, heap[id].path))
<1>1. heap[id].path \in Paths /\ heap[id].interfaces \subseteq Ifaces \cup Own
  BY DEF Object
<1>2. NodesAt(tree, heap[id].path) \subseteq Elements
  <2> DEFINE p == heap[id].path
  <2> SUFFICES ASSUME NEW q \in Below(tree, p)
               PROVE  q[Len(p) + 1] \in Elements
    BY DEF NodesAt
  <2>1. q \in Paths /\ IsStrictPrefix(p, q) /\ p \in Paths
    BY <1>1 DEF Below
  <2> HIDE DEF p
  <2>2. Len(p) \in Nat /\ Len(q) \in Nat /\ Len(p) < Len(q)
    BY <2>1, StrictlyLonger
  <2>3. q \in Seq(Range(q))
    BY <2>1, ConstAssumption
  <2>4. DOMAIN q = 1 .. Len(q)
    BY <2>3, LenProperties
  <2>5. Len(p) + 1 \in DOMAIN q
    BY <2>2, <2>4
  <2>6. q[Len(p) + 1] \in Range(q)
    BY <2>5 DEF Range
  <2> QED BY <2>1, <2>6 DEF Elements
<1>3. Content(id) = Xml(heap[id].interfaces, NodesAt(tree, heap[id].path))
  BY DEF Content, Nodes, NodesAt
<1> QED BY <1>1, <1>2, <1>3 DEF Xml, Data

LEMMA Introspected ==
  ASSUME Inv, NEW p \in Paths, introspect(p)
  PROVE  Inv'
<1> DEFINE id == tree[p]
           d == Content(id)
<1>1. /\ id # 0
      /\ heap' = [heap EXCEPT ![id].introspect = d]
      /\ UNCHANGED <<tree, made, root, misplaced, calls, changes>>
  BY DEF introspect
<1>2. made \in Nat /\ made <= MaxObjects
      /\ Sound(heap, tree, made, misplaced, root, 0)
  BY ConstAssumption DEF Inv
<1>3. /\ id \in Ids /\ heap[id].live /\ heap[id] \in Object
      /\ tree \in [Paths -> 0 .. made]
  BY <1>1, <1>2, OwnIds DEF Sound, Owned, Shape
<1> HIDE DEF id
<1>4. d \in Data /\ d = Xml(heap[id].interfaces, NodesAt(tree, heap[id].path))
  BY <1>2, <1>3, ContentData
<1> HIDE DEF d
<1>5. Cached(heap, tree, root, id)
  BY <1>2 DEF Sound, Cached, Ids
<1> DEFINE g == [heap EXCEPT ![id].introspect = d]
<1>6. /\ Shape(g, tree, made) /\ Owned(g, tree)
      /\ Links(g, tree, misplaced) /\ Counted(g, 0) /\ RootOnly(g, root)
      /\ Cached(g, tree, root, 0)
  BY <1>2, <1>3, <1>4, <1>5, CacheKeeps DEF Sound
<1> HIDE DEF g
<1>7. Sound(heap', tree', made', misplaced', root', 0)
  <2>1. Sound(g, tree, made, misplaced, root, 0)
    BY <1>6 DEF Sound
  <2>2. heap' = g
    BY <1>1 DEF g
  <2> QED BY <1>1, <2>1, <2>2
<1> QED BY <1>1, <1>7 DEF Inv

LEMMA Same ==
  ASSUME Inv, UNCHANGED <<tree, heap, made, root, calls, changes, misplaced>>
  PROVE  Inv'
<1>1. heap' \in [Ids -> Object]
  BY DEF Inv, Sound, Shape
<1>2. Dressed(heap', heap)
  BY DEF Dressed, Inv, Sound, Shape
<1>3. calls' \in 0 .. MaxCalls /\ changes' \in 0 .. MaxChanges
  BY DEF Inv
<1> QED BY <1>1, <1>2, <1>3, Dress

LEMMA GetObjects ==
  ASSUME Inv, get_objects
  PROVE  Inv'
BY Same DEF get_objects

-----------------------------------------------------------------------------
(* The theorems *)

LEMMA Initially ==
  ASSUME Init
  PROVE  Inv
<1>1. /\ tree = [p \in Paths |-> 0] /\ heap = [id \in Ids |-> Freed]
      /\ made = 0 /\ root = 0 /\ calls = 0 /\ changes = 0 /\ misplaced = {}
  BY DEF Init
<1>2. Freed \in Object /\ ~Freed.live /\ Freed.interfaces = {} /\ Freed.added = {}
      /\ Freed.pending = {} /\ Freed.objects = {} /\ Freed.parent = 0
  BY ConstAssumption DEF Freed, Object, Data
<1>3. \A id \in Ids : heap[id] = Freed /\ ~heap[id].live
  BY <1>1, <1>2
<1>4. Shape(heap, tree, 0)
  BY <1>1, <1>2, <1>3 DEF Shape
<1>5. Owned(heap, tree) /\ Counted(heap, 0) /\ RootOnly(heap, 0)
      /\ Cached(heap, tree, 0, 0)
  BY <1>1, <1>2, <1>3 DEF Owned, Counted, RootOnly, Cached
<1>6. Links(heap, tree, {})
  BY <1>2, <1>3 DEF Links, Whole
<1>7. Sound(heap, tree, 0, {}, 0, 0)
  BY <1>4, <1>5, <1>6 DEF Sound
<1>8. Sound(heap, tree, made, misplaced, root, 0)
  BY <1>1, <1>7
<1> QED BY <1>1, <1>8, ConstAssumption DEF Inv

LEMMA Step ==
  ASSUME Inv, [Next]_vars
  PROVE  Inv'
<1>1. CASE UNCHANGED vars
  BY <1>1, Same DEF vars
<1>2. CASE Intact /\ Client
  <2>1. CASE \E p \in Paths, n \in Ifaces : g_dbus_register_interface(p, n)
    BY <1>2, <2>1, Register
  <2>2. CASE \E p \in Paths, n \in Ifaces : g_dbus_unregister_interface(p, n)
    BY <1>2, <2>2, UnregisterInterface
  <2>3. CASE \E p \in Paths, n \in Ifaces : g_dbus_emit_property_changed(p, n)
    BY <2>3, PropertyChanged
  <2>4. CASE g_dbus_attach_object_manager
    BY <1>2, <2>4, Attach
  <2>5. CASE g_dbus_detach_object_manager
    BY <1>2, <2>5, Detach
  <2> QED BY <1>2, <2>1, <2>2, <2>3, <2>4, <2>5 DEF Client
<1>3. CASE Intact /\ MainLoop
  <2>1. CASE \E id \in Ids : process_changes(id)
    BY <2>1, ProcessChanges
  <2>2. CASE \E p \in Paths : introspect(p)
    BY <2>2, Introspected
  <2>3. CASE get_objects
    BY <2>3, GetObjects
  <2> QED BY <1>3, <2>1, <2>2, <2>3 DEF MainLoop
<1> QED BY <1>1, <1>2, <1>3 DEF Next

(* The invariant holds of whatever clients and the main loop do.            *)
THEOREM Invariance == Spec => []Inv
<1>1. Init => Inv
  BY Initially
<1>2. Inv /\ [Next]_vars => Inv'
  BY Step
<1> QED BY <1>1, <1>2, PTL DEF Spec

LEMMA InvTypes ==
  ASSUME Inv
  PROVE  TypeOK
<1>1. /\ Shape(heap, tree, made) /\ Counted(heap, 0) /\ made \in Nat
      /\ made <= MaxObjects /\ misplaced \subseteq 1 .. made
      /\ MaxObjects \in Nat
  BY ConstAssumption DEF Inv, Sound
<1>2. ASSUME NEW id \in Ids
      PROVE  /\ heap[id].path \in Paths
             /\ {heap[id].live, heap[id].idle} \subseteq BOOLEAN
             /\ heap[id].interfaces \cup heap[id].removed \subseteq Ifaces \cup Own
             /\ heap[id].added \subseteq heap[id].interfaces
             /\ heap[id].pending \subseteq heap[id].interfaces \cap WithProperties
             /\ heap[id].objects \subseteq Ids /\ heap[id].parent \in 0 .. made
             /\ ~heap[id].live => heap[id] = Freed
  <2>1. heap[id] \in Object
    BY <1>1 DEF Shape
  <2> QED BY <1>1, <2>1 DEF Shape, Object
<1>3. ASSUME NEW id \in Ids
      PROVE  heap[id].refcount \in 0 .. Cardinality(Ifaces) + 1
  <2>1. heap[id] \in Object /\ id # 0
    BY <1>1 DEF Shape, Ids
  <2>2. /\ Cardinality(Clients(heap[id])) \in Nat
        /\ Cardinality(Clients(heap[id])) <= Cardinality(Ifaces) + 1
    BY <2>1, ClientsFinite
  <2>3. Cardinality(Ifaces) \in Nat
    BY ConstAssumption, FS_CardinalityType
  <2>4. CASE heap[id].live
    <3>1. heap[id].refcount = Cardinality(Clients(heap[id])) + 0
      BY <1>1, <2>1, <2>4 DEF Counted
    <3> QED BY <2>2, <2>3, <3>1
  <2>5. CASE ~heap[id].live
    <3>1. heap[id].refcount = 0
      BY <1>1, <2>5 DEF Shape, Freed
    <3> QED BY <2>3, <3>1
  <2> QED BY <2>4, <2>5
<1>4. misplaced \subseteq Ids
  BY <1>1 DEF Ids
<1>5. tree \in [Paths -> 0 .. made]
  BY <1>1 DEF Shape
<1> QED BY <1>2, <1>3, <1>4, <1>5 DEF TypeOK, Inv

(* The variables have their types: no object holds more references than     *)
(* clients can have interfaces, what is to be announced is of interfaces    *)
(* the object has, and what was freed is not written to.                    *)
THEOREM TypeCorrect == Spec => []TypeOK
<1>1. Inv => TypeOK
  BY InvTypes
<1> QED BY <1>1, Invariance, PTL

LEMMA InvTree ==
  ASSUME Inv
  PROVE  TreeConsistent
<1>1. Shape(heap, tree, made) /\ Owned(heap, tree) /\ Counted(heap, 0)
      /\ Links(heap, tree, misplaced)
  BY DEF Inv, Sound
<1>2. ASSUME NEW id \in Ids, heap[id].live
      PROVE  /\ tree[heap[id].path] = id
             /\ heap[id].refcount = Cardinality(Clients(heap[id]))
             /\ Clients(heap[id]) # {}
  <2>1. heap[id] \in Object /\ id # 0
    BY <1>1 DEF Shape, Ids
  <2>2. /\ Cardinality(Clients(heap[id])) \in Nat
        /\ Cardinality(Clients(heap[id])) = 0 <=> Clients(heap[id]) = {}
    BY <2>1, ClientsFinite
  <2>3. /\ heap[id].refcount = Cardinality(Clients(heap[id])) + 0
        /\ heap[id].refcount > 0
    BY <1>1, <1>2, <2>1 DEF Counted
  <2>4. heap[id].refcount = Cardinality(Clients(heap[id])) /\ Clients(heap[id]) # {}
    BY <2>2, <2>3
  <2> QED BY <1>1, <1>2, <2>4 DEF Owned
<1>3. OnePerInterface
  BY <1>1, <1>2 DEF OnePerInterface, Owned, Clients
<1>4. LinksAgree
  BY <1>1 DEF LinksAgree, Links, Agrees, Whole
<1> QED BY <1>3, <1>4 DEF TreeConsistent

(* Whatever clients register and unregister, refused registrations          *)
(* included, an object is there exactly while one of them has an interface  *)
(* at its path, with one reference for each, and is linked to the closest   *)
(* object above it, unless one came or went above it since.                 *)
THEOREM TreeCorrect == Spec => []TreeConsistent
<1>1. Inv => TreeConsistent
  BY InvTree
<1> QED BY <1>1, Invariance, PTL

LEMMA InvIntrospect ==
  ASSUME Inv
  PROVE  IntrospectAccurate
<1>1. Cached(heap, tree, root, 0)
  BY DEF Inv, Sound
<1> SUFFICES ASSUME NEW id \in Ids, heap[id].live
             PROVE  \/ heap[id].introspect = None
                    \/ heap[id].introspect = Content(id)
                    \/ /\ id = root
                       /\ ObjectManager \notin heap[id].introspect.interfaces
  BY DEF IntrospectAccurate
<1>2. id # 0
  BY DEF Ids
<1>3. Truthful(heap, tree, root, id)
  BY <1>1, <1>2 DEF Cached
<1>4. Content(id) = Xml(heap[id].interfaces, NodesAt(tree, heap[id].path))
  BY DEF Content, Nodes, NodesAt
<1> QED BY <1>3, <1>4 DEF Truthful

(* No sequence of registrations and removals, at the object's own path or   *)
(* below, leaves an object that answers Introspect with what is no longer   *)
(* so; but the one the manager is attached to may not mention it.           *)
THEOREM IntrospectCorrect == Spec => []IntrospectAccurate
<1>1. Inv => IntrospectAccurate
  BY InvIntrospect
<1> QED BY <1>1, Invariance, PTL

-----------------------------------------------------------------------------
(* What the listener knows                                                 *)
(*                                                                         *)
(* Of each path, what it has is there or is about to be taken back, and    *)
(* what is there it has, or will have.  Both but for what crossed; the     *)
(* second where nothing came or went above, for only those objects are in  *)
(* the answer to GetManagedObjects.                                        *)

Entry(p, n) == [path |-> p, name |-> n, value |-> Value(p, n)]

Known(v, p, n) == {e \in v : e.path = p /\ e.name = n}

Around(t, p) == {t[q] : q \in Above(t, p) \cup {p}}

(* Nothing came or went above the object at p, nor above those above it.    *)
Steady(mis, t, p) == mis \cap Around(t, p) = {}

(* What waits in an object.  An interface that was removed and is there     *)
(* again waits to be announced: the object has had a parent all along.      *)
Waits(h, mis, id) ==
    /\ h[id].pending # {} => h[id].idle
    /\ id \notin mis => /\ h[id].parent = 0 => h[id].removed = {}
                        /\ h[id].removed \cap h[id].interfaces \subseteq h[id].added

(* Nothing the listener has of p is stale, but what will be taken back.     *)
FreshAt(h, t, v, x, p) ==
    \A e \in v : e.path = p /\ <<p, e.name>> \notin x =>
        /\ t[p] # 0
        /\ \/ e.name \in h[t[p]].interfaces
           \/ e.name \in h[t[p]].removed /\ h[t[p]].idle

(* Nothing at p is missed, but what will be announced.                      *)
CompleteAt(h, t, mis, v, x, p) ==
    t[p] # 0 /\ Steady(mis, t, p) =>
      \A n \in h[t[p]].interfaces : <<p, n>> \notin x =>
          \/ n \in h[t[p]].added /\ h[t[p]].idle
          \/ Known(v, p, n) = {Entry(p, n)}
          \/ n \in h[t[p]].pending /\ Known(v, p, n) # {}

(* The manager's own interface keeps its object. *)
Managed(h, t, r) == r # 0 => t[Root] = r /\ ObjectManager \in h[r].interfaces

Mirrored(h, t, mis, r, v, x) ==
    /\ \A id \in Ids : h[id].live => Waits(h, mis, id)
    /\ Managed(h, t, r)
    /\ r # 0 => \A p \in Paths \ {Root} :
                  FreshAt(h, t, v, x, p) /\ CompleteAt(h, t, mis, v, x, p)

(* Objects of which the listener is told the same. *)
Alike(a, b) ==
    /\ a.live <=> b.live
    /\ a.path = b.path /\ a.interfaces = b.interfaces
    /\ a.added = b.added /\ a.removed = b.removed
    /\ a.pending = b.pending /\ (a.idle <=> b.idle)

LEMMA RootAbove ==
  ASSUME NEW p \in Paths \ {Root}
  PROVE  IsStrictPrefix(Root, p)
<1>1. p \in Seq(Range(p))
  BY ConstAssumption
<1>2. Len(p) \in Nat /\ Len(Root) = 0
  BY <1>1, LenProperties DEF Root
<1>3. SubSeq(p, 1, 0) = << >> /\ SubSeq(Root, 1, 0) = << >>
  BY <1>1 DEF Root
<1> QED BY <1>2, <1>3 DEF IsStrictPrefix, IsPrefix, Root

(* With the manager attached, nothing but "/" is without a parent. *)
LEMMA ParentThere ==
  ASSUME NEW m \in Nat, NEW h, NEW t, NEW mis, NEW id \in Ids,
         Shape(h, t, m), Links(h, t, mis),
         h[id].live, id \notin mis, h[id].path # Root, t[Root] # 0
  PROVE  h[id].parent # 0
<1>1. h[id].path \in Paths \ {Root} /\ Root \in Paths
  BY ConstAssumption DEF Shape, Object
<1>2. Root \in Above(t, h[id].path)
  BY <1>1, RootAbove DEF Above
<1>3. h[id].parent = Parent(t, h[id].path)
  BY DEF Links, Agrees
<1>4. PICK q \in Above(t, h[id].path) : Parent(t, h[id].path) = t[q]
  BY <1>1, <1>2, ParentAbove
<1> QED BY <1>3, <1>4 DEF Above

(* Of u and t, with what was misplaced before and after, the path p is the  *)
(* one where an object may have come or gone.                               *)
TreeApart(u, t, p, mis, nm) ==
    /\ mis \subseteq nm
    /\ \A q \in Paths \ {p} : u[q] = t[q]
    /\ u[p] = t[p] \/ Displaced(t, p) \subseteq nm

(* The object id is the one that differs, *)
HeapApart(g, h, id, nm) ==
    \A i \in Ids \ {id} :
        /\ Alike(g[i], h[i])
        /\ g[i].live /\ i \notin nm => g[i].parent = h[i].parent

(* and what the listener knows of p, *)
SeenApart(w, v, p) == \A e : e.path # p => (e \in w <=> e \in v)

(* and what crossed there. *)
CrossedApart(y, x, p) ==
    \A q \in Paths \ {p} : \A n : <<q, n>> \in y <=> <<q, n>> \in x

(* The object id is at no other path than p.                                *)
Placed(t, p, id) ==
    /\ \A q \in Paths : t[q] # 0 => t[q] \in Ids
    /\ \A q \in Paths \ {p} : t[q] # id

MirroredAt(h, t, mis, r, v, x, p) ==
    r # 0 /\ p # Root => FreshAt(h, t, v, x, p) /\ CompleteAt(h, t, mis, v, x, p)

(* Where nothing came or went above, the parent stays.                      *)
LEMMA ParentStays ==
  ASSUME NEW h, NEW g, NEW t, NEW u, NEW mis, NEW nm, NEW p \in Paths,
         Links(h, t, mis), Links(g, u, nm), TreeApart(u, t, p, mis, nm),
         NEW i \in Ids, h[i].live, g[i].live, i \notin nm,
         NEW q \in Paths, h[i].path = q, g[i].path = q, t[q] = i
  PROVE  g[i].parent = h[i].parent
<1>0. i \notin mis
  BY DEF TreeApart
<1>1. h[i].parent = Parent(t, q) /\ g[i].parent = Parent(u, q)
  BY <1>0 DEF Links, Agrees
<1>2. \A r \in Paths : IsStrictPrefix(r, q) => t[r] = u[r]
  <2>1. i # 0
    BY DEF Ids
  <2>2. CASE u[p] = t[p]
    BY <2>2 DEF TreeApart
  <2>3. CASE Displaced(t, p) \subseteq nm
    <3>1. ~IsStrictPrefix(p, q)
      BY <2>1, <2>3 DEF Displaced, Below
    <3> QED BY <3>1 DEF TreeApart
  <2> QED BY <2>2, <2>3 DEF TreeApart
<1>3. Parent(t, q) = Parent(u, q)
  BY <1>2, ParentSame
<1> QED BY <1>1, <1>3

LEMMA AroundStays ==
  ASSUME NEW t, NEW u, NEW mis, NEW nm, NEW p \in Paths, NEW q \in Paths,
         q # p, t[q] # 0, TreeApart(u, t, p, mis, nm), Steady(nm, u, q)
  PROVE  Steady(mis, t, q)
<1>1. u[q] \in Around(u, q) /\ u[q] = t[q]
  BY DEF Around, TreeApart
<1>2. t[q] \notin nm
  BY <1>1 DEF Steady
<1>3. \A r \in Paths : IsStrictPrefix(r, q) => t[r] = u[r]
  <2>1. CASE u[p] = t[p]
    BY <2>1 DEF TreeApart
  <2>2. CASE Displaced(t, p) \subseteq nm
    <3>1. ~IsStrictPrefix(p, q)
      BY <1>2, <2>2 DEF Displaced, Below
    <3> QED BY <3>1 DEF TreeApart
  <2> QED BY <2>1, <2>2 DEF TreeApart
<1>4. Above(t, q) = Above(u, q)
  BY <1>3 DEF Above
<1>5. \A r \in Above(t, q) \cup {q} : t[r] = u[r]
  BY <1>1, <1>3 DEF Above
<1>6. Around(t, q) = Around(u, q)
  BY <1>4, <1>5 DEF Around
<1> QED BY <1>6 DEF Steady, TreeApart

(* Nothing changes at a path where nothing happens. *)
LEMMA Elsewhere ==
  ASSUME NEW h, NEW g, NEW t, NEW u, NEW mis, NEW nm, NEW v, NEW w, NEW x, NEW y,
         NEW p \in Paths, NEW q \in Paths, q # p,
         TreeApart(u, t, p, mis, nm),
         t[q] # 0 => Alike(g[t[q]], h[t[q]]),
         SeenApart(w, v, p), CrossedApart(y, x, p)
  PROVE  /\ FreshAt(h, t, v, x, q) => FreshAt(g, u, w, y, q)
         /\ CompleteAt(h, t, mis, v, x, q) => CompleteAt(g, u, nm, w, y, q)
<1>0. u[q] = t[q]
  BY DEF TreeApart
<1>1. ASSUME FreshAt(h, t, v, x, q)
      PROVE  FreshAt(g, u, w, y, q)
  <2> SUFFICES ASSUME NEW e \in w, e.path = q, <<q, e.name>> \notin y
               PROVE  /\ u[q] # 0
                      /\ \/ e.name \in g[u[q]].interfaces
                         \/ e.name \in g[u[q]].removed /\ g[u[q]].idle
    BY DEF FreshAt
  <2>1. e \in v /\ <<q, e.name>> \notin x
    BY DEF SeenApart, CrossedApart
  <2> QED BY <1>0, <1>1, <2>1 DEF FreshAt, Alike
<1>2. ASSUME CompleteAt(h, t, mis, v, x, q)
      PROVE  CompleteAt(g, u, nm, w, y, q)
  <2> SUFFICES ASSUME u[q] # 0, Steady(nm, u, q),
                      NEW n \in g[u[q]].interfaces, <<q, n>> \notin y
               PROVE  \/ n \in g[u[q]].added /\ g[u[q]].idle
                      \/ Known(w, q, n) = {Entry(q, n)}
                      \/ n \in g[u[q]].pending /\ Known(w, q, n) # {}
    BY DEF CompleteAt
  <2>1. Steady(mis, t, q)
    <3>1. t[q] # 0
      BY <1>0
    <3> QED BY <3>1, AroundStays
  <2>2. Known(w, q, n) = Known(v, q, n)
    BY DEF Known, SeenApart
  <2>3. Alike(g[t[q]], h[t[q]])
    BY <1>0
  <2>4. n \in h[t[q]].interfaces /\ <<q, n>> \notin x
    BY <1>0, <2>3 DEF Alike, CrossedApart
  <2>5. \/ n \in h[t[q]].added /\ h[t[q]].idle
        \/ Known(v, q, n) = {Entry(q, n)}
        \/ n \in h[t[q]].pending /\ Known(v, q, n) # {}
    BY <1>0, <1>2, <2>1, <2>4 DEF CompleteAt
  <2> QED BY <1>0, <2>2, <2>3, <2>5 DEF Alike
<1> QED BY <1>1, <1>2

(* One object changes, and what the listener knows of its path. *)
LEMMA ChangedAt ==
  ASSUME NEW h, NEW g, NEW t, NEW u, NEW mis, NEW nm, NEW v, NEW w, NEW x, NEW y,
         NEW r, NEW p \in Paths, NEW id \in Ids,
         Mirrored(h, t, mis, r, v, x), Placed(t, p, id),
         TreeApart(u, t, p, mis, nm), HeapApart(g, h, id, nm),
         SeenApart(w, v, p), CrossedApart(y, x, p),
         Waits(g, nm, id), Managed(g, u, r), MirroredAt(g, u, nm, r, w, y, p)
  PROVE  Mirrored(g, u, nm, r, w, y)
<1>1. ASSUME NEW i \in Ids, g[i].live
      PROVE  Waits(g, nm, i)
  <2>1. CASE i = id
    BY <1>1, <2>1
  <2>2. CASE i # id
    <3>1. Alike(g[i], h[i]) /\ (i \notin nm => g[i].parent = h[i].parent)
      BY <1>1, <2>2 DEF HeapApart
    <3>2. Waits(h, mis, i)
      BY <1>1, <3>1 DEF Mirrored, Alike
    <3> QED BY <3>1, <3>2 DEF Waits, Alike, TreeApart
  <2> QED BY <2>1, <2>2
<1>2. ASSUME r # 0, NEW q \in Paths \ {Root}
      PROVE  FreshAt(g, u, w, y, q) /\ CompleteAt(g, u, nm, w, y, q)
  <2>1. CASE q = p
    BY <1>2, <2>1 DEF MirroredAt
  <2>2. CASE q # p
    <3>1. FreshAt(h, t, v, x, q) /\ CompleteAt(h, t, mis, v, x, q)
      BY <1>2 DEF Mirrored
    <3>2. t[q] # 0 => Alike(g[t[q]], h[t[q]])
      BY <2>2 DEF Placed, HeapApart
    <3> QED BY <2>2, <3>1, <3>2, Elsewhere
  <2> QED BY <2>1, <2>2
<1> QED BY <1>1, <1>2 DEF Mirrored

(* The tree being the same. *)
LEMMA ChangedIn ==
  ASSUME NEW h, NEW g, NEW t, NEW mis, NEW v, NEW w, NEW x, NEW y,
         NEW r, NEW p \in Paths, NEW id \in Ids,
         Mirrored(h, t, mis, r, v, x), Placed(t, p, id),
         HeapApart(g, h, id, mis), SeenApart(w, v, p), CrossedApart(y, x, p),
         Waits(g, mis, id), Managed(g, t, r), MirroredAt(g, t, mis, r, w, y, p)
  PROVE  Mirrored(g, t, mis, r, w, y)
<1>1. TreeApart(t, t, p, mis, mis)
  BY DEF TreeApart
<1> QED BY <1>1, ChangedAt

(* The same by name. *)
LEMMA FreshNames ==
  ASSUME NEW h, NEW t, NEW v, NEW x, NEW p
  PROVE  FreshAt(h, t, v, x, p) <=>
         \A n : Known(v, p, n) # {} /\ <<p, n>> \notin x =>
            /\ t[p] # 0
            /\ \/ n \in h[t[p]].interfaces
               \/ n \in h[t[p]].removed /\ h[t[p]].idle
<1>1. ASSUME NEW e \in v, e.path = p
      PROVE  Known(v, p, e.name) # {}
  BY <1>1 DEF Known
<1>2. \A n : Known(v, p, n) # {} => \E e \in v : e.path = p /\ e.name = n
  BY DEF Known
<1> QED BY <1>1, <1>2 DEF FreshAt

-----------------------------------------------------------------------------
(* What a signal tells *)

LEMMA EntryOf ==
  ASSUME NEW p, NEW ns
  PROVE  /\ \A e \in Entries(p, ns) : e.path = p /\ e.name \in ns
                                      /\ e = Entry(p, e.name)
         /\ \A n \in ns : Entry(p, n) \in Entries(p, ns)
         /\ \A n : Entry(p, n).path = p /\ Entry(p, n).name = n
BY DEF Entries, Entry

LEMMA HearAdded ==
  ASSUME NEW v, NEW p, NEW ns,
         NEW w, w = Hear(v, "InterfacesAdded", p, ns)
  PROVE  /\ SeenApart(w, v, p)
         /\ \A n \in ns : Known(w, p, n) = {Entry(p, n)}
         /\ \A n : n \notin ns => Known(w, p, n) = Known(v, p, n)
<1>1. w = (v \ {e \in v : e.path = p /\ e.name \in ns}) \cup Entries(p, ns)
  BY DEF Hear
<1>2. SeenApart(w, v, p)
  BY <1>1, EntryOf DEF SeenApart
<1>3. \A n \in ns : Known(w, p, n) = {Entry(p, n)}
  BY <1>1, EntryOf DEF Known
<1>4. \A n : n \notin ns => Known(w, p, n) = Known(v, p, n)
  BY <1>1, EntryOf DEF Known
<1> QED BY <1>2, <1>3, <1>4

LEMMA HearRemoved ==
  ASSUME NEW v, NEW p, NEW ns,
         NEW w, w = Hear(v, "InterfacesRemoved", p, ns)
  PROVE  /\ SeenApart(w, v, p)
         /\ \A n \in ns : Known(w, p, n) = {}
         /\ \A n : n \notin ns => Known(w, p, n) = Known(v, p, n)
<1>1. w = v \ {e \in v : e.path = p /\ e.name \in ns}
  BY DEF Hear
<1> QED BY <1>1 DEF Known, SeenApart

LEMMA HearChanged ==
  ASSUME NEW v, NEW p, NEW ns,
         NEW w, w = Hear(v, "PropertiesChanged", p, ns)
  PROVE  /\ SeenApart(w, v, p)
         /\ \A n \in ns : Known(v, p, n) # {} => Known(w, p, n) = {Entry(p, n)}
         /\ \A n \in ns : Known(v, p, n) = {} => Known(w, p, n) = {}
         /\ \A n : n \notin ns => Known(w, p, n) = Known(v, p, n)
<1> DEFINE named == {e \in v : e.path = p /\ e.name \in ns}
           told == {e \in Entries(p, ns) : \E k \in named : k.name = e.name}
<1>1. w = (v \ named) \cup told
  BY DEF Hear
<1>2. SeenApart(w, v, p)
  BY <1>1, EntryOf DEF SeenApart
<1>3. ASSUME NEW n \in ns, Known(v, p, n) # {}
      PROVE  Known(w, p, n) = {Entry(p, n)}
  <2>1. PICK k \in v : k.path = p /\ k.name = n
    BY <1>3 DEF Known
  <2>2. Entry(p, n) \in told
    BY <2>1, EntryOf
  <2>3. \A e \in told : e.name = n => e = Entry(p, n)
    BY EntryOf
  <2>4. \A e \in v \ named : ~ (e.path = p /\ e.name = n)
    OBVIOUS
  <2>5. \A e : e \in w <=> e \in v \ named \/ e \in told
    BY <1>1
  <2> HIDE DEF told, named
  <2>6. \A e \in w : e.path = p /\ e.name = n => e = Entry(p, n)
    BY <2>3, <2>4, <2>5
  <2>7. Entry(p, n) \in w /\ Entry(p, n).path = p /\ Entry(p, n).name = n
    BY <2>2, <2>5, EntryOf
  <2> QED BY <2>6, <2>7 DEF Known
<1>4. ASSUME NEW n \in ns, Known(v, p, n) = {}
      PROVE  Known(w, p, n) = {}
  BY <1>1, <1>4 DEF Known
<1>5. ASSUME NEW n, n \notin ns
      PROVE  Known(w, p, n) = Known(v, p, n)
  BY <1>1, <1>5, EntryOf DEF Known
<1> QED BY <1>2, <1>3, <1>4, <1>5

(* process_changes of an object that is not the manager's own.              *)
LEMMA ChangesTell ==
  ASSUME NEW v, NEW h, NEW id, Announces(id)
  PROVE  LET w == Changes(v, h, id)
             p == h[id].path
         IN
         /\ SeenApart(w, v, p)
         /\ \A n \in h[id].removed : Known(w, p, n) = {}
         /\ \A n : n \notin h[id].removed =>
              /\ n \in h[id].added => Known(w, p, n) = {Entry(p, n)}
              /\ n \in h[id].pending /\ Known(v, p, n) # {}
                   => Known(w, p, n) = {Entry(p, n)}
              /\ n \notin h[id].added /\ n \notin h[id].pending
                   => Known(w, p, n) = Known(v, p, n)
              /\ n \notin h[id].added /\ Known(v, p, n) = {}
                   => Known(w, p, n) = {}
<1> DEFINE w == Changes(v, h, id)
           p == h[id].path
           a == Hear(v, "InterfacesAdded", p, h[id].added)
           b == Hear(a, "PropertiesChanged", p, h[id].pending)
<1>1. w = Hear(b, "InterfacesRemoved", p, h[id].removed)
  BY DEF Changes, process_properties
<1> HIDE DEF w, p
<1>2. /\ SeenApart(a, v, p)
      /\ \A n \in h[id].added : Known(a, p, n) = {Entry(p, n)}
      /\ \A n : n \notin h[id].added => Known(a, p, n) = Known(v, p, n)
  BY HearAdded
<1>3. /\ SeenApart(b, a, p)
      /\ \A n \in h[id].pending : Known(a, p, n) # {} => Known(b, p, n) = {Entry(p, n)}
      /\ \A n \in h[id].pending : Known(a, p, n) = {} => Known(b, p, n) = {}
      /\ \A n : n \notin h[id].pending => Known(b, p, n) = Known(a, p, n)
  <2> HIDE DEF a
  <2> QED BY HearChanged
<1>4. /\ SeenApart(w, b, p)
      /\ \A n \in h[id].removed : Known(w, p, n) = {}
      /\ \A n : n \notin h[id].removed => Known(w, p, n) = Known(b, p, n)
  <2> HIDE DEF b
  <2> QED BY <1>1, HearRemoved
<1> HIDE DEF a, b
<1>5. SeenApart(w, v, p)
  BY <1>2, <1>3, <1>4 DEF SeenApart
<1>6. ASSUME NEW n, n \notin h[id].removed
      PROVE  /\ n \in h[id].added => Known(w, p, n) = {Entry(p, n)}
             /\ n \in h[id].pending /\ Known(v, p, n) # {}
                  => Known(w, p, n) = {Entry(p, n)}
             /\ n \notin h[id].added /\ n \notin h[id].pending
                  => Known(w, p, n) = Known(v, p, n)
             /\ n \notin h[id].added /\ Known(v, p, n) = {}
                  => Known(w, p, n) = {}
  <2>1. Known(w, p, n) = Known(b, p, n)
    BY <1>4, <1>6
  <2>2. n \in h[id].added => Known(b, p, n) = {Entry(p, n)}
    BY <1>2, <1>3
  <2> QED BY <1>2, <1>3, <2>1, <2>2
<1> QED BY <1>4, <1>5, <1>6 DEF w, p

(* Where nothing was added, nothing comes to be known.                      *)
LEMMA ChangesTake ==
  ASSUME NEW v, NEW h, NEW id, Announces(id), NEW n, h[id].added = {},
         Known(v, h[id].path, n) = {} \/ n \in h[id].removed
  PROVE  Known(Changes(v, h, id), h[id].path, n) = {}
<1>1. CASE n \in h[id].removed
  BY <1>1, ChangesTell
<1>2. CASE n \notin h[id].removed
  BY <1>2, ChangesTell
<1> QED BY <1>1, <1>2

(* Those of the manager's own tell of its properties. *)
LEMMA ChangesElsewhere ==
  ASSUME NEW v, NEW h, NEW id,
         NEW w, w = Changes(v, h, id), NEW p, p = h[id].path
  PROVE  SeenApart(w, v, p)
<1>1. CASE Announces(id)
  BY <1>1, ChangesTell
<1>2. CASE ~Announces(id)
  <2> DEFINE a == Hear(v, "InterfacesAdded", p, {})
             b == Hear(a, "PropertiesChanged", p, h[id].pending)
  <2>1. w = Hear(b, "InterfacesRemoved", p, {})
    BY <1>2 DEF Changes, process_properties
  <2>2. SeenApart(a, v, p)
    BY HearAdded
  <2>3. SeenApart(b, a, p)
    <3> HIDE DEF a
    <3> QED BY HearChanged
  <2>4. SeenApart(w, b, p)
    <3> HIDE DEF b
    <3> QED BY <2>1, HearRemoved
  <2> QED BY <2>2, <2>3, <2>4 DEF SeenApart
<1> QED BY <1>1, <1>2

-----------------------------------------------------------------------------
(* Steps of the operations                                                 *)

LEMMA AlikeMirrored ==
  ASSUME NEW h, NEW g, NEW t, NEW mis, NEW r, NEW v, NEW x,
         Mirrored(h, t, mis, r, v, x),
         \A i \in Ids : /\ Alike(g[i], h[i])
                        /\ g[i].live /\ i \notin mis => g[i].parent = h[i].parent,
         \A q \in Paths : t[q] # 0 => t[q] \in Ids
  PROVE  Mirrored(g, t, mis, r, v, x)
<1>1. \A i \in Ids : g[i].live => Waits(g, mis, i)
  BY DEF Mirrored, Waits, Alike
<1>2. Managed(g, t, r)
  <2>1. Root \in Paths
    BY ConstAssumption
  <2> QED BY <2>1 DEF Mirrored, Managed, Alike
<1>3. ASSUME r # 0, NEW p \in Paths \ {Root}
      PROVE  FreshAt(g, t, v, x, p) /\ CompleteAt(g, t, mis, v, x, p)
  <2>1. FreshAt(h, t, v, x, p) /\ CompleteAt(h, t, mis, v, x, p)
    BY <1>3 DEF Mirrored
  <2>2. t[p] # 0 => Alike(g[t[p]], h[t[p]])
    OBVIOUS
  <2>3. FreshAt(g, t, v, x, p)
    BY <2>1, <2>2 DEF FreshAt, Alike
  <2>4. CompleteAt(g, t, mis, v, x, p)
    BY <2>1, <2>2 DEF CompleteAt, Alike
  <2> QED BY <2>3, <2>4
<1> QED BY <1>1, <1>2, <1>3 DEF Mirrored

(* Links are nothing to the listener. *)
LEMMA InvalidatedAlike ==
  ASSUME NEW h, NEW t, NEW m \in Nat, m <= MaxObjects, Shape(h, t, m), Owned(h, t),
         NEW p \in Paths,
         NEW g, g = invalidate_parent_data(h, t, p)
  PROVE  \A i \in Ids : Alike(g[i], h[i])
<1>1. \A i \in Ids :
         /\ g[i].live = h[i].live /\ g[i].path = h[i].path
         /\ g[i].interfaces = h[i].interfaces
         /\ g[i].added = h[i].added /\ g[i].removed = h[i].removed
         /\ g[i].idle = h[i].idle /\ g[i].pending = h[i].pending
  BY Invalidated
<1> QED BY <1>1 DEF Alike

LEMMA AddMirrored ==
  ASSUME NEW m \in Nat, m <= MaxObjects, NEW h \in [Ids -> Object], NEW t,
         Shape(h, t, m), Owned(h, t), NEW mis, Links(h, t, mis),
         NEW r, NEW v, NEW x, Mirrored(h, t, mis, r, v, x),
         NEW id \in Ids, h[id].live, NEW n \in Ifaces \cup Own,
         NEW g, g = add_interface(h, id, n)
  PROVE  Mirrored(g, t, mis, r, v, x)
<1> DEFINE p == h[id].path
<1>1. p \in Paths /\ t[p] = id /\ id # 0
  BY DEF Object, Owned, Ids
<1>2. /\ \A i \in Ids \ {id} : g[i] = h[i]
      /\ g[id].interfaces = h[id].interfaces \cup {n}
      /\ (g[id].live <=> h[id].live) /\ g[id].path = h[id].path
      /\ g[id].pending = h[id].pending /\ g[id].parent = h[id].parent
  BY AddWrites
<1>3. /\ g[id].removed = h[id].removed
      /\ h[id].parent = 0 => g[id].added = h[id].added
                             /\ (g[id].idle <=> h[id].idle)
      /\ h[id].parent # 0 => g[id].added = h[id].added \cup {n} /\ g[id].idle
  BY AddWaits
<1> HIDE DEF p
<1>4. Placed(t, p, id)
  BY <1>1, OwnIds DEF Placed
<1>5. Waits(h, mis, id)
  BY DEF Mirrored
<1>6. Waits(g, mis, id)
  BY <1>2, <1>3, <1>5 DEF Waits
<1>7. Managed(g, t, r)
  <2>1. r # 0 => t[Root] = r /\ r \in Ids /\ ObjectManager \in h[r].interfaces
    BY <1>4, ConstAssumption DEF Mirrored, Managed, Placed
  <2> QED BY <1>2, <2>1 DEF Managed
<1>8. ASSUME r # 0, p # Root
      PROVE  FreshAt(g, t, v, x, p) /\ CompleteAt(g, t, mis, v, x, p)
  <2>1. FreshAt(h, t, v, x, p) /\ CompleteAt(h, t, mis, v, x, p)
    BY <1>1, <1>8 DEF Mirrored
  <2>2. FreshAt(g, t, v, x, p)
    BY <1>1, <1>2, <1>3, <2>1 DEF FreshAt
  <2>3. CompleteAt(g, t, mis, v, x, p)
    <3> SUFFICES ASSUME Steady(mis, t, p),
                        NEW k \in g[id].interfaces, <<p, k>> \notin x
                 PROVE  \/ k \in g[id].added /\ g[id].idle
                        \/ Known(v, p, k) = {Entry(p, k)}
                        \/ k \in g[id].pending /\ Known(v, p, k) # {}
      BY <1>1 DEF CompleteAt
    <3>1. id \notin mis
      BY <1>1 DEF Steady, Around
    <3>2. t[Root] # 0
      BY <1>8 DEF Mirrored, Managed
    <3>3. h[id].parent # 0
      BY <1>8, <3>1, <3>2, ParentThere DEF p
    <3>4. g[id].added = h[id].added \cup {n} /\ g[id].idle
      BY <1>3, <3>3
    <3>5. CASE k = n
      BY <3>4, <3>5
    <3>6. CASE k # n
      <4>1. k \in h[id].interfaces
        BY <1>2, <3>6
      <4>2. \/ k \in h[id].added /\ h[id].idle
            \/ Known(v, p, k) = {Entry(p, k)}
            \/ k \in h[id].pending /\ Known(v, p, k) # {}
        BY <1>1, <2>1, <4>1 DEF CompleteAt
      <4> QED BY <1>2, <3>4, <4>2
    <3> QED BY <3>5, <3>6
  <2> QED BY <2>2, <2>3
<1>9. HeapApart(g, h, id, mis)
  BY <1>2 DEF Alike, HeapApart
<1>10. MirroredAt(g, t, mis, r, v, x, p) /\ SeenApart(v, v, p) /\ CrossedApart(x, x, p)
  BY <1>8 DEF MirroredAt, SeenApart, CrossedApart
<1> QED BY <1>1, <1>4, <1>6, <1>7, <1>9, <1>10, ChangedIn

(* What the listener had of an interface that goes is taken back, or has    *)
(* crossed.                                                                 *)
LEMMA RemoveMirrored ==
  ASSUME NEW m \in Nat, m <= MaxObjects, NEW h \in [Ids -> Object], NEW t,
         Shape(h, t, m), Owned(h, t), NEW mis, Links(h, t, mis),
         NEW r, NEW v, NEW x, NEW y, Mirrored(h, t, mis, r, v, x),
         NEW id \in Ids, h[id].live, NEW n \in Ifaces \cup Own,
         NEW p, p = h[id].path,
         r # 0 => n # ObjectManager,
         CrossedApart(y, x, p),
         \A k : k # n /\ <<p, k>> \in x => <<p, k>> \in y,
         n \notin h[id].interfaces => (<<p, n>> \in x => <<p, n>> \in y),
         r # 0 /\ p # Root /\ n \in h[id].interfaces
           /\ (id \in mis \/ n \in h[id].added)
             => <<p, n>> \in y \/ Known(v, p, n) = {},
         NEW g, g = remove_interface(h, id, n)
  PROVE  Mirrored(g, t, mis, r, v, y)
<1>1. p \in Paths /\ t[p] = id /\ id # 0
  BY DEF Object, Owned, Ids
<1>2. /\ \A i \in Ids \ {id} : g[i] = h[i]
      /\ g[id].interfaces = h[id].interfaces \ {n}
      /\ g[id].added = h[id].added \ {n}
      /\ g[id].pending = h[id].pending \ {n}
      /\ (g[id].live <=> h[id].live) /\ g[id].path = h[id].path
      /\ g[id].parent = h[id].parent
  BY RemoveWrites
<1>3. /\ Told(h[id], n) => g[id].removed = h[id].removed \cup {n} /\ g[id].idle
      /\ ~Told(h[id], n) => g[id].removed = h[id].removed
                            /\ (g[id].idle <=> h[id].idle)
  BY RemoveWaits
<1>4. Placed(t, p, id)
  BY <1>1, OwnIds DEF Placed
<1>5. Waits(h, mis, id)
  BY DEF Mirrored
<1>6. Waits(g, mis, id)
  <2>1. CASE Told(h[id], n)
    BY <1>2, <1>3, <1>5, <2>1 DEF Waits, Told
  <2>2. CASE ~Told(h[id], n)
    BY <1>2, <1>3, <1>5, <2>2 DEF Waits
  <2> QED BY <2>1, <2>2
<1>7. Managed(g, t, r)
  <2>1. r # 0 => t[Root] = r /\ r \in Ids /\ ObjectManager \in h[r].interfaces
    BY <1>4, ConstAssumption DEF Mirrored, Managed, Placed
  <2> QED BY <1>2, <2>1 DEF Managed
<1>8. ASSUME r # 0, p # Root
      PROVE  FreshAt(g, t, v, y, p) /\ CompleteAt(g, t, mis, v, y, p)
  <2>1. FreshAt(h, t, v, x, p) /\ CompleteAt(h, t, mis, v, x, p)
    BY <1>1, <1>8 DEF Mirrored
  <2>2. ASSUME NEW k, Known(v, p, k) # {}, <<p, k>> \notin y
        PROVE  \/ k \in g[id].interfaces
               \/ k \in g[id].removed /\ g[id].idle
    <3>1. <<p, k>> \notin x => \/ k \in h[id].interfaces
                               \/ k \in h[id].removed /\ h[id].idle
      BY <1>1, <2>1, <2>2, FreshNames
    <3>2. h[id].removed \subseteq g[id].removed /\ (h[id].idle => g[id].idle)
      BY <1>3
    <3>3. CASE k # n
      BY <1>2, <2>2, <3>1, <3>2, <3>3
    <3>4. CASE k = n /\ n \notin h[id].interfaces
      BY <2>2, <3>1, <3>2, <3>4
    <3>5. CASE k = n /\ n \in h[id].interfaces
      <4>1. id \notin mis /\ n \notin h[id].added
        BY <1>8, <2>2, <3>5
      <4>2. t[Root] # 0
        BY <1>8 DEF Mirrored, Managed
      <4>3. h[id].parent # 0
        BY <1>8, <4>1, <4>2, ParentThere
      <4> QED BY <1>3, <3>5, <4>1, <4>3 DEF Told
    <3> QED BY <3>3, <3>4, <3>5
  <2>3. FreshAt(g, t, v, y, p)
    BY <1>1, <2>2, FreshNames
  <2>4. CompleteAt(g, t, mis, v, y, p)
    <3> SUFFICES ASSUME Steady(mis, t, p),
                        NEW k \in g[id].interfaces, <<p, k>> \notin y
                 PROVE  \/ k \in g[id].added /\ g[id].idle
                        \/ Known(v, p, k) = {Entry(p, k)}
                        \/ k \in g[id].pending /\ Known(v, p, k) # {}
      BY <1>1 DEF CompleteAt
    <3>1. k # n /\ k \in h[id].interfaces /\ <<p, k>> \notin x
      BY <1>2
    <3>2. \/ k \in h[id].added /\ h[id].idle
          \/ Known(v, p, k) = {Entry(p, k)}
          \/ k \in h[id].pending /\ Known(v, p, k) # {}
      BY <1>1, <2>1, <3>1 DEF CompleteAt
    <3>3. h[id].idle => g[id].idle
      BY <1>3
    <3> QED BY <1>2, <3>1, <3>2, <3>3
  <2> QED BY <2>3, <2>4
<1>9. HeapApart(g, h, id, mis)
  BY <1>2 DEF Alike, HeapApart
<1>10. MirroredAt(g, t, mis, r, v, y, p) /\ SeenApart(v, v, p) /\ CrossedApart(y, x, p)
  BY <1>8 DEF MirroredAt, SeenApart
<1> QED BY <1>1, <1>4, <1>6, <1>7, <1>9, <1>10, ChangedIn

(* A referenced object, made or not: a new one has but an interface of its  *)
(* own, which waits.                                                        *)
LEMMA RefMirrored ==
  ASSUME Inv, Intact, NEW p \in Paths, Made(p),
         Mirrored(heap, tree, misplaced, root, view, crossed)
  PROVE  LET id == IdAt(p)
             h == object_path_ref(p)
             t == [tree EXCEPT ![p] = id]
             mis == IF tree[p] # 0 THEN misplaced
                    ELSE misplaced \cup Displaced(tree, p)
         IN  /\ Mirrored(h, t, mis, root, view, crossed)
             /\ tree[p] = 0 => h[id].interfaces = {Introspectable}
<1> DEFINE m == IF tree[p] = 0 THEN made + 1 ELSE made
           id == IdAt(p)
           h == object_path_ref(p)
           t == [tree EXCEPT ![p] = id]
           mis == IF tree[p] # 0 THEN misplaced
                  ELSE misplaced \cup Displaced(tree, p)
<1>1. /\ m \in Nat /\ m <= MaxObjects
      /\ id \in Ids /\ id \in 1 .. m
      /\ h[id].live = TRUE /\ h[id].path = p
      /\ t \in [Paths -> 0 .. m] /\ t[p] = id
      /\ \A q \in Paths \ {p} : t[q] = tree[q]
      /\ Sound(h, t, m, mis, root, id)
  BY Referenced, Zenon
<1>2. made \in Nat /\ made <= MaxObjects /\ misplaced \subseteq 1 .. made
      /\ Sound(heap, tree, made, misplaced, root, 0)
  BY ConstAssumption DEF Inv
<1>3. heap \in [Ids -> Object] /\ tree \in [Paths -> 0 .. made]
      /\ h \in [Ids -> Object]
  BY <1>1, <1>2 DEF Sound, Shape
<1>4. \A q \in Paths : tree[q] # 0 => tree[q] \in Ids /\ tree[q] \in 1 .. made
  BY <1>2, OwnIds DEF Sound
<1>5. ASSUME tree[p] # 0
      PROVE  Mirrored(h, t, mis, root, view, crossed)
  <2>1. h = [heap EXCEPT ![id].refcount = @ + 1] /\ id = tree[p]
    BY <1>5 DEF object_path_ref, IdAt
  <2>2. t = tree /\ mis = misplaced
    BY <1>3, <1>5, <2>1
  <2>3. heap[id] \in Object
    BY <1>1, <1>3
  <2> HIDE DEF h, id, t, mis
  <2>4. \A i \in Ids :
           /\ Alike(h[i], heap[i])
           /\ h[i].live /\ i \notin misplaced => h[i].parent = heap[i].parent
    BY <1>1, <1>3, <2>1, <2>3 DEF Object, Alike
  <2>5. \A q \in Paths : tree[q] # 0 => tree[q] \in Ids
    BY <1>4
  <2>6. Mirrored(h, tree, misplaced, root, view, crossed)
    BY <2>4, <2>5, AlikeMirrored
  <2> QED BY <2>2, <2>6
<1>6. ASSUME tree[p] = 0
      PROVE  /\ Mirrored(h, t, mis, root, view, crossed)
             /\ h[id].interfaces = {Introspectable}
  <2> DEFINE n == made + 1
             f == [heap EXCEPT ![n] = NewObject(p)]
             k == invalidate_parent_data(f, t, p)
  <2>1. id = n /\ m = n /\ mis = misplaced \cup Displaced(tree, p)
    BY <1>6 DEF IdAt
  <2>2. h = add_interface(k, n, Introspectable)
    BY <1>6, <2>1 DEF object_path_ref, NewObject
  <2> HIDE DEF h, t, mis, id, m
  <2>3. /\ n \in Ids /\ NewObject(p) \in Object
        /\ t \in [Paths -> 0 .. n] /\ t[p] = n /\ n <= MaxObjects /\ n \in Nat
    BY <1>1, <2>1, NewObjectIs
  <2>4. f \in [Ids -> Object] /\ f[n] = NewObject(p)
        /\ \A i \in Ids \ {n} : f[i] = heap[i]
    BY <1>3, <2>3
  <2> HIDE DEF f
  <2>5. /\ ~heap[n].live
        /\ Shape(f, t, n) /\ Owned(f, t)
    <3>1. Shape(heap, tree, made) /\ Owned(heap, tree) /\ Counted(heap, 0)
      BY <1>2 DEF Sound
    <3> HIDE DEF n
    <3>2. n = made + 1
      BY DEF n
    <3> QED BY <1>1, <1>2, <1>3, <1>6, <2>3, <2>4, <3>1, <3>2, Inserted
  <2>0. k = invalidate_parent_data(f, t, p)
    OBVIOUS
  <2> HIDE DEF k, n
  <2>6. k \in [Ids -> Object]
    BY <2>0, <2>3, <2>5, Invalidated
  <2>7. \A i \in Ids : Alike(k[i], f[i])
    BY <2>0, <2>3, <2>5, InvalidatedAlike
  <2>8. /\ k[n].interfaces = {} /\ k[n].removed = {} /\ k[n].pending = {}
        /\ k[n].added = {} /\ ~k[n].idle /\ k[n].path = p /\ k[n].live
    <3>1. /\ NewObject(p).interfaces = {} /\ NewObject(p).removed = {}
          /\ NewObject(p).pending = {} /\ NewObject(p).added = {}
          /\ ~NewObject(p).idle /\ NewObject(p).path = p /\ NewObject(p).live
      BY DEF NewObject, Freed
    <3> QED BY <2>3, <2>4, <2>7, <3>1 DEF Alike
  <2>9. Introspectable \in Ifaces \cup Own
    BY DEF Own
  <2>10. /\ \A i \in Ids \ {n} : h[i] = k[i]
         /\ h[n].interfaces = {Introspectable}
         /\ h[n].pending = {} /\ h[n].parent = k[n].parent
    <3>1. /\ \A i \in Ids \ {n} : h[i] = k[i]
          /\ h[n].interfaces = k[n].interfaces \cup {Introspectable}
          /\ h[n].pending = k[n].pending /\ h[n].parent = k[n].parent
      BY <2>2, <2>3, <2>6, <2>9, AddWrites
    <3> QED BY <2>8, <3>1
  <2>11. /\ h[n].removed = {}
         /\ h[n].parent # 0 => h[n].added = {Introspectable} /\ h[n].idle
    <3>1. /\ h[n].removed = k[n].removed
          /\ k[n].parent # 0 => h[n].added = k[n].added \cup {Introspectable}
                                /\ h[n].idle
      BY <2>2, <2>3, <2>6, <2>9, AddWaits
    <3> QED BY <2>8, <2>10, <3>1
  <2>12. n \notin mis
    <3>1. n \notin 1 .. made
      BY <1>2 DEF n
    <3>2. Displaced(tree, p) \subseteq 1 .. made
      BY <1>4 DEF Displaced, Below
    <3> QED BY <1>2, <2>1, <3>1, <3>2
  <2>13. Links(h, t, mis) /\ Links(heap, tree, misplaced) /\ misplaced \subseteq mis
         /\ Displaced(tree, p) \subseteq mis
    BY <1>1, <1>2, <2>1 DEF Sound
  <2>14. TreeApart(t, tree, p, misplaced, mis)
    BY <1>1, <2>13 DEF TreeApart
  <2>15. ASSUME NEW i \in Ids \ {n}
         PROVE  /\ Alike(h[i], heap[i])
                /\ h[i].live /\ i \notin mis => h[i].parent = heap[i].parent
    <3>1. Alike(h[i], heap[i])
      BY <2>4, <2>7, <2>10
    <3>2. ASSUME h[i].live, i \notin mis
          PROVE  h[i].parent = heap[i].parent
      <4>1. heap[i].live /\ h[i].path = heap[i].path
        BY <3>1, <3>2 DEF Alike
      <4>2. PICK q \in Paths : heap[i].path = q /\ h[i].path = q /\ tree[q] = i
        BY <1>2, <1>3, <4>1 DEF Sound, Owned, Object
      <4> QED BY <2>13, <2>14, <3>2, <4>1, <4>2, ParentStays
    <3> QED BY <3>1, <3>2
  <2>a. HeapApart(h, heap, n, mis)
    BY <2>15 DEF HeapApart
  <2>16. Waits(h, mis, n)
    BY <2>10, <2>11 DEF Waits
  <2>17. Managed(heap, tree, root) /\ (root # 0 => tree[Root] = root)
    BY DEF Mirrored, Managed
  <2>18. Managed(h, t, root)
    <3>1. ASSUME root # 0
          PROVE  t[Root] = root /\ ObjectManager \in h[root].interfaces
      <4>1. root \in Ids /\ p # Root /\ Root \in Paths
        BY <1>4, <1>6, <2>17, <3>1, ConstAssumption
      <4>2. root # n
        BY <2>5, <1>2, <2>17, <3>1, <4>1 DEF Sound, Owned
      <4>3. h[root].interfaces = heap[root].interfaces
        BY <2>15, <4>1, <4>2 DEF Alike
      <4> QED BY <2>14, <2>17, <3>1, <4>1, <4>3 DEF Managed, TreeApart
    <3> QED BY <3>1 DEF Managed
  <2>19. ASSUME root # 0, p # Root
         PROVE  /\ FreshAt(h, t, view, crossed, p)
                /\ CompleteAt(h, t, mis, view, crossed, p)
    <3>1. FreshAt(heap, tree, view, crossed, p)
      BY <2>19 DEF Mirrored
    <3>2. \A e \in view : e.path = p => <<p, e.name>> \in crossed
      BY <1>6, <3>1 DEF FreshAt
    <3>3. t[Root] # 0
      BY <2>18, <2>19 DEF Managed
    <3>4. h[n].live /\ h[n].path = p
      BY <1>1, <2>1
    <3>5. Shape(h, t, m) /\ m \in Nat
      BY <1>1 DEF Sound
    <3>6. h[n].parent # 0
      BY <2>3, <2>12, <2>13, <2>19, <3>3, <3>4, <3>5, ParentThere
    <3>7. FreshAt(h, t, view, crossed, p)
      BY <3>2 DEF FreshAt
    <3>8. CompleteAt(h, t, mis, view, crossed, p)
      BY <2>3, <2>10, <2>11, <3>6 DEF CompleteAt
    <3> QED BY <3>7, <3>8
  <2>20. Placed(tree, p, n)
    <3>1. \A q \in Paths : tree[q] # n
      BY <1>2, <1>3 DEF n
    <3> QED BY <1>4, <3>1 DEF Placed
  <2>21. /\ MirroredAt(h, t, mis, root, view, crossed, p)
         /\ SeenApart(view, view, p) /\ CrossedApart(crossed, crossed, p)
    BY <2>19 DEF MirroredAt, SeenApart, CrossedApart
  <2>22. Mirrored(h, t, mis, root, view, crossed)
    BY <2>3, <2>14, <2>a, <2>16, <2>18, <2>20, <2>21, ChangedAt
  <2> QED BY <2>1, <2>10, <2>22
<1> HIDE DEF h, t, mis, id
<1>7. /\ Mirrored(h, t, mis, root, view, crossed)
      /\ tree[p] = 0 => h[id].interfaces = {Introspectable}
  BY <1>5, <1>6
<1> QED BY <1>7 DEF h, t, mis, id

(* An object with one reference less.                                       *)
Released(f, h, t, m, mis, id) ==
    /\ h[id].live
    /\ Shape(f, t, m) /\ Owned(f, t) /\ Links(f, t, mis)
    /\ \A i \in Ids : Alike(f[i], h[i]) /\ f[i].parent = h[i].parent

LEMMA ReleasedIs ==
  ASSUME NEW m \in Nat, m <= MaxObjects, NEW h, NEW t, NEW mis, NEW r, NEW id \in Ids,
         Sound(h, t, m, mis, r, id), h[id].refcount > 0
  PROVE  Released([h EXCEPT ![id].refcount = @ - 1], h, t, m, mis, id)
<1> DEFINE f == [h EXCEPT ![id].refcount = @ - 1]
<1> USE DEF Sound
<1>1. h \in [Ids -> Object] /\ h[id] \in Object
  BY DEF Shape
<1>2. h[id].live
  BY DEF Shape, Freed
<1>3. /\ f \in [Ids -> Object]
      /\ \A i \in Ids \ {id} : f[i] = h[i]
      /\ (f[id].live <=> h[id].live) /\ f[id].path = h[id].path
      /\ f[id].interfaces = h[id].interfaces /\ f[id].objects = h[id].objects
      /\ f[id].added = h[id].added /\ f[id].pending = h[id].pending
      /\ f[id].removed = h[id].removed /\ (f[id].idle <=> h[id].idle)
      /\ f[id].parent = h[id].parent
  <2>1. h[id].refcount - 1 \in Nat
    BY <1>1 DEF Object
  <2> QED BY <1>1, <2>1 DEF Object
<1> HIDE DEF f
<1>4. Shape(f, t, m)
  BY <1>2, <1>3 DEF Shape
<1>5. SameTree(f, h)
  BY <1>2, <1>3 DEF SameTree
<1>6. Owned(f, t) /\ Links(f, t, mis)
  <2>1. \A q \in Paths : t[q] # 0 => t[q] \in Ids
    BY OwnIds
  <2>2. \A i \in Ids : h[i].objects \subseteq Ids
    BY <1>1 DEF Object
  <2> QED BY <1>5, <2>1, <2>2, SameTreeKeeps
<1>7. \A i \in Ids : Alike(f[i], h[i]) /\ f[i].parent = h[i].parent
  BY <1>3 DEF Alike
<1> QED BY <1>2, <1>4, <1>6, <1>7 DEF f, Released

(* The interfaces of the object's own: what goes unannounced has crossed,   *)
(* or was not known.                                                        *)
OwnCrossed(h, mis, r, v, x, id) ==
    \A k \in {Introspectable, Properties} :
        k \in h[id].interfaces /\ r # 0 /\ h[id].path # Root
          /\ (id \in mis \/ k \in h[id].added)
            => <<h[id].path, k>> \in x \/ Known(v, h[id].path, k) = {}

LEMMA StrippedMirrored ==
  ASSUME NEW m \in Nat, m <= MaxObjects, NEW h \in [Ids -> Object], NEW t,
         Shape(h, t, m), Owned(h, t), NEW mis, Links(h, t, mis),
         NEW r, NEW v, NEW x, Mirrored(h, t, mis, r, v, x),
         NEW id \in Ids, h[id].live, OwnCrossed(h, mis, r, v, x, id),
         NEW s, s = Stripped(h, t, id)
  PROVE  /\ Mirrored(s, t, mis, r, v, x)
         /\ s[id].interfaces = Clients(h[id])
<1> DEFINE p == h[id].path
           a == remove_interface(h, id, Introspectable)
           b == remove_interface(a, id, Properties)
<1>1. s = invalidate_parent_data(b, t, p)
  BY DEF Stripped
<1>2. /\ p \in Paths /\ CrossedApart(x, x, p)
      /\ Introspectable \in Ifaces \cup Own /\ Properties \in Ifaces \cup Own
      /\ Introspectable # ObjectManager /\ Properties # ObjectManager
      /\ Introspectable # Properties
  BY DEF Object, CrossedApart, Own, Introspectable, Properties, ObjectManager
<1> HIDE DEF a, b
<1>3. /\ a \in [Ids -> Object] /\ a[id].live /\ a[id].path = p
      /\ a[id].interfaces = h[id].interfaces \ {Introspectable}
      /\ a[id].added = h[id].added \ {Introspectable}
  BY <1>2, RemoveWrites DEF a
<1>4. Shape(a, t, m) /\ Owned(a, t) /\ Links(a, t, mis)
  BY <1>2, RemoveKeeps DEF a
<1>5. Mirrored(a, t, mis, r, v, x)
  <2>1. r # 0 /\ p # Root /\ Introspectable \in h[id].interfaces
          /\ (id \in mis \/ Introspectable \in h[id].added)
            => <<p, Introspectable>> \in x \/ Known(v, p, Introspectable) = {}
    BY DEF OwnCrossed
  <2> DEFINE n == Introspectable
  <2>2. n \in Ifaces \cup Own /\ n # ObjectManager
    BY <1>2
  <2> QED BY <1>2, <2>1, <2>2, RemoveMirrored DEF a
<1>6. /\ b \in [Ids -> Object] /\ b[id].live /\ b[id].path = p
      /\ b[id].interfaces = a[id].interfaces \ {Properties}
  BY <1>2, <1>3, RemoveWrites DEF b
<1>7. Shape(b, t, m) /\ Owned(b, t) /\ Links(b, t, mis)
  BY <1>2, <1>3, <1>4, RemoveKeeps DEF b
<1>8. Mirrored(b, t, mis, r, v, x)
  <2>1. r # 0 /\ p # Root /\ Properties \in a[id].interfaces
          /\ (id \in mis \/ Properties \in a[id].added)
            => <<p, Properties>> \in x \/ Known(v, p, Properties) = {}
    BY <1>3 DEF OwnCrossed
  <2> QED BY <1>2, <1>3, <1>4, <1>5, <2>1, RemoveMirrored DEF b
<1> HIDE DEF p
<1>9. Links(s, t, mis)
  BY <1>1, <1>2, <1>7, InvalidatedLinks
<1>10. \A i \in Ids : Alike(s[i], b[i])
  BY <1>1, <1>2, <1>7, InvalidatedAlike
<1>11. \A i \in Ids :
         /\ Alike(s[i], b[i])
         /\ s[i].live /\ i \notin mis => s[i].parent = b[i].parent
  BY <1>7, <1>9, <1>10 DEF Links, Agrees, Alike
<1>12. \A q \in Paths : t[q] # 0 => t[q] \in Ids
  BY OwnIds
<1>13. Mirrored(s, t, mis, r, v, x)
  BY <1>8, <1>11, <1>12, AlikeMirrored
<1>14. s[id].interfaces = Clients(h[id])
  BY <1>3, <1>6, <1>10 DEF Clients, Alike
<1> QED BY <1>13, <1>14

(* The last reference: what the listener had of the object is taken back.   *)
LEMMA FreedMirrored ==
  ASSUME NEW m \in Nat, m <= MaxObjects, NEW f \in [Ids -> Object], NEW t, NEW mis,
         Shape(f, t, m), Owned(f, t), Links(f, t, mis),
         NEW id \in Ids, f[id].live = TRUE, Clients(f[id]) = {},
         NEW p \in Paths, f[id].path = p,
         NEW u \in [Paths -> 0 .. m], u[p] = 0,
         \A q \in Paths \ {p} : u[q] = t[q],
         NEW r, r = 0 \/ r = root,
         NEW v, NEW x, Mirrored(f, t, mis, r, v, x),
         OwnCrossed(f, mis, r, v, x, id),
         NEW s, s = Stripped(f, t, id),
         NEW w, w = IF s[id].idle THEN Changes(v, s, id) ELSE v,
         NEW g, g = generic_unregister(s, id),
         NEW nm, nm = mis \cup Displaced(t, p), Links(g, u, nm)
  PROVE  Mirrored(g, u, nm, r, w, x)
<1>1. f[id].live /\ t[p] = id
  BY DEF Owned
<1>3. \A q \in Paths : t[q] # 0 => t[q] \in Ids
  BY OwnIds
<1>7. Mirrored(s, t, mis, r, v, x) /\ s[id].interfaces = Clients(f[id])
  BY <1>1, StrippedMirrored
<1>8. /\ Shape(s, t, m) /\ Owned(s, t) /\ Links(s, t, mis)
      /\ Bared(s, f, t, id)
  BY StrippedIs
<1>9. s \in [Ids -> Object] /\ s[id].path = p
  BY <1>8 DEF Shape, Bared
<1>10. s[id].interfaces = {} /\ s[id].added = {} /\ s[id].pending = {}
  BY <1>7, <1>8 DEF Shape
<1>11. g \in [Ids -> Object] /\ Without(g, s, id)
  BY <1>9, Unregistered
<1>12. Placed(t, p, id)
  BY <1>1, <1>3, OwnIds DEF Placed
<1>13. TreeApart(u, t, p, mis, nm)
  BY DEF TreeApart
<1>14. HeapApart(g, s, id, nm)
  <2>1. ASSUME NEW i \in Ids \ {id}
        PROVE  /\ Alike(g[i], s[i])
               /\ g[i].live /\ i \notin nm => g[i].parent = s[i].parent
    <3>1. Alike(g[i], s[i])
      BY <1>11 DEF Without, Alike
    <3>2. ASSUME g[i].live, i \notin nm
          PROVE  g[i].parent = s[i].parent
      <4>1. s[i].live /\ g[i].path = s[i].path
        BY <3>1, <3>2 DEF Alike
      <4>2. PICK q \in Paths : s[i].path = q /\ g[i].path = q /\ t[q] = i
        <5>1. s[i] \in Object
          BY <1>9
        <5>2. s[i].path \in Paths /\ t[s[i].path] = i
          BY <1>8, <4>1, <5>1 DEF Owned, Object
        <5> QED BY <4>1, <5>2
      <4> QED BY <1>8, <1>13, <3>2, <4>1, <4>2, ParentStays
    <3> QED BY <3>1, <3>2
  <2> QED BY <2>1 DEF HeapApart
<1>15. SeenApart(w, v, p)
  <2>1. CASE s[id].idle
    BY <1>9, <2>1, ChangesElsewhere
  <2>2. CASE ~s[id].idle
    BY <2>2 DEF SeenApart
  <2> QED BY <2>1, <2>2
<1>16. Waits(g, nm, id)
  BY <1>11 DEF Without, Waits, Freed
<1>17. Managed(g, u, r) /\ (r # 0 => id # r)
  <2>1. ASSUME r # 0
        PROVE  /\ u[Root] = r /\ ObjectManager \in g[r].interfaces
               /\ id # r
    <3>1. t[Root] = r /\ ObjectManager \in s[r].interfaces /\ Root \in Paths
      BY <1>7, <2>1, ConstAssumption DEF Mirrored, Managed
    <3>2. id # r /\ r \in Ids
      BY <1>3, <1>10, <2>1, <3>1
    <3>3. Root # p
      BY <1>1, <3>1, <3>2
    <3>4. g[r].interfaces = s[r].interfaces
      BY <1>11, <3>2 DEF Without
    <3> QED BY <3>1, <3>2, <3>3, <3>4
  <2> QED BY <2>1 DEF Managed
<1>18. ASSUME r # 0, p # Root
       PROVE  FreshAt(g, u, w, x, p) /\ CompleteAt(g, u, nm, w, x, p)
  <2>1. FreshAt(s, t, v, x, p)
    BY <1>7, <1>18 DEF Mirrored
  <2>2. t[p] = id
    BY <1>1
  <2>3. ASSUME NEW n, <<p, n>> \notin x, Known(v, p, n) # {}
        PROVE  n \in s[id].removed /\ s[id].idle
    BY <1>10, <2>1, <2>2, <2>3, FreshNames
  <2>4. ASSUME NEW n, <<p, n>> \notin x, Known(w, p, n) # {}
        PROVE  FALSE
    <3>1. CASE ~s[id].idle
      BY <2>3, <2>4, <3>1
    <3>2. CASE s[id].idle
      <4>1. w = Changes(v, s, id)
        BY <3>2
      <4>2. Announces(id)
        BY <1>17, <1>18 DEF Announces
      <4>3. Known(v, s[id].path, n) = {} \/ n \in s[id].removed
        BY <1>9, <2>3, <2>4
      <4>4. Known(Changes(v, s, id), s[id].path, n) = {}
        BY <1>10, <4>2, <4>3, ChangesTake
      <4> QED BY <1>9, <2>4, <4>1, <4>4
    <3> QED BY <3>1, <3>2
  <2>5. FreshAt(g, u, w, x, p)
    BY <2>4, FreshNames
  <2>6. CompleteAt(g, u, nm, w, x, p)
    BY DEF CompleteAt
  <2> QED BY <2>5, <2>6
<1>19. MirroredAt(g, u, nm, r, w, x, p) /\ CrossedApart(x, x, p)
  BY <1>18 DEF MirroredAt, CrossedApart
<1>20. Mirrored(g, u, nm, r, w, x)
  BY <1>7, <1>12, <1>13, <1>14, <1>15, <1>16, <1>17, <1>19, ChangedAt
<1> QED BY <1>20

LEMMA UnrefMirrored ==
  ASSUME NEW m \in Nat, m <= MaxObjects, NEW h, NEW t, NEW mis, NEW r, NEW id \in Ids,
         Sound(h, t, m, mis, r, id), Whole(h),
         r = 0 \/ r = root,
         NEW v, NEW x, Mirrored(h, t, mis, r, v, x),
         h[id].refcount = 1 => OwnCrossed(h, mis, r, v, x, id),
         object_path_unref(h, t, id, v)
  PROVE  \/ /\ h[id].refcount > 1
            /\ Mirrored(heap', tree', mis, r, view', x)
         \/ /\ h[id].refcount = 1
            /\ Mirrored(heap', tree', mis \cup Displaced(t, h[id].path), r, view', x)
<1> DEFINE f == [h EXCEPT ![id].refcount = @ - 1]
           s == Stripped(f, t, id)
           p == h[id].path
<1>1. \/ h[id].refcount > 1 /\ heap' = f /\ tree' = t /\ view' = v
      \/ /\ h[id].refcount = 1
         /\ heap' = generic_unregister(s, id)
         /\ tree' = [t EXCEPT ![p] = 0]
         /\ view' = IF s[id].idle THEN Changes(v, s, id) ELSE v
  BY DEF object_path_unref
<1>2. CASE h[id].refcount > 1 /\ heap' = f /\ tree' = t /\ view' = v
  <2>1. h[id].refcount > 0
    BY <1>2 DEF Sound, Shape, Object
  <2>2. \A i \in Ids : Alike(f[i], h[i]) /\ f[i].parent = h[i].parent
    <3>1. Released(f, h, t, m, mis, id)
      BY <2>1, ReleasedIs
    <3> HIDE DEF f
    <3> QED BY <3>1 DEF Released
  <2>3. \A q \in Paths : t[q] # 0 => t[q] \in Ids
    BY OwnIds DEF Sound
  <2> HIDE DEF f
  <2>4. Mirrored(f, t, mis, r, v, x)
    BY <2>2, <2>3, AlikeMirrored
  <2> QED BY <1>2, <2>4
<1>3. CASE /\ h[id].refcount = 1
           /\ heap' = generic_unregister(s, id)
           /\ tree' = [t EXCEPT ![p] = 0]
           /\ view' = IF s[id].idle THEN Changes(v, s, id) ELSE v
  <2>1. t \in [Paths -> 0 .. m] /\ p \in Paths /\ h[id] \in Object
    BY DEF Sound, Shape, Object
  <2> DEFINE u == [t EXCEPT ![p] = 0]
             w == IF s[id].idle THEN Changes(v, s, id) ELSE v
             g == generic_unregister(s, id)
             nm == mis \cup Displaced(t, p)
  <2>2. u \in [Paths -> 0 .. m] /\ u[p] = 0 /\ \A q \in Paths \ {p} : u[q] = t[q]
    BY <2>1
  <2>3. Links(g, u, nm)
    <3> HIDE DEF u
    <3>1. Sound(g, u, m, nm, r, 0)
      BY <1>3, <2>2, UnrefFrees
    <3> QED BY <3>1 DEF Sound
  <2>4. heap' = g /\ tree' = u /\ view' = w
    BY <1>3
  <2>5. s = Stripped(f, t, id)
    OBVIOUS
  <2>6. h[id].refcount > 0
    BY <1>3
  <2> HIDE DEF f, s, u, w, g, nm
  <2>7. /\ h[id].live
        /\ Shape(f, t, m) /\ Owned(f, t) /\ Links(f, t, mis)
        /\ \A i \in Ids : Alike(f[i], h[i]) /\ f[i].parent = h[i].parent
    <3>1. Released(f, h, t, m, mis, id)
      BY <2>6, ReleasedIs DEF f
    <3> QED BY <3>1 DEF Released
  <2>8. Clients(h[id]) = {}
    <3>1. /\ Cardinality(Clients(h[id])) \in Nat
          /\ Cardinality(Clients(h[id])) = 0 <=> Clients(h[id]) = {}
      BY <2>1, ClientsFinite
    <3>2. h[id].refcount = Cardinality(Clients(h[id])) + 1
      BY <2>7 DEF Sound, Counted
    <3> QED BY <1>3, <3>1, <3>2
  <2>9. /\ f \in [Ids -> Object]
        /\ f[id].live = TRUE /\ f[id].path = p /\ Clients(f[id]) = {}
    BY <2>7, <2>8 DEF Shape, Alike, Object, Clients, p
  <2>10. OwnCrossed(f, mis, r, v, x, id)
    BY <1>3, <2>7 DEF Alike, OwnCrossed
  <2>11. \A q \in Paths : t[q] # 0 => t[q] \in Ids
    BY OwnIds DEF Sound
  <2>12. Mirrored(f, t, mis, r, v, x)
    BY <2>7, <2>11, AlikeMirrored
  <2> HIDE DEF p
  <2>13. Mirrored(g, u, nm, r, w, x)
    BY <2>1, <2>2, <2>3, <2>5, <2>7, <2>9, <2>10, <2>12, FreedMirrored DEF w, g, nm
  <2> QED BY <1>3, <2>4, <2>13 DEF nm, p
<1> QED BY <1>1, <1>2, <1>3

-----------------------------------------------------------------------------
(* The actions and the listener *)

LEMMA RegisterMirrored ==
  ASSUME Inv, Intact, NEW p \in Paths, NEW n \in Ifaces,
         g_dbus_register_interface(p, n),
         Mirrored(heap, tree, misplaced, root, view, crossed)
  PROVE  Mirrored(heap', tree', misplaced', root', view', crossed')
<1> DEFINE m == IF tree[p] = 0 THEN made + 1 ELSE made
           id == IdAt(p)
           h == object_path_ref(p)
           t == [tree EXCEPT ![p] = id]
           mis == IF tree[p] # 0 THEN misplaced
                  ELSE misplaced \cup Displaced(tree, p)
           more == n \in WithProperties /\ Properties \notin h[id].interfaces
           h2 == add_interface(h, id, n)
           h3 == IF more THEN add_interface(h2, id, Properties) ELSE h2
           h4 == [h3 EXCEPT ![id].introspect = None]
<1>1. /\ m \in Nat /\ m <= MaxObjects
      /\ id \in Ids
      /\ h[id].live = TRUE /\ h[id].path = p /\ Whole(h)
      /\ t \in [Paths -> 0 .. m] /\ t[p] = id
      /\ \A q \in Paths \ {p} : t[q] = tree[q]
      /\ Sound(h, t, m, mis, root, id)
      /\ h[id].refcount > 1 => tree[p] # 0
      /\ h[id].refcount = 1 => tree[p] = 0
  BY Referenced, Zenon DEF g_dbus_register_interface
<1>2. IF n \in h[id].interfaces \cup Experimental
      THEN object_path_unref(h, t, id, view)
      ELSE Kept(p, h4) /\ UNCHANGED view
  BY Zenon DEF g_dbus_register_interface
<1>3. Made(p) /\ UNCHANGED <<root, crossed>>
  BY DEF g_dbus_register_interface
<1>4. /\ tree[p] # 0 => mis = misplaced
      /\ tree[p] = 0 => mis = misplaced \cup Displaced(tree, p)
      /\ t = [tree EXCEPT ![p] = IdAt(p)]
  OBVIOUS
<1>5. Mirrored(h, t, mis, root, view, crossed)
  BY <1>3, RefMirrored
<1> HIDE DEF m, id, h, t, mis, h4
<1>6. CASE n \in h[id].interfaces \cup Experimental
  <2>1. object_path_unref(h, t, id, view)
    BY <1>2, <1>6
  <2>2. h[id].refcount = 1 => OwnCrossed(h, mis, root, view, crossed, id)
    <3> SUFFICES ASSUME h[id].refcount = 1, root # 0, p # Root, NEW k
                 PROVE  <<p, k>> \in crossed \/ Known(view, p, k) = {}
      BY <1>1 DEF OwnCrossed
    <3>1. FreshAt(heap, tree, view, crossed, p) /\ tree[p] = 0
      BY <1>1 DEF Mirrored
    <3> QED BY <3>1, FreshNames
  <2>3. \/ /\ h[id].refcount > 1
           /\ Mirrored(heap', tree', mis, root, view', crossed)
        \/ /\ h[id].refcount = 1
           /\ Mirrored(heap', tree', mis \cup Displaced(t, h[id].path), root, view', crossed)
    BY <1>1, <1>5, <2>1, <2>2, UnrefMirrored
  <2>4. \/ /\ h[id].refcount > 1 /\ misplaced' = misplaced
        \/ /\ h[id].refcount = 1
           /\ misplaced' = misplaced \cup {t[q] : q \in Below(t, h[id].path)}
    BY <2>1 DEF object_path_unref
  <2>5. CASE h[id].refcount > 1
    BY <1>1, <1>3, <1>4, <2>3, <2>4, <2>5
  <2>6. CASE h[id].refcount = 1
    <3>1. Displaced(t, p) = Displaced(tree, p)
      BY <1>1, DisplacedSame
    <3>2. mis \cup Displaced(t, h[id].path) = mis /\ misplaced' = mis
      BY <1>1, <1>4, <2>4, <2>6, <3>1 DEF Displaced
    <3> QED BY <1>1, <1>3, <2>3, <2>6, <3>2
  <2> QED BY <2>3, <2>5, <2>6
<1>7. CASE n \notin h[id].interfaces \cup Experimental
  <2>1. heap' = h4 /\ tree' = t /\ misplaced' = mis /\ view' = view
    BY <1>2, <1>4, <1>7 DEF Kept, Displaced
  <2>2. /\ h \in [Ids -> Object] /\ Shape(h, t, m) /\ Owned(h, t) /\ Links(h, t, mis)
        /\ n \in Ifaces \cup Own /\ Properties \in Ifaces \cup Own
    BY <1>1 DEF Sound, Shape, Own
  <2>3. Mirrored(h2, t, mis, root, view, crossed)
    BY <1>1, <1>5, <2>2, AddMirrored
  <2>4. /\ Shape(h2, t, m) /\ Owned(h2, t) /\ Links(h2, t, mis)
    BY <1>1, <2>2, AddKeeps
  <2>5. h2 \in [Ids -> Object] /\ h2[id].live
    BY <1>1, <2>2, AddWrites
  <2> HIDE DEF h2
  <2>6. /\ Mirrored(h3, t, mis, root, view, crossed)
        /\ Shape(h3, t, m) /\ Owned(h3, t)
    <3>1. CASE ~more
      BY <2>3, <2>4, <3>1
    <3>2. CASE more
      <4> DEFINE g == add_interface(h2, id, Properties)
      <4>1. Mirrored(g, t, mis, root, view, crossed)
        BY <1>1, <2>2, <2>3, <2>4, <2>5, AddMirrored
      <4>2. Shape(g, t, m) /\ Owned(g, t)
        BY <1>1, <2>2, <2>4, <2>5, AddKeeps
      <4> QED BY <3>2, <4>1, <4>2
    <3> QED BY <3>1, <3>2
  <2> HIDE DEF h3
  <2>7. /\ h3 \in [Ids -> Object] /\ h3[id] \in Object
        /\ \A q \in Paths : t[q] # 0 => t[q] \in Ids
    BY <1>1, <2>6, OwnIds DEF Shape
  <2>8. \A i \in Ids : /\ Alike(h4[i], h3[i])
                       /\ h4[i].live /\ i \notin mis => h4[i].parent = h3[i].parent
    BY <1>1, <2>7 DEF h4, Object, Alike
  <2>9. Mirrored(h4, t, mis, root, view, crossed)
    BY <2>6, <2>7, <2>8, AlikeMirrored
  <2> QED BY <1>3, <2>1, <2>9
<1> QED BY <1>6, <1>7

(* With the manager detached, nothing is promised to the listener.          *)
LEMMA DetachedMirrored ==
  ASSUME NEW h, NEW t, NEW mis, NEW r, NEW v, NEW x, NEW w, NEW y,
         Mirrored(h, t, mis, r, v, x)
  PROVE  Mirrored(h, t, mis, 0, w, y)
BY DEF Mirrored, Managed

LEMMA UnregisterMirrored ==
  ASSUME Inv, Intact, NEW p \in Paths, NEW n \in Ifaces \cup {ObjectManager},
         unregister_interface(p, n),
         NEW r, \/ n \in Ifaces /\ r = root
                \/ n = ObjectManager /\ r = 0,
         Mirrored(heap, tree, misplaced, root, view, crossed)
  PROVE  Mirrored(heap', tree', misplaced', r, view', crossed')
<1> DEFINE id == tree[p]
           h == remove_interface(heap, id, n)
           g == [h EXCEPT ![id].introspect = None]
           known == Hear(view, "PropertiesChanged", p, {n} \cap heap[id].pending)
           lost == IF id \in misplaced THEN heap[id].interfaces
                   ELSE heap[id].added \ heap'[id].added
           y == (crossed \ {<<p, n>>}) \cup {<<p, k>> : k \in lost}
<1>1. n \in heap[id].interfaces /\ object_path_unref(g, tree, id, known)
      /\ crossed' = y
  BY Zenon DEF unregister_interface
<1>2. made \in Nat /\ made <= MaxObjects
      /\ Sound(heap, tree, made, misplaced, root, 0)
  BY ConstAssumption DEF Inv
<1>3. /\ id \in Ids /\ g[id].path = p /\ g[id].live
      /\ Sound(g, tree, made, misplaced, r, id)
      /\ Whole(g)
  BY Withdrawn, Zenon
<1>4. heap \in [Ids -> Object] /\ n \in Ifaces \cup Own
      /\ Shape(heap, tree, made) /\ Owned(heap, tree) /\ Links(heap, tree, misplaced)
  BY <1>2 DEF Sound, Shape, Own
<1>a. \A q \in Paths : tree[q] # 0 => tree[q] \in Ids
  BY <1>2, <1>4, OwnIds
<1>5. heap[id].live /\ heap[id].path = p /\ id # 0
  BY <1>3, <1>4 DEF Owned, Ids
<1>6. /\ h \in [Ids -> Object]
      /\ h[id].interfaces = heap[id].interfaces \ {n}
      /\ h[id].added = heap[id].added \ {n}
  BY <1>3, <1>4, RemoveWrites
<1>7. /\ \A i \in Ids : /\ Alike(g[i], h[i])
                        /\ g[i].live /\ i \notin misplaced => g[i].parent = h[i].parent
      /\ g[id].interfaces = heap[id].interfaces \ {n}
      /\ g[id].added = heap[id].added \ {n}
  <2> HIDE DEF h, id
  <2>1. h[id] \in Object
    BY <1>3, <1>6
  <2> QED BY <1>3, <1>6, <2>1 DEF Object, Alike
<1>8. /\ heap'[id].added \subseteq heap[id].added \ {n}
      /\ g[id].refcount = 1 => heap'[id].added = {}
  <2> HIDE DEF g, id, known
  <2>1. CASE g[id].refcount > 1 /\ heap' = [g EXCEPT ![id].refcount = @ - 1]
    <3>1. g \in [Ids -> Object] /\ g[id] \in Object
      BY <1>3 DEF Sound, Shape
    <3>2. heap'[id].added = g[id].added
      BY <1>3, <2>1, <3>1 DEF Object
    <3> QED BY <1>7, <2>1, <3>2
  <2>2. CASE /\ g[id].refcount = 1
             /\ heap' = generic_unregister(
                          Stripped([g EXCEPT ![id].refcount = @ - 1], tree, id), id)
    <3>1. heap'[id] = Freed
      BY <1>3, <2>2 DEF generic_unregister
    <3> QED BY <3>1 DEF Freed
  <2> QED BY <1>1, <2>1, <2>2 DEF object_path_unref
<1> HIDE DEF g, id, known, h
<1>9. \A q, k : <<q, k>> \in y <=> \/ <<q, k>> \in crossed /\ <<q, k>> # <<p, n>>
                                   \/ q = p /\ k \in lost
  OBVIOUS
<1> HIDE DEF y
<1>10. Mirrored(heap, tree, misplaced, r, view, crossed)
  BY DetachedMirrored
<1>11. Mirrored(h, tree, misplaced, r, view, y)
  <2>1. r # 0 => n # ObjectManager
    BY ConstAssumption
  <2>2. CrossedApart(y, crossed, p) /\ \A k : k # n /\ <<p, k>> \in crossed => <<p, k>> \in y
    BY <1>9 DEF CrossedApart
  <2>3. r # 0 /\ p # Root /\ n \in heap[id].interfaces
          /\ (id \in misplaced \/ n \in heap[id].added)
            => <<p, n>> \in y \/ Known(view, p, n) = {}
    BY <1>1, <1>8, <1>9
  <2>4. n \notin heap[id].interfaces => (<<p, n>> \in crossed => <<p, n>> \in y)
    BY <1>1
  <2> HIDE DEF lost
  <2> QED BY <1>2, <1>3, <1>4, <1>5, <1>10, <2>1, <2>2, <2>3, <2>4, RemoveMirrored DEF h
<1>12. Mirrored(g, tree, misplaced, r, view, y)
  BY <1>7, <1>11, <1>a, AlikeMirrored
<1>13. /\ SeenApart(known, view, p)
       /\ \A k : Known(known, p, k) # {} => Known(view, p, k) # {}
       /\ \A k : k # n => Known(known, p, k) = Known(view, p, k)
  BY HearChanged DEF known
<1>14. Mirrored(g, tree, misplaced, r, known, y)
  <2>1. FreshAt(g, tree, view, y, p) => FreshAt(g, tree, known, y, p)
    BY <1>13, FreshNames
  <2>2. CompleteAt(g, tree, misplaced, view, y, p)
          => CompleteAt(g, tree, misplaced, known, y, p)
    <3>1. \A k \in g[tree[p]].interfaces : Known(known, p, k) = Known(view, p, k)
      BY <1>7, <1>13 DEF id
    <3> QED BY <3>1 DEF CompleteAt
  <2>3. MirroredAt(g, tree, misplaced, r, known, y, p)
    BY <1>12, <2>1, <2>2 DEF MirroredAt, Mirrored
  <2>4. HeapApart(g, g, id, misplaced) /\ CrossedApart(y, y, p)
    BY DEF HeapApart, Alike, CrossedApart
  <2>5. Waits(g, misplaced, id) /\ Managed(g, tree, r)
    BY <1>3, <1>12 DEF Mirrored
  <2>6. Placed(tree, p, id)
    BY <1>2, <1>4, <1>5, <1>a, OwnIds DEF Placed, id
  <2> QED BY <1>3, <1>12, <1>13, <2>3, <2>4, <2>5, <2>6, ChangedIn
<1>15. g[id].refcount = 1 => OwnCrossed(g, misplaced, r, known, y, id)
  <2> SUFFICES ASSUME g[id].refcount = 1, NEW k \in g[id].interfaces,
                      id \in misplaced \/ k \in g[id].added
               PROVE  <<p, k>> \in y
    BY <1>3 DEF OwnCrossed
  <2> QED BY <1>7, <1>8, <1>9
<1>16. r = 0 \/ r = root
  OBVIOUS
<1>17. \/ /\ g[id].refcount > 1
          /\ Mirrored(heap', tree', misplaced, r, view', y)
       \/ /\ g[id].refcount = 1
          /\ Mirrored(heap', tree', misplaced \cup Displaced(tree, g[id].path), r, view', y)
  BY <1>1, <1>2, <1>3, <1>14, <1>15, <1>16, UnrefMirrored
<1>18. \/ g[id].refcount > 1 /\ misplaced' = misplaced
       \/ /\ g[id].refcount = 1
          /\ misplaced' = misplaced \cup Displaced(tree, g[id].path)
  BY <1>1 DEF object_path_unref, Displaced
<1> QED BY <1>1, <1>17, <1>18

-----------------------------------------------------------------------------
(* The answer to GetManagedObjects *)

LEMMA AboveAbove ==
  ASSUME NEW o \in Paths, NEW q \in Paths, NEW p \in Paths,
         IsStrictPrefix(o, q), IsStrictPrefix(q, p)
  PROVE  IsStrictPrefix(o, p)
<1>1. o \in Seq(Range(o)) /\ q \in Seq(Range(q)) /\ p \in Seq(Range(p))
  BY ConstAssumption
<1>2. /\ Len(o) \in Nat /\ Len(q) \in Nat /\ Len(p) \in Nat
      /\ Len(o) < Len(q) /\ Len(q) < Len(p)
  BY StrictlyLonger
<1>3. /\ SubSeq(o, 1, Len(o)) = SubSeq(q, 1, Len(o))
      /\ SubSeq(q, 1, Len(q)) = SubSeq(p, 1, Len(q))
      /\ SubSeq(q, 1, Len(q)) = q
  BY <1>1, SubSeqFull DEF IsStrictPrefix, IsPrefix
<1>4. SubSeq(SubSeq(p, 1, Len(q)), 1, Len(o)) = SubSeq(p, 1, Len(o))
  <2>1. \A i \in 1 .. Len(o) : i \in 1 .. Len(q) - 1 + 1
    BY <1>2
  <2>2. SubSeq(SubSeq(p, 1, Len(q)), 1, Len(o)) = SubSeq(p, 1 + 1 - 1, 1 + Len(o) - 1)
    BY <1>1, <1>2, SubSeqOfSubSeq
  <2>3. 1 + 1 - 1 = 1 /\ 1 + Len(o) - 1 = Len(o)
    BY <1>2
  <2> QED BY <2>2, <2>3
<1>5. SubSeq(o, 1, Len(o)) = SubSeq(p, 1, Len(o))
  BY <1>3, <1>4
<1> QED BY <1>2, <1>5 DEF IsStrictPrefix, IsPrefix

LEMMA ReachableIs ==
  ASSUME NEW h, NEW r \in Ids, \A i \in Ids : h[i].objects \subseteq Ids
  PROVE  /\ Reachable(h, r) \subseteq Ids
         /\ h[r].objects \subseteq Reachable(h, r)
         /\ \A d \in Reachable(h, r) : h[d].objects \subseteq Reachable(h, r)
         /\ Whole(h) => \A i \in Reachable(h, r) : h[i].live
<1> DEFINE Closed(S) == h[r].objects \subseteq S /\ (\A d \in S : h[d].objects \subseteq S)
<1>1. \A i : i \in Reachable(h, r) <=>
               i \in Ids /\ \A S \in SUBSET Ids : Closed(S) => i \in S
  BY DEF Reachable
<1>2. h[r].objects \subseteq Reachable(h, r)
  BY <1>1
<1>3. \A d \in Reachable(h, r) : h[d].objects \subseteq Reachable(h, r)
  BY <1>1
<1>4. ASSUME Whole(h)
      PROVE  \A i \in Reachable(h, r) : h[i].live
  <2> DEFINE L == {i \in Ids : h[i].live}
  <2>1. L \in SUBSET Ids /\ Closed(L)
    BY <1>4 DEF Whole
  <2> HIDE DEF L
  <2>2. \A i \in Reachable(h, r) : i \in L
    BY <1>1, <2>1
  <2> QED BY <2>2 DEF L
<1> QED BY <1>1, <1>2, <1>3, <1>4

(* Objects below the manager's, none of which came or went above them.      *)
LEMMA SteadyReached ==
  ASSUME NEW m \in Nat, m <= MaxObjects, NEW h, NEW t, NEW mis, NEW r \in Ids,
         Shape(h, t, m), Owned(h, t), Links(h, t, mis), t[Root] = r,
         NEW p \in Paths \ {Root}, t[p] # 0, Steady(mis, t, p)
  PROVE  t[p] \in Reachable(h, r)
<1> DEFINE Missed == {q \in Paths \ {Root} : t[q] # 0 /\ Steady(mis, t, q)
                                             /\ t[q] \notin Reachable(h, r)}
<1>0. \A i \in Ids : h[i].objects \subseteq Ids
  BY DEF Shape, Object
<1>1. \A q \in Paths : t[q] # 0 => t[q] \in Ids
  BY OwnIds
<1>2. ASSUME NEW b \in Missed
      PROVE  \E q \in Missed : Len(q) < Len(b)
  <2>1. /\ b \in Paths \ {Root} /\ t[b] # 0 /\ Steady(mis, t, b)
        /\ t[b] \notin Reachable(h, r)
    OBVIOUS
  <2>2. Root \in Above(t, b)
    BY <2>1, RootAbove, ConstAssumption DEF Above, Ids
  <2>3. PICK q \in Above(t, b) : Parent(t, b) = t[q]
    BY <2>1, <2>2, ParentAbove
  <2>4. q \in Paths /\ IsStrictPrefix(q, b) /\ t[q] # 0
    BY <2>3 DEF Above
  <2>5. t[b] \notin mis /\ t[b] \in Ids /\ h[t[b]].live /\ h[t[b]].path = b
    BY <1>1, <2>1 DEF Steady, Around, Owned
  <2>6. t[b] \in h[t[q]].objects
    <3>1. h[t[b]].parent = t[q] /\ t[q] \in Ids
      BY <1>1, <2>3, <2>4, <2>5 DEF Links, Agrees
    <3> QED BY <2>5, <3>1 DEF Links, Agrees
  <2>7. q # Root /\ t[q] \notin Reachable(h, r)
    <3>1. /\ h[r].objects \subseteq Reachable(h, r)
          /\ \A d \in Reachable(h, r) : h[d].objects \subseteq Reachable(h, r)
      BY <1>0, ReachableIs
    <3> QED BY <2>1, <2>6, <3>1
  <2>8. Steady(mis, t, q)
    <3>1. Above(t, q) \cup {q} \subseteq Above(t, b)
      BY <2>1, <2>3, <2>4, AboveAbove DEF Above
    <3>2. Around(t, q) \subseteq Around(t, b)
      BY <3>1 DEF Around
    <3> QED BY <2>1, <3>2 DEF Steady
  <2>9. q \in Missed
    BY <2>4, <2>7, <2>8
  <2> QED BY <2>1, <2>4, <2>9, StrictlyLonger
<1>3. Missed = {}
  <2> SUFFICES ASSUME Missed # {} PROVE FALSE
    OBVIOUS
  <2> DEFINE T == {Len(q) : q \in Missed}
  <2>1. \A q \in Paths : Len(q) \in Nat
    BY ConstAssumption, LenProperties
  <2>2. T \in SUBSET Nat /\ T # {}
    BY <2>1
  <2>3. PICK k \in T : \A l \in T : k <= l
    <3> HIDE DEF T
    <3> QED BY <2>2, LeastNat
  <2>4. PICK b \in Missed : k = Len(b)
    BY <2>3
  <2>5. PICK q \in Missed : Len(q) < Len(b)
    BY <1>2
  <2>6. Len(q) \in T /\ Len(q) \in Nat /\ Len(b) \in Nat
    BY <2>1
  <2> QED BY <2>3, <2>4, <2>5, <2>6
<1> QED BY <1>3

(* Whoever asks has it all. *)
LEMMA Listed ==
  ASSUME NEW m \in Nat, m <= MaxObjects, NEW h, NEW t, NEW mis, NEW r \in Ids,
         Shape(h, t, m), Owned(h, t), Links(h, t, mis), Whole(h), t[Root] = r,
         NEW v, v = ManagedObjects(h, r), NEW p \in Paths \ {Root}
  PROVE  FreshAt(h, t, v, {}, p) /\ CompleteAt(h, t, mis, v, {}, p)
<1>0. \A i \in Ids : h[i].objects \subseteq Ids /\ h[i].path \in Paths
  BY DEF Shape, Object
<1>1. \A i \in Reachable(h, r) : i \in Ids /\ h[i].live /\ t[h[i].path] = i /\ i # 0
  BY <1>0, ReachableIs DEF Owned, Ids
<1>2. \A e : e \in v <=> \E i \in Reachable(h, r) : e \in Entries(h[i].path, h[i].interfaces)
  BY DEF ManagedObjects
<1>3. ASSUME NEW e \in v, e.path = p
      PROVE  t[p] # 0 /\ e.name \in h[t[p]].interfaces /\ e = Entry(p, e.name)
  <2>1. PICK i \in Reachable(h, r) : e \in Entries(h[i].path, h[i].interfaces)
    BY <1>2
  <2>2. e.path = h[i].path /\ e.name \in h[i].interfaces /\ e = Entry(h[i].path, e.name)
    BY <2>1, EntryOf
  <2> QED BY <1>1, <1>3, <2>2
<1>4. FreshAt(h, t, v, {}, p)
  BY <1>3 DEF FreshAt
<1>5. ASSUME t[p] # 0, Steady(mis, t, p), NEW n \in h[t[p]].interfaces
      PROVE  Known(v, p, n) = {Entry(p, n)}
  <2>1. t[p] \in Reachable(h, r) /\ h[t[p]].path = p
    BY <1>5, SteadyReached DEF Owned
  <2>2. Entry(p, n) \in v /\ Entry(p, n).path = p /\ Entry(p, n).name = n
    BY <1>2, <1>5, <2>1, EntryOf
  <2>3. \A e \in v : e.path = p /\ e.name = n => e = Entry(p, n)
    BY <1>3
  <2> QED BY <2>2, <2>3 DEF Known
<1>6. CompleteAt(h, t, mis, v, {}, p)
  BY <1>5 DEF CompleteAt
<1> QED BY <1>4, <1>6

LEMMA AttachMirrored ==
  ASSUME Inv, Intact, g_dbus_attach_object_manager,
         Mirrored(heap, tree, misplaced, root, view, crossed)
  PROVE  Mirrored(heap', tree', misplaced', root', view', crossed')
<1> DEFINE p == Root
           m == IF tree[p] = 0 THEN made + 1 ELSE made
           id == IdAt(p)
           h == object_path_ref(p)
           t == [tree EXCEPT ![p] = id]
           mis == IF tree[p] # 0 THEN misplaced
                  ELSE misplaced \cup Displaced(tree, p)
           g == add_interface(h, id, ObjectManager)
<1>0. p \in Paths
  BY ConstAssumption
<1>1. /\ m \in Nat /\ m <= MaxObjects
      /\ id \in Ids /\ h[id].live = TRUE /\ Whole(h) /\ t[p] = id
      /\ Sound(h, t, m, mis, root, id)
  BY <1>0, Referenced, Zenon DEF g_dbus_attach_object_manager
<1>2. Made(Root) /\ root = 0 /\ root' = id
      /\ view' = ManagedObjects(g, id) /\ crossed' = {}
  BY DEF g_dbus_attach_object_manager
<1>3. heap' = g /\ tree' = t /\ misplaced' = mis
  BY DEF g_dbus_attach_object_manager, Kept, Displaced
<1>4. Mirrored(h, t, mis, 0, view, crossed)
  BY <1>0, <1>2, RefMirrored
<1> HIDE DEF m, id, h, t, mis
<1>5. /\ h \in [Ids -> Object] /\ Shape(h, t, m) /\ Owned(h, t) /\ Links(h, t, mis)
      /\ ObjectManager \in Ifaces \cup Own
  BY <1>1 DEF Sound, Shape, Own
<1>6. Mirrored(g, t, mis, 0, view, crossed)
  BY <1>1, <1>4, <1>5, AddMirrored
<1>7. /\ Shape(g, t, m) /\ Owned(g, t) /\ Links(g, t, mis) /\ Whole(g)
  BY <1>1, <1>5, AddKeeps
<1>8. ObjectManager \in g[id].interfaces
  BY <1>1, <1>5, AddWrites
<1> HIDE DEF g
<1>9. \A q \in Paths \ {Root} :
         FreshAt(g, t, view', {}, q) /\ CompleteAt(g, t, mis, view', {}, q)
  BY <1>1, <1>2, <1>7, Listed
<1>10. Mirrored(g, t, mis, id, view', {})
  BY <1>1, <1>6, <1>8, <1>9 DEF Mirrored, Managed
<1> QED BY <1>2, <1>3, <1>10

LEMMA GetObjectsMirrored ==
  ASSUME Inv, Intact, get_objects,
         Mirrored(heap, tree, misplaced, root, view, crossed)
  PROVE  Mirrored(heap', tree', misplaced', root', view', crossed')
<1>1. /\ root # 0 /\ view' = ManagedObjects(heap, root) /\ crossed' = {}
      /\ UNCHANGED <<tree, heap, root, misplaced>>
  BY DEF get_objects
<1>2. made \in Nat /\ made <= MaxObjects
      /\ Sound(heap, tree, made, misplaced, root, 0) /\ Whole(heap)
  BY ConstAssumption, IntactWhole DEF Inv
<1>3. root \in Ids /\ tree[Root] = root
  BY <1>1, <1>2, OwnIds, ConstAssumption DEF Mirrored, Managed, Sound
<1>4. \A q \in Paths \ {Root} :
         /\ FreshAt(heap, tree, view', {}, q)
         /\ CompleteAt(heap, tree, misplaced, view', {}, q)
  BY <1>1, <1>2, <1>3, Listed DEF Sound
<1>5. Mirrored(heap, tree, misplaced, root, view', {})
  BY <1>4 DEF Mirrored
<1> QED BY <1>1, <1>5

(* What is announced is not known to be otherwise any more. *)
LEMMA ProcessMirrored ==
  ASSUME Inv, NEW id \in Ids, process_changes(id),
         Mirrored(heap, tree, misplaced, root, view, crossed)
  PROVE  Mirrored(heap', tree', misplaced', root', view', crossed')
<1> DEFINE p == heap[id].path
           o == heap[id]
           g == Announced(heap, id)
           w == Changes(view, heap, id)
           y == IF Announces(id)
                THEN crossed \cup {<<p, n>> : n \in o.added \cap o.removed}
                ELSE crossed
<1>1. /\ heap[id].live /\ heap[id].idle
      /\ heap' = g /\ view' = w /\ crossed' = y
      /\ UNCHANGED <<tree, root, misplaced>>
  BY DEF process_changes
<1>2. made \in Nat /\ made <= MaxObjects
      /\ Sound(heap, tree, made, misplaced, root, 0)
  BY ConstAssumption DEF Inv
<1>3. /\ heap \in [Ids -> Object] /\ heap[id] \in Object
      /\ Shape(heap, tree, made) /\ Owned(heap, tree)
      /\ Links(heap, tree, misplaced)
  BY <1>2 DEF Sound, Shape
<1>4. p \in Paths /\ tree[p] = id /\ id # 0
  BY <1>1, <1>3 DEF Owned, Object, Ids
<1>5. /\ \A i \in Ids \ {id} : g[i] = heap[i]
      /\ g[id].live = heap[id].live /\ g[id].path = p
      /\ g[id].interfaces = heap[id].interfaces
      /\ g[id].parent = heap[id].parent
      /\ g[id].pending = {}
      /\ Announces(id) => g[id].added = {} /\ g[id].removed = {}
      /\ ~Announces(id) => g[id].added = heap[id].added
                           /\ g[id].removed = heap[id].removed
  <2>1. CASE Announces(id)
    BY <1>3, <2>1 DEF Announced, Object
  <2>2. CASE ~Announces(id)
    BY <1>3, <2>2 DEF Announced, Object
  <2> QED BY <2>1, <2>2
<1> HIDE DEF g
<1>6. Placed(tree, p, id)
  BY <1>2, <1>3, <1>4, OwnIds DEF Placed
<1>7. Waits(heap, misplaced, id) /\ Managed(heap, tree, root)
  BY <1>1 DEF Mirrored
<1>8. Waits(g, misplaced, id)
  <2>1. CASE Announces(id)
    BY <1>5, <2>1 DEF Waits
  <2>2. CASE ~Announces(id)
    BY <1>5, <1>7, <2>2 DEF Waits
  <2> QED BY <2>1, <2>2
<1>9. Managed(g, tree, root)
  <2>1. root # 0 => tree[Root] = root /\ root \in Ids
                    /\ ObjectManager \in heap[root].interfaces
    BY <1>6, <1>7, ConstAssumption DEF Managed, Placed
  <2> QED BY <1>5, <2>1 DEF Managed
<1>10. HeapApart(g, heap, id, misplaced)
  BY <1>5 DEF HeapApart, Alike
<1>11. SeenApart(w, view, p) /\ CrossedApart(y, crossed, p)
  <2>1. SeenApart(w, view, p)
    BY ChangesElsewhere
  <2>2. CrossedApart(y, crossed, p)
    BY DEF CrossedApart
  <2> QED BY <2>1, <2>2
<1>12. ASSUME root # 0, p # Root
       PROVE  /\ FreshAt(g, tree, w, y, p)
              /\ CompleteAt(g, tree, misplaced, w, y, p)
  <2>1. Announces(id)
    <3>1. root # id
      BY <1>3, <1>4, <1>7, <1>12, ConstAssumption DEF Managed, Owned
    <3> QED BY <1>4, <1>12, <3>1 DEF Announces
  <2>2. /\ \A n \in o.removed : Known(w, p, n) = {}
        /\ \A n : n \notin o.removed =>
             /\ n \in o.added => Known(w, p, n) = {Entry(p, n)}
             /\ n \in o.pending /\ Known(view, p, n) # {}
                  => Known(w, p, n) = {Entry(p, n)}
             /\ n \notin o.added /\ n \notin o.pending
                  => Known(w, p, n) = Known(view, p, n)
             /\ n \notin o.added /\ Known(view, p, n) = {}
                  => Known(w, p, n) = {}
    BY <2>1, ChangesTell
  <2>3. \A n : /\ <<p, n>> \in crossed => <<p, n>> \in y
               /\ n \in o.added \cap o.removed => <<p, n>> \in y
    BY <2>1
  <2>4. /\ FreshAt(heap, tree, view, crossed, p)
        /\ CompleteAt(heap, tree, misplaced, view, crossed, p)
    BY <1>4, <1>12 DEF Mirrored
  <2>5. o.added \subseteq o.interfaces
    BY <1>3 DEF Shape
  <2> HIDE DEF w, y, p, o
  <2>6. FreshAt(g, tree, w, y, p)
    <3> SUFFICES ASSUME NEW n, Known(w, p, n) # {}, <<p, n>> \notin y
                 PROVE  n \in o.interfaces
      BY <1>4, <1>5, FreshNames DEF o
    <3>1. n \notin o.removed
      BY <2>2
    <3>2. CASE n \in o.added
      BY <2>5, <3>2
    <3>3. CASE n \notin o.added
      <4>1. Known(view, p, n) # {} /\ <<p, n>> \notin crossed
        BY <2>2, <2>3, <3>1, <3>3
      <4>2. n \in o.interfaces \/ n \in o.removed
        BY <1>4, <2>4, <4>1, FreshNames DEF o
      <4> QED BY <3>1, <4>2
    <3> QED BY <3>2, <3>3
  <2>7. CompleteAt(g, tree, misplaced, w, y, p)
    <3> SUFFICES ASSUME Steady(misplaced, tree, p),
                        NEW n \in o.interfaces, <<p, n>> \notin y
                 PROVE  Known(w, p, n) = {Entry(p, n)}
      BY <1>4, <1>5 DEF CompleteAt, o
    <3>1. id \notin misplaced
      BY <1>4 DEF Steady, Around
    <3>2. n \notin o.removed
      BY <1>7, <2>3, <3>1 DEF Waits, o
    <3>3. CASE n \in o.added
      BY <2>2, <3>2, <3>3
    <3>4. CASE n \notin o.added
      <4>1. \/ Known(view, p, n) = {Entry(p, n)}
            \/ n \in o.pending /\ Known(view, p, n) # {}
        BY <1>4, <2>3, <2>4, <3>4 DEF CompleteAt, o
      <4> QED BY <2>2, <3>2, <3>4, <4>1
    <3> QED BY <3>3, <3>4
  <2> QED BY <2>6, <2>7
<1>13. MirroredAt(g, tree, misplaced, root, w, y, p)
  BY <1>12 DEF MirroredAt
<1> HIDE DEF w, y, p
<1>14. Mirrored(g, tree, misplaced, root, w, y)
  BY <1>4, <1>6, <1>8, <1>9, <1>10, <1>11, <1>13, ChangedIn
<1> QED BY <1>1, <1>14

LEMMA IntrospectMirrored ==
  ASSUME Inv, NEW p \in Paths, introspect(p),
         Mirrored(heap, tree, misplaced, root, view, crossed)
  PROVE  Mirrored(heap', tree', misplaced', root', view', crossed')
<1> DEFINE id == tree[p]
<1>1. /\ id # 0
      /\ heap' = [heap EXCEPT ![id].introspect = Content(id)]
      /\ UNCHANGED <<tree, misplaced, root, view, crossed>>
  BY DEF introspect
<1>2. made \in Nat /\ made <= MaxObjects
      /\ Sound(heap, tree, made, misplaced, root, 0)
  BY ConstAssumption DEF Inv
<1>3. \A q \in Paths : tree[q] # 0 => tree[q] \in Ids
  BY <1>2, OwnIds DEF Sound
<1>4. id \in Ids /\ heap \in [Ids -> Object] /\ heap[id] \in Object
  BY <1>1, <1>2, <1>3 DEF Sound, Shape
<1> HIDE DEF id
<1>5. \A i \in Ids : /\ Alike(heap'[i], heap[i])
                     /\ heap'[i].live /\ i \notin misplaced
                          => heap'[i].parent = heap[i].parent
  BY <1>1, <1>4 DEF Object, Alike
<1>6. Mirrored(heap', tree, misplaced, root, view, crossed)
  BY <1>3, <1>5, AlikeMirrored
<1> QED BY <1>1, <1>6

(* The invariant of the listener.                                           *)
MirrorInv ==
    /\ value \in [Paths -> [WithProperties -> 0 .. 1]]
    /\ Mirrored(heap, tree, misplaced, root, view, crossed)

LEMMA SameValues ==
  ASSUME MirrorInv, value' = value,
         Mirrored(heap', tree', misplaced', root', view', crossed')
  PROVE  MirrorInv'
<1>1. \A p, n : Entry(p, n)' = Entry(p, n)
  BY DEF Entry, Value
<1>2. \A p : CompleteAt(heap, tree, misplaced, view, crossed, p)'
             <=> CompleteAt(heap', tree', misplaced', view', crossed', p)
  BY <1>1 DEF CompleteAt
<1> QED BY <1>2 DEF MirrorInv, Mirrored

(* The change of a property waits: until then the listener has some value.  *)
LEMMA PropertyMirrored ==
  ASSUME Inv, NEW p \in Paths, NEW n \in Ifaces,
         g_dbus_emit_property_changed(p, n), MirrorInv
  PROVE  MirrorInv'
<1> DEFINE id == tree[p]
<1>1. /\ n \in WithProperties /\ id # 0
      /\ value' = [value EXCEPT ![p][n] = 1 - @]
      /\ heap' = [heap EXCEPT ![id].pending = @ \cup {n}, ![id].idle = TRUE]
      /\ UNCHANGED <<tree, misplaced, root, view, crossed>>
  BY DEF g_dbus_emit_property_changed
<1>2. made \in Nat /\ made <= MaxObjects
      /\ Sound(heap, tree, made, misplaced, root, 0)
  BY ConstAssumption DEF Inv
<1>3. /\ \A q \in Paths : tree[q] # 0 => tree[q] \in Ids
      /\ \A q \in Paths \ {p} : tree[q] # id
  BY <1>1, <1>2, OwnIds DEF Sound
<1>4. id \in Ids /\ heap \in [Ids -> Object] /\ heap[id] \in Object
  BY <1>1, <1>2, <1>3 DEF Sound, Shape
<1>a. tree[p] = id
  OBVIOUS
<1> HIDE DEF id
<1>5. /\ \A i \in Ids \ {id} : heap'[i] = heap[i]
      /\ heap'[id].live = heap[id].live
      /\ heap'[id].interfaces = heap[id].interfaces
      /\ heap'[id].added = heap[id].added
      /\ heap'[id].removed = heap[id].removed
      /\ heap'[id].parent = heap[id].parent
      /\ heap'[id].pending = heap[id].pending \cup {n}
      /\ heap'[id].idle = TRUE
  BY <1>1, <1>4 DEF Object
<1>6. value' \in [Paths -> [WithProperties -> 0 .. 1]]
  <2>1. \A v \in 0 .. 1 : 1 - v \in 0 .. 1
    OBVIOUS
  <2>2. value[p] \in [WithProperties -> 0 .. 1] /\ value[p][n] \in 0 .. 1
    BY <1>1 DEF MirrorInv
  <2> QED BY <1>1, <2>1, <2>2 DEF MirrorInv
<1>7. \A q \in Paths : \A k : q # p \/ k # n => Entry(q, k)' = Entry(q, k)
  <2> SUFFICES ASSUME NEW q \in Paths, NEW k, q # p \/ k # n
               PROVE  Entry(q, k)' = Entry(q, k)
    OBVIOUS
  <2>1. k \in WithProperties => value'[q][k] = value[q][k]
    <3>1. value[q] \in [WithProperties -> 0 .. 1] /\ value[p] \in [WithProperties -> 0 .. 1]
      BY DEF MirrorInv
    <3>2. CASE q # p
      BY <1>1, <3>2 DEF MirrorInv
    <3>3. CASE q = p /\ k # n
      BY <1>1, <3>1, <3>3 DEF MirrorInv
    <3> QED BY <3>2, <3>3
  <2> QED BY <2>1 DEF Entry, Value
<1>8. Mirrored(heap, tree, misplaced, root, view, crossed)
  BY DEF MirrorInv
<1>9. ASSUME NEW i \in Ids, heap'[i].live
      PROVE  Waits(heap', misplaced, i)
  <2>1. Waits(heap, misplaced, i)
    BY <1>5, <1>8, <1>9 DEF Mirrored
  <2>2. CASE i = id
    BY <1>5, <2>1, <2>2 DEF Waits
  <2>3. CASE i # id
    BY <1>5, <2>1, <2>3 DEF Waits
  <2> QED BY <2>2, <2>3
<1>10. Managed(heap', tree, root)
  <2>1. root # 0 => tree[Root] = root /\ root \in Ids
                    /\ ObjectManager \in heap[root].interfaces
    BY <1>3, <1>8, ConstAssumption DEF Mirrored, Managed
  <2> QED BY <1>5, <2>1 DEF Managed
<1>11. ASSUME root # 0, NEW q \in Paths \ {Root}
       PROVE  /\ FreshAt(heap', tree, view, crossed, q)
              /\ CompleteAt(heap, tree, misplaced, view, crossed, q)'
  <2>1. /\ FreshAt(heap, tree, view, crossed, q)
        /\ CompleteAt(heap, tree, misplaced, view, crossed, q)
    BY <1>8, <1>11 DEF Mirrored
  <2>2. tree[q] # 0 =>
          /\ heap'[tree[q]].interfaces = heap[tree[q]].interfaces
          /\ heap'[tree[q]].added = heap[tree[q]].added
          /\ heap'[tree[q]].removed = heap[tree[q]].removed
          /\ heap[tree[q]].pending \subseteq heap'[tree[q]].pending
          /\ heap[tree[q]].idle => heap'[tree[q]].idle
          /\ q = p => n \in heap'[tree[q]].pending
    BY <1>3, <1>5, <1>a
  <2>3. FreshAt(heap', tree, view, crossed, q)
    BY <2>1, <2>2 DEF FreshAt
  <2>4. CompleteAt(heap, tree, misplaced, view, crossed, q)'
    <3> SUFFICES ASSUME tree[q] # 0, Steady(misplaced, tree, q),
                        NEW k \in heap[tree[q]].interfaces, <<q, k>> \notin crossed
                 PROVE  \/ k \in heap'[tree[q]].added /\ heap'[tree[q]].idle
                        \/ Known(view, q, k) = {Entry(q, k)'}
                        \/ k \in heap'[tree[q]].pending /\ Known(view, q, k) # {}
      BY <1>1, <2>2 DEF CompleteAt
    <3>1. \/ k \in heap[tree[q]].added /\ heap[tree[q]].idle
          \/ Known(view, q, k) = {Entry(q, k)}
          \/ k \in heap[tree[q]].pending /\ Known(view, q, k) # {}
      BY <2>1 DEF CompleteAt
    <3>2. CASE q = p /\ k = n
      BY <2>2, <3>1, <3>2
    <3>3. CASE q # p \/ k # n
      <4>1. Entry(q, k)' = Entry(q, k)
        BY <1>7, <3>3
      <4> QED BY <2>2, <3>1, <4>1
    <3> QED BY <3>2, <3>3
  <2> QED BY <2>3, <2>4
<1>12. Mirrored(heap, tree, misplaced, root, view, crossed)'
  BY <1>1, <1>9, <1>10, <1>11 DEF Mirrored
<1> QED BY <1>6, <1>12 DEF MirrorInv

LEMMA MirrorInit ==
  ASSUME Init
  PROVE  MirrorInv
<1>1. value \in [Paths -> [WithProperties -> 0 .. 1]] /\ root = 0
  BY DEF Init
<1>2. \A id \in Ids : ~heap[id].live
  BY DEF Init, Freed
<1> QED BY <1>1, <1>2 DEF MirrorInv, Mirrored, Managed

LEMMA MirrorStep ==
  ASSUME Inv, MirrorInv, [Next]_vars
  PROVE  MirrorInv'
<1>0. Mirrored(heap, tree, misplaced, root, view, crossed)
  BY DEF MirrorInv
<1>1. ASSUME Intact, NEW p \in Paths, NEW n \in Ifaces, g_dbus_register_interface(p, n)
      PROVE  MirrorInv'
  <2>1. value' = value
    BY <1>1 DEF g_dbus_register_interface
  <2> QED BY <1>0, <1>1, <2>1, RegisterMirrored, SameValues
<1>2. ASSUME Intact, NEW p \in Paths, NEW n \in Ifaces, g_dbus_unregister_interface(p, n)
      PROVE  MirrorInv'
  <2>1. value' = value /\ root' = root /\ unregister_interface(p, n)
    BY <1>2 DEF g_dbus_unregister_interface
  <2>2. n \in Ifaces \cup {ObjectManager} /\ (n \in Ifaces /\ root = root)
    OBVIOUS
  <2>3. Mirrored(heap', tree', misplaced', root, view', crossed')
    BY <1>0, <1>2, <2>1, <2>2, UnregisterMirrored
  <2> QED BY <2>1, <2>3, SameValues
<1>3. ASSUME NEW p \in Paths, NEW n \in Ifaces, g_dbus_emit_property_changed(p, n)
      PROVE  MirrorInv'
  BY <1>3, PropertyMirrored
<1>4. ASSUME Intact, g_dbus_attach_object_manager
      PROVE  MirrorInv'
  <2>1. value' = value
    BY <1>4 DEF g_dbus_attach_object_manager
  <2> QED BY <1>0, <1>4, <2>1, AttachMirrored, SameValues
<1>5. ASSUME Intact, g_dbus_detach_object_manager
      PROVE  MirrorInv'
  <2>1. value' = value /\ root' = 0 /\ unregister_interface(Root, ObjectManager)
    BY <1>5 DEF g_dbus_detach_object_manager
  <2>2. Root \in Paths /\ ObjectManager \in Ifaces \cup {ObjectManager}
        /\ (ObjectManager = ObjectManager /\ 0 = 0)
    BY ConstAssumption
  <2>3. Mirrored(heap', tree', misplaced', 0, view', crossed')
    BY <1>0, <1>5, <2>1, <2>2, UnregisterMirrored
  <2> QED BY <2>1, <2>3, SameValues
<1>6. ASSUME NEW id \in Ids, process_changes(id)
      PROVE  MirrorInv'
  <2>1. value' = value
    BY <1>6 DEF process_changes
  <2> QED BY <1>0, <1>6, <2>1, ProcessMirrored, SameValues
<1>7. ASSUME NEW p \in Paths, introspect(p)
      PROVE  MirrorInv'
  <2>1. value' = value
    BY <1>7 DEF introspect
  <2> QED BY <1>0, <1>7, <2>1, IntrospectMirrored, SameValues
<1>8. ASSUME Intact, get_objects
      PROVE  MirrorInv'
  <2>1. value' = value
    BY <1>8 DEF get_objects
  <2> QED BY <1>0, <1>8, <2>1, GetObjectsMirrored, SameValues
<1>9. CASE UNCHANGED vars
  <2>1. value' = value /\ Mirrored(heap', tree', misplaced', root', view', crossed')
    BY <1>0, <1>9 DEF vars
  <2> QED BY <2>1, SameValues
<1> QED BY <1>1, <1>2, <1>3, <1>4, <1>5, <1>6, <1>7, <1>8, <1>9
        DEF Next, Client, MainLoop

LEMMA InvMirror ==
  ASSUME Inv, MirrorInv
  PROVE  MirrorAccurate
<1> DEFINE clean(es, p) == {e \in es : <<p, e.name>> \notin crossed}
           here(p) == {e \in view : e.path = p}
           actual(p) == IF tree[p] = 0 THEN {}
                        ELSE Entries(p, heap[tree[p]].interfaces)
<1>1. ASSUME root # 0, NEW p \in Paths \ {Root},
             tree[p] = 0 \/ ~heap[tree[p]].idle, Steady(misplaced, tree, p)
      PROVE  clean(here(p), p) = clean(actual(p), p)
  <2>1. /\ FreshAt(heap, tree, view, crossed, p)
        /\ CompleteAt(heap, tree, misplaced, view, crossed, p)
    BY <1>1 DEF MirrorInv, Mirrored
  <2>2. CASE tree[p] = 0
    <3>1. \A e \in here(p) : <<p, e.name>> \in crossed
      BY <2>1, <2>2 DEF FreshAt
    <3> QED BY <2>2, <3>1
  <2>3. CASE tree[p] # 0
    <3> DEFINE id == tree[p]
               ns == heap[id].interfaces
    <3>1. id \in Ids /\ heap[id].live
      BY <2>3, OwnIds, ConstAssumption DEF Inv, Sound, Owned
    <3>2. ~heap[id].idle /\ heap[id].pending = {}
      BY <1>1, <2>3, <3>1 DEF MirrorInv, Mirrored, Waits
    <3>3. \A n \in ns : <<p, n>> \notin crossed => Known(view, p, n) = {Entry(p, n)}
      BY <1>1, <2>1, <2>3, <3>2 DEF CompleteAt
    <3>4. \A e \in here(p) : <<p, e.name>> \notin crossed
                               => e.name \in ns /\ e \in Known(view, p, e.name)
      BY <2>1, <3>2 DEF FreshAt, Known
    <3>5. actual(p) = Entries(p, ns)
      BY <2>3
    <3> HIDE DEF actual, ns
    <3>6. ASSUME NEW e \in clean(here(p), p)
          PROVE  e \in Entries(p, ns)
      <4>1. e.name \in ns /\ e = Entry(p, e.name)
        BY <3>3, <3>4
      <4> QED BY <4>1, EntryOf
    <3>7. ASSUME NEW e \in clean(Entries(p, ns), p)
          PROVE  e \in here(p)
      <4>1. e.path = p /\ e.name \in ns /\ e = Entry(p, e.name)
        BY EntryOf
      <4>2. e \in Known(view, p, e.name)
        BY <3>3, <4>1
      <4> QED BY <4>1, <4>2 DEF Known
    <3> QED BY <3>5, <3>6, <3>7
  <2> QED BY <2>2, <2>3
<1> HIDE DEF clean, here, actual
<1>2. root # 0 =>
        \A p \in Paths \ {Root} :
          (tree[p] = 0 \/ ~heap[tree[p]].idle) /\ Steady(misplaced, tree, p)
            => clean(here(p), p) = clean(actual(p), p)
  BY <1>1
<1> QED BY <1>2 DEF MirrorAccurate, Steady, Around, clean, here, actual

(* Once an object's source has run, the listener knows of its path what is  *)
(* there, but for what crossed: the interfaces, whichever came and went,    *)
(* and the values of their properties.                                      *)
THEOREM MirrorCorrect == Spec => []MirrorAccurate
<1>1. Init => MirrorInv
  BY MirrorInit
<1>2. Inv /\ MirrorInv /\ [Next]_vars => MirrorInv'
  BY MirrorStep
<1>3. Inv /\ MirrorInv => MirrorAccurate
  BY InvMirror
<1>4. Spec => []Inv
  BY Invariance
<1> QED BY <1>1, <1>2, <1>3, <1>4, PTL DEF Spec

=============================================================================
