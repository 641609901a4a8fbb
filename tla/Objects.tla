------------------------------- MODULE Objects -------------------------------
(***************************************************************************)
(* The objects this process exports on the bus (src/gdbus/object.c).       *)
(*                                                                         *)
(* An object is made when the first interface is registered at its path    *)
(* and goes with the last.  Objects know the next registered object above  *)
(* (parent) and those below (objects), each caches its introspection data, *)
(* and changes of interfaces and properties are put off to an idle source  *)
(* that announces them on behalf of the object manager at "/".             *)
(*                                                                         *)
(* A listener on the bus follows the announcements.  The clients are the   *)
(* environment: they register, unregister and change properties at will.   *)
(***************************************************************************)
EXTENDS Integers, Sequences, FiniteSets, SequencesExt

CONSTANTS
    Paths,           \* object paths as sequences of elements; << >> is "/"
    Ifaces,          \* the interfaces of clients
    WithProperties,  \* those that have a property
    Experimental,    \* those of which nothing is shown (check_experimental)
    None,            \* no introspection data
    MaxObjects,      \* bound: objects made
    MaxCalls,        \* bound: interfaces registered and unregistered
    MaxChanges       \* bound: changes of properties

VARIABLES
    tree,     \* libdbus: the object registered at each path, or 0
    heap,     \* struct generic_data of each object
    made,     \* objects made so far
    root,     \* the object the manager is attached to, or 0
    value,    \* the properties' values, kept by the clients
    view,     \* what the listener knows
    calls, changes,   \* bounds
    misplaced,        \* objects with one above that came or went since
    crossed           \* interfaces that went in silence, or were announced
                      \* as added and removed in one go

vars == <<tree, heap, made, root, value, view, calls, changes,
          misplaced, crossed>>

Root == << >>
Introspectable == "Introspectable"
Properties == "Properties"
ObjectManager == "ObjectManager"
Ids == 1 .. MaxObjects

ASSUME ConstAssumption ==
    /\ Root \in Paths
    /\ \A p \in Paths : p \in Seq(Range(p))
    /\ IsFiniteSet(Ifaces)
    /\ WithProperties \cup Experimental \subseteq Ifaces
    /\ WithProperties \cap Experimental = {}
    /\ {Introspectable, Properties, ObjectManager} \cap Ifaces = {}
    /\ {MaxObjects, MaxCalls, MaxChanges} \subseteq Nat

Freed == [live |-> FALSE, path |-> Root, refcount |-> 0, interfaces |-> {},
          objects |-> {}, added |-> {}, removed |-> {}, idle |-> FALSE,
          pending |-> {}, introspect |-> None, parent |-> 0]

(* Introspection data: the interfaces, and the elements below.              *)
Xml(ifaces, nodes) == [interfaces |-> ifaces, nodes |-> nodes]

-----------------------------------------------------------------------------
(* The signals and the listener *)

Value(p, n) == IF n \in WithProperties THEN value[p][n] ELSE 0

Entries(p, ns) == {[path |-> p, name |-> n, value |-> Value(p, n)] : n \in ns}

(* What the listener makes of a signal of type t about the interfaces ns at *)
(* p; changes of what it does not know mean nothing to it.  A signal about  *)
(* none is not sent: it would change nothing.                               *)
Hear(known, t, p, ns) ==
    LET named == {e \in known : e.path = p /\ e.name \in ns}
    IN  CASE t = "InterfacesAdded" -> (known \ named) \cup Entries(p, ns)
          [] t = "InterfacesRemoved" -> known \ named
          [] t = "PropertiesChanged" ->
               (known \ named)
                 \cup {e \in Entries(p, ns) : \E k \in named : k.name = e.name}

(* root == NULL || data == root: nothing is announced, and nothing cleared. *)
Announces(id) == root \notin {0, id}

process_properties(known, h, id) ==
    Hear(known, "PropertiesChanged", h[id].path, h[id].pending)

(* What the listener knows after the signals of process_changes: what was   *)
(* added, then what changed, then what was removed.                         *)
Changes(known, h, id) ==
    LET told(ns) == IF Announces(id) THEN ns ELSE {}
        added == Hear(known, "InterfacesAdded", h[id].path, told(h[id].added))
    IN  Hear(process_properties(added, h, id),
             "InterfacesRemoved", h[id].path, told(h[id].removed))

Announced(h, id) ==
    [h EXCEPT ![id].idle = FALSE, ![id].pending = {},
              ![id].added = IF Announces(id) THEN {} ELSE @,
              ![id].removed = IF Announces(id) THEN {} ELSE @]

-----------------------------------------------------------------------------
(* The tree *)

(* Paths above and below p at which t has an object. *)
Above(t, p) == {q \in Paths : IsStrictPrefix(q, p) /\ t[q] # 0}
Below(t, p) == {q \in Paths : IsStrictPrefix(p, q) /\ t[q] # 0}

(* The closest object above p, or 0. *)
Parent(t, p) ==
    IF Above(t, p) = {} THEN 0
    ELSE t[CHOOSE q \in Above(t, p) : \A r \in Above(t, p) : Len(r) <= Len(q)]

(* Faulty variant: only the closest object above is told.                   *)
invalidate_parent_data_keeping_cache(h, t, p) ==
    LET d == Parent(t, p)
        link == t[p] # 0 /\ d # 0
    IN  [id \in Ids |->
          [h[id] EXCEPT
             !.objects = IF link /\ id = d THEN @ \cup {t[p]} ELSE @,
             !.parent = IF link /\ id = t[p] /\ id \notin h[d].objects THEN d
                        ELSE @]]

(* The objects above p drop their introspection data, and each object from  *)
(* "/" down to p is linked to the closest one above, if it is not among its *)
(* objects.  A link it had to another stays.                                *)
invalidate_parent_data(h, t, p) ==
    LET chain == {q \in Above(t, p) \cup {p} : t[q] # 0 /\ Parent(t, q) # 0}
        dropped == {t[q] : q \in Above(t, p)}
    IN  [id \in Ids |->
          LET q == h[id].path
              linked == h[id].live /\ q \in chain
                          /\ id \notin h[Parent(t, q)].objects
          IN  [h[id] EXCEPT
                 !.introspect = IF id \in dropped THEN None ELSE @,
                 !.objects = @ \cup {t[r] : r \in {s \in chain : Parent(t, s) = id}},
                 !.parent = IF linked THEN Parent(t, q) ELSE @]]

-----------------------------------------------------------------------------
(* Interfaces *)

add_interface(h, id, n) ==
    [h EXCEPT ![id].interfaces = @ \cup {n},
              ![id].added = IF h[id].parent # 0 THEN @ \cup {n} ELSE @,
              ![id].idle = @ \/ h[id].parent # 0]

(* Faulty variant: an interface not yet announced is announced as removed.  *)
remove_interface_announced(h, id, n) ==
    LET told == n \in h[id].interfaces /\ h[id].parent # 0
    IN  [h EXCEPT ![id].interfaces = @ \ {n},
                  ![id].pending = @ \ {n},
                  ![id].removed = IF told THEN @ \cup {n} ELSE @,
                  ![id].idle = @ \/ told]

(* An interface whose addition was not announced goes in silence.           *)
remove_interface(h, id, n) ==
    LET told == /\ n \in h[id].interfaces \ h[id].added
                /\ h[id].parent # 0
    IN  [h EXCEPT ![id].interfaces = @ \ {n},
                  ![id].pending = @ \ {n},
                  ![id].added = @ \ {n},
                  ![id].removed = IF told THEN @ \cup {n} ELSE @,
                  ![id].idle = @ \/ told]

(* The id of the object at p, which is made if there is none.               *)
IdAt(p) == IF tree[p] # 0 THEN tree[p] ELSE made + 1

(* The placeholder an object starts with is "<node></node>".                *)
object_path_ref(p) ==
    IF tree[p] # 0 THEN [heap EXCEPT ![tree[p]].refcount = @ + 1]
    ELSE LET t == [tree EXCEPT ![p] = made + 1]
             h == [heap EXCEPT ![made + 1] =
                     [Freed EXCEPT !.live = TRUE, !.path = p, !.refcount = 1,
                                   !.introspect = Xml({}, {})]]
         IN  add_interface(invalidate_parent_data(h, t, p), made + 1,
                           Introspectable)

(* Faulty variant: it stays on its parent's list.                           *)
generic_unregister_listed(h, id) ==
    [i \in Ids |->
        IF i = id THEN Freed
        ELSE [h[i] EXCEPT !.parent = IF i \in h[id].objects
                                     THEN h[id].parent ELSE @]]

(* The object leaves its parent's list; those below get that parent, but    *)
(* are not put on its list.                                                 *)
generic_unregister(h, id) ==
    LET up == h[id].parent
    IN  [i \in Ids |->
           IF i = id THEN Freed
           ELSE [h[i] EXCEPT !.objects = IF i = up THEN @ \ {id} ELSE @,
                             !.parent = IF i \in h[id].objects THEN up ELSE @]]

(* What object_path_unref frees with the last reference: h without the two  *)
(* interfaces of its own, and the tree as it is before the path goes.       *)
Stripped(h, t, id) ==
    invalidate_parent_data(
        remove_interface(remove_interface(h, id, Introspectable), id, Properties),
        t, h[id].path)

(* object_path_unref of h, when the listener knows known.  Unannounced      *)
(* changes of an object that goes are announced at once.                    *)
object_path_unref(h, t, id, known) ==
    LET p == h[id].path
        s == Stripped([h EXCEPT ![id].refcount = @ - 1], t, id)
    IN  \/ /\ h[id].refcount > 1
           /\ heap' = [h EXCEPT ![id].refcount = @ - 1]
           /\ tree' = t
           /\ view' = known
           /\ UNCHANGED misplaced
        \/ /\ h[id].refcount = 1
           /\ heap' = generic_unregister(s, id)
           /\ tree' = [t EXCEPT ![p] = 0]
           /\ view' = IF s[id].idle THEN Changes(known, s, id) ELSE known
           /\ misplaced' = misplaced \cup {t[q] : q \in Below(t, p)}

-----------------------------------------------------------------------------
(* The calls of clients *)

Call == calls < MaxCalls /\ calls' = calls + 1

Made(p) ==
    /\ made' = IF tree[p] = 0 THEN made + 1 ELSE made
    /\ made' <= MaxObjects

(* The object is kept: what is below a path that was not registered before  *)
(* is now below a new object, and linked to another.                        *)
Kept(p, h) ==
    /\ heap' = h
    /\ tree' = [tree EXCEPT ![p] = IdAt(p)]
    /\ misplaced' = IF tree[p] # 0 THEN misplaced
                    ELSE misplaced \cup {tree[q] : q \in Below(tree, p)}

(* An interface that is there already, or has nothing to show, is refused.  *)
g_dbus_register_interface(p, n) ==
    /\ Call /\ Made(p)
    /\ LET id == IdAt(p)
           h == object_path_ref(p)
           t == [tree EXCEPT ![p] = id]
           more == n \in WithProperties /\ Properties \notin h[id].interfaces
           h2 == add_interface(h, id, n)
           h3 == IF more THEN add_interface(h2, id, Properties) ELSE h2
       IN  IF n \in h[id].interfaces \cup Experimental
           THEN object_path_unref(h, t, id, view)
           ELSE Kept(p, [h3 EXCEPT ![id].introspect = None]) /\ UNCHANGED view
    /\ UNCHANGED <<root, value, changes, crossed>>

(* A change of the interface's property that waits is sent first.           *)
unregister_interface(p, n) ==
    LET id == tree[p]
        h == remove_interface(heap, id, n)
    IN  /\ id # 0 /\ n \in heap[id].interfaces
        /\ object_path_unref([h EXCEPT ![id].introspect = None], tree, id,
             Hear(view, "PropertiesChanged", p, {n} \cap heap[id].pending))
        /\ crossed' = (crossed \ {<<p, n>>}) \cup
             {<<p, m>> : m \in IF id \in misplaced THEN heap[id].interfaces
                               ELSE heap[id].added \ heap'[id].added}

g_dbus_unregister_interface(p, n) ==
    /\ Call
    /\ unregister_interface(p, n)
    /\ UNCHANGED <<made, root, value, changes>>

(* A client sets a property and says so. *)
g_dbus_emit_property_changed(p, n) ==
    /\ changes < MaxChanges /\ changes' = changes + 1
    /\ n \in WithProperties
    /\ tree[p] # 0 /\ n \in heap[tree[p]].interfaces
    /\ value' = [value EXCEPT ![p][n] = 1 - @]
    /\ heap' = [heap EXCEPT ![tree[p]].pending = @ \cup {n},
                            ![tree[p]].idle = TRUE]
    /\ UNCHANGED <<view, tree, made, root, calls, misplaced, crossed>>

(* The objects linked to id, those linked to these, and so on: the smallest *)
(* set that has the former, and the objects of each of its own.             *)
Reachable(h, id) ==
    {i \in Ids : \A S \in SUBSET Ids :
        h[id].objects \subseteq S /\ (\A d \in S : h[d].objects \subseteq S)
            => i \in S}

(* The answer to GetManagedObjects: the objects linked to the root, and     *)
(* theirs, with all their interfaces, announced or not.                     *)
ManagedObjects(h, id) ==
    UNION {Entries(h[i].path, h[i].interfaces) : i \in Reachable(h, id)}

(* The manager is attached once at a time, and a listener asks it at once.  *)
g_dbus_attach_object_manager ==
    /\ root = 0
    /\ Call /\ Made(Root)
    /\ LET h == add_interface(object_path_ref(Root), IdAt(Root), ObjectManager)
       IN  /\ Kept(Root, h)
           /\ view' = ManagedObjects(h, IdAt(Root))
    /\ root' = IdAt(Root)
    /\ crossed' = {}
    /\ UNCHANGED <<value, changes>>

g_dbus_detach_object_manager ==
    /\ root # 0
    /\ Call
    /\ unregister_interface(Root, ObjectManager)
    /\ root' = 0
    /\ UNCHANGED <<made, value, changes>>

-----------------------------------------------------------------------------
(* The main loop *)

(* Faulty variant: the object is not on the main loop when it is done.      *)
process_changes_unsent(id) ==
    /\ heap[id].live /\ heap[id].idle
    /\ heap' = Announced(heap, id)
    /\ view' = process_properties(view, heap, id)
    /\ UNCHANGED <<tree, made, root, value, calls, changes,
                   misplaced, crossed>>

process_changes(id) ==
    /\ heap[id].live /\ heap[id].idle
    /\ heap' = Announced(heap, id)
    /\ view' = Changes(view, heap, id)
    /\ crossed' = IF Announces(id)
                  THEN crossed \cup {<<heap[id].path, n>> :
                                       n \in heap[id].added \cap heap[id].removed}
                  ELSE crossed
    /\ UNCHANGED <<tree, made, root, value, calls, changes,
                   misplaced>>

(* The listener asks again. *)
get_objects ==
    /\ root # 0
    /\ view' = ManagedObjects(heap, root)
    /\ view' # view
    /\ crossed' = {}
    /\ UNCHANGED <<tree, heap, made, root, value, calls, changes,
                   misplaced>>

Nodes(p) == {q[Len(p) + 1] : q \in Below(tree, p)}
Content(id) == Xml(heap[id].interfaces, Nodes(heap[id].path))

(* A call of Introspect. *)
introspect(p) ==
    /\ tree[p] # 0
    /\ heap[tree[p]].introspect = None
    /\ heap' = [heap EXCEPT ![tree[p]].introspect = Content(tree[p])]
    /\ UNCHANGED <<view, tree, made, root, value, calls, changes,
                   misplaced, crossed>>

-----------------------------------------------------------------------------
Init ==
    /\ tree = [p \in Paths |-> 0]
    /\ heap = [id \in Ids |-> Freed]
    /\ made = 0 /\ root = 0
    /\ value = [p \in Paths |-> [n \in WithProperties |-> 0]]
    /\ view = {}
    /\ calls = 0 /\ changes = 0
    /\ misplaced = {} /\ crossed = {}

(* No object links to one that was freed.  What follows such a link is      *)
(* undefined, and not modelled.                                             *)
Intact ==
    \A id \in Ids : heap[id].live =>
        /\ \A i \in heap[id].objects : heap[i].live
        /\ heap[id].parent # 0 => heap[heap[id].parent].live

Client ==
    \/ \E p \in Paths, n \in Ifaces :
         \/ g_dbus_register_interface(p, n)
         \/ g_dbus_unregister_interface(p, n)
         \/ g_dbus_emit_property_changed(p, n)
    \/ g_dbus_attach_object_manager
    \/ g_dbus_detach_object_manager

MainLoop ==
    \/ \E id \in Ids : process_changes(id)
    \/ \E p \in Paths : introspect(p)
    \/ get_objects

Next == Intact /\ (Client \/ MainLoop)

Spec == Init /\ [][Next]_vars

-----------------------------------------------------------------------------
Own == {Introspectable, Properties, ObjectManager}

TypeOK ==
    /\ tree \in [Paths -> 0 .. made]
    /\ made \in 0 .. MaxObjects /\ root \in 0 .. made
    /\ calls \in 0 .. MaxCalls /\ changes \in 0 .. MaxChanges
    /\ \A id \in Ids :
         /\ heap[id].path \in Paths
         /\ heap[id].refcount \in 0 .. Cardinality(Ifaces) + 1
         /\ {heap[id].live, heap[id].idle} \subseteq BOOLEAN
         /\ heap[id].interfaces \cup heap[id].removed \subseteq Ifaces \cup Own
         /\ heap[id].added \subseteq heap[id].interfaces
         /\ heap[id].pending \subseteq heap[id].interfaces \cap WithProperties
         /\ heap[id].objects \subseteq Ids /\ heap[id].parent \in 0 .. made
         /\ ~heap[id].live => heap[id] = Freed
    /\ misplaced \subseteq Ids

(* An object is there exactly as long as a client has an interface at its   *)
(* path, whatever registrations were refused: each reference is one         *)
(* interface's, besides those the object has of its own.                    *)
OnePerInterface ==
    /\ \A p \in Paths : tree[p] # 0 =>
         heap[tree[p]].live /\ heap[tree[p]].path = p
    /\ \A id \in Ids : heap[id].live =>
         LET clients == heap[id].interfaces \ {Introspectable, Properties}
         IN  /\ tree[heap[id].path] = id
             /\ heap[id].refcount = Cardinality(clients)
             /\ clients # {}

(* The links are those of the tree: each object is on the list of the       *)
(* closest one above and on no other's, and nobody keeps one that is gone.  *)
(* Objects that a path above comes to, or goes from, are the exception: the *)
(* code links them to both, or takes them off the list they were on.        *)
LinksAgree ==
    \A id \in Ids : heap[id].live =>
        /\ id \notin misplaced =>
             /\ heap[id].parent = Parent(tree, heap[id].path)
             /\ \A d \in Ids : id \in heap[d].objects <=> d = heap[id].parent
        /\ \A i \in heap[id].objects : heap[i].live \/ misplaced # {}

(* What is registered, at which path and below which object.                *)
TreeConsistent == OnePerInterface /\ LinksAgree

(* Once an object's source has run, the listener knows it as it is: its     *)
(* interfaces and their properties' values, or that it is gone.  Not so an  *)
(* interface that was removed and added again before the source ran, which  *)
(* is then announced in that order; nor one that the listener had from      *)
(* GetManagedObjects and that goes before it was announced (crossed).       *)
MirrorAccurate ==
    root # 0 =>
      \A p \in Paths \ {Root} :
        LET id == tree[p]
            around == {tree[q] : q \in Above(tree, p) \cup {p}}
            quiet == id = 0 \/ ~heap[id].idle
            actual == IF id = 0 THEN {} ELSE Entries(p, heap[id].interfaces)
            clean(es) == {e \in es : <<p, e.name>> \notin crossed}
        IN  quiet /\ misplaced \cap around = {}
            => clean({e \in view : e.path = p}) = clean(actual)

(* What an object answers to Introspect is what it has.  Attaching the      *)
(* manager forgets to drop what was cached before, the placeholder of a new *)
(* object included.                                                         *)
IntrospectAccurate ==
    \A id \in Ids : heap[id].live =>
        \/ heap[id].introspect = None
        \/ heap[id].introspect = Content(id)
        \/ id = root /\ ObjectManager \notin heap[id].introspect.interfaces
=============================================================================
