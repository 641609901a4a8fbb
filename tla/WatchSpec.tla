----------------------------- MODULE WatchSpec -----------------------------
(***************************************************************************)
(* What gdbus/watch.c promises to those who watch a signal: while a watch  *)
(* is held, its function is called once for each matching message, and it  *)
(* is never called again once the watch was removed.  A watch added while  *)
(* a message is handed out is not called for that message, unless the      *)
(* signal has several filters.  Watches are added and removed at any time, *)
(* from the very functions being called.                                   *)
(*                                                                         *)
(* A signal comes to have several filters only if it is watched while      *)
(* another watch of it is held, from a function its own message is handed  *)
(* to, or after the bus refused to drop its rule.  A program that does     *)
(* none of the first two on a bus that does not do the third is promised   *)
(* the rest without exception.                                             *)
(***************************************************************************)
EXTENDS Naturals

CONSTANTS
    Keys,         \* what can be watched: one key per match rule
    None

VARIABLES
    watches,      \* per key, the watches held
    used,         \* number of watches ever made
    message,      \* key of the message being handed out, or None
    todo,         \* watches still to be called for it
    owed,         \* watches to be told whether the service is there
    running,      \* the watch whose function runs, 0 for none
    several,      \* keys that were given a second filter
    refused       \* keys of which the bus refused to drop a rule

vars == <<watches, used, message, todo, owed, running, several, refused>>

Held == UNION {watches[k] : k \in Keys}

(* Code runs that can make or drop watches: a watch function, or any other  *)
(* code between two messages.                                               *)
CallerRuns == running # 0 \/ message = None

-----------------------------------------------------------------------------
(* Another number may be taken in passing. *)
Add(k, told) ==
    /\ CallerRuns
    /\ watches' = [watches EXCEPT ![k] = @ \cup {used + 1}]
    /\ used' \in {used + 1, used + 2}
    /\ owed' = IF told THEN owed \cup {used + 1} ELSE owed
    /\ \/ several' = several
       \/ /\ watches[k] # {} \/ message = k \/ k \in refused
          /\ several' = several \cup {k}
    /\ \/ todo' = todo
       \/ k = message /\ k \in several' /\ todo' = todo \cup {used + 1}
    /\ UNCHANGED <<message, running, refused>>

(* With its last watch the key's rule goes, if the bus lets it go.          *)
Remove(i) ==
    /\ CallerRuns
    /\ watches' = [k \in Keys |-> watches[k] \ {i}]
    /\ todo' = todo \ {i}
    /\ owed' = owed \ {i}
    /\ refused \subseteq refused'
    /\ UNCHANGED <<used, message, running, several>>

Begin(k) ==
    /\ message = None /\ running = 0
    /\ message' = k
    /\ todo' = watches[k]
    /\ UNCHANGED <<watches, used, owed, running, several, refused>>

Call(i) ==
    /\ running = 0
    /\ i \in todo
    /\ running' = i
    /\ UNCHANGED <<watches, used, message, todo, owed, several, refused>>

(* The function is done with this message; it may ask to be dropped.        *)
Return(keep) ==
    /\ running # 0
    /\ running' = 0
    /\ todo' = todo \ {running}
    /\ IF keep THEN UNCHANGED <<watches, owed>>
       ELSE /\ watches' = [k \in Keys |-> watches[k] \ {running}]
            /\ owed' = owed \ {running}
    /\ UNCHANGED <<used, message, several, refused>>

End ==
    /\ message # None /\ running = 0
    /\ todo = {}
    /\ message' = None
    /\ refused \subseteq refused'
    /\ UNCHANGED <<watches, used, todo, owed, running, several>>

(* The answer to the first question: the service is there, or it is not.    *)
Tell(i, there) ==
    /\ message = None /\ running = 0
    /\ i \in owed
    /\ owed' = owed \ {i}
    /\ running' = IF there THEN i ELSE 0
    /\ UNCHANGED <<watches, used, message, todo, several, refused>>

-----------------------------------------------------------------------------
Init ==
    /\ watches = [k \in Keys |-> {}]
    /\ used = 0
    /\ message = None /\ todo = {} /\ owed = {} /\ running = 0
    /\ several = {} /\ refused = {}

Next ==
    \/ \E k \in Keys, told \in BOOLEAN : Add(k, told)
    \/ \E i \in 1 .. used : Remove(i) \/ Call(i)
    \/ \E k \in Keys : Begin(k)
    \/ \E keep \in BOOLEAN : Return(keep)
    \/ End
    \/ \E i \in 1 .. used, there \in BOOLEAN : Tell(i, there)

Spec == Init /\ [][Next]_vars
=============================================================================
