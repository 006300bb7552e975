------------------------------ MODULE Presence ------------------------------
(***************************************************************************)
(* What the server promises about who is connected.  Users come one at a   *)
(* time, while there is room, and are shown under the name they came with  *)
(* for as long as they stay.  Each connection that closes takes one user   *)
(* off the list at most, once: while its own user is on the list, one of   *)
(* the same name, so that the names that stay are the right ones, also     *)
(* when a name has been logged in twice.  Only a connection whose user is  *)
(* off the list already may take any other.  Sessions implements it.       *)
(***************************************************************************)
EXTENDS Integers, FiniteSets

CONSTANTS Users, Names, Capacity

VARIABLES shown,     \* the entries of the list, each a user and a name
          closed,    \* the users whose connection was closed
          left       \* those whose connection has been taken off the list

vars == <<shown, closed, left>>

Present(u) == \E e \in shown : e.user = u

Init == shown = {} /\ closed = {} /\ left = {}

Join(u, n) ==
    /\ ~Present(u) /\ u \notin closed
    /\ Cardinality(shown) < Capacity
    /\ shown' = shown \cup {[user |-> u, name |-> n]}
    /\ UNCHANGED <<closed, left>>

Close(u) ==
    /\ u \notin closed
    /\ closed' = closed \cup {u}
    /\ UNCHANGED <<shown, left>>

Leave(u) ==
    /\ u \in closed \ left
    /\ left' = left \cup {u}
    /\ \/ \E e \in shown : /\ Present(u) => [user |-> u, name |-> e.name] \in shown
                           /\ shown' = shown \ {e}
       \/ ~Present(u) /\ UNCHANGED shown
    /\ UNCHANGED closed

Next == \E u \in Users : (\E n \in Names : Join(u, n)) \/ Close(u) \/ Leave(u)

Spec == Init /\ [][Next]_vars
=============================================================================
