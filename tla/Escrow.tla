--------------------------------- MODULE Escrow ---------------------------------
(***************************************************************************)
(* What the player aggregate promises the rest of the system: an account   *)
(* whose free chips can be locked for a table, at most one lock for each   *)
(* table, and a lock that is only ever undone whole, back to the account   *)
(* it came from.                                                           *)
(***************************************************************************)
EXTENDS Integers

CONSTANT Tables

VARIABLES
  free,    \* chips the player may withdraw or lock
  locked   \* locked[t]: chips committed to table t

vars == <<free, locked>>

Init == free = 0 /\ locked = [t \in Tables |-> 0]

Credit == free' > free /\ UNCHANGED locked

Debit == \E n \in 1..free : free' = free - n /\ UNCHANGED locked

Lock(t) ==
  /\ locked[t] = 0
  /\ \E n \in 1..free :
       /\ free' = free - n
       /\ locked' = [locked EXCEPT ![t] = n]

Unlock(t) ==
  /\ locked[t] > 0
  /\ free' = free + locked[t]
  /\ locked' = [locked EXCEPT ![t] = 0]

Next == Credit \/ Debit \/ \E t \in Tables : Lock(t) \/ Unlock(t)

Spec == Init /\ [][Next]_vars
================================================================================
