------------------------------ MODULE RefTable ------------------------------
(***************************************************************************)
(* What the registry references of tolua promise their owners, without the *)
(* free list, the FIXEDMAP or the length of the registry: a reference is a *)
(* slot above the reserved ones that is bound to one value from the moment *)
(* it is handed out until its owner gives it back.                         *)
(***************************************************************************)
EXTENDS Naturals

CONSTANTS Values,    \* the Lua objects a reference can be taken of
          Nil,       \* "no value"
          Reserved,  \* the slots 1..Reserved belong to tolua itself
          MaxSlot    \* bound: the registry never has more slots

VARIABLE bound       \* bound[r]: the value reference r stands for, or Nil

Refs == (Reserved + 1)..MaxSlot

TableInit == bound = [r \in Refs |-> Nil]

\* A reference that is not in use is bound to a value.
Bind(r, v) == /\ bound[r] = Nil
              /\ bound' = [bound EXCEPT ![r] = v]

\* The owner of a reference gives it back.
Unbind(r) == /\ bound[r] # Nil
             /\ bound' = [bound EXCEPT ![r] = Nil]

TableNext == \E r \in Refs : Unbind(r) \/ \E v \in Values : Bind(r, v)

TableSpec == TableInit /\ [][TableNext]_bound
=============================================================================
