--------------------------- MODULE MCClassFunctions ---------------------------
(***************************************************************************)
(* What Lua does with the functions that the host registers: the events of *)
(* classes (ClassEvents) find them, and the errors that they report are    *)
(* raised (ClosureErrors).  A behaviour is one of one part; the other      *)
(* rests in a state in which nothing has happened.                         *)
(***************************************************************************)
EXTENDS ClassEvents, ClosureErrors

VARIABLE part    \* which of the two it is

\* Where only errors happen, there is one way to begin.
EventsRest == /\ key = "name" /\ nulls = {}
              /\ parent = [c \in Classes |-> 0] /\ classOf = [o \in Objects |-> 1]

MCInit == /\ Init /\ ErrorInit
          /\ \/ part = "events"
             \/ part = "errors" /\ EventsRest

MCNext == \/ part = "events" /\ Next /\ UNCHANGED <<errorVars, part>>
          \/ part = "errors" /\ ErrorNext /\ UNCHANGED <<vars, part>>

MCSpec == MCInit /\ [][MCNext]_<<vars, errorVars, part>>
=============================================================================
