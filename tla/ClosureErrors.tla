--------------------------- MODULE ClosureErrors ---------------------------
(***************************************************************************)
(* How a host function reports an error to Lua (src/tolua.c): every host   *)
(* function is wrapped by tolua_pushcfunction in a closure with a flag of  *)
(* its own.  tolua_error sets the flag of the closure that is running, the *)
(* host function returns as usual, and tolua_closure raises the Lua error  *)
(* for it, so that no error jumps across the frames of the host function.  *)
(* The flag belongs to the closure, not to the call: all activations of a  *)
(* host function share it.                                                 *)
(***************************************************************************)
EXTENDS Naturals, Sequences

CONSTANTS HostFunctions,  \* host functions that are registered
          MaxDepth        \* bound: activations at the same time

ASSUME ClosureAssumption == MaxDepth \in Nat \ {0}

VARIABLES flag,    \* upvalue 1 of each closure
          stack,   \* the activations, innermost last
          last,    \* how the last host function that returned ended
          starved  \* history: functions whose report ran out of memory since
                   \* their flag was last reset

errorVars == <<flag, stack, last, starved>>

\* An activation: its function, whether it runs in a protected call (pcall
\* or the resumption of a coroutine), whether it has called tolua_error.
Activation == [fn : HostFunctions, protected : BOOLEAN, raised : BOOLEAN]
Ending == [raised : BOOLEAN, error : BOOLEAN, starved : BOOLEAN]

Depth == Len(stack)
Top == stack[Depth]

\* An error ends the innermost protected call.
Unwind ==
    \E caught \in DOMAIN stack :
        /\ stack[caught].protected
        /\ \A j \in DOMAIN stack : j > caught => ~stack[j].protected
        /\ stack' = SubSeq(stack, 1, caught - 1)

ErrorInit == /\ flag = [f \in HostFunctions |-> FALSE]
             /\ stack = <<>>
             /\ last = [raised |-> FALSE, error |-> FALSE, starved |-> FALSE]
             /\ starved = {}

\* tolua_closure calls the host function.  The host calls Lua in protected
\* mode first; a host function that has reported an error calls nothing more.
Call(f, protected) ==
    /\ Depth < MaxDepth
    /\ IF Depth = 0 THEN protected ELSE ~Top.raised
    /\ stack' = Append(stack, [fn |-> f, protected |-> protected, raised |-> FALSE])
    /\ UNCHANGED <<flag, last, starved>>

Reported(a) == [a EXCEPT !.raised = TRUE]

\* tolua_error: the flag first, the message after it.
Report ==
    /\ Depth > 0 /\ ~Top.raised
    /\ flag' = [flag EXCEPT ![Top.fn] = TRUE]
    /\ stack' = [stack EXCEPT ![Depth] = Reported(@)]
    /\ UNCHANGED <<last, starved>>

\* The same when lua_pushstring has no memory for the message: its error
\* goes past tolua_closure, and the flag stays set.
ReportStarves ==
    /\ Depth > 0 /\ ~Top.raised
    /\ flag' = [flag EXCEPT ![Top.fn] = TRUE]
    /\ Unwind
    /\ starved' = starved \cup {Top.fn}
    /\ UNCHANGED last

\* A function of the Lua API that the host function calls raises an error.
ApiError ==
    /\ Depth > 0 /\ ~Top.raised
    /\ Unwind
    /\ UNCHANGED <<flag, last, starved>>

\* Faulty variants: the flag is not reset; it is looked at before the host
\* function runs, so that the error comes with the next call.
ReturnKeepsFlag ==
    /\ Depth > 0
    /\ last' = [raised |-> Top.raised, error |-> flag[Top.fn], starved |-> Top.fn \in starved]
    /\ starved' = starved \ {Top.fn}
    /\ IF flag[Top.fn] THEN Unwind ELSE stack' = SubSeq(stack, 1, Depth - 1)
    /\ UNCHANGED flag
ReturnResetsOnly ==
    /\ Depth > 0
    /\ last' = [raised |-> Top.raised, error |-> FALSE, starved |-> Top.fn \in starved]
    /\ starved' = starved \ {Top.fn}
    /\ stack' = SubSeq(stack, 1, Depth - 1)
    /\ flag' = [flag EXCEPT ![Top.fn] = FALSE]

\* The host function returns to tolua_closure, which looks at the flag.
Return ==
    /\ Depth > 0
    /\ last' = [raised |-> Top.raised, error |-> flag[Top.fn], starved |-> Top.fn \in starved]
    /\ starved' = starved \ {Top.fn}
    /\ IF flag[Top.fn] THEN Unwind ELSE stack' = SubSeq(stack, 1, Depth - 1)
    /\ flag' = [flag EXCEPT ![Top.fn] = FALSE]

ErrorNext == \/ \E f \in HostFunctions, protected \in BOOLEAN : Call(f, protected)
             \/ Report \/ ReportStarves \/ ApiError \/ Return

ErrorSpec == ErrorInit /\ [][ErrorNext]_errorVars

-----------------------------------------------------------------------------
(* Properties.                                                             *)

\* The variables have their types, and Lua itself is called in protected mode.
ErrorTypeOK == /\ flag \in [HostFunctions -> BOOLEAN]
               /\ stack \in Seq(Activation) /\ Depth <= MaxDepth
               /\ Depth > 0 => stack[1].protected
               /\ last \in Ending /\ starved \in SUBSET HostFunctions

\* An error a host function reported is raised when it returns, whatever it
\* called before and however often it is active.
NoErrorLost == last.raised => last.error

\* A host function that reported none raises none: the flag of another
\* activation of the same function is not taken for its own.  The exception
\* is a function whose earlier report ran out of memory.
NoErrorInvented == last.error => last.raised \/ last.starved

\* The inductive invariant: only the innermost activation has reported an
\* error and its flag is set; other flags are those of starved reports.
FlagOfTop ==
    /\ \A i \in DOMAIN stack : i < Depth => ~stack[i].raised
    /\ Depth > 0 /\ Top.raised => flag[Top.fn]
    /\ \A f \in HostFunctions : flag[f] =>
          f \in starved \/ (Depth > 0 /\ Top.raised /\ Top.fn = f)

ErrorInv == ErrorTypeOK /\ NoErrorLost /\ NoErrorInvented /\ FlagOfTop
=============================================================================
