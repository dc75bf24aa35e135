---------------------------- MODULE StackPromise ----------------------------
(***************************************************************************)
(* What the functions of tolua promise the host about the Lua stack: each  *)
(* takes its operands off the top and leaves there what it answers, or one *)
(* error value in its place, calls what it calls with the right values,    *)
(* and leaves what lies below alone.                                       *)
(***************************************************************************)
EXTENDS Naturals, Sequences, SequencesExt

CONSTANTS Values,     \* the values the host works with
          Results,    \* what a script function may return
          Errors      \* the error values that may arise

VARIABLES pstack,     \* the Lua stack of the host's frame
          pcalled     \* the function called last, with its arguments

\* What a message handler makes of an error: it adds the stack to a message.
Traced(e) == IF e = "message" THEN "traced" ELSE e

PromiseInit == pstack = <<>> /\ pcalled = <<>>

\* n operands are taken off the stack, one of answers is left.
Answer(n, answers) ==
    \E a \in answers : pstack' = SubSeq(pstack, 1, Len(pstack) - n) \o a

Alone(es) == {<<e>> : e \in es}

GetField == \E i \in DOMAIN pstack :
    /\ pcalled' = <<"getfield", pstack[i], "key">>
    /\ Answer(0, Alone(Values \cup Errors))

SetField == \E i \in DOMAIN pstack :
    /\ pcalled' = <<"setfield", pstack[i], "key", Last(pstack)>>
    /\ Answer(1, {<<>>} \cup Alone(Errors))

GetTable == \E i \in DOMAIN pstack :
    /\ pcalled' = <<"gettable", pstack[i], Last(pstack)>>
    /\ Answer(1, Alone(Values \cup Errors))

SetTable == \E i \in DOMAIN pstack :
    /\ Len(pstack) > 1
    /\ pcalled' = <<"settable", pstack[i], pstack[Len(pstack) - 1], Last(pstack)>>
    /\ Answer(2, {<<>>} \cup Alone(Errors))

Require == /\ pcalled' = <<"require", "name">>
           /\ Answer(0, Results \cup Alone({Traced(e) : e \in Errors}))

\* A script function is called with the values above it.  It stands on the
\* handler that is used for its errors.
Call == \E n \in 0..(Len(pstack) - 2) :
    /\ pstack[Len(pstack) - n] = "function" /\ pstack[Len(pstack) - n - 1] = "traceback"
    /\ pcalled' = <<"function">> \o SubSeq(pstack, Len(pstack) - n + 1, Len(pstack))
    /\ Answer(n + 1, Results \cup Alone({Traced(e) : e \in Errors}))

\* The value at i is asked for its parts, and is still there afterwards.
Unpack == \E i \in DOMAIN pstack :
    /\ pcalled' = <<"unpack", pstack[i]>>
    /\ UNCHANGED pstack

Pack == pcalled' = <<"pack", "parts">> /\ Answer(0, Alone(Values))

\* What calls nothing: values are pushed, or the topmost ones dropped.
PushMore == pcalled' = <<>> /\ Answer(0, {<<v>> : v \in Values \cup {"function", "message", "traced", "traceback"}}
                                         \cup {<<"traceback", "function">>})
Drop == pcalled' = <<>> /\ \E n \in 0..Len(pstack) : Answer(n, {<<>>})

PromiseNext == \/ GetField \/ SetField \/ GetTable \/ SetTable \/ Require \/ Call
               \/ Unpack \/ Pack \/ PushMore \/ Drop

PromiseSpec == PromiseInit /\ [][PromiseNext]_<<pstack, pcalled>>
=============================================================================
