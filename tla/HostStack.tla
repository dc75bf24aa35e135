------------------------------ MODULE HostStack ------------------------------
(***************************************************************************)
(* How tolua works on the Lua stack of the host (src/tolua.c): the table   *)
(* accesses that do not raise errors, the calls of script functions with a *)
(* message handler, tolua_require, tolua_loadbuffer, and the parts of the  *)
(* value types.  Every operation is written as the code does it, from the  *)
(* pushes and removals of the Lua API.                                     *)
(*                                                                         *)
(* The host begins calls one inside the other in the same frame: it pushes *)
(* the handler and the function, then the arguments, with other operations *)
(* in between, and drops handler and results when it is done.              *)
(***************************************************************************)
EXTENDS Naturals, Sequences, SequencesExt

CONSTANTS Values,      \* the values the host works with
          MaxStack,    \* bound: values on the stack
          MaxFrames    \* bound: calls begun at the same time

ASSUME HostStackAssumption == MaxStack \in Nat /\ MaxFrames \in Nat

VARIABLES stack,    \* the stack, its top at the end
          frames,   \* the calls that the host has begun, the innermost last:
                    \* top as tolua_beginpcall answered it, and the stack then
          called,   \* history: the function called last, with its arguments
          alive     \* the host's frame is still there

vars == <<stack, frames, called, alive>>

\* "traced" is a message with a stack traceback.
StackValues == Values \cup {"function", "traceback", "message", "traced", "nil"}

\* What a script function returns, or the error it ends with: a message, a
\* value, or nil, which stands for a coroutine as well.
Results == {<<>>} \cup [1..2 -> Values]
Errors == Values \cup {"message", "traced", "nil"}
Returned(values) == [error |-> FALSE, values |-> values]
Raised(e) == [error |-> TRUE, values |-> <<e>>]
Outcomes == {Returned(values) : values \in Results} \cup {Raised(e) : e \in Errors}
OneValue == {Returned(<<v>>) : v \in Values} \cup {Raised(e) : e \in Errors}
NoValue == {Returned(<<>>)} \cup {Raised(e) : e \in Errors}

-----------------------------------------------------------------------------
(* The Lua API.                                                            *)

PushValue(s, i) == Append(s, s[i])
SetTop(s, n) == SubSeq(s, 1, n)

\* tolua's traceback: what is no string stays as it is, and a message gets
\* the stack, once.
Traceback(e) == IF e = "message" THEN "traced" ELSE e

\* It looks for a traceback in the message, and so reads through a null
\* pointer when there is no error value.
Crashes(s, handler, out) ==
    out.error /\ handler # 0 /\ s[handler] = "traceback" /\ out.values[1] = "nil"

Handled(s, handler, e) ==
    CASE handler = 0 -> e
      [] handler # 0 /\ s[handler] = "traceback" -> Traceback(e)
      [] OTHER -> "message"    \* the handler cannot be called

\* lua_pcall of the function under the n topmost values.
PCalled(s, n, handler, out) ==
    SetTop(s, Len(s) - n - 1) \o
        IF out.error THEN <<Handled(s, handler, out.values[1])>> ELSE out.values

\* The process crashes, or an error that nothing catches here unwinds the frame
\* of the host.
Gone == alive' = FALSE /\ UNCHANGED <<stack, frames, called>>

Protected(s, n, handler, out) ==
    IF Crashes(s, handler, out) THEN Gone
    ELSE /\ called' = SubSeq(s, Len(s) - n, Len(s))
         /\ stack' = PCalled(s, n, handler, out)
         /\ UNCHANGED <<frames, alive>>

-----------------------------------------------------------------------------
Init == stack = <<>> /\ frames = <<>> /\ called = <<>> /\ alive = TRUE

Floor == IF frames = <<>> THEN 0 ELSE Last(frames).top + 1

\* The host has n values above the function of the innermost call, and room.
Owns(n) == alive /\ Len(stack) >= Floor + n
Room(n) == Len(stack) + n <= MaxStack

\* lua_push... of the host itself.
Push(v) == /\ Owns(0) /\ Room(1)
           /\ stack' = Append(stack, v) /\ called' = <<>>
           /\ UNCHANGED <<frames, alive>>

\* tolua_getfield
GetField(i, out) ==
    /\ Owns(0) /\ Room(1)
    /\ LET s == PushValue(Append(stack, "getfield"), i)
       IN Protected(Append(s, "key"), 2, 0, out)

\* Faulty variant: the value is removed where it was pushed.
SetFieldRemovesCopy(i, out) ==
    /\ Owns(1)
    /\ LET top == Len(stack)
           s == Append(PushValue(Append(stack, "setfield"), i), "key")
       IN Protected(RemoveAt(PushValue(s, top), top + 1), 3, 0, out)

\* tolua_setfield: the value is pushed again above the others, and removed
\* below them.
SetField(i, out) ==
    /\ Owns(1)
    /\ LET top == Len(stack)
           s == Append(PushValue(Append(stack, "setfield"), i), "key")
       IN Protected(RemoveAt(PushValue(s, top), top), 3, 0, out)

\* tolua_gettable
GetTable(i, out) ==
    /\ Owns(1)
    /\ LET top == Len(stack)
           s == PushValue(PushValue(Append(stack, "gettable"), i), top)
       IN Protected(RemoveAt(s, top), 2, 0, out)

\* tolua_settable
SetTable(i, out) ==
    /\ Owns(2)
    /\ LET top == Len(stack)
           s == PushValue(PushValue(PushValue(Append(stack, "settable"), i), top - 1), top)
       IN Protected(RemoveAt(RemoveAt(s, top), top - 1), 3, 0, out)

\* tolua_require: the handler is taken off below the results.
Require(out) ==
    /\ Owns(0) /\ Room(2)
    /\ LET s == stack \o <<"traceback", "require", "name">>
           handler == Len(stack) + 1
       IN IF Crashes(s, handler, out) THEN Gone
          ELSE /\ called' = SubSeq(s, Len(s) - 1, Len(s))
               /\ stack' = RemoveAt(PCalled(s, 1, handler, out), handler)
               /\ UNCHANGED <<frames, alive>>

\* Faulty variant: top is taken before the handler is pushed.
BeginPCallEarly ==
    /\ Owns(0) /\ Room(2) /\ Len(frames) < MaxFrames
    /\ stack' = stack \o <<"traceback", "function">>
    /\ frames' = Append(frames, [top |-> Len(stack), before |-> stack])
    /\ called' = <<>> /\ UNCHANGED alive

\* tolua_beginpcall
BeginPCall ==
    /\ Owns(0) /\ Room(2) /\ Len(frames) < MaxFrames
    /\ stack' = stack \o <<"traceback", "function">>
    /\ frames' = Append(frames, [top |-> Len(stack) + 1, before |-> stack])
    /\ called' = <<>> /\ UNCHANGED alive

\* The host calls what it has begun to call, with all that lies above it.
PCall(out) ==
    /\ Owns(0) /\ frames # <<>> /\ stack[Floor] = "function"
    /\ Room(Len(out.values))
    /\ Protected(stack, Len(stack) - Floor, Last(frames).top, out)

\* The host is done with the call: the handler goes with the results.
EndPCall ==
    /\ alive /\ frames # <<>>
    /\ stack' = SetTop(stack, Last(frames).top - 1)
    /\ frames' = Front(frames) /\ called' = <<>>
    /\ UNCHANGED alive

\* tolua_loadbuffer: the chunk or an error.  Bytecode that the VM refuses is
\* converted: the error gives way to the converted chunk, or to the error
\* that it is refused with, or to a message that tells more.
LoadBuffer(loaded) ==
    /\ Owns(0) /\ Room(2)
    /\ LET first == Append(stack, "message")
           dropped == SetTop(first, Len(first) - 1)
           told == Append(first, "message")
       IN stack' \in {Append(stack, loaded), Append(dropped, loaded),
                      RemoveAt(told, Len(told) - 1)}
    /\ called' = <<>> /\ UNCHANGED <<frames, alive>>

\* tolua_getvec2 ... tolua_getlayermask and tolua_getvaluetype: a function is
\* called with the value, and its answers are read and dropped; the call is not
\* protected.  A layer mask that is a number is read where it is.
Asked(i) ==
    LET s == PushValue(Append(stack, "unpack"), i)
    IN /\ called' = SubSeq(s, Len(s) - 1, Len(s))
       /\ stack' = SetTop(s, Len(s) - 2)
       /\ UNCHANGED <<frames, alive>>
Unpack(i) ==
    /\ Owns(0) /\ i \in DOMAIN stack
    /\ \/ Asked(i)
       \/ called' = <<>> /\ UNCHANGED <<stack, frames, alive>>
       \/ Gone

\* tolua_pushvec2 ... tolua_pushlayermask: unprotected, too.
Packed(v) ==
    LET s == stack \o <<"pack", "parts">>
    IN /\ called' = SubSeq(s, Len(s) - 1, Len(s))
       /\ stack' = Append(SetTop(s, Len(s) - 2), v)
       /\ UNCHANGED <<frames, alive>>
Pack(v) == Owns(0) /\ Room(1) /\ (Packed(v) \/ Gone)

\* lua_settop of the host, which keeps what it has begun.
Settle(n) ==
    /\ Owns(0) /\ n \in Floor..Len(stack)
    /\ stack' = SetTop(stack, n) /\ called' = <<>>
    /\ UNCHANGED <<frames, alive>>

Next ==
    \/ \E v \in Values : Push(v) \/ Pack(v)
    \/ \E i \in DOMAIN stack :
          \/ \E out \in OneValue : GetField(i, out) \/ GetTable(i, out)
          \/ \E out \in NoValue : SetField(i, out) \/ SetTable(i, out)
          \/ Unpack(i)
    \/ \E out \in Outcomes : Require(out) \/ PCall(out)
    \/ BeginPCall \/ EndPCall
    \/ \E loaded \in {"function", "message"} : LoadBuffer(loaded)
    \/ \E n \in 0..MaxStack : Settle(n)

Spec == Init /\ [][Next]_vars

-----------------------------------------------------------------------------
(* Properties.                                                             *)

\* The variables have their types.
TypeOK == /\ stack \in Seq(StackValues)
          /\ \A k \in DOMAIN frames : frames[k].top \in 1..MaxStack
          /\ Len(frames) <= MaxFrames /\ alive \in BOOLEAN

\* Whatever the host does above it, a call that it has begun keeps its
\* handler in the slot that tolua_beginpcall answered and the stack below as
\* it was: all calls, one inside the other, end with the stack they found.
FramesIntact ==
    \A k \in DOMAIN frames :
        /\ frames[k].top \in DOMAIN stack
        /\ stack[frames[k].top] = "traceback"
        /\ SubSeq(stack, 1, frames[k].top - 1) = frames[k].before

Promise == INSTANCE StackPromise WITH pstack <- stack, pcalled <- called

\* The pushes and removals of each operation amount to what is promised: an
\* answer or one error in the place of the operands, the arguments in their
\* order, and a traceback in the message of every script error.
KeepsPromise == Promise!PromiseSpec
=============================================================================
