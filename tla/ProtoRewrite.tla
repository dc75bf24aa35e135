---------------------------- MODULE ProtoRewrite ----------------------------
(***************************************************************************)
(* How the converter rewrites the registers of one prototype from FR1 to   *)
(* FR2 (src/tolua_fr1_to_fr2.c): tolua_patch_proto_bytecode for a chunk of *)
(* bytecode version 2, from the collection of the holes on, and the frame  *)
(* size that tolua_convert_bytecode_inplace computes afterwards.           *)
(*                                                                         *)
(* The prototype is a straight-line program that the compiler (action      *)
(* Emit) builds from the instructions whose operands are register ranges,  *)
(* after it has loaded the registers 0..NumRegs - 1.  An instruction is a  *)
(* record; an operand it has not is 0, D is kept in c.                     *)
(***************************************************************************)
EXTENDS ShiftMap, Sequences

CONSTANTS NumRegs,      \* registers of the program, its FR1 frame size
          MaxCode,      \* bound: instructions after the loads
          MaxResults,   \* bound: fixed results of a call
          WithOpen      \* whether calls with open results are emitted

ASSUME RewriteAssumption ==
    /\ NumRegs \in Nat \ {0} /\ NumRegs <= MaxA    \* LJ_MAX_SLOTS is 250
    /\ MaxCode \in Nat /\ MaxResults \in Nat /\ WithOpen \in BOOLEAN

VARIABLES source,      \* the program the compiler emitted
          code,        \* the program in the buffer, rewritten in place
          pc,          \* the instruction to rewrite next
          holes,       \* tolua_bcshift_map.hole
          framesize,   \* the frame size in the buffer
          status       \* "compile", "rewrite", then what the conversion
                       \* answers: "ok", "layout", "overflow"; "repack"
                       \* stands for the handover to the repacking code

vars == <<source, code, pc, holes, framesize, status>>

UsedRegs == 0..(NumRegs - 1)

Ops == {"MOV", "CALL", "CALLT", "RET", "CAT", "FORI", "TSETM"}

\* The instructions.  CALL leaves b - 1 results (open results if b = 0) and
\* has c - 1 arguments; RET returns c - 1 values; CAT joins b..c into a.
Instructions ==
    {ins \in [op : Ops, a : UsedRegs, b : 0..(NumRegs + MaxResults), c : 0..(NumRegs + 1)] :
        \/ ins.op = "MOV"   /\ ins.b = 0 /\ ins.c \in UsedRegs
        \/ ins.op = "CALL"  /\ ins.b \in 1..(MaxResults + 1) /\ ins.c \in 1..NumRegs
        \/ ins.op = "CALL"  /\ ins.b = 0 /\ ins.c \in 1..NumRegs /\ WithOpen
        \/ ins.op = "CALLT" /\ ins.b = 0 /\ ins.c \in 1..NumRegs
        \/ ins.op = "RET"   /\ ins.b = 0 /\ ins.c \in 1..(NumRegs + 1)
        \/ ins.op = "CAT"   /\ ins.b \in UsedRegs /\ ins.c \in UsedRegs
        \/ ins.op = "FORI"  /\ ins.b = 0 /\ ins.c = 0
        \/ ins.op = "TSETM" /\ ins.b = 0 /\ ins.c = 0 /\ WithOpen}

Ends(ins) == ins.op \in {"CALLT", "RET"}
IsOpenCall(ins) == ins.op = "CALL" /\ ins.b = 0

-----------------------------------------------------------------------------
(* What the VM does with the registers.  gap is 0 for FR1 and 1 for FR2.   *)

OpenCount == 2      \* bound: the results of a call with open results
Junk == <<>>        \* what a callee may leave in a register

Span(first, n) == [k \in 1..n |-> first + k - 1]

\* The registers ins reads, in the order of its operands.
Reads(ins, gap) ==
    CASE ins.op = "MOV"   -> <<ins.c>>
      [] ins.op \in {"CALL", "CALLT"} -> <<ins.a>> \o Span(ins.a + 1 + gap, ins.c - 1)
      [] ins.op = "RET"   -> Span(ins.a, ins.c - 1)
      [] ins.op = "CAT"   -> Span(ins.b, ins.c - ins.b + 1)
      [] ins.op = "FORI"  -> Span(ins.a, 3)
      [] ins.op = "TSETM" -> <<ins.a - 1>> \o Span(ins.a, OpenCount)

\* The registers ins writes.
Writes(ins) ==
    CASE ins.op \in {"MOV", "CAT"} -> <<ins.a>>
      [] ins.op = "CALL" -> Span(ins.a, IF ins.b = 0 THEN OpenCount ELSE ins.b - 1)
      [] ins.op = "FORI" -> <<ins.a + 3>>
      [] OTHER -> <<>>

\* The first register whose old value does not survive ins.
Kept(ins) == CASE ins.op = "CALL" -> ins.a
               [] ins.op = "CAT"  -> ins.b
               [] OTHER -> MaxA + 1

\* The registers after ins, the i-th instruction.
Step(env, ins, i) ==
    [r \in DOMAIN env |->
        IF \E k \in DOMAIN Writes(ins) : Writes(ins)[k] = r
        THEN IF ins.op = "MOV" THEN env[ins.c]
             ELSE <<i, CHOOSE k \in DOMAIN Writes(ins) : Writes(ins)[k] = r>>
        ELSE IF r >= Kept(ins) THEN Junk ELSE env[r]]

\* The registers before the n-th instruction of prog, env0 after the loads.
EnvAt(prog, env0, n) ==
    LET env[i \in 1..n] == IF i = 1 THEN env0
                           ELSE Step(env[i - 1], prog[i - 1], i - 1)
    IN env[n]

ValuesRead(prog, env0, gap, n) ==
    LET regs == Reads(prog[n], gap)
        env == EnvAt(prog, env0, n)
    IN [k \in DOMAIN regs |-> IF regs[k] \in DOMAIN env THEN env[regs[k]] ELSE Junk]

\* The loads leave the value <<0, r>> in register r; they are mapped as every
\* other instruction is.
FR1Env == [r \in Regs |-> IF r \in UsedRegs THEN <<0, r>> ELSE Junk]
FR2Env == [r \in Regs |->
              IF \E s \in UsedRegs : MapReg(holes, s) = r
              THEN <<0, CHOOSE s \in UsedRegs : MapReg(holes, s) = r>>
              ELSE Junk]

-----------------------------------------------------------------------------
(* The conversion.                                                         *)

\* Faulty variant: tail calls open no hole.
HolesOfCalls(prog) == {prog[i].a : i \in {j \in DOMAIN prog : prog[j].op = "CALL"}}

\* tolua_collect_proto_holes
Holes(prog) == {prog[i].a : i \in {j \in DOMAIN prog : prog[j].op \in {"CALL", "CALLT"}}}

\* What sends tolua_try_repack_proto_calls to work.
NeedsRepack(h, ins) ==
    \/ /\ ins.op = "CALL" /\ ins.b # 0 /\ ins.c > 1
       /\ \/ ins.b > 2 /\ ClosedRangeHole(h, ins.a + 1, ins.a + ins.b - 2)
          \/ RangeHole(h, ins.a + 1, ins.a + ins.c - 1)
    \/ /\ ins.op = "CALLT" /\ ins.c > 1
       /\ RangeHole(h, ins.a + 1, ins.a + ins.c - 1)
    \/ ins.op = "CAT" /\ ClosedRangeHole(h, ins.b, ins.c)
    \/ ins.op = "RET" /\ ins.c > 1 /\ RangeHole(h, ins.a, ins.a + ins.c - 2)
    \/ ins.op = "FORI" /\ ClosedRangeHole(h, ins.a, ins.a + 3)

\* tolua_validate_open_tsetm_pair: a producer of open results at i and the
\* TSETM after it agree on the register.  prog[i - 1] is rewritten already.
OpenPair(prog, i, ins) ==
    IF ins.op = "TSETM"
    THEN /\ i > 1 /\ IsOpenCall(prog[i - 1])
         /\ prog[i - 1].a = ins.a
    ELSE /\ i < Len(prog) /\ prog[i + 1].op = "TSETM"
         /\ prog[i + 1].a = ins.a

\* Faulty variant: the arguments of a call are not looked at.
ValidAnyArguments(h, prog, i, ins) ==
    CASE ins.op = "CALL"  -> ins.b # 0 \/ OpenPair(prog, i, ins)
      [] ins.op = "RET"   -> ~RangeHole(h, ins.a, ins.a + ins.c - 2)
      [] ins.op = "CAT"   -> ~ClosedRangeHole(h, ins.b, ins.c)
      [] ins.op = "FORI"  -> ~ClosedRangeHole(h, ins.a, ins.a + 3)
      [] ins.op = "TSETM" -> OpenPair(prog, i, ins)
      [] OTHER -> TRUE

\* tolua_validate_proto_ins
Valid(h, prog, i, ins) ==
    CASE ins.op = "CALL"  ->
            /\ IF ins.b = 0 THEN OpenPair(prog, i, ins)
               ELSE ~ClosedRangeHole(h, ins.a + 1, ins.a + ins.b - 2)
            /\ ~RangeHole(h, ins.a + 1, ins.a + ins.c - 1)
      [] ins.op = "CALLT" -> ~RangeHole(h, ins.a + 1, ins.a + ins.c - 1)
      [] ins.op = "RET"   -> ~RangeHole(h, ins.a, ins.a + ins.c - 2)
      [] ins.op = "CAT"   -> ~ClosedRangeHole(h, ins.b, ins.c)
      [] ins.op = "FORI"  -> ~ClosedRangeHole(h, ins.a, ins.a + 3)
      [] ins.op = "TSETM" -> OpenPair(prog, i, ins)
      [] OTHER -> TRUE

\* The operands of ins that name one register each.
Operands(ins) == CASE ins.op = "CAT" -> {"a", "b", "c"}
                   [] ins.op = "MOV" -> {"a", "c"}
                   [] OTHER -> {"a"}

\* tolua_rewrite_proto_ins
Rewritten(h, ins) ==
    [ins EXCEPT !.a = MapReg(h, @),
                !.b = IF "b" \in Operands(ins) THEN MapReg(h, @) ELSE @,
                !.c = IF "c" \in Operands(ins) THEN MapReg(h, @) ELSE @]

OperandsFit(h, ins) == \A o \in Operands(ins) : Fits(h, ins[o])

\* The loads are instructions with one register each.
LoadsFit(h) == \A r \in UsedRegs : Fits(h, r)

-----------------------------------------------------------------------------
Init == /\ source = <<>> /\ code = <<>>
        /\ pc = 1 /\ holes = {}
        /\ framesize = NumRegs
        /\ status = "compile"

\* The compiler emits ins: it reads only values that are there, and open
\* results are stored at once in the table below them.
Emit(ins) ==
    /\ status = "compile" /\ Len(source) < MaxCode
    /\ source # <<>> => ~Ends(source[Len(source)])
    /\ \A k \in DOMAIN Reads(ins, 0) : Reads(ins, 0)[k] \in UsedRegs
    /\ \A k \in DOMAIN Writes(ins) : Writes(ins)[k] \in UsedRegs
    /\ ins.op = "CAT" => ins.b < ins.c /\ ins.a <= ins.b
    /\ IF source # <<>> /\ IsOpenCall(source[Len(source)])
       THEN ins.op = "TSETM" /\ ins.a = source[Len(source)].a
       ELSE ins.op # "TSETM"
    /\ LET prog == Append(source, ins)
       IN /\ \A k \in DOMAIN Reads(ins, 0) :
                ValuesRead(prog, FR1Env, 0, Len(prog))[k] # Junk
          /\ source' = prog
    /\ UNCHANGED <<code, pc, holes, framesize, status>>

\* tolua_patch_proto_bytecode starts: repack, or collect the holes and map
\* the loads, with which the program begins.
Start ==
    /\ status = "compile"
    /\ source # <<>> /\ Ends(source[Len(source)])
    /\ code' = source
    /\ holes' = Holes(source)
    /\ status' = IF \E i \in DOMAIN source : NeedsRepack(holes', source[i]) THEN "repack"
                 ELSE IF LoadsFit(holes') THEN "rewrite" ELSE "overflow"
    /\ UNCHANGED <<source, pc, framesize>>

\* One turn of the loop of tolua_patch_proto_bytecode.  The base of a TSETM
\* is mapped before it is compared with its producer's.
RewriteIns ==
    /\ status = "rewrite" /\ pc <= Len(code)
    /\ LET ins == code[pc]
           seen == IF ins.op = "TSETM" THEN Rewritten(holes, ins) ELSE ins
       IN IF ins.op = "TSETM" /\ ~OperandsFit(holes, ins)
          THEN status' = "overflow" /\ UNCHANGED <<code, pc>>
          ELSE IF ~Valid(holes, code, pc, seen)
          THEN status' = "layout" /\ UNCHANGED <<code, pc>>
          ELSE IF ~OperandsFit(holes, ins)
          THEN status' = "overflow" /\ UNCHANGED <<code, pc>>
          ELSE /\ code' = [code EXCEPT ![pc] = Rewritten(holes, ins)]
               /\ pc' = pc + 1
               /\ UNCHANGED status
    /\ UNCHANGED <<source, holes, framesize>>

\* Faulty variant: the frame grows by one for all calls together.
SizeFrameOneMore ==
    /\ status = "rewrite" /\ pc = Len(code) + 1
    /\ IF framesize + 1 > MaxA
       THEN status' = "overflow" /\ UNCHANGED framesize
       ELSE status' = "ok" /\ framesize' = framesize + 1
    /\ UNCHANGED <<source, code, pc, holes>>

\* The frame size is mapped with the holes of the rewritten code.
SizeFrame ==
    /\ status = "rewrite" /\ pc = Len(code) + 1
    /\ LET last == MapReg(Holes(code), framesize - 1)
       IN IF last + 1 > MaxA
          THEN status' = "overflow" /\ UNCHANGED framesize
          ELSE status' = "ok" /\ framesize' = last + 1
    /\ UNCHANGED <<source, code, pc, holes>>

Next == \/ \E ins \in Instructions : Emit(ins)
        \/ Start \/ RewriteIns \/ SizeFrame

Spec == Init /\ [][Next]_vars

-----------------------------------------------------------------------------
(* Properties.                                                             *)

\* The variables have their types.
TypeOK == /\ source \in Seq(Instructions)
          /\ Len(code) \in {0, Len(source)}
          /\ pc \in 1..(Len(source) + 1)
          /\ holes \subseteq UsedRegs
          /\ framesize \in 1..MaxA
          /\ status \in {"compile", "rewrite", "repack", "ok", "layout", "overflow"}

\* A program the converter accepts computes what it computed before: every
\* instruction finds, in the FR2 registers it reads, the values that it
\* found in its FR1 registers.
SameValuesRead ==
    status = "ok" =>
        \A i \in DOMAIN source : ValuesRead(code, FR2Env, 1, i) = ValuesRead(source, FR1Env, 0, i)

\* So it does when every call has one result at most, and no open results.
OneResultValuesRead ==
    (\A i \in DOMAIN source : source[i].op = "CALL" => source[i].b \in {1, 2})
        => SameValuesRead

\* The slot that a rewritten call uses for its frame link, the one above its
\* base, holds no register of the program.
LinkSlotFree ==
    \A i \in 1..(pc - 1) : source[i].op \in {"CALL", "CALLT"} =>
        \A r \in UsedRegs : MapReg(holes, r) # code[i].a + 1

\* The operands that an instruction takes from consecutive registers are
\* consecutive again where the rewritten instruction looks for them.
RangesStayTogether ==
    \A i \in 1..(pc - 1) :
        /\ source[i].op \in {"CALL", "CALLT"} => \A k \in 1..(source[i].c - 1) :
              MapReg(holes, source[i].a + k) = code[i].a + 1 + k
        /\ source[i].op = "RET" => \A k \in 0..(source[i].c - 2) :
              MapReg(holes, source[i].a + k) = code[i].a + k
        /\ source[i].op = "CAT" => \A k \in 0..(source[i].c - source[i].b) :
              MapReg(holes, source[i].b + k) = code[i].b + k
        /\ source[i].op = "FORI" => \A k \in 0..3 :
              MapReg(holes, source[i].a + k) = code[i].a + k

\* The frame holds every register that the rewritten program uses, the
\* arguments of its calls included: the rest of the stack belongs to others,
\* and the garbage collector does not look there.  The second collection of
\* the holes finds the calls at their new bases, so this is certain only when
\* no base below the top register has moved up to it or past it.
FrameCovers ==
    /\ status = "ok"
    /\ \A h \in holes : h < NumRegs - 1 => MapReg(holes, h) < NumRegs - 1
    => \A i \in DOMAIN code :
            /\ \A k \in DOMAIN Reads(code[i], 1) : Reads(code[i], 1)[k] < framesize
            /\ \A k \in DOMAIN Writes(code[i]) : Writes(code[i])[k] < framesize
=============================================================================
