------------------------------- MODULE Repack -------------------------------
(***************************************************************************)
(* Repacking the registers of one prototype before the register map is     *)
(* applied to it (src/tolua_fr1_to_fr2.c, tolua_try_repack_proto_calls).   *)
(*                                                                         *)
(* The registers that a CAT joins or a RET returns must stay together when *)
(* the map opens a hole above the base of every call.  Where a hole runs   *)
(* through them, the instructions that compute them are changed to compute *)
(* them elsewhere (a move of the window from the first such instruction    *)
(* on), or they are copied elsewhere right before the CAT.  That is tried  *)
(* again from the start until nothing can be changed any more.             *)
(*                                                                         *)
(* The compiler emits a prototype with concatenations of constants, locals *)
(* and calls without arguments, conditional ones among them, and a loop.   *)
(* After repacking, source and code are run side by side.                  *)
(***************************************************************************)
EXTENDS ShiftMap, Sequences, SequencesExt, FiniteSetsExt

CONSTANTS NumLocals,    \* parameters of the prototype, its first registers
          MaxOperands,  \* bound: operands on the expression stack
          MaxSource     \* bound: instructions that the compiler emits

VARIABLES source,     \* the instructions as the compiler emitted them
          operands,   \* operands on the compiler's expression stack
          loop,       \* the loop that is open: its first instruction, or 0
          code,       \* the instructions in the buffer
          framesize,  \* the frame size of the prototype
          phase,      \* "compile", "repack", "run"; "done", "layout", "overflow"
          turn,       \* history: changes with every turn of the loop
          faults,     \* history: what may have gone wrong in a move
          at,         \* the instructions of source and code that run next
          agree       \* <<r, s>>: r of source and s of code hold the same value

compiling == <<source, operands, loop>>
running   == <<at, agree>>
vars      == <<compiling, code, framesize, phase, turn, faults, running>>

Locals == 0..(NumLocals - 1)
Top    == NumLocals + operands      \* the next free register

\* op; id is its number in source, 0 for a copy; operands it has not are 0.
\* CALL leaves b - 1 results at a; CAT joins b..c into a; RET returns c - 1
\* values from a on.  TEST (of c, IST or ISF) and EQ (of a and c) stand for
\* the comparison and its jump.
Ins(op, a, b, c, to) == [op |-> op, id |-> 0, a |-> a, b |-> b, c |-> c, to |-> to]
Load(r)     == Ins("LOAD", r, 0, 0, 0)
Copy(r, s)  == Ins("MOV", r, 0, s, 0)
Call(r, n)  == Ins("CALL", r, n + 1, 1, 0)
Cat(r, s)   == Ins("CAT", r, r, s, 0)
Test(r, to) == Ins("TEST", 0, 0, r, to)
Equal(r, s, to) == Ins("EQ", r, 0, s, to)
Jump(to)    == Ins("JMP", 0, 0, 0, to)
Store(r)    == Ins("USE", r, 0, 0, 0)
Return(r, n) == Ins(CASE n = 0 -> "RET0" [] n = 1 -> "RET1" [] OTHER -> "RET", r, 0, n + 1, 0)
Ends(ins) == ins.op \in {"RET", "RET0", "RET1"}

-----------------------------------------------------------------------------
(* What the VM does.                                                       *)

\* The registers ins reads, in the order of its operands.
ReadsInOrder(ins) ==
    CASE ins.op \in {"CALL", "USE", "RET1"} -> <<ins.a>>
      [] ins.op \in {"MOV", "TEST"} -> <<ins.c>>
      [] ins.op = "EQ"  -> <<ins.a, ins.c>>
      [] ins.op = "CAT" -> [k \in 1..(ins.c - ins.b + 1) |-> ins.b + k - 1]
      [] ins.op = "RET" -> [k \in 1..(ins.c - 1) |-> ins.a + k - 1]
      [] OTHER -> <<>>

\* The registers that have another value after ins: its result, and what lies
\* above the frame of what is called (a metamethod, in the case of CAT).
Result(ins) == IF ins.op \in {"LOAD", "MOV", "CAT"} \/ (ins.op = "CALL" /\ ins.b = 2)
               THEN {ins.a} ELSE {}
Lost(ins) == Result(ins) \cup CASE ins.op = "CALL" -> ins.a..(2 * MaxA)
                                [] ins.op = "CAT"  -> ins.b..(2 * MaxA)
                                [] OTHER -> {}

\* Where prog may go on behind its instruction p.
After(prog, p) ==
    CASE Ends(prog[p]) -> {}
      [] prog[p].op = "JMP" -> {prog[p].to}
      [] prog[p].op \in {"TEST", "EQ"} -> {p + 1, prog[p].to}
      [] OTHER -> {p + 1}

\* Whether code may read r behind p before it has another value.
Sooner(r, later) == later \cup
    {q \in DOMAIN code : r \notin Lost(code[q]) /\ After(code, q) \cap later # {}}
ReadLater(p, r) ==
    LET reading[n \in 0..Len(code)] ==
            IF n = 0 THEN {q \in DOMAIN code : r \in ToSet(ReadsInOrder(code[q]))}
            ELSE Sooner(r, reading[n - 1])
    IN After(code, p) \cap reading[Len(code)] # {}

-----------------------------------------------------------------------------
(* The compiler.                                                           *)

Init == /\ source = <<>> /\ operands = 0 /\ loop = 0
        /\ code = <<>> /\ framesize = Max({NumLocals, 1})
        /\ phase = "compile" /\ turn = 0 /\ faults = {}
        /\ at = <<1, 1>> /\ agree = {<<r, r>> : r \in Locals}

\* ins is emitted, and left operands remain on the stack.
Emit(inss, left) ==
    /\ phase = "compile"
    /\ Len(source) + Len(inss) < MaxSource
    /\ source' = source \o [k \in DOMAIN inss |-> [inss[k] EXCEPT !.id = Len(source) + k]]
    /\ operands' = left
    /\ framesize' = Max({framesize} \cup {inss[k].a + 1 : k \in DOMAIN inss})
    /\ UNCHANGED <<loop, code, phase, turn, faults, running>>

\* A constant or a global, the result of a global function.
Plain == {<<Load(Top)>>, <<Load(Top), Call(Top, 1)>>}

\* x or y.
Either(first, second) ==
    first \o <<Test(Top, Len(source) + Len(first) + Len(second) + 2)>> \o second

\* (A == f()) and x or y.
Chosen == LET n == Len(source)
          IN <<Load(Top), Load(Top + 1), Call(Top + 1, 1), Equal(Top, Top + 1, n + 7),
               Load(Top), Jump(n + 8), Load(Top)>>

Operand ==
    /\ operands < MaxOperands
    /\ \/ \E inss \in Plain : Emit(inss, operands + 1)
       \/ \E l \in Locals : Emit(<<Copy(Top, l)>>, operands + 1)
       \/ \E first, second \in Plain : Emit(Either(first, second), operands + 1)
       \/ Emit(Chosen, operands + 1)

\* A CAT as the last operand is part of the CAT that joins it.
Join == /\ operands > 1 /\ Last(source).op # "CAT"
        /\ \E n \in 2..operands : Emit(<<Cat(Top - n, Top - 1)>>, operands - n + 1)

Statement ==
    \/ operands = 1 /\ Emit(<<Store(Top - 1)>>, 0)
    \/ operands = 0 /\ Emit(<<Load(Top), Call(Top, 0)>>, 0)
    \/ operands = 0 /\ \E l \in Locals : Emit(<<Store(l)>>, 0)

\* while l do ... end, whose exit is filled in at the end.
Loop ==
    /\ phase = "compile" /\ operands = 0
    /\ Len(source) + 1 < MaxSource
    /\ \/ /\ loop = 0
          /\ \E l \in Locals : source' = Append(source, [Test(l, 0) EXCEPT !.id = Len(source) + 1])
          /\ loop' = Len(source) + 1
       \/ /\ loop > 0 /\ source[loop].to = 0
          /\ source' = [Append(source, [Jump(loop) EXCEPT !.id = Len(source) + 1])
                           EXCEPT ![loop].to = Len(source) + 2]
          /\ loop' = loop
    /\ UNCHANGED <<operands, code, framesize, phase, turn, faults, running>>

\* The prototype ends and is handed over.
End == /\ phase = "compile"
       /\ loop > 0 => source[loop].to > 0
       /\ \E inss \in IF operands = 0 THEN {Return(0, 0)} \cup {Return(l, 1) : l \in Locals}
                      ELSE {Return(NumLocals, operands)} :
             source' = Append(source, [inss EXCEPT !.id = Len(source) + 1])
       /\ code' = source' /\ phase' = "repack"
       /\ UNCHANGED <<operands, loop, framesize, turn, faults, running>>

-----------------------------------------------------------------------------
(* What the converter sees of an instruction.                              *)

\* tolua_ins_reads_reg.  The comparisons IST and ISF have no A, and RET0
\* returns nothing, but their A, which is 0, counts.
Reads(ins) == ToSet(ReadsInOrder(ins)) \cup IF ins.op \in {"TEST", "RET0"} THEN {ins.a} ELSE {}

\* tolua_ins_writes_reg, for these instructions.
Writes(ins) == Result(ins)

\* tolua_get_slice_def_reg: the instructions that can be moved.
Defines(ins) == ins.op \in {"LOAD", "MOV", "CAT"}

\* tolua_can_rewrite_ins_source_reg
CanRewriteSource(ins, r) ==
    CASE ins.op = "CALL" -> FALSE
      [] ins.op = "RET"  -> ins.c = 2 /\ ins.a = r
      [] ins.op = "CAT"  -> r \in {ins.b, ins.c}
      [] OTHER -> TRUE

\* Faulty variant: the register that a comparison or a copy reads is left out.
RemappedWithoutC(ins, first, last, base) ==
    LET New(r) == IF r \in first..last THEN base + r - first ELSE r
    IN [ins EXCEPT !.a = IF ins.op = "JMP" THEN @ ELSE New(@),
                   !.b = IF ins.op = "CAT" THEN New(@) ELSE @,
                   !.c = IF ins.op = "CAT" THEN New(@) ELSE @]

\* tolua_repack_remap_reg_range: every operand in first..last that is a register.
Remapped(ins, first, last, base) ==
    LET New(r) == IF r \in first..last THEN base + r - first ELSE r
    IN [ins EXCEPT !.a = IF ins.op = "JMP" THEN @ ELSE New(@),
                   !.b = IF ins.op = "CAT" THEN New(@) ELSE @,
                   !.c = IF ins.op \in {"CAT", "MOV", "TEST", "EQ"} THEN New(@) ELSE @]

\* tolua_collect_proto_holes
Holes == {code[p].a : p \in {q \in DOMAIN code : code[q].op = "CALL"}}
HoleFree(base, n) == ~ClosedRangeHole(Holes, base, base + n - 1)

\* tolua_mark_proto_targets, tolua_target_has_external_entry
JumpsTo(p) == {q \in DOMAIN code : code[q].to = p}
EntersFrom(outside, p) == JumpsTo(p) \cap outside # {}

\* The registers of p that must stay together.
FirstReg(p) == IF code[p].op = "CAT" THEN code[p].b ELSE code[p].a
NumRegs(p)  == IF code[p].op = "CAT" THEN code[p].c - code[p].b + 1 ELSE code[p].c - 1
Together(p) == FirstReg(p)..(FirstReg(p) + NumRegs(p) - 1)

\* The conditions in the loop over the instructions.
NeedsRepack(p) ==
    \/ code[p].op = "CAT" /\ ClosedRangeHole(Holes, code[p].b, code[p].c)
    \/ code[p].op = "RET" /\ RangeHole(Holes, code[p].a, code[p].a + code[p].c - 2)

\* tolua_reg_live_after_pc, which reads on in a line.
LiveAfter(p, r) ==
    \E q \in (p + 1)..Len(code) :
        /\ r \in Reads(code[q])
        /\ \A s \in (p + 1)..(q - 1) : r \notin Writes(code[s])

-----------------------------------------------------------------------------
(* The window.                                                             *)

\* From p backwards: the registers still to be found, and the instructions
\* that compute the others.
Traced(ins, q, later, p) ==
    IF Defines(ins) /\ ins.a \in later.live
    THEN [live |-> (later.live \ {ins.a}) \cup (Reads(ins) \cap Together(p)),
          chosen |-> later.chosen \cup {q}]
    ELSE later
Slice(p) ==
    LET s[q \in 1..p] == IF q = p THEN [live |-> Together(p), chosen |-> {}]
                         ELSE Traced(code[q], q, s[q + 1], p)
    IN s

\* The instructions of the window first..(p - 1) that are in the way: the
\* window is entered there, or a register that is still to be found is.
Entered(p, first, q) == q # first /\ EntersFrom(DOMAIN code \ (first..(p - 1)), q)
Disturbs(q, live, readable) ==
    \E r \in live :
        \/ r \in Writes(code[q])
        \/ r \in Reads(code[q]) /\ ~(readable /\ CanRewriteSource(code[q], r))
Stops(p, first, slice, readable) ==
    {q \in first..(p - 1) :
        \/ Entered(p, first, q)
        \/ q \notin slice[1].chosen /\ Disturbs(q, slice[q + 1].live, readable)}

\* Where the window begins, or 0 if there is none; then the instruction that
\* is in the way, or 0 if it is something else.
Selected(p, first, stops) ==
    IF stops = {} THEN <<first, 0>>
    ELSE <<0, IF Entered(p, first, Max(stops)) THEN 0 ELSE Max(stops)>>
SelectedFrom(p, slice, readable) ==
    LET first == Min(slice[1].chosen \cup {p})
    IN IF slice[1].live # {} THEN <<0, 0>>
       ELSE Selected(p, first, Stops(p, first, slice, readable))

\* tolua_select_repack_slice and, when reading is allowed,
\* tolua_retry_repack_slice_with_readonly_interference.
Window(p, readable) == SelectedFrom(p, Slice(p), readable)

IsCall(q) == q > 0 /\ code[q].op = "CALL"

\* The window that tolua_try_repack_cat ends up with when copies are not
\* possible.  A call in the way should be repacked, but one without arguments
\* never is; then the CAT alone is the window.
CatWindow(p, strict, lax) ==
    IF strict[2] = 0 THEN 0
    ELSE IF IsCall(strict[2]) THEN p
    ELSE IF lax[1] > 0 THEN lax[1]
    ELSE IF IsCall(lax[2]) THEN p ELSE 0

-----------------------------------------------------------------------------
(* The new place.                                                          *)

Nowhere == -1
Least(s) == IF s = {} THEN Nowhere ELSE Min(s)

\* Below the frame size, if nothing is read there later; then above it.
Inside(p)  == {base \in 0..(framesize - NumRegs(p)) :
                  /\ HoleFree(base, NumRegs(p))
                  /\ \A r \in base..(base + NumRegs(p) - 1) : ~LiveAfter(p, r)}
Outside(p) == {base \in framesize..(MaxA - NumRegs(p) + 1) : HoleFree(base, NumRegs(p))}
Apart(p, base) == Together(p) \cap base..(base + NumRegs(p) - 1) = {}

Searched(inside, outside) == IF inside # {} THEN Min(inside) ELSE Least(outside)

\* tolua_try_repack_cat and tolua_try_repack_ret, for a window from w on.
Touched(p, w) == UNION {Reads(code[q]) \cup Writes(code[q]) : q \in w..(p - 1)}
MoveBase(p, w) ==
    IF code[p].op = "RET"
    THEN IF framesize + NumRegs(p) - 1 > MaxA THEN Nowhere ELSE framesize
    ELSE Searched({base \in Inside(p) :
                      Apart(p, base) /\ Touched(p, w) \cap base..(base + NumRegs(p) - 1) = {}},
                  {base \in Outside(p) : Apart(p, base)})

\* tolua_try_repack_cat_gap_copy, and tolua_try_repack_cat_split_hole, which
\* ends its search one register above the frame without looking at the range.
SplitBase(p, inside) == IF inside # {} THEN Min(inside) ELSE framesize - NumRegs(p) + 1
CopyBase(p, inside) ==
    LET apart == Searched({base \in inside : Apart(p, base)}, {base \in Outside(p) : Apart(p, base)})
        split == SplitBase(p, inside)
    IN IF JumpsTo(p) # {} THEN Nowhere
       ELSE IF apart # Nowhere THEN apart
       ELSE IF split + NumRegs(p) - 1 > MaxA \/ split = FirstReg(p) THEN Nowhere ELSE split

\* What is done about the instruction at p: a move of the window from w on,
\* copies, or nothing.
PlanFor(how, p, w, base) ==
    IF base = Nowhere THEN {} ELSE {[how |-> how, at |-> p, window |-> w, base |-> base]}
MovePlan(p, w) == IF w = 0 THEN {} ELSE PlanFor("move", p, w, MoveBase(p, w))
CopyPlan(p) == PlanFor("copy", p, p, CopyBase(p, Inside(p)))
OtherPlan(p, strict, copying) ==
    IF copying # {} THEN copying ELSE MovePlan(p, CatWindow(p, strict, Window(p, TRUE)))
PlanWith(p, strict) ==
    IF strict[1] > 0 THEN MovePlan(p, strict[1])
    ELSE IF code[p].op = "RET" THEN {}
    ELSE OtherPlan(p, strict, CopyPlan(p))
Plan(p) == PlanWith(p, Window(p, FALSE))

-----------------------------------------------------------------------------
(* The loop of tolua_try_repack_proto_calls.                               *)

\* The instructions from plan.window on that come before what the plan is for.
InWindow(plan) == {q \in 1..(plan.at - 1) : q >= plan.window}
Moved(plan) ==
    LET p == plan.at
        first == FirstReg(p)
        last == first + NumRegs(p) - 1
    IN [q \in DOMAIN code |->
           IF q \in InWindow(plan) THEN Remapped(code[q], first, last, plan.base)
           ELSE IF q = p /\ code[p].op = "RET" THEN [code[q] EXCEPT !.a = plan.base]
           ELSE IF q = p THEN [code[q] EXCEPT !.b = plan.base, !.c = plan.base + NumRegs(p) - 1]
           ELSE code[q]]

\* Copies before p, in an order that allows the ranges to overlap; the
\* prototype is built again with them.
WithCopies(plan) ==
    LET p == plan.at
        n == NumRegs(p)
        Offset(k) == IF plan.base > FirstReg(p) THEN n - k ELSE k - 1
        copies == [k \in 1..n |-> Copy(plan.base + Offset(k), FirstReg(p) + Offset(k))]
        shifted == [q \in DOMAIN code |-> [code[q] EXCEPT !.to = IF @ > p THEN @ + n ELSE @]]
    IN SubSeq(shifted, 1, p - 1) \o copies \o
       <<[shifted[p] EXCEPT !.b = plan.base, !.c = plan.base + n - 1]>> \o
       SubSeq(shifted, p + 1, Len(code))

\* What a move may do wrong: nothing has computed the registers; a call in
\* the window moves along, with its hole; a call, or a CAT with a metamethod,
\* stays below them in the window and its frame destroys them; a CAT in the
\* window is moved in part; they, or the frame of a metamethod, destroy what
\* is read later.
Frame(ins) == IF ins.op = "CAT" THEN ins.b ELSE ins.a
FaultsOf(plan) ==
    LET p == plan.at
        framed == {q \in InWindow(plan) : code[q].op \in {"CALL", "CAT"}}
        Torn(ins) == LET joined == ins.b..ins.c
                     IN /\ ins.op = "CAT" /\ joined \cap Together(p) # {}
                        /\ ~(joined \subseteq Together(p))
    IN {f \in {"blind", "carried", "overtaken", "torn", "overwriting"} :
           CASE f = "blind" -> plan.how = "move" /\ plan.window = p
             [] f = "carried" -> \E q \in framed : code[q].op = "CALL" /\ code[q].a \in Together(p)
             [] f = "overtaken" -> \E q \in framed : /\ Frame(code[q]) \notin Together(p)
                                                    /\ Frame(code[q]) < plan.base + NumRegs(p)
             [] f = "torn" -> \E q \in framed : Torn(code[q])
             [] f = "overwriting" -> \E r \in plan.base..framesize :
                                        r \notin Result(code[p]) /\ ReadLater(p, r)}

Plans == UNION {Plan(p) : p \in {q \in DOMAIN code : NeedsRepack(q)}}

\* One turn: the first instruction that something can be done about.
RepackOne(plans) ==
    \E plan \in plans :
        LET size == plan.base + NumRegs(plan.at)
        IN /\ \A other \in plans : plan.at <= other.at
           /\ IF size > MaxA
              THEN phase' = "overflow" /\ UNCHANGED <<code, framesize, faults>>
              ELSE /\ code' = IF plan.how = "move" THEN Moved(plan) ELSE WithCopies(plan)
                   /\ framesize' = Max({framesize, size})
                   /\ faults' = faults \cup FaultsOf(plan)
                   /\ UNCHANGED phase

\* Faulty variant: the loop goes on as long as something needs to be repacked,
\* although nothing can be done about it.
RepackNothingWaits(plans) ==
    /\ plans = {}
    /\ phase' = IF \E p \in DOMAIN code : NeedsRepack(p) THEN phase
                ELSE IF code = source THEN "done" ELSE "run"
    /\ UNCHANGED <<code, framesize, faults>>

\* The last turn; what still needs to be repacked is refused afterwards.  Bound:
\* what has not been changed is not run.
RepackNothing(plans) ==
    /\ plans = {}
    /\ phase' = IF \E p \in DOMAIN code : NeedsRepack(p) THEN "layout"
                ELSE IF code = source THEN "done" ELSE "run"
    /\ UNCHANGED <<code, framesize, faults>>

Repacked(plans) == RepackOne(plans) \/ RepackNothing(plans)

Repacking == /\ phase = "repack"
             /\ Repacked(Plans)
             /\ turn' = 1 - turn
             /\ UNCHANGED <<compiling, running>>

-----------------------------------------------------------------------------
(* The run.                                                                *)

\* A copy, which is in code only.
RunCopy ==
    /\ phase = "run"
    /\ LET ins == code[at[2]]
       IN /\ ins.id = 0
          /\ agree' = {pair \in agree : pair[2] # ins.a} \cup
                      {<<pair[1], ins.a>> : pair \in {q \in agree : q[2] = ins.c}}
    /\ at' = [at EXCEPT ![2] = @ + 1]
    /\ UNCHANGED <<compiling, code, framesize, phase, turn, faults>>

\* An instruction of source and what became of it; both go the same way.
RunBoth ==
    /\ phase = "run" /\ code[at[2]].id # 0
    /\ LET old == source[at[1]]
           new == code[at[2]]
       IN /\ agree' = {pair \in agree : pair[1] \notin Lost(old) /\ pair[2] \notin Lost(new)} \cup
                      (Result(old) \X Result(new))
          /\ IF Ends(old) THEN phase' = "done" /\ UNCHANGED at
             ELSE /\ UNCHANGED phase
                  /\ \/ old.op # "JMP" /\ at' = <<at[1] + 1, at[2] + 1>>
                     \/ old.op \in {"JMP", "TEST", "EQ"} /\ at' = <<old.to, new.to>>
    /\ UNCHANGED <<compiling, code, framesize, turn, faults>>

Next == \/ Operand \/ Join \/ Statement \/ Loop \/ End
        \/ Repacking
        \/ RunCopy \/ RunBoth

Spec == Init /\ [][Next]_vars

\* The converter is sequential code that waits for nothing: the loop takes its
\* next turn.  Only Repacking changes turn.
Turns == phase = "repack" /\ turn' = 1 - turn
FairSpec == Spec /\ WF_turn(Turns)

-----------------------------------------------------------------------------
(* Properties.                                                             *)

\* What the instructions of code read is what those of source read, unless a
\* move has gone wrong in one of the ways FaultsOf tells.
ValuesKept ==
    /\ phase = "run" /\ faults \subseteq {"carried"}
    /\ code[at[2]].id # 0
    => LET old == ReadsInOrder(source[at[1]])
           new == ReadsInOrder(code[at[2]])
       IN /\ code[at[2]].id = at[1]
          /\ Len(old) = Len(new)
          /\ \A k \in DOMAIN old : <<old[k], new[k]>> \in agree

\* Every copy runs on into the instruction it was made for, every other
\* instruction is one of source and goes on, by itself and by its jump, where
\* that one does; unless a CAT was torn, it has as many operands.
ProgramKept ==
    phase # "compile" =>
        \E f \in [DOMAIN code -> DOMAIN source] :
            /\ f[1] = 1
            /\ phase = "run" => at[2] \in DOMAIN code /\ f[at[2]] = at[1]
            /\ \A p \in DOMAIN code :
                  LET new == code[p]
                      old == source[f[p]]
                  IN /\ After(code, p) \subseteq DOMAIN code
                     /\ IF new.id = 0 THEN new.op = "MOV" /\ f[p + 1] = f[p]
                        ELSE /\ new.id = f[p] /\ new.op = old.op
                             /\ ~Ends(old) /\ old.op # "JMP" => f[p + 1] = f[p] + 1
                             /\ old.op \in {"JMP", "TEST", "EQ"} => f[new.to] = old.to
                             /\ "torn" \notin faults =>
                                    Len(ReadsInOrder(new)) = Len(ReadsInOrder(old))

\* No jump arrives behind a copy that has not run.
NoCopySkipped ==
    \A p \in DOMAIN code : JumpsTo(p) # {} => p = 1 \/ code[p - 1].id # 0

\* The frame has every register that the instructions name.
FrameHolds == \A p \in DOMAIN code : Reads(code[p]) \cup Writes(code[p]) \subseteq 0..(framesize - 1)

\* Repacking comes to an end.
RepackEnds == (phase = "repack") ~> (phase # "repack")

\* A turn that moved no call along and tore no CAT leaves less to be repacked, or
\* else the frame has grown towards its limit.
Pending == {code[p].id : p \in {q \in DOMAIN code : NeedsRepack(q)}}
TurnsComeCloser ==
    [][phase = "repack" /\ phase' = "repack" /\ faults' \cap {"carried", "torn"} = {}
       => /\ Pending' \subseteq Pending
          /\ Pending' # Pending \/ (framesize' > framesize /\ framesize' <= MaxA)]_vars

\* It does, unless a call was moved along with the registers.
RepackEndsUncarried == (phase = "repack") ~> (phase # "repack" \/ "carried" \in faults)
=============================================================================
