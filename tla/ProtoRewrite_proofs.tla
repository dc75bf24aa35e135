------------------------- MODULE ProtoRewrite_proofs -------------------------
(* The rewriting keeps register ranges together and the frame link slots   *)
(* free, sizes the frame and, where calls have one result at most, keeps   *)
(* the values that are read, for every program, register count and         *)
(* register limit.                                                         *)
EXTENDS ProtoRewrite, FiniteSetTheorems, SequenceTheorems,
        WellFoundedInduction, TLAPS

-----------------------------------------------------------------------------
(* What the register shift (ShiftMap) does to single registers and to      *)
(* ranges, for a finite set of holes and arbitrary registers.              *)

(* The number of holes below a register is a natural number.               *)
LEMMA PrefixType ==
    ASSUME NEW H \in SUBSET Nat, IsFiniteSet(H), NEW r \in Int
    PROVE  Prefix(H, r) \in Nat /\ IsFiniteSet({h \in H : h < r})
<1>1. IsFiniteSet({h \in H : h < r})
  BY FS_Subset
<1>. QED BY <1>1, FS_CardinalityType DEF Prefix

(* Without a hole in a range, the registers of the range move together.    *)
LEMMA RangeMoves ==
    ASSUME NEW H \in SUBSET Nat, IsFiniteSet(H),
           NEW first \in Int, NEW r \in Int, first <= r,
           ~RangeHole(H, first, r)
    PROVE  MapReg(H, r) = MapReg(H, first) + (r - first)
<1>1. {h \in H : h < r} = {h \in H : h < first}
  <2>1. ASSUME NEW h \in H PROVE h < r <=> h < first
    <3>1. h \in Nat /\ ~(first <= h /\ h < r)
      BY DEF RangeHole
    <3>. QED BY <3>1
  <2>. QED BY <2>1
<1>2. Prefix(H, r) = Prefix(H, first)
  BY <1>1 DEF Prefix
<1>3. Prefix(H, first) \in Nat
  BY PrefixType
<1>. QED BY <1>2, <1>3 DEF MapReg

(* A hole at a moves what follows it, up to the next hole, one further.    *)
LEMMA HoleMoves ==
    ASSUME NEW H \in SUBSET Nat, IsFiniteSet(H), NEW a \in H,
           NEW r \in Int, a < r, ~RangeHole(H, a + 1, r)
    PROVE  MapReg(H, r) = MapReg(H, a) + (r - a) + 1
<1>. DEFINE below == {h \in H : h < a}
<1>1. {h \in H : h < r} = below \cup {a}
  <2>1. ASSUME NEW h \in H PROVE h < r <=> (h < a \/ h = a)
    <3>1. h \in Nat /\ a \in Nat /\ ~(a + 1 <= h /\ h < r)
      BY DEF RangeHole
    <3>. QED BY <3>1
  <2>. QED BY <2>1
<1>2. IsFiniteSet(below) /\ a \notin below
  BY PrefixType
<1>3. Cardinality(below \cup {a}) = Cardinality(below) + 1
  BY <1>2, FS_AddElement
<1>4. Prefix(H, r) = Prefix(H, a) + 1
  BY <1>1, <1>3 DEF Prefix
<1>5. a \in Int
  OBVIOUS
<1>6. Prefix(H, a) \in Nat
  BY <1>5, PrefixType
<1>. QED BY <1>4, <1>5, <1>6 DEF MapReg

(* A higher register moves at least as far as a lower one.                 *)
LEMMA MapMonotone ==
    ASSUME NEW H \in SUBSET Nat, IsFiniteSet(H),
           NEW r \in Int, NEW s \in Int, r <= s
    PROVE  MapReg(H, r) + (s - r) <= MapReg(H, s)
<1>1. {h \in H : h < r} \subseteq {h \in H : h < s}
  <2>1. ASSUME NEW h \in H, h < r PROVE h < s
    <3>1. h \in Nat
      OBVIOUS
    <3>. QED BY <3>1, <2>1
  <2>. QED BY <2>1
<1>2. IsFiniteSet({h \in H : h < s})
  BY PrefixType
<1>3. Prefix(H, r) <= Prefix(H, s)
  BY <1>1, <1>2, FS_Subset DEF Prefix
<1>4. Prefix(H, r) \in Nat /\ Prefix(H, s) \in Nat
  BY PrefixType
<1>. QED BY <1>3, <1>4 DEF MapReg

(* The slot above a mapped call base is the image of no register.          *)
LEMMA LinkSlotUnmapped ==
    ASSUME NEW H \in SUBSET Nat, IsFiniteSet(H), NEW a \in H,
           NEW r \in Int
    PROVE  MapReg(H, r) # MapReg(H, a) + 1
<1>. a \in Int
  OBVIOUS
<1>t. MapReg(H, r) \in Int /\ MapReg(H, a) \in Int
  <2>1. Prefix(H, r) \in Nat /\ Prefix(H, a) \in Nat
    BY PrefixType
  <2>. QED BY <2>1 DEF MapReg
<1>1. CASE r <= a
  <2>1. MapReg(H, r) + (a - r) <= MapReg(H, a)
    BY <1>1, MapMonotone
  <2>. QED BY <2>1, <1>1, <1>t
<1>2. CASE a < r
  <2>. DEFINE b == a + 1
  <2>1. b \in Int /\ b <= r /\ a < b
    BY <1>2
  <2>2. ~RangeHole(H, a + 1, b)
    BY DEF RangeHole
  <2>3. MapReg(H, b) = MapReg(H, a) + (b - a) + 1
    BY <2>1, <2>2, HoleMoves
  <2>4. MapReg(H, b) + (r - b) <= MapReg(H, r)
    BY <2>1, MapMonotone
  <2>. QED BY <2>3, <2>4, <2>1, <1>t
<1>. QED BY <1>1, <1>2

-----------------------------------------------------------------------------
(* The rewriting of one prototype.                                         *)

USE RewriteAssumption, MaxAAssumption

\* Instructions with arbitrary integer operands.
AnyIns == [op : Ops, a : Int, b : Int, c : Int]

\* The conditions of Valid that are about the holes, on an instruction as
\* the compiler emitted it.
RangesWhole(h, ins) ==
    /\ ins.op \in {"CALL", "CALLT"} => ~RangeHole(h, ins.a + 1, ins.a + ins.c - 1)
    /\ ins.op = "RET"  => ~RangeHole(h, ins.a, ins.a + ins.c - 2)
    /\ ins.op = "CAT"  => ~ClosedRangeHole(h, ins.b, ins.c)
    /\ ins.op = "FORI" => ~ClosedRangeHole(h, ins.a, ins.a + 3)

\* The inductive invariant: the loop has rewritten exactly the instructions
\* below pc, each once, from the source, after a look at its ranges.
IInv ==
    /\ source \in Seq(Instructions)
    /\ pc \in Nat \ {0}
    /\ status = "compile" => pc = 1 /\ code = <<>>
    /\ status # "compile" =>
          /\ Len(code) = Len(source) /\ code \in Seq(AnyIns)
          /\ holes = Holes(source)
          /\ pc <= Len(source) + 1
    /\ \A i \in 1..(pc - 1) : /\ code[i] = Rewritten(holes, source[i])
                              /\ RangesWhole(holes, source[i])
    /\ \A i \in pc..Len(code) : code[i] = source[i]

(* Instructions are records whose operands are registers or counts.        *)
LEMMA InstructionType ==
    ASSUME NEW ins \in Instructions
    PROVE  /\ ins \in AnyIns
           /\ ins.a \in UsedRegs
           /\ ins.op = "CAT" => ins.b \in UsedRegs /\ ins.c \in UsedRegs
           /\ ins.op = "MOV" => ins.c \in UsedRegs
<1>1. ins \in [op : Ops, a : UsedRegs, b : 0..(NumRegs + MaxResults), c : 0..(NumRegs + 1)]
  BY DEF Instructions
<1>2. ins.a \in Int /\ ins.b \in Int /\ ins.c \in Int
  BY <1>1 DEF UsedRegs
<1>. QED BY <1>1, <1>2 DEF Instructions, AnyIns

(* The holes of a program are finitely many registers.                     *)
LEMMA HolesType ==
    ASSUME NEW prog \in Seq(Instructions)
    PROVE  Holes(prog) \in SUBSET Nat /\ IsFiniteSet(Holes(prog))
<1>1. Holes(prog) \subseteq UsedRegs
  <2>1. ASSUME NEW i \in DOMAIN prog PROVE prog[i].a \in UsedRegs
    <3>1. prog[i] \in Instructions
      OBVIOUS
    <3>. QED BY <3>1, InstructionType
  <2>. QED BY <2>1 DEF Holes
<1>2. IsFiniteSet(UsedRegs)
  BY FS_Interval DEF UsedRegs
<1>. QED BY <1>1, <1>2, FS_Subset DEF UsedRegs
(* Every mapped instruction is one again, with integer operands.           *)
LEMMA RewrittenType ==
    ASSUME NEW h \in SUBSET Nat, IsFiniteSet(h),
           NEW ins \in AnyIns
    PROVE  /\ Rewritten(h, ins) \in AnyIns
           /\ Rewritten(h, ins).a = MapReg(h, ins.a)
           /\ ins.op = "CAT" => Rewritten(h, ins).b = MapReg(h, ins.b)
<1>1. MapReg(h, ins.a) \in Int /\ MapReg(h, ins.b) \in Int /\ MapReg(h, ins.c) \in Int
  <2>1. \A r \in Int : Prefix(h, r) \in Nat
    BY PrefixType
  <2>. QED BY <2>1 DEF MapReg, AnyIns
<1>. QED BY <1>1 DEF Rewritten, Operands, AnyIns

(* What tolua_validate_proto_ins lets pass has no hole in its ranges.      *)
LEMMA ValidRanges ==
    ASSUME NEW h, NEW prog, NEW i, NEW ins, Valid(h, prog, i, ins), ins.op # "TSETM"
    PROVE  RangesWhole(h, ins)
BY DEF Valid, RangesWhole

LEMMA InitInv == Init => IInv
<1>. SUFFICES ASSUME Init PROVE IInv
  OBVIOUS
<1>. QED BY DEF Init, IInv

(* The compiler touches nothing but the source.                            *)
LEMMA EmitInv ==
    ASSUME IInv, NEW ins \in Instructions, Emit(ins)
    PROVE  IInv'
<1>1. source' = Append(source, ins) /\ status = "compile" /\ pc = 1
  BY DEF Emit, IInv
<1>2. source' \in Seq(Instructions)
  BY <1>1 DEF IInv
<1>3. UNCHANGED <<code, pc, holes, framesize, status>>
  BY DEF Emit
<1>4. code = <<>>
  BY <1>1 DEF IInv
<1>. QED BY <1>1, <1>2, <1>3, <1>4 DEF IInv

(* The loop starts on a copy of the source with nothing rewritten.         *)
LEMMA StartInv ==
    ASSUME IInv, Start
    PROVE  IInv'
<1>1. /\ status = "compile" /\ pc = 1 /\ source \in Seq(Instructions)
      /\ source' = source /\ code' = source /\ pc' = pc
      /\ holes' = Holes(source) /\ status' # "compile"
  BY DEF Start, IInv
<1>2. code' \in Seq(AnyIns)
  <2>1. Instructions \subseteq AnyIns
    BY InstructionType
  <2>. QED BY <1>1, <2>1
<1>3. pc' <= Len(source') + 1
  BY <1>1
<1>. QED BY <1>1, <1>2, <1>3 DEF IInv, Holes

(* A turn of the loop rewrites the instruction at pc, which is still the   *)
(* one of the source, after its ranges were found whole.                   *)
LEMMA RewriteInsInv ==
    ASSUME IInv, RewriteIns
    PROVE  IInv'
<1>1. /\ status = "rewrite" /\ pc \in 1..Len(code) /\ holes = Holes(source)
      /\ Len(code) = Len(source) /\ source \in Seq(Instructions)
      /\ code \in Seq(AnyIns)
      /\ source' = source /\ holes' = holes
  BY DEF RewriteIns, IInv
<1>2. code[pc] = source[pc]
  BY <1>1 DEF IInv
<1>3. CASE status' \in {"layout", "overflow"} /\ UNCHANGED <<code, pc>>
  BY <1>1, <1>3 DEF IInv
<1>4. ASSUME /\ code' = [code EXCEPT ![pc] = Rewritten(holes, code[pc])]
             /\ pc' = pc + 1 /\ status' = status
             /\ code[pc].op # "TSETM" => Valid(holes, code, pc, code[pc])
      PROVE  IInv'
  <2>1. RangesWhole(holes, source[pc])
    <3>1. CASE source[pc].op = "TSETM"
      BY <3>1 DEF RangesWhole
    <3>2. CASE source[pc].op # "TSETM"
      BY <3>2, <1>2, <1>4, ValidRanges
    <3>. QED BY <3>1, <3>2
  <2>2. Rewritten(holes, code[pc]) \in AnyIns
    <3>1. code[pc] \in AnyIns
      BY <1>1
    <3>. QED BY <3>1, <1>1, HolesType, RewrittenType
  <2>3. /\ code' \in Seq(AnyIns)
        /\ Len(code') = Len(code)
        /\ code'[pc] = Rewritten(holes, source[pc])
        /\ \A i \in 1..Len(code) : i # pc => code'[i] = code[i]
    BY <1>1, <1>2, <1>4, <2>2
  <2>4. pc' \in Nat \ {0} /\ pc' <= Len(source') + 1
    BY <1>1, <1>4
  <2>5. \A i \in 1..(pc' - 1) : /\ code'[i] = Rewritten(holes', source'[i])
                                /\ RangesWhole(holes', source'[i])
    <3>1. ASSUME NEW i \in 1..pc
          PROVE  code'[i] = Rewritten(holes, source[i]) /\ RangesWhole(holes, source[i])
      <4>1. CASE i = pc
        BY <4>1, <2>1, <2>3
      <4>2. CASE i # pc
        <5>1. i \in 1..(pc - 1) /\ i \in 1..Len(code)
          BY <4>2, <1>1
        <5>. QED BY <5>1, <4>2, <2>3 DEF IInv
      <4>. QED BY <4>1, <4>2
    <3>2. pc' - 1 = pc
      BY <1>1, <1>4
    <3>. QED BY <3>1, <3>2, <1>1
  <2>6. \A i \in pc'..Len(code') : code'[i] = source'[i]
    <3>1. ASSUME NEW i \in (pc + 1)..Len(code) PROVE code'[i] = source[i]
      <4>1. i \in pc..Len(code) /\ i \in 1..Len(code) /\ i # pc
        BY <1>1
      <4>. QED BY <4>1, <2>3 DEF IInv
    <3>. QED BY <3>1, <2>3, <1>1, <1>4
  <2>. QED BY <1>1, <1>4, <2>3, <2>4, <2>5, <2>6 DEF IInv
<1>. QED BY <1>3, <1>4 DEF RewriteIns

LEMMA NextInv == IInv /\ [Next]_vars => IInv'
<1>. SUFFICES ASSUME IInv, [Next]_vars PROVE IInv'
  OBVIOUS
<1>1. ASSUME NEW ins \in Instructions, Emit(ins) PROVE IInv'
  BY <1>1, EmitInv
<1>2. CASE Start
  BY <1>2, StartInv
<1>3. CASE RewriteIns
  BY <1>3, RewriteInsInv
<1>4. CASE SizeFrame
  <2>1. UNCHANGED <<source, code, pc, holes>> /\ status = "rewrite" /\ status' # "compile"
    BY <1>4 DEF SizeFrame
  <2>. QED BY <2>1 DEF IInv
<1>5. CASE UNCHANGED vars
  BY <1>5 DEF IInv, vars
<1>. QED BY <1>1, <1>2, <1>3, <1>4, <1>5 DEF Next

(* The inductive invariant holds in every reachable state.                 *)
THEOREM Invariance == Spec => []IInv
BY InitInv, NextInv, PTL DEF Spec

(* What the invariant says of a rewritten instruction: its source is an    *)
(* instruction and its holes are those of the program.                     *)
LEMMA RewrittenAt ==
    ASSUME IInv, NEW i \in 1..(pc - 1)
    PROVE  /\ i \in DOMAIN source /\ source[i] \in Instructions
           /\ holes = Holes(source) /\ holes \in SUBSET Nat /\ IsFiniteSet(holes)
           /\ code[i].a = MapReg(holes, source[i].a)
           /\ source[i].op = "CAT" => code[i].b = MapReg(holes, source[i].b)
           /\ RangesWhole(holes, source[i])
<1>1. status # "compile"
  BY DEF IInv
<1>2. /\ source \in Seq(Instructions) /\ holes = Holes(source)
      /\ i \in 1..Len(source)
  BY <1>1 DEF IInv
<1>3. source[i] \in Instructions
  BY <1>2
<1>4. holes \in SUBSET Nat /\ IsFiniteSet(holes)
  BY <1>2, HolesType
<1>5. code[i] = Rewritten(holes, source[i]) /\ RangesWhole(holes, source[i])
  BY DEF IInv
<1>6. /\ code[i].a = MapReg(holes, source[i].a)
      /\ source[i].op = "CAT" => code[i].b = MapReg(holes, source[i].b)
  <2>1. source[i] \in AnyIns
    BY <1>3, InstructionType
  <2>. QED BY <2>1, <1>4, <1>5, RewrittenType
<1>. QED BY <1>2, <1>3, <1>4, <1>5, <1>6

(* No register of the program lands on the frame link slot of a call.      *)
THEOREM LinkSlotSafe == Spec => []LinkSlotFree
<1>1. ASSUME IInv PROVE LinkSlotFree
  <2>. SUFFICES ASSUME NEW i \in 1..(pc - 1), source[i].op \in {"CALL", "CALLT"},
                       NEW r \in UsedRegs
                PROVE  MapReg(holes, r) # code[i].a + 1
    BY DEF LinkSlotFree
  <2>1. source[i].a \in holes
    BY <1>1, RewrittenAt DEF Holes
  <2>2. r \in Int
    BY DEF UsedRegs
  <2>. QED BY <1>1, <2>1, <2>2, RewrittenAt, LinkSlotUnmapped
<1>. QED BY <1>1, Invariance, PTL

(* Arguments, returned values, joined strings and loop control registers   *)
(* are consecutive after the rewriting, where the instruction finds them.  *)
THEOREM RangesSafe == Spec => []RangesStayTogether
<1>1. ASSUME IInv PROVE RangesStayTogether
  <2>. SUFFICES ASSUME NEW i \in 1..(pc - 1)
       PROVE  /\ source[i].op \in {"CALL", "CALLT"} => \A k \in 1..(source[i].c - 1) :
                    MapReg(holes, source[i].a + k) = code[i].a + 1 + k
              /\ source[i].op = "RET" => \A k \in 0..(source[i].c - 2) :
                    MapReg(holes, source[i].a + k) = code[i].a + k
              /\ source[i].op = "CAT" => \A k \in 0..(source[i].c - source[i].b) :
                    MapReg(holes, source[i].b + k) = code[i].b + k
              /\ source[i].op = "FORI" => \A k \in 0..3 :
                    MapReg(holes, source[i].a + k) = code[i].a + k
    BY DEF RangesStayTogether
  <2>. DEFINE ins == source[i]
  <2>1. /\ ins \in AnyIns /\ ins.a \in Int /\ ins.b \in Int /\ ins.c \in Int
    BY <1>1, RewrittenAt, InstructionType DEF AnyIns
  <2>2. /\ holes \in SUBSET Nat /\ IsFiniteSet(holes)
        /\ code[i].a = MapReg(holes, ins.a)
        /\ ins.op = "CAT" => code[i].b = MapReg(holes, ins.b)
        /\ RangesWhole(holes, ins)
    BY <1>1, RewrittenAt
  <2>3. ASSUME NEW r \in Int PROVE MapReg(holes, r) \in Int
    <3>1. Prefix(holes, r) \in Nat
      BY <2>2, PrefixType
    <3>. QED BY <3>1 DEF MapReg
  <2>4. ASSUME ins.op \in {"CALL", "CALLT"}, NEW k \in 1..(ins.c - 1)
        PROVE  MapReg(holes, ins.a + k) = code[i].a + 1 + k
    <3>1. ins.a \in holes
      BY <1>1, <2>4, RewrittenAt DEF Holes
    <3>2. ~RangeHole(holes, ins.a + 1, ins.a + k)
      BY <2>1, <2>2, <2>4 DEF RangesWhole, RangeHole
    <3>3. ins.a + k \in Int /\ ins.a < ins.a + k
      BY <2>1
    <3>4. MapReg(holes, ins.a + k) = MapReg(holes, ins.a) + ((ins.a + k) - ins.a) + 1
      BY <2>2, <3>1, <3>2, <3>3, HoleMoves
    <3>. QED BY <2>1, <2>2, <2>3, <3>4
  <2>5. ASSUME NEW first \in Int, NEW k \in Nat, ~RangeHole(holes, first, first + k)
        PROVE  MapReg(holes, first + k) = MapReg(holes, first) + k
    <3>1. first + k \in Int /\ first <= first + k
      OBVIOUS
    <3>2. MapReg(holes, first + k) = MapReg(holes, first) + ((first + k) - first)
      BY <2>2, <2>5, <3>1, RangeMoves
    <3>. QED BY <2>3, <3>2
  <2>6. ASSUME ins.op = "RET", NEW k \in 0..(ins.c - 2)
        PROVE  MapReg(holes, ins.a + k) = code[i].a + k
    <3>1. ~RangeHole(holes, ins.a, ins.a + k)
      BY <2>1, <2>2, <2>6 DEF RangesWhole, RangeHole
    <3>. QED BY <2>1, <2>2, <2>5, <3>1
  <2>7. ASSUME ins.op = "CAT", NEW k \in 0..(ins.c - ins.b)
        PROVE  MapReg(holes, ins.b + k) = code[i].b + k
    <3>1. ~RangeHole(holes, ins.b, ins.b + k)
      BY <2>1, <2>2, <2>7 DEF RangesWhole, RangeHole, ClosedRangeHole
    <3>. QED BY <2>1, <2>2, <2>5, <2>7, <3>1
  <2>8. ASSUME ins.op = "FORI", NEW k \in 0..3
        PROVE  MapReg(holes, ins.a + k) = code[i].a + k
    <3>1. ~RangeHole(holes, ins.a, ins.a + k)
      BY <2>1, <2>2, <2>8 DEF RangesWhole, RangeHole, ClosedRangeHole
    <3>. QED BY <2>1, <2>2, <2>5, <3>1
  <2>. QED BY <2>4, <2>6, <2>7, <2>8
<1>. QED BY <1>1, Invariance, PTL

(* The call bases of rewritten code are finitely many registers, too.      *)
LEMMA BasesType ==
    ASSUME IInv, status # "compile"
    PROVE  Holes(code) \in SUBSET Nat /\ IsFiniteSet(Holes(code))
<1>1. /\ code \in Seq(AnyIns) /\ Len(code) = Len(source) /\ Len(code) \in Nat
      /\ source \in Seq(Instructions) /\ DOMAIN code = 1..Len(code)
  BY DEF IInv
<1>2. ASSUME NEW i \in DOMAIN code PROVE code[i].a \in Nat
  <2>1. CASE i \in 1..(pc - 1)
    <3>1. /\ code[i].a = MapReg(holes, source[i].a) /\ source[i].a \in Nat
          /\ holes \in SUBSET Nat /\ IsFiniteSet(holes)
      BY <2>1, RewrittenAt, InstructionType DEF UsedRegs
    <3>2. source[i].a \in Int
      BY <3>1
    <3>3. Prefix(holes, source[i].a) \in Nat
      BY <3>1, <3>2, PrefixType
    <3>. QED BY <3>1, <3>3 DEF MapReg
  <2>2. CASE i \in pc..Len(code)
    <3>1. i \in DOMAIN source
      BY <1>1
    <3>2. source[i] \in Instructions
      BY <1>1, <3>1
    <3>3. code[i] = source[i]
      BY <2>2 DEF IInv
    <3>. QED BY <3>2, <3>3, InstructionType DEF UsedRegs
  <2>3. pc \in Nat
    BY DEF IInv
  <2>. QED BY <1>1, <2>1, <2>2, <2>3
<1>3. IsFiniteSet(Holes(code))
  <2> DEFINE bases == {code[i].a : i \in 1..Len(code)}
  <2>1. IsFiniteSet(1..Len(code))
    BY <1>1, FS_Interval
  <2>2. IsFiniteSet(bases)
    <3> DEFINE f == [i \in 1..Len(code) |-> code[i].a]
    <3>1. f \in Surjection(1..Len(code), bases)
      BY DEF Surjection
    <3>. QED BY <2>1, <3>1, FS_Surjection
  <2>3. Holes(code) \subseteq bases
    BY <1>1 DEF Holes
  <2>. QED BY <2>2, <2>3, FS_Subset
<1>. QED BY <1>2, <1>3 DEF Holes

(* The variables keep their types: in particular the frame size stays      *)
(* within what an instruction can name, or the conversion is refused.      *)
THEOREM TypeCorrect == Spec => []TypeOK
<1> DEFINE Sized == /\ framesize \in 1..MaxA
                    /\ status \in {"compile", "rewrite", "repack", "ok", "layout", "overflow"}
                    /\ status = "compile" => holes = {}
<1>1. Init => Sized
  BY DEF Init
<1>2. ASSUME IInv, Sized, [Next]_vars PROVE Sized'
  <2>1. CASE UNCHANGED vars
    BY <1>2, <2>1 DEF vars
  <2>2. ASSUME NEW ins \in Instructions, Emit(ins) PROVE Sized'
    BY <1>2, <2>2 DEF Emit
  <2>3. CASE Start
    BY <1>2, <2>3 DEF Start
  <2>4. CASE RewriteIns
    BY <1>2, <2>4 DEF RewriteIns
  <2>5. CASE SizeFrame
    <3>1. status = "rewrite" /\ framesize - 1 \in Nat /\ framesize - 1 \in Int
      BY <1>2, <2>5 DEF SizeFrame
    <3>a. Holes(code) \in SUBSET Nat /\ IsFiniteSet(Holes(code))
      BY <1>2, <3>1, BasesType
    <3>2. Prefix(Holes(code), framesize - 1) \in Nat
      BY <3>1, <3>a, PrefixType
    <3>3. MapReg(Holes(code), framesize - 1) \in Nat
      BY <3>1, <3>2 DEF MapReg
    <3>. QED BY <1>2, <2>5, <3>3 DEF SizeFrame
  <2>. QED BY <1>2, <2>1, <2>2, <2>3, <2>4, <2>5 DEF Next
<1>3. IInv /\ Sized => TypeOK
  <2>. SUFFICES ASSUME IInv, Sized PROVE TypeOK
    OBVIOUS
  <2>1. Len(code) \in {0, Len(source)} /\ pc \in 1..(Len(source) + 1)
    <3>1. Len(source) \in Nat /\ pc \in Nat
      BY DEF IInv
    <3>2. CASE status = "compile"
      BY <3>1, <3>2 DEF IInv
    <3>3. CASE status # "compile"
      BY <3>1, <3>3 DEF IInv
    <3>. QED BY <3>2, <3>3
  <2>2. holes \subseteq UsedRegs
    <3>1. ASSUME NEW prog \in Seq(Instructions) PROVE Holes(prog) \subseteq UsedRegs
      <4>1. ASSUME NEW i \in DOMAIN prog PROVE prog[i].a \in UsedRegs
        <5>1. prog[i] \in Instructions
          OBVIOUS
        <5>. QED BY <5>1, InstructionType
      <4>. QED BY <4>1 DEF Holes
    <3>. QED BY <3>1 DEF IInv
  <2>. QED BY <2>1, <2>2 DEF TypeOK, IInv
<1>. QED BY <1>1, <1>2, <1>3, Invariance, PTL DEF Spec

-----------------------------------------------------------------------------
(* The frame.  The frame size is taken with the holes of the rewritten     *)
(* code; no register that a rewritten instruction names lies above the     *)
(* image of one that its source names.                                     *)

\* The registers an instruction names, the ones it implies included.
InFrame(ins) ==
    /\ \A k \in DOMAIN Reads(ins, 0) : Reads(ins, 0)[k] \in UsedRegs
    /\ \A k \in DOMAIN Writes(ins) : Writes(ins)[k] \in UsedRegs

\* What is needed besides IInv.
FrameInv ==
    /\ \A i \in DOMAIN source : InFrame(source[i])
    /\ status \in {"compile", "rewrite"} => framesize = NumRegs
    /\ status = "ok" => /\ pc = Len(code) + 1
                        /\ framesize = MapReg(Holes(code), NumRegs - 1) + 1

(* A sequence of consecutive registers.                                    *)
LEMMA SpanElements ==
    ASSUME NEW first \in Int, NEW n \in Nat
    PROVE  /\ Span(first, n) \in Seq(Int)
           /\ DOMAIN Span(first, n) = 1..n /\ Len(Span(first, n)) = n
           /\ \A k \in 1..n : Span(first, n)[k] = first + k - 1
<1>1. /\ Span(first, n) \in [1..n -> Int]
      /\ \A k \in 1..n : Span(first, n)[k] = first + k - 1
  BY DEF Span
<1>2. Span(first, n) \in Seq(Int)
  BY <1>1
<1>3. DOMAIN Span(first, n) = 1..n
  BY <1>1
<1>. QED BY <1>1, <1>2, <1>3, LenProperties

(* A sequence behind a single element.                                     *)
LEMMA Behind ==
    ASSUME NEW x \in Int, NEW s \in Seq(Int)
    PROVE  /\ DOMAIN (<<x>> \o s) = 1..(Len(s) + 1) /\ (<<x>> \o s)[1] = x
           /\ \A k \in 1..Len(s) : (<<x>> \o s)[k + 1] = s[k]
OBVIOUS

(* A call reads its base and, behind the frame link, its arguments.        *)
LEMMA CallReads ==
    ASSUME NEW ins, ins.op \in {"CALL", "CALLT"}, ins.a \in Int, ins.c \in Nat \ {0},
           NEW gap \in {0, 1}
    PROVE  /\ DOMAIN Reads(ins, gap) = 1..ins.c /\ Reads(ins, gap)[1] = ins.a
           /\ \A k \in 1..(ins.c - 1) : Reads(ins, gap)[k + 1] = ins.a + gap + k
<1> DEFINE s == Span(ins.a + 1 + gap, ins.c - 1)
<1>1. Reads(ins, gap) = <<ins.a>> \o s
  BY DEF Reads
<1>2. /\ s \in Seq(Int) /\ Len(s) = ins.c - 1
      /\ \A k \in 1..(ins.c - 1) : s[k] = ins.a + gap + k
  <2>1. ins.a + 1 + gap \in Int /\ ins.c - 1 \in Nat
    OBVIOUS
  <2>2. /\ s \in Seq(Int) /\ Len(s) = ins.c - 1
        /\ \A k \in 1..(ins.c - 1) : s[k] = ins.a + 1 + gap + k - 1
    BY <2>1, SpanElements
  <2>. QED BY <2>1, <2>2, SMTT(40)
<1> HIDE DEF s
<1>3. /\ DOMAIN (<<ins.a>> \o s) = 1..(Len(s) + 1) /\ (<<ins.a>> \o s)[1] = ins.a
      /\ \A k \in 1..Len(s) : (<<ins.a>> \o s)[k + 1] = s[k]
  BY <1>2, Behind, Zenon
<1>4. /\ DOMAIN Reads(ins, gap) = 1..(Len(s) + 1) /\ Reads(ins, gap)[1] = ins.a
      /\ \A k \in 1..Len(s) : Reads(ins, gap)[k + 1] = s[k]
  BY <1>1, <1>3, Zenon
<1>. QED BY <1>2, <1>4

(* TSETM reads the table and, from its base on, the values to store.       *)
LEMMA StoreReads ==
    ASSUME NEW ins, ins.op = "TSETM", ins.a \in Int, NEW gap \in {0, 1}
    PROVE  /\ DOMAIN Reads(ins, gap) = 1..3 /\ Reads(ins, gap)[1] = ins.a - 1
           /\ Reads(ins, gap)[2] = ins.a /\ Reads(ins, gap)[3] = ins.a + 1
<1> DEFINE s == Span(ins.a, 2)
           x == ins.a - 1
<1>1. Reads(ins, gap) = <<x>> \o s
  BY DEF Reads, OpenCount
<1>2. /\ s \in Seq(Int) /\ Len(s) = 2 /\ s[1] = ins.a /\ s[2] = ins.a + 1
  <2>1. /\ s \in Seq(Int) /\ Len(s) = 2
        /\ \A k \in 1..2 : s[k] = ins.a + k - 1
    BY SpanElements
  <2>. QED BY <2>1
<1>x. x \in Int /\ x = ins.a - 1
  OBVIOUS
<1> HIDE DEF s, x
<1>3. /\ DOMAIN (<<x>> \o s) = 1..(Len(s) + 1) /\ (<<x>> \o s)[1] = x
      /\ \A k \in 1..Len(s) : (<<x>> \o s)[k + 1] = s[k]
  BY <1>x, <1>2, Behind, Zenon
<1>4. /\ DOMAIN Reads(ins, gap) = 1..(Len(s) + 1) /\ Reads(ins, gap)[1] = x
      /\ \A k \in 1..Len(s) : Reads(ins, gap)[k + 1] = s[k]
  BY <1>1, <1>3, Zenon
<1>5. Reads(ins, gap)[1 + 1] = s[1] /\ Reads(ins, gap)[2 + 1] = s[2]
  BY <1>2, <1>4
<1>. QED BY <1>x, <1>2, <1>4, <1>5

(* A hole moves everything above it by one more.                           *)
LEMMA HoleLifts ==
    ASSUME NEW H \in SUBSET Nat, IsFiniteSet(H), NEW a \in H, NEW r \in Int, a < r
    PROVE  MapReg(H, a) + (r - a) + 1 <= MapReg(H, r)
<1>1. a \in Int /\ a + 1 \in Int /\ a < a + 1 /\ a + 1 <= r
  OBVIOUS
<1>2. ~RangeHole(H, a + 1, a + 1)
  BY DEF RangeHole
<1> DEFINE b == a + 1
<1>3. MapReg(H, b) = MapReg(H, a) + (b - a) + 1
  BY <1>1, <1>2, HoleMoves
<1>4. MapReg(H, b) + (r - b) <= MapReg(H, r)
  BY <1>1, MapMonotone
<1>5. ASSUME NEW s \in Int PROVE MapReg(H, s) \in Int
  <2>1. Prefix(H, s) \in Nat
    BY PrefixType
  <2>. QED BY <2>1 DEF MapReg
<1>. QED BY <1>1, <1>3, <1>4, <1>5

(* As long as no hole below n moves up to n, the moved holes below n are   *)
(* as many as the holes were.                                              *)
LEMMA MovedHoles ==
    ASSUME NEW H \in SUBSET Nat, IsFiniteSet(H), NEW n \in Int,
           \A h \in H : h < n => MapReg(H, h) < n
    PROVE  Prefix(H, n) <= Prefix({MapReg(H, h) : h \in H}, n)
<1> DEFINE G == {MapReg(H, h) : h \in H}
           S == {h \in H : h < n}
           T == {g \in G : g < n}
           f == [h \in S |-> MapReg(H, h)]
<1>1. ASSUME NEW h \in H PROVE MapReg(H, h) \in Int
  <2>1. h \in Int
    OBVIOUS
  <2>2. Prefix(H, h) \in Nat
    BY <2>1, PrefixType
  <2>. QED BY <2>1, <2>2 DEF MapReg
<1>2. f \in Injection(S, T)
  <2>1. f \in [S -> T]
    OBVIOUS
  <2>2. ASSUME NEW h \in S, NEW g \in S, f[h] = f[g] PROVE h = g
    <3>1. h \in Int /\ g \in Int /\ h \in H /\ g \in H
      OBVIOUS
    <3>2. MapReg(H, h) = MapReg(H, g)
      BY <2>2
    <3>3. MapReg(H, h) \in Int
      BY <1>1, <3>1
    <3>4. h <= g => MapReg(H, h) + (g - h) <= MapReg(H, g)
      BY <3>1, MapMonotone
    <3>5. g <= h => MapReg(H, g) + (h - g) <= MapReg(H, h)
      BY <3>1, MapMonotone
    <3>. QED BY <3>1, <3>2, <3>3, <3>4, <3>5
  <2>. QED BY <2>1, <2>2 DEF Injection, IsInjective
<1>3. IsFiniteSet(T)
  <2> DEFINE e == [h \in H |-> MapReg(H, h)]
  <2>1. e \in Surjection(H, G)
    BY DEF Surjection
  <2>2. IsFiniteSet(G)
    BY <2>1, FS_Surjection
  <2>3. T \subseteq G
    OBVIOUS
  <2>. QED BY <2>2, <2>3, FS_Subset
<1>4. IsFiniteSet(S)
  BY PrefixType
<1>5. Cardinality(S) <= Cardinality(T)
  BY <1>2, <1>3, <1>4, FS_Injection
<1>. QED BY <1>5 DEF Prefix

(* Of a rewritten instruction: what lies above the images of all registers *)
(* lies above every register that it reads or writes, if the map is the    *)
(* one the holes of the program give.                                      *)
LEMMA RewrittenInFrame ==
    ASSUME NEW H \in SUBSET Nat, IsFiniteSet(H), NEW ins \in Instructions,
           ins.op \in {"CALL", "CALLT"} => ins.a \in H,
           InFrame(ins), NEW limit \in Int,
           \A r \in UsedRegs : MapReg(H, r) < limit
    PROVE  /\ \A k \in DOMAIN Reads(Rewritten(H, ins), 1) : Reads(Rewritten(H, ins), 1)[k] < limit
           /\ \A k \in DOMAIN Writes(Rewritten(H, ins)) : Writes(Rewritten(H, ins))[k] < limit
<1> DEFINE out == Rewritten(H, ins)
<1>1. /\ ins \in AnyIns /\ ins.a \in UsedRegs /\ ins.a \in Int
      /\ ins.b \in Nat /\ ins.c \in Nat
  BY InstructionType DEF Instructions, UsedRegs
<1>2. ASSUME NEW r \in Int PROVE MapReg(H, r) \in Int
  <2>1. Prefix(H, r) \in Nat
    BY PrefixType
  <2>. QED BY <2>1 DEF MapReg
<1>3. /\ out.op = ins.op /\ out.a = MapReg(H, ins.a)
      /\ ins.op = "CAT" => out.b = MapReg(H, ins.b) /\ out.c = MapReg(H, ins.c)
      /\ ins.op = "MOV" => out.c = MapReg(H, ins.c)
      /\ ins.op \notin {"CAT"} => out.b = ins.b
      /\ ins.op \notin {"CAT", "MOV"} => out.c = ins.c
  BY <1>1 DEF Rewritten, Operands, AnyIns
<1>4. out.a \in Int /\ out.a < limit
  BY <1>1, <1>2, <1>3
<1> HIDE DEF out
<1>5. ASSUME NEW k \in Nat, ins.a + k \in UsedRegs PROVE out.a + k < limit
  <2>1. ins.a + k \in Int /\ ins.a <= ins.a + k
    BY <1>1
  <2>2. MapReg(H, ins.a) + ((ins.a + k) - ins.a) <= MapReg(H, ins.a + k)
    BY <1>1, <2>1, MapMonotone
  <2>. QED BY <1>1, <1>2, <1>3, <1>5, <2>1, <2>2
<1>6. CASE ins.op = "MOV"
  <2>1. Reads(ins, 0) = <<ins.c>> /\ Reads(out, 1) = <<out.c>> /\ Writes(out) = <<out.a>>
    BY <1>3, <1>6 DEF Reads, Writes
  <2>2. ins.c \in UsedRegs
    BY <1>6, InstructionType
  <2>. QED BY <1>3, <1>4, <1>6, <2>1, <2>2 DEF out
<1>7. CASE ins.op \in {"CALL", "CALLT"}
  <2>1. ins.c \in Nat \ {0}
    BY <1>1, <1>7 DEF Instructions
  <2> DEFINE n == ins.c - 1
  <2>2. n \in Nat /\ n = ins.c - 1
    BY <2>1
  <2>3. /\ DOMAIN Reads(ins, 0) = 1..ins.c
        /\ \A k \in 1..n : Reads(ins, 0)[k + 1] = ins.a + 0 + k
    BY <1>1, <1>7, <2>1, CallReads
  <2>b. out.op \in {"CALL", "CALLT"} /\ out.c = ins.c
    BY <1>3, <1>7
  <2>c. /\ DOMAIN Reads(out, 1) = 1..out.c /\ Reads(out, 1)[1] = out.a
        /\ \A k \in 1..(out.c - 1) : Reads(out, 1)[k + 1] = out.a + 1 + k
    BY <1>4, <2>1, <2>b, CallReads
  <2> HIDE DEF n
  <2>4. ASSUME NEW k \in 1..n PROVE out.a + 1 + k < limit
    <3>1. k + 1 \in DOMAIN Reads(ins, 0) /\ Reads(ins, 0)[k + 1] = ins.a + k
      BY <1>1, <2>1, <2>2, <2>3
    <3>2. ins.a + k \in UsedRegs
      BY <3>1 DEF InFrame
    <3>3. ins.a + k \in Int /\ ins.a < ins.a + k
      BY <1>1, <2>2
    <3>4. MapReg(H, ins.a) + ((ins.a + k) - ins.a) + 1 <= MapReg(H, ins.a + k)
      BY <1>7, <3>3, HoleLifts
    <3>. QED BY <1>1, <1>2, <1>3, <2>2, <3>2, <3>3, <3>4
  <2>5. ASSUME NEW k \in DOMAIN Reads(out, 1) PROVE Reads(out, 1)[k] < limit
    <3>1. CASE k = 1
      BY <1>4, <2>c, <3>1
    <3>2. CASE k # 1
      <4>1. k \in 1..out.c
        BY <2>c
      <4>2. k - 1 \in 1..n /\ k - 1 \in 1..(out.c - 1) /\ (k - 1) + 1 = k
        BY <2>1, <2>2, <2>b, <3>2, <4>1
      <4>3. Reads(out, 1)[(k - 1) + 1] = out.a + 1 + (k - 1)
        BY <2>c, <4>2
      <4>4. Reads(out, 1)[k] = out.a + 1 + (k - 1)
        BY <4>2, <4>3
      <4>5. out.a + 1 + (k - 1) < limit
        BY <2>4, <4>2
      <4>. QED BY <4>4, <4>5
    <3>. QED BY <3>1, <3>2
  <2>6. ASSUME NEW k \in DOMAIN Writes(out) PROVE Writes(out)[k] < limit
    <3>1. CASE ins.op = "CALLT"
      BY <1>3, <2>6, <3>1 DEF Writes
    <3>2. CASE ins.op = "CALL"
      <4> DEFINE m == IF ins.b = 0 THEN OpenCount ELSE ins.b - 1
      <4>1. m \in Nat
        BY <1>1 DEF OpenCount
      <4>2. Writes(ins) = Span(ins.a, m) /\ Writes(out) = Span(out.a, m)
        BY <1>3, <3>2 DEF Writes
      <4> HIDE DEF m
      <4>3. k \in 1..m /\ Writes(out)[k] = out.a + k - 1
        BY <2>6, <4>2 DEF Span
      <4>4. k \in DOMAIN Writes(ins) /\ Writes(ins)[k] = ins.a + k - 1
        BY <4>2, <4>3 DEF Span
      <4>5. k - 1 \in Nat /\ ins.a + (k - 1) \in UsedRegs
        BY <1>1, <4>1, <4>3, <4>4 DEF InFrame
      <4>6. out.a + (k - 1) < limit
        BY <1>5, <4>5
      <4>. QED BY <1>4, <4>1, <4>3, <4>6
    <3>. QED BY <1>7, <3>1, <3>2
  <2>. QED BY <2>5, <2>6 DEF out
<1>8. ASSUME NEW k \in Nat, NEW n \in Nat, k \in 1..n,
             \A j \in 1..n : ins.a + (j - 1) \in UsedRegs
      PROVE  Span(out.a, n)[k] < limit
  <2>1. k - 1 \in Nat /\ Span(out.a, n)[k] = out.a + k - 1
    BY <1>8 DEF Span
  <2>2. out.a + (k - 1) < limit
    BY <1>5, <1>8, <2>1
  <2>. QED BY <1>4, <1>8, <2>1, <2>2
<1>9. CASE ins.op = "RET"
  <2>1. ins.c >= 1
    BY <1>9 DEF Instructions
  <2> DEFINE n == ins.c - 1
  <2>2. n \in Nat
    BY <1>1, <2>1
  <2>3. Reads(ins, 0) = Span(ins.a, n) /\ Reads(out, 1) = Span(out.a, n) /\ Writes(out) = <<>>
    BY <1>3, <1>9 DEF Reads, Writes
  <2> HIDE DEF n
  <2>4. \A j \in 1..n : ins.a + (j - 1) \in UsedRegs
    <3>1. DOMAIN Reads(ins, 0) = 1..n /\ \A j \in 1..n : Reads(ins, 0)[j] = ins.a + j - 1
      BY <2>3 DEF Span
    <3>2. \A j \in 1..n : ins.a + j - 1 = ins.a + (j - 1)
      BY <1>1, <2>2
    <3>. QED BY <3>1, <3>2 DEF InFrame
  <2>5. DOMAIN Reads(out, 1) = 1..n
    BY <2>3 DEF Span
  <2>6. ASSUME NEW k \in 1..n PROVE Span(out.a, n)[k] < limit
    BY <1>8, <2>2, <2>4
  <2>7. \A k \in DOMAIN Reads(out, 1) : Reads(out, 1)[k] < limit
    BY <2>3, <2>5, <2>6
  <2>8. \A k \in DOMAIN Writes(out) : Writes(out)[k] < limit
    BY <2>3
  <2>. QED BY <2>7, <2>8 DEF out
<1>10. CASE ins.op = "CAT"
  <2>1. ins.b \in UsedRegs /\ ins.c \in UsedRegs /\ ins.b \in Int /\ ins.c \in Int
    BY <1>10, InstructionType DEF UsedRegs
  <2>2. out.b \in Int /\ out.c \in Int /\ out.c < limit
    <3>1. out.b = MapReg(H, ins.b) /\ out.c = MapReg(H, ins.c)
      BY <1>3, <1>10
    <3>. QED BY <1>2, <2>1, <3>1
  <2>3. Reads(out, 1) = Span(out.b, out.c - out.b + 1) /\ Writes(out) = <<out.a>>
    BY <1>3, <1>10 DEF Reads, Writes
  <2>4. ASSUME NEW k \in DOMAIN Reads(out, 1) PROVE Reads(out, 1)[k] < limit
    BY <2>2, <2>3 DEF Span
  <2>. QED BY <1>4, <2>3, <2>4 DEF out
<1>11. CASE ins.op = "FORI"
  <2>1. Writes(ins) = <<ins.a + 3>> /\ Reads(out, 1) = Span(out.a, 3) /\ Writes(out) = <<out.a + 3>>
    BY <1>3, <1>11 DEF Reads, Writes
  <2>2. ins.a + 3 \in UsedRegs
    BY <2>1 DEF InFrame
  <2>3. \A j \in 0..3 : ins.a + j \in UsedRegs
    BY <1>1, <2>2 DEF UsedRegs
  <2>4. \A j \in 0..3 : out.a + j < limit
    BY <1>5, <2>3
  <2>5. ASSUME NEW k \in DOMAIN Reads(out, 1) PROVE Reads(out, 1)[k] < limit
    BY <1>4, <2>1, <2>4 DEF Span
  <2>. QED BY <2>1, <2>4, <2>5 DEF out
<1>12. CASE ins.op = "TSETM"
  <2>1. out.op = "TSETM" /\ Writes(out) = <<>>
    BY <1>3, <1>12 DEF Writes
  <2>2. DOMAIN Reads(ins, 0) = 1..3 /\ Reads(ins, 0)[3] = ins.a + 1
    BY <1>1, <1>12, StoreReads
  <2>3. ins.a + 1 \in UsedRegs
    <3>1. 3 \in DOMAIN Reads(ins, 0)
      BY <2>2
    <3>. QED BY <2>2, <3>1 DEF InFrame
  <2>4. out.a + 1 < limit
    BY <1>5, <2>3
  <2>5. /\ DOMAIN Reads(out, 1) = 1..3 /\ Reads(out, 1)[1] = out.a - 1
        /\ Reads(out, 1)[2] = out.a /\ Reads(out, 1)[3] = out.a + 1
    BY <1>4, <2>1, StoreReads
  <2>6. ASSUME NEW k \in 1..3 PROVE Reads(out, 1)[k] < limit
    <3>1. k = 1 \/ k = 2 \/ k = 3
      OBVIOUS
    <3>. QED BY <1>4, <2>4, <2>5, <3>1
  <2>7. \A k \in DOMAIN Reads(out, 1) : Reads(out, 1)[k] < limit
    BY <2>5, <2>6
  <2>8. \A k \in DOMAIN Writes(out) : Writes(out)[k] < limit
    BY <2>1
  <2>. QED BY <2>7, <2>8 DEF out
<1>. QED BY <1>1, <1>6, <1>7, <1>9, <1>10, <1>11, <1>12 DEF AnyIns, Ops

(* The compiler names only registers of the frame, and the frame size is   *)
(* left alone until the rewriting is done.                                 *)
LEMMA FrameInitInv == Init => FrameInv
<1>. SUFFICES ASSUME Init PROVE FrameInv
  OBVIOUS
<1>. QED BY DEF Init, FrameInv

LEMMA FrameNextInv ==
    ASSUME IInv, FrameInv, [Next]_vars
    PROVE  FrameInv'
<1>1. ASSUME NEW ins \in Instructions, Emit(ins) PROVE FrameInv'
  <2>1. /\ source' = Append(source, ins) /\ source \in Seq(Instructions)
        /\ status = "compile" /\ UNCHANGED <<code, framesize, status>>
    BY <1>1 DEF Emit, IInv
  <2>2. InFrame(ins)
    BY <1>1 DEF Emit, InFrame
  <2>3. ASSUME NEW i \in DOMAIN source' PROVE InFrame(source'[i])
    <3>1. CASE i \in DOMAIN source
      <4>1. source'[i] = source[i]
        BY <2>1, <3>1
      <4>. QED BY <3>1, <4>1 DEF FrameInv
    <3>2. CASE i \notin DOMAIN source
      <4>1. source'[i] = ins
        BY <2>1, <3>2
      <4>. QED BY <2>2, <4>1
    <3>. QED BY <3>1, <3>2
  <2>4. ASSUME NEW i \in DOMAIN source' PROVE InFrame(source[i])'
    BY <2>3 DEF InFrame
  <2>5. /\ status' \in {"compile", "rewrite"} => framesize' = NumRegs
        /\ status' # "ok"
    BY <2>1 DEF FrameInv
  <2>. QED BY <2>4, <2>5 DEF FrameInv
<1>2. ASSUME UNCHANGED source, /\ (status \in {"compile", "rewrite"} => framesize = NumRegs)'
                               /\ (status = "ok" => /\ pc = Len(code) + 1
                                                    /\ framesize = MapReg(Holes(code), NumRegs - 1) + 1)'
      PROVE FrameInv'
  <2>1. ASSUME NEW i \in DOMAIN source' PROVE InFrame(source[i])'
    <3>1. InFrame(source[i])
      BY <1>2 DEF FrameInv
    <3>2. source'[i] = source[i]
      BY <1>2
    <3>. QED BY <3>1, <3>2 DEF InFrame
  <2>. QED BY <1>2, <2>1 DEF FrameInv
<1>3. CASE Start
  BY <1>2, <1>3 DEF Start, FrameInv
<1>4. CASE RewriteIns
  <2>1. UNCHANGED <<source, framesize>> /\ status = "rewrite" /\ status' # "ok"
    BY <1>4 DEF RewriteIns
  <2>. QED BY <1>2, <2>1 DEF FrameInv
<1>5. CASE SizeFrame
  <2>1. /\ UNCHANGED <<source, code, pc, holes>> /\ status = "rewrite"
        /\ pc = Len(code) + 1 /\ status' \in {"ok", "overflow"}
        /\ status' = "ok" => framesize' = MapReg(Holes(code), framesize - 1) + 1
    BY <1>5 DEF SizeFrame
  <2>2. framesize = NumRegs
    BY <2>1 DEF FrameInv
  <2>3. Holes(code') = Holes(code)
    BY <2>1
  <2>4. (status = "ok" => /\ pc = Len(code) + 1
                          /\ framesize = MapReg(Holes(code), NumRegs - 1) + 1)'
    BY <2>1, <2>2, <2>3
  <2>. QED BY <1>2, <2>1, <2>4
<1>6. CASE UNCHANGED vars
  BY <1>2, <1>6 DEF vars, FrameInv
<1>. QED BY <1>1, <1>3, <1>4, <1>5, <1>6 DEF Next

(* The holes of the rewritten code are the images of the program's.        *)
LEMMA HolesMove ==
    ASSUME IInv, status = "ok", pc = Len(code) + 1
    PROVE  Holes(code) = {MapReg(holes, h) : h \in holes}
<1>1. /\ source \in Seq(Instructions) /\ code \in Seq(AnyIns)
      /\ Len(code) = Len(source) /\ holes = Holes(source)
      /\ holes \in SUBSET Nat /\ IsFiniteSet(holes)
  BY HolesType DEF IInv
<1>2. ASSUME NEW i \in DOMAIN code
      PROVE  /\ i \in DOMAIN source
             /\ code[i].op = source[i].op /\ code[i].a = MapReg(holes, source[i].a)
  <2>1. i \in 1..(pc - 1) /\ i \in DOMAIN source
    BY <1>1
  <2>2. source[i] \in AnyIns /\ code[i] = Rewritten(holes, source[i])
    <3>1. source[i] \in Instructions
      BY <1>1, <2>1
    <3>. QED BY <2>1, <3>1, InstructionType DEF IInv
  <2>. QED BY <2>1, <2>2 DEF Rewritten, AnyIns
<1>3. DOMAIN code = DOMAIN source
  BY <1>1
<1>. QED BY <1>1, <1>2, <1>3, ZenonT(60) DEF Holes

(* Every register that the rewritten program reads or writes lies in the   *)
(* frame, unless a call base moved up to the top register or past it.      *)
THEOREM FrameSafe == Spec => []FrameCovers
<1>1. ASSUME IInv, FrameInv PROVE FrameCovers
  <2>. SUFFICES ASSUME status = "ok",
                       \A h \in holes : h < NumRegs - 1 => MapReg(holes, h) < NumRegs - 1,
                       NEW i \in DOMAIN code
                PROVE  /\ \A k \in DOMAIN Reads(code[i], 1) : Reads(code[i], 1)[k] < framesize
                       /\ \A k \in DOMAIN Writes(code[i]) : Writes(code[i])[k] < framesize
    BY DEF FrameCovers
  <2> DEFINE top == NumRegs - 1
  <2>1. /\ source \in Seq(Instructions) /\ holes = Holes(source)
        /\ holes \in SUBSET Nat /\ IsFiniteSet(holes)
        /\ Len(code) = Len(source) /\ pc = Len(code) + 1
        /\ code \in Seq(AnyIns)
    BY <1>1, HolesType DEF IInv, FrameInv
  <2>2. i \in 1..(pc - 1) /\ i \in DOMAIN source /\ source[i] \in Instructions
    BY <2>1
  <2>3. top \in Int /\ \A r \in UsedRegs : r \in Int /\ r <= top
    BY DEF UsedRegs
  <2>4. framesize = MapReg(Holes(code), top) + 1 /\ InFrame(source[i])
    BY <1>1, <2>2 DEF FrameInv
  <2>5. Holes(code) \in SUBSET Nat /\ IsFiniteSet(Holes(code))
    BY <1>1, BasesType
  <2>6. \A h \in holes : h < top => MapReg(holes, h) < top
    OBVIOUS
  <2> HIDE DEF top
  <2>7. Prefix(holes, top) <= Prefix(Holes(code), top)
    BY <1>1, <2>1, <2>3, <2>6, HolesMove, MovedHoles
  <2>8. Prefix(holes, top) \in Nat /\ Prefix(Holes(code), top) \in Nat
    BY <2>1, <2>3, <2>5, PrefixType
  <2>9. framesize \in Int /\ MapReg(holes, top) < framesize /\ MapReg(holes, top) \in Int
    BY <2>3, <2>4, <2>7, <2>8 DEF MapReg
  <2>11. ASSUME NEW r \in UsedRegs PROVE MapReg(holes, r) < framesize
    <3>1. MapReg(holes, r) + (top - r) <= MapReg(holes, top)
      BY <2>1, <2>3, MapMonotone
    <3>2. MapReg(holes, r) \in Int
      <4>1. Prefix(holes, r) \in Nat
        BY <2>1, <2>3, PrefixType
      <4>. QED BY <2>3, <4>1 DEF MapReg
    <3>. QED BY <2>3, <2>9, <3>1, <3>2
  <2>12. source[i].op \in {"CALL", "CALLT"} => source[i].a \in holes
    BY <2>1, <2>2 DEF Holes
  <2>13. code[i] = Rewritten(holes, source[i])
    BY <1>1, <2>2 DEF IInv
  <2>. QED BY <2>1, <2>2, <2>4, <2>9, <2>11, <2>12, <2>13, RewrittenInFrame
<1>2. Init => IInv /\ FrameInv
  BY InitInv, FrameInitInv
<1>3. IInv /\ FrameInv /\ [Next]_vars => (IInv /\ FrameInv)'
  BY NextInv, FrameNextInv
<1>. QED BY <1>1, <1>2, <1>3, PTL DEF Spec

-----------------------------------------------------------------------------
(* The values.  What EnvAt computes is the last of a sequence of register  *)
(* files, one before each instruction; that sequence exists and is         *)
(* determined by the instructions it has passed.                           *)

(* A non-empty set of natural numbers has a least element.                 *)
LEMMA LeastOf ==
    ASSUME NEW S \in SUBSET Nat, S # {}
    PROVE  \E x \in S : \A y \in S : x <= y
<1> DEFINE R == OpToRel(<, Nat)
<1>1. IsWellFoundedOn(R, Nat)
  BY NatLessThanWellFounded
<1>2. \A x, y \in Nat : x < y => <<x, y>> \in R
  BY DEF OpToRel
<1> HIDE DEF R
<1>3. PICK x \in S : \A y \in S : ~(<<y, x>> \in R)
  BY <1>1, WFMin
<1>4. \A y \in S : ~(y < x)
  BY <1>2, <1>3, Zenon
<1>. QED BY <1>4

\* f holds the registers before each of the first n instructions of prog.
IsRun(f, prog, env0, n) ==
    f = [i \in 1..n |-> IF i = 1 THEN env0 ELSE Step(f[i - 1], prog[i - 1], i - 1)]

(* A run, instruction by instruction.                                      *)
LEMMA RunSteps ==
    ASSUME NEW f, NEW prog, NEW env0, NEW n \in Nat, IsRun(f, prog, env0, n)
    PROVE  /\ DOMAIN f = 1..n
           /\ 1 \in 1..n => f[1] = env0
           /\ \A i \in 1..n : i # 1 => /\ i - 1 \in 1..n
                                       /\ f[i] = Step(f[i - 1], prog[i - 1], i - 1)
<1> DEFINE G == [i \in 1..n |-> IF i = 1 THEN env0 ELSE Step(f[i - 1], prog[i - 1], i - 1)]
<1>1. f = G
  BY DEF IsRun
<1>2. DOMAIN G = 1..n
  OBVIOUS
<1>3. ASSUME NEW i \in 1..n
      PROVE  G[i] = IF i = 1 THEN env0 ELSE Step(f[i - 1], prog[i - 1], i - 1)
  OBVIOUS
<1> HIDE DEF G
<1>4. DOMAIN f = 1..n
  BY <1>1, <1>2
<1>5. ASSUME NEW i \in 1..n PROVE f[i] = G[i]
  BY <1>1
<1>6. \A i \in 1..n : i # 1 => i - 1 \in 1..n
  OBVIOUS
<1>. QED BY <1>3, <1>4, <1>5, <1>6

(* Programs that agree on what has been passed have the same runs.         *)
LEMMA RunsAgree ==
    ASSUME NEW f, NEW g, NEW p, NEW q, NEW env0, NEW n \in Nat, NEW m \in Nat,
           IsRun(f, p, env0, n), IsRun(g, q, env0, m),
           \A i \in Nat : i < n /\ i < m /\ 1 <= i => p[i] = q[i]
    PROVE  \A i \in Nat : 1 <= i /\ i <= n /\ i <= m => f[i] = g[i]
<1> DEFINE S == {i \in Nat : 1 <= i /\ i <= n /\ i <= m /\ f[i] # g[i]}
<1>1. ASSUME S # {} PROVE FALSE
  <2>1. PICK x \in S : \A y \in S : x <= y
    <3>1. S \in SUBSET Nat
      OBVIOUS
    <3> HIDE DEF S
    <3>. QED BY <1>1, <3>1, LeastOf
  <2>2. x \in Nat /\ x \in 1..n /\ x \in 1..m /\ f[x] # g[x]
    BY <2>1
  <2>3. CASE x = 1
    BY <2>2, <2>3, RunSteps
  <2>4. CASE x # 1
    <3>1. /\ f[x] = Step(f[x - 1], p[x - 1], x - 1)
          /\ g[x] = Step(g[x - 1], q[x - 1], x - 1)
      BY <2>2, <2>4, RunSteps
    <3>2. x - 1 \in Nat /\ 1 <= x - 1 /\ x - 1 < n /\ x - 1 < m /\ ~(x <= x - 1)
      BY <2>2, <2>4
    <3>3. f[x - 1] = g[x - 1]
      BY <2>1, <3>2
    <3>4. p[x - 1] = q[x - 1]
      BY <3>2
    <3>. QED BY <2>2, <3>1, <3>3, <3>4
  <2>. QED BY <2>3, <2>4
<1>. QED BY <1>1

(* There is a run of every length.                                         *)
LEMMA RunExists ==
    ASSUME NEW prog, NEW env0, NEW n \in Nat
    PROVE  \E f : IsRun(f, prog, env0, n)
<1> DEFINE S == {i \in Nat : ~ \E f : IsRun(f, prog, env0, i)}
<1>1. ASSUME S # {} PROVE FALSE
  <2>1. PICK x \in S : \A y \in S : x <= y
    <3>1. S \in SUBSET Nat
      OBVIOUS
    <3> HIDE DEF S
    <3>. QED BY <1>1, <3>1, LeastOf
  <2>2. x \in Nat /\ ~ \E f : IsRun(f, prog, env0, x)
    BY <2>1
  <2>3. CASE x = 0
    <3> DEFINE f == [i \in 1..0 |-> env0]
    <3>1. f = [i \in 1..0 |-> IF i = 1 THEN env0 ELSE Step(f[i - 1], prog[i - 1], i - 1)]
      <4>1. 1..0 = {}
        OBVIOUS
      <4>. QED BY <4>1
    <3>2. IsRun(f, prog, env0, x)
      BY <2>3, <3>1 DEF IsRun
    <3>. QED BY <2>2, <3>2
  <2>4. CASE x # 0
    <3>1. x - 1 \in Nat /\ ~(x <= x - 1) /\ (x - 1) + 1 = x
      BY <2>2, <2>4
    <3>2. PICK g : IsRun(g, prog, env0, x - 1)
      BY <2>1, <3>1
    <3> DEFINE last == IF x = 1 THEN env0 ELSE Step(g[x - 1], prog[x - 1], x - 1)
               f == [i \in 1..x |-> IF i = x THEN last ELSE g[i]]
    <3>3. ASSUME NEW i \in 1..x
          PROVE  f[i] = IF i = 1 THEN env0 ELSE Step(f[i - 1], prog[i - 1], i - 1)
      <4>1. CASE i = 1
        <5>1. CASE x = 1
          BY <4>1, <5>1
        <5>2. CASE x # 1
          <6>1. 1 \in 1..(x - 1) /\ 1 \in 1..x
            BY <2>2, <2>4, <5>2
          <6>2. g[1] = env0
            BY <3>1, <3>2, <6>1, RunSteps
          <6>. QED BY <4>1, <5>2, <6>1, <6>2
        <5>. QED BY <5>1, <5>2
      <4>2. CASE i # 1
        <5>1. i - 1 \in 1..x /\ i - 1 # x /\ x # 1
          BY <2>2, <4>2
        <5>2. f[i - 1] = g[i - 1]
          BY <5>1
        <5>3. CASE i = x
          BY <4>2, <5>1, <5>2, <5>3
        <5>4. CASE i # x
          <6>1. i \in 1..(x - 1)
            BY <2>2, <5>4
          <6>2. g[i] = Step(g[i - 1], prog[i - 1], i - 1)
            BY <3>1, <3>2, <4>2, <6>1, RunSteps
          <6>3. f[i] = g[i]
            BY <5>4
          <6>. QED BY <4>2, <5>2, <6>2, <6>3
        <5>. QED BY <5>3, <5>4
      <4>. QED BY <4>1, <4>2
    <3>4. f = [i \in 1..x |-> f[i]]
      OBVIOUS
    <3>x. DOMAIN f = 1..x
      OBVIOUS
    <3> HIDE DEF f
    <3>5. f = [i \in 1..x |-> IF i = 1 THEN env0 ELSE Step(f[i - 1], prog[i - 1], i - 1)]
      BY <3>3, <3>4, Zenon
    <3>6. IsRun(f, prog, env0, x)
      BY <3>5 DEF IsRun
    <3>. QED BY <2>2, <3>6
  <2>. QED BY <2>3, <2>4
<1>. QED BY <1>1

(* EnvAt is the last of a run.                                             *)
LEMMA EnvAtRun ==
    ASSUME NEW f, NEW prog, NEW env0, NEW n \in Nat, NEW i \in 1..n,
           IsRun(f, prog, env0, n)
    PROVE  EnvAt(prog, env0, i) = f[i]
<1>1. PICK g : IsRun(g, prog, env0, i)
  BY RunExists
<1> DEFINE env == CHOOSE e : e = [j \in 1..i |-> IF j = 1 THEN env0
                                                 ELSE Step(e[j - 1], prog[j - 1], j - 1)]
<1>2. IsRun(env, prog, env0, i)
  BY <1>1, Zenon DEF IsRun
<1>3. EnvAt(prog, env0, i) = env[i]
  BY Zenon DEF EnvAt
<1> HIDE DEF env
<1>4. env[i] = f[i]
  <2>1. /\ i \in Nat /\ 1 <= i /\ i <= i /\ i <= n
    OBVIOUS
  <2>. QED BY <1>2, <2>1, RunsAgree
<1>. QED BY <1>3, <1>4

-----------------------------------------------------------------------------
\* An instruction of a program whose calls have one result at most.
OneResult(ins) ==
    /\ ins.op = "CALL" => ins.b \in {1, 2}
    /\ ins.op # "TSETM"
    /\ ins.op = "CAT" => ins.b < ins.c /\ ins.a <= ins.b

(* A rewritten instruction reads, one after the other, the images of the   *)
(* registers that its source reads.                                        *)
LEMMA ReadsMove ==
    ASSUME NEW H \in SUBSET Nat, IsFiniteSet(H), NEW ins \in Instructions,
           ins.op \in {"CALL", "CALLT"} => ins.a \in H,
           RangesWhole(H, ins), OneResult(ins)
    PROVE  /\ DOMAIN Reads(Rewritten(H, ins), 1) = DOMAIN Reads(ins, 0)
           /\ \A k \in DOMAIN Reads(ins, 0) :
                Reads(Rewritten(H, ins), 1)[k] = MapReg(H, Reads(ins, 0)[k])
<1> DEFINE out == Rewritten(H, ins)
<1>1. /\ ins \in AnyIns /\ ins.a \in UsedRegs /\ ins.a \in Int
      /\ ins.b \in Nat /\ ins.c \in Nat
  BY InstructionType DEF Instructions, UsedRegs
<1>2. ASSUME NEW r \in Int PROVE MapReg(H, r) \in Int
  <2>1. Prefix(H, r) \in Nat
    BY PrefixType
  <2>. QED BY <2>1 DEF MapReg
<1>3. /\ out.op = ins.op /\ out.a = MapReg(H, ins.a)
      /\ ins.op = "CAT" => out.b = MapReg(H, ins.b) /\ out.c = MapReg(H, ins.c)
      /\ ins.op = "MOV" => out.c = MapReg(H, ins.c)
      /\ ins.op \notin {"CAT", "MOV"} => out.c = ins.c
  BY <1>1 DEF Rewritten, Operands, AnyIns
<1>4. out.a \in Int
  BY <1>1, <1>2, <1>3
<1>5. SUFFICES /\ DOMAIN Reads(out, 1) = DOMAIN Reads(ins, 0)
               /\ \A k \in DOMAIN Reads(ins, 0) : Reads(out, 1)[k] = MapReg(H, Reads(ins, 0)[k])
  OBVIOUS
<1> HIDE DEF out
<1>6. ASSUME NEW first \in Int, NEW k \in Nat, ~RangeHole(H, first, first + k)
      PROVE  MapReg(H, first + k) = MapReg(H, first) + k
  <2>1. first + k \in Int /\ first <= first + k
    OBVIOUS
  <2>2. MapReg(H, first + k) = MapReg(H, first) + ((first + k) - first)
    BY <1>6, <2>1, RangeMoves
  <2>. QED BY <1>2, <2>2
<1>7. CASE ins.op = "MOV"
  <2>1. Reads(ins, 0) = <<ins.c>> /\ Reads(out, 1) = <<out.c>>
    BY <1>3, <1>7 DEF Reads
  <2>. QED BY <1>3, <1>7, <2>1
<1>8. CASE ins.op \in {"CALL", "CALLT"}
  <2>1. ins.c \in Nat \ {0} /\ out.c = ins.c /\ out.op \in {"CALL", "CALLT"}
    BY <1>1, <1>3, <1>8 DEF Instructions
  <2>2. /\ DOMAIN Reads(ins, 0) = 1..ins.c /\ Reads(ins, 0)[1] = ins.a
        /\ \A k \in 1..(ins.c - 1) : Reads(ins, 0)[k + 1] = ins.a + 0 + k
    BY <1>1, <1>8, <2>1, CallReads
  <2>3. /\ DOMAIN Reads(out, 1) = 1..out.c /\ Reads(out, 1)[1] = out.a
        /\ \A k \in 1..(out.c - 1) : Reads(out, 1)[k + 1] = out.a + 1 + k
    BY <1>4, <2>1, CallReads
  <2>4. ASSUME NEW k \in 1..(ins.c - 1)
        PROVE  MapReg(H, ins.a + k) = MapReg(H, ins.a) + k + 1
    <3>1. ~RangeHole(H, ins.a + 1, ins.a + k)
      BY <1>1, <1>8, <2>1 DEF RangesWhole, RangeHole
    <3>2. ins.a + k \in Int /\ ins.a < ins.a + k
      BY <1>1, <2>1
    <3>3. MapReg(H, ins.a + k) = MapReg(H, ins.a) + ((ins.a + k) - ins.a) + 1
      BY <1>8, <3>1, <3>2, HoleMoves
    <3>. QED BY <1>1, <1>2, <2>1, <3>3
  <2>5. ASSUME NEW k \in 1..ins.c PROVE Reads(out, 1)[k] = MapReg(H, Reads(ins, 0)[k])
    <3>1. CASE k = 1
      BY <1>3, <2>2, <2>3, <3>1
    <3>2. CASE k # 1
      <4> DEFINE j == k - 1
      <4>1. j \in 1..(ins.c - 1) /\ j \in Int /\ k = j + 1
        BY <2>1, <3>2
      <4> HIDE DEF j
      <4>2. Reads(out, 1)[j + 1] = out.a + 1 + j /\ Reads(ins, 0)[j + 1] = ins.a + 0 + j
        BY <2>1, <2>2, <2>3, <4>1
      <4>3. MapReg(H, ins.a + j) = MapReg(H, ins.a) + j + 1
        BY <2>4, <4>1
      <4>4. ins.a + 0 + j = ins.a + j
        BY <1>1, <4>1
      <4>. QED BY <1>3, <1>4, <4>1, <4>2, <4>3, <4>4
    <3>. QED BY <3>1, <3>2
  <2>. QED BY <2>1, <2>2, <2>3, <2>5
<1>9. ASSUME NEW first \in Int, NEW above \in Int, NEW n \in Int,
             Reads(ins, 0) = Span(first, n), Reads(out, 1) = Span(above, n),
             above = MapReg(H, first),
             \A k \in 0..(n - 1) : ~RangeHole(H, first, first + k)
      PROVE  /\ DOMAIN Reads(out, 1) = DOMAIN Reads(ins, 0)
             /\ \A k \in DOMAIN Reads(ins, 0) : Reads(out, 1)[k] = MapReg(H, Reads(ins, 0)[k])
  <2>1. DOMAIN Reads(out, 1) = 1..n /\ DOMAIN Reads(ins, 0) = 1..n
    BY <1>9 DEF Span
  <2>2. ASSUME NEW k \in 1..n PROVE Reads(out, 1)[k] = MapReg(H, Reads(ins, 0)[k])
    <3>1. Reads(out, 1)[k] = above + k - 1 /\ Reads(ins, 0)[k] = first + k - 1
      BY <1>9 DEF Span
    <3>2. k - 1 \in Nat /\ k - 1 \in 0..(n - 1)
      OBVIOUS
    <3>3. MapReg(H, first + (k - 1)) = MapReg(H, first) + (k - 1)
      BY <1>6, <1>9, <3>2
    <3>4. first + (k - 1) = first + k - 1 /\ above + (k - 1) = above + k - 1
      BY <3>2
    <3>. QED BY <1>9, <3>1, <3>3, <3>4
  <2>. QED BY <2>1, <2>2
<1>10. CASE ins.op = "RET"
  <2>1. /\ Reads(ins, 0) = Span(ins.a, ins.c - 1) /\ Reads(out, 1) = Span(out.a, ins.c - 1)
        /\ ins.c - 1 \in Int
    BY <1>1, <1>3, <1>10 DEF Reads
  <2>2. \A k \in 0..((ins.c - 1) - 1) : ~RangeHole(H, ins.a, ins.a + k)
    BY <1>1, <1>10 DEF RangesWhole, RangeHole
  <2>. QED BY <1>1, <1>3, <1>4, <1>9, <2>1, <2>2
<1>11. CASE ins.op = "CAT"
  <2>1. /\ ins.b \in Int /\ ins.c \in Int /\ ins.b < ins.c
    BY <1>1, <1>11 DEF OneResult
  <2>2. ~RangeHole(H, ins.b, ins.b + (ins.c - ins.b)) /\ ins.c - ins.b \in Nat
        /\ ins.b + (ins.c - ins.b) = ins.c
    BY <2>1, <1>11 DEF RangesWhole, RangeHole, ClosedRangeHole
  <2>3. MapReg(H, ins.c) = MapReg(H, ins.b) + (ins.c - ins.b)
    BY <1>6, <2>1, <2>2
  <2>4. out.b \in Int /\ out.b = MapReg(H, ins.b) /\ out.c = MapReg(H, ins.c) /\ out.op = "CAT"
    BY <1>2, <1>3, <1>11, <2>1
  <2>5. out.c - out.b + 1 = ins.c - ins.b + 1 /\ ins.c - ins.b + 1 \in Int
    BY <2>1, <2>3, <2>4
  <2>6. /\ Reads(ins, 0) = Span(ins.b, ins.c - ins.b + 1)
        /\ Reads(out, 1) = Span(out.b, out.c - out.b + 1)
    BY <1>11, <2>4 DEF Reads
  <2>7. Reads(out, 1) = Span(out.b, ins.c - ins.b + 1)
    BY <2>5, <2>6
  <2>8. \A k \in 0..((ins.c - ins.b + 1) - 1) : ~RangeHole(H, ins.b, ins.b + k)
    BY <1>11, <2>1 DEF RangesWhole, RangeHole, ClosedRangeHole
  <2>. QED BY <1>9, <2>1, <2>4, <2>5, <2>6, <2>7, <2>8
<1>12. CASE ins.op = "FORI"
  <2>1. Reads(ins, 0) = Span(ins.a, 3) /\ Reads(out, 1) = Span(out.a, 3)
    BY <1>3, <1>12 DEF Reads
  <2>2. \A k \in 0..(3 - 1) : ~RangeHole(H, ins.a, ins.a + k)
    BY <1>1, <1>12 DEF RangesWhole, RangeHole, ClosedRangeHole
  <2>. QED BY <1>1, <1>3, <1>4, <1>9, <2>1, <2>2
<1>. QED BY <1>1, <1>7, <1>8, <1>10, <1>11, <1>12 DEF AnyIns, Ops, OneResult

(* It writes the image of the one register that its source writes, or none *)
(* like its source.                                                        *)
LEMMA WritesMove ==
    ASSUME NEW H \in SUBSET Nat, IsFiniteSet(H), NEW ins \in Instructions,
           RangesWhole(H, ins), OneResult(ins)
    PROVE  \/ Writes(ins) = <<>> /\ Writes(Rewritten(H, ins)) = <<>>
           \/ \E w \in Int : Writes(ins) = <<w>> /\ Writes(Rewritten(H, ins)) = <<MapReg(H, w)>>
<1> DEFINE out == Rewritten(H, ins)
<1>1. ins \in AnyIns /\ ins.a \in Int /\ ins.b \in Nat
  BY InstructionType DEF Instructions, UsedRegs
<1>2. ASSUME NEW r \in Int PROVE MapReg(H, r) \in Int
  <2>1. Prefix(H, r) \in Nat
    BY PrefixType
  <2>. QED BY <2>1 DEF MapReg
<1>3. /\ out.op = ins.op /\ out.a = MapReg(H, ins.a)
      /\ ins.op # "CAT" => out.b = ins.b
  BY <1>1 DEF Rewritten, Operands, AnyIns
<1>4. out.a \in Int
  BY <1>1, <1>2, <1>3
<1> HIDE DEF out
<1>5. SUFFICES \/ Writes(ins) = <<>> /\ Writes(out) = <<>>
               \/ \E w \in Int : Writes(ins) = <<w>> /\ Writes(out) = <<MapReg(H, w)>>
  BY DEF out
<1>6. CASE ins.op \in {"MOV", "CAT"}
  <2>1. Writes(ins) = <<ins.a>> /\ Writes(out) = <<out.a>>
    BY <1>3, <1>6 DEF Writes
  <2>. QED BY <1>1, <1>3, <2>1
<1>7. CASE ins.op = "CALL"
  <2>1. ins.b \in {1, 2} /\ out.b = ins.b
    BY <1>3, <1>7 DEF OneResult
  <2>2. Writes(ins) = Span(ins.a, ins.b - 1) /\ Writes(out) = Span(out.a, ins.b - 1)
    BY <1>3, <1>7, <2>1 DEF Writes
  <2>3. CASE ins.b = 1
    <3>1. ASSUME NEW x PROVE Span(x, 1 - 1) = <<>>
      BY DEF Span
    <3>. QED BY <2>2, <2>3, <3>1
  <2>4. CASE ins.b = 2
    <3>1. ASSUME NEW x \in Int PROVE Span(x, 2 - 1) = <<x>>
      <4>1. Span(x, 2 - 1) \in Seq(Int) /\ Len(Span(x, 2 - 1)) = 1 /\ Span(x, 2 - 1)[1] = x
        <5>1. 2 - 1 = 1 /\ 1 \in Nat
          OBVIOUS
        <5>2. /\ Span(x, 1) \in Seq(Int) /\ Len(Span(x, 1)) = 1
              /\ \A k \in 1..1 : Span(x, 1)[k] = x + k - 1
          BY SpanElements
        <5>. QED BY <5>1, <5>2
      <4>. QED BY <4>1
    <3>. QED BY <1>1, <1>3, <1>4, <2>2, <2>4, <3>1
  <2>. QED BY <2>1, <2>3, <2>4
<1>8. CASE ins.op = "FORI"
  <2>1. Writes(ins) = <<ins.a + 3>> /\ Writes(out) = <<out.a + 3>>
    BY <1>3, <1>8 DEF Writes
  <2>2. ~RangeHole(H, ins.a, ins.a + 3) /\ ins.a + 3 \in Int /\ ins.a <= ins.a + 3
    BY <1>1, <1>8 DEF RangesWhole, RangeHole, ClosedRangeHole
  <2>3. MapReg(H, ins.a + 3) = MapReg(H, ins.a) + ((ins.a + 3) - ins.a)
    BY <1>1, <2>2, RangeMoves
  <2>4. MapReg(H, ins.a + 3) = out.a + 3
    BY <1>1, <1>3, <1>4, <2>3
  <2>. QED BY <2>1, <2>2, <2>4
<1>9. CASE ins.op \in {"CALLT", "RET"}
  BY <1>3, <1>9 DEF Writes
<1>. QED BY <1>1, <1>6, <1>7, <1>8, <1>9 DEF AnyIns, Ops, OneResult

(* What survives the source survives the rewritten instruction.            *)
LEMMA KeptMoves ==
    ASSUME NEW H \in SUBSET Nat, IsFiniteSet(H), LoadsFit(H), NEW ins \in Instructions,
           NEW r \in UsedRegs, ~(r >= Kept(ins))
    PROVE  ~(MapReg(H, r) >= Kept(Rewritten(H, ins)))
<1> DEFINE out == Rewritten(H, ins)
<1>1. /\ ins \in AnyIns /\ ins.a \in Int /\ r \in Int
      /\ ins.op = "CAT" => ins.b \in Int
  BY InstructionType DEF UsedRegs
<1>2. ASSUME NEW s \in Int PROVE MapReg(H, s) \in Int
  <2>1. Prefix(H, s) \in Nat
    BY PrefixType
  <2>. QED BY <2>1 DEF MapReg
<1>3. /\ out.op = ins.op /\ out.a = MapReg(H, ins.a)
      /\ ins.op = "CAT" => out.b = MapReg(H, ins.b)
  BY <1>1 DEF Rewritten, Operands, AnyIns
<1> HIDE DEF out
<1>4. ASSUME NEW s \in Int, r < s PROVE MapReg(H, r) < MapReg(H, s)
  <2>1. MapReg(H, r) + (s - r) <= MapReg(H, s)
    BY <1>1, <1>4, MapMonotone
  <2>. QED BY <1>1, <1>2, <1>4, <2>1
<1>5. SUFFICES ~(MapReg(H, r) >= Kept(out))
  BY DEF out
<1>6. CASE ins.op = "CALL"
  <2>1. Kept(ins) = ins.a /\ Kept(out) = out.a
    BY <1>3, <1>6 DEF Kept
  <2>. QED BY <1>1, <1>2, <1>3, <1>4, <2>1
<1>7. CASE ins.op = "CAT"
  <2>1. Kept(ins) = ins.b /\ Kept(out) = out.b
    BY <1>3, <1>7 DEF Kept
  <2>. QED BY <1>1, <1>2, <1>3, <1>4, <1>7, <2>1
<1>8. CASE ins.op \notin {"CALL", "CAT"}
  <2>1. Kept(out) = MaxA + 1
    BY <1>3, <1>8 DEF Kept
  <2>2. MapReg(H, r) <= MaxA
    BY DEF LoadsFit, Fits
  <2>. QED BY <1>1, <1>2, <2>1, <2>2
<1>. QED BY <1>6, <1>7, <1>8

(* Two registers of a program have the same image only if they are one.    *)
LEMMA MapInjective ==
    ASSUME NEW H \in SUBSET Nat, IsFiniteSet(H), NEW r \in Int, NEW s \in Int,
           MapReg(H, r) = MapReg(H, s)
    PROVE  r = s
<1>1. Prefix(H, r) \in Nat
  BY PrefixType
<1>2. MapReg(H, r) \in Int
  BY <1>1 DEF MapReg
<1>3. r <= s => MapReg(H, r) + (s - r) <= MapReg(H, s)
  BY MapMonotone
<1>4. s <= r => MapReg(H, s) + (r - s) <= MapReg(H, r)
  BY MapMonotone
<1>. QED BY <1>2, <1>3, <1>4

\* The FR2 registers have, where the map leads, the values of the FR1 ones,
\* those apart that a call or a concatenation has spoilt.
Agree(H, env1, env2) ==
    /\ DOMAIN env1 = Regs /\ DOMAIN env2 = Regs
    /\ \A r \in UsedRegs : env1[r] # Junk => env2[MapReg(H, r)] = env1[r]

(* An instruction and what it is rewritten to keep the registers agreeing. *)
LEMMA StepsAgree ==
    ASSUME NEW H \in SUBSET Nat, IsFiniteSet(H), LoadsFit(H), NEW ins \in Instructions,
           ins.op \in {"CALL", "CALLT"} => ins.a \in H,
           RangesWhole(H, ins), OneResult(ins), InFrame(ins),
           NEW env1, NEW env2, NEW i, Agree(H, env1, env2),
           \A k \in DOMAIN Reads(ins, 0) : env1[Reads(ins, 0)[k]] # Junk
    PROVE  Agree(H, Step(env1, ins, i), Step(env2, Rewritten(H, ins), i))
<1> DEFINE out == Rewritten(H, ins)
           next1 == Step(env1, ins, i)
           next2 == Step(env2, out, i)
<1>1. DOMAIN env1 = Regs /\ DOMAIN env2 = Regs
  BY DEF Agree
<1>2. DOMAIN next1 = Regs /\ DOMAIN next2 = Regs
  BY <1>1 DEF Step
<1>3. ASSUME NEW r \in UsedRegs
      PROVE  r \in Int /\ r \in Regs /\ MapReg(H, r) \in Regs
  <2>1. r \in Nat /\ r \in Int /\ r <= MaxA
    BY DEF UsedRegs
  <2>2. Prefix(H, r) \in Nat
    BY <2>1, PrefixType
  <2>3. MapReg(H, r) \in Nat /\ MapReg(H, r) <= MaxA
    BY <2>1, <2>2 DEF MapReg, LoadsFit, Fits
  <2>. QED BY <2>1, <2>3 DEF Regs
<1>4. ins \in AnyIns /\ out.op = ins.op /\ (ins.op = "MOV" => ins.c \in UsedRegs /\ out.c = MapReg(H, ins.c))
  <2>1. ins \in AnyIns /\ (ins.op = "MOV" => ins.c \in UsedRegs)
    BY InstructionType
  <2>. QED BY <2>1 DEF Rewritten, Operands, AnyIns
<1>5. ASSUME NEW r \in UsedRegs, next1[r] # Junk PROVE next2[MapReg(H, r)] = next1[r]
  <2> DEFINE m == MapReg(H, r)
  <2>1. /\ next1[r] = IF \E k \in DOMAIN Writes(ins) : Writes(ins)[k] = r
                      THEN IF ins.op = "MOV" THEN env1[ins.c]
                           ELSE <<i, CHOOSE k \in DOMAIN Writes(ins) : Writes(ins)[k] = r>>
                      ELSE IF r >= Kept(ins) THEN Junk ELSE env1[r]
        /\ next2[m] = IF \E k \in DOMAIN Writes(out) : Writes(out)[k] = m
                      THEN IF out.op = "MOV" THEN env2[out.c]
                           ELSE <<i, CHOOSE k \in DOMAIN Writes(out) : Writes(out)[k] = m>>
                      ELSE IF m >= Kept(out) THEN Junk ELSE env2[m]
    BY <1>1, <1>3 DEF Step
  <2> HIDE DEF next1, next2, out
  <2>2. CASE \E w \in Int : w = r /\ Writes(ins) = <<w>> /\ Writes(out) = <<MapReg(H, w)>>
    <3>1. Writes(ins) = <<r>> /\ Writes(out) = <<m>>
      BY <2>2
    <3>2. /\ \E k \in DOMAIN Writes(ins) : Writes(ins)[k] = r
          /\ \E k \in DOMAIN Writes(out) : Writes(out)[k] = m
      BY <3>1
    <3>3. CASE ins.op = "MOV"
      <4>1. Reads(ins, 0) = <<ins.c>>
        BY <3>3 DEF Reads
      <4>2. env1[ins.c] # Junk
        BY <4>1
      <4>3. env2[MapReg(H, ins.c)] = env1[ins.c]
        BY <1>4, <3>3, <4>2 DEF Agree
      <4>. QED BY <1>4, <2>1, <3>2, <3>3, <4>3
    <3>4. CASE ins.op # "MOV"
      <4>1. ASSUME NEW x PROVE (CHOOSE k \in DOMAIN <<x>> : <<x>>[k] = x) = 1
        <5>1. DOMAIN <<x>> = {1} /\ <<x>>[1] = x
          OBVIOUS
        <5>. QED BY <5>1, Zenon
      <4>2. /\ (CHOOSE k \in DOMAIN Writes(ins) : Writes(ins)[k] = r) = 1
            /\ (CHOOSE k \in DOMAIN Writes(out) : Writes(out)[k] = m) = 1
        BY <3>1, <4>1, ZenonT(60)
      <4>3. next1[r] = <<i, CHOOSE k \in DOMAIN Writes(ins) : Writes(ins)[k] = r>>
        BY <2>1, <3>2, <3>4, Zenon
      <4>4. next2[m] = <<i, CHOOSE k \in DOMAIN Writes(out) : Writes(out)[k] = m>>
        BY <1>4, <2>1, <3>2, <3>4, Zenon
      <4>. QED BY <4>2, <4>3, <4>4
    <3>. QED BY <3>3, <3>4
  <2>3. CASE ~ \E w \in Int : w = r /\ Writes(ins) = <<w>> /\ Writes(out) = <<MapReg(H, w)>>
    <3>1. \/ Writes(ins) = <<>> /\ Writes(out) = <<>>
          \/ \E w \in Int : Writes(ins) = <<w>> /\ Writes(out) = <<MapReg(H, w)>>
      BY WritesMove DEF out
    <3>2. /\ ~ \E k \in DOMAIN Writes(ins) : Writes(ins)[k] = r
          /\ ~ \E k \in DOMAIN Writes(out) : Writes(out)[k] = m
      <4>1. CASE Writes(ins) = <<>> /\ Writes(out) = <<>>
        BY <4>1
      <4>2. ASSUME NEW w \in Int, Writes(ins) = <<w>>, Writes(out) = <<MapReg(H, w)>>
            PROVE  <3>2!1 /\ <3>2!2
        <5>1. w # r
          BY <2>3, <4>2
        <5>2. MapReg(H, w) # m
          BY <1>3, <5>1, MapInjective
        <5>3. ASSUME NEW x, NEW y, x # y PROVE ~ \E k \in DOMAIN <<x>> : <<x>>[k] = y
          <6>1. DOMAIN <<x>> = {1} /\ <<x>>[1] = x
            OBVIOUS
          <6>. QED BY <5>3, <6>1, Zenon
        <5>4. ~ \E k \in DOMAIN Writes(ins) : Writes(ins)[k] = r
          BY <4>2, <5>1, <5>3, Zenon
        <5>5. ~ \E k \in DOMAIN Writes(out) : Writes(out)[k] = m
          BY <4>2, <5>2, <5>3, Zenon
        <5>. QED BY <5>4, <5>5
      <4>. QED BY <3>1, <4>1, <4>2
    <3>3. next1[r] = (IF r >= Kept(ins) THEN Junk ELSE env1[r])
      BY <2>1, <3>2, Zenon
    <3>4. ~(r >= Kept(ins)) /\ next1[r] = env1[r] /\ env1[r] # Junk
      BY <1>5, <3>3
    <3>5. ~(m >= Kept(out))
      BY <3>4, KeptMoves DEF out
    <3>6. next2[m] = env2[m]
      BY <2>1, <3>2, <3>5
    <3>. QED BY <3>4, <3>6 DEF Agree
  <2>. QED BY <2>2, <2>3
<1>. QED BY <1>2, <1>5 DEF Agree

-----------------------------------------------------------------------------
\* What the compiler guarantees of its program, and the loop of the loads.
ValuesInv ==
    /\ \A i \in DOMAIN source : \A k \in DOMAIN Reads(source[i], 0) :
            ValuesRead(source, FR1Env, 0, i)[k] # Junk
    /\ \A i \in DOMAIN source :
            /\ source[i].op = "CAT" => source[i].b < source[i].c /\ source[i].a <= source[i].b
            /\ source[i].op = "TSETM" => i > 1 /\ IsOpenCall(source[i - 1])
    /\ status \in {"rewrite", "ok"} => LoadsFit(holes)

(* What instruction i reads depends on no later instruction.               *)
LEMMA ValuesOfPrefix ==
    ASSUME NEW p, NEW q, NEW env0, NEW gap, NEW i \in Nat \ {0},
           \A j \in 1..i : p[j] = q[j]
    PROVE  ValuesRead(p, env0, gap, i) = ValuesRead(q, env0, gap, i)
<1>1. PICK f : IsRun(f, p, env0, i)
  BY RunExists
<1>2. PICK g : IsRun(g, q, env0, i)
  BY RunExists
<1>3. f[i] = g[i]
  <2>1. \A j \in Nat : j < i /\ j < i /\ 1 <= j => p[j] = q[j]
    OBVIOUS
  <2>. QED BY <1>1, <1>2, <2>1, RunsAgree
<1>4. i \in Nat /\ i \in 1..i
  OBVIOUS
<1>5. EnvAt(p, env0, i) = f[i] /\ EnvAt(q, env0, i) = g[i]
  BY <1>1, <1>2, <1>4, EnvAtRun
<1>6. p[i] = q[i]
  BY <1>4
<1>. QED BY <1>3, <1>5, <1>6 DEF ValuesRead

LEMMA ValuesInitInv == Init => ValuesInv
<1>. SUFFICES ASSUME Init PROVE ValuesInv
  OBVIOUS
<1>. QED BY DEF Init, ValuesInv

LEMMA ValuesNextInv ==
    ASSUME IInv, ValuesInv, [Next]_vars
    PROVE  ValuesInv'
<1>1. ASSUME NEW ins \in Instructions, Emit(ins) PROVE ValuesInv'
  <2> DEFINE n == Len(source)
             prog == Append(source, ins)
  <2>1. /\ source' = prog /\ source \in Seq(Instructions) /\ status' = "compile"
        /\ n \in Nat /\ DOMAIN source = 1..n
        /\ DOMAIN prog = 1..(n + 1) /\ Len(prog) = n + 1
        /\ prog[n + 1] = ins /\ \A i \in 1..n : prog[i] = source[i]
    BY <1>1 DEF Emit, IInv
  <2>7. \A j \in DOMAIN Reads(ins, 0) : ValuesRead(prog, FR1Env, 0, Len(prog))[j] # Junk
    BY <1>1 DEF Emit
  <2> HIDE DEF prog
  <2>2. ASSUME NEW i \in 1..(n + 1), NEW k \in DOMAIN Reads(prog[i], 0)
        PROVE  ValuesRead(prog, FR1Env, 0, i)[k] # Junk
    <3>1. CASE i \in 1..n
      <4>1. i \in Nat \ {0} /\ \A j \in 1..i : prog[j] = source[j]
        BY <2>1, <3>1
      <4>2. ValuesRead(prog, FR1Env, 0, i) = ValuesRead(source, FR1Env, 0, i)
        BY <4>1, ValuesOfPrefix
      <4>3. prog[i] = source[i]
        BY <2>1, <3>1
      <4>. QED BY <2>1, <2>2, <3>1, <4>2, <4>3 DEF ValuesInv
    <3>2. CASE i = n + 1
      <4>1. Len(prog) = i /\ prog[i] = ins
        BY <2>1, <3>2
      <4>2. \A j \in DOMAIN Reads(ins, 0) : ValuesRead(prog, FR1Env, 0, i)[j] # Junk
        BY <2>7, <4>1
      <4>. QED BY <2>2, <4>1, <4>2
    <3>. QED BY <2>1, <3>1, <3>2
  <2>3. /\ ins.op = "CAT" => ins.b < ins.c /\ ins.a <= ins.b
        /\ ins.op = "TSETM" => source # <<>> /\ IsOpenCall(source[n])
    BY <1>1 DEF Emit
  <2>4. ASSUME NEW i \in 1..(n + 1)
        PROVE  /\ prog[i].op = "CAT" => prog[i].b < prog[i].c /\ prog[i].a <= prog[i].b
               /\ prog[i].op = "TSETM" => i > 1 /\ IsOpenCall(prog[i - 1])
    <3>1. CASE i \in 1..n
      <4>1. prog[i] = source[i] /\ (i > 1 => prog[i - 1] = source[i - 1])
        BY <2>1, <3>1
      <4>2. /\ source[i].op = "CAT" => source[i].b < source[i].c /\ source[i].a <= source[i].b
            /\ source[i].op = "TSETM" => i > 1 /\ IsOpenCall(source[i - 1])
        BY <2>1, <3>1 DEF ValuesInv
      <4>. QED BY <4>1, <4>2
    <3>2. CASE i = n + 1
      <4>1. source # <<>> => n \in 1..n /\ n > 0
        BY <2>1
      <4>2. source # <<>> => i > 1 /\ prog[i - 1] = source[n]
        BY <2>1, <3>2, <4>1
      <4>. QED BY <2>1, <2>3, <3>2, <4>2
    <3>. QED BY <2>1, <3>1, <3>2
  <2>5. \A i \in DOMAIN source' : \A k \in DOMAIN Reads(source'[i], 0) :
            ValuesRead(source', FR1Env, 0, i)[k] # Junk
    BY <2>1, <2>2
  <2>6. \A i \in DOMAIN source' :
            /\ source'[i].op = "CAT" => source'[i].b < source'[i].c /\ source'[i].a <= source'[i].b
            /\ source'[i].op = "TSETM" => i > 1 /\ IsOpenCall(source'[i - 1])
    BY <2>1, <2>4
  <2>. QED BY <2>1, <2>5, <2>6 DEF ValuesInv
<1>2. ASSUME UNCHANGED source, (status \in {"rewrite", "ok"} => LoadsFit(holes))'
      PROVE  ValuesInv'
  BY <1>2 DEF ValuesInv
<1>3. CASE Start
  <2>1. (status \in {"rewrite", "ok"} => LoadsFit(holes))'
    BY <1>3 DEF Start, LoadsFit
  <2>. QED BY <1>2, <1>3, <2>1 DEF Start
<1>4. CASE RewriteIns \/ SizeFrame
  <2>1. status = "rewrite" /\ UNCHANGED <<source, holes>>
    BY <1>4 DEF RewriteIns, SizeFrame
  <2>2. LoadsFit(holes)'
    BY <2>1 DEF ValuesInv, LoadsFit
  <2>. QED BY <1>2, <2>1, <2>2
<1>5. CASE UNCHANGED vars
  <2>1. (status \in {"rewrite", "ok"} => LoadsFit(holes))'
    BY <1>5 DEF vars, ValuesInv, LoadsFit
  <2>. QED BY <1>2, <1>5, <2>1 DEF vars
<1>. QED BY <1>1, <1>3, <1>4, <1>5 DEF Next

(* The loads leave agreeing registers.                                     *)
LEMMA LoadsAgree ==
    ASSUME holes \in SUBSET Nat, IsFiniteSet(holes)
    PROVE  LoadsFit(holes) => Agree(holes, FR1Env, FR2Env)
<1>. SUFFICES ASSUME LoadsFit(holes) PROVE Agree(holes, FR1Env, FR2Env)
  OBVIOUS
<1>1. DOMAIN FR1Env = Regs /\ DOMAIN FR2Env = Regs
  BY DEF FR1Env, FR2Env
<1>2. ASSUME NEW r \in UsedRegs PROVE FR2Env[MapReg(holes, r)] = FR1Env[r]
  <2>1. r \in Int /\ r \in Nat /\ r <= MaxA
    BY DEF UsedRegs
  <2>2. Prefix(holes, r) \in Nat
    BY <2>1, PrefixType
  <2>3. MapReg(holes, r) \in Regs /\ r \in Regs
    BY <2>1, <2>2 DEF MapReg, LoadsFit, Fits, Regs
  <2>4. FR1Env[r] = <<0, r>>
    BY <2>3 DEF FR1Env
  <2>5. ASSUME NEW s \in UsedRegs, MapReg(holes, s) = MapReg(holes, r) PROVE s = r
    <3>1. s \in Int
      BY DEF UsedRegs
    <3>. QED BY <2>1, <2>5, <3>1, MapInjective
  <2>6. (CHOOSE s \in UsedRegs : MapReg(holes, s) = MapReg(holes, r)) = r
    BY <2>5
  <2>7. FR2Env[MapReg(holes, r)] = <<0, CHOOSE s \in UsedRegs : MapReg(holes, s) = MapReg(holes, r)>>
    BY <2>3 DEF FR2Env
  <2>. QED BY <2>4, <2>6, <2>7
<1>. QED BY <1>1, <1>2 DEF Agree

(* Without open results there is nothing that stores them.                 *)
LEMMA OneResultAt ==
    ASSUME IInv, ValuesInv, NEW n \in DOMAIN source,
           \A i \in DOMAIN source : source[i].op = "CALL" => source[i].b \in {1, 2}
    PROVE  OneResult(source[n])
<1>1. /\ source[n].op = "CAT" => source[n].b < source[n].c /\ source[n].a <= source[n].b
      /\ source[n].op = "TSETM" => n > 1 /\ IsOpenCall(source[n - 1])
  BY DEF ValuesInv
<1>2. source[n].op # "TSETM"
  <2>1. SUFFICES ASSUME source[n].op = "TSETM" PROVE FALSE
    OBVIOUS
  <2>2. source \in Seq(Instructions)
    BY DEF IInv
  <2>3. n - 1 \in DOMAIN source /\ IsOpenCall(source[n - 1])
    BY <1>1, <2>1, <2>2
  <2>4. source[n - 1].op = "CALL" /\ source[n - 1].b = 0
    BY <2>3 DEF IsOpenCall
  <2>. QED BY <2>3, <2>4
<1>. QED BY <1>1, <1>2 DEF OneResult

(* Before every instruction of a converted program the FR2 registers agree *)
(* with the FR1 registers before its source.                               *)
LEMMA RunsCorrespond ==
    ASSUME IInv, FrameInv, ValuesInv, status = "ok",
           \A i \in DOMAIN source : source[i].op = "CALL" => source[i].b \in {1, 2},
           NEW n \in DOMAIN source
    PROVE  Agree(holes, EnvAt(source, FR1Env, n), EnvAt(code, FR2Env, n))
<1> DEFINE len == Len(source)
<1>1. /\ source \in Seq(Instructions) /\ holes = Holes(source)
      /\ holes \in SUBSET Nat /\ IsFiniteSet(holes) /\ LoadsFit(holes)
      /\ pc = Len(code) + 1 /\ Len(code) = len /\ len \in Nat /\ DOMAIN source = 1..len
  BY HolesType DEF IInv, FrameInv, ValuesInv
<1>2. ASSUME NEW i \in 1..len
      PROVE  /\ source[i] \in Instructions /\ OneResult(source[i]) /\ InFrame(source[i])
             /\ source[i].op \in {"CALL", "CALLT"} => source[i].a \in holes
             /\ RangesWhole(holes, source[i]) /\ code[i] = Rewritten(holes, source[i])
  <2>1. source[i] \in Instructions /\ i \in 1..(pc - 1) /\ i \in DOMAIN source
    BY <1>1
  <2>2. RangesWhole(holes, source[i]) /\ code[i] = Rewritten(holes, source[i])
    BY <2>1 DEF IInv
  <2>3. InFrame(source[i])
    BY <2>1 DEF FrameInv
  <2>4. source[i].op \in {"CALL", "CALLT"} => source[i].a \in holes
    BY <1>1, <2>1 DEF Holes
  <2>5. OneResult(source[i])
    BY <2>1, OneResultAt
  <2>. QED BY <2>1, <2>2, <2>3, <2>4, <2>5
<1>3. PICK f : IsRun(f, source, FR1Env, len)
  BY <1>1, RunExists
<1>4. PICK g : IsRun(g, code, FR2Env, len)
  BY <1>1, RunExists
<1> HIDE DEF len
<1>5. ASSUME NEW i \in 1..len
      PROVE  EnvAt(source, FR1Env, i) = f[i] /\ EnvAt(code, FR2Env, i) = g[i]
  BY <1>1, <1>3, <1>4, EnvAtRun
<1> DEFINE S == {i \in Nat : i \in 1..len /\ ~ Agree(holes, f[i], g[i])}
<1>6. ASSUME S # {} PROVE FALSE
  <2>1. PICK x \in S : \A y \in S : x <= y
    <3>1. S \in SUBSET Nat
      OBVIOUS
    <3> HIDE DEF S
    <3>. QED BY <1>6, <3>1, LeastOf
  <2>2. x \in Nat /\ x \in 1..len /\ ~ Agree(holes, f[x], g[x])
    BY <2>1
  <2>3. CASE x = 1
    <3>1. f[1] = FR1Env /\ g[1] = FR2Env
      BY <1>1, <1>3, <1>4, <2>2, <2>3, RunSteps
    <3>. QED BY <1>1, <2>2, <2>3, <3>1, LoadsAgree
  <2>4. CASE x # 1
    <3> DEFINE j == x - 1
    <3>1. j \in Nat /\ j \in 1..len /\ ~(x <= j) /\ j = x - 1
      BY <1>1, <2>2, <2>4
    <3>2. f[x] = Step(f[j], source[j], j) /\ g[x] = Step(g[j], code[j], j)
      BY <1>1, <1>3, <1>4, <2>2, <2>4, RunSteps
    <3> HIDE DEF j
    <3>3. Agree(holes, f[j], g[j])
      BY <2>1, <3>1
    <3>4. ASSUME NEW k \in DOMAIN Reads(source[j], 0)
          PROVE  f[j][Reads(source[j], 0)[k]] # Junk
      <4>1. ValuesRead(source, FR1Env, 0, j)[k] # Junk
        BY <1>1, <3>1 DEF ValuesInv
      <4>2. ValuesRead(source, FR1Env, 0, j)[k]
              = IF Reads(source[j], 0)[k] \in DOMAIN f[j] THEN f[j][Reads(source[j], 0)[k]] ELSE Junk
        BY <1>5, <3>1 DEF ValuesRead
      <4>. QED BY <4>1, <4>2
    <3>5. code[j] = Rewritten(holes, source[j])
      BY <1>2, <3>1
    <3>6. Agree(holes, Step(f[j], source[j], j), Step(g[j], Rewritten(holes, source[j]), j))
      BY <1>1, <1>2, <3>1, <3>3, <3>4, StepsAgree
    <3>. QED BY <2>2, <3>2, <3>5, <3>6
  <2>. QED BY <2>3, <2>4
<1>7. n \in Nat /\ n \in 1..len
  BY <1>1
<1>8. Agree(holes, f[n], g[n])
  BY <1>6, <1>7
<1>. QED BY <1>5, <1>7, <1>8

(* A program that the converter accepts, and whose calls have one result   *)
(* at most, reads the values that it read before, whatever its length, its *)
(* registers and their limit.                                              *)
THEOREM ValuesSafe == Spec => []OneResultValuesRead
<1>1. ASSUME IInv, FrameInv, ValuesInv PROVE OneResultValuesRead
  <2>. SUFFICES ASSUME \A i \in DOMAIN source : source[i].op = "CALL" => source[i].b \in {1, 2},
                       status = "ok", NEW n \in DOMAIN source
                PROVE  ValuesRead(code, FR2Env, 1, n) = ValuesRead(source, FR1Env, 0, n)
    BY DEF OneResultValuesRead, SameValuesRead
  <2> DEFINE env1 == EnvAt(source, FR1Env, n)
             env2 == EnvAt(code, FR2Env, n)
  <2>1. Agree(holes, env1, env2)
    BY <1>1, RunsCorrespond
  <2>2. /\ source \in Seq(Instructions) /\ holes = Holes(source) /\ n \in Nat
        /\ holes \in SUBSET Nat /\ IsFiniteSet(holes) /\ LoadsFit(holes)
        /\ n \in 1..(pc - 1) /\ source[n] \in Instructions
    BY <1>1, HolesType DEF IInv, FrameInv, ValuesInv
  <2>3. /\ code[n] = Rewritten(holes, source[n]) /\ RangesWhole(holes, source[n])
        /\ InFrame(source[n])
        /\ source[n].op \in {"CALL", "CALLT"} => source[n].a \in holes
    BY <1>1, <2>2 DEF IInv, FrameInv, Holes
  <2>4. OneResult(source[n])
    BY <1>1, OneResultAt
  <2> DEFINE regs1 == Reads(source[n], 0)
             regs2 == Reads(code[n], 1)
  <2>5. DOMAIN regs2 = DOMAIN regs1 /\ \A k \in DOMAIN regs1 : regs2[k] = MapReg(holes, regs1[k])
    BY <2>2, <2>3, <2>4, ReadsMove
  <2>6. /\ ValuesRead(source, FR1Env, 0, n)
             = [k \in DOMAIN regs1 |-> IF regs1[k] \in DOMAIN env1 THEN env1[regs1[k]] ELSE Junk]
        /\ ValuesRead(code, FR2Env, 1, n)
             = [k \in DOMAIN regs2 |-> IF regs2[k] \in DOMAIN env2 THEN env2[regs2[k]] ELSE Junk]
    BY DEF ValuesRead
  <2>7. ASSUME NEW k \in DOMAIN regs1
        PROVE  ValuesRead(source, FR1Env, 0, n)[k] # Junk /\ regs1[k] \in UsedRegs
    BY <1>1, <2>3 DEF ValuesInv, InFrame
  <2> HIDE DEF env1, env2, regs1, regs2
  <2>8. ASSUME NEW k \in DOMAIN regs1
        PROVE  (IF regs1[k] \in DOMAIN env1 THEN env1[regs1[k]] ELSE Junk)
                 = IF regs2[k] \in DOMAIN env2 THEN env2[regs2[k]] ELSE Junk
    <3>1. regs1[k] \in UsedRegs /\ regs2[k] = MapReg(holes, regs1[k])
      BY <2>5, <2>7
    <3>2. regs1[k] \in DOMAIN env1 /\ env1[regs1[k]] # Junk
      BY <2>6, <2>7
    <3>3. MapReg(holes, regs1[k]) \in DOMAIN env2
      <4> DEFINE r == regs1[k]
      <4>1. r \in Nat /\ r \in Int
        BY <3>1 DEF UsedRegs
      <4>2. Prefix(holes, r) \in Nat
        BY <2>2, <4>1, PrefixType
      <4>3. MapReg(holes, r) \in Regs
        BY <2>2, <3>1, <4>1, <4>2 DEF MapReg, LoadsFit, Fits, Regs
      <4>. QED BY <2>1, <4>3 DEF Agree
    <3>4. env2[MapReg(holes, regs1[k])] = env1[regs1[k]]
      BY <2>1, <3>1, <3>2 DEF Agree
    <3>. QED BY <3>1, <3>2, <3>3, <3>4
  <2>. QED BY <2>5, <2>6, <2>8
<1>2. Init => IInv /\ FrameInv /\ ValuesInv
  BY InitInv, FrameInitInv, ValuesInitInv
<1>3. IInv /\ FrameInv /\ ValuesInv /\ [Next]_vars => (IInv /\ FrameInv /\ ValuesInv)'
  BY NextInv, FrameNextInv, ValuesNextInv
<1>. QED BY <1>1, <1>2, <1>3, PTL DEF Spec
=============================================================================
