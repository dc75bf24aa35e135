---------------------------- MODULE InsertCopies ----------------------------
(***************************************************************************)
(* Inserting register copies into a prototype (src/tolua_fr1_to_fr2.c).    *)
(*                                                                         *)
(* Where the registers of a call cannot be moved in place, the code that   *)
(* patches a prototype asks for MOV instructions in front of an            *)
(* instruction (tolua_schedule_insert_copies), and the chunk is built      *)
(* again with them (tolua_rebuild_chunk_with_insert_copy).  Everything     *)
(* from there on moves, so the jumps of the prototype are retargeted.      *)
(* That happens again and again until the prototype needs no more copies.  *)
(*                                                                         *)
(* An instruction is a record: its kind, its jump (the distance from the   *)
(* following instruction) and, to tell what became of it, its number in    *)
(* the compiled prototype and the number of the instruction it jumps to.   *)
(***************************************************************************)
EXTENDS Integers, FiniteSets

CONSTANTS NumIns,      \* instructions of the compiled prototype
          MaxCopies,   \* TOLUA_MAX_INSERT_COPIES
          JumpBias,    \* BCBIAS_J: jumps reach from -JumpBias to JumpBias - 1
          MaxSize      \* bound: instructions after all insertions

ASSUME InsertAssumption ==
    /\ NumIns \in Nat \ {0} /\ MaxCopies \in Nat \ {0}
    /\ JumpBias \in Nat \ {0} /\ NumIns <= JumpBias
    /\ MaxSize \in Nat /\ NumIns <= MaxSize

VARIABLES code,      \* the instructions, numbered from 0
          numbc,     \* how many the header of the prototype announces
          request,   \* tolua_pending_insert_copy
          status     \* "patch" or "layout", what a refused rebuild answers

vars == <<code, numbc, request, status>>

Originals == 0..(NumIns - 1)
Kinds == {"op", "jmp", "isnext", "itern", "copy"}

Instruction == [kind : Kinds, jump : Int, id : Originals \cup {-1},
                goal : Originals \cup {-1}]
Copy == [kind |-> "copy", jump |-> 0, id |-> -1, goal |-> -1]

NoRequest == [active |-> FALSE]
Request == [active : {TRUE}, at : 0..MaxSize, count : 1..MaxCopies, allow : BOOLEAN]

Target(c, p) == p + 1 + c[p].jump

\* tolua_get_jump_target: the instructions whose jump is looked at.  ISNEXT,
\* which jumps to the ITERN of its loop, is not one of them: it is still there
\* when version 1 is converted to FR2, while version 2 has a JMP in its place.
GetJumpTarget(c, n, p) == c[p].kind = "jmp" /\ Target(c, p) \in 0..(n - 1)

\* The prototypes the compiler produces.  ISNEXT goes to the ITERN at the
\* end of its loop.
Compiled(goals, kinds) ==
    [p \in Originals |->
        [kind |-> kinds[p], id |-> p,
         jump |-> IF goals[p] = -1 THEN 0 ELSE goals[p] - p - 1, goal |-> goals[p]]]

Init ==
    /\ \E goals \in [Originals -> Originals \cup {-1}],
          kinds \in [Originals -> Kinds \ {"copy"}] :
          /\ \A p \in Originals : goals[p] # -1 <=> kinds[p] \in {"jmp", "isnext"}
          /\ \A p \in Originals :
                kinds[p] = "isnext" => kinds[goals[p]] = "itern" /\ p < goals[p]
          /\ code = Compiled(goals, kinds)
    /\ numbc = NumIns
    /\ request = NoRequest
    /\ status = "patch"

-----------------------------------------------------------------------------
\* tolua_schedule_insert_copies: count copies in front of instruction at,
\* which jumps may enter through the copies (allow_target_entry) or not.
Schedule(at, count, allow) ==
    /\ status = "patch" /\ ~request.active
    /\ numbc + count <= MaxSize
    /\ request' = [active |-> TRUE, at |-> at, count |-> count, allow |-> allow]
    /\ UNCHANGED <<code, numbc, status>>

\* Where an instruction goes.
Moved(p, req) == IF p >= req.at THEN p + req.count ELSE p

\* Faulty variant: a jump to the instruction itself passes the copies by.
RetargetedPast(t, req) == IF t >= req.at THEN t + req.count ELSE t

\* Where a jump goes: one to the instruction itself enters the copies.
Retargeted(t, req) == IF t > req.at THEN t + req.count ELSE t

\* setbc_j keeps 16 bits of the distance.
Distance(d) == IF d >= JumpBias THEN d - 2 * JumpBias
               ELSE IF d < -JumpBias THEN d + 2 * JumpBias
               ELSE d

\* Faulty variant: the distance is taken from where the jump was.
MovedInsFromOldPlace(c, n, p, req) ==
    IF GetJumpTarget(c, n, p)
    THEN [c[p] EXCEPT !.jump = Distance(Retargeted(Target(c, p), req) - p - 1)]
    ELSE c[p]

\* What instruction p becomes.
MovedIns(c, n, p, req) ==
    IF GetJumpTarget(c, n, p)
    THEN [c[p] EXCEPT !.jump = Distance(Retargeted(Target(c, p), req) - Moved(p, req) - 1)]
    ELSE c[p]

\* Faulty variants: the last instruction is not written; the instruction
\* the copies go in front of is not moved, and the first copy overwrites it.
RebuiltTooShort(c, n, req) ==
    [p \in 0..(n + req.count - 2) |->
        IF p < req.at THEN MovedIns(c, n, p, req)
        ELSE IF p < req.at + req.count THEN Copy
        ELSE MovedIns(c, n, p - req.count, req)]
RebuiltOverwritten(c, n, req) ==
    [p \in 0..(n + req.count - 1) |->
        IF p < req.at THEN MovedIns(c, n, p, req)
        ELSE IF p <= req.at + req.count THEN Copy
        ELSE MovedIns(c, n, p - req.count, req)]

\* The prototype with the copies in place.
Rebuilt(c, n, req) ==
    [p \in 0..(n + req.count - 1) |->
        IF p < req.at THEN MovedIns(c, n, p, req)
        ELSE IF p < req.at + req.count THEN Copy
        ELSE MovedIns(c, n, p - req.count, req)]

\* A jump to the instruction, when the request does not allow one.
EntersCopies(c, n, req) ==
    \E p \in 0..(n - 1) : GetJumpTarget(c, n, p) /\ Target(c, p) = req.at

\* tolua_rebuild_chunk_with_insert_copy and, after it, the loop of
\* tolua_convert_bytecode_inplace, which takes the prototype again.  A
\* refusal ends the conversion and leaves the request behind.
Rebuild ==
    /\ status = "patch" /\ request.active
    /\ IF request.at > numbc \/ (EntersCopies(code, numbc, request) /\ ~request.allow)
       THEN status' = "layout" /\ UNCHANGED <<code, numbc, request>>
       ELSE /\ code' = Rebuilt(code, numbc, request)
            /\ numbc' = numbc + request.count
            /\ request' = NoRequest
            /\ UNCHANGED status

Next == \/ \E at \in 0..numbc, count \in 1..MaxCopies, allow \in BOOLEAN :
              Schedule(at, count, allow)
        \/ Rebuild

Spec == Init /\ [][Next]_vars

-----------------------------------------------------------------------------
(* Properties.                                                             *)

\* The variables have their types, and numbc is the number of instructions.
TypeOK == /\ numbc \in NumIns..MaxSize
          /\ code \in [0..(numbc - 1) -> Instruction]
          /\ request \in {NoRequest} \cup Request
          /\ request.active => request.at <= numbc /\ numbc + request.count <= MaxSize
          /\ status \in {"patch", "layout"}

Positions == 0..(numbc - 1)
IsCopy(p) == code[p].kind = "copy"

\* p leads to the original instruction i, through nothing but copies.
LeadsTo(p, i) ==
    \E q \in Positions : /\ p <= q /\ code[q].id = i
                         /\ \A r \in p..(q - 1) : IsCopy(r)

\* However often copies are inserted, every jump still leads to the
\* instruction it led to in the compiled prototype, as long as the prototype
\* is no longer than the distance a jump can reach.
JumpsArrive ==
    numbc <= JumpBias =>
        \A p \in Positions : code[p].kind = "jmp" =>
            Target(code, p) \in Positions /\ LeadsTo(Target(code, p), code[p].goal)

\* Nothing jumps past a copy: a jump that leads to an instruction runs all
\* the copies that were put in front of it, whenever they were.
NoCopyBypassed ==
    numbc <= JumpBias =>
        \A p \in Positions : code[p].kind = "jmp" /\ Target(code, p) > 0 =>
            ~IsCopy(Target(code, p) - 1)

\* The instructions of the compiled prototype are all there, in their order.
OriginalsInOrder ==
    /\ \A i \in Originals : \E p \in Positions : code[p].id = i
    /\ \A p, q \in Positions :
          p < q /\ ~IsCopy(p) /\ ~IsCopy(q) => code[p].id < code[q].id

\* Every ISNEXT leads to the ITERN of its loop, whose opcode it changes at run
\* time: what tolua_prepare_proto_bytecode and tolua_resolve_proto_op demand of
\* a prototype.  The code breaks it where it inserts copies between the two.
IsnextFindsItern ==
    \A p \in Positions : code[p].kind = "isnext" =>
        Target(code, p) \in Positions /\ code[Target(code, p)].kind = "itern"

\* That is the only way: an ISNEXT finds the ITERN of its own loop as long as no
\* copy stands between the two, wherever else copies are inserted.
IsnextStaysClose ==
    \A p, q \in Positions :
        /\ code[p].kind = "isnext" /\ code[q].id = code[p].goal
        /\ \A r \in (p + 1)..(q - 1) : ~IsCopy(r)
        => Target(code, p) = q

\* The inductive invariant: only jumps and ISNEXT have goals, and copies are
\* not instructions of the compiled prototype.
Ghosts ==
    \A p \in Positions : /\ code[p].goal # -1 <=> code[p].kind \in {"jmp", "isnext"}
                         /\ code[p].id = -1 <=> IsCopy(p)

\* ISNEXT stands before its ITERN and never jumps past it.
IsnextShort ==
    \A p, q \in Positions : code[p].kind = "isnext" /\ code[q].id = code[p].goal =>
        p < q /\ Target(code, p) <= q

IInv == /\ TypeOK
        /\ Ghosts
        /\ JumpsArrive
        /\ NoCopyBypassed
        /\ OriginalsInOrder
        /\ IsnextStaysClose
        /\ IsnextShort
=============================================================================
