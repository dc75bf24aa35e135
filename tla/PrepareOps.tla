------------------------------ MODULE PrepareOps ------------------------------
(***************************************************************************)
(* The instructions of one prototype before their registers are rewritten  *)
(* (src/tolua_fr1_to_fr2.c): opcodes of version 1 are renamed, and what    *)
(* the converter cannot carry over to FR2 is downgraded or refused.        *)
(*                                                                         *)
(* A call or vararg with open results (b = 0) leaves any number of values  *)
(* from its base a on, and the instruction behind it consumes them all:    *)
(* CALLM and CALLMT pass c arguments and these, RETM returns c values and  *)
(* these, TSETM stores these.  The conversion gives a call with such       *)
(* arguments a fixed number, the first of the open results included.       *)
(*                                                                         *)
(* There are three paths: "window" for version 1 to FR2, "register" for    *)
(* version 2 to FR2, "rename" for version 1 to FR1.                        *)
(***************************************************************************)
EXTENDS Integers, Sequences

CONSTANTS MaxCode,    \* bound: instructions
          MaxBase,    \* bound: the base of a call
          MaxFixed,   \* bound: fixed arguments
          MaxC        \* BCMAX_C

VARIABLES path,     \* how the chunk is converted
          source,   \* the instructions as the compiler emitted them
          code,     \* the instructions in the buffer
          renamed,  \* history: how often each opcode was renamed
          pc,       \* the instruction that the loop is at
          phase     \* "compile"; "remap", "prepare", "collect", "resolve",
                    \* the loops over the instructions; "ok", "refused"

vars == <<path, source, code, renamed, pc, phase>>

Paths == {"window", "register", "rename"}
Ops == {"CALL", "CALLT", "VARG", "CALLM", "CALLMT", "RETM", "TSETM", "UCLO",
        "ISNEXT", "JMP", "ITERN", "ITERC", "MOV", "FOREIGN"}

\* b is 0 for open results and 2 for one; to is where a jump goes.  Bound: of
\* the instructions that have nothing to do with open results, one each.  FOREIGN
\* is an opcode that the converter does not know.
Ins(op, a, b, c, to) == [op |-> op, a |-> a, b |-> b, c |-> c, to |-> to]
Bases  == 0..MaxBase
Counts == 0..(MaxFixed + 2)
Instructions ==
    {Ins(op, a, b, c, 0) : op \in {"CALL", "CALLM"}, a \in Bases, b \in {0, 2}, c \in Counts}
    \cup {Ins(op, a, 2, c, 0) : op \in {"CALLT", "CALLMT", "RETM"}, a \in Bases, c \in Counts}
    \cup {Ins("VARG", a, b, 0, 0) : a \in Bases, b \in {0, 2}}
    \cup {Ins("TSETM", a, 2, 0, 0) : a \in Bases}
    \cup {Ins(op, 0, 2, 0, to) : op \in {"UCLO", "ISNEXT", "JMP"}, to \in 1..MaxCode}
    \cup {Ins(op, 0, 2, 0, 0) : op \in {"ITERN", "ITERC", "MOV", "FOREIGN"}}

TakesOpen(ins) == ins.op \in {"CALLM", "CALLMT", "RETM", "TSETM"}
GivesOpen(ins) == ins.op \in {"CALL", "CALLM", "VARG"} /\ ins.b = 0

\* The instruction that produces the open results that i consumes.
Producer(prog, i) == IF prog[i - 1].op = "UCLO" THEN i - 2 ELSE i - 1

Init == /\ path \in Paths
        /\ source = <<>> /\ code = <<>> /\ renamed = <<>>
        /\ pc = 1 /\ phase = "compile"

\* The compiler emits ins at n.  It consumes open results at once, or behind a
\* UCLO to the next instruction before a return; the fixed arguments lie below
\* them; and an ISNEXT jumps ahead to an ITERN.
Compiles(n, ins) ==
    LET open == n > 1 /\ GivesOpen(source[n - 1])
        closed == n > 2 /\ source[n - 1].op = "UCLO" /\ GivesOpen(source[n - 2])
        entered == \E i \in 1..(n - 1) : source[i].op = "ISNEXT" /\ source[i].to = n
    IN /\ ins.op \notin {"JMP", "ITERC"}
       /\ ins.op = "ITERN" <=> entered
       /\ open => TakesOpen(ins) \/ ins.op = "UCLO"
       /\ closed => ins.op \in {"CALLMT", "RETM"}
       /\ TakesOpen(ins) => open \/ closed
       /\ n > 1 => source[n - 1].op \notin {"CALLT", "CALLMT", "RETM"}
       /\ ins.op = "UCLO" => open /\ ins.to = n + 1
       /\ ins.op = "ISNEXT" => ins.to > n
       /\ ins.op \in {"CALL", "CALLT"} => ins.c \in 1..2
       /\ ins.op = "CALLT" \/ (ins.op \in {"CALL", "VARG"} /\ ins.b = 2) => ins.a = 0 /\ ins.c < 2
       /\ TakesOpen(ins) => ins.c <= MaxFixed
       /\ TakesOpen(ins) =>
             LET base == source[IF closed THEN n - 2 ELSE n - 1].a
             IN base = CASE ins.op \in {"CALLM", "CALLMT"} -> ins.a + 1 + ins.c
                         [] ins.op = "RETM"  -> ins.a + ins.c
                         [] ins.op = "TSETM" -> ins.a

Emit(ins) ==
    /\ phase = "compile" /\ Len(source) < MaxCode
    /\ Compiles(Len(source) + 1, ins)
    /\ source' = Append(source, ins)
    /\ UNCHANGED <<path, code, renamed, pc, phase>>

\* The prototype is complete and its conversion starts.
Start ==
    /\ phase = "compile" /\ source # <<>>
    /\ ~GivesOpen(source[Len(source)]) /\ source[Len(source)].op # "UCLO"
    /\ \A i \in DOMAIN source : source[i].to <= Len(source)
    /\ code' = source /\ renamed' = [i \in DOMAIN source |-> 0]
    /\ phase' = IF path = "window" THEN "remap" ELSE "prepare"
    /\ UNCHANGED <<path, source, pc>>

-----------------------------------------------------------------------------
Refuse == phase' = "refused" /\ UNCHANGED <<code, pc>>
Turn(n, next) ==
    IF n < Len(code) THEN pc' = n + 1 /\ UNCHANGED phase ELSE pc' = 1 /\ phase' = next

\* The first loop of tolua_patch_proto_v1_fr2.
RemapIns ==
    /\ phase = "remap"
    /\ IF code[pc].op = "FOREIGN" THEN Refuse /\ UNCHANGED renamed
       ELSE /\ renamed' = [renamed EXCEPT ![pc] = @ + 1]
            /\ Turn(pc, "prepare") /\ UNCHANGED code
    /\ UNCHANGED <<path, source>>

\* tolua_can_collapse_multires_v1
CanCollapse(prog, n) ==
    \E i \in 1..(n - 1) :
        /\ prog[i].op \in {"CALL", "VARG"}
        /\ \A k \in (i + 1)..(n - 1) : prog[k].op = "UCLO" /\ prog[k].to = n

\* tolua_collapse_multires_producer: what the program is with one result of
\* the producer, or <<>> if the producer does not allow that.
Collapsed(prog, n) ==
    LET i == Producer(prog, n)
    IN IF /\ n > 1 /\ i >= 1
          /\ prog[n - 1].op = "UCLO" => prog[n - 1].to = n
          /\ prog[i].op \in {"CALL", "VARG"}
       THEN [prog EXCEPT ![i].b = 2]
       ELSE <<>>

\* Faulty variant: the open result is not counted.
DowngradedShort(ins) ==
    [ins EXCEPT !.op = IF @ = "CALLM" THEN "CALL" ELSE "CALLT", !.b = 2, !.c = @ + 1]

\* A call with one open result as its last argument.  Its own open results
\* become one.
Downgraded(ins) ==
    [ins EXCEPT !.op = IF @ = "CALLM" THEN "CALL" ELSE "CALLT", !.b = 2, !.c = @ + 2]

\* The window path leaves a call alone that has one fixed argument, or none,
\* or no producer that it knows.
Downgrades(prog, n) ==
    /\ prog[n].op \in {"CALLM", "CALLMT"}
    /\ IF path = "window" THEN prog[n].c > 1 /\ CanCollapse(prog, n)
       ELSE path = "register" /\ prog[n].c > 0

\* The arguments do not fit.  What CALLT can count, BCMAX_D, is out of reach:
\* CALLMT's own count is taken from a byte.
TooMany(ins) == ins.op = "CALLM" /\ ins.c + 2 > MaxC

\* FR2 has no specialized loop over a table.
PlainOp(op) == CASE op = "ISNEXT" -> "JMP" [] op = "ITERN" -> "ITERC" [] OTHER -> op

\* One turn of tolua_prepare_proto_bytecode, or of the second loop of
\* tolua_patch_proto_v1_fr2.
PrepareIns ==
    /\ phase = "prepare"
    /\ LET ins == code[pc]
           collapsed == Collapsed(code, pc)
           next == CASE path = "window" -> "ok"
                     [] path = "register" -> "collect"
                     [] OTHER -> "resolve"
       IN IF ins.op = "FOREIGN" THEN Refuse
          ELSE IF Downgrades(code, pc)
          THEN IF TooMany(ins) \/ collapsed = <<>> THEN Refuse
               ELSE code' = [collapsed EXCEPT ![pc] = Downgraded(ins)] /\ Turn(pc, next)
          ELSE IF path = "register" /\ ins.op = "ISNEXT"
                  /\ (ins.to \notin DOMAIN code \/ code[ins.to].op \notin {"ITERN", "ITERC"})
          THEN Refuse
          ELSE /\ code' = IF path = "register" THEN [code EXCEPT ![pc].op = PlainOp(@)] ELSE code
               /\ Turn(pc, next)
    /\ renamed' = IF path = "rename" /\ phase' # "refused"
                  THEN [renamed EXCEPT ![pc] = @ + 1] ELSE renamed
    /\ UNCHANGED <<path, source>>

\* tolua_collect_proto_holes
Collect ==
    /\ phase = "collect"
    /\ phase' = IF \E i \in DOMAIN code : code[i].op \in {"CALLM", "CALLMT", "RETM"}
                THEN "refused" ELSE "resolve"
    /\ UNCHANGED <<path, source, code, renamed, pc>>

\* Faulty variant: only the producer looks for its consumer.
PairedForward(prog, n) ==
    GivesOpen(prog[n]) =>
        n < Len(prog) /\ prog[n + 1].op = "TSETM" /\ prog[n + 1].a = prog[n].a

\* tolua_validate_open_tsetm_pair, as tolua_validate_proto_ins calls it.
Paired(prog, n) ==
    /\ GivesOpen(prog[n]) =>
           n < Len(prog) /\ prog[n + 1].op = "TSETM" /\ prog[n + 1].a = prog[n].a
    /\ prog[n].op = "TSETM" =>
           n > 1 /\ GivesOpen(prog[n - 1]) /\ prog[n - 1].a = prog[n].a

\* Faulty variant: the opcodes are renamed once more.
ResolveInsRenaming ==
    /\ phase = "resolve"
    /\ IF path = "register" /\ ~Paired(code, pc) THEN Refuse
       ELSE Turn(pc, "ok") /\ UNCHANGED code
    /\ renamed' = IF path = "rename" THEN [renamed EXCEPT ![pc] = @ + 1] ELSE renamed
    /\ UNCHANGED <<path, source>>

\* One turn of tolua_patch_proto_bytecode, as far as opcodes are concerned:
\* what is prepared is not renamed again.
ResolveIns ==
    /\ phase = "resolve"
    /\ IF path = "register" /\ ~Paired(code, pc) THEN Refuse
       ELSE Turn(pc, "ok") /\ UNCHANGED code
    /\ UNCHANGED <<path, source, renamed>>

Next == \/ \E ins \in Instructions : Emit(ins)
        \/ Start \/ RemapIns \/ PrepareIns \/ Collect \/ ResolveIns

Spec == Init /\ [][Next]_vars

-----------------------------------------------------------------------------
(* Properties.                                                             *)

\* The variables have their types.
TypeOK == /\ path \in Paths
          /\ source \in Seq(Instructions) /\ code \in Seq(Instructions)
          /\ Len(code) \in {0, Len(source)} /\ Len(renamed) = Len(code)
          /\ pc \in 1..MaxCode + 1
          /\ phase \in {"compile", "remap", "prepare", "collect", "resolve", "ok", "refused"}

\* The registers that instruction i consumes when an open producer produces
\* one value.
Consumed(prog, i) ==
    LET ins == prog[i]
    IN CASE ins.op \in {"CALL", "CALLT"}   -> (ins.a + 1)..(ins.a + ins.c - 1)
         [] ins.op \in {"CALLM", "CALLMT"} -> ((ins.a + 1)..(ins.a + ins.c)) \cup {prog[Producer(prog, i)].a}
         [] ins.op = "RETM"  -> (ins.a..(ins.a + ins.c - 1)) \cup {prog[Producer(prog, i)].a}
         [] ins.op = "TSETM" -> {prog[Producer(prog, i)].a}
         [] OTHER -> {}

\* Whatever is downgraded, every call gets the arguments that it got in the
\* source, in the same registers, if each open producer produces one value:
\* of several, the first is passed and the others are lost.
FirstResultPassed == \A i \in DOMAIN code : Consumed(code, i) = Consumed(source, i)

\* In a prototype that is accepted with a register map, open results are
\* consumed at once by a TSETM and by nothing else, and every TSETM has open
\* results to consume, even where a call between has been downgraded.  What
\* consumes open results on the other paths finds how many there are: the
\* instruction that produces them is a call, which counts its results even
\* when it is asked for one, or a vararg that is still open.
OpenResultsPaired ==
    phase = "ok" => \A i \in DOMAIN code :
        /\ path = "register" /\ GivesOpen(code[i]) => i < Len(code) /\ code[i + 1].op = "TSETM"
        /\ path = "register" /\ TakesOpen(code[i]) => i > 1 /\ GivesOpen(code[i - 1])
        /\ TakesOpen(code[i]) =>
               LET p == code[Producer(code, i)]
               IN p.op = "CALL" \/ GivesOpen(p)

\* Every opcode of version 1 has been renamed once, and no other one.
RenamedOnce ==
    phase = "ok" => \A i \in DOMAIN code : renamed[i] = IF path = "register" THEN 0 ELSE 1
=============================================================================
