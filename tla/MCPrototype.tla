----------------------------- MODULE MCPrototype -----------------------------
(***************************************************************************)
(* What happens to one prototype, each stage by itself: its instructions   *)
(* are prepared (PrepareOps), its registers repacked (Repack), or copies   *)
(* inserted into it (InsertCopies).  A behaviour is one of one stage; the  *)
(* other two rest in a state in which they do nothing.                     *)
(***************************************************************************)
EXTENDS InsertCopies

CONSTANTS MaxCode, MaxBase, MaxFixed, MaxC,           \* of PrepareOps
          MaxA, NumLocals, MaxOperands, MaxSource     \* of Repack

ASSUME PrototypeAssumption ==
    /\ MaxCode \in Nat /\ MaxBase \in Nat /\ MaxFixed \in Nat /\ MaxC \in Nat
    /\ MaxA \in Nat /\ NumLocals \in Nat /\ MaxOperands \in Nat /\ MaxSource \in Nat

VARIABLES path, emitted, prepared, renamed, pc, step,
          source, operands, loop, repacked, framesize, phase, turn, faults, at, agree

Prepare == INSTANCE PrepareOps WITH source <- emitted, code <- prepared, phase <- step
Repacked == INSTANCE Repack WITH code <- repacked

preparing == <<path, emitted, prepared, renamed, pc, step>>
repacking == <<source, operands, loop, repacked, framesize, phase, turn, faults, at, agree>>

InsertRests  == code = <<>> /\ numbc = 0 /\ request = NoRequest /\ status = "layout"
PrepareRests == /\ path = "rename" /\ emitted = <<>> /\ prepared = <<>>
                /\ renamed = <<>> /\ pc = 1 /\ step = "ok"
RepackRests  == /\ source = <<>> /\ operands = 0 /\ loop = 0 /\ repacked = <<>>
                /\ framesize = 0 /\ phase = "done" /\ turn = 0 /\ faults = {}
                /\ at = <<1, 1>> /\ agree = {}

MCInit == \/ Init /\ PrepareRests /\ RepackRests
          \/ Prepare!Init /\ InsertRests /\ RepackRests
          \/ Repacked!Init /\ InsertRests /\ PrepareRests

\* The guards only spare TLC the other stages.
MCNext == \/ status = "patch" /\ Next /\ UNCHANGED <<preparing, repacking>>
          \/ step # "ok" /\ Prepare!Next /\ UNCHANGED <<vars, repacking>>
          \/ phase # "done" /\ Repacked!Next /\ UNCHANGED <<vars, preparing>>

\* The fairness of Repack.
MCSpec == MCInit /\ [][MCNext]_<<vars, preparing, repacking>> /\ WF_turn(Repacked!Turns)

-----------------------------------------------------------------------------
(* Properties of PrepareOps and Repack, which are stated there.            *)

\* Every call gets the arguments that it got in the source.
FirstResultPassed == Prepare!FirstResultPassed

\* Open results are consumed, and what consumes open results finds some.
OpenResultsPaired == Prepare!OpenResultsPaired

\* Every opcode of version 1 has been renamed once, and no other one.
RenamedOnce == Prepare!RenamedOnce

\* After repacking, every instruction reads the values that it read before.
ValuesKept == Repacked!ValuesKept

\* Repacking comes to an end, unless a call was moved along.
RepackEndsUncarried == Repacked!RepackEndsUncarried
=============================================================================
