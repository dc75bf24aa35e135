------------------------------- MODULE ShiftMap -------------------------------
(***************************************************************************)
(* The register shift of the FR1 to FR2 converter                          *)
(* (src/tolua_fr1_to_fr2.c, tolua_bcshift_map).                            *)
(*                                                                         *)
(* In LuaJIT's two-slot frames (FR2) the frame link of a call takes a slot *)
(* of its own after the called function, so a call with base A finds its   *)
(* arguments from A + 2 on instead of A + 1.  The converter opens a hole   *)
(* after the base of every call of a prototype: a register moves up by the *)
(* number of call bases below it.                                          *)
(***************************************************************************)
EXTENDS Integers, FiniteSets

CONSTANT MaxA     \* BCMAX_A, the largest register an instruction can name

ASSUME MaxAAssumption == MaxA \in Nat

Regs == 0..MaxA

\* Faulty variant: a register is moved by the hole at itself, too.
PrefixInclusive(holes, r) == Cardinality({h \in holes : h <= r})

\* tolua_build_shift_map: prefix[r], the number of holes below r.
Prefix(holes, r) == Cardinality({h \in holes : h < r})

\* tolua_map_reg, which answers only when the register Fits.
MapReg(holes, r) == r + Prefix(holes, r)
Fits(holes, r) == MapReg(holes, r) <= MaxA

\* tolua_find_range_hole: a hole in first .. last - 1.
RangeHole(holes, first, last) == \E h \in holes : first <= h /\ h < last

\* tolua_find_closed_range_hole: a hole in first .. last.
ClosedRangeHole(holes, first, last) == RangeHole(holes, first, last + 1)
=============================================================================
