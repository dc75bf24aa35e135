----------------------------- MODULE MathfPowers -----------------------------
(***************************************************************************)
(* Mathf.NextPowerOfTwo and Mathf.ClosestPowerOfTwo (src/tolua.c), which   *)
(* fill the bits below the highest one of an integer.                      *)
(***************************************************************************)
EXTENDS Integers, Sequences

CONSTANTS IntBits,    \* of lua_Integer: 64, or 32 on a processor of 32 bits
          Smear       \* the shifts of the smearing: 16, 8, 4, 2, 1

Bits == 0..(IntBits - 1)
Sign == IntBits - 1

TwoTo[n \in 0..IntBits] == IF n = 0 THEN 1 ELSE 2 * TwoTo[n - 1]

\* The shifts are powers of two, each half of the one before it.
ASSUME MathfAssumption ==
    /\ IntBits \in Nat /\ IntBits > 1
    /\ Smear \in Seq(Nat) /\ Len(Smear) < IntBits
    /\ \A i \in DOMAIN Smear : Smear[i] = TwoTo[Len(Smear) - i]

\* The bits of an integer and the integer of some bits, which is negative if
\* the sign is among them.
BitsOf(v) == {b \in Bits : (v \div TwoTo[b]) % 2 = 1}
ValueOf(bits) ==
    LET sum[n \in 0..Sign] ==
            IF n = 0 THEN 0 ELSE sum[n - 1] + (IF n - 1 \in bits THEN TwoTo[n - 1] ELSE 0)
    IN IF Sign \in bits THEN sum[Sign] - TwoTo[Sign] ELSE sum[Sign]

\* >> fills with the sign.
Shifted(bits, s) == {b \in Bits : b + s \in bits \/ (b + s > Sign /\ Sign \in bits)}

\* v |= v >> s for every shift.
Smeared(v) ==
    LET spread[i \in 0..Len(Smear)] ==
            IF i = 0 THEN BitsOf(v) ELSE spread[i - 1] \cup Shifted(spread[i - 1], Smear[i])
    IN spread[Len(Smear)]

\* v + 1, which wraps.
Succ(v) == IF v + 1 = TwoTo[Sign] THEN -TwoTo[Sign] ELSE v + 1

\* Faulty variant: v itself is smeared.
NextOfPower(v) == Succ(ValueOf(Smeared(v)))

NextPowerOfTwo(v) == Succ(ValueOf(Smeared(v - 1)))

\* mathf_closestpoweroftwo
ClosestPowerOfTwo(v) ==
    LET next == NextPowerOfTwo(v)
        prev == next \div 2
    IN IF v - prev < next - v THEN prev ELSE next
=============================================================================
