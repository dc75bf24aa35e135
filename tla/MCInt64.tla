------------------------------- MODULE MCInt64 -------------------------------
(* Int64 with words of six bits, and MathfPowers for every argument up to the *)
(* distance of the smearing.                                                  *)
EXTENDS Int64, MathfPowers

SmearOfHalf == <<4, 2, 1>>    \* they reach eight of sixteen bits

\* Numbers in both readings, one that is too large and one text that is none.
ShortTexts == {<<"-", "3">>, <<"0", "x", "3", "f">>, <<"2", "2", "2">>, <<"f">>}

VARIABLE word

\* How many bits the smearing fills, and the largest argument that has no
\* more of them and whose answer is no more than the largest power.
Reach == TwoTo[Len(Smear)]
Limit == TwoTo[IF Reach < Sign THEN Reach ELSE Sign - 1]

MCInit == IntInit /\ word = 0
MCNext ==
    \/ word = 0 /\ IntNext /\ UNCHANGED word
    \/ /\ NoInteger /\ text = <<>> /\ word < Limit
       /\ word' = word + 1
       /\ UNCHANGED intVars
MCSpec == MCInit /\ [][MCNext]_<<intVars, word>>

\* NextPowerOfTwo answers the least power of two that is not less, and
\* ClosestPowerOfTwo the closest one, for every argument up to 2 ^ 32, or 2 ^ 30
\* where lua_Integer has 32 bits; the smearing does not reach the low bits of a
\* larger one.
PowersFound ==
    LET powers == {TwoTo[e] : e \in 0..(Sign - 1)}
    IN word \in 1..Limit =>
        /\ NextPowerOfTwo(word) \in powers
        /\ \A q \in powers : q >= word => NextPowerOfTwo(word) <= q
        /\ NextPowerOfTwo(word) >= word
        /\ \A q \in powers : Abs(ClosestPowerOfTwo(word) - word) <= Abs(q - word)
=============================================================================
