-------------------------------- MODULE Int64 --------------------------------
(***************************************************************************)
(* The 64-bit integers that scripts compute with (src/int64.c and          *)
(* src/uint64.c): a userdata is a word and its metatable says whether it   *)
(* is an int64 or a uint64.  A script that works with integers of one kind *)
(* makes one from a text or from two halves and goes on computing with it. *)
(*                                                                         *)
(* A word has two halves, and a text is a sequence of characters.  One     *)
(* space stands for all of them, and the letters of hexadecimal numbers    *)
(* and the x before them are the lower case ones.                          *)
(***************************************************************************)
EXTENDS Integers, Sequences, SequencesExt

CONSTANTS HalfModulus,    \* the number of values of half a word: 2^32
          Chars,          \* the characters that texts are made of
          MaxText,        \* bound: characters of a text
          Operands,       \* bound: the words that second operands have
          OperandTexts    \* bound: the texts that second operands are

Modulus == HalfModulus * HalfModulus
Half    == Modulus \div 2
Words   == 0..(Modulus - 1)
Kinds   == {"int64", "uint64"}

DigitChars == <<"0", "1", "2", "3", "4", "5", "6", "7", "8", "9",
                "a", "b", "c", "d", "e", "f">>
DigitsOf(base) == {DigitChars[i] : i \in 1..base}
Space == " "
Minus == "-"
Plus  == "+"

ASSUME Int64Assumption ==
    /\ HalfModulus \in Nat \ {0} /\ HalfModulus % 2 = 0
    /\ Chars \subseteq DigitsOf(16) \cup {Space, Minus, Plus, "x"} /\ MaxText \in Nat
    /\ Operands \subseteq Words /\ OperandTexts \subseteq Seq(Chars)

\* The integer that a word of kind k stands for.
Value(k, n) == IF k = "int64" /\ n >= Half THEN n - Modulus ELSE n

VARIABLES kind,      \* of the integers that the script makes
          text,      \* what the script hands to int64.new or uint64.new
          acc,       \* the script's integer: kind "none" before it has one
          exact,     \* history: the word it should be
          notAbove,  \* history: a difference of unsigned ones was not positive
          fault      \* "none", or the error that has stopped the script;
                     \* "trap" when the processor stops the program

intVars == <<kind, text, acc, exact, notAbove, fault>>

-----------------------------------------------------------------------------
(* Texts.                                                                  *)

Digit(c) == (CHOOSE i \in DOMAIN DigitChars : DigitChars[i] = c) - 1

Magnitude(digits, base) ==
    LET m[i \in 0..Len(digits)] == IF i = 0 THEN 0 ELSE m[i - 1] * base + Digit(digits[i])
    IN m[Len(digits)]

\* The first place from i on where s has no member of cs.
Behind(s, i, cs) == CHOOSE e \in i..(Len(s) + 1) :
    /\ \A j \in i..(e - 1) : s[j] \in cs
    /\ e <= Len(s) => s[e] \notin cs

\* The first digit of a number whose sign is read, behind the prefix if any.
FirstDigit(s, i, base) ==
    IF base = 16 /\ i + 2 <= Len(s) /\ s[i] = "0" /\ s[i + 1] = "x" /\ s[i + 2] \in DigitsOf(16)
    THEN i + 2 ELSE i

\* The nearest word of kind k, and whether errno says ERANGE.
Clamped(k, neg, mag, end) ==
    CASE k = "int64" /\ neg /\ mag > Half   -> [end |-> end, n |-> Half, range |-> TRUE]
      [] k = "int64" /\ ~neg /\ mag >= Half -> [end |-> end, n |-> Half - 1, range |-> TRUE]
      [] k = "uint64" /\ mag >= Modulus     -> [end |-> end, n |-> Modulus - 1, range |-> TRUE]
      [] OTHER -> [end |-> end, n |-> (IF neg THEN -mag ELSE mag) % Modulus, range |-> FALSE]

Scanned(k, s, base, neg, first) ==
    LET end == Behind(s, first, DigitsOf(base))
    IN IF end = first THEN [end |-> 1, n |-> 0, range |-> FALSE]
       ELSE Clamped(k, neg, Magnitude(SubSeq(s, first, end - 1), base), end)

SignRead(k, s, base, i) ==
    IF i <= Len(s) /\ s[i] \in {Minus, Plus}
    THEN Scanned(k, s, base, s[i] = Minus, FirstDigit(s, i + 1, base))
    ELSE Scanned(k, s, base, FALSE, FirstDigit(s, i, base))

\* strtoll and strtoull: where the number ends (at 1 if there is none), the
\* word, and whether it was too large.
Strto(k, s, base) == SignRead(k, s, base, Behind(s, 1, {Space}))

\* The hexadecimal reading counts if the decimal one ends at an x; ok says
\* that the text is a number, range that errno is left at ERANGE.
Judged(s, dec, hex) ==
    LET isHex == dec.end <= Len(s) /\ s[dec.end] = "x"
    IN [ok    |-> dec.end # 1 /\ Behind(s, IF isHex THEN hex.end ELSE dec.end, {Space}) > Len(s),
        n     |-> IF isHex THEN hex.n ELSE dec.n,
        range |-> dec.range \/ (isHex /\ hex.range)]

\* Faulty variant: the hexadecimal digits are read as signed ones, too.
ParsedSigned(k, s) == Judged(s, Strto(k, s, 10), Strto(k, s, 16))

\* _str2long and _str2ulong: the word that a text stands for.
Parsed(k, s) == Judged(s, Strto(k, s, 10), Strto("uint64", s, 16))

\* The decimal digits of m.
Decimal[m \in 0..Modulus] ==
    IF m < 10 THEN <<DigitChars[m + 1]>>
    ELSE Append(Decimal[m \div 10], DigitChars[(m % 10) + 1])

\* The digits that _int64tostring and _uint64tostring print for a word.
Printed(k, n) ==
    LET v == Value(k, n)
    IN IF v < 0 THEN <<Minus>> \o Decimal[-v] ELSE Decimal[v]

\* _int64tonum2 and _uint64tonum2, and the two numbers back in a new integer.
ToHalves(n) == <<n % HalfModulus, n \div HalfModulus>>

\* Faulty variant: the halves in the other order.
FromHalvesSwapped(low, high) == (high + low * HalfModulus) % Modulus

FromHalves(low, high) == (low + high * HalfModulus) % Modulus

-----------------------------------------------------------------------------
(* Arithmetic.                                                             *)

Ops == {"add", "sub", "mul", "div", "mod", "pow"}

\* The error that tolua_checkint64 or tolua_checkuint64 raises for an
\* operand: a text may be no number or too large, and a value of another
\* type is no number.
Refusal(k, v) ==
    CASE v.kind = "string" -> LET p == Parsed(k, v.text)
                              IN IF ~p.ok THEN "no number" ELSE IF p.range THEN "large" ELSE "none"
      [] v.kind = "other"  -> "no number"
      [] OTHER             -> "none"

\* The left operand is checked first.
FirstRefusal(k, l, r) == IF Refusal(k, l) # "none" THEN Refusal(k, l) ELSE Refusal(k, r)

\* tolua_checkint64 and tolua_checkuint64 otherwise: an integer of the other
\* kind is taken for 0.
Checked(k, v) ==
    CASE v.kind \in {k, "number"} -> v.n
      [] v.kind = "string"        -> Parsed(k, v.text).n
      [] OTHER                    -> 0

\* The metamethods of the left operand are taken, if it is an integer.
MethodKind(l, r) == IF l.kind \in Kinds THEN l.kind ELSE r.kind

Abs(i) == IF i < 0 THEN -i ELSE i

\* The division of C rounds towards zero, the remainder fits it.
Quotient(i, j) == IF (i < 0) = (j < 0) THEN Abs(i) \div Abs(j) ELSE -(Abs(i) \div Abs(j))

Boxed(k, i) == [kind |-> k, n |-> i % Modulus]

\* Faulty variant: a positive difference is the one that becomes signed.
ComputedSwapped(op, k, i, j) ==
    CASE op = "add" -> Boxed(k, i + j)
      [] op = "sub" -> Boxed(IF k = "uint64" /\ i > j THEN "int64" ELSE k, i - j)
      [] op = "mul" -> Boxed(k, i * j)
      [] op = "div" -> Boxed(k, Quotient(i, j))
      [] op = "mod" -> Boxed(k, i - j * Quotient(i, j))

\* _int64add ... _int64mod and _uint64add ... _uint64mod: a difference of
\* unsigned ones that is not positive becomes an int64.
Computed(op, k, i, j) ==
    CASE op = "add" -> Boxed(k, i + j)
      [] op = "sub" -> Boxed(IF k = "uint64" /\ i <= j THEN "int64" ELSE k, i - j)
      [] op = "mul" -> Boxed(k, i * j)
      [] op = "div" -> Boxed(k, Quotient(i, j))
      [] op = "mod" -> Boxed(k, i - j * Quotient(i, j))

\* The second operands: an integer of the script's kind, a Lua number small
\* enough to be exact, a text, or a value of another type.
Seconds == [kind : {kind}, n : Operands] \cup [kind : {"number"}, n : Operands \cap 0..(HalfModulus - 1)]
           \cup [kind : {"string"}, text : OperandTexts] \cup {[kind |-> "other"]}

-----------------------------------------------------------------------------
IntInit ==
    /\ kind \in Kinds
    /\ text = <<>>
    /\ acc = [kind |-> "none", n |-> 0] /\ exact = 0
    /\ notAbove = FALSE /\ fault = "none"

NoInteger == acc.kind = "none" /\ fault = "none"

\* The text grows.
Type(c) ==
    /\ NoInteger /\ Len(text) < MaxText
    /\ text' = Append(text, c)
    /\ UNCHANGED <<kind, acc, exact, notAbove, fault>>

\* The integer that a text means as a whole, and whether it is one: spaces,
\* a sign, decimal digits or 0x and hexadecimal ones, and spaces.
Body(s) ==
    LET i == Behind(s, 1, {Space})
        j == Len(s) + 1 - Behind(Reverse(s), 1, {Space})
    IN SubSeq(s, i, j)
Negative(s) == s # <<>> /\ s[1] = Minus
Unsign(s) == IF s # <<>> /\ s[1] \in {Minus, Plus} THEN Tail(s) ELSE s
IsDecimal(s) == s # <<>> /\ ToSet(s) \subseteq DigitsOf(10)
IsHex(s) == /\ Len(s) > 2 /\ SubSeq(s, 1, 2) = <<"0", "x">>
            /\ ToSet(SubSeq(s, 3, Len(s))) \subseteq DigitsOf(16)
Meant(s) ==
    LET digits == Unsign(Body(s))
        mag == IF IsHex(digits) THEN Magnitude(SubSeq(digits, 3, Len(digits)), 16)
               ELSE Magnitude(digits, 10)
    IN IF Negative(Body(s)) THEN -mag ELSE mag

\* int64.new(text), uint64.new(text): _long and _ulong raise an error for a
\* text that is no number and for a number that is too large.
NewFromText ==
    /\ NoInteger
    /\ LET p == Parsed(kind, text)
       IN IF p.ok /\ ~p.range
          THEN /\ acc' = [kind |-> kind, n |-> p.n] /\ exact' = Meant(text) % Modulus
               /\ UNCHANGED fault
          ELSE /\ fault' = IF p.ok THEN "large" ELSE "no number"
               /\ UNCHANGED <<acc, exact>>
    /\ text' = <<>>
    /\ UNCHANGED <<kind, notAbove>>

\* int64.new(low, high), uint64.new(low, high).
NewFromHalves(low, high) ==
    /\ NoInteger /\ text = <<>>
    /\ IF {low, high} \subseteq 0..(HalfModulus - 1)
       THEN /\ acc' = [kind |-> kind, n |-> FromHalves(low, high)]
            /\ exact' = FromHalves(low, high)
            /\ UNCHANGED fault
       ELSE fault' = "range" /\ UNCHANGED <<acc, exact>>
    /\ UNCHANGED <<kind, text, notAbove>>

HasInteger == acc.kind # "none" /\ fault = "none"

\* The word that a second operand should be.
Exact(v) ==
    CASE v.kind = "string" -> IF Parsed(kind, v.text).ok THEN Meant(v.text) % Modulus ELSE 0
      [] v.kind = "other"  -> 0
      [] OTHER             -> v.n

\* The operands in either order, with what they should be.
Orders(v) == {<<acc, v, exact, Exact(v)>>, <<v, acc, Exact(v), exact>>}

\* The integer that i op j is.  A quotient comes with the remainder that has
\* the sign of i.
Truth(op, i, j) ==
    LET q == CHOOSE q \in -Modulus..Modulus :
                LET rest == i - q * j
                IN Abs(rest) < Abs(j) /\ (rest # 0 => (rest < 0) = (i < 0))
    IN CASE op = "add" -> i + j
         [] op = "sub" -> i - j
         [] op = "mul" -> i * j
         [] op = "div" -> q
         [] op = "mod" -> i - q * j

\* A metamethod is called.  The smallest int64 divided by -1 is undefined:
\* the processor traps or answers the smallest one again.
Operate(op, l, r, el, er) ==
    /\ HasInteger /\ op # "pow"
    /\ LET k == MethodKind(l, r)
           i == Value(k, Checked(k, l))
           j == Value(k, Checked(k, r))
           divides == op \in {"div", "mod"}
           refusal == FirstRefusal(k, l, r)
       IN \/ /\ refusal # "none"
             /\ fault' = refusal /\ UNCHANGED <<acc, exact, notAbove>>
          \/ /\ refusal = "none" /\ divides /\ j = 0
             /\ fault' = "zero" /\ UNCHANGED <<acc, exact, notAbove>>
          \/ /\ refusal = "none" /\ divides /\ k = "int64" /\ i = -Half /\ j = -1
             /\ fault' = "trap" /\ UNCHANGED <<acc, exact, notAbove>>
          \/ /\ refusal = "none" /\ (divides => j # 0)
             /\ acc' = Computed(op, k, i, j)
             /\ exact' = IF divides /\ er = 0 THEN 0
                         ELSE Truth(op, Value(kind, el), Value(kind, er)) % Modulus
             /\ notAbove' = (notAbove \/ (op = "sub" /\ kind = "uint64" /\ el <= er))
             /\ UNCHANGED fault
    /\ UNCHANGED <<kind, text>>

\* _int64pow and _uint64pow: pow of doubles, whose rounding is left open.
Power(l, r) ==
    /\ HasInteger
    /\ LET k == MethodKind(l, r)
           j == Value(k, Checked(k, r))
           refusal == FirstRefusal(k, l, r)
       IN IF refusal # "none" \/ j < 0
          THEN /\ fault' = IF refusal # "none" THEN refusal ELSE "negative"
               /\ UNCHANGED <<acc, exact>>
          ELSE /\ \E n \in IF j = 0 THEN {1} ELSE Words :
                      acc' = [kind |-> k, n |-> n] /\ exact' = n
               /\ UNCHANGED fault
    /\ UNCHANGED <<kind, text, notAbove>>

\* _int64unm and _uint64unm.
Negate ==
    /\ HasInteger
    /\ acc' = Boxed(acc.kind, -acc.n) /\ exact' = (-exact) % Modulus
    /\ UNCHANGED <<kind, text, notAbove, fault>>

IntNext ==
    \/ \E c \in Chars : Type(c)
    \/ NewFromText
    \/ \E low, high \in -1..HalfModulus : NewFromHalves(low, high)
    \/ \E v \in Seconds : \E o \in Orders(v) :
          \/ \E op \in Ops : Operate(op, o[1], o[2], o[3], o[4])
          \/ Power(o[1], o[2])
    \/ Negate

IntSpec == IntInit /\ [][IntNext]_intVars

-----------------------------------------------------------------------------
(* Properties.                                                             *)

\* The variables have their types.
IntTypeOK == /\ kind \in Kinds /\ text \in Seq(Chars) /\ Len(text) <= MaxText
             /\ acc \in [kind : Kinds \cup {"none"}, n : Words] /\ exact \in Words
             /\ notAbove \in BOOLEAN
             /\ fault \in {"none", "no number", "large", "range", "zero", "trap", "negative"}

\* However long a script computes with integers of one kind, it has the
\* right word of the right kind, up to a multiple of Modulus.  With unsigned
\* ones this holds until a difference is not positive: it is an int64, which
\* the next metamethod of uint64 takes for 0, and whose own metamethods take
\* the unsigned operand for 0.
ChainsExact ==
    acc.kind # "none" /\ ~notAbove => acc = [kind |-> kind, n |-> exact]

\* A text is accepted if and only if it is a number, as the word of that
\* number, and refused as too large if and only if the kind cannot hold it.
\* A hexadecimal number is held if it fits a word, whatever the kind, and a negative one is held as unsigned by its complement.
ParsedAsMeant ==
    LET p == Parsed(kind, text)
        digits == Unsign(Body(text))
        m == Meant(text)
    IN /\ p.ok <=> (IsDecimal(digits) \/ IsHex(digits))
       /\ p.ok => (p.range <=> IF kind = "int64" /\ IsDecimal(digits)
                               THEN m \notin -Half..(Half - 1)
                               ELSE Abs(m) >= Modulus)
       /\ p.ok /\ ~p.range => p.n = m % Modulus

\* What is printed for an integer, or taken apart into two numbers, makes the
\* same integer again.
RoundTrips ==
    acc.kind # "none" =>
        /\ Parsed(acc.kind, Printed(acc.kind, acc.n)) = [ok |-> TRUE, n |-> acc.n, range |-> FALSE]
        /\ FromHalves(ToHalves(acc.n)[1], ToHalves(acc.n)[2]) = acc.n
=============================================================================
