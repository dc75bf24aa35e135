-------------------------- MODULE Userdata_proofs --------------------------
(***************************************************************************)
(* Proofs about the userdata that scripts hold.                            *)
(*                                                                         *)
(* HostObjects, for any objects, slots and userdata: the invariant ties    *)
(* the three tables together, the cache, the number in each userdata and   *)
(* the host's map from objects to slots.                                   *)
(*                                                                         *)
(* Int64, for words of any size and texts of any length: what is read,     *)
(* computed and printed is the right integer.                              *)
(*                                                                         *)
(* MathfPowers, for integers of any number of bits: the powers of two that *)
(* are found are the nearest ones.                                         *)
(***************************************************************************)
EXTENDS HostObjects, MCInt64, SequenceTheorems, WellFoundedInduction, TLAPS

-----------------------------------------------------------------------------
(* HostObjects.                                                            *)

\* The cache and the userdata within reach are inverse to each other, and
\* such a userdata is the one its object's slot stands for.
CacheExact ==
    /\ \A i \in Indices : ubox[i] # None =>
          life[ubox[i]] = "live" /\ val[ubox[i]] = i
    /\ \A u \in Reachable :
          /\ val[u] \in Indices /\ madeFor[u] \in Objects
          /\ ubox[val[u]] = u
          /\ slot[val[u]] = madeFor[u]
          /\ indexOf[madeFor[u]] = val[u]

\* A slot belongs to one userdata that exists, from the push that took it
\* to the finalizer that gives it back.
SlotsOwned ==
    /\ \A u \in Userdata : life[u] # "none" =>
          val[u] \in Indices /\ val[u] \notin free /\ val[u] # pushing
    /\ \A u, v \in Userdata :
          life[u] # "none" /\ life[v] # "none" /\ val[u] = val[v] => u = v

\* The slot a push has taken holds its object and no userdata yet.
PushReady ==
    pushing # None =>
        /\ pushing \notin free
        /\ slot[pushing] \in Objects
        /\ indexOf[slot[pushing]] = pushing
        /\ ubox[pushing] = None

\* The host's two maps agree.
HostAgrees ==
    \A o \in Objects : indexOf[o] # None =>
        slot[indexOf[o]] = o /\ indexOf[o] \notin free

HeldLive == \A u \in held : life[u] = "live"

IInv == /\ TypeOK
        /\ CacheExact
        /\ SlotsOwned
        /\ PushReady
        /\ HostAgrees
        /\ HeldLive
        /\ NoSlotLeaks

LEMMA InitIInv == Init => IInv
  BY NoneAssumption DEF Init, Reachable, IInv, TypeOK, Lives, CacheExact, SlotsOwned, PushReady,
     HostAgrees, HeldLive, NoSlotLeaks

LEMMA PushAgainIInv ==
    ASSUME IInv, NEW o \in Objects, PushAgain(o)
    PROVE  IInv'
  BY NoneAssumption DEF PushAgain, Cached, Reachable, IInv, TypeOK, Lives, CacheExact, SlotsOwned,
     PushReady, HostAgrees, HeldLive, NoSlotLeaks

LEMMA TakeSlotIInv ==
    ASSUME IInv, NEW o \in Objects, TakeSlot(o)
    PROVE  IInv'
<1> USE NoneAssumption
<1>1. PICK i \in free :
          /\ free' = free \ {i}
          /\ slot' = [j \in Indices |-> IF j = i THEN o
                                        ELSE IF j = indexOf[o] THEN None
                                        ELSE slot[j]]
          /\ indexOf' = [indexOf EXCEPT ![o] = i]
          /\ pushing' = i
  BY DEF TakeSlot
<1>2. /\ pushing = None /\ ~Cached(o)
      /\ UNCHANGED <<ubox, life, held, val, madeFor, lost>>
  BY DEF TakeSlot
<1>3. i \in Indices /\ i # None /\ o # None
  BY DEF IInv, TypeOK
<1>4. TypeOK'
  BY <1>1, <1>2, <1>3 DEF IInv, TypeOK
<1>5. \A u \in Reachable : madeFor[u] # o
  BY <1>2 DEF IInv, TypeOK, CacheExact, Cached, Reachable
<1>6. \A u \in Userdata : life[u] # "none" => val[u] # i
  BY <1>1 DEF IInv, SlotsOwned
<1>7. ubox[i] = None
  BY <1>1, <1>3, <1>6 DEF IInv, TypeOK, CacheExact
<1>8. CacheExact'
  <2>1. Reachable' = Reachable
    BY <1>2 DEF Reachable
  <2>2. \A u \in Reachable : life[u] # "none"
    BY DEF IInv, TypeOK, Reachable, HeldLive, CacheExact
  <2> QED
    BY <1>1, <1>2, <1>3, <1>5, <1>6, <2>1, <2>2 DEF IInv, TypeOK, CacheExact, HostAgrees, Reachable
<1>9. SlotsOwned'
  BY <1>1, <1>2, <1>6 DEF IInv, TypeOK, SlotsOwned
<1>10. PushReady'
  BY <1>1, <1>2, <1>3, <1>7 DEF IInv, TypeOK, PushReady
<1>11. HostAgrees'
  BY <1>1, <1>2, <1>3 DEF IInv, TypeOK, HostAgrees
<1>12. HeldLive' /\ NoSlotLeaks'
  BY <1>1, <1>2 DEF IInv, HeldLive, NoSlotLeaks
<1> QED
  BY <1>4, <1>8, <1>9, <1>10, <1>11, <1>12 DEF IInv

LEMMA PushNewIInv ==
    ASSUME IInv, NEW u \in Userdata, PushNew(u)
    PROVE  IInv'
<1> USE NoneAssumption DEF PushNew
<1>1. TypeOK'
  BY DEF IInv, TypeOK, Lives
<1>2. CacheExact'
  <2>1. /\ u \notin Reachable /\ Reachable' = Reachable \cup {u}
        /\ \A w \in Reachable : w \in Userdata /\ life[w] # "none"
    BY DEF IInv, TypeOK, Reachable, HeldLive, CacheExact, PushReady
  <2> QED
    BY <2>1 DEF IInv, TypeOK, CacheExact, SlotsOwned, PushReady
<1>3. SlotsOwned'
  BY DEF IInv, TypeOK, SlotsOwned, PushReady
<1>4. PushReady' /\ HostAgrees' /\ HeldLive'
  BY DEF IInv, TypeOK, PushReady, HostAgrees, HeldLive
<1>5. NoSlotLeaks'
  BY DEF IInv, TypeOK, NoSlotLeaks
<1> QED
  BY <1>1, <1>2, <1>3, <1>4, <1>5 DEF IInv

\* A push without memory changes nothing but the books.
LEMMA PushStarvesIInv ==
    ASSUME IInv, PushStarves
    PROVE  IInv'
<1> USE NoneAssumption DEF PushStarves
<1>1. TypeOK'
  BY DEF IInv, TypeOK
<1>2. CacheExact' /\ SlotsOwned' /\ PushReady' /\ HostAgrees' /\ HeldLive'
  BY DEF IInv, TypeOK, CacheExact, Reachable, SlotsOwned, PushReady, HostAgrees, HeldLive
<1>3. NoSlotLeaks'
  BY DEF IInv, TypeOK, NoSlotLeaks
<1> QED
  BY <1>1, <1>2, <1>3 DEF IInv

\* A userdata that is not cached is out of reach and owns its slot.
LEMMA PushUncacheableIInv ==
    ASSUME IInv, NEW u \in Userdata, PushUncacheable(u)
    PROVE  IInv'
<1> USE NoneAssumption DEF PushUncacheable
<1>1. TypeOK'
  BY DEF IInv, TypeOK, Lives
<1>2. CacheExact'
  <2>1. /\ Reachable' = Reachable /\ u \notin Reachable
        /\ \A w \in Reachable : w \in Userdata
    BY DEF IInv, TypeOK, Reachable, HeldLive, CacheExact
  <2> QED
    BY <2>1 DEF IInv, TypeOK, CacheExact
<1>3. SlotsOwned'
  BY DEF IInv, TypeOK, SlotsOwned, PushReady
<1>4. PushReady' /\ HostAgrees' /\ HeldLive'
  BY DEF IInv, TypeOK, PushReady, HostAgrees, HeldLive
<1>5. NoSlotLeaks'
  BY DEF IInv, TypeOK, NoSlotLeaks
<1> QED
  BY <1>1, <1>2, <1>3, <1>4, <1>5 DEF IInv

LEMMA DropIInv ==
    ASSUME IInv, NEW u \in Userdata, Drop(u)
    PROVE  IInv'
  BY DEF Drop, Reachable, IInv, TypeOK, CacheExact, SlotsOwned, PushReady, HostAgrees, HeldLive,
     NoSlotLeaks

LEMMA SeparateIInv ==
    ASSUME IInv, NEW dead \in SUBSET Userdata, Separate(dead)
    PROVE  IInv'
<1> USE NoneAssumption DEF Separate
<1>1. TypeOK'
  BY DEF IInv, TypeOK, Lives
<1>2. CacheExact'
  <2>1. \A w \in Reachable' : w \in Reachable /\ w \notin dead
    BY DEF IInv, TypeOK, Reachable
  <2> QED
    BY <2>1 DEF IInv, TypeOK, CacheExact, Reachable
<1>3. SlotsOwned' /\ HeldLive'
  BY DEF IInv, TypeOK, SlotsOwned, HeldLive
<1>4. PushReady' /\ HostAgrees'
  BY DEF IInv, TypeOK, PushReady, HostAgrees
<1>5. NoSlotLeaks'
  BY DEF IInv, TypeOK, NoSlotLeaks
<1> QED
  BY <1>1, <1>2, <1>3, <1>4, <1>5 DEF IInv

LEMMA FinalizeIInv ==
    ASSUME IInv, NEW u \in Userdata, Finalize(u)
    PROVE  IInv'
<1> USE NoneAssumption DEF Finalize, RawNetObj
<1>1. val[u] \in Indices /\ val[u] # pushing /\ val[u] # None
  BY DEF IInv, TypeOK, SlotsOwned
<1>2. \A v \in Userdata : life[v] # "none" /\ v # u => val[v] # val[u]
  BY DEF IInv, SlotsOwned
<1>3. TypeOK'
  BY <1>1 DEF IInv, TypeOK, Lives
<1>4. CacheExact'
  <2>1. /\ Reachable' = Reachable
        /\ \A w \in Reachable : w \in Userdata /\ life[w] = "live"
    BY DEF IInv, TypeOK, Reachable, HeldLive, CacheExact
  <2> QED
    BY <1>1, <1>2, <2>1 DEF IInv, TypeOK, CacheExact, Reachable
<1>5. SlotsOwned' /\ HeldLive'
  BY <1>1, <1>2 DEF IInv, TypeOK, SlotsOwned, HeldLive
<1>6. PushReady' /\ HostAgrees'
  BY <1>1 DEF IInv, TypeOK, PushReady, HostAgrees
<1>7. NoSlotLeaks'
  BY <1>1, <1>2 DEF IInv, TypeOK, NoSlotLeaks
<1> QED
  BY <1>3, <1>4, <1>5, <1>6, <1>7 DEF IInv

\* The tables of the cache and of the host fit together in every state.
THEOREM Invariance == Spec => []IInv
<1>1. IInv /\ [Next]_vars => IInv'
  <2> SUFFICES ASSUME IInv, [Next]_vars PROVE IInv'
    OBVIOUS
  <2>1. CASE \E o \in Objects : PushAgain(o) \/ TakeSlot(o)
    BY <2>1, PushAgainIInv, TakeSlotIInv
  <2>2. CASE \E u \in Userdata : PushNew(u) \/ PushUncacheable(u) \/ Drop(u) \/ Finalize(u)
    BY <2>2, PushNewIInv, PushUncacheableIInv, DropIInv, FinalizeIInv
  <2>5. CASE PushStarves
    BY <2>5, PushStarvesIInv
  <2>3. CASE \E dead \in SUBSET Userdata : Separate(dead)
    BY <2>3, SeparateIInv
  <2>4. CASE UNCHANGED vars
    BY <2>4 DEF vars, IInv, TypeOK, CacheExact, Reachable, SlotsOwned, PushReady,
       HostAgrees, HeldLive, NoSlotLeaks
  <2> QED
    BY <2>1, <2>2, <2>3, <2>4, <2>5 DEF Next
<1> QED
  BY InitIInv, <1>1, PTL DEF Spec

\* One userdata for an object at a time (tolua_pushudata).
THEOREM OneUserdata == Spec => []OneUserdataPerObject
<1>1. IInv => OneUserdataPerObject
  BY DEF IInv, CacheExact, OneUserdataPerObject
<1> QED
  BY <1>1, Invariance, PTL

\* Userdata and object stay together (tolua_rawnetobj on a value in use).
THEOREM ObjectsReached == Spec => []LeadsToItsObject
<1>1. IInv => LeadsToItsObject
  BY DEF IInv, TypeOK, CacheExact, Reachable, LeadsToItsObject
<1> QED
  BY <1>1, Invariance, PTL

\* No slot is lost between push and finalizer.
THEOREM SlotsReturn == Spec => []NoSlotLeaks
<1>1. IInv => NoSlotLeaks
  BY DEF IInv
<1> QED
  BY <1>1, Invariance, PTL

\* The variables keep their types.
THEOREM TypeCorrect == Spec => []TypeOK
<1>1. IInv => TypeOK
  BY DEF IInv
<1> QED
  BY <1>1, Invariance, PTL

-----------------------------------------------------------------------------
(* Int64: words.                                                           *)

(* A word is made of two halves. *)
LEMMA WordSize ==
    /\ HalfModulus \in Nat /\ HalfModulus > 0
    /\ Modulus = HalfModulus * HalfModulus
    /\ Modulus \in Nat /\ Half \in Nat /\ Half > 0 /\ Modulus = 2 * Half
<1>1. PICK h \in Nat \ {0} : HalfModulus = 2 * h
  <2>1. HalfModulus \in Nat \ {0} /\ HalfModulus % 2 = 0
    BY Int64Assumption, Zenon
  <2>2. HalfModulus = 2 * (HalfModulus \div 2) /\ HalfModulus \div 2 \in Nat \ {0}
    BY <2>1
  <2>. QED BY <2>1, <2>2
<1>2. h * h \in Nat /\ h * h > 0
  BY <1>1
<1>3. Modulus = 4 * (h * h)
  BY <1>1 DEF Modulus
<1>4. Half = 2 * (h * h)
  BY <1>2, <1>3 DEF Half
<1>. QED BY <1>1, <1>2, <1>3, <1>4 DEF Modulus

LEMMA Uniquely ==
    ASSUME NEW a \in Int, NEW b \in Int, b # 0, Abs(a * b) < Abs(b)
    PROVE  a = 0
<1>1. ASSUME a >= 1, b >= 1 PROVE a * b >= b
  BY <1>1
<1>2. ASSUME a >= 1, b <= -1 PROVE a * b <= b
  BY <1>2
<1>3. ASSUME a <= -1, b >= 1 PROVE a * b <= -b
  BY <1>3
<1>4. ASSUME a <= -1, b <= -1 PROVE a * b >= -b
  BY <1>4
<1>5. a * b \in Int
  OBVIOUS
<1>. QED BY <1>1, <1>2, <1>3, <1>4, <1>5 DEF Abs

(* Division with a remainder has one outcome. *)
LEMMA Divided ==
    ASSUME NEW b \in Nat \ {0}, NEW q \in Int, NEW r \in 0..(b - 1)
    PROVE  /\ (q * b + r) % b = r
           /\ (q * b + r) \div b = q
<1> DEFINE a == q * b + r
           d == a \div b
           m == a % b
<1>1. a \in Int /\ d \in Int /\ m \in 0..(b - 1) /\ a = d * b + m
  <2>1. q * b \in Int
    OBVIOUS
  <2>2. \A n \in Int : n \div b \in Int /\ n % b \in 0..(b - 1) /\ n = b * (n \div b) + (n % b)
    OBVIOUS
  <2>3. a \in Int
    BY <2>1
  <2>4. d \in Int /\ m \in 0..(b - 1) /\ a = b * d + m
    BY <2>2, <2>3, Zenon
  <2> HIDE DEF a, d, m
  <2>5. b * d = d * b
    BY <2>4
  <2>. QED BY <2>3, <2>4, <2>5
<1>2. (d - q) * b = r - m
  BY <1>1
<1> HIDE DEF d, m
<1>3. Abs((d - q) * b) < Abs(b)
  BY <1>1, <1>2 DEF Abs
<1>4. d - q = 0
  BY <1>1, <1>3, Uniquely
<1>. QED BY <1>1, <1>2, <1>4 DEF d, m

LEMMA Wrapped ==
    ASSUME NEW n \in Int
    PROVE  n % Modulus \in Words
BY WordSize DEF Words

LEMMA WordOfValue ==
    ASSUME NEW k, NEW n \in Words
    PROVE  /\ Value(k, n) \in Int /\ Value(k, n) % Modulus = n
           /\ k = "int64" => Value(k, n) \in -Half..(Half - 1)
           /\ k # "int64" => Value(k, n) = n
           /\ Value(k, n) = 0 <=> n = 0
           /\ -Modulus <= Value(k, n) /\ Value(k, n) <= Modulus
<1>1. n \in Int /\ n % Modulus = n
  BY WordSize DEF Words
<1>2. (n - Modulus) % Modulus = n
  <2>1. n - Modulus = (-1) * Modulus + n /\ n \in 0..(Modulus - 1)
    BY WordSize DEF Words
  <2>. QED BY <2>1, WordSize, Divided
<1>. QED BY <1>1, <1>2, WordSize DEF Words, Value

LEMMA HalvesJoined ==
    ASSUME NEW n \in Words
    PROVE  FromHalves(ToHalves(n)[1], ToHalves(n)[2]) = n
<1>1. n = HalfModulus * (n \div HalfModulus) + (n % HalfModulus)
  BY WordSize DEF Words
<1>2. n % HalfModulus \in Int /\ n \div HalfModulus \in Int
  BY WordSize DEF Words
<1>3. (n % HalfModulus) + (n \div HalfModulus) * HalfModulus = n
  BY <1>1, <1>2, WordSize
<1>4. n % Modulus = n
  BY WordSize DEF Words
<1>. QED BY <1>3, <1>4 DEF FromHalves, ToHalves

-----------------------------------------------------------------------------
(* The division of C.                                                      *)

\* q is the quotient of i and j: the remainder has the sign of i.
IsQuotient(q, i, j) ==
    LET rest == i - q * j
    IN Abs(rest) < Abs(j) /\ (rest # 0 => (rest < 0) = (i < 0))

LEMMA QuotientUnique ==
    ASSUME NEW i \in Int, NEW j \in Int, NEW q \in Int, NEW p \in Int,
           IsQuotient(q, i, j), IsQuotient(p, i, j)
    PROVE  q = p
<1> DEFINE a == q * j
           b == p * j
<1>1. a \in Int /\ b \in Int
  OBVIOUS
<1>2. (q - p) * j = a - b
  OBVIOUS
<1>3. /\ Abs(i - a) < Abs(j) /\ (i - a # 0 => (i - a < 0) = (i < 0))
      /\ Abs(i - b) < Abs(j) /\ (i - b # 0 => (i - b < 0) = (i < 0))
  BY DEF IsQuotient
<1> HIDE DEF a, b
<1>4. j # 0 /\ Abs(a - b) < Abs(j)
  BY <1>1, <1>3 DEF Abs
<1>5. q - p = 0
  <2>1. q - p \in Int /\ Abs((q - p) * j) < Abs(j)
    <3>1. q - p \in Int
      OBVIOUS
    <3>. QED BY <1>2, <1>4, <3>1
  <2>. QED BY <1>4, <2>1, Uniquely
<1>. QED BY <1>5

LEMMA QuotientFits ==
    ASSUME NEW i \in Int, NEW j \in Int, j # 0
    PROVE  /\ Quotient(i, j) \in Int /\ Abs(Quotient(i, j)) <= Abs(i)
           /\ IsQuotient(Quotient(i, j), i, j)
<1> DEFINE a == Abs(i)
           b == Abs(j)
           d == a \div b
           m == a % b
<1>1. a \in Nat /\ b \in Nat \ {0}
  BY DEF Abs
<1> HIDE DEF a, b
<1>2. d \in Nat /\ m \in 0..(b - 1) /\ a = b * d + m
  BY <1>1
<1> HIDE DEF d, m
<1>3. b * d \in Nat /\ b * d >= d
  BY <1>1, <1>2
<1>4. d <= a
  BY <1>1, <1>2, <1>3
<1>5. Quotient(i, j) = IF (i < 0) = (j < 0) THEN d ELSE -d
  BY DEF Quotient, a, b, d
<1>6. CASE i < 0 /\ j < 0
  <2>1. a = -i /\ b = -j /\ Quotient(i, j) = d /\ d * j = -(b * d)
    BY <1>2, <1>5, <1>6 DEF a, b, Abs
  <2>2. i - d * j = -m
    BY <1>2, <1>3, <2>1
  <2>. QED BY <1>1, <1>2, <1>4, <1>6, <2>1, <2>2 DEF IsQuotient, Abs
<1>7. CASE i >= 0 /\ j >= 0
  <2>1. a = i /\ b = j /\ Quotient(i, j) = d /\ d * j = b * d
    BY <1>2, <1>5, <1>7 DEF a, b, Abs
  <2>2. i - d * j = m
    BY <1>2, <1>3, <2>1
  <2>. QED BY <1>1, <1>2, <1>4, <1>7, <2>1, <2>2 DEF IsQuotient, Abs
<1>8. CASE i < 0 /\ j >= 0
  <2>1. a = -i /\ b = j /\ Quotient(i, j) = -d /\ (-d) * j = -(b * d)
    BY <1>2, <1>5, <1>8 DEF a, b, Abs
  <2>2. i - (-d) * j = -m
    BY <1>2, <1>3, <2>1
  <2>. QED BY <1>1, <1>2, <1>4, <1>8, <2>1, <2>2 DEF IsQuotient, Abs
<1>9. CASE i >= 0 /\ j < 0
  <2>1. a = i /\ b = -j /\ Quotient(i, j) = -d /\ (-d) * j = b * d
    BY <1>2, <1>5, <1>9 DEF a, b, Abs
  <2>2. i - (-d) * j = m
    BY <1>2, <1>3, <2>1
  <2>. QED BY <1>1, <1>2, <1>4, <1>9, <2>1, <2>2 DEF IsQuotient, Abs
<1>. QED BY <1>6, <1>7, <1>8, <1>9

\* What C computes with two numbers is the truth, wrapped around.
LEMMA ComputedTruth ==
    ASSUME NEW op \in Ops \ {"pow"}, NEW k, NEW i \in Int, NEW j \in Int,
           Abs(i) <= Modulus,
           op \in {"div", "mod"} => j # 0
    PROVE  /\ Truth(op, i, j) \in Int
           /\ Computed(op, k, i, j) =
                Boxed(IF op = "sub" /\ k = "uint64" /\ i <= j THEN "int64" ELSE k, Truth(op, i, j))
<1> DEFINE q == CHOOSE q \in -Modulus..Modulus : IsQuotient(q, i, j)
<1>1. CASE op \in {"add", "sub", "mul"}
  BY <1>1 DEF Truth, Computed
<1>2. CASE op \in {"div", "mod"}
  <2>1. Quotient(i, j) \in -Modulus..Modulus /\ IsQuotient(Quotient(i, j), i, j)
    <3>1. Quotient(i, j) \in Int /\ Abs(Quotient(i, j)) <= Abs(i) /\ IsQuotient(Quotient(i, j), i, j)
      BY <1>2, QuotientFits
    <3>. QED BY <3>1, WordSize DEF Abs
  <2>2. q \in -Modulus..Modulus /\ IsQuotient(q, i, j)
    BY <2>1, Zenon
  <2>3. q = Quotient(i, j)
    <3>1. q \in Int /\ Quotient(i, j) \in Int
      BY <2>1, <2>2, WordSize
    <3> HIDE DEF q
    <3>. QED BY <2>1, <2>2, <3>1, QuotientUnique
  <2>4. Truth(op, i, j) = IF op = "div" THEN q ELSE i - q * j
    BY <1>2 DEF Truth, IsQuotient
  <2> DEFINE c == Quotient(i, j)
  <2>5. c \in Int /\ c * j = j * c /\ Truth(op, i, j) = IF op = "div" THEN c ELSE i - c * j
    <3>1. Truth(op, i, j) = IF op = "div" THEN c ELSE i - c * j
      BY <2>3, <2>4, Zenon
    <3>2. c \in Int
      BY <2>1, WordSize
    <3> HIDE DEF c
    <3>. QED BY <3>1, <3>2
  <2>6. Computed(op, k, i, j) = Boxed(k, IF op = "div" THEN c ELSE i - j * c)
    BY <1>2 DEF Computed
  <2> HIDE DEF c
  <2>7. Truth(op, i, j) \in Int
    BY <2>5
  <2>8. Computed(op, k, i, j) = Boxed(k, Truth(op, i, j))
    BY <2>5, <2>6
  <2>. QED BY <1>2, <2>7, <2>8
<1>. QED BY <1>1, <1>2 DEF Ops

-----------------------------------------------------------------------------
(* Reading a text.                                                         *)


(* A non-empty set of natural numbers has a least element.                 *)
LEMMA LeastOf ==
    ASSUME NEW S \in SUBSET Nat, S # {}
    PROVE  \E x \in S : \A y \in S : x <= y
<1> DEFINE R == OpToRel(<, Nat)
<1>1. IsWellFoundedOn(R, Nat)
  BY NatLessThanWellFounded
<1>2. \A x, y \in Nat : x < y => <<x, y>> \in R
  BY DEF OpToRel
<1> HIDE DEF R
<1>3. PICK x \in S : \A y \in S : ~(<<y, x>> \in R)
  BY <1>1, WFMin
<1>4. \A y \in S : ~(y < x)
  BY <1>2, <1>3, Zenon
<1>. QED BY <1>4

\* e is the first place from i on where s has no member of cs.
EndsAt(s, i, cs, e) ==
    /\ e \in i..(Len(s) + 1)
    /\ \A j \in i..(e - 1) : s[j] \in cs
    /\ e <= Len(s) => s[e] \notin cs

LEMMA BehindEnds ==
    ASSUME NEW s, Len(s) \in Nat, NEW cs, NEW i \in 1..(Len(s) + 1)
    PROVE  EndsAt(s, i, cs, Behind(s, i, cs))
<1> DEFINE S == {e \in i..(Len(s) + 1) : e <= Len(s) => s[e] \notin cs}
<1>1. S \in SUBSET Nat /\ Len(s) + 1 \in S
  OBVIOUS
<1> HIDE DEF S
<1>2. PICK e \in S : \A d \in S : e <= d
  BY <1>1, LeastOf
<1>3. e \in i..(Len(s) + 1) /\ (e <= Len(s) => s[e] \notin cs)
  BY <1>2 DEF S
<1>4. ASSUME NEW j \in i..(e - 1) PROVE s[j] \in cs
  <2>1. j \in i..(Len(s) + 1) /\ ~(e <= j)
    BY <1>3
  <2>. QED BY <1>2, <2>1 DEF S
<1>5. EndsAt(s, i, cs, e)
  BY <1>3, <1>4 DEF EndsAt
<1>. QED BY <1>5, Zenon DEF Behind, EndsAt

LEMMA EndsOnce ==
    ASSUME NEW s, Len(s) \in Nat, NEW cs, NEW i \in Int,
           NEW e, NEW d, EndsAt(s, i, cs, e), EndsAt(s, i, cs, d)
    PROVE  e = d
BY DEF EndsAt

LEMMA BehindIs ==
    ASSUME NEW s, Len(s) \in Nat, NEW cs, NEW i \in 1..(Len(s) + 1),
           NEW e, EndsAt(s, i, cs, e)
    PROVE  Behind(s, i, cs) = e
BY BehindEnds, EndsOnce

LEMMA DigitFacts ==
    /\ DigitsOf(10) \subseteq DigitsOf(16)
    /\ "0" \in DigitsOf(10)
    /\ {Space, Minus, Plus, "x"} \cap DigitsOf(16) = {}
<1>1. DigitsOf(10) \subseteq DigitsOf(16)
  <2>1. 1..10 \subseteq 1..16
    OBVIOUS
  <2>. QED BY <2>1, Zenon DEF DigitsOf
<1>2. "0" \in DigitsOf(10)
  <2>1. 1 \in 1..10 /\ DigitChars[1] = "0"
    BY DEF DigitChars
  <2>. QED BY <2>1, Zenon DEF DigitsOf
<1>3. ASSUME NEW i \in 1..16 PROVE DigitChars[i] \notin {Space, Minus, Plus, "x"}
  <2>1. ASSUME NEW c \in {Space, Minus, Plus}
        PROVE  c \notin {"0", "1", "2", "3", "4", "5", "6", "7", "8", "9", "a", "b", "c", "d", "e", "f"}
    BY Zenon DEF Space, Minus, Plus
  <2>2. DigitChars[i] \in {"0", "1", "2", "3", "4", "5", "6", "7", "8", "9", "a", "b", "c", "d", "e", "f"}
        /\ DigitChars[i] # "x"
    BY DEF DigitChars
  <2>. QED BY <2>1, <2>2
<1>. QED BY <1>1, <1>2, <1>3, Zenon DEF DigitsOf

LEMMA OneRead ==
    ASSUME NEW s, Len(s) \in Nat, NEW cs, NEW p \in Int,
           s[p] \in cs, s[p + 1] \notin cs, p + 1 <= Len(s)
    PROVE  EndsAt(s, p, cs, p + 1)
<1>1. \A j \in p..(p + 1 - 1) : j = p
  OBVIOUS
<1>2. \A j \in p..(p + 1 - 1) : s[j] \in cs
  BY <1>1, Zenon
<1>. QED BY <1>2 DEF EndsAt

\* What is read from place q on is all of s but for the spaces behind place t.
ReadsTo(s, cs, q, t, e, f) ==
    /\ e # q /\ f > Len(s) <=> q <= t /\ \A j \in q..t : s[j] \in cs
    /\ q <= t /\ (\A j \in q..t : s[j] \in cs) => e = t + 1

LEMMA ReadThrough ==
    ASSUME NEW s, Len(s) \in Nat, NEW cs, Space \notin cs,
           NEW q \in 1..(Len(s) + 1), NEW t \in 0..Len(s),
           \A j \in (t + 1)..Len(s) : s[j] = Space,
           q <= t => s[t] # Space,
           NEW e \in Int, NEW f \in Int, EndsAt(s, q, cs, e), EndsAt(s, e, {Space}, f)
    PROVE  ReadsTo(s, cs, q, t, e, f)
<1>1. /\ q <= e /\ e <= Len(s) + 1 /\ \A j \in q..(e - 1) : s[j] \in cs
      /\ e <= Len(s) => s[e] \notin cs
      /\ e <= f /\ f <= Len(s) + 1 /\ \A j \in e..(f - 1) : s[j] = Space
      /\ f <= Len(s) => s[f] # Space
  BY DEF EndsAt
<1>3. ASSUME e # q, f > Len(s)
      PROVE  q <= t /\ \A j \in q..t : s[j] \in cs
  <2>1. \A j \in e..Len(s) : s[j] = Space
    BY <1>1, <1>3
  <2>2. q \in q..(e - 1) /\ e - 1 \in q..(e - 1) /\ q <= Len(s) /\ e - 1 <= Len(s)
    BY <1>1, <1>3
  <2>3. s[q] # Space /\ s[e - 1] # Space
    BY <1>1, <2>2
  <2>4. e - 1 <= t
    BY <2>2, <2>3
  <2>5. t <= e - 1
    BY <2>1, <2>2, <2>4
  <2>. QED BY <1>1, <2>2, <2>4, <2>5
<1>4. ASSUME q <= t, \A j \in q..t : s[j] \in cs
      PROVE  e = t + 1 /\ e # q /\ f > Len(s)
  <2>1. ~(e <= t)
    BY <1>1, <1>4
  <2>2. ~(e > t + 1)
    BY <1>1, <1>4
  <2>3. e = t + 1
    BY <2>1, <2>2
  <2>. QED BY <1>1, <1>4, <2>3
<1>. QED BY <1>3, <1>4 DEF ReadsTo

\* Where a number starts, and the last place behind which there are spaces only.
Start(s) == Behind(s, 1, {Space})
Signed(s) == Start(s) <= Len(s) /\ s[Start(s)] \in {Minus, Plus}
FirstPlace(s) == IF Signed(s) THEN Start(s) + 1 ELSE Start(s)
LastPlace(s) == IF Start(s) > Len(s) THEN Len(s) ELSE Len(s) + 1 - Behind(Reverse(s), 1, {Space})

LEMMA StartFound ==
    ASSUME NEW C, NEW s \in Seq(C)
    PROVE  /\ Start(s) \in 1..(Len(s) + 1)
           /\ \A j \in 1..(Start(s) - 1) : s[j] = Space
           /\ Start(s) <= Len(s) => s[Start(s)] # Space
<1>1. Len(s) \in Nat /\ 1 \in 1..(Len(s) + 1)
  OBVIOUS
<1>2. EndsAt(s, 1, {Space}, Start(s))
  BY <1>1, BehindEnds DEF Start
<1>. QED BY <1>2 DEF EndsAt

LEMMA LastFound ==
    ASSUME NEW C, NEW s \in Seq(C)
    PROVE  LET t == Len(s) + 1 - Behind(Reverse(s), 1, {Space})
           IN /\ t \in 0..Len(s)
              /\ \A j \in (t + 1)..Len(s) : s[j] = Space
              /\ t > 0 => s[t] # Space
<1> DEFINE r == Reverse(s)
           e == Behind(r, 1, {Space})
           n == Len(s)
<1>1. n \in Nat /\ r = [i \in 1..n |-> s[(n - i) + 1]]
  BY DEF Reverse
<1>2. Len(r) = n
  <2>1. r \in Seq(C)
    <3>1. \A i \in 1..n : s[(n - i) + 1] \in C
      BY <1>1
    <3>. QED BY <1>1, <3>1
  <2>2. Len(r) \in Nat /\ DOMAIN r = 1..Len(r)
    BY <2>1
  <2>3. DOMAIN r = 1..n
    BY <1>1
  <2>. QED BY <1>1, <2>2, <2>3
<1>3. EndsAt(r, 1, {Space}, e)
  <2>1. Len(r) \in Nat /\ 1 \in 1..(Len(r) + 1)
    BY <1>1, <1>2
  <2>. QED BY <2>1, BehindEnds
<1>4. /\ e \in 1..(n + 1)
      /\ \A i \in 1..(e - 1) : r[i] = Space
      /\ e <= n => r[e] # Space
  BY <1>2, <1>3 DEF EndsAt
<1>5. \A i \in 1..n : r[i] = s[(n - i) + 1]
  BY <1>1
<1> HIDE DEF r, e
<1>6. ASSUME NEW j \in (n + 1 - e + 1)..n PROVE s[j] = Space
  <2>1. n - j + 1 \in 1..(e - 1) /\ n - j + 1 \in 1..n /\ (n - (n - j + 1)) + 1 = j
    BY <1>1, <1>4
  <2>. QED BY <1>4, <1>5, <2>1
<1>7. ASSUME n + 1 - e > 0 PROVE s[n + 1 - e] # Space
  <2>1. e \in 1..n /\ (n - e) + 1 = n + 1 - e
    BY <1>1, <1>4, <1>7
  <2>. QED BY <1>4, <1>5, <2>1
<1>8. n + 1 - e \in 0..n
  BY <1>1, <1>4
<1>. QED BY <1>6, <1>7, <1>8 DEF e, r

LEMMA BodyFound ==
    ASSUME NEW C, NEW s \in Seq(C)
    PROVE  LET p == FirstPlace(s)
               t == LastPlace(s)
           IN /\ p \in 1..(Len(s) + 1) /\ t \in (p - 1)..Len(s)
              /\ \A j \in (t + 1)..Len(s) : s[j] = Space
              /\ p <= t => s[t] # Space
              /\ Unsign(Body(s)) = SubSeq(s, p, t)
              /\ Negative(Body(s)) <=> Start(s) <= Len(s) /\ s[Start(s)] = Minus
<1> DEFINE i == Start(s)
           n == Len(s)
           m == Len(s) + 1 - Behind(Reverse(s), 1, {Space})
           b == SubSeq(s, i, m)
<1>1. n \in Nat
  OBVIOUS
<1>2. Body(s) = b
  BY DEF Body, Start
<1>3. /\ i \in 1..(n + 1)
      /\ \A j \in 1..(i - 1) : s[j] = Space
      /\ i <= n => s[i] # Space
  BY StartFound
<1>4. /\ m \in 0..n
      /\ \A j \in (m + 1)..n : s[j] = Space
      /\ m > 0 => s[m] # Space
  BY LastFound
<1>5. Minus # Space /\ Plus # Space
  BY Zenon DEF Minus, Plus, Space
<1>6. /\ FirstPlace(s) = IF i <= n /\ s[i] \in {Minus, Plus} THEN i + 1 ELSE i
      /\ LastPlace(s) = IF i > n THEN n ELSE m
  BY DEF FirstPlace, LastPlace, Signed
<1> HIDE DEF m, i
<1>7. CASE i > n
  <2>1. i = n + 1 /\ m < i
    BY <1>1, <1>3, <1>4, <1>7
  <2>2. b = <<>>
    BY <1>3, <1>4, <2>1, SubSeqEmpty
  <2>3. FirstPlace(s) = n + 1 /\ LastPlace(s) = n
    BY <1>1, <1>6, <2>1
  <2>4. SubSeq(s, n + 1, n) = <<>>
    BY <1>1, SubSeqEmpty
  <2>5. Unsign(Body(s)) = <<>> /\ ~Negative(Body(s))
    BY <1>2, <2>2 DEF Unsign, Negative
  <2>6. Unsign(Body(s)) = SubSeq(s, FirstPlace(s), LastPlace(s))
    BY <2>3, <2>4, <2>5, Zenon
  <2>7. ~(Start(s) <= Len(s))
    BY <1>1, <1>3, <1>7 DEF i
  <2>8. /\ n + 1 \in 1..(n + 1) /\ n \in (n + 1 - 1)..n
        /\ \A j \in (n + 1)..n : s[j] = Space
        /\ ~(n + 1 <= n)
    BY <1>1
  <2>9. /\ FirstPlace(s) \in 1..(n + 1) /\ LastPlace(s) \in (FirstPlace(s) - 1)..n
        /\ \A j \in (LastPlace(s) + 1)..n : s[j] = Space
        /\ ~(FirstPlace(s) <= LastPlace(s))
    BY <2>3, <2>8
  <2>10. ~Negative(Body(s))
    BY <2>5
  <2>. QED BY <2>6, <2>7, <2>9, <2>10, Zenon
<1>8. CASE i <= n
  <2>1. i <= m
    BY <1>1, <1>3, <1>4, <1>8
  <2>2. b \in Seq(C) /\ Len(b) = m - i + 1 /\ b[1] = s[i]
    <3>1. \A j \in i..m : s[j] \in C
      BY <1>3, <1>4
    <3>2. b \in Seq(C) /\ Len(b) = m - i + 1 /\ \A k \in 1..(m - i + 1) : b[k] = s[i + k - 1]
      BY <1>3, <1>4, <2>1, <3>1, SubSeqProperties
    <3>3. 1 \in 1..(m - i + 1) /\ i + 1 - 1 = i
      BY <1>3, <1>4, <2>1
    <3>. QED BY <3>2, <3>3
  <2>3. b # <<>> /\ Tail(b) = SubSeq(s, i + 1, m)
    <3>1. b # <<>>
      BY <1>3, <1>4, <2>1, <2>2
    <3>2. i \in 1..Len(s) /\ m \in i..Len(s)
      BY <1>3, <1>4, <1>8, <2>1
    <3>. QED BY <3>1, <3>2, HeadTailOfSubSeq
  <2> HIDE DEF b
  <2>4. /\ Unsign(Body(s)) = IF s[i] \in {Minus, Plus} THEN Tail(b) ELSE b
        /\ Negative(Body(s)) <=> s[i] = Minus
    BY <1>2, <2>2, <2>3, Zenon DEF Unsign, Negative
  <2>5. LastPlace(s) = m /\ FirstPlace(s) = IF s[i] \in {Minus, Plus} THEN i + 1 ELSE i
    BY <1>1, <1>3, <1>6, <1>8
  <2>6. Unsign(Body(s)) = SubSeq(s, FirstPlace(s), LastPlace(s))
    BY <2>3, <2>4, <2>5, Zenon DEF b
  <2>7. FirstPlace(s) \in 1..(n + 1) /\ m \in (FirstPlace(s) - 1)..n
    BY <1>3, <1>4, <1>8, <2>1, <2>5
  <2>8. FirstPlace(s) <= m => s[m] # Space
    BY <1>3, <1>4, <2>1
  <2>9. \A j \in (LastPlace(s) + 1)..n : s[j] = Space
    BY <1>4, <2>5
  <2>. QED BY <1>8, <2>4, <2>5, <2>6, <2>7, <2>8, <2>9 DEF i
<1>. QED BY <1>1, <1>3, <1>7, <1>8

\* The numbers that a text may be, told from the places of their digits.
PartDigits(s, p, t, d) ==
    /\ IsDecimal(d) <=> p <= t /\ \A j \in p..t : s[j] \in DigitsOf(10)
    /\ IsHex(d) <=> /\ p + 2 <= t /\ s[p] = "0" /\ s[p + 1] = "x"
                    /\ \A j \in (p + 2)..t : s[j] \in DigitsOf(16)
    /\ p + 2 <= t => SubSeq(d, 3, Len(d)) = SubSeq(s, p + 2, t)

LEMMA DigitsOfPart ==
    ASSUME NEW C, NEW s \in Seq(C), NEW p \in 1..(Len(s) + 1), NEW t \in (p - 1)..Len(s)
    PROVE  PartDigits(s, p, t, SubSeq(s, p, t))
<1> DEFINE d == SubSeq(s, p, t)
           n == Len(d)
<1>1. /\ d \in Seq(C) /\ n \in Nat /\ n = t - p + 1 /\ DOMAIN d = 1..n
      /\ \A k \in 1..n : d[k] = s[p + k - 1]
  <2>1. \A j \in p..t : s[j] \in C
    OBVIOUS
  <2>2. d \in Seq(C) /\ n = (IF p <= t THEN t - p + 1 ELSE 0) /\ \A k \in 1..(t - p + 1) : d[k] = s[p + k - 1]
    BY <2>1, SubSeqProperties
  <2>. QED BY <2>2
<1> HIDE DEF d
<1>2. IsDecimal(d) <=> p <= t /\ \A j \in p..t : s[j] \in DigitsOf(10)
  <2>1. d # <<>> <=> p <= t
    BY <1>1
  <2>2. ToSet(d) \subseteq DigitsOf(10) <=> \A k \in 1..n : d[k] \in DigitsOf(10)
    BY <1>1, Zenon DEF ToSet
  <2>3. (\A k \in 1..n : d[k] \in DigitsOf(10)) <=> \A j \in p..t : s[j] \in DigitsOf(10)
    <3>1. \A j \in p..t : j - p + 1 \in 1..n /\ p + (j - p + 1) - 1 = j
      BY <1>1
    <3>2. \A k \in 1..n : p + k - 1 \in p..t
      BY <1>1
    <3>3. \A j \in p..t : s[j] = d[j - p + 1]
      BY <1>1, <3>1
    <3>. QED BY <1>1, <3>1, <3>2, <3>3
  <2>. QED BY <2>1, <2>2, <2>3, Zenon DEF IsDecimal
<1>3. p + 2 <= t => SubSeq(d, 3, n) = SubSeq(s, p + 2, t)
  <2>1. SUFFICES ASSUME p + 2 <= t PROVE SubSeq(d, 3, n) = SubSeq(s, p + 2, t)
    OBVIOUS
  <2>2. p \in 1..Len(s) /\ t \in 1..Len(s) /\ 3 \in 1..(t - p + 1) /\ n \in 1..(t - p + 1)
    BY <1>1, <2>1
  <2>3. p + 3 - 1 = p + 2 /\ p + n - 1 = t
    BY <1>1
  <2>4. SubSeq(SubSeq(s, p, t), 3, n) = SubSeq(s, p + 3 - 1, p + n - 1)
    BY <2>2, SubSeqOfSubSeq
  <2>. QED BY <2>3, <2>4 DEF d
<1>4. IsHex(d) <=> /\ p + 2 <= t /\ s[p] = "0" /\ s[p + 1] = "x"
                   /\ \A j \in (p + 2)..t : s[j] \in DigitsOf(16)
  <2>1. n > 2 <=> p + 2 <= t
    BY <1>1
  <2>2. SUFFICES ASSUME p + 2 <= t
        PROVE  /\ SubSeq(d, 1, 2) = <<"0", "x">> <=> s[p] = "0" /\ s[p + 1] = "x"
               /\ ToSet(SubSeq(d, 3, n)) \subseteq DigitsOf(16) <=> \A j \in (p + 2)..t : s[j] \in DigitsOf(16)
    BY <2>1, Zenon DEF IsHex
  <2>3. SubSeq(d, 1, 2) = <<"0", "x">> <=> s[p] = "0" /\ s[p + 1] = "x"
    <3>1. \A j \in 1..2 : d[j] \in C
      BY <1>1, <2>1, <2>2
    <3>2. /\ SubSeq(d, 1, 2) \in Seq(C) /\ Len(SubSeq(d, 1, 2)) = 2
          /\ \A k \in 1..2 : SubSeq(d, 1, 2)[k] = d[k]
      <4>1. /\ SubSeq(d, 1, 2) \in Seq(C) /\ Len(SubSeq(d, 1, 2)) = IF 1 <= 2 THEN 2 - 1 + 1 ELSE 0
            /\ \A k \in 1..(2 - 1 + 1) : SubSeq(d, 1, 2)[k] = d[1 + k - 1]
        BY <3>1, SubSeqProperties
      <4>. QED BY <4>1
    <3> DEFINE e == SubSeq(d, 1, 2)
    <3>3. d[1] = s[p] /\ d[2] = s[p + 1]
      BY <1>1, <2>1, <2>2
    <3> HIDE DEF e
    <3>4. e \in Seq(C) /\ Len(e) = 2 /\ e[1] = s[p] /\ e[2] = s[p + 1]
      BY <3>2, <3>3 DEF e
    <3>5. e = <<"0", "x">> <=> e[1] = "0" /\ e[2] = "x"
      BY <3>4
    <3>. QED BY <3>4, <3>5 DEF e
  <2>4. ToSet(SubSeq(s, p + 2, t)) \subseteq DigitsOf(16) <=> \A j \in (p + 2)..t : s[j] \in DigitsOf(16)
    <3> DEFINE e == SubSeq(s, p + 2, t)
    <3>1. \A j \in (p + 2)..t : s[j] \in C
      OBVIOUS
    <3>2. e \in Seq(C) /\ Len(e) = t - (p + 2) + 1 /\ \A k \in 1..(t - (p + 2) + 1) : e[k] = s[p + 2 + k - 1]
      BY <2>2, <3>1, SubSeqProperties
    <3> HIDE DEF e
    <3>3. DOMAIN e = 1..(t - (p + 2) + 1)
      BY <3>2
    <3>4. ToSet(e) \subseteq DigitsOf(16) <=> \A k \in 1..(t - (p + 2) + 1) : e[k] \in DigitsOf(16)
      BY <3>3, Zenon DEF ToSet
    <3>5. \A j \in (p + 2)..t : j - (p + 2) + 1 \in 1..(t - (p + 2) + 1) /\ p + 2 + (j - (p + 2) + 1) - 1 = j
      OBVIOUS
    <3>6. \A j \in (p + 2)..t : s[j] = e[j - (p + 2) + 1]
      BY <3>2, <3>5
    <3>7. \A k \in 1..(t - (p + 2) + 1) : p + 2 + k - 1 \in (p + 2)..t
      OBVIOUS
    <3>8. (\A k \in 1..(t - (p + 2) + 1) : e[k] \in DigitsOf(16)) <=> \A j \in (p + 2)..t : s[j] \in DigitsOf(16)
      BY <3>2, <3>5, <3>6, <3>7
    <3>. QED BY <3>4, <3>8 DEF e
  <2>. QED BY <1>3, <2>2, <2>3, <2>4
<1>. QED BY <1>2, <1>3, <1>4 DEF d, PartDigits
Descends(up, n) == \A c \in 1..n : up[c] \in Nat /\ up[c] < c

Solution(f, n, up, zero, g) == \A c \in 0..n : f[c] = IF c = 0 THEN zero ELSE g[c][f[up[c]]]

(* What is defined at 0, and at c from its value at an older up[c], exists. *)
LEMMA Recursion ==
    ASSUME NEW n \in Nat, NEW up, Descends(up, n),
           NEW V, NEW zero \in V, NEW g \in [1..n -> [V -> V]]
    PROVE  \E f \in [0..n -> V] : Solution(f, n, up, zero, g)
<1> USE DEF Descends, Solution
<1> DEFINE Solves(f, m) == \A c \in 0..m : f[c] = IF c = 0 THEN zero ELSE g[c][f[up[c]]]
           S == {m \in 0..n : ~ \E f \in [0..m -> V] : Solves(f, m)}
<1>1. ASSUME S # {} PROVE FALSE
  <2>1. PICK x \in S : \A y \in S : x <= y
    <3>1. S \in SUBSET Nat
      OBVIOUS
    <3> HIDE DEF S
    <3>. QED BY <1>1, <3>1, LeastOf
  <2>2. x \in 0..n /\ ~ \E f \in [0..x -> V] : Solves(f, x)
    BY <2>1
  <2>3. CASE x = 0
    <3> DEFINE f == [c \in 0..0 |-> zero]
    <3>1. f \in [0..x -> V] /\ Solves(f, x)
      BY <2>3
    <3>. QED BY <2>2, <3>1
  <2>4. CASE x # 0
    <3>1. x - 1 \in 0..n /\ ~(x <= x - 1) /\ x \in 1..n
      BY <2>2, <2>4
    <3>2. PICK f \in [0..(x - 1) -> V] : Solves(f, x - 1)
      BY <2>1, <3>1
    <3>3. up[x] \in 0..(x - 1) /\ g[x] \in [V -> V]
      BY <3>1
    <3>4. g[x][f[up[x]]] \in V
      BY <3>3
    <3> DEFINE h == [c \in 0..x |-> IF c = x THEN g[x][f[up[x]]] ELSE f[c]]
    <3>5. h \in [0..x -> V]
      <4>1. \A c \in 0..x : c # x => c \in 0..(x - 1)
        BY <3>1
      <4>. QED BY <3>4, <4>1
    <3>6. ASSUME NEW c \in 0..x
          PROVE  h[c] = IF c = 0 THEN zero ELSE g[c][h[up[c]]]
      <4>1. CASE c = x
        <5>1. c # 0 /\ h[c] = g[x][f[up[x]]]
          BY <2>4, <4>1
        <5>2. h[up[x]] = f[up[x]]
          BY <3>1, <3>3
        <5>. QED BY <4>1, <5>1, <5>2
      <4>2. CASE c # x
        <5>1. c \in 0..(x - 1) /\ h[c] = f[c]
          BY <3>1, <4>2
        <5>2. f[c] = IF c = 0 THEN zero ELSE g[c][f[up[c]]]
          BY <3>2, <5>1
        <5>3. c # 0 => h[up[c]] = f[up[c]]
          <6>1. ASSUME c # 0 PROVE up[c] \in 0..x /\ up[c] # x
            BY <3>1, <5>1, <6>1
          <6>. QED BY <6>1
        <5>. QED BY <5>1, <5>2, <5>3
      <4>. QED BY <4>1, <4>2
    <3> HIDE DEF h
    <3>. QED BY <2>2, <3>5, <3>6
  <2>. QED BY <2>3, <2>4
<1>2. n \in 0..n /\ S = {}
  BY <1>1
<1>. QED BY <1>2

-----------------------------------------------------------------------------
(* Numbers and their digits.                                               *)

LEMMA DigitIs ==
    ASSUME NEW i \in 1..16
    PROVE  Digit(DigitChars[i]) = i - 1
<1>1. DOMAIN DigitChars = 1..16
  BY DEF DigitChars
<1>2. ASSUME NEW j \in 1..16, DigitChars[j] = DigitChars[i] PROVE j = i
  BY <1>2 DEF DigitChars
<1> DEFINE d == CHOOSE j \in DOMAIN DigitChars : DigitChars[j] = DigitChars[i]
<1>3. d \in 1..16 /\ DigitChars[d] = DigitChars[i]
  BY <1>1, Zenon
<1>4. d = i
  BY <1>2, <1>3
<1>. QED BY <1>4 DEF Digit

LEMMA DigitNumber == \A c \in DigitsOf(16) : Digit(c) \in Nat
<1>1. ASSUME NEW c \in DigitsOf(16) PROVE Digit(c) \in Nat
  <2>1. PICK i \in 1..16 : c = DigitChars[i]
    BY DEF DigitsOf
  <2>. QED BY <2>1, DigitIs
<1>. QED BY <1>1

\* f[i] is the number that the first i of n digits make.
Reading(f, d, base, n) ==
    /\ f \in [0..n -> Nat] /\ f[0] = 0
    /\ \A i \in 1..n : f[i] = f[i - 1] * base + Digit(d[i])

LEMMA MagnitudeRead ==
    ASSUME NEW d \in Seq(DigitsOf(16)), NEW base \in Nat
    PROVE  \E f : Reading(f, d, base, Len(d)) /\ Magnitude(d, base) = f[Len(d)]
<1> DEFINE n == Len(d)
           up == [c \in 1..n |-> c - 1]
           g == [c \in 1..n |-> [v \in Nat |-> v * base + Digit(d[c])]]
           Turn(f) == [i \in 0..n |-> IF i = 0 THEN 0 ELSE f[i - 1] * base + Digit(d[i])]
           m == CHOOSE f : f = Turn(f)
<1>1. n \in Nat /\ \A c \in 1..n : Digit(d[c]) \in Nat
  BY DigitNumber
<1>2. g \in [1..n -> [Nat -> Nat]] /\ Descends(up, n)
  BY <1>1 DEF Descends
<1>3. PICK f \in [0..n -> Nat] : Solution(f, n, up, 0, g)
  <2> HIDE DEF n, g, up
  <2>. QED BY <1>1, <1>2, Recursion
<1>4. ASSUME NEW c \in 0..n
      PROVE  f[c] = IF c = 0 THEN 0 ELSE f[c - 1] * base + Digit(d[c])
  <2>1. CASE c = 0
    BY <1>1, <1>3, <2>1 DEF Solution
  <2>2. CASE c # 0
    <3>0. c \in 1..n /\ c - 1 \in 0..n
      BY <1>1, <2>2
    <3>1. f[c - 1] \in Nat /\ up[c] = c - 1 /\ \A v \in Nat : g[c][v] = v * base + Digit(d[c])
      BY <1>3, <3>0
    <3>2. f[c] = g[c][f[up[c]]]
      BY <1>3, <2>2 DEF Solution
    <3>. QED BY <2>2, <3>1, <3>2, Zenon
  <2>. QED BY <2>1, <2>2
<1>5. f = Turn(f)
  BY <1>3, <1>4
<1>6. m = Turn(m)
  <2> HIDE DEF Turn
  <2>. QED BY <1>5, Zenon
<1>7. Magnitude(d, base) = m[n]
  BY Zenon DEF Magnitude
<1>8. m \in [0..n -> Nat] /\ m[0] = 0 /\ \A i \in 1..n : m[i] = m[i - 1] * base + Digit(d[i])
  <2> DEFINE T == Turn(m)
  <2>1. /\ DOMAIN T = 0..n
        /\ \A i \in 0..n : T[i] = IF i = 0 THEN 0 ELSE m[i - 1] * base + Digit(d[i])
    OBVIOUS
  <2> HIDE DEF m, T
  <2>2. /\ m = T /\ DOMAIN m = 0..n
        /\ \A i \in 0..n : m[i] = IF i = 0 THEN 0 ELSE m[i - 1] * base + Digit(d[i])
    <3>1. m = T
      BY <1>6 DEF T
    <3>. QED BY <2>1, <3>1, Zenon
  <2>3. \A i \in 0..n : m[i] = f[i]
    <3> DEFINE S == {i \in 0..n : m[i] # f[i]}
    <3>1. ASSUME S # {} PROVE FALSE
      <4>1. PICK x \in S : \A y \in S : x <= y
        <5>1. S \in SUBSET Nat
          BY <1>1
        <5> HIDE DEF S
        <5>. QED BY <3>1, <5>1, LeastOf
      <4>2. x \in 0..n /\ m[x] # f[x]
        BY <4>1
      <4>3. x # 0
        BY <2>2, <1>4, <4>2
      <4>4. x - 1 \in 0..n /\ ~(x <= x - 1)
        BY <1>1, <4>2, <4>3
      <4>5. m[x - 1] = f[x - 1]
        BY <4>1, <4>4
      <4>. QED BY <1>4, <2>2, <4>2, <4>3, <4>5
    <3>. QED BY <3>1
  <2>4. m \in [0..n -> Nat]
    <3>1. \A i \in 0..n : m[i] \in Nat
      BY <1>3, <2>3
    <3>2. m = [i \in 0..n |-> m[i]]
      BY <2>1, <2>2, Zenon DEF T
    <3>. QED BY <3>1, <3>2
  <2>. QED BY <1>1, <2>2, <2>4
<1>. QED BY <1>7, <1>8, Zenon DEF Reading

LEMMA MagnitudeNat ==
    ASSUME NEW d \in Seq(DigitsOf(16)), NEW base \in Nat
    PROVE  Magnitude(d, base) \in Nat
<1>1. PICK f : Reading(f, d, base, Len(d)) /\ Magnitude(d, base) = f[Len(d)]
  BY MagnitudeRead
<1>2. Len(d) \in Nat /\ f \in [0..Len(d) -> Nat]
  BY <1>1 DEF Reading
<1>. QED BY <1>1, <1>2

\* One digit more.
LEMMA MagnitudeGrows ==
    ASSUME NEW d \in Seq(DigitsOf(16)), NEW c \in DigitsOf(16), NEW base \in Nat
    PROVE  /\ Magnitude(<<>>, base) = 0
           /\ Magnitude(Append(d, c), base) = Magnitude(d, base) * base + Digit(c)
<1>1. Magnitude(<<>>, base) = 0
  <2>1. <<>> \in Seq(DigitsOf(16)) /\ Len(<<>>) = 0
    OBVIOUS
  <2>2. PICK f : Reading(f, <<>>, base, 0) /\ Magnitude(<<>>, base) = f[0]
    BY <2>1, MagnitudeRead
  <2>. QED BY <2>2 DEF Reading
<1> DEFINE e == Append(d, c)
           n == Len(d)
<1>2. e \in Seq(DigitsOf(16)) /\ Len(e) = n + 1 /\ n \in Nat /\ e[n + 1] = c
      /\ \A i \in 1..n : e[i] = d[i]
  BY AppendProperties
<1> HIDE DEF e
<1>3. PICK f : Reading(f, d, base, n) /\ Magnitude(d, base) = f[n]
  BY MagnitudeRead
<1>4. PICK g : Reading(g, e, base, n + 1) /\ Magnitude(e, base) = g[n + 1]
  BY <1>2, MagnitudeRead
<1> DEFINE S == {i \in 0..n : f[i] # g[i]}
<1>5. ASSUME S # {} PROVE FALSE
  <2>1. PICK x \in S : \A y \in S : x <= y
    <3>1. S \in SUBSET Nat
      BY <1>2
    <3> HIDE DEF S
    <3>. QED BY <1>5, <3>1, LeastOf
  <2>2. x \in 0..n /\ f[x] # g[x]
    BY <2>1
  <2>3. x # 0
    BY <1>3, <1>4, <2>2 DEF Reading
  <2>4. x - 1 \in 0..n /\ ~(x <= x - 1) /\ x \in 1..n /\ x \in 1..(n + 1)
    BY <1>2, <2>2, <2>3
  <2>5. f[x - 1] = g[x - 1]
    BY <2>1, <2>4
  <2>6. f[x] = f[x - 1] * base + Digit(d[x]) /\ g[x] = g[x - 1] * base + Digit(e[x])
    BY <1>3, <1>4, <2>4 DEF Reading
  <2>. QED BY <1>2, <2>2, <2>4, <2>5, <2>6
<1>6. f[n] = g[n]
  BY <1>2, <1>5
<1>7. g[n + 1] = g[n] * base + Digit(e[n + 1])
  <2>1. n + 1 \in 1..(n + 1) /\ n + 1 - 1 = n
    BY <1>2
  <2>. QED BY <1>4, <2>1 DEF Reading
<1>. QED BY <1>1, <1>2, <1>3, <1>4, <1>6, <1>7 DEF e

\* The characters of decimal numbers are digits of all bases up to 16.
LEMMA DecimalDigit ==
    ASSUME NEW i \in 0..9
    PROVE  /\ DigitChars[i + 1] \in DigitsOf(10)
           /\ DigitChars[i + 1] \in DigitsOf(16)
           /\ Digit(DigitChars[i + 1]) = i
<1>1. i + 1 \in 1..10 /\ i + 1 \in 1..16 /\ i + 1 - 1 = i
  OBVIOUS
<1>2. Digit(DigitChars[i + 1]) = i
  BY <1>1, DigitIs
<1>. QED BY <1>1, <1>2, Zenon DEF DigitsOf

DecimalEq ==
    \A m \in 0..Modulus :
        Decimal[m] = IF m < 10 THEN <<DigitChars[m + 1]>>
                     ELSE Append(Decimal[m \div 10], DigitChars[(m % 10) + 1])

LEMMA DecimalEquation == DecimalEq
<1> DEFINE V == Seq(DigitsOf(10))
           last == [c \in 1..Modulus |-> DigitChars[(c % 10) + 1]]
           up == [c \in 1..Modulus |-> c \div 10]
           g == [c \in 1..Modulus |-> [v \in V |->
                    IF c < 10 THEN <<DigitChars[c + 1]>> ELSE Append(v, last[c])]]
           Turn(f) == [m \in 0..Modulus |->
                    IF m < 10 THEN <<DigitChars[m + 1]>>
                    ELSE Append(f[m \div 10], DigitChars[(m % 10) + 1])]
<1>1. Modulus \in Nat
  BY WordSize
<1>2. \A c \in 1..Modulus : last[c] \in DigitsOf(10) /\ (c < 10 => DigitChars[c + 1] \in DigitsOf(10))
  <2>1. \A c \in 1..Modulus : c % 10 \in 0..9 /\ (c < 10 => c \in 0..9)
    BY <1>1
  <2>. QED BY <2>1, DecimalDigit
<1>3. g \in [1..Modulus -> [V -> V]]
  <2>1. ASSUME NEW c \in 1..Modulus, NEW v \in V
        PROVE  (IF c < 10 THEN <<DigitChars[c + 1]>> ELSE Append(v, last[c])) \in V
    <3> HIDE DEF last
    <3>. QED BY <1>2, <2>1
  <2> HIDE DEF V, last
  <2>. QED BY <2>1
<1>4. Descends(up, Modulus)
  <2>1. \A c \in 1..Modulus : c \div 10 \in Nat /\ c \div 10 < c
    BY <1>1
  <2>. QED BY <2>1 DEF Descends
<1>5. <<DigitChars[1]>> \in V
  <2>1. 0 \in 0..9 /\ DigitChars[0 + 1] \in DigitsOf(10)
    BY DecimalDigit
  <2>. QED BY <2>1
<1>6. PICK f \in [0..Modulus -> V] : Solution(f, Modulus, up, <<DigitChars[1]>>, g)
  <2> HIDE DEF V, up, g
  <2>. QED BY <1>1, <1>3, <1>4, <1>5, Recursion
<1>7. ASSUME NEW m \in 0..Modulus
      PROVE  f[m] = IF m < 10 THEN <<DigitChars[m + 1]>>
                    ELSE Append(f[m \div 10], DigitChars[(m % 10) + 1])
  <2>1. CASE m = 0
    <3>1. f[0] = <<DigitChars[1]>>
      <4>1. 0 \in 0..Modulus
        BY <1>1
      <4> HIDE DEF g, up
      <4>. QED BY <1>6, <4>1, Zenon DEF Solution
    <3>. QED BY <2>1, <3>1
  <2>2. CASE m # 0
    <3>1. m \in 1..Modulus /\ m \div 10 \in 0..Modulus
      BY <1>1, <2>2
    <3>2. f[m \div 10] \in V /\ up[m] = m \div 10 /\ last[m] = DigitChars[(m % 10) + 1]
      BY <1>6, <3>1
    <3>3. f[m] = g[m][f[up[m]]]
      BY <1>6, <2>2 DEF Solution
    <3> HIDE DEF V, last, up
    <3>4. \A v \in V : g[m][v] = IF m < 10 THEN <<DigitChars[m + 1]>> ELSE Append(v, last[m])
      BY <3>1, Zenon
    <3>. QED BY <3>2, <3>3, <3>4, Zenon
  <2>. QED BY <2>1, <2>2
<1>8. f = Turn(f)
  <2> HIDE DEF V
  <2>1. DOMAIN f = 0..Modulus
    BY <1>6
  <2>2. f = [m \in 0..Modulus |-> f[m]]
    BY <1>6
  <2>3. [m \in 0..Modulus |-> f[m]] = Turn(f)
    BY <1>7, Zenon
  <2>. QED BY <2>2, <2>3
<1>9. Decimal = CHOOSE h : h = Turn(h)
  BY Zenon DEF Decimal
<1>10. Decimal = Turn(Decimal)
  <2> HIDE DEF Turn
  <2>. QED BY <1>8, <1>9, Zenon
<1>11. ASSUME NEW m \in 0..Modulus PROVE Decimal[m] = Turn(Decimal)[m]
  BY <1>10
<1>. QED BY <1>11, Zenon DEF DecimalEq

LEMMA DecimalMeans ==
    ASSUME NEW n \in 0..Modulus
    PROVE  /\ Decimal[n] \in Seq(DigitsOf(10)) /\ Len(Decimal[n]) > 0
           /\ Magnitude(Decimal[n], 10) = n
<1> DEFINE Means(m) == /\ Decimal[m] \in Seq(DigitsOf(10)) /\ Len(Decimal[m]) > 0
                       /\ Magnitude(Decimal[m], 10) = m
           S == {m \in 0..Modulus : ~Means(m)}
<1>1. Modulus \in Nat /\ 10 \in Nat
  BY WordSize
<1>2. DigitsOf(10) \subseteq DigitsOf(16) /\ Seq(DigitsOf(10)) \subseteq Seq(DigitsOf(16))
  BY DigitFacts, SeqMonotonic
<1>3. ASSUME S # {} PROVE FALSE
  <2>1. PICK m \in S : \A y \in S : m <= y
    <3>1. S \in SUBSET Nat
      BY <1>1
    <3> HIDE DEF S
    <3>. QED BY <1>3, <3>1, LeastOf
  <2>2. m \in 0..Modulus /\ ~Means(m)
    BY <2>1
  <2>3. CASE m < 10
    <3>0. m \in 0..9
      BY <1>1, <2>2, <2>3
    <3>1. m \in 0..9 /\ Decimal[m] = <<DigitChars[m + 1]>>
      BY <2>2, <2>3, <3>0, DecimalEquation, Zenon DEF DecimalEq
    <3> DEFINE c == DigitChars[m + 1]
    <3>2. c \in DigitsOf(10) /\ c \in DigitsOf(16) /\ Digit(c) = m
      BY <3>1, DecimalDigit
    <3> HIDE DEF c
    <3>3. <<c>> = Append(<<>>, c) /\ <<c>> \in Seq(DigitsOf(10)) /\ Len(<<c>>) = 1 /\ <<>> \in Seq(DigitsOf(16))
      BY <3>2
    <3>4. Magnitude(<<>>, 10) = 0 /\ Magnitude(Append(<<>>, c), 10) = Magnitude(<<>>, 10) * 10 + Digit(c)
      BY <1>1, <3>2, <3>3, MagnitudeGrows
    <3>5. Magnitude(<<c>>, 10) = m
      <4>1. Magnitude(<<c>>, 10) = Magnitude(Append(<<>>, c), 10)
        BY <3>3
      <4>. QED BY <2>2, <3>2, <3>4, <4>1
    <3>. QED BY <2>2, <3>1, <3>3, <3>5 DEF c
  <2>4. CASE m >= 10
    <3> DEFINE q == m \div 10
               c == DigitChars[(m % 10) + 1]
    <3>1. q \in 0..Modulus /\ q < m /\ m % 10 \in 0..9 /\ m = q * 10 + (m % 10)
      BY <1>1, <2>2, <2>4
    <3>2. Decimal[m] = Append(Decimal[q], c)
      <4>1. ~(m < 10)
        BY <1>1, <2>2, <2>4
      <4>. QED BY <2>2, <4>1, DecimalEquation, Zenon DEF DecimalEq
    <3>3. c \in DigitsOf(10) /\ c \in DigitsOf(16) /\ Digit(c) = m % 10
      BY <3>1, DecimalDigit
    <3>4. ~(m <= q)
      BY <2>2, <3>1
    <3>5. Means(q)
      BY <2>1, <3>1, <3>4
    <3> HIDE DEF q, c
    <3>6. Decimal[q] \in Seq(DigitsOf(16))
      BY <1>2, <3>5
    <3>7. Magnitude(Append(Decimal[q], c), 10) = Magnitude(Decimal[q], 10) * 10 + Digit(c)
      BY <1>1, <3>3, <3>6, MagnitudeGrows
    <3>8. Magnitude(Decimal[m], 10) = m
      BY <3>1, <3>2, <3>3, <3>5, <3>7
    <3>9. Decimal[m] \in Seq(DigitsOf(10)) /\ Len(Decimal[m]) > 0
      <4>1. /\ Append(Decimal[q], c) \in Seq(DigitsOf(10))
            /\ Len(Append(Decimal[q], c)) = Len(Decimal[q]) + 1 /\ Len(Decimal[q]) \in Nat
        BY <3>3, <3>5, AppendProperties
      <4>. QED BY <3>2, <4>1
    <3>. QED BY <2>2, <3>8, <3>9
  <2>. QED BY <1>1, <2>2, <2>3, <2>4
<1>4. Means(n)
  BY <1>3
<1>. QED BY <1>4

-----------------------------------------------------------------------------
(* What strtoll and strtoull read.                                         *)

IsNegative(s) == Start(s) <= Len(s) /\ s[Start(s)] = Minus

LEMMA StrtoReads ==
    ASSUME NEW k, NEW s, NEW base
    PROVE  Strto(k, s, base) = Scanned(k, s, base, IsNegative(s), FirstDigit(s, FirstPlace(s), base))
<1> DEFINE i == Start(s)
<1>1. Strto(k, s, base) = SignRead(k, s, base, i)
  BY DEF Strto, Start
<1>2. CASE Signed(s)
  <2>1. i <= Len(s) /\ s[i] \in {Minus, Plus} /\ FirstPlace(s) = i + 1
    BY <1>2 DEF Signed, FirstPlace
  <2>2. SignRead(k, s, base, i) = Scanned(k, s, base, s[i] = Minus, FirstDigit(s, i + 1, base))
    BY <2>1, Zenon DEF SignRead
  <2>3. IsNegative(s) = (s[i] = Minus)
    BY <2>1 DEF IsNegative
  <2>. QED BY <1>1, <2>1, <2>2, <2>3, Zenon
<1>3. CASE ~Signed(s)
  <2>1. ~(i <= Len(s) /\ s[i] \in {Minus, Plus}) /\ FirstPlace(s) = i
    BY <1>3 DEF Signed, FirstPlace
  <2>2. SignRead(k, s, base, i) = Scanned(k, s, base, FALSE, FirstDigit(s, i, base))
    BY <2>1, Zenon DEF SignRead
  <2>3. IsNegative(s) = FALSE
    BY <2>1 DEF IsNegative
  <2>. QED BY <1>1, <2>1, <2>2, <2>3, Zenon
<1>. QED BY <1>2, <1>3

With(neg, mag) == IF neg THEN -mag ELSE mag

LEMMA ClampedExact ==
    ASSUME NEW k \in Kinds, NEW neg \in BOOLEAN, NEW mag \in Nat, NEW end
    PROVE  LET c == Clamped(k, neg, mag, end)
           IN /\ c.end = end /\ c.range \in BOOLEAN
              /\ k = "int64" => (c.range <=> With(neg, mag) \notin -Half..(Half - 1))
              /\ k = "uint64" => (c.range <=> mag >= Modulus)
              /\ ~c.range => c.n = With(neg, mag) % Modulus
<1>1. CASE k = "int64" /\ neg /\ mag > Half
  <2>1. ~(k = "int64" /\ ~neg /\ mag >= Half) /\ ~(k = "uint64" /\ mag >= Modulus)
    BY <1>1
  <2>2. Clamped(k, neg, mag, end) = [end |-> end, n |-> Half, range |-> TRUE]
    BY <1>1, <2>1, Zenon DEF Clamped
  <2>3. With(neg, mag) \notin -Half..(Half - 1)
    BY <1>1, WordSize DEF With
  <2>4. Clamped(k, neg, mag, end).range = TRUE /\ Clamped(k, neg, mag, end).end = end
    BY <2>2
  <2>5. k # "uint64"
    BY <1>1
  <2>. QED BY <2>3, <2>4, <2>5, Zenon
<1>2. CASE k = "int64" /\ ~neg /\ mag >= Half
  <2>1. ~(k = "int64" /\ neg /\ mag > Half) /\ ~(k = "uint64" /\ mag >= Modulus)
    BY <1>2
  <2>2. Clamped(k, neg, mag, end) = [end |-> end, n |-> Half - 1, range |-> TRUE]
    BY <1>2, <2>1, Zenon DEF Clamped
  <2>3. With(neg, mag) \notin -Half..(Half - 1)
    BY <1>2, WordSize DEF With
  <2>4. Clamped(k, neg, mag, end).range = TRUE /\ Clamped(k, neg, mag, end).end = end
    BY <2>2
  <2>5. k # "uint64"
    BY <1>2
  <2>. QED BY <2>3, <2>4, <2>5, Zenon
<1>3. CASE k = "uint64" /\ mag >= Modulus
  BY <1>3, WordSize DEF Clamped, With
<1>4. CASE /\ ~(k = "int64" /\ neg /\ mag > Half) /\ ~(k = "int64" /\ ~neg /\ mag >= Half)
           /\ ~(k = "uint64" /\ mag >= Modulus)
  <2>1. Clamped(k, neg, mag, end) = [end |-> end, n |-> (IF neg THEN -mag ELSE mag) % Modulus, range |-> FALSE]
    BY <1>4, Zenon DEF Clamped
  <2>2. k = "int64" => With(neg, mag) \in -Half..(Half - 1)
    BY <1>4, WordSize DEF With
  <2>3. k = "uint64" => ~(mag >= Modulus)
    BY <1>4
  <2>. QED BY <2>1, <2>2, <2>3 DEF With
<1>. QED BY <1>1, <1>2, <1>3, <1>4

LEMMA PartMagnitude ==
    ASSUME NEW C, NEW s \in Seq(C), NEW p \in Nat, NEW e \in Int, NEW base, NEW b \in Nat,
           EndsAt(s, p, DigitsOf(base), e), base \in {10, 16}
    PROVE  Magnitude(SubSeq(s, p, e - 1), b) \in Nat
<1>1. DigitsOf(base) \subseteq DigitsOf(16)
  BY DigitFacts
<1>2. \A j \in p..(e - 1) : s[j] \in DigitsOf(16)
  BY <1>1 DEF EndsAt
<1>3. SubSeq(s, p, e - 1) \in Seq(DigitsOf(16))
  <2>1. e - 1 \in Int
    OBVIOUS
  <2>. QED BY <1>2, <2>1, SubSeqProperties
<1>. QED BY <1>3, MagnitudeNat

LEMMA ZeroMagnitude ==
    ASSUME NEW C, NEW s \in Seq(C), NEW p \in 1..Len(s), s[p] = "0"
    PROVE  Magnitude(SubSeq(s, p, p), 10) = 0
<1> DEFINE d == SubSeq(s, p, p)
<1>1. "0" \in DigitsOf(16) /\ Digit("0") = 0
  <2>1. 0 \in 0..9 /\ DigitChars[0 + 1] = "0"
    BY DEF DigitChars
  <2>. QED BY <2>1, DecimalDigit
<1>2. Len(d) = 1 /\ d \in Seq(C) /\ d[1] = "0"
  <2>1. p \in Int /\ \A i \in p..p : s[i] \in C
    OBVIOUS
  <2>2. d \in Seq(C) /\ Len(d) = (IF p <= p THEN p - p + 1 ELSE 0) /\ \A i \in 1..(p - p + 1) : d[i] = s[p + i - 1]
    BY <2>1, SubSeqProperties
  <2>. QED BY <2>2
<1> HIDE DEF d
<1>3. d = Append(<<>>, "0") /\ <<>> \in Seq(DigitsOf(16)) /\ 10 \in Nat
  BY <1>2
<1>4. Magnitude(<<>>, 10) = 0 /\ Magnitude(Append(<<>>, "0"), 10) = Magnitude(<<>>, 10) * 10 + Digit("0")
  BY <1>1, <1>3, MagnitudeGrows
<1>5. Magnitude(Append(<<>>, "0"), 10) = 0
  BY <1>1, <1>4
<1>. QED BY <1>3, <1>5, Zenon DEF d

\* What ParsedAsMeant says of a text.
MeansOf(k, s) ==
    LET p == Parsed(k, s)
        digits == Unsign(Body(s))
        m == Meant(s)
    IN /\ p.ok \in BOOLEAN /\ p.range \in BOOLEAN
       /\ p.ok <=> IsDecimal(digits) \/ IsHex(digits)
       /\ p.ok => m \in Int
       /\ p.ok => (p.range <=> IF k = "int64" /\ IsDecimal(digits)
                               THEN m \notin -Half..(Half - 1)
                               ELSE Abs(m) >= Modulus)
       /\ p.ok /\ ~p.range => p.n = m % Modulus

LEMMA WithFacts ==
    ASSUME NEW neg \in BOOLEAN, NEW mag \in Nat
    PROVE  With(neg, mag) \in Int /\ Abs(With(neg, mag)) = mag
BY DEF With, Abs

LEMMA ParsedMeans ==
    ASSUME NEW C, NEW s \in Seq(C), NEW k \in Kinds
    PROVE  MeansOf(k, s)
<1> DEFINE n == Len(s)
           p == FirstPlace(s)
           t == LastPlace(s)
           d == SubSeq(s, p, t)
           neg == IsNegative(s)
           e == Behind(s, p, DigitsOf(10))
           f == Behind(s, e, {Space})
           dec == Strto(k, s, 10)
           hex == Strto("uint64", s, 16)
           isHex == dec.end <= n /\ s[dec.end] = "x"
           mag == Magnitude(SubSeq(s, p, e - 1), 10)
           r == Parsed(k, s)
<1>1. /\ n \in Nat /\ p \in 1..(n + 1) /\ t \in (p - 1)..n
      /\ \A j \in (t + 1)..n : s[j] = Space
      /\ p <= t => s[t] # Space
      /\ Unsign(Body(s)) = d
      /\ Negative(Body(s)) <=> neg
  BY BodyFound DEF IsNegative
<1>2. neg \in BOOLEAN
  BY DEF IsNegative
<1>3. /\ IsDecimal(d) <=> p <= t /\ \A j \in p..t : s[j] \in DigitsOf(10)
      /\ IsHex(d) <=> /\ p + 2 <= t /\ s[p] = "0" /\ s[p + 1] = "x"
                      /\ \A j \in (p + 2)..t : s[j] \in DigitsOf(16)
      /\ p + 2 <= t => SubSeq(d, 3, Len(d)) = SubSeq(s, p + 2, t)
  <2>1. p \in 1..(Len(s) + 1) /\ t \in (p - 1)..Len(s)
    BY <1>1
  <2> HIDE DEF p, t
  <2>2. PartDigits(s, p, t, d)
    BY <2>1, DigitsOfPart
  <2> HIDE DEF d
  <2>. QED BY <2>2, Zenon DEF PartDigits
<1>4. EndsAt(s, p, DigitsOf(10), e) /\ e \in p..(n + 1)
  <2>1. EndsAt(s, p, DigitsOf(10), e)
    BY <1>1, BehindEnds
  <2>. QED BY <2>1 DEF EndsAt
<1>5. EndsAt(s, e, {Space}, f) /\ f \in e..(n + 1)
  <2>1. e \in 1..(n + 1)
    BY <1>1, <1>4
  <2>2. EndsAt(s, e, {Space}, f)
    BY <1>1, <2>1, BehindEnds
  <2>. QED BY <2>2 DEF EndsAt
<1>6. /\ Space \notin DigitsOf(10) /\ Space \notin DigitsOf(16)
      /\ "x" \notin DigitsOf(10) /\ "x" \notin DigitsOf(16)
      /\ "0" \in DigitsOf(10) /\ DigitsOf(10) \subseteq DigitsOf(16)
  BY DigitFacts
<1>7. "x" # Space
  BY Zenon DEF Space
<1>8. /\ e # p /\ f > n <=> IsDecimal(d)
      /\ IsDecimal(d) => e = t + 1
  <2>1. /\ n \in Nat /\ p \in 1..(n + 1) /\ e \in Int /\ f \in Int /\ t \in 0..n
        /\ \A j \in (t + 1)..n : s[j] = Space
        /\ p <= t => s[t] # Space
    BY <1>1, <1>4, <1>5
  <2> HIDE DEF p, t, d, e, f
  <2>2. ReadsTo(s, DigitsOf(10), p, t, e, f)
    BY <1>4, <1>5, <1>6, <2>1, ReadThrough
  <2>3. /\ e # p /\ f > n <=> p <= t /\ \A j \in p..t : s[j] \in DigitsOf(10)
        /\ p <= t /\ (\A j \in p..t : s[j] \in DigitsOf(10)) => e = t + 1
    BY <2>2, Zenon DEF ReadsTo
  <2>. QED BY <1>3, <2>3, Zenon
<1>9. dec = IF e = p THEN [end |-> 1, n |-> 0, range |-> FALSE] ELSE Clamped(k, neg, mag, e)
  <2>1. FirstDigit(s, p, 10) = p
    BY DEF FirstDigit
  <2>. QED BY <2>1, StrtoReads DEF Scanned
<1>10. /\ r.ok \in BOOLEAN /\ r.range \in BOOLEAN
       /\ r.ok <=> dec.end # 1 /\ Behind(s, IF isHex THEN hex.end ELSE dec.end, {Space}) > n
       /\ r.n = IF isHex THEN hex.n ELSE dec.n
       /\ r.range <=> dec.range \/ (isHex /\ hex.range)
  <2>1. /\ r.ok = (dec.end # 1 /\ Behind(s, IF isHex THEN hex.end ELSE dec.end, {Space}) > n)
        /\ r.n = IF isHex THEN hex.n ELSE dec.n
        /\ r.range = (dec.range \/ (isHex /\ hex.range))
    BY Zenon DEF Parsed, Judged
  <2> HIDE DEF r, dec, hex, isHex
  <2>. QED BY <2>1, Zenon
<1>11. /\ IsDecimal(d) /\ ~IsHex(d) => Meant(s) = With(neg, Magnitude(d, 10))
       /\ IsHex(d) => Meant(s) = With(neg, Magnitude(SubSeq(s, p + 2, t), 16))
  <2>1. Meant(s) = With(neg, IF IsHex(d) THEN Magnitude(SubSeq(d, 3, Len(d)), 16) ELSE Magnitude(d, 10))
    BY <1>1, Zenon DEF Meant, With
  <2>2. IsHex(d) => SubSeq(d, 3, Len(d)) = SubSeq(s, p + 2, t)
    BY <1>3
  <2>. QED BY <2>1, <2>2, Zenon
<1>12. mag \in Nat
  <2>1. p \in Nat /\ e \in Int /\ 10 \in Nat /\ 10 \in {10, 16}
    BY <1>1, <1>4
  <2>. QED BY <1>4, <2>1, PartMagnitude
<1>13. ASSUME s[p] = "0", s[p + 1] = "x", p + 1 <= n PROVE e = p + 1
  <2>1. EndsAt(s, p, DigitsOf(10), p + 1)
    <3>1. n \in Nat /\ p \in Int /\ s[p] \in DigitsOf(10) /\ s[p + 1] \notin DigitsOf(10) /\ p + 1 <= n
      BY <1>1, <1>6, <1>13
    <3> HIDE DEF p
    <3>. QED BY <3>1, OneRead
  <2>2. p \in Int /\ n \in Nat
    BY <1>1
  <2>. QED BY <1>4, <2>1, <2>2, EndsOnce
<1> DEFINE m == Meant(s)
           Judgement == /\ r.ok <=> IsDecimal(d) \/ IsHex(d)
                        /\ r.ok => m \in Int
                        /\ r.ok => (r.range <=> IF k = "int64" /\ IsDecimal(d)
                                                THEN m \notin -Half..(Half - 1)
                                                ELSE Abs(m) >= Modulus)
                        /\ r.ok /\ ~r.range => r.n = m % Modulus
<1>14. SUFFICES Judgement
  <2>1. r.ok \in BOOLEAN /\ r.range \in BOOLEAN
    BY <1>10, Zenon
  <2> HIDE DEF d, r
  <2>2. Unsign(Body(s)) = d
    BY <1>1
  <2>. QED BY <2>1, <2>2, Zenon DEF MeansOf, r
<1>15. CASE e = p
  <2>1. dec.end = 1
    BY <1>9, <1>15
  <2>2. ~r.ok
    BY <1>10, <2>1, Zenon
  <2>3. ~IsDecimal(d)
    BY <1>8, <1>15
  <2>4. ~IsHex(d)
    <3>1. p <= n => s[p] \notin DigitsOf(10)
      BY <1>4, <1>15 DEF EndsAt
    <3>2. IsHex(d) => p <= n /\ s[p] = "0"
      <4> HIDE DEF d, p, t, n
      <4>. QED BY <1>1, <1>3
    <3>. QED BY <1>6, <3>1, <3>2
  <2>. QED BY <2>2, <2>3, <2>4
<1>16. CASE e # p
  <2>1. dec = Clamped(k, neg, mag, e)
    BY <1>9, <1>16, Zenon
  <2>2. /\ dec.end = e /\ dec.range \in BOOLEAN
        /\ k = "int64" => (dec.range <=> With(neg, mag) \notin -Half..(Half - 1))
        /\ k = "uint64" => (dec.range <=> mag >= Modulus)
        /\ ~dec.range => dec.n = With(neg, mag) % Modulus
    <3> HIDE DEF neg, mag, e, dec
    <3>. QED BY <1>2, <1>12, <2>1, ClampedExact
  <2>3. dec.end # 1 /\ e > p
    <3> HIDE DEF e, p, n, dec
    <3>. QED BY <1>1, <1>4, <1>16, <2>2
  <2>4. With(neg, mag) \in Int /\ Abs(With(neg, mag)) = mag
    <3> HIDE DEF neg, mag
    <3>. QED BY <1>2, <1>12, WithFacts
  <2>5. CASE ~isHex
    <3>1. (r.ok <=> f > n) /\ r.n = dec.n /\ (r.range <=> dec.range)
      <4>1. (IF isHex THEN hex.end ELSE dec.end) = dec.end /\ (IF isHex THEN hex.n ELSE dec.n) = dec.n
        BY <2>5, Zenon
      <4> HIDE DEF isHex, dec, hex, r, n
      <4>2. r.ok <=> Behind(s, dec.end, {Space}) > n
        BY <1>10, <2>3, <4>1, Zenon
      <4>3. Behind(s, dec.end, {Space}) = f
        BY <2>2, Zenon
      <4>4. r.range <=> dec.range
        BY <1>10, <2>5, Zenon
      <4>. QED BY <1>10, <4>1, <4>2, <4>3, <4>4, Zenon
    <3>2. ~IsHex(d)
      <4>1. ASSUME IsHex(d) PROVE isHex
        <5>1. s[p] = "0" /\ s[p + 1] = "x" /\ p + 1 <= n
          <6> HIDE DEF d, p, t, n
          <6>. QED BY <1>1, <1>3, <4>1
        <5>2. e = p + 1
          BY <1>13, <5>1
        <5>. QED BY <2>2, <5>1, <5>2
      <4>. QED BY <2>5, <4>1
    <3>3. r.ok <=> IsDecimal(d)
      BY <1>8, <1>16, <3>1
    <3>4. SUFFICES ASSUME IsDecimal(d) PROVE Judgement
      BY <3>2, <3>3, Zenon
    <3>5. m = With(neg, mag)
      <4>1. e - 1 = t
        <5> HIDE DEF d, t, e, p, n
        <5>. QED BY <1>1, <1>8, <3>4
      <4>2. d = SubSeq(s, p, e - 1)
        <5> HIDE DEF e, p, t
        <5>. QED BY <4>1, Zenon
      <4>. QED BY <1>11, <3>2, <3>4, <4>2, Zenon
    <3> HIDE DEF m, neg, mag, d, r, dec
    <3>. QED BY <2>2, <2>4, <3>1, <3>2, <3>3, <3>4, <3>5 DEF Kinds
  <2>6. CASE isHex
    <3>1. e <= n /\ s[e] = "x" /\ e - 1 \in p..(e - 1)
      <4>1. e <= n /\ s[e] = "x"
        BY <2>2, <2>6, Zenon
      <4> HIDE DEF e, p, n
      <4>. QED BY <1>1, <1>4, <2>3, <4>1
    <3>2. f = e /\ ~IsDecimal(d)
      <4>1. f > e => s[e] = Space
        <5>1. \A j \in e..(f - 1) : s[j] = Space
          BY <1>5 DEF EndsAt
        <5> HIDE DEF e, f, p
        <5>. QED BY <1>1, <1>4, <1>5, <5>1
      <4> HIDE DEF e, f, n, d, p
      <4>2. f = e
        BY <1>1, <1>4, <1>5, <1>7, <3>1, <4>1
      <4>. QED BY <1>1, <1>4, <1>8, <3>1, <4>2
    <3> DEFINE prefix == p + 2 <= n /\ s[p] = "0" /\ s[p + 1] = "x" /\ s[p + 2] \in DigitsOf(16)
    <3>3. CASE ~prefix
      <4>1. FirstDigit(s, p, 16) = p
        BY <3>3, Zenon DEF FirstDigit
      <4>2. Behind(s, p, DigitsOf(16)) = e
        <5>1. EndsAt(s, p, DigitsOf(16), e)
          <6>1. e \in p..(Len(s) + 1) /\ \A j \in p..(e - 1) : s[j] \in DigitsOf(10)
            BY <1>4 DEF EndsAt
          <6>2. e <= Len(s) => s[e] \notin DigitsOf(16)
            BY <1>6, <3>1
          <6> HIDE DEF e, p
          <6>. QED BY <1>6, <6>1, <6>2, Zenon DEF EndsAt
        <5> HIDE DEF e, p
        <5>. QED BY <1>1, <5>1, BehindIs
      <4>3. hex = Clamped("uint64", neg, Magnitude(SubSeq(s, p, e - 1), 16), e)
        <5>1. hex = Scanned("uint64", s, 16, neg, p)
          BY <4>1, StrtoReads, Zenon
        <5>. QED BY <1>16, <4>2, <5>1, Zenon DEF Scanned
      <4>4. hex.end = e
        <5>1. Magnitude(SubSeq(s, p, e - 1), 16) \in Nat
          <6>1. EndsAt(s, p, DigitsOf(16), e)
            BY <1>1, <4>2, BehindEnds
          <6>2. p \in Nat /\ e \in Int /\ 16 \in Nat /\ 16 \in {10, 16}
            BY <1>1, <1>4
          <6> HIDE DEF p, e
          <6>. QED BY <6>1, <6>2, PartMagnitude
        <5>2. "uint64" \in Kinds
          BY DEF Kinds
        <5> HIDE DEF neg, e, p, hex
        <5>. QED BY <1>2, <4>3, <5>1, <5>2, ClampedExact
      <4>5. ~r.ok
        <5>1. (IF isHex THEN hex.end ELSE dec.end) = e
          BY <2>6, <4>4, Zenon
        <5>2. r.ok => f > n
          <6> HIDE DEF r, hex, dec, isHex, n
          <6>. QED BY <1>10, <5>1, Zenon
        <5> HIDE DEF f, n, e, r, p
        <5>. QED BY <1>1, <1>4, <3>1, <3>2, <5>2
      <4>6. ~IsHex(d)
        <5>1. IsHex(d) => p + 2 \in (p + 2)..t /\ p + 2 <= n
          <6> HIDE DEF p, t, n, d
          <6>. QED BY <1>1, <1>3
        <5> HIDE DEF d
        <5>. QED BY <1>3, <3>3, <5>1, Zenon
      <4>. QED BY <3>2, <4>5, <4>6
    <3>4. CASE prefix
      <4> DEFINE h == Behind(s, p + 2, DigitsOf(16))
                 g == Behind(s, h, {Space})
                 hmag == Magnitude(SubSeq(s, p + 2, h - 1), 16)
      <4>1. FirstDigit(s, p, 16) = p + 2
        BY <3>4, Zenon DEF FirstDigit
      <4>2. p + 2 \in 1..(n + 1) /\ p + 2 \in Nat
        <5> HIDE DEF p, n
        <5>. QED BY <1>1, <3>4
      <4>3. EndsAt(s, p + 2, DigitsOf(16), h) /\ h \in (p + 2)..(n + 1) /\ h # p + 2
        <5>1. EndsAt(s, p + 2, DigitsOf(16), h)
          BY <1>1, <4>2, BehindEnds
        <5> HIDE DEF h, p
        <5>. QED BY <3>4, <5>1, Zenon DEF EndsAt
      <4>4. EndsAt(s, h, {Space}, g) /\ g \in h..(n + 1)
        <5>1. h \in 1..(n + 1)
          <6> HIDE DEF h, p, n
          <6>. QED BY <1>1, <4>2, <4>3
        <5>2. EndsAt(s, h, {Space}, g)
          BY <1>1, <5>1, BehindEnds
        <5> HIDE DEF h, g
        <5>. QED BY <5>2, Zenon DEF EndsAt
      <4>5. (h # p + 2 /\ g > n <=> IsHex(d)) /\ (IsHex(d) => h = t + 1)
        <5>1. /\ n \in Nat /\ p + 2 \in 1..(n + 1) /\ h \in Int /\ g \in Int /\ t \in 0..n
              /\ \A j \in (t + 1)..n : s[j] = Space
              /\ p + 2 <= t => s[t] # Space
          <6> HIDE DEF h, g, p, n, t
          <6>. QED BY <1>1, <4>2, <4>3, <4>4
        <5>2. ReadsTo(s, DigitsOf(16), p + 2, t, h, g)
          <6> HIDE DEF h, g, p, t
          <6>. QED BY <1>6, <4>3, <4>4, <5>1, ReadThrough
        <5> HIDE DEF h, g, p, t, d
        <5>. QED BY <1>3, <3>4, <5>2, Zenon DEF ReadsTo
      <4>6. hmag \in Nat
        <5>1. 16 \in Nat /\ 16 \in {10, 16} /\ h \in Int
          <6> HIDE DEF h, p, n
          <6>. QED BY <1>1, <4>3
        <5> HIDE DEF h, p
        <5>. QED BY <4>2, <4>3, <5>1, PartMagnitude
      <4>7. hex = Clamped("uint64", neg, hmag, h)
        <5>1. hex = Scanned("uint64", s, 16, neg, p + 2)
          BY <4>1, StrtoReads, Zenon
        <5>. QED BY <4>3, <5>1, Zenon DEF Scanned
      <4>8. /\ hex.end = h /\ hex.range \in BOOLEAN
            /\ hex.range <=> hmag >= Modulus
            /\ ~hex.range => hex.n = With(neg, hmag) % Modulus
        <5>1. "uint64" \in Kinds
          BY DEF Kinds
        <5> HIDE DEF neg, hmag, h, hex
        <5>. QED BY <1>2, <4>6, <4>7, <5>1, ClampedExact
      <4>9. ~dec.range
        <5>1. e = p + 1 /\ p \in 1..Len(s)
          <6>1. s[p] = "0" /\ s[p + 1] = "x" /\ p + 1 <= n /\ p \in 1..n
            <7> HIDE DEF p, n
            <7>. QED BY <1>1, <3>4
          <6>. QED BY <1>13, <6>1
        <5>2. e - 1 = p
          <6> HIDE DEF e, p
          <6>. QED BY <5>1
        <5>3. mag = 0
          <6>1. Magnitude(SubSeq(s, p, p), 10) = 0
            <7> HIDE DEF p
            <7>. QED BY <3>4, <5>1, ZeroMagnitude
          <6> HIDE DEF e, p
          <6>. QED BY <5>2, <6>1, Zenon
        <5> HIDE DEF mag, neg, dec
        <5>. QED BY <2>2, <5>3, WordSize DEF With, Kinds
      <4>10. (r.ok <=> g > n) /\ r.n = hex.n /\ (r.range <=> hex.range)
        <5>1. (IF isHex THEN hex.end ELSE dec.end) = h /\ (IF isHex THEN hex.n ELSE dec.n) = hex.n
          BY <2>6, <4>8, Zenon
        <5> HIDE DEF isHex, dec, hex, r, n, h
        <5>. QED BY <1>10, <2>3, <2>6, <4>9, <5>1, Zenon
      <4>11. r.ok <=> IsHex(d)
        BY <4>3, <4>5, <4>10, Zenon
      <4>12. SUFFICES ASSUME IsHex(d) PROVE Judgement
        BY <3>2, <4>11, Zenon
      <4>13. m = With(neg, hmag)
        <5>1. h - 1 = t
          <6> HIDE DEF d, t, h, p, n
          <6>. QED BY <1>1, <4>5, <4>12
        <5>2. m = With(neg, Magnitude(SubSeq(s, p + 2, t), 16))
          BY <1>11, <4>12, Zenon
        <5> HIDE DEF h, p, t, m
        <5>. QED BY <5>1, <5>2, Zenon
      <4>14. With(neg, hmag) \in Int /\ Abs(With(neg, hmag)) = hmag
        <5> HIDE DEF neg, hmag
        <5>. QED BY <1>2, <4>6, WithFacts
      <4> HIDE DEF m, neg, hmag, d, r, hex
      <4>. QED BY <3>2, <4>8, <4>10, <4>11, <4>12, <4>13, <4>14
    <3>. QED BY <3>3, <3>4
  <2>. QED BY <2>5, <2>6
<1>. QED BY <1>15, <1>16

-----------------------------------------------------------------------------
(* What is printed is read back.                                           *)

LEMMA BareBody ==
    ASSUME NEW C, NEW s \in Seq(C), Len(s) > 0, s[1] # Space, s[Len(s)] # Space
    PROVE  Body(s) = s
<1> DEFINE t == Len(s) + 1 - Behind(Reverse(s), 1, {Space})
<1>1. Start(s) = 1
  <2>1. Start(s) \in 1..(Len(s) + 1) /\ \A j \in 1..(Start(s) - 1) : s[j] = Space
    BY StartFound
  <2>. QED BY <2>1
<1>2. t = Len(s)
  <2>1. t \in 0..Len(s) /\ \A j \in (t + 1)..Len(s) : s[j] = Space
    BY LastFound
  <2> HIDE DEF t
  <2>. QED BY <2>1
<1>3. Body(s) = SubSeq(s, 1, Len(s))
  <2>1. Body(s) = SubSeq(s, Start(s), t)
    BY Zenon DEF Body, Start
  <2> HIDE DEF t
  <2>. QED BY <1>1, <1>2, <2>1, Zenon
<1>. QED BY <1>3, SubSeqFull

\* The digits that are printed for v, behind the sign.
LEMMA SignedDigits ==
    ASSUME NEW d \in Seq(DigitsOf(10)), Len(d) > 0, NEW s, NEW neg \in BOOLEAN,
           s = IF neg THEN <<Minus>> \o d ELSE d
    PROVE  /\ s \in Seq(DigitsOf(10) \cup {Minus})
           /\ Unsign(Body(s)) = d /\ (Negative(Body(s)) <=> neg)
           /\ IsDecimal(d) /\ ~IsHex(d)
<1> DEFINE C == DigitsOf(10) \cup {Minus}
<1>1. Space \notin C /\ Minus \notin DigitsOf(10) /\ Plus \notin DigitsOf(10) /\ "x" \notin DigitsOf(10)
  <2>1. Space # Minus
    BY Zenon DEF Space, Minus
  <2>. QED BY <2>1, DigitFacts
<1>2. /\ d \in Seq(C) /\ Len(d) \in Nat /\ d # <<>>
      /\ \A i \in 1..Len(d) : d[i] \in DigitsOf(10)
  <2>1. Seq(DigitsOf(10)) \subseteq Seq(C)
    BY SeqMonotonic
  <2>. QED BY <2>1
<1>3. IsDecimal(d)
  <2>1. DOMAIN d = 1..Len(d)
    OBVIOUS
  <2>2. ToSet(d) \subseteq DigitsOf(10)
    BY <1>2, <2>1, Zenon DEF ToSet
  <2>. QED BY <1>2, <2>2 DEF IsDecimal
<1>4. ~IsHex(d)
  <2>1. ASSUME Len(d) > 2, SubSeq(d, 1, 2) = <<"0", "x">> PROVE FALSE
    <3>1. \A i \in 1..2 : d[i] \in DigitsOf(10)
      BY <1>2, <2>1
    <3>2. \A i \in 1..(2 - 1 + 1) : SubSeq(d, 1, 2)[i] = d[1 + i - 1]
      BY <3>1, SubSeqProperties
    <3>3. SubSeq(d, 1, 2)[2] = d[2]
      BY <3>2
    <3>4. <<"0", "x">>[2] = "x"
      OBVIOUS
    <3>5. d[2] = "x"
      BY <2>1, <3>3, <3>4, Zenon
    <3>. QED BY <1>1, <3>1, <3>5
  <2>. QED BY <2>1, Zenon DEF IsHex
<1>5. CASE ~neg
  <2>1. s = d
    BY <1>5
  <2>2. 1 \in 1..Len(d) /\ Len(d) \in 1..Len(d)
    BY <1>2
  <2>3. d[1] \in DigitsOf(10) /\ d[1] # Space /\ d[Len(d)] # Space
    BY <1>1, <1>2, <2>2
  <2>4. Body(s) = d
    BY <1>2, <2>1, <2>3, BareBody
  <2>5. Unsign(d) = d /\ ~Negative(d)
    BY <1>1, <2>3 DEF Unsign, Negative
  <2>. QED BY <1>2, <1>3, <1>4, <1>5, <2>1, <2>4, <2>5, Zenon
<1>6. CASE neg
  <2> DEFINE q == <<Minus>>
             e == q \o d
  <2>1. q \in Seq(C) /\ Len(q) = 1 /\ q[1] = Minus
    OBVIOUS
  <2>2. /\ s \in Seq(C) /\ Len(s) = 1 + Len(d) /\ s[1] = Minus
        /\ \A i \in 1..Len(d) : s[i + 1] = d[i]
    <3>1. /\ e \in Seq(C) /\ Len(e) = Len(q) + Len(d)
          /\ \A i \in 1..(Len(q) + Len(d)) : e[i] = IF i <= Len(q) THEN q[i] ELSE d[i - Len(q)]
      <4> HIDE DEF q
      <4>. QED BY <1>2, <2>1, ConcatProperties
    <3>2. s = e
      BY <1>6
    <3> HIDE DEF q, e
    <3>3. Len(e) = 1 + Len(d) /\ e[1] = Minus
      BY <1>2, <2>1, <3>1
    <3>4. \A i \in 1..Len(d) : e[i + 1] = d[i]
      BY <1>2, <2>1, <3>1
    <3>. QED BY <3>1, <3>2, <3>3, <3>4, Zenon
  <2>3. s[Len(s)] \in DigitsOf(10)
    <3>1. Len(d) \in 1..Len(d) /\ Len(s) = Len(d) + 1
      BY <1>2, <2>2
    <3>. QED BY <1>2, <2>2, <3>1
  <2>4. Body(s) = s
    <3>1. Len(s) > 0 /\ s[1] # Space /\ s[Len(s)] # Space
      BY <1>1, <1>2, <2>2, <2>3
    <3>. QED BY <2>2, <3>1, BareBody
  <2>5. s # <<>> /\ Tail(s) = d
    <3>1. s # <<>>
      BY <1>2, <2>2
    <3>2. /\ Tail(s) \in Seq(C) /\ Len(Tail(s)) = Len(s) - 1
          /\ \A i \in 1..Len(Tail(s)) : Tail(s)[i] = s[i + 1]
      BY <2>2, <3>1, HeadTailProperties
    <3>3. Len(Tail(s)) = Len(d)
      BY <1>2, <2>2, <3>2
    <3>4. \A i \in 1..Len(Tail(s)) : Tail(s)[i] = d[i]
      BY <2>2, <3>2, <3>3
    <3>. QED BY <1>2, <3>1, <3>2, <3>3, <3>4, SeqEqual
  <2>6. Unsign(s) = d /\ Negative(s)
    BY <2>2, <2>5, Zenon DEF Unsign, Negative
  <2>. QED BY <1>3, <1>4, <1>6, <2>2, <2>4, <2>6, Zenon
<1>. QED BY <1>5, <1>6

LEMMA PrintedParsed ==
    ASSUME NEW k \in Kinds, NEW n \in Words
    PROVE  Parsed(k, Printed(k, n)) = [ok |-> TRUE, n |-> n, range |-> FALSE]
<1> DEFINE v == Value(k, n)
           w == IF v < 0 THEN -v ELSE v
           d == Decimal[w]
           s == Printed(k, n)
           r == Parsed(k, s)
<1>1. /\ v \in Int /\ v % Modulus = n /\ -Modulus <= v /\ v <= Modulus
      /\ k = "int64" => v \in -Half..(Half - 1)
      /\ k # "int64" => v = n
  BY WordOfValue
<1>2. w \in 0..Modulus
  <2> HIDE DEF v
  <2>. QED BY <1>1, WordSize
<1>3. d \in Seq(DigitsOf(10)) /\ Len(d) > 0 /\ Magnitude(d, 10) = w
  <2> HIDE DEF w
  <2>. QED BY <1>2, DecimalMeans
<1>4. s = IF v < 0 THEN <<Minus>> \o d ELSE d
  <2>1. CASE v < 0
    BY <2>1, Zenon DEF Printed
  <2>2. CASE ~(v < 0)
    BY <2>2, Zenon DEF Printed
  <2>. QED BY <2>1, <2>2
<1>5. /\ s \in Seq(DigitsOf(10) \cup {Minus})
      /\ Unsign(Body(s)) = d /\ (Negative(Body(s)) <=> v < 0)
      /\ IsDecimal(d) /\ ~IsHex(d)
  <2>1. (v < 0) \in BOOLEAN
    OBVIOUS
  <2> HIDE DEF d, s, v
  <2>. QED BY <1>3, <1>4, <2>1, SignedDigits
<1>6. Meant(s) = v
  <2>1. Meant(s) = IF v < 0 THEN -Magnitude(d, 10) ELSE Magnitude(d, 10)
    <3> HIDE DEF s, d, v
    <3>. QED BY <1>5, Zenon DEF Meant
  <2> HIDE DEF s, d
  <2>2. Meant(s) = IF v < 0 THEN -w ELSE w
    BY <1>3, <2>1, Zenon
  <2> HIDE DEF v
  <2>. QED BY <1>1, <2>2
<1>7. MeansOf(k, s)
  <2> HIDE DEF s
  <2>. QED BY <1>5, ParsedMeans
<1>8. /\ r.ok
      /\ r.range <=> IF k = "int64" THEN v \notin -Half..(Half - 1) ELSE Abs(v) >= Modulus
      /\ ~r.range => r.n = v % Modulus
      /\ r.ok \in BOOLEAN /\ r.range \in BOOLEAN
  <2> HIDE DEF s, d, v
  <2>. QED BY <1>5, <1>6, <1>7, Zenon DEF MeansOf
<1>9. ~r.range
  <2> HIDE DEF r, v
  <2>1. k # "int64" => ~(Abs(v) >= Modulus)
    BY <1>1, WordSize DEF Abs, Words
  <2>. QED BY <1>1, <1>8, <2>1, Zenon
<1>10. r = [ok |-> r.ok, n |-> r.n, range |-> r.range]
  BY DEF Parsed, Judged
<1> HIDE DEF r, v
<1>11. r.ok = TRUE /\ r.range = FALSE /\ r.n = n
  BY <1>1, <1>8, <1>9, Zenon
<1>. QED BY <1>10, <1>11, Zenon DEF r

-----------------------------------------------------------------------------
(* The script's integer.                                                   *)

IntInv == IntTypeOK /\ ChainsExact

LEMMA IntInitInv == ASSUME IntInit PROVE IntInv
<1>1. IntTypeOK
  <2>1. MaxText \in Nat
    BY Int64Assumption, Zenon
  <2>2. 0 \in Words
    BY WordSize DEF Words
  <2>3. text = <<>> /\ <<>> \in Seq(Chars) /\ Len(<<>>) = 0
    BY DEF IntInit
  <2>4. text \in Seq(Chars) /\ Len(text) <= MaxText
    BY <2>1, <2>3
  <2>5. /\ kind \in Kinds /\ acc = [kind |-> "none", n |-> 0] /\ exact = 0
        /\ notAbove = FALSE /\ fault = "none"
    BY DEF IntInit
  <2>6. acc \in [kind : Kinds \cup {"none"}, n : Words]
    BY <2>2, <2>5
  <2>. QED BY <2>2, <2>4, <2>5, <2>6, Zenon DEF IntTypeOK
<1>2. ChainsExact
  BY DEF IntInit, ChainsExact
<1>. QED BY <1>1, <1>2 DEF IntInv

LEMMA TypeStep ==
    ASSUME IntInv, NEW c \in Chars, Type(c)
    PROVE  IntInv'
<1>1. text' \in Seq(Chars) /\ Len(text') <= MaxText
  <2>1. MaxText \in Nat
    BY Int64Assumption, Zenon
  <2>2. text \in Seq(Chars) /\ Len(text) < MaxText /\ text' = Append(text, c)
    BY DEF IntInv, IntTypeOK, Type
  <2>. QED BY <2>1, <2>2
<1>2. UNCHANGED <<kind, acc, exact, notAbove, fault>>
  BY DEF Type
<1>. QED BY <1>1, <1>2, Zenon DEF IntInv, IntTypeOK, ChainsExact

LEMMA NewFromTextStep ==
    ASSUME IntInv, NewFromText
    PROVE  IntInv'
<1> DEFINE p == Parsed(kind, text)
           m == Meant(text)
<1>1. kind \in Kinds /\ text \in Seq(Chars)
  BY DEF IntInv, IntTypeOK
<1>2. p.ok /\ ~p.range => m \in Int /\ p.n = m % Modulus
  <2>1. MeansOf(kind, text)
    BY <1>1, ParsedMeans
  <2>. QED BY <2>1, Zenon DEF MeansOf
<1>3. text' = <<>> /\ UNCHANGED <<kind, notAbove>>
  BY DEF NewFromText
<1>4. text' \in Seq(Chars) /\ Len(text') <= MaxText
  <2>1. MaxText \in Nat
    BY Int64Assumption, Zenon
  <2>. QED BY <1>3, <2>1
<1>5. CASE p.ok /\ ~p.range
  <2>1. acc' = [kind |-> kind, n |-> p.n] /\ exact' = m % Modulus /\ UNCHANGED fault
    BY <1>5, Zenon DEF NewFromText
  <2> HIDE DEF p, m
  <2>2. exact' \in Words /\ acc' = [kind |-> kind, n |-> exact']
    BY <1>2, <1>5, <2>1, Wrapped
  <2>3. acc' \in [kind : Kinds \cup {"none"}, n : Words]
    BY <1>1, <2>2
  <2>4. IntTypeOK'
    BY <1>3, <1>4, <2>1, <2>2, <2>3, Zenon DEF IntInv, IntTypeOK
  <2>5. ChainsExact'
    BY <1>3, <2>2, Zenon DEF ChainsExact
  <2>. QED BY <2>4, <2>5 DEF IntInv
<1>6. CASE ~(p.ok /\ ~p.range)
  <2>1. fault' \in {"large", "no number"} /\ UNCHANGED <<acc, exact>>
    <3>1. fault' = (IF p.ok THEN "large" ELSE "no number") /\ UNCHANGED <<acc, exact>>
      BY <1>6, Zenon DEF NewFromText
    <3> HIDE DEF p
    <3>. QED BY <3>1
  <2>2. IntTypeOK'
    BY <1>3, <1>4, <2>1, Zenon DEF IntInv, IntTypeOK
  <2>3. ChainsExact'
    BY <1>3, <2>1, Zenon DEF IntInv, ChainsExact
  <2>. QED BY <2>2, <2>3 DEF IntInv
<1>. QED BY <1>5, <1>6

LEMMA NewFromHalvesStep ==
    ASSUME IntInv, NEW low \in Int, NEW high \in Int, NewFromHalves(low, high)
    PROVE  IntInv'
<1> DEFINE n == FromHalves(low, high)
<1>1. UNCHANGED <<kind, text, notAbove>>
  BY DEF NewFromHalves
<1>2. CASE {low, high} \subseteq 0..(HalfModulus - 1)
  <2>1. acc' = [kind |-> kind, n |-> n] /\ exact' = n /\ UNCHANGED fault
    BY <1>2, Zenon DEF NewFromHalves
  <2>2. n \in Words
    <3>1. low + high * HalfModulus \in Int
      BY WordSize
    <3>. QED BY <3>1, Wrapped DEF FromHalves
  <2> HIDE DEF n
  <2>3. acc' \in [kind : Kinds \cup {"none"}, n : Words]
    BY <2>1, <2>2 DEF IntInv, IntTypeOK
  <2>4. IntTypeOK'
    BY <1>1, <2>1, <2>2, <2>3, Zenon DEF IntInv, IntTypeOK
  <2>5. ChainsExact'
    BY <1>1, <2>1, Zenon DEF ChainsExact
  <2>. QED BY <2>4, <2>5 DEF IntInv
<1>3. CASE ~({low, high} \subseteq 0..(HalfModulus - 1))
  <2>1. fault' = "range" /\ UNCHANGED <<acc, exact>>
    BY <1>3, Zenon DEF NewFromHalves
  <2>2. IntTypeOK'
    BY <1>1, <2>1, Zenon DEF IntInv, IntTypeOK
  <2>3. ChainsExact'
    BY <1>1, <2>1, Zenon DEF IntInv, ChainsExact
  <2>. QED BY <2>2, <2>3 DEF IntInv
<1>. QED BY <1>2, <1>3

\* The operands of a metamethod, in either order, and what they should be.
OperandsOf(l, r, el, er) ==
    \E v \in Seconds : \/ l = acc /\ r = v /\ el = exact /\ er = Exact(v)
                       \/ l = v /\ r = acc /\ el = Exact(v) /\ er = exact

(* Each kind reads the same word from a text that it does not refuse. *)
LEMMA TextRead ==
    ASSUME IntInv, NEW t \in OperandTexts, NEW v, v = [kind |-> "string", text |-> t]
    PROVE  /\ Exact(v) \in Words
           /\ \A k \in Kinds : /\ Refusal(k, v) \in {"none", "no number", "large"}
                               /\ Refusal(k, v) = "none" => Checked(k, v) = Exact(v)
<1> DEFINE m == Meant(t)
<1>1. kind \in Kinds
  BY DEF IntInv, IntTypeOK
<1>2. t \in Seq(Chars)
  BY Int64Assumption, Zenon
<1>3. ASSUME NEW k \in Kinds
      PROVE  LET p == Parsed(k, t)
             IN /\ p.ok <=> IsDecimal(Unsign(Body(t))) \/ IsHex(Unsign(Body(t)))
                /\ p.ok => m \in Int
                /\ p.ok /\ ~p.range => p.n = m % Modulus
  <2>1. MeansOf(k, t)
    BY <1>2, ParsedMeans
  <2>. QED BY <2>1, Zenon DEF MeansOf
<1>4. v.kind = "string" /\ v.text = t /\ "string" # "number" /\ "string" \notin Kinds
  BY DEF Kinds
<1>5. Exact(v) = IF Parsed(kind, t).ok THEN m % Modulus ELSE 0
  BY <1>4, Zenon DEF Exact
<1>6. ASSUME NEW k \in Kinds
      PROVE  LET p == Parsed(k, t)
             IN /\ Refusal(k, v) = IF ~p.ok THEN "no number" ELSE IF p.range THEN "large" ELSE "none"
                /\ Checked(k, v) = p.n
  <2>1. v.kind \notin {k, "number"}
    BY <1>4
  <2>. QED BY <1>4, <2>1, Zenon DEF Refusal, Checked
<1> HIDE DEF m
<1>7. Exact(v) \in Words
  <2>1. 0 \in Words
    BY WordSize DEF Words
  <2>2. Parsed(kind, t).ok => m % Modulus \in Words
    BY <1>1, <1>3, Wrapped, Zenon
  <2>. QED BY <1>5, <2>1, <2>2, Zenon
<1>8. ASSUME NEW k \in Kinds
      PROVE  /\ Refusal(k, v) \in {"none", "no number", "large"}
             /\ Refusal(k, v) = "none" => Checked(k, v) = Exact(v)
  <2> DEFINE p == Parsed(k, t)
  <2>1. /\ Refusal(k, v) = IF ~p.ok THEN "no number" ELSE IF p.range THEN "large" ELSE "none"
        /\ Checked(k, v) = p.n
    BY <1>6, Zenon
  <2>2. /\ p.ok <=> Parsed(kind, t).ok
        /\ p.ok /\ ~p.range => p.n = m % Modulus
    BY <1>1, <1>3, Zenon
  <2>3. p.ok => Exact(v) = m % Modulus
    BY <1>5, <2>2, Zenon
  <2> HIDE DEF p
  <2>. QED BY <2>1, <2>2, <2>3
<1>. QED BY <1>7, <1>8

LEMMA SecondRead ==
    ASSUME IntInv, NEW v \in Seconds
    PROVE  /\ v.kind \in {kind, "number", "string", "other"} /\ Exact(v) \in Words
           /\ \A k \in Kinds :
                 /\ Refusal(k, v) \in {"none", "no number", "large"}
                 /\ Refusal(k, v) = "none" => Checked(k, v) \in Words
                 /\ Refusal(k, v) = "none" /\ k = kind => Checked(k, v) = Exact(v)
<1>1. kind \in Kinds /\ 0 \in Words
  <2>1. kind \in Kinds
    BY DEF IntInv, IntTypeOK
  <2>2. 0 \in Words
    BY WordSize DEF Words
  <2>. QED BY <2>1, <2>2
<1>2. {"number", "string", "other"} \cap Kinds = {}
  BY DEF Kinds
<1>3. CASE v \in [kind : {"string"}, text : OperandTexts]
  <2>1. PICK t \in OperandTexts : v = [kind |-> "string", text |-> t]
    BY <1>3
  <2>2. v.kind = "string"
    BY <2>1
  <2>3. /\ Exact(v) \in Words
        /\ \A k \in Kinds : /\ Refusal(k, v) \in {"none", "no number", "large"}
                            /\ Refusal(k, v) = "none" => Checked(k, v) = Exact(v)
    BY <2>1, TextRead, Zenon
  <2>4. v.kind \in {kind, "number", "string", "other"}
    BY <2>2
  <2>5. \A k \in Kinds : Refusal(k, v) = "none" => Checked(k, v) \in Words
    BY <2>3, Zenon
  <2>. QED BY <2>3, <2>4, <2>5, Zenon
<1>4. CASE v \in [kind : {kind, "number"}, n : Words]
  <2>1. v.kind \in {kind, "number"} /\ v.n \in Words
    BY <1>4
  <2>2. v.kind # "string" /\ v.kind # "other"
    BY <1>1, <1>2, <2>1
  <2>3. Exact(v) = v.n /\ \A k \in Kinds : Refusal(k, v) = "none"
    BY <2>2, Zenon DEF Exact, Refusal
  <2>4. \A k \in Kinds : Checked(k, v) \in {v.n, 0}
    BY <2>2, Zenon DEF Checked
  <2>5. Checked(kind, v) = v.n
    BY <2>1, <2>2 DEF Checked
  <2>. QED BY <1>1, <2>1, <2>3, <2>4, <2>5
<1>5. CASE v = [kind |-> "other"]
  <2>1. v.kind = "other" /\ v.kind # "string"
    BY <1>5
  <2>2. Exact(v) = 0 /\ \A k \in Kinds : Refusal(k, v) = "no number"
    BY <2>1, Zenon DEF Exact, Refusal
  <2>. QED BY <1>1, <2>1, <2>2
<1>6. \/ v \in [kind : {"string"}, text : OperandTexts] \/ v = [kind |-> "other"]
      \/ v \in [kind : {kind, "number"}, n : Words]
  <2>1. Operands \subseteq Words
    BY Int64Assumption, Zenon
  <2>. QED BY <2>1 DEF Seconds
<1>. QED BY <1>3, <1>4, <1>5, <1>6

LEMMA OperandsRead ==
    ASSUME IntInv, HasInteger, NEW l, NEW r, NEW el, NEW er, OperandsOf(l, r, el, er)
    PROVE  LET k == MethodKind(l, r)
           IN /\ k \in Kinds /\ (~notAbove => k = kind)
              /\ el \in Words /\ er \in Words
              /\ FirstRefusal(k, l, r) \in {"none", "no number", "large"}
              /\ FirstRefusal(k, l, r) = "none" => Checked(k, l) \in Words /\ Checked(k, r) \in Words
              /\ FirstRefusal(k, l, r) = "none" /\ ~notAbove => Checked(k, l) = el /\ Checked(k, r) = er
<1> DEFINE k == MethodKind(l, r)
<1>1. PICK v \in Seconds : \/ l = acc /\ r = v /\ el = exact /\ er = Exact(v)
                           \/ l = v /\ r = acc /\ el = Exact(v) /\ er = exact
  BY DEF OperandsOf
<1>2. /\ v.kind \in {kind, "number", "string", "other"} /\ Exact(v) \in Words
      /\ \A h \in Kinds : /\ Refusal(h, v) \in {"none", "no number", "large"}
                          /\ Refusal(h, v) = "none" => Checked(h, v) \in Words
                          /\ Refusal(h, v) = "none" /\ h = kind => Checked(h, v) = Exact(v)
  BY SecondRead
<1>3. kind \in Kinds /\ acc.kind \in Kinds /\ acc.n \in Words /\ exact \in Words
  BY DEF IntInv, IntTypeOK, HasInteger
<1>4. ~notAbove => acc.kind = kind /\ acc.n = exact
  BY DEF IntInv, ChainsExact, HasInteger
<1>5. 0 \in Words /\ {"number", "string", "other"} \cap Kinds = {}
  BY WordSize DEF Words, Kinds
<1>6. k \in Kinds /\ (~notAbove => k = kind)
  BY <1>1, <1>2, <1>3, <1>4, <1>5 DEF MethodKind
<1>7. \A h \in Kinds : /\ Refusal(h, acc) = "none" /\ Checked(h, acc) \in Words
                       /\ h = kind /\ ~notAbove => Checked(h, acc) = exact
  <2>1. acc.kind # "string" /\ acc.kind # "other"
    BY <1>3, <1>5
  <2>2. \A h \in Kinds : Refusal(h, acc) = "none" /\ Checked(h, acc) \in {acc.n, 0}
    BY <2>1, Zenon DEF Refusal, Checked
  <2>3. \A h \in Kinds : h = acc.kind => Checked(h, acc) = acc.n
    BY <2>1 DEF Checked
  <2>. QED BY <1>3, <1>4, <1>5, <2>2, <2>3
<1>8. Refusal(k, acc) = "none" /\ Checked(k, acc) \in Words /\ (~notAbove => Checked(k, acc) = exact)
  <2>1. /\ Refusal(k, acc) = "none" /\ Checked(k, acc) \in Words
        /\ k = kind /\ ~notAbove => Checked(k, acc) = exact
    BY <1>6, <1>7, Zenon
  <2>2. ~notAbove => k = kind
    BY <1>6, Zenon
  <2> HIDE DEF k
  <2>. QED BY <2>1, <2>2
<1>9. /\ Refusal(k, v) \in {"none", "no number", "large"}
      /\ Refusal(k, v) = "none" => Checked(k, v) \in Words /\ (~notAbove => Checked(k, v) = Exact(v))
  BY <1>2, <1>6, Zenon
<1> HIDE DEF k
<1>10. CASE l = acc /\ r = v /\ el = exact /\ er = Exact(v)
  <2>1. FirstRefusal(k, l, r) = Refusal(k, v)
    BY <1>8, <1>10 DEF FirstRefusal
  <2>2. /\ el \in Words /\ er \in Words
        /\ FirstRefusal(k, l, r) \in {"none", "no number", "large"}
        /\ FirstRefusal(k, l, r) = "none" => Checked(k, l) \in Words /\ Checked(k, r) \in Words
        /\ FirstRefusal(k, l, r) = "none" /\ ~notAbove => Checked(k, l) = el /\ Checked(k, r) = er
    BY <1>2, <1>3, <1>8, <1>9, <1>10, <2>1
  <2>. QED BY <1>6, <2>2, Zenon DEF k
<1>11. CASE l = v /\ r = acc /\ el = Exact(v) /\ er = exact
  <2>1. FirstRefusal(k, l, r) = Refusal(k, v)
    BY <1>8, <1>11 DEF FirstRefusal
  <2>2. /\ el \in Words /\ er \in Words
        /\ FirstRefusal(k, l, r) \in {"none", "no number", "large"}
        /\ FirstRefusal(k, l, r) = "none" => Checked(k, l) \in Words /\ Checked(k, r) \in Words
        /\ FirstRefusal(k, l, r) = "none" /\ ~notAbove => Checked(k, l) = el /\ Checked(k, r) = er
    BY <1>2, <1>3, <1>8, <1>9, <1>11, <2>1
  <2>. QED BY <1>6, <2>2, Zenon DEF k
<1>. QED BY <1>1, <1>10, <1>11, Zenon

LEMMA OperateStep ==
    ASSUME IntInv, NEW op \in Ops, NEW l, NEW r, NEW el, NEW er, OperandsOf(l, r, el, er),
           Operate(op, l, r, el, er)
    PROVE  IntInv'
<1> DEFINE k == MethodKind(l, r)
           i == Value(k, Checked(k, l))
           j == Value(k, Checked(k, r))
           divides == op \in {"div", "mod"}
           refusal == FirstRefusal(k, l, r)
<1>1. HasInteger /\ op \in Ops \ {"pow"} /\ UNCHANGED <<kind, text>>
  BY DEF Operate
<1>2. /\ k \in Kinds /\ el \in Words /\ er \in Words
      /\ ~notAbove => k = kind
      /\ refusal \in {"none", "no number", "large"}
      /\ refusal = "none" => Checked(k, l) \in Words /\ Checked(k, r) \in Words
      /\ refusal = "none" /\ ~notAbove => Checked(k, l) = el /\ Checked(k, r) = er
  BY <1>1, OperandsRead, Zenon
<1>3. ASSUME UNCHANGED <<acc, exact, notAbove>>, fault' \in {"no number", "large", "zero", "trap"}
      PROVE  IntInv'
  <2>1. IntTypeOK'
    BY <1>1, <1>3, Zenon DEF IntInv, IntTypeOK
  <2>2. ChainsExact'
    BY <1>1, <1>3, Zenon DEF IntInv, ChainsExact
  <2>. QED BY <2>1, <2>2 DEF IntInv
<1>4. ASSUME refusal = "none", divides => j # 0,
             acc' = Computed(op, k, i, j),
             exact' = (IF divides /\ er = 0 THEN 0
                       ELSE Truth(op, Value(kind, el), Value(kind, er)) % Modulus),
             notAbove' = (notAbove \/ (op = "sub" /\ kind = "uint64" /\ el <= er)),
             UNCHANGED fault
      PROVE  IntInv'
  <2>1. i \in Int /\ j \in Int /\ Abs(i) <= Modulus
    <3>1. \A n \in Words : /\ Value(k, n) \in Int /\ -Modulus <= Value(k, n) /\ Value(k, n) <= Modulus
      BY WordOfValue
    <3>2. i \in Int /\ j \in Int /\ -Modulus <= i /\ i <= Modulus
      BY <1>2, <1>4, <3>1
    <3> HIDE DEF i, j
    <3>. QED BY <3>2, WordSize DEF Abs
  <2> DEFINE kk == IF op = "sub" /\ k = "uint64" /\ i <= j THEN "int64" ELSE k
             truth == Truth(op, Value(kind, el), Value(kind, er))
  <2>2. Truth(op, i, j) \in Int /\ acc' = Boxed(kk, Truth(op, i, j))
    <3> HIDE DEF i, j, k
    <3>1. /\ Truth(op, i, j) \in Int
          /\ Computed(op, k, i, j) =
               Boxed(IF op = "sub" /\ k = "uint64" /\ i <= j THEN "int64" ELSE k, Truth(op, i, j))
      BY <1>1, <1>4, <2>1, ComputedTruth
    <3>. QED BY <1>4, <3>1, Zenon
  <2>3. kk \in Kinds
    <3> HIDE DEF i, j, k
    <3>. QED BY <1>2 DEF Kinds
  <2>4. acc' = [kind |-> kk, n |-> Truth(op, i, j) % Modulus] /\ Truth(op, i, j) % Modulus \in Words
    BY <2>2, Wrapped, Zenon DEF Boxed
  <2>5. acc' \in [kind : Kinds \cup {"none"}, n : Words]
    <3> HIDE DEF kk, i, j
    <3>. QED BY <2>3, <2>4
  <2>6. ~(divides /\ er = 0) => truth \in Int
    <3>1. /\ Value(kind, el) \in Int /\ Value(kind, er) \in Int
          /\ -Modulus <= Value(kind, el) /\ Value(kind, el) <= Modulus
          /\ Value(kind, er) = 0 <=> er = 0
      BY <1>2, WordOfValue, Zenon
    <3>2. Abs(Value(kind, el)) <= Modulus
      BY <3>1, WordSize DEF Abs
    <3>3. SUFFICES ASSUME ~(divides /\ er = 0) PROVE truth \in Int
      OBVIOUS
    <3>4. op \in {"div", "mod"} => Value(kind, er) # 0
      BY <3>1, <3>3
    <3>. QED BY <1>1, <3>1, <3>2, <3>4, ComputedTruth
  <2>7. exact' \in Words
    <3>1. 0 \in Words
      BY WordSize DEF Words
    <3>2. ~(divides /\ er = 0) => truth % Modulus \in Words
      BY <2>6, Wrapped
    <3>. QED BY <1>4, <3>1, <3>2, Zenon
  <2>8. IntTypeOK'
    <3>1. notAbove' \in BOOLEAN
      BY <1>4, Zenon
    <3>. QED BY <1>1, <1>4, <2>5, <2>7, <3>1, Zenon DEF IntInv, IntTypeOK
  <2>9. ChainsExact'
    <3>1. SUFFICES ASSUME ~notAbove' PROVE acc' = [kind |-> kind, n |-> exact']
      BY <1>1, Zenon DEF ChainsExact
    <3>2. ~notAbove /\ ~(op = "sub" /\ kind = "uint64" /\ el <= er)
      BY <1>4, <3>1, Zenon
    <3>3. k = kind /\ i = Value(kind, el) /\ j = Value(kind, er)
      BY <1>2, <1>4, <3>2, Zenon
    <3>4. exact' = Truth(op, i, j) % Modulus
      <4>1. ~(divides /\ er = 0)
        <5>1. Value(kind, er) = 0 <=> er = 0
          BY <1>2, WordOfValue, Zenon
        <5> HIDE DEF i, j, k
        <5>. QED BY <1>4, <3>3, <5>1
      <4>. QED BY <1>4, <3>3, <4>1, Zenon
    <3>5. kk = kind
      <4>1. k = "uint64" => i = el /\ j = er
        <5>1. "uint64" # "int64"
          OBVIOUS
        <5>. QED BY <1>2, <3>3, <5>1, WordOfValue, Zenon
      <4> HIDE DEF i, j, k
      <4>2. ~(op = "sub" /\ k = "uint64" /\ i <= j)
        BY <3>2, <3>3, <4>1, Zenon
      <4>. QED BY <3>3, <4>2, Zenon
    <3> HIDE DEF kk, i, j
    <3>. QED BY <2>4, <3>4, <3>5, Zenon
  <2>. QED BY <2>8, <2>9 DEF IntInv
<1>5. \/ refusal # "none" /\ fault' = refusal /\ UNCHANGED <<acc, exact, notAbove>>
      \/ divides /\ j = 0 /\ fault' = "zero" /\ UNCHANGED <<acc, exact, notAbove>>
      \/ fault' = "trap" /\ UNCHANGED <<acc, exact, notAbove>>
      \/ /\ refusal = "none" /\ (divides => j # 0)
         /\ acc' = Computed(op, k, i, j)
         /\ exact' = (IF divides /\ er = 0 THEN 0
                       ELSE Truth(op, Value(kind, el), Value(kind, er)) % Modulus)
         /\ notAbove' = (notAbove \/ (op = "sub" /\ kind = "uint64" /\ el <= er))
         /\ UNCHANGED fault
  BY Zenon DEF Operate
<1> HIDE DEF k, i, j, divides, refusal
<1>. QED BY <1>2, <1>3, <1>4, <1>5

LEMMA PowerStep ==
    ASSUME IntInv, NEW l, NEW r, NEW el, NEW er, OperandsOf(l, r, el, er), Power(l, r)
    PROVE  IntInv'
<1> DEFINE k == MethodKind(l, r)
           j == Value(k, Checked(k, r))
           refusal == FirstRefusal(k, l, r)
<1>1. HasInteger /\ UNCHANGED <<kind, text, notAbove>>
  BY DEF Power
<1>2. k \in Kinds /\ (~notAbove => k = kind) /\ refusal \in {"none", "no number", "large"}
  BY <1>1, OperandsRead, Zenon
<1>3. \/ /\ fault' = (IF refusal # "none" THEN refusal ELSE "negative")
         /\ UNCHANGED <<acc, exact>>
      \/ /\ \E n \in IF j = 0 THEN {1} ELSE Words : acc' = [kind |-> k, n |-> n] /\ exact' = n
         /\ UNCHANGED fault
  <2>1. CASE refusal # "none" \/ j < 0
    BY <2>1, Zenon DEF Power
  <2>2. CASE ~(refusal # "none" \/ j < 0)
    BY <2>2, Zenon DEF Power
  <2>. QED BY <2>1, <2>2, Zenon
<1> HIDE DEF k, j, refusal
<1>4. CASE fault' \in {"no number", "large", "negative"} /\ UNCHANGED <<acc, exact>>
  <2>1. IntTypeOK'
    BY <1>1, <1>4, Zenon DEF IntInv, IntTypeOK
  <2>2. ChainsExact'
    BY <1>1, <1>4, Zenon DEF IntInv, ChainsExact
  <2>. QED BY <2>1, <2>2 DEF IntInv
<1>5. CASE /\ \E n \in IF j = 0 THEN {1} ELSE Words : acc' = [kind |-> k, n |-> n] /\ exact' = n
           /\ UNCHANGED fault
  <2>1. 1 \in Words
    BY WordSize DEF Words
  <2>2. exact' \in Words /\ acc' = [kind |-> k, n |-> exact']
    BY <1>5, <2>1
  <2>3. acc' \in [kind : Kinds \cup {"none"}, n : Words]
    BY <1>2, <2>2
  <2>4. IntTypeOK'
    BY <1>1, <1>5, <2>2, <2>3, Zenon DEF IntInv, IntTypeOK
  <2>5. ChainsExact'
    BY <1>1, <1>2, <2>2, Zenon DEF ChainsExact
  <2>. QED BY <2>4, <2>5 DEF IntInv
<1>. QED BY <1>2, <1>3, <1>4, <1>5

LEMMA NegateStep ==
    ASSUME IntInv, Negate
    PROVE  IntInv'
<1>1. /\ HasInteger /\ UNCHANGED <<kind, text, notAbove, fault>>
      /\ acc' = [kind |-> acc.kind, n |-> (-acc.n) % Modulus] /\ exact' = (-exact) % Modulus
  BY DEF Negate, Boxed
<1>2. acc.kind \in Kinds /\ acc.n \in Words /\ exact \in Words
  BY <1>1 DEF IntInv, IntTypeOK, HasInteger
<1>3. exact' \in Words /\ (-acc.n) % Modulus \in Words
  <2>1. -acc.n \in Int /\ -exact \in Int
    BY <1>2, WordSize DEF Words
  <2>. QED BY <1>1, <2>1, Wrapped
<1>4. acc' \in [kind : Kinds \cup {"none"}, n : Words]
  BY <1>1, <1>2, <1>3
<1>5. IntTypeOK'
  BY <1>1, <1>3, <1>4, Zenon DEF IntInv, IntTypeOK
<1>6. ~notAbove => acc.kind = kind /\ acc.n = exact
  BY <1>1 DEF IntInv, ChainsExact, HasInteger
<1>7. ChainsExact'
  BY <1>1, <1>6, Zenon DEF ChainsExact
<1>. QED BY <1>5, <1>7 DEF IntInv

LEMMA IntNextStep == ASSUME IntInv, IntNext PROVE IntInv'
<1>1. CASE \E c \in Chars : Type(c)
  BY <1>1, TypeStep
<1>2. CASE NewFromText
  BY <1>2, NewFromTextStep
<1>3. CASE \E low, high \in -1..HalfModulus : NewFromHalves(low, high)
  <2>1. -1..HalfModulus \subseteq Int
    BY WordSize
  <2>. QED BY <1>3, <2>1, NewFromHalvesStep, Zenon
<1>4. CASE \E v \in Seconds : \E o \in Orders(v) :
              \/ \E op \in Ops : Operate(op, o[1], o[2], o[3], o[4])
              \/ Power(o[1], o[2])
  <2>0. PICK v \in Seconds : \E o \in Orders(v) :
              \/ \E op \in Ops : Operate(op, o[1], o[2], o[3], o[4])
              \/ Power(o[1], o[2])
    BY <1>4
  <2>1. PICK o \in Orders(v) :
              \/ \E op \in Ops : Operate(op, o[1], o[2], o[3], o[4])
              \/ Power(o[1], o[2])
    BY <2>0
  <2>2. OperandsOf(o[1], o[2], o[3], o[4])
    <3>1. \/ o = <<acc, v, exact, Exact(v)>>
          \/ o = <<v, acc, Exact(v), exact>>
      BY DEF Orders
    <3>2. \/ o[1] = acc /\ o[2] = v /\ o[3] = exact /\ o[4] = Exact(v)
          \/ o[1] = v /\ o[2] = acc /\ o[3] = Exact(v) /\ o[4] = exact
      BY <3>1
    <3>. QED BY <3>2, Zenon DEF OperandsOf
  <2>. QED BY <2>1, <2>2, OperateStep, PowerStep, Zenon
<1>5. CASE Negate
  BY <1>5, NegateStep
<1>. QED BY <1>1, <1>2, <1>3, <1>4, <1>5, Zenon DEF IntNext

LEMMA IntInvariance == IntSpec => []IntInv
<1>1. IntInit => IntInv
  BY IntInitInv
<1>2. IntInv /\ [IntNext]_intVars => IntInv'
  <2>1. ASSUME IntInv, UNCHANGED intVars PROVE IntInv'
    BY <2>1, Zenon DEF IntInv, IntTypeOK, ChainsExact, intVars
  <2>. QED BY <2>1, IntNextStep
<1>. QED BY <1>1, <1>2, PTL DEF IntSpec

\* The variables have their types.
THEOREM IntTypeCorrect == IntSpec => []IntTypeOK
<1>1. IntInv => IntTypeOK
  BY DEF IntInv
<1>. QED BY <1>1, IntInvariance, PTL

\* For words of any size, and any computation with integers of one kind: the
\* script has the word that the mathematical result wraps around to, as long
\* as no difference of unsigned integers came out as a signed one.
THEOREM ChainsSafe == IntSpec => []ChainsExact
<1>1. IntInv => ChainsExact
  BY DEF IntInv
<1>. QED BY <1>1, IntInvariance, PTL

\* For words of any size and texts of any length: the two readings of
\* _str2long and _str2ulong, and their tests of where each ended, accept the
\* numbers and nothing else, with the right word or as too large.
THEOREM ParsedCorrectly == IntSpec => []ParsedAsMeant
<1>1. IntInv => ParsedAsMeant
  <2>1. SUFFICES ASSUME IntInv PROVE ParsedAsMeant
    OBVIOUS
  <2>2. kind \in Kinds /\ text \in Seq(Chars)
    BY <2>1 DEF IntInv, IntTypeOK
  <2>3. MeansOf(kind, text)
    BY <2>2, ParsedMeans
  <2>. QED BY <2>3, Zenon DEF MeansOf, ParsedAsMeant
<1>. QED BY <1>1, IntInvariance, PTL

\* What is printed for a word of any size, and its two halves, are read back
\* as the same word.
THEOREM IntegersReturn == IntSpec => []RoundTrips
<1>1. IntInv => RoundTrips
  <2>1. SUFFICES ASSUME IntInv, acc.kind # "none"
        PROVE  /\ Parsed(acc.kind, Printed(acc.kind, acc.n)) = [ok |-> TRUE, n |-> acc.n, range |-> FALSE]
               /\ FromHalves(ToHalves(acc.n)[1], ToHalves(acc.n)[2]) = acc.n
    BY Zenon DEF RoundTrips
  <2>2. acc.kind \in Kinds /\ acc.n \in Words
    BY <2>1 DEF IntInv, IntTypeOK
  <2>. QED BY <2>2, PrintedParsed, HalvesJoined
<1>. QED BY <1>1, IntInvariance, PTL

-----------------------------------------------------------------------------
(* MathfPowers: powers of two and bits.                                    *)

\* What holds at 0 and is passed on holds up to n.
LEMMA Climbs ==
    ASSUME NEW n \in Nat, NEW S, 0 \in S, \A i \in 0..(n - 1) : i \in S => i + 1 \in S
    PROVE  \A i \in 0..n : i \in S
<1>. DEFINE T == {i \in 0..n : i \notin S}
<1>1. ASSUME T # {} PROVE FALSE
  <2>1. PICK x \in T : \A y \in T : x <= y
    <3>1. T \in SUBSET Nat
      OBVIOUS
    <3>. HIDE DEF T
    <3>. QED  BY <1>1, <3>1, LeastOf
  <2>2. x \in 0..n /\ x # 0 /\ x \notin S
    BY <2>1
  <2>3. x - 1 \in 0..(n - 1) /\ x - 1 \in 0..n /\ (x - 1) + 1 = x /\ ~(x <= x - 1)
    BY <2>2
  <2>4. x - 1 \in S
    BY <2>1, <2>3
  <2>. QED  BY <2>2, <2>3, <2>4
<1>. QED  BY <1>1

\* f[i] is made from f[i - 1] by g, as in TwoTo, ValueOf and Smeared.
Builds(f, n, zero, g) ==
    /\ DOMAIN f = 0..n
    /\ \A i \in 0..n : f[i] = IF i = 0 THEN zero ELSE g[i][f[i - 1]]

LEMMA BuiltUp ==
    ASSUME NEW n \in Nat, NEW V, NEW zero \in V, NEW g \in [1..n -> [V -> V]]
    PROVE  \E f \in [0..n -> V] : Builds(f, n, zero, g)
<1>. DEFINE up == [c \in 1..n |-> c - 1]
<1>1. Descends(up, n)
  BY DEF Descends
<1>2. PICK f \in [0..n -> V] : Solution(f, n, up, zero, g)
  <2>. HIDE DEF up
  <2>. QED  BY <1>1, Recursion
<1>3. ASSUME NEW i \in 0..n PROVE f[i] = IF i = 0 THEN zero ELSE g[i][f[i - 1]]
  <2>1. CASE i = 0
    BY <1>2, <2>1 DEF Solution
  <2>2. CASE i # 0
    <3>1. i \in 1..n /\ up[i] = i - 1
      BY <2>2
    <3>. QED  BY <1>2, <2>2, <3>1, Zenon DEF Solution
  <2>. QED  BY <2>1, <2>2
<1>4. DOMAIN f = 0..n
  BY <1>2
<1>. QED  BY <1>2, <1>3, <1>4, Zenon DEF Builds

LEMMA IntSize == /\ IntBits \in Nat /\ IntBits > 1 /\ Sign \in Nat /\ Sign > 0
                 /\ IntBits = Sign + 1 /\ Bits = 0..Sign
BY MathfAssumption DEF Sign, Bits

\* TwoTo doubles.
Doubles == /\ TwoTo[0] = 1
           /\ \A n \in 0..IntBits : TwoTo[n] \in Nat /\ TwoTo[n] > 0
           /\ \A n \in 0..Sign : TwoTo[n + 1] = 2 * TwoTo[n]

LEMMA TwoToDoubles == Doubles
<1>. DEFINE V == Nat \ {0}
            g == [c \in 1..IntBits |-> [x \in V |-> 2 * x]]
            Turn(f) == [n \in 0..IntBits |-> IF n = 0 THEN 1 ELSE 2 * f[n - 1]]
<1>1. IntBits \in Nat /\ 1 \in V /\ g \in [1..IntBits -> [V -> V]]
  BY IntSize
<1>2. PICK f \in [0..IntBits -> V] : Builds(f, IntBits, 1, g)
  <2>. HIDE DEF V, g
  <2>. QED  BY <1>1, BuiltUp
<1>3. ASSUME NEW n \in 0..IntBits PROVE f[n] = IF n = 0 THEN 1 ELSE 2 * f[n - 1]
  <2>1. CASE n = 0
    BY <1>2, <2>1 DEF Builds
  <2>2. CASE n # 0
    <3>1. n \in 1..IntBits /\ n - 1 \in 0..IntBits
      BY <1>1, <2>2
    <3>2. f[n - 1] \in V /\ g[n][f[n - 1]] = 2 * f[n - 1]
      BY <1>2, <3>1
    <3>. QED  BY <1>2, <2>2, <3>2, Zenon DEF Builds
  <2>. QED  BY <2>1, <2>2
<1>4. f = Turn(f)
  BY <1>2, <1>3
<1>5. TwoTo = Turn(TwoTo)
  <2>. HIDE DEF Turn
  <2>1. TwoTo = CHOOSE h : h = Turn(h)
    BY Zenon DEF TwoTo, Turn
  <2>. QED  BY <1>4, <2>1, Zenon
<1>6. \A n \in 0..IntBits : TwoTo[n] = IF n = 0 THEN 1 ELSE 2 * TwoTo[n - 1]
  BY <1>5, Zenon
<1>7. TwoTo[0] = 1
  BY <1>1, <1>6
<1>8. \A n \in 0..Sign : TwoTo[n + 1] = 2 * TwoTo[n]
  <2>1. ASSUME NEW n \in 0..Sign PROVE TwoTo[n + 1] = 2 * TwoTo[n]
    <3>1. n + 1 \in 0..IntBits /\ n + 1 # 0 /\ (n + 1) - 1 = n
      BY IntSize
    <3>. QED  BY <1>6, <3>1
  <2>. QED  BY <2>1
<1>9. \A n \in 0..IntBits : TwoTo[n] \in Nat /\ TwoTo[n] > 0
  <2>. DEFINE S == {n \in 0..IntBits : TwoTo[n] \in Nat /\ TwoTo[n] > 0}
  <2>1. 0 \in S
    BY <1>1, <1>7
  <2>2. ASSUME NEW n \in 0..(IntBits - 1), n \in S PROVE n + 1 \in S
    <3>1. n \in 0..Sign /\ n + 1 \in 0..IntBits
      BY IntSize
    <3>2. TwoTo[n + 1] = 2 * TwoTo[n] /\ TwoTo[n] \in Nat /\ TwoTo[n] > 0
      BY <1>8, <2>2, <3>1
    <3>. QED  BY <3>1, <3>2
  <2>3. \A n \in 0..IntBits : n \in S
    <3>. HIDE DEF S
    <3>. QED  BY <1>1, <2>1, <2>2, Climbs
  <2>. QED  BY <2>3
<1>. QED  BY <1>7, <1>8, <1>9 DEF Doubles

\* A larger exponent is a larger power, twice as large at least.
LEMMA TwoToGrows ==
    ASSUME NEW a \in 0..IntBits, NEW b \in 0..IntBits
    PROVE  /\ a <= b => TwoTo[a] <= TwoTo[b]
           /\ a < b => 2 * TwoTo[a] <= TwoTo[b]
<1>. DEFINE S == {n \in 0..IntBits : /\ a <= n => TwoTo[a] <= TwoTo[n]
                                     /\ a < n => 2 * TwoTo[a] <= TwoTo[n]}
<1>1. 0 \in S
  BY IntSize, TwoToDoubles DEF Doubles
<1>2. ASSUME NEW n \in 0..(IntBits - 1), n \in S PROVE n + 1 \in S
  <2>1. /\ n \in 0..Sign /\ n + 1 \in 0..IntBits /\ TwoTo[n + 1] = 2 * TwoTo[n]
        /\ TwoTo[n] \in Nat /\ TwoTo[a] \in Nat
    BY IntSize, TwoToDoubles DEF Doubles
  <2>2. CASE a < n
    BY <1>2, <2>1, <2>2
  <2>3. CASE a = n
    BY <2>1, <2>3
  <2>4. CASE a = n + 1
    BY <2>1, <2>4
  <2>5. CASE a > n + 1
    BY <2>1, <2>5
  <2>. QED  BY <2>1, <2>2, <2>3, <2>4, <2>5
<1>3. \A n \in 0..IntBits : n \in S
  <2>. HIDE DEF S
  <2>. QED  BY <1>1, <1>2, IntSize, Climbs
<1>. QED  BY <1>3

\* k is the highest bit of u.
Highest(u, k) == k \in Bits /\ TwoTo[k] <= u /\ u < 2 * TwoTo[k]

\* What is below a power, and not 0, has a highest bit below its exponent.
LEMMA HighestFound ==
    ASSUME NEW e \in Bits, NEW u \in Nat, 0 < u, u < TwoTo[e]
    PROVE  \E k \in Bits : k < e /\ Highest(u, k)
<1>. DEFINE S == {n \in 0..e : u < TwoTo[n]}
<1>1. e \in S /\ S \in SUBSET Nat
  BY IntSize
<1>2. PICK x \in S : \A y \in S : x <= y
  <2>. HIDE DEF S
  <2>. QED  BY <1>1, LeastOf
<1>3. x \in 0..e /\ u < TwoTo[x]
  BY <1>2
<1>4. x # 0
  BY <1>3, TwoToDoubles DEF Doubles
<1>5. /\ x - 1 \in Bits /\ x - 1 < e /\ x - 1 \in 0..e
      /\ TwoTo[x - 1] \in Nat /\ TwoTo[x] = 2 * TwoTo[x - 1]
  <2>1. x - 1 \in 0..Sign /\ x - 1 \in 0..IntBits /\ (x - 1) + 1 = x /\ x - 1 < e /\ x - 1 \in 0..e
    BY <1>3, <1>4, IntSize
  <2>. QED  BY <2>1, IntSize, TwoToDoubles DEF Doubles
<1>6. x - 1 \notin S
  BY <1>2, <1>3, <1>5
<1>7. TwoTo[x - 1] <= u
  BY <1>5, <1>6
<1>. QED  BY <1>3, <1>5, <1>7 DEF Highest

\* It is among the bits, and none above it is.
LEMMA HighestBit ==
    ASSUME NEW u \in Nat, NEW k \in Bits, Highest(u, k)
    PROVE  k \in BitsOf(u) /\ BitsOf(u) \subseteq 0..k
<1>1. \A b \in Bits : b \in 0..IntBits /\ TwoTo[b] \in Nat \ {0}
  BY IntSize, TwoToDoubles DEF Doubles
<1>2. (u \div TwoTo[k]) % 2 = 1
  <2>. DEFINE d == TwoTo[k]
  <2>1. d \in Nat \ {0} /\ u - d \in 0..(d - 1) /\ 1 * d + (u - d) = u
    BY <1>1 DEF Highest
  <2>. HIDE DEF d
  <2>2. u \div d = 1
    BY <2>1, Divided
  <2>. QED  BY <2>2 DEF d
<1>3. ASSUME NEW b \in Bits, b > k PROVE (u \div TwoTo[b]) % 2 = 0
  <2>. DEFINE d == TwoTo[b]
  <2>1. 2 * TwoTo[k] <= TwoTo[b]
    BY <1>1, <1>3, TwoToGrows
  <2>2. d \in Nat \ {0} /\ u \in 0..(d - 1) /\ 0 * d + u = u
    BY <1>1, <2>1 DEF Highest
  <2>. HIDE DEF d
  <2>3. u \div d = 0
    BY <2>2, Divided
  <2>. QED  BY <2>3 DEF d
<1>. QED  BY <1>2, <1>3, IntSize DEF BitsOf

\* No bit of 0 is set.
LEMMA NoBits == BitsOf(0) = {}
<1>1. ASSUME NEW b \in Bits PROVE (0 \div TwoTo[b]) % 2 = 0
  <2>. DEFINE d == TwoTo[b]
  <2>1. d \in Nat /\ d > 0
    BY IntSize, TwoToDoubles DEF Doubles
  <2>. HIDE DEF d
  <2>2. d \in Nat \ {0} /\ 0 \in 0..(d - 1) /\ 0 * d + 0 = 0
    BY <2>1
  <2>3. 0 \div d = 0
    BY <2>2, Divided
  <2>. QED  BY <2>3 DEF d
<1>. QED  BY <1>1 DEF BitsOf

\* How the shifts spread the bits of v.
Spreads(f, v) ==
    /\ f[0] = BitsOf(v)
    /\ \A i \in 1..Len(Smear) :
          /\ f[i - 1] \in SUBSET Bits
          /\ f[i] = f[i - 1] \cup Shifted(f[i - 1], Smear[i])

LEMMA SmearedSpreads ==
    ASSUME NEW v \in Int
    PROVE  \E f : Spreads(f, v) /\ Smeared(v) = f[Len(Smear)]
<1>. DEFINE n == Len(Smear)
            V == SUBSET Bits
            g == [i \in 1..n |-> [w \in V |-> w \cup Shifted(w, Smear[i])]]
            Turn(f) == [i \in 0..n |-> IF i = 0 THEN BitsOf(v)
                                       ELSE f[i - 1] \cup Shifted(f[i - 1], Smear[i])]
            m == CHOOSE f : f = Turn(f)
<1>1. n \in Nat
  BY MathfAssumption
<1>2. BitsOf(v) \in V /\ \A w \in V : \A s : w \cup Shifted(w, s) \in V
  BY DEF BitsOf, Shifted
<1>3. g \in [1..n -> [V -> V]]
  BY <1>2
<1>4. PICK f \in [0..n -> V] : Builds(f, n, BitsOf(v), g)
  <2>. HIDE DEF n, V, g
  <2>. QED  BY <1>1, <1>2, <1>3, BuiltUp
<1>5. ASSUME NEW i \in 0..n
      PROVE  f[i] = IF i = 0 THEN BitsOf(v) ELSE f[i - 1] \cup Shifted(f[i - 1], Smear[i])
  <2>1. CASE i = 0
    BY <1>4, <2>1 DEF Builds
  <2>2. CASE i # 0
    <3>1. i \in 1..n /\ i - 1 \in 0..n
      BY <1>1, <2>2
    <3>2. f[i - 1] \in V
      BY <1>4, <3>1
    <3>3. g[i][f[i - 1]] = f[i - 1] \cup Shifted(f[i - 1], Smear[i])
      <4>. HIDE DEF V, n
      <4>. QED  BY <3>1, <3>2
    <3>. QED  BY <1>4, <2>2, <3>3, Zenon DEF Builds
  <2>. QED  BY <2>1, <2>2
<1>6. f = Turn(f)
  <2>. HIDE DEF n
  <2>1. f = [i \in 0..n |-> f[i]]
    BY <1>4
  <2>. QED  BY <1>5, <2>1, Zenon
<1>7. m = Turn(m)
  <2>. HIDE DEF Turn
  <2>. QED  BY <1>6, Zenon
<1>8. Smeared(v) = m[n]
  BY Zenon DEF Smeared
<1>9. \A i \in 0..n : m[i] = IF i = 0 THEN BitsOf(v)
                              ELSE m[i - 1] \cup Shifted(m[i - 1], Smear[i])
  <2>. DEFINE T == Turn(m)
  <2>1. \A i \in 0..n : T[i] = IF i = 0 THEN BitsOf(v)
                                ELSE m[i - 1] \cup Shifted(m[i - 1], Smear[i])
    BY Zenon
  <2>. HIDE DEF m, T
  <2>2. m = T
    BY <1>7 DEF T
  <2>. QED  BY <2>1, <2>2, Zenon
<1>. HIDE DEF m
<1>10. m[0] = BitsOf(v) /\ 0 \in 0..n
  <2>1. 0 \in 0..n
    BY <1>1
  <2>. HIDE DEF n
  <2>. QED  BY <1>9, <2>1, Zenon
<1>11. \A i \in 0..n : m[i] \in V
  <2>. DEFINE S == {i \in 0..n : m[i] \in V}
  <2>1. 0 \in S
    BY <1>2, <1>10
  <2>2. ASSUME NEW i \in 0..(n - 1), i \in S PROVE i + 1 \in S
    <3>1. i + 1 \in 0..n /\ i + 1 # 0 /\ (i + 1) - 1 = i
      BY <1>1
    <3>2. m[i + 1] = m[i] \cup Shifted(m[i], Smear[i + 1])
      <4>. HIDE DEF n
      <4>. QED  BY <1>9, <3>1
    <3>. QED  BY <1>2, <2>2, <3>1, <3>2
  <2>3. \A i \in 0..n : i \in S
    <3>. HIDE DEF S, n
    <3>. QED  BY <1>1, <2>1, <2>2, Climbs
  <2>. QED  BY <2>3
<1>12. ASSUME NEW i \in 1..n
       PROVE  /\ m[i - 1] \in V
              /\ m[i] = m[i - 1] \cup Shifted(m[i - 1], Smear[i])
  <2>1. i \in 0..n /\ i - 1 \in 0..n /\ i # 0
    BY <1>1
  <2>. QED  BY <1>9, <1>11, <2>1, Zenon
<1>. QED  BY <1>8, <1>10, <1>12, Zenon DEF Spreads

\* Nothing spreads from nothing.
LEMMA NothingSpreads == Smeared(0) = {}
<1>1. PICK f : Spreads(f, 0) /\ Smeared(0) = f[Len(Smear)]
  BY SmearedSpreads
<1>. DEFINE n == Len(Smear)
            S == {i \in 0..n : f[i] = {}}
<1>2. n \in Nat
  BY MathfAssumption
<1>3. 0 \in S
  BY <1>1, <1>2, NoBits DEF Spreads
<1>4. ASSUME NEW i \in 0..(n - 1), i \in S PROVE i + 1 \in S
  <2>1. i + 1 \in 1..n /\ (i + 1) - 1 = i
    BY <1>2
  <2>2. f[i + 1] = f[i] \cup Shifted(f[i], Smear[i + 1])
    BY <1>1, <2>1 DEF Spreads
  <2>3. f[i] = {}
    BY <1>4
  <2>. QED  BY <2>1, <2>2, <2>3 DEF Shifted
<1>5. \A i \in 0..n : i \in S
  <2>. HIDE DEF S, n
  <2>. QED  BY <1>2, <1>3, <1>4, Climbs
<1>. QED  BY <1>1, <1>2, <1>5

\* After some shifts the bits at the distances that are left are set.
Reached(w, k, d) ==
    /\ w \subseteq 0..k
    /\ \A b \in 0..k : \A m \in Nat : k - b = m * d => b \in w

\* A shift by d halves the distances.
LEMMA ShiftReaches ==
    ASSUME NEW k \in Bits, k < Sign, NEW d \in Nat \ {0}, NEW w \in SUBSET Bits,
           Reached(w, k, 2 * d)
    PROVE  Reached(w \cup Shifted(w, d), k, d)
<1>1. k \in Nat /\ Sign \in Nat /\ Bits = 0..Sign
  BY IntSize
<1>2. Shifted(w, d) \subseteq 0..k
  <2>1. Sign \notin w
    BY <1>1 DEF Reached
  <2>2. ASSUME NEW b \in Bits, b + d \in w PROVE b \in 0..k
    BY <1>1, <2>2 DEF Reached
  <2>. QED  BY <2>1, <2>2 DEF Shifted
<1>3. ASSUME NEW b \in 0..k, NEW m \in Nat, k - b = m * d
      PROVE  b \in w \cup Shifted(w, d)
  <2>1. PICK j \in Nat : m = 2 * j \/ m = 2 * j + 1
    <3>1. m \div 2 \in Nat /\ (m = 2 * (m \div 2) \/ m = 2 * (m \div 2) + 1)
      OBVIOUS
    <3>. QED  BY <3>1
  <2>2. j * (2 * d) = (2 * j) * d /\ (2 * j + 1) * d = (2 * j) * d + d /\ (2 * j) * d \in Nat
    BY <2>1
  <2>3. CASE m = 2 * j
    BY <1>3, <2>2, <2>3 DEF Reached
  <2>4. CASE m = 2 * j + 1
    <3>1. k - b = j * (2 * d) + d
      BY <1>3, <2>2, <2>4
    <3>2. j * (2 * d) \in Nat
      BY <2>2
    <3>3. b + d \in 0..k /\ k - (b + d) = j * (2 * d)
      <4>. DEFINE x == j * (2 * d)
      <4>1. x \in Nat /\ k - b = x + d
        BY <3>1, <3>2
      <4>. HIDE DEF x
      <4>2. b + d \in 0..k /\ k - (b + d) = x
        BY <1>1, <4>1
      <4>. QED  BY <4>2 DEF x
    <3>4. b + d \in w
      BY <3>3 DEF Reached
    <3>. QED  BY <1>1, <3>4 DEF Shifted
  <2>. QED  BY <2>1, <2>3, <2>4
<1>. QED  BY <1>2, <1>3 DEF Reached

\* All shifts together set every bit below the highest one.
LEMMA Filled ==
    ASSUME NEW u \in Nat, NEW k \in Bits, Highest(u, k), k < Sign, k < Reach
    PROVE  Smeared(u) = 0..k
<1>1. PICK f : Spreads(f, u) /\ Smeared(u) = f[Len(Smear)]
  BY SmearedSpreads
<1>. DEFINE n == Len(Smear)
            S == {i \in 0..n : Reached(f[i], k, TwoTo[n - i])}
<1>2. n \in Nat /\ n \in 0..Sign /\ n \in 0..IntBits /\ k \in Nat
  BY MathfAssumption, IntSize
<1>3. 0 \in S
  <2>1. n - 0 = n /\ TwoTo[n] \in Nat /\ k < TwoTo[n]
    BY <1>2, TwoToDoubles DEF Doubles, Reach
  <2>2. f[0] \subseteq 0..k /\ k \in f[0]
    BY <1>1, HighestBit DEF Spreads
  <2>3. ASSUME NEW b \in 0..k, NEW m \in Nat, k - b = m * TwoTo[n] PROVE b \in f[0]
    <3>. DEFINE d == TwoTo[n]
    <3>1. d \in Nat /\ k < d /\ k - b = m * d
      BY <2>1, <2>3
    <3>. HIDE DEF d
    <3>2. m = 0
      <4>1. m >= 1 => m * d >= d
        BY <3>1
      <4>. QED  BY <1>2, <3>1, <4>1
    <3>3. b = k
      BY <1>2, <3>1, <3>2
    <3>. QED  BY <2>2, <3>3
  <2>. QED  BY <1>2, <2>1, <2>2, <2>3 DEF Reached
<1>4. ASSUME NEW i \in 0..(n - 1), i \in S PROVE i + 1 \in S
  <2>1. /\ i + 1 \in 1..n /\ i + 1 \in 0..n /\ (i + 1) - 1 = i
        /\ n - (i + 1) \in 0..Sign /\ n - (i + 1) \in 0..IntBits
        /\ (n - (i + 1)) + 1 = n - i
    BY <1>2, IntSize
  <2>. DEFINE d == TwoTo[n - (i + 1)]
  <2>2. d \in Nat \ {0} /\ TwoTo[n - i] = 2 * d
    BY <2>1, TwoToDoubles DEF Doubles
  <2>3. Smear[i + 1] = d
    BY <2>1, MathfAssumption
  <2>4. f[i] \in SUBSET Bits /\ f[i + 1] = f[i] \cup Shifted(f[i], d)
    BY <1>1, <2>1, <2>3 DEF Spreads
  <2>5. Reached(f[i], k, 2 * d)
    BY <1>4, <2>2
  <2>. HIDE DEF d
  <2>6. Reached(f[i + 1], k, d)
    BY <2>2, <2>4, <2>5, ShiftReaches
  <2>. QED  BY <2>1, <2>6 DEF d
<1>5. \A i \in 0..n : i \in S
  <2>. HIDE DEF S, n
  <2>. QED  BY <1>2, <1>3, <1>4, Climbs
<1>6. Reached(f[n], k, 1)
  <2>1. n \in 0..n /\ n - n = 0
    BY <1>2
  <2>. QED  BY <1>5, <2>1, TwoToDoubles DEF Doubles
<1>7. \A b \in 0..k : k - b \in Nat /\ k - b = (k - b) * 1
  BY <1>2
<1>8. f[n] = 0..k
  BY <1>6, <1>7 DEF Reached
<1>. QED  BY <1>1, <1>8

\* The sum of the powers of some bits.
Sums(f, bits) ==
    /\ f[0] = 0
    /\ \A i \in 1..Sign : f[i] = f[i - 1] + (IF i - 1 \in bits THEN TwoTo[i - 1] ELSE 0)

LEMMA ValueSums ==
    ASSUME NEW bits
    PROVE  \E f : /\ Sums(f, bits)
                  /\ ValueOf(bits) = IF Sign \in bits THEN f[Sign] - TwoTo[Sign] ELSE f[Sign]
<1>. DEFINE Part(i) == IF i - 1 \in bits THEN TwoTo[i - 1] ELSE 0
            g == [i \in 1..Sign |-> [x \in Nat |-> x + Part(i)]]
            Turn(f) == [n \in 0..Sign |-> IF n = 0 THEN 0 ELSE f[n - 1] + Part(n)]
            m == CHOOSE f : f = Turn(f)
<1>1. Sign \in Nat /\ \A i \in 1..Sign : Part(i) \in Nat
  <2>1. ASSUME NEW i \in 1..Sign PROVE Part(i) \in Nat
    <3>1. i - 1 \in 0..IntBits
      BY IntSize
    <3>. QED  BY <3>1, TwoToDoubles DEF Doubles
  <2>. QED  BY <2>1, IntSize
<1>. HIDE DEF Part
<1>2. g \in [1..Sign -> [Nat -> Nat]]
  BY <1>1
<1>3. PICK f \in [0..Sign -> Nat] : Builds(f, Sign, 0, g)
  <2>. HIDE DEF g
  <2>. QED  BY <1>1, <1>2, BuiltUp
<1>4. ASSUME NEW n \in 0..Sign PROVE f[n] = IF n = 0 THEN 0 ELSE f[n - 1] + Part(n)
  <2>1. CASE n = 0
    BY <1>3, <2>1 DEF Builds
  <2>2. CASE n # 0
    <3>1. n \in 1..Sign /\ n - 1 \in 0..Sign
      BY <1>1, <2>2
    <3>2. f[n - 1] \in Nat
      BY <1>3, <3>1
    <3>3. g[n][f[n - 1]] = f[n - 1] + Part(n)
      BY <3>1, <3>2
    <3>. QED  BY <1>3, <2>2, <3>3, Zenon DEF Builds
  <2>. QED  BY <2>1, <2>2
<1>5. f = Turn(f)
  <2>1. f = [n \in 0..Sign |-> f[n]]
    BY <1>3
  <2>. QED  BY <1>4, <2>1, Zenon
<1>6. m = Turn(m)
  <2>. HIDE DEF Turn
  <2>. QED  BY <1>5, Zenon
<1>7. ValueOf(bits) = IF Sign \in bits THEN m[Sign] - TwoTo[Sign] ELSE m[Sign]
  BY Zenon DEF ValueOf, Part
<1>8. \A n \in 0..Sign : m[n] = IF n = 0 THEN 0 ELSE m[n - 1] + Part(n)
  <2>. DEFINE T == Turn(m)
  <2>1. \A n \in 0..Sign : T[n] = IF n = 0 THEN 0 ELSE m[n - 1] + Part(n)
    BY Zenon
  <2>. HIDE DEF m, T
  <2>2. m = T
    BY <1>6 DEF T
  <2>. QED  BY <2>1, <2>2, Zenon
<1>. HIDE DEF m
<1>9. m[0] = 0
  BY <1>1, <1>8
<1>10. \A i \in 1..Sign : m[i] = m[i - 1] + Part(i)
  <2>1. ASSUME NEW i \in 1..Sign PROVE m[i] = m[i - 1] + Part(i)
    <3>1. i \in 0..Sign /\ i # 0
      BY <1>1
    <3>. QED  BY <1>8, <3>1, Zenon
  <2>. QED  BY <2>1
<1>. QED  BY <1>7, <1>9, <1>10, Zenon DEF Sums, Part

\* No bits are 0.
LEMMA ValueOfNone == ValueOf({}) = 0
<1>1. PICK f : /\ Sums(f, {})
               /\ ValueOf({}) = IF Sign \in {} THEN f[Sign] - TwoTo[Sign] ELSE f[Sign]
  BY ValueSums
<1>. DEFINE S == {i \in 0..Sign : f[i] = 0}
<1>2. 0 \in S
  BY <1>1, IntSize DEF Sums
<1>3. ASSUME NEW i \in 0..(Sign - 1), i \in S PROVE i + 1 \in S
  <2>1. i + 1 \in 1..Sign /\ (i + 1) - 1 = i
    BY IntSize
  <2>. QED  BY <1>1, <1>3, <2>1 DEF Sums
<1>4. \A i \in 0..Sign : i \in S
  <2>. HIDE DEF S
  <2>. QED  BY <1>2, <1>3, IntSize, Climbs
<1>. QED  BY <1>1, <1>4, IntSize

\* All bits up to k are one less than the power above.
LEMMA ValueOfAll ==
    ASSUME NEW k \in Bits, k < Sign
    PROVE  ValueOf(0..k) = 2 * TwoTo[k] - 1
<1>. DEFINE w == 0..k
<1>1. PICK f : /\ Sums(f, w)
               /\ ValueOf(w) = IF Sign \in w THEN f[Sign] - TwoTo[Sign] ELSE f[Sign]
  BY ValueSums
<1>. DEFINE S == {i \in 0..Sign : f[i] = IF i <= k THEN TwoTo[i] - 1 ELSE 2 * TwoTo[k] - 1}
<1>2. k \in Nat /\ Sign \in Nat /\ \A i \in 0..Sign : TwoTo[i] \in Nat
  BY IntSize, TwoToDoubles DEF Doubles
<1>3. 0 \in S
  BY <1>1, <1>2, TwoToDoubles DEF Sums, Doubles
<1>4. ASSUME NEW i \in 0..(Sign - 1), i \in S PROVE i + 1 \in S
  <2>1. i + 1 \in 1..Sign /\ i + 1 \in 0..Sign /\ (i + 1) - 1 = i /\ i \in 0..Sign
    BY <1>2
  <2>2. f[i + 1] = f[i] + (IF i \in w THEN TwoTo[i] ELSE 0)
    BY <1>1, <2>1 DEF Sums
  <2>3. TwoTo[i + 1] = 2 * TwoTo[i] /\ TwoTo[i] \in Nat /\ TwoTo[k] \in Nat
    BY <1>2, <2>1, TwoToDoubles DEF Doubles
  <2>4. CASE i < k
    <3>1. i \in w /\ f[i] = TwoTo[i] - 1 /\ i + 1 <= k
      BY <1>2, <1>4, <2>4
    <3>. QED  BY <2>1, <2>2, <2>3, <3>1
  <2>5. CASE i = k
    <3>1. i \in w /\ f[i] = TwoTo[i] - 1 /\ ~(i + 1 <= k)
      BY <1>2, <1>4, <2>5
    <3>. QED  BY <2>1, <2>2, <2>3, <2>5, <3>1
  <2>6. CASE i > k
    <3>1. i \notin w /\ f[i] = 2 * TwoTo[k] - 1 /\ ~(i + 1 <= k)
      BY <1>2, <1>4, <2>6
    <3>. QED  BY <2>1, <2>2, <2>3, <3>1
  <2>. QED  BY <1>2, <2>1, <2>4, <2>5, <2>6
<1>5. \A i \in 0..Sign : i \in S
  <2>. HIDE DEF S
  <2>. QED  BY <1>2, <1>3, <1>4, Climbs
<1>6. Sign \in 0..Sign /\ ~(Sign <= k) /\ Sign \notin w
  BY <1>2
<1>7. f[Sign] = 2 * TwoTo[k] - 1
  BY <1>5, <1>6
<1>. QED  BY <1>1, <1>6, <1>7

\* n is the power of e, and the one below, if there is one, is too small for v.
Next2(v, e, n) ==
    /\ e \in 0..(Sign - 1) /\ n = TwoTo[e] /\ v <= n
    /\ IF e = 0 THEN v = 1 ELSE TwoTo[e - 1] < v /\ n = 2 * TwoTo[e - 1]

LEMMA NextFound ==
    ASSUME NEW v \in 1..Limit
    PROVE  \E e \in 0..(Sign - 1) : Next2(v, e, NextPowerOfTwo(v))
<1>. DEFINE x == IF Reach < Sign THEN Reach ELSE Sign - 1
<1>1. /\ Len(Smear) \in 0..IntBits /\ Reach \in Nat /\ Sign \in Nat /\ Sign > 0
  BY MathfAssumption, IntSize, TwoToDoubles DEF Doubles, Reach
<1>2. x \in 0..Sign /\ x <= Reach /\ x <= Sign - 1 /\ Limit = TwoTo[x]
  BY <1>1 DEF Limit
<1>. HIDE DEF x
<1>3. TwoTo[x] \in Nat /\ v \in Nat /\ 1 <= v /\ v <= TwoTo[x] /\ x \in Bits
  <2>1. TwoTo[x] \in Nat /\ x \in Bits
    BY <1>2, IntSize, TwoToDoubles DEF Doubles
  <2>. QED  BY <1>2, <2>1
<1>4. CASE v = 1
  <2>1. v - 1 = 0
    BY <1>4
  <2>2. NextPowerOfTwo(v) = Succ(0)
    BY <2>1, NothingSpreads, ValueOfNone DEF NextPowerOfTwo
  <2>3. TwoTo[0] = 1 /\ TwoTo[Sign] \in Nat /\ 2 * TwoTo[0] <= TwoTo[Sign]
    BY <1>1, IntSize, TwoToDoubles, TwoToGrows DEF Doubles
  <2>4. Succ(0) = 1
    BY <2>3 DEF Succ
  <2>5. 0 \in 0..(Sign - 1)
    BY <1>1
  <2>. QED  BY <1>4, <2>2, <2>3, <2>4, <2>5 DEF Next2
<1>5. CASE v # 1
  <2>. DEFINE u == v - 1
  <2>1. u \in Nat /\ 0 < u /\ u < TwoTo[x] /\ v = u + 1
    BY <1>3, <1>5
  <2>. HIDE DEF u
  <2>2. PICK k \in Bits : k < x /\ Highest(u, k)
    BY <1>3, <2>1, HighestFound
  <2>3. /\ k \in Nat /\ k < Sign /\ k < Reach /\ k + 1 \in 0..(Sign - 1)
        /\ k \in 0..Sign /\ k + 1 \in 0..IntBits /\ (k + 1) - 1 = k /\ k + 1 # 0
    BY <1>1, <1>2, <2>2, IntSize
  <2>4. NextPowerOfTwo(v) = Succ(2 * TwoTo[k] - 1)
    <3>1. Smeared(u) = 0..k
      BY <2>1, <2>2, <2>3, Filled
    <3>. QED  BY <2>3, <3>1, ValueOfAll DEF NextPowerOfTwo, u
  <2>5. /\ TwoTo[k] \in Nat /\ TwoTo[k] > 0 /\ TwoTo[k + 1] = 2 * TwoTo[k]
        /\ TwoTo[k + 1] \in Nat /\ TwoTo[Sign] \in Nat
    BY <2>3, IntSize, TwoToDoubles DEF Doubles
  <2>6. 2 * TwoTo[k + 1] <= TwoTo[Sign]
    BY <2>3, IntSize, TwoToGrows
  <2>7. NextPowerOfTwo(v) = TwoTo[k + 1]
    BY <2>4, <2>5, <2>6 DEF Succ
  <2>8. TwoTo[k] < v /\ v <= TwoTo[k + 1]
    BY <2>1, <2>2, <2>5 DEF Highest
  <2>. QED  BY <2>3, <2>5, <2>7, <2>8 DEF Next2
<1>. QED  BY <1>4, <1>5

\* ClosestPowerOfTwo takes it or the one below.
LEMMA ClosestFound ==
    ASSUME NEW v \in 1..Limit, NEW e \in 0..(Sign - 1), Next2(v, e, NextPowerOfTwo(v)),
           NEW g \in 0..(Sign - 1)
    PROVE  /\ TwoTo[g] >= v => NextPowerOfTwo(v) <= TwoTo[g]
           /\ NextPowerOfTwo(v) >= v
           /\ Abs(ClosestPowerOfTwo(v) - v) <= Abs(TwoTo[g] - v)
<1>. DEFINE n == NextPowerOfTwo(v)
            q == TwoTo[g]
<1>1. /\ e \in 0..IntBits /\ g \in 0..IntBits /\ q \in Nat /\ q > 0 /\ n \in Nat /\ v \in Nat
      /\ v >= 1 /\ v <= n /\ n = TwoTo[e] /\ g \in Nat /\ e \in Nat
  BY IntSize, TwoToDoubles DEF Doubles, Next2
<1>2. g >= e => n <= q
  BY <1>1, TwoToGrows
<1>3. ClosestPowerOfTwo(v) = IF v - (n \div 2) < n - v THEN n \div 2 ELSE n
  BY DEF ClosestPowerOfTwo
<1>4. CASE e = 0
  <2>1. v = 1 /\ n = 1
    BY <1>1, <1>4, TwoToDoubles DEF Next2, Doubles
  <2>2. ClosestPowerOfTwo(v) = 1
    BY <1>3, <2>1
  <2>3. g >= e
    BY <1>1, <1>4
  <2>. QED  BY <1>1, <1>2, <2>1, <2>2, <2>3 DEF Abs
<1>5. CASE e # 0
  <2>. DEFINE p == TwoTo[e - 1]
  <2>1. e - 1 \in 0..IntBits /\ p \in Nat /\ p < v /\ n = 2 * p
    <3>1. e - 1 \in 0..IntBits
      BY <1>1, <1>5, IntSize
    <3>2. p \in Nat
      BY <3>1, TwoToDoubles DEF Doubles
    <3>3. p < v /\ n = 2 * p
      BY <1>5, Zenon DEF Next2
    <3>. QED  BY <3>1, <3>2, <3>3
  <2>2. g < e => q <= p
    BY <1>1, <2>1, TwoToGrows
  <2>. HIDE DEF n, p, q
  <2>3. n \div 2 = p
    BY <2>1
  <2>4. q <= p \/ n <= q
    BY <1>1, <1>2, <2>2
  <2>5. q >= v => n <= q
    BY <1>1, <2>1, <2>4
  <2>6. Abs(ClosestPowerOfTwo(v) - v) <= Abs(q - v)
    <3>. DEFINE c == ClosestPowerOfTwo(v)
    <3>1. c = IF v - p < n - v THEN p ELSE n
      BY <1>3, <2>3, Zenon
    <3>. SUFFICES Abs(c - v) <= Abs(q - v)
      OBVIOUS
    <3>. HIDE DEF c
    <3>2. CASE v - p < n - v
      BY <1>1, <2>1, <2>4, <3>1, <3>2 DEF Abs
    <3>3. CASE ~(v - p < n - v)
      BY <1>1, <2>1, <2>4, <3>1, <3>3 DEF Abs
    <3>. QED  BY <3>2, <3>3
  <2>7. n >= v
    BY <1>1
  <2>. QED  BY <2>5, <2>6, <2>7 DEF n, q
<1>. QED  BY <1>4, <1>5

\* For integers of any number of bits, and every argument that the smearing
\* reaches: NextPowerOfTwo answers the least power of two that is not less,
\* and ClosestPowerOfTwo one that no other is closer than.
THEOREM PowersRight == MCSpec => []PowersFound
<1>1. PowersFound
  <2>. DEFINE powers == {TwoTo[e] : e \in 0..(Sign - 1)}
  <2>1. ASSUME word \in 1..Limit
        PROVE  /\ NextPowerOfTwo(word) \in powers
               /\ \A q \in powers : q >= word => NextPowerOfTwo(word) <= q
               /\ NextPowerOfTwo(word) >= word
               /\ \A q \in powers : Abs(ClosestPowerOfTwo(word) - word) <= Abs(q - word)
    <3>1. PICK e \in 0..(Sign - 1) : Next2(word, e, NextPowerOfTwo(word))
      BY <2>1, NextFound
    <3>2. NextPowerOfTwo(word) \in powers
      BY <3>1 DEF Next2
    <3>3. NextPowerOfTwo(word) >= word
      BY <2>1, <3>1, ClosestFound
    <3>4. ASSUME NEW g \in 0..(Sign - 1)
          PROVE  /\ TwoTo[g] >= word => NextPowerOfTwo(word) <= TwoTo[g]
                 /\ Abs(ClosestPowerOfTwo(word) - word) <= Abs(TwoTo[g] - word)
      BY <2>1, <3>1, ClosestFound
    <3>. QED  BY <3>2, <3>3, <3>4
  <2>. QED  BY <2>1, Zenon DEF PowersFound
<1>. QED  BY <1>1, PTL
=============================================================================
