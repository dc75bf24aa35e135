--------------------------- MODULE HostStack_proofs ---------------------------
(***************************************************************************)
(* Proofs about HostStack, for any bounds and any values: the calls that   *)
(* the host has begun keep their handlers and the stacks that they found,  *)
(* and every operation is one that StackPromise promises.                  *)
(***************************************************************************)
EXTENDS HostStack, SequenceTheorems, TLAPS

\* With what an operation of tolua pushes for its own use.
AllValues == StackValues \cup {"getfield", "setfield", "gettable", "settable", "require",
                               "unpack", "pack", "key", "name", "parts"}

\* t has the first n values of the stack s, all of them values of the host.
Keeps(s, t, n) == /\ n \in 0..Len(t)
                  /\ \A j \in 1..n : t[j] = s[j] /\ t[j] \in StackValues

LEMMA OutcomeType ==
    ASSUME NEW out \in Outcomes \cup OneValue \cup NoValue
    PROVE  /\ out.error \in BOOLEAN
           /\ out.values \in Seq(StackValues)
           /\ out.error => out.values[1] \in StackValues
<1>1. \A v \in StackValues : <<v>> \in Seq(StackValues) /\ <<v>>[1] = v
  OBVIOUS
<1>2. Values \subseteq StackValues /\ Errors \subseteq StackValues
  BY DEF Errors, StackValues
<1>3. <<>> \in Seq(StackValues)
  OBVIOUS
<1>4. Results \subseteq Seq(StackValues)
  <2>1. [1..2 -> Values] \subseteq [1..2 -> StackValues]
    BY <1>2
  <2>2. [1..2 -> StackValues] \subseteq Seq(StackValues)
    BY SeqDef
  <2> QED
    BY <1>3, <2>1, <2>2 DEF Results
<1>5. \/ \E values \in Results \cup {<<v>> : v \in Values} : out = Returned(values)
      \/ \E e \in Errors : out = Raised(e)
  <2>1. CASE out \in Outcomes
    BY <2>1, Zenon DEF Outcomes
  <2>2. CASE out \in OneValue
    BY <2>2, Zenon DEF OneValue
  <2>3. CASE out \in NoValue
    BY <2>3, Zenon DEF NoValue, Results
  <2> QED
    BY <2>1, <2>2, <2>3
<1>6. ASSUME NEW values \in Results \cup {<<v>> : v \in Values}, out = Returned(values)
      PROVE  out.error = FALSE /\ out.values \in Seq(StackValues)
  BY <1>1, <1>2, <1>4, <1>6 DEF Returned
<1>7. ASSUME NEW e \in Errors, out = Raised(e)
      PROVE  out.error = TRUE /\ out.values \in Seq(StackValues) /\ out.values[1] \in StackValues
  BY <1>1, <1>2, <1>7 DEF Raised
<1> QED
  BY <1>5, <1>6, <1>7

\* A handler makes a value of the host of such a value.
LEMMA HandledType ==
    ASSUME NEW s, NEW handler, NEW e \in StackValues
    PROVE  Handled(s, handler, e) \in StackValues
BY DEF Handled, Traceback, StackValues

LEMMA SetTopKeeps ==
    ASSUME NEW S, NEW s \in Seq(S), NEW n \in 0..Len(s)
    PROVE  /\ SetTop(s, n) \in Seq(S)
           /\ Len(SetTop(s, n)) = n
           /\ \A j \in 1..n : SetTop(s, n)[j] = s[j]
BY DEF SetTop

LEMMA FrontKeeps ==
    ASSUME NEW S, NEW s \in Seq(S), s # <<>>
    PROVE  /\ Front(s) \in Seq(S)
           /\ Len(Front(s)) = Len(s) - 1
           /\ \A j \in 1..(Len(s) - 1) : Front(s)[j] = s[j]
<1>1. Front(s) = SetTop(s, Len(s) - 1)
  BY DEF Front, SetTop
<1>2. Len(s) - 1 \in 0..Len(s)
  OBVIOUS
<1> QED
  BY <1>1, <1>2, SetTopKeeps

LEMMA RemoveAtKeeps ==
    ASSUME NEW S, NEW s \in Seq(S), NEW i \in 1..Len(s)
    PROVE  /\ RemoveAt(s, i) \in Seq(S)
           /\ Len(RemoveAt(s, i)) = Len(s) - 1
           /\ \A j \in 1..(i - 1) : RemoveAt(s, i)[j] = s[j]
           /\ \A j \in i..(Len(s) - 1) : RemoveAt(s, i)[j] = s[j + 1]
<1> DEFINE low == SubSeq(s, 1, i - 1)
           high == SubSeq(s, i + 1, Len(s))
<1>1. low \in Seq(S) /\ Len(low) = i - 1 /\ \A j \in 1..(i - 1) : low[j] = s[j]
  OBVIOUS
<1>2. high \in Seq(S) /\ Len(high) = Len(s) - i /\ \A j \in 1..(Len(s) - i) : high[j] = s[i + j]
  OBVIOUS
<1>3. RemoveAt(s, i) = low \o high
  BY DEF RemoveAt
<1> HIDE DEF low, high
<1>4. low \o high \in Seq(S) /\ Len(low \o high) = Len(s) - 1
  BY <1>1, <1>2
<1>5. \A j \in 1..(i - 1) : (low \o high)[j] = s[j]
  BY <1>1, <1>2
<1>6. ASSUME NEW j \in i..(Len(s) - 1)
      PROVE  (low \o high)[j] = s[j + 1]
  <2>1. (low \o high)[j] = high[j - (i - 1)]
    BY <1>1, <1>2
  <2>2. j - (i - 1) \in 1..(Len(s) - i) /\ i + (j - (i - 1)) = j + 1
    OBVIOUS
  <2> QED
    BY <1>2, <2>1, <2>2
<1> QED
  BY <1>3, <1>4, <1>5, <1>6

\* lua_pcall of the function at m + 1 keeps the first m values.
LEMMA PCalledKeeps ==
    ASSUME NEW base, NEW s \in Seq(AllValues), NEW n \in Nat, NEW handler,
           NEW out \in Outcomes \cup OneValue \cup NoValue,
           Keeps(base, s, Len(s) - n - 1)
    PROVE  /\ PCalled(s, n, handler, out) \in Seq(StackValues)
           /\ Keeps(base, PCalled(s, n, handler, out), Len(s) - n - 1)
<1> DEFINE m == Len(s) - n - 1
           rest == IF out.error THEN <<Handled(s, handler, out.values[1])>> ELSE out.values
<1>1. m \in 0..Len(s)
  BY DEF Keeps
<1>2. rest \in Seq(StackValues)
  BY OutcomeType, HandledType
<1>3. SetTop(s, m) \in Seq(StackValues) /\ Len(SetTop(s, m)) = m
      /\ \A j \in 1..m : SetTop(s, m)[j] = s[j]
  <2>1. \A j \in 1..m : s[j] \in StackValues
    BY DEF Keeps
  <2> QED
    BY <1>1, <2>1 DEF SetTop
<1>4. PCalled(s, n, handler, out) = SetTop(s, m) \o rest
  BY DEF PCalled
<1> HIDE DEF rest
<1>5. SetTop(s, m) \o rest \in Seq(StackValues) /\ Keeps(base, SetTop(s, m) \o rest, m)
  <2> DEFINE low == SetTop(s, m)
  <2> HIDE DEF low
  <2>1. low \in Seq(StackValues) /\ Len(low) = m /\ \A j \in 1..m : low[j] = s[j]
    BY <1>3 DEF low
  <2>2. \A j \in 1..m : s[j] = base[j]
    BY DEF Keeps
  <2>3. low \o rest \in Seq(StackValues) /\ Keeps(base, low \o rest, m)
    BY <1>1, <1>2, <2>1, <2>2 DEF Keeps
  <2> QED
    BY <2>3 DEF low
<1> QED
  BY <1>4, <1>5
LEMMA PushKeeps ==
    ASSUME NEW base, NEW s \in Seq(AllValues), NEW v \in AllValues, NEW n, Keeps(base, s, n)
    PROVE  /\ Append(s, v) \in Seq(AllValues)
           /\ Len(Append(s, v)) = Len(s) + 1
           /\ Keeps(base, Append(s, v), n)
BY DEF Keeps

LEMMA PushValueKeeps ==
    ASSUME NEW base, NEW s \in Seq(AllValues), NEW i \in 1..Len(s), NEW n, Keeps(base, s, n)
    PROVE  /\ PushValue(s, i) \in Seq(AllValues)
           /\ Len(PushValue(s, i)) = Len(s) + 1
           /\ Keeps(base, PushValue(s, i), n)
BY PushKeeps DEF PushValue

\* What is removed lies above the n values that are kept.
LEMMA RemoveKeeps ==
    ASSUME NEW base, NEW s \in Seq(AllValues), NEW i \in 1..Len(s), NEW n \in Nat,
           Keeps(base, s, n), n < i
    PROVE  /\ RemoveAt(s, i) \in Seq(AllValues)
           /\ Len(RemoveAt(s, i)) = Len(s) - 1
           /\ Keeps(base, RemoveAt(s, i), n)
<1> DEFINE r == RemoveAt(s, i)
<1>1. r \in Seq(AllValues) /\ Len(r) = Len(s) - 1 /\ \A j \in 1..(i - 1) : r[j] = s[j]
  BY RemoveAtKeeps
<1>2. n \in 0..(i - 1) /\ i - 1 <= Len(r)
  BY <1>1 DEF Keeps
<1> HIDE DEF r
<1>3. Keeps(base, r, n)
  BY <1>1, <1>2 DEF Keeps
<1> QED
  BY <1>1, <1>3 DEF r

-----------------------------------------------------------------------------
(* The inductive invariant: every frame has its handler and what lay below *)
(* it, and lies above the frames begun before.                             *)

StackType ==
    /\ stack \in Seq(StackValues)
    /\ frames \in Seq([top : 1..MaxStack, before : Seq(StackValues)])
    /\ Len(frames) <= MaxFrames
    /\ alive \in BOOLEAN

FrameKept(k) ==
    /\ frames[k].top <= Len(stack)
    /\ stack[frames[k].top] = "traceback"
    /\ Len(frames[k].before) = frames[k].top - 1
    /\ \A j \in 1..(frames[k].top - 1) : stack[j] = frames[k].before[j]
    /\ \A l \in 1..(k - 1) : frames[l].top < frames[k].top

StackInv == StackType /\ \A k \in 1..Len(frames) : FrameKept(k)

\* The place of the innermost handler.
Base == IF frames = <<>> THEN 0 ELSE frames[Len(frames)].top

LEMMA FrameType ==
    ASSUME StackType, NEW k \in 1..Len(frames)
    PROVE  /\ frames[k].top \in Nat \ {0} /\ frames[k].before \in Seq(StackValues)
           /\ frames[k].top \in 1..MaxStack
<1>1. frames[k] \in [top : 1..MaxStack, before : Seq(StackValues)]
  BY ElementOfSeq DEF StackType
<1> QED
  BY <1>1, HostStackAssumption

LEMMA BaseBounds ==
    ASSUME StackInv
    PROVE  /\ Base \in 0..Len(stack)
           /\ \A k \in 1..Len(frames) : frames[k].top <= Base
           /\ Floor = IF frames = <<>> THEN 0 ELSE Base + 1
           /\ \A n \in Nat : Owns(n) => Len(stack) >= Base + n
<1>1. frames # <<>> => Len(frames) \in 1..Len(frames)
  BY DEF StackInv, StackType
<1>2. Floor = IF frames = <<>> THEN 0 ELSE Base + 1
  BY DEF Floor, Base, Last
<1>3. Base \in 0..Len(stack) /\ \A k \in 1..Len(frames) : frames[k].top <= Base
  <2>1. CASE frames = <<>>
    BY <2>1 DEF StackInv, StackType, Base
  <2>2. CASE frames # <<>>
    <3>1. FrameKept(Len(frames)) /\ Base = frames[Len(frames)].top /\ Base \in Nat \ {0}
      BY <1>1, <2>2, FrameType DEF StackInv, Base
    <3>2. Base <= Len(stack) /\ \A k \in 1..(Len(frames) - 1) : frames[k].top < Base
      BY <3>1 DEF FrameKept
    <3>3. \A k \in 1..Len(frames) : k = Len(frames) \/ k \in 1..(Len(frames) - 1)
      BY <1>1
    <3>4. Len(stack) \in Nat /\ \A k \in 1..Len(frames) : frames[k].top \in Nat
      BY FrameType DEF StackInv, StackType
    <3> QED
      BY <3>1, <3>2, <3>3, <3>4
  <2> QED
    BY <2>1, <2>2
<1>4. \A n \in Nat : Owns(n) => Len(stack) >= Base + n
  BY <1>2, <1>3 DEF Owns, Base, StackInv, StackType
<1> QED
  BY <1>2, <1>3, <1>4

\* A step that keeps the stack up to the innermost handler keeps the frames.
LEMMA KeepingStep ==
    ASSUME StackInv, UNCHANGED frames, alive' \in BOOLEAN,
           stack' \in Seq(StackValues), NEW n, n >= Base, Keeps(stack, stack', n)
    PROVE  StackInv'
<1>1. StackType'
  BY DEF StackInv, StackType
<1>2. ASSUME NEW k \in 1..Len(frames)
      PROVE  FrameKept(k)'
  <2>1. frames[k].top \in Nat \ {0}
    BY FrameType DEF StackInv
  <2>2. n \in Nat /\ n <= Len(stack')
    BY DEF Keeps
  <2>3. FrameKept(k) /\ frames[k].top <= n
    <3>1. Base \in Nat /\ frames[k].top <= Base
      BY BaseBounds DEF StackInv, StackType
    <3> QED
      BY <2>1, <2>2, <3>1 DEF StackInv
  <2>4. \A j \in 1..frames[k].top : stack'[j] = stack[j]
    BY <2>1, <2>2, <2>3 DEF Keeps
  <2> QED
    BY <2>1, <2>2, <2>3, <2>4 DEF FrameKept
<1> QED
  BY <1>1, <1>2 DEF StackInv

LEMMA StillStep ==
    ASSUME StackInv, UNCHANGED <<stack, frames>>, alive' \in BOOLEAN
    PROVE  StackInv'
<1>1. StackType'
  BY DEF StackInv, StackType
<1>2. \A k \in 1..Len(frames) : FrameKept(k)'
  BY DEF StackInv, FrameKept
<1> QED
  BY <1>1, <1>2 DEF StackInv

LEMMA ProtectedStep ==
    ASSUME StackInv, NEW s \in Seq(AllValues), NEW n \in Nat, NEW handler,
           NEW out \in Outcomes \cup OneValue \cup NoValue,
           Len(s) - n - 1 >= Base, Keeps(stack, s, Len(s) - n - 1),
           Protected(s, n, handler, out)
    PROVE  StackInv'
<1>1. CASE Crashes(s, handler, out)
  BY <1>1, StillStep DEF Protected, Gone
<1>2. CASE ~Crashes(s, handler, out)
  <2>1. stack' = PCalled(s, n, handler, out) /\ UNCHANGED <<frames, alive>>
    BY <1>2 DEF Protected
  <2>2. stack' \in Seq(StackValues) /\ Keeps(stack, stack', Len(s) - n - 1)
    BY <2>1, PCalledKeeps
  <2> QED
    BY <2>1, <2>2, KeepingStep DEF StackInv, StackType
<1> QED
  BY <1>1, <1>2
-----------------------------------------------------------------------------
(* Every operation keeps the invariant.                                    *)

LEMMA StackItself ==
    ASSUME StackInv
    PROVE  /\ stack \in Seq(StackValues) /\ stack \in Seq(AllValues)
           /\ DOMAIN stack = 1..Len(stack)
           /\ Base \in 0..Len(stack)
           /\ \A n \in 0..Len(stack) : Keeps(stack, stack, n)
<1>1. stack \in Seq(StackValues) /\ DOMAIN stack = 1..Len(stack)
  BY DEF StackInv, StackType
<1>2. stack \in Seq(AllValues)
  BY <1>1, SeqMonotonic DEF AllValues
<1>3. \A j \in 1..Len(stack) : stack[j] \in StackValues
  BY <1>1, ElementOfSeq
<1> QED
  BY <1>1, <1>2, <1>3, BaseBounds DEF Keeps

LEMMA GetFieldKeeps ==
    ASSUME StackInv, NEW i \in DOMAIN stack, NEW out \in OneValue, GetField(i, out)
    PROVE  StackInv'
<1> DEFINE L == Len(stack)
           s1 == Append(stack, "getfield")
           s2 == PushValue(s1, i)
           s3 == Append(s2, "key")
<1>1. s1 \in Seq(AllValues) /\ Len(s1) = L + 1 /\ Keeps(stack, s1, L)
  BY StackItself, PushKeeps DEF AllValues
<1>2. s2 \in Seq(AllValues) /\ Len(s2) = L + 2 /\ Keeps(stack, s2, L)
  <2>1. i \in 1..Len(s1)
    BY <1>1, StackItself
  <2> HIDE DEF s1
  <2> QED
    BY <1>1, <2>1, PushValueKeeps
<1>3. s3 \in Seq(AllValues) /\ Len(s3) = L + 3 /\ Keeps(stack, s3, L)
  <2> HIDE DEF s2
  <2> QED
    BY <1>2, PushKeeps DEF AllValues
<1>4. Protected(s3, 2, 0, out)
  BY DEF GetField
<1> HIDE DEF s3
<1> QED
  BY <1>3, <1>4, StackItself, ProtectedStep

LEMMA SetFieldKeeps ==
    ASSUME StackInv, NEW i \in DOMAIN stack, NEW out \in NoValue, SetField(i, out)
    PROVE  StackInv'
<1> DEFINE L == Len(stack)
           M == L - 1
           s1 == Append(stack, "setfield")
           s2 == PushValue(s1, i)
           s3 == Append(s2, "key")
           s4 == PushValue(s3, L)
           s5 == RemoveAt(s4, L)
<1>0. M \in 0..L /\ M >= Base /\ i \in 1..L /\ L \in Nat /\ M \in Nat /\ M < L
  BY StackItself, BaseBounds DEF SetField
<1>1. s1 \in Seq(AllValues) /\ Len(s1) = L + 1 /\ Keeps(stack, s1, M)
  BY <1>0, StackItself, PushKeeps DEF AllValues
<1>2. s2 \in Seq(AllValues) /\ Len(s2) = L + 2 /\ Keeps(stack, s2, M)
  <2> HIDE DEF M, s1
  <2>1. i \in 1..Len(s1)
    BY <1>0, <1>1
  <2> QED
    BY <1>0, <1>1, <2>1, PushValueKeeps
<1>3. s3 \in Seq(AllValues) /\ Len(s3) = L + 3 /\ Keeps(stack, s3, M)
  <2> HIDE DEF s2
  <2> QED
    BY <1>2, PushKeeps DEF AllValues
<1>4. s4 \in Seq(AllValues) /\ Len(s4) = L + 4 /\ Keeps(stack, s4, M)
  <2> HIDE DEF M, s3
  <2>1. L \in 1..Len(s3)
    BY <1>0, <1>3
  <2> QED
    BY <1>0, <1>3, <2>1, PushValueKeeps
<1>5. s5 \in Seq(AllValues) /\ Len(s5) = L + 3 /\ Keeps(stack, s5, M)
  <2> HIDE DEF M, s4
  <2>1. L \in 1..Len(s4) /\ M < L
    BY <1>0, <1>4
  <2>2. \A k \in 1..Len(s4) : M < k =>
            /\ RemoveAt(s4, k) \in Seq(AllValues)
            /\ Len(RemoveAt(s4, k)) = Len(s4) - 1
            /\ Keeps(stack, RemoveAt(s4, k), M)
    BY <1>0, <1>4, RemoveKeeps
  <2> QED
    BY <1>0, <1>4, <2>1, <2>2
<1>6. Protected(s5, 3, 0, out)
  BY DEF SetField
<1> HIDE DEF s5
<1> QED
  BY <1>0, <1>5, <1>6, ProtectedStep

LEMMA GetTableKeeps ==
    ASSUME StackInv, NEW i \in DOMAIN stack, NEW out \in OneValue, GetTable(i, out)
    PROVE  StackInv'
<1> DEFINE L == Len(stack)
           M == L - 1
           s1 == Append(stack, "gettable")
           s2 == PushValue(s1, i)
           s3 == PushValue(s2, L)
           s4 == RemoveAt(s3, L)
<1>0. M \in 0..L /\ M >= Base /\ i \in 1..L /\ L \in Nat /\ M \in Nat /\ M < L
  BY StackItself, BaseBounds DEF GetTable
<1>1. s1 \in Seq(AllValues) /\ Len(s1) = L + 1 /\ Keeps(stack, s1, M)
  BY <1>0, StackItself, PushKeeps DEF AllValues
<1>2. s2 \in Seq(AllValues) /\ Len(s2) = L + 2 /\ Keeps(stack, s2, M)
  <2> HIDE DEF M, s1
  <2>1. i \in 1..Len(s1)
    BY <1>0, <1>1
  <2> QED
    BY <1>0, <1>1, <2>1, PushValueKeeps
<1>3. s3 \in Seq(AllValues) /\ Len(s3) = L + 3 /\ Keeps(stack, s3, M)
  <2> HIDE DEF M, s2
  <2>1. L \in 1..Len(s2)
    BY <1>0, <1>2
  <2> QED
    BY <1>0, <1>2, <2>1, PushValueKeeps
<1>4. s4 \in Seq(AllValues) /\ Len(s4) = L + 2 /\ Keeps(stack, s4, M)
  <2> HIDE DEF M, s3
  <2>1. L \in 1..Len(s3) /\ M < L
    BY <1>0, <1>3
  <2>2. \A k \in 1..Len(s3) : M < k =>
            /\ RemoveAt(s3, k) \in Seq(AllValues)
            /\ Len(RemoveAt(s3, k)) = Len(s3) - 1
            /\ Keeps(stack, RemoveAt(s3, k), M)
    BY <1>0, <1>3, RemoveKeeps
  <2> QED
    BY <1>0, <1>3, <2>1, <2>2
<1>5. Protected(s4, 2, 0, out)
  BY DEF GetTable
<1> HIDE DEF s4
<1> QED
  BY <1>0, <1>4, <1>5, ProtectedStep

LEMMA SetTableKeeps ==
    ASSUME StackInv, NEW i \in DOMAIN stack, NEW out \in NoValue, SetTable(i, out)
    PROVE  StackInv'
<1> DEFINE L == Len(stack)
           M == L - 2
           s1 == Append(stack, "settable")
           s2 == PushValue(s1, i)
           s3 == PushValue(s2, L - 1)
           s4 == PushValue(s3, L)
           s5 == RemoveAt(s4, L)
           s6 == RemoveAt(s5, L - 1)
<1>0. M \in 0..L /\ M >= Base /\ i \in 1..L /\ L - 1 \in 1..L /\ L \in Nat /\ M \in Nat /\ M < L - 1
  BY StackItself, BaseBounds DEF SetTable
<1>1. s1 \in Seq(AllValues) /\ Len(s1) = L + 1 /\ Keeps(stack, s1, M)
  BY <1>0, StackItself, PushKeeps DEF AllValues
<1>2. s2 \in Seq(AllValues) /\ Len(s2) = L + 2 /\ Keeps(stack, s2, M)
  <2> HIDE DEF M, s1
  <2>1. i \in 1..Len(s1)
    BY <1>0, <1>1
  <2> QED
    BY <1>0, <1>1, <2>1, PushValueKeeps
<1>3. s3 \in Seq(AllValues) /\ Len(s3) = L + 3 /\ Keeps(stack, s3, M)
  <2> HIDE DEF M, s2
  <2>1. L - 1 \in 1..Len(s2)
    BY <1>0, <1>2
  <2>2. \A k \in 1..Len(s2) : /\ PushValue(s2, k) \in Seq(AllValues)
                              /\ Len(PushValue(s2, k)) = Len(s2) + 1
                              /\ Keeps(stack, PushValue(s2, k), M)
    BY <1>2, PushValueKeeps
  <2> QED
    BY <1>0, <1>2, <2>1, <2>2
<1>4. s4 \in Seq(AllValues) /\ Len(s4) = L + 4 /\ Keeps(stack, s4, M)
  <2> HIDE DEF M, s3
  <2>1. L \in 1..Len(s3)
    BY <1>0, <1>3
  <2> QED
    BY <1>0, <1>3, <2>1, PushValueKeeps
<1>5. s5 \in Seq(AllValues) /\ Len(s5) = L + 3 /\ Keeps(stack, s5, M)
  <2> HIDE DEF M, s4
  <2>1. L \in 1..Len(s4) /\ M < L
    BY <1>0, <1>4
  <2>2. \A k \in 1..Len(s4) : M < k =>
            /\ RemoveAt(s4, k) \in Seq(AllValues)
            /\ Len(RemoveAt(s4, k)) = Len(s4) - 1
            /\ Keeps(stack, RemoveAt(s4, k), M)
    BY <1>0, <1>4, RemoveKeeps
  <2> QED
    BY <1>0, <1>4, <2>1, <2>2
<1>6. s6 \in Seq(AllValues) /\ Len(s6) = L + 2 /\ Keeps(stack, s6, M)
  <2> HIDE DEF M, s5
  <2>1. L - 1 \in 1..Len(s5) /\ M < L - 1
    BY <1>0, <1>5
  <2>2. \A k \in 1..Len(s5) : M < k =>
            /\ RemoveAt(s5, k) \in Seq(AllValues)
            /\ Len(RemoveAt(s5, k)) = Len(s5) - 1
            /\ Keeps(stack, RemoveAt(s5, k), M)
    BY <1>0, <1>5, RemoveKeeps
  <2> QED
    BY <1>0, <1>5, <2>1, <2>2
<1>7. Protected(s6, 3, 0, out)
  BY DEF SetTable
<1> HIDE DEF s6
<1> QED
  BY <1>0, <1>6, <1>7, ProtectedStep
LEMMA RequireKeeps ==
    ASSUME StackInv, NEW out \in Outcomes, Require(out)
    PROVE  StackInv'
<1> DEFINE L == Len(stack)
           s == stack \o <<"traceback", "require", "name">>
           p == PCalled(s, 1, L + 1, out)
<1>1. L \in Nat
  BY StackItself
<1>2. s \in Seq(AllValues) /\ Len(s) = L + 3
      /\ (\A j \in 1..L : s[j] = stack[j]) /\ s[L + 1] = "traceback"
  <2>1. <<"traceback", "require", "name">> \in Seq(AllValues)
    BY DEF AllValues, StackValues
  <2> QED
    BY <2>1, StackItself
<1>3. Keeps(s, s, L + 1)
  BY <1>1, <1>2, StackItself, ElementOfSeq DEF Keeps, StackValues
<1>4. p \in Seq(StackValues) /\ Keeps(s, p, L + 1)
  <2>1. Len(s) - 1 - 1 = L + 1
    BY <1>1, <1>2
  <2> HIDE DEF s
  <2> QED
    BY <1>2, <1>3, <2>1, PCalledKeeps
<1> HIDE DEF p
<1>5. RemoveAt(p, L + 1) \in Seq(StackValues) /\ Keeps(stack, RemoveAt(p, L + 1), L)
  <2>1. L + 1 \in 1..Len(p) /\ \A j \in 1..L : p[j] = stack[j]
    BY <1>1, <1>2, <1>4, SMTT(40) DEF Keeps
  <2>2. \A k \in 1..Len(p) : /\ RemoveAt(p, k) \in Seq(StackValues)
                             /\ Len(RemoveAt(p, k)) = Len(p) - 1
                             /\ \A j \in 1..(k - 1) : RemoveAt(p, k)[j] = p[j]
    BY <1>4, RemoveAtKeeps
  <2>3. /\ RemoveAt(p, L + 1) \in Seq(StackValues)
        /\ Len(RemoveAt(p, L + 1)) = Len(p) - 1
        /\ \A j \in 1..L : RemoveAt(p, L + 1)[j] = stack[j]
    BY <1>1, <2>1, <2>2
  <2>4. \A j \in 1..L : stack[j] \in StackValues
    BY StackItself, ElementOfSeq
  <2> QED
    BY <1>1, <1>4, <2>1, <2>3, <2>4 DEF Keeps
<1>6. CASE Crashes(s, L + 1, out)
  BY <1>6, StillStep DEF Require, Gone
<1>7. CASE ~Crashes(s, L + 1, out)
  <2>1. stack' = RemoveAt(p, L + 1) /\ UNCHANGED <<frames, alive>>
    BY <1>7 DEF Require, p
  <2>2. L >= Base
    BY StackItself
  <2> QED
    BY <1>5, <2>1, <2>2, KeepingStep DEF StackInv, StackType
<1> QED
  BY <1>6, <1>7

\* An operation that pushes values of the host on what is there.
LEMMA PushingStep ==
    ASSUME StackInv, NEW t \in Seq(StackValues), stack' = stack \o t, UNCHANGED <<frames, alive>>
    PROVE  StackInv'
<1>1. stack \o t \in Seq(StackValues) /\ Keeps(stack, stack \o t, Len(stack))
  <2>1. \A j \in 1..Len(stack) : (stack \o t)[j] = stack[j] /\ stack[j] \in StackValues
    BY StackItself, ElementOfSeq
  <2> QED
    BY <2>1, StackItself DEF Keeps
<1>2. Len(stack) >= Base
  BY StackItself
<1> QED
  BY <1>1, <1>2, KeepingStep DEF StackInv, StackType

\* An operation that drops values above the innermost handler.
LEMMA DroppingStep ==
    ASSUME StackInv, NEW n \in Base..Len(stack), stack' = SetTop(stack, n),
           UNCHANGED <<frames, alive>>
    PROVE  StackInv'
<1>1. n \in 0..Len(stack)
  BY StackItself
<1>2. stack' \in Seq(StackValues) /\ Len(stack') = n /\ \A j \in 1..n : stack'[j] = stack[j]
  BY <1>1, StackItself, SetTopKeeps
<1>3. Keeps(stack, stack', n)
  BY <1>1, <1>2, StackItself, ElementOfSeq DEF Keeps
<1> QED
  BY <1>2, <1>3, KeepingStep DEF StackInv, StackType
LEMMA PushKeepsFrames ==
    ASSUME StackInv, NEW v \in Values, Push(v) \/ Pack(v)
    PROVE  StackInv'
<1>1. <<v>> \in Seq(StackValues)
  BY DEF StackValues
<1>2. CASE Push(v)
  <2>1. stack' = stack \o <<v>>
    BY <1>2, StackItself, <1>1 DEF Push, StackValues
  <2> QED
    BY <1>1, <1>2, <2>1, PushingStep DEF Push
<1>3. CASE Packed(v)
  <2> DEFINE s == stack \o <<"pack", "parts">>
  <2>1. SetTop(s, Len(s) - 2) = stack
    <3>1. s \in Seq(AllValues) /\ Len(s) = Len(stack) + 2
          /\ \A j \in 1..Len(stack) : s[j] = stack[j]
      <4>1. <<"pack", "parts">> \in Seq(AllValues)
        BY DEF AllValues
      <4> QED
        BY <4>1, StackItself
    <3>2. Len(s) - 2 = Len(stack) /\ Len(stack) \in 0..Len(s)
      BY <3>1, StackItself
    <3> HIDE DEF s
    <3>3. /\ SetTop(s, Len(s) - 2) \in Seq(AllValues)
          /\ Len(SetTop(s, Len(s) - 2)) = Len(stack)
          /\ \A j \in 1..Len(stack) : SetTop(s, Len(s) - 2)[j] = stack[j]
      BY <3>1, <3>2, SetTopKeeps, SMTT(90)
    <3> QED
      BY <3>3, StackItself, SeqEqual
  <2>2. stack' = Append(stack, v) /\ UNCHANGED <<frames, alive>>
    BY <1>3, <2>1 DEF Packed
  <2>3. stack' = stack \o <<v>>
    BY <1>1, <2>2, StackItself
  <2> QED
    BY <1>1, <2>2, <2>3, PushingStep
<1>4. CASE Gone
  BY <1>4, StillStep DEF Gone
<1> QED
  BY <1>2, <1>3, <1>4 DEF Pack

LEMMA UnpackKeeps ==
    ASSUME StackInv, NEW i \in DOMAIN stack, Unpack(i)
    PROVE  StackInv'
<1> DEFINE L == Len(stack)
           s1 == Append(stack, "unpack")
           s2 == PushValue(s1, i)
<1>1. s1 \in Seq(AllValues) /\ Len(s1) = L + 1 /\ Keeps(stack, s1, L)
  BY StackItself, PushKeeps DEF AllValues
<1>2. s2 \in Seq(AllValues) /\ Len(s2) = L + 2 /\ Keeps(stack, s2, L)
  <2>1. i \in 1..Len(s1)
    BY <1>1, StackItself
  <2> HIDE DEF s1
  <2> QED
    BY <1>1, <2>1, PushValueKeeps
<1>3. Len(s2) - 2 = L /\ L \in 0..Len(s2)
  BY <1>2, StackItself
<1> HIDE DEF s2
<1>4. ASSUME stack' = SetTop(s2, Len(s2) - 2)
      PROVE  stack' = stack
  <2>1. stack' \in Seq(AllValues) /\ Len(stack') = L /\ \A j \in 1..L : stack'[j] = s2[j]
    BY <1>2, <1>3, <1>4, SetTopKeeps, SMTT(120)
  <2>2. \A j \in 1..L : s2[j] = stack[j]
    BY <1>2 DEF Keeps
  <2> QED
    BY <2>1, <2>2, StackItself, SeqEqual
<1>5. Asked(i) => UNCHANGED <<stack, frames, alive>>
  <2>1. Asked(i) => stack' = SetTop(s2, Len(s2) - 2) /\ UNCHANGED <<frames, alive>>
    BY DEF Asked, s2
  <2> QED
    BY <1>4, <2>1
<1> QED
  BY <1>5, StillStep DEF Unpack, Gone, StackInv, StackType

\* The chunk or one message is left, whatever messages it gave way to.
LEMMA BufferLoaded ==
    ASSUME StackInv, NEW loaded \in {"function", "message"}, LoadBuffer(loaded)
    PROVE  \E v \in {"function", "message"} : stack' = stack \o <<v>>
<1> DEFINE first == Append(stack, "message")
           dropped == SetTop(first, Len(first) - 1)
           told == Append(first, "message")
<1>1. loaded \in StackValues /\ "message" \in StackValues
  BY DEF StackValues
<1>2. first \in Seq(StackValues) /\ Len(first) = Len(stack) + 1
      /\ \A j \in 1..Len(stack) : first[j] = stack[j]
  BY <1>1, StackItself
<1>3. dropped = stack
  <2>1. Len(first) - 1 = Len(stack) /\ Len(stack) \in 0..Len(first)
    BY <1>2, StackItself
  <2> HIDE DEF first
  <2>2. /\ SetTop(first, Len(first) - 1) \in Seq(StackValues)
        /\ Len(SetTop(first, Len(first) - 1)) = Len(stack)
        /\ \A j \in 1..Len(stack) : SetTop(first, Len(first) - 1)[j] = stack[j]
    BY <1>2, <2>1, SetTopKeeps, SMTT(90)
  <2> QED
    BY <2>2, StackItself, SeqEqual
<1>4. RemoveAt(told, Len(told) - 1) = Append(stack, "message")
  <2> DEFINE r == RemoveAt(told, Len(told) - 1)
  <2>1. told \in Seq(StackValues) /\ Len(told) = Len(stack) + 2 /\ told[Len(stack) + 2] = "message"
        /\ \A j \in 1..Len(stack) : told[j] = stack[j]
    BY <1>1, <1>2, StackItself
  <2>2. Len(told) - 1 = Len(stack) + 1 /\ Len(stack) + 1 \in 1..Len(told)
    BY <2>1, StackItself
  <2> HIDE DEF told
  <2>3. /\ r \in Seq(StackValues) /\ Len(r) = Len(stack) + 1
        /\ \A j \in 1..Len(stack) : r[j] = stack[j]
        /\ r[Len(stack) + 1] = "message"
    <3>1. /\ r \in Seq(StackValues) /\ Len(r) = Len(told) - 1
          /\ \A j \in 1..Len(stack) : r[j] = told[j]
          /\ \A j \in (Len(stack) + 1)..(Len(told) - 1) : r[j] = told[j + 1]
      <4>1. \A k \in 1..Len(told) :
               /\ RemoveAt(told, k) \in Seq(StackValues)
               /\ Len(RemoveAt(told, k)) = Len(told) - 1
               /\ \A j \in 1..(k - 1) : RemoveAt(told, k)[j] = told[j]
               /\ \A j \in k..(Len(told) - 1) : RemoveAt(told, k)[j] = told[j + 1]
        BY <2>1, RemoveAtKeeps
      <4> QED
        BY <2>1, <2>2, <4>1, StackItself
    <3> QED
      BY <2>1, <3>1, StackItself
  <2> HIDE DEF r
  <2>4. r = first
    <3>1. first[Len(stack) + 1] = "message"
      BY <1>1, StackItself
    <3>2. \A j \in 1..(Len(stack) + 1) : r[j] = first[j]
      BY <1>2, <2>3, <3>1, StackItself
    <3> HIDE DEF first
    <3> QED
      BY <1>2, <2>3, <3>2, SeqEqual
  <2> QED
    BY <2>4 DEF r
<1>5. \E v \in {"function", "message"} : stack' = Append(stack, v)
  BY <1>3, <1>4 DEF LoadBuffer
<1>6. PICK v \in {"function", "message"} : stack' = Append(stack, v)
  BY <1>5
<1>7. v \in StackValues /\ stack \in Seq(StackValues)
  BY StackItself DEF StackValues
<1>8. Append(stack, v) = stack \o <<v>>
  BY <1>7, AppendIsConcat
<1> QED
  BY <1>6, <1>8

LEMMA LoadBufferKeeps ==
    ASSUME StackInv, NEW loaded \in {"function", "message"}, LoadBuffer(loaded)
    PROVE  StackInv'
<1>1. PICK v \in {"function", "message"} : stack' = stack \o <<v>>
  BY BufferLoaded
<1>2. <<v>> \in Seq(StackValues)
  BY DEF StackValues
<1> QED
  BY <1>1, <1>2, PushingStep DEF LoadBuffer

LEMMA BeginPCallKeeps ==
    ASSUME StackInv, BeginPCall
    PROVE  StackInv'
<1> DEFINE L == Len(stack)
           frame == [top |-> L + 1, before |-> stack]
<1>1. L \in Nat /\ L + 1 \in 1..MaxStack
  BY StackItself, HostStackAssumption DEF BeginPCall, Room
<1>2. /\ stack' \in Seq(StackValues) /\ Len(stack') = L + 2 /\ stack'[L + 1] = "traceback"
      /\ \A j \in 1..L : stack'[j] = stack[j]
  <2>1. <<"traceback", "function">> \in Seq(StackValues)
    BY DEF StackValues
  <2> QED
    BY <2>1, StackItself DEF BeginPCall
<1>3. frame \in [top : 1..MaxStack, before : Seq(StackValues)]
  BY <1>1, StackItself
<1>4. frames' = Append(frames, frame) /\ alive' = alive /\ Len(frames) < MaxFrames
  BY DEF BeginPCall
<1> HIDE DEF frame
<1>5. /\ frames' \in Seq([top : 1..MaxStack, before : Seq(StackValues)])
      /\ Len(frames') = Len(frames) + 1 /\ frames'[Len(frames) + 1] = frame
      /\ \A k \in 1..Len(frames) : frames'[k] = frames[k]
  BY <1>3, <1>4, AppendProperties DEF StackInv, StackType
<1>6. StackType'
  BY <1>2, <1>4, <1>5, HostStackAssumption DEF StackInv, StackType
<1>9. Len(frames) \in Nat
  BY DEF StackInv, StackType
<1>7. ASSUME NEW k \in 1..Len(frames)
      PROVE  FrameKept(k)'
  <2>1. FrameKept(k) /\ frames[k].top \in Nat \ {0}
    BY FrameType DEF StackInv
  <2>2. frames'[k] = frames[k] /\ \A l \in 1..(k - 1) : frames'[l] = frames[l]
    BY <1>5
  <2> QED
    BY <1>1, <1>2, <2>1, <2>2, SMTT(40) DEF FrameKept
<1>8. ASSUME NEW k, k = Len(frames) + 1
      PROVE  FrameKept(k)'
  <2>1. frame.top = L + 1 /\ frame.before = stack
    BY DEF frame
  <2>2. \A l \in 1..Len(frames) : frames[l].top < L + 1
    BY <1>1, FrameType DEF StackInv, FrameKept
  <2>3. \A l \in 1..Len(frames) : frames'[l].top < L + 1
    BY <1>5, <2>2
  <2>4. frames'[k].top = L + 1 /\ frames'[k].before = stack
    BY <1>5, <1>8, <2>1
  <2>5. 1..(k - 1) = 1..Len(frames) /\ L + 1 <= L + 2 /\ (L + 1) - 1 = L
    BY <1>1, <1>8, <1>9
  <2> HIDE DEF L
  <2>6. Len(stack) = L
    BY DEF L
  <2> QED
    BY <1>2, <2>3, <2>4, <2>5, <2>6 DEF FrameKept
<1>10. \A k \in 1..(Len(frames) + 1) : k \in 1..Len(frames) \/ k = Len(frames) + 1
  BY <1>9
<1>11. \A k \in 1..Len(frames') : FrameKept(k)'
  BY <1>5, <1>7, <1>8, <1>10
<1> QED
  BY <1>6, <1>11 DEF StackInv

LEMMA PCallKeeps ==
    ASSUME StackInv, NEW out \in Outcomes, PCall(out)
    PROVE  StackInv'
<1> DEFINE n == Len(stack) - Floor
<1>1. Floor = Base + 1 /\ Len(stack) >= Floor /\ Base \in Nat /\ Len(stack) \in Nat
  BY BaseBounds, StackItself DEF PCall, Owns
<1>2. n \in Nat /\ Len(stack) - n - 1 = Base
  BY <1>1
<1>3. Keeps(stack, stack, Len(stack) - n - 1)
  BY <1>2, StackItself
<1>4. \E handler : Protected(stack, n, handler, out)
  BY DEF PCall
<1> HIDE DEF n
<1>5. Len(stack) - n - 1 >= Base
  BY <1>1, <1>2
<1> QED
  BY <1>2, <1>3, <1>4, <1>5, StackItself, ProtectedStep

LEMMA EndPCallKeeps ==
    ASSUME StackInv, EndPCall
    PROVE  StackInv'
<1> DEFINE F == Len(frames)
<1>1. F \in Nat \ {0} /\ Base = frames[F].top /\ Base \in Nat \ {0}
  <2>1. Len(frames) \in 1..Len(frames)
    BY DEF EndPCall, StackInv, StackType
  <2> QED
    BY <2>1, FrameType DEF EndPCall, Base, StackInv
<1>2. /\ stack' \in Seq(StackValues) /\ Len(stack') = Base - 1
      /\ \A j \in 1..(Base - 1) : stack'[j] = stack[j]
  <2>1. stack' = SetTop(stack, Base - 1)
    BY <1>1 DEF EndPCall, Last
  <2>2. Base - 1 \in 0..Len(stack)
    BY <1>1, StackItself
  <2> QED
    BY <2>1, <2>2, StackItself, SetTopKeeps
<1>3. /\ frames' \in Seq([top : 1..MaxStack, before : Seq(StackValues)])
      /\ Len(frames') = F - 1
      /\ \A k \in 1..(F - 1) : frames'[k] = frames[k]
  <2>1. frames \in Seq([top : 1..MaxStack, before : Seq(StackValues)]) /\ frames # <<>>
    BY DEF EndPCall, StackInv, StackType
  <2> QED
    BY <2>1, FrontKeeps, Zenon DEF EndPCall
<1>4. StackType'
  BY <1>1, <1>2, <1>3, HostStackAssumption DEF StackInv, StackType, EndPCall
<1>5. ASSUME NEW k \in 1..(F - 1)
      PROVE  FrameKept(k)'
  <2>1. FrameKept(k) /\ FrameKept(F) /\ frames[k].top \in Nat \ {0}
    BY <1>1, FrameType DEF StackInv
  <2>2. frames[k].top <= Base - 1
    BY <1>1, <2>1 DEF FrameKept
  <2>3. frames'[k] = frames[k] /\ \A l \in 1..(k - 1) : frames'[l] = frames[l]
    BY <1>1, <1>3
  <2>4. \A j \in 1..frames[k].top : stack'[j] = stack[j]
    BY <1>1, <1>2, <2>1, <2>2
  <2>5. /\ frames[k].top <= Len(stack')
        /\ stack'[frames[k].top] = "traceback"
        /\ \A j \in 1..(frames[k].top - 1) : stack'[j] = frames[k].before[j]
    BY <1>1, <1>2, <2>1, <2>2, <2>4 DEF FrameKept
  <2>6. \A l \in 1..(k - 1) : frames'[l].top < frames'[k].top
    BY <2>1, <2>3 DEF FrameKept
  <2> QED
    BY <2>1, <2>3, <2>5, <2>6 DEF FrameKept
<1> QED
  BY <1>3, <1>4, <1>5 DEF StackInv

LEMMA SettleKeeps ==
    ASSUME StackInv, NEW n, Settle(n)
    PROVE  StackInv'
<1>1. n \in Base..Len(stack)
  BY BaseBounds, StackItself DEF Settle, Base
<1> QED
  BY <1>1, DroppingStep DEF Settle

LEMMA InitInv == Init => StackInv
BY HostStackAssumption DEF Init, StackInv, StackType

LEMMA NextInv == StackInv /\ [Next]_vars => StackInv'
<1> SUFFICES ASSUME StackInv, [Next]_vars
             PROVE  StackInv'
  OBVIOUS
<1>1. ASSUME NEW v \in Values, Push(v) \/ Pack(v)
      PROVE  StackInv'
  BY <1>1, PushKeepsFrames
<1>2. ASSUME NEW i \in DOMAIN stack, NEW out \in OneValue, GetField(i, out) \/ GetTable(i, out)
      PROVE  StackInv'
  BY <1>2, GetFieldKeeps, GetTableKeeps
<1>3. ASSUME NEW i \in DOMAIN stack, NEW out \in NoValue, SetField(i, out) \/ SetTable(i, out)
      PROVE  StackInv'
  BY <1>3, SetFieldKeeps, SetTableKeeps
<1>4. ASSUME NEW i \in DOMAIN stack, Unpack(i)
      PROVE  StackInv'
  BY <1>4, UnpackKeeps
<1>5. ASSUME NEW out \in Outcomes, Require(out) \/ PCall(out)
      PROVE  StackInv'
  BY <1>5, RequireKeeps, PCallKeeps
<1>6. CASE BeginPCall \/ EndPCall
  BY <1>6, BeginPCallKeeps, EndPCallKeeps
<1>7. ASSUME NEW loaded \in {"function", "message"}, LoadBuffer(loaded)
      PROVE  StackInv'
  BY <1>7, LoadBufferKeeps
<1>8. ASSUME NEW n \in 0..MaxStack, Settle(n)
      PROVE  StackInv'
  BY <1>8, SettleKeeps
<1>9. CASE UNCHANGED vars
  BY <1>9, StillStep DEF vars, StackInv, StackType
<1> QED
  BY <1>1, <1>2, <1>3, <1>4, <1>5, <1>6, <1>7, <1>8, <1>9 DEF Next

LEMMA InvTypeOK == StackInv => TypeOK
<1> SUFFICES ASSUME StackInv
             PROVE  TypeOK
  OBVIOUS
<1>1. \A k \in 1..Len(frames) : frames[k].top \in 1..MaxStack
  BY FrameType DEF StackInv
<1> QED
  BY <1>1 DEF StackInv, StackType, TypeOK

LEMMA InvFrames == StackInv => FramesIntact
<1> SUFFICES ASSUME StackInv, NEW k \in DOMAIN frames
             PROVE  /\ frames[k].top \in DOMAIN stack
                    /\ stack[frames[k].top] = "traceback"
                    /\ SubSeq(stack, 1, frames[k].top - 1) = frames[k].before
  BY DEF FramesIntact
<1> DEFINE top == frames[k].top
<1>1. k \in 1..Len(frames)
  BY DEF StackInv, StackType
<1>2. top \in Nat \ {0} /\ frames[k].before \in Seq(StackValues) /\ FrameKept(k)
  BY <1>1, FrameType DEF StackInv
<1>3. top \in 1..Len(stack)
  BY <1>2, StackItself DEF FrameKept
<1>4. /\ SetTop(stack, top - 1) \in Seq(StackValues)
      /\ Len(SetTop(stack, top - 1)) = top - 1
      /\ \A j \in 1..(top - 1) : SetTop(stack, top - 1)[j] = stack[j]
  <2>1. top - 1 \in 0..Len(stack)
    BY <1>3, StackItself
  <2> HIDE DEF top
  <2> QED
    BY <2>1, StackItself, SetTopKeeps
<1>5. SetTop(stack, top - 1) = frames[k].before
  BY <1>2, <1>4, SeqEqual, SMTT(40) DEF FrameKept
<1> QED
  BY <1>2, <1>3, <1>5, StackItself DEF FrameKept, SetTop

-----------------------------------------------------------------------------
THEOREM StackInvariant == Spec => []StackInv
<1>1. Init => StackInv
  BY InitInv
<1>2. StackInv /\ [Next]_vars => StackInv'
  BY NextInv
<1> QED
  BY <1>1, <1>2, PTL DEF Spec

\* The stack holds values of the host only, and at most MaxFrames calls are
\* under way.
THEOREM TypeCorrect == Spec => []TypeOK
BY StackInvariant, InvTypeOK, PTL

\* Whatever the host does in a call that it has begun (tolua_beginpcall), the
\* handler stays where the host was told, and the stack below as it was.
THEOREM FramesSafe == Spec => []FramesIntact
BY StackInvariant, InvFrames, PTL

-----------------------------------------------------------------------------
(* HostStack implements StackPromise: for every operation, what its pushes *)
(* and removals leave is written as a rest and an answer on it.            *)

\* Two stretches of the stack, one on the other.
LEMMA OnTop ==
    ASSUME NEW S, NEW b \in Seq(S), NEW t \in Seq(S)
    PROVE  /\ b \o t \in Seq(S) /\ Len(b \o t) = Len(b) + Len(t)
           /\ SetTop(b \o t, Len(b)) = b
           /\ SubSeq(b \o t, Len(b) + 1, Len(b) + Len(t)) = t
           /\ \A j \in 1..Len(b) : (b \o t)[j] = b[j]
<1> DEFINE s == b \o t
<1>1. /\ s \in Seq(S) /\ Len(s) = Len(b) + Len(t)
      /\ \A j \in 1..Len(b) : s[j] = b[j]
      /\ \A j \in 1..Len(t) : s[Len(b) + j] = t[j]
  OBVIOUS
<1> HIDE DEF s
<1>2. SetTop(s, Len(b)) = b
  <2>1. Len(b) \in 0..Len(s)
    BY <1>1
  <2>2. /\ SetTop(s, Len(b)) \in Seq(S) /\ Len(SetTop(s, Len(b))) = Len(b)
        /\ \A j \in 1..Len(b) : SetTop(s, Len(b))[j] = b[j]
    BY <1>1, <2>1, SetTopKeeps
  <2> QED
    BY <2>2, SeqEqual
<1>3. SubSeq(s, Len(b) + 1, Len(b) + Len(t)) = t
  <2> DEFINE u == SubSeq(s, Len(b) + 1, Len(b) + Len(t))
  <2>1. u \in Seq(S) /\ Len(u) = Len(t) /\ \A j \in 1..Len(t) : u[j] = s[Len(b) + j]
    BY <1>1
  <2> HIDE DEF u
  <2>2. u = t
    BY <1>1, <2>1, SeqEqual
  <2> QED
    BY <2>2 DEF u
<1> QED
  BY <1>1, <1>2, <1>3 DEF s

\* Removing what lies between.
LEMMA TakenOut ==
    ASSUME NEW S, NEW b \in Seq(S), NEW x \in S, NEW t \in Seq(S)
    PROVE  RemoveAt((b \o <<x>>) \o t, Len(b) + 1) = b \o t
<1> DEFINE s == (b \o <<x>>) \o t
           r == RemoveAt(s, Len(b) + 1)
           u == b \o t
<1>1. /\ s \in Seq(S) /\ Len(s) = Len(b) + 1 + Len(t)
      /\ \A j \in 1..Len(b) : s[j] = b[j]
      /\ \A j \in 1..Len(t) : s[Len(b) + 1 + j] = t[j]
  <2> DEFINE c == b \o <<x>>
  <2>1. c \in Seq(S) /\ Len(c) = Len(b) + 1 /\ \A j \in 1..Len(b) : c[j] = b[j]
    OBVIOUS
  <2> HIDE DEF c
  <2>2. /\ c \o t \in Seq(S) /\ Len(c \o t) = Len(b) + 1 + Len(t)
        /\ \A j \in 1..Len(b) : (c \o t)[j] = b[j]
        /\ \A j \in 1..Len(t) : (c \o t)[Len(b) + 1 + j] = t[j]
    BY <2>1
  <2> QED
    BY <2>2 DEF c
<1>2. /\ u \in Seq(S) /\ Len(u) = Len(b) + Len(t)
      /\ \A j \in 1..Len(b) : u[j] = b[j]
      /\ \A j \in 1..Len(t) : u[Len(b) + j] = t[j]
  OBVIOUS
<1> HIDE DEF s, u
<1>3. Len(b) + 1 \in 1..Len(s)
  BY <1>1
<1>4. /\ r \in Seq(S) /\ Len(r) = Len(s) - 1
      /\ \A j \in 1..Len(b) : r[j] = s[j]
      /\ \A j \in (Len(b) + 1)..(Len(s) - 1) : r[j] = s[j + 1]
  <2>1. \A k \in 1..Len(s) :
           /\ RemoveAt(s, k) \in Seq(S) /\ Len(RemoveAt(s, k)) = Len(s) - 1
           /\ \A j \in 1..(k - 1) : RemoveAt(s, k)[j] = s[j]
           /\ \A j \in k..(Len(s) - 1) : RemoveAt(s, k)[j] = s[j + 1]
    BY <1>1, RemoveAtKeeps
  <2>2. 1..((Len(b) + 1) - 1) = 1..Len(b)
    OBVIOUS
  <2> QED
    BY <1>3, <2>1, <2>2
<1> HIDE DEF r
<1>5. ASSUME NEW j \in 1..Len(u)
      PROVE  r[j] = u[j]
  <2>1. CASE j <= Len(b)
    BY <1>1, <1>2, <1>4, <2>1
  <2>2. CASE j > Len(b)
    <3>1. /\ j - Len(b) \in 1..Len(t) /\ j = Len(b) + (j - Len(b))
          /\ j + 1 = Len(b) + 1 + (j - Len(b)) /\ j \in (Len(b) + 1)..(Len(s) - 1)
      BY <1>1, <1>2, <2>2
    <3>2. u[j] = t[j - Len(b)] /\ s[j + 1] = t[j - Len(b)]
      BY <1>1, <1>2, <3>1
    <3> QED
      BY <1>4, <3>1, <3>2
  <2> QED
    BY <1>2, <2>1, <2>2
<1>6. r = u
  BY <1>1, <1>2, <1>4, <1>5, SeqEqual
<1> QED
  BY <1>6 DEF r, s, u

\* Pushing on what lies on b.
LEMMA PushOn ==
    ASSUME NEW S, NEW b \in Seq(S), NEW t \in Seq(S), NEW x \in S
    PROVE  /\ Append(b \o t, x) = b \o Append(t, x)
           /\ Append(b, x) = b \o <<x>>
<1>1. Append(b, x) = b \o <<x>>
  BY AppendIsConcat
<1>2. Append(t, x) = t \o <<x>> /\ <<x>> \in Seq(S) /\ b \o t \in Seq(S)
  BY AppendIsConcat
<1>3. Append(b \o t, x) = (b \o t) \o <<x>>
  BY <1>2, AppendIsConcat
<1>4. (b \o t) \o <<x>> = b \o (t \o <<x>>)
  BY <1>2, ConcatAssociative
<1> QED
  BY <1>1, <1>2, <1>3, <1>4

\* A stack is what lies below its topmost value, and that value.
LEMMA TopOf ==
    ASSUME NEW S, NEW s \in Seq(S), NEW n \in 1..Len(s)
    PROVE  /\ SubSeq(s, 1, n - 1) \in Seq(S) /\ Len(SubSeq(s, 1, n - 1)) = n - 1
           /\ s[n] \in S
           /\ SubSeq(s, 1, n) = SubSeq(s, 1, n - 1) \o <<s[n]>>
<1> DEFINE b == SubSeq(s, 1, n - 1)
           u == SubSeq(s, 1, n)
<1>1. b \in Seq(S) /\ Len(b) = n - 1 /\ \A j \in 1..(n - 1) : b[j] = s[j]
  OBVIOUS
<1>2. u \in Seq(S) /\ Len(u) = n /\ \A j \in 1..n : u[j] = s[j]
  OBVIOUS
<1>3. s[n] \in S
  OBVIOUS
<1> HIDE DEF b, u
<1>4. /\ b \o <<s[n]>> \in Seq(S) /\ Len(b \o <<s[n]>>) = n
      /\ \A j \in 1..n : (b \o <<s[n]>>)[j] = s[j]
  BY <1>1, <1>3
<1>5. u = b \o <<s[n]>>
  <2> DEFINE w == b \o <<s[n]>>
  <2>1. w \in Seq(S) /\ Len(w) = n /\ \A j \in 1..n : w[j] = s[j]
    BY <1>4
  <2> HIDE DEF w
  <2>2. u = w
    BY <1>2, <2>1, SeqEqual
  <2> QED
    BY <2>2 DEF w
<1> QED
  BY <1>1, <1>3, <1>5 DEF b, u

\* One more value at the end of a few.
LEMMA LongerTuple ==
    ASSUME NEW S, NEW x \in S, NEW y \in S
    PROVE  /\ Append(<<x>>, y) = <<x, y>>
           /\ \A z \in S : Append(<<x, y>>, z) = <<x, y, z>>
           /\ \A z, w \in S : Append(<<x, y, z>>, w) = <<x, y, z, w>>
<1>1. ASSUME NEW t \in Seq(S), NEW u \in Seq(S), NEW v \in S, Len(u) = Len(t) + 1,
             \A j \in 1..Len(t) : u[j] = t[j], u[Len(u)] = v
      PROVE  Append(t, v) = u
  <2> DEFINE r == Append(t, v)
  <2>1. /\ r \in Seq(S) /\ Len(r) = Len(t) + 1 /\ r[Len(t) + 1] = v
        /\ \A j \in 1..Len(t) : r[j] = t[j]
    BY AppendProperties
  <2> HIDE DEF r
  <2>2. \A j \in 1..Len(u) : r[j] = u[j]
    BY <1>1, <2>1
  <2>3. r = u
    BY <1>1, <2>1, <2>2, SeqEqual
  <2> QED
    BY <2>3 DEF r
<1>2. /\ <<x>> \in Seq(S) /\ Len(<<x>>) = 1 /\ <<x>>[1] = x
      /\ <<x, y>> \in Seq(S) /\ Len(<<x, y>>) = 2 /\ <<x, y>>[1] = x /\ <<x, y>>[2] = y
  OBVIOUS
<1>3. ASSUME NEW z \in S
      PROVE  /\ <<x, y, z>> \in Seq(S) /\ Len(<<x, y, z>>) = 3
             /\ <<x, y, z>>[1] = x /\ <<x, y, z>>[2] = y /\ <<x, y, z>>[3] = z
  OBVIOUS
<1>4. ASSUME NEW z \in S, NEW w \in S
      PROVE  /\ <<x, y, z, w>> \in Seq(S) /\ Len(<<x, y, z, w>>) = 4
             /\ <<x, y, z, w>>[1] = x /\ <<x, y, z, w>>[2] = y /\ <<x, y, z, w>>[3] = z
             /\ <<x, y, z, w>>[4] = w
  OBVIOUS
<1>5. Append(<<x>>, y) = <<x, y>>
  <2> DEFINE t == <<x>>
             u == <<x, y>>
  <2>1. t \in Seq(S) /\ u \in Seq(S) /\ Len(t) = 1 /\ Len(u) = 2 /\ u[1] = t[1] /\ u[2] = y
    BY <1>2
  <2> HIDE DEF t, u
  <2>2. Len(u) = Len(t) + 1 /\ u[Len(u)] = y /\ \A j \in 1..Len(t) : u[j] = t[j]
    BY <2>1
  <2>3. Append(t, y) = u
    BY <1>1, <2>1, <2>2
  <2> QED
    BY <2>3 DEF t, u
<1>6. ASSUME NEW z \in S PROVE Append(<<x, y>>, z) = <<x, y, z>>
  <2> DEFINE t == <<x, y>>
             u == <<x, y, z>>
  <2>1. /\ t \in Seq(S) /\ u \in Seq(S) /\ Len(t) = 2 /\ Len(u) = 3
        /\ u[1] = t[1] /\ u[2] = t[2] /\ u[3] = z
    BY <1>2, <1>3
  <2> HIDE DEF t, u
  <2>2. Len(u) = Len(t) + 1 /\ u[Len(u)] = z /\ \A j \in 1..Len(t) : u[j] = t[j]
    BY <2>1
  <2>3. Append(t, z) = u
    BY <1>1, <2>1, <2>2
  <2> QED
    BY <2>3 DEF t, u
<1>7. ASSUME NEW z \in S, NEW w \in S PROVE Append(<<x, y, z>>, w) = <<x, y, z, w>>
  <2> DEFINE t == <<x, y, z>>
             u == <<x, y, z, w>>
  <2>1. /\ t \in Seq(S) /\ u \in Seq(S) /\ Len(t) = 3 /\ Len(u) = 4
        /\ u[1] = t[1] /\ u[2] = t[2] /\ u[3] = t[3] /\ u[4] = w
    BY <1>3, <1>4
  <2> HIDE DEF t, u
  <2>2. Len(u) = Len(t) + 1 /\ u[Len(u)] = w /\ \A j \in 1..Len(t) : u[j] = t[j]
    BY <2>1
  <2>3. Append(t, w) = u
    BY <1>1, <2>1, <2>2
  <2> QED
    BY <2>3 DEF t, u
<1> QED
  BY <1>5, <1>6, <1>7

\* Several values pushed one after the other.
LEMMA PushedOn ==
    ASSUME NEW S, NEW b \in Seq(S), NEW x \in S, NEW y \in S
    PROVE  /\ Append(Append(b, x), y) = b \o <<x, y>>
           /\ \A z \in S : Append(Append(Append(b, x), y), z) = b \o <<x, y, z>>
           /\ \A z, w \in S : Append(Append(Append(Append(b, x), y), z), w) = b \o <<x, y, z, w>>
<1>1. <<x>> \in Seq(S) /\ <<x, y>> \in Seq(S) /\ \A z \in S : <<x, y, z>> \in Seq(S)
  OBVIOUS
<1>2. /\ Append(<<x>>, y) = <<x, y>>
      /\ \A z \in S : Append(<<x, y>>, z) = <<x, y, z>>
      /\ \A z, w \in S : Append(<<x, y, z>>, w) = <<x, y, z, w>>
  BY LongerTuple
<1>3. Append(b, x) = b \o <<x>>
  BY PushOn
<1>4. Append(b \o <<x>>, y) = b \o <<x, y>>
  BY <1>1, <1>2, PushOn
<1>5. \A z \in S : Append(b \o <<x, y>>, z) = b \o <<x, y, z>>
  BY <1>1, <1>2, PushOn
<1>6. \A z, w \in S : Append(b \o <<x, y, z>>, w) = b \o <<x, y, z, w>>
  <2> TAKE z, w \in S
  <2>1. Append(b \o <<x, y, z>>, w) = b \o Append(<<x, y, z>>, w)
    BY <1>1, PushOn
  <2> QED
    BY <1>2, <2>1
<1>7. Append(Append(b, x), y) = b \o <<x, y>>
  BY <1>3, <1>4
<1>8. \A z \in S : Append(Append(Append(b, x), y), z) = b \o <<x, y, z>>
  BY <1>5, <1>7
<1> QED
  BY <1>6, <1>7, <1>8

\* A protected call without a handler of what lies on b.
LEMMA CallOnTop ==
    ASSUME NEW b \in Seq(AllValues), NEW t \in Seq(AllValues), NEW n \in Nat, Len(t) = n + 1,
           NEW out \in OneValue \cup NoValue, Protected(b \o t, n, 0, out)
    PROVE  /\ called' = t
           /\ stack' = b \o (IF out.error THEN <<out.values[1]>> ELSE out.values)
<1> DEFINE s == b \o t
<1>1. /\ s \in Seq(AllValues) /\ Len(s) = Len(b) + n + 1 /\ Len(s) - n - 1 = Len(b)
      /\ Len(s) - n = Len(b) + 1
      /\ SetTop(s, Len(b)) = b /\ SubSeq(s, Len(b) + 1, Len(s)) = t
  <2>1. Len(b) + Len(t) = Len(b) + n + 1
    OBVIOUS
  <2>2. Len(s) = Len(b) + Len(t) /\ SetTop(s, Len(b)) = b
        /\ SubSeq(s, Len(b) + 1, Len(b) + Len(t)) = t /\ s \in Seq(AllValues)
    BY OnTop
  <2> QED
    BY <2>1, <2>2
<1>2. Protected(s, n, 0, out)
  OBVIOUS
<1> HIDE DEF s
<1>3. called' = SubSeq(s, Len(s) - n, Len(s)) /\ stack' = PCalled(s, n, 0, out)
  BY <1>2 DEF Protected, Crashes
<1>4. \A e : Handled(s, 0, e) = e
  BY DEF Handled
<1> QED
  BY <1>1, <1>3, <1>4 DEF PCalled

\* What such a call leaves on the stack.
LEMMA OneAnswer ==
    ASSUME NEW out \in OneValue
    PROVE  (IF out.error THEN <<out.values[1]>> ELSE out.values)
               \in Promise!Alone(Values \cup Errors)
<1>1. CASE \E v \in Values : out = Returned(<<v>>)
  BY <1>1 DEF Returned, Promise!Alone
<1>2. CASE \E e \in Errors : out = Raised(e)
  BY <1>2 DEF Raised, Promise!Alone
<1> QED
  BY <1>1, <1>2 DEF OneValue

LEMMA NoAnswer ==
    ASSUME NEW out \in NoValue
    PROVE  (IF out.error THEN <<out.values[1]>> ELSE out.values)
               \in {<<>>} \cup Promise!Alone(Errors)
<1>1. CASE out = Returned(<<>>)
  BY <1>1 DEF Returned
<1>2. CASE \E e \in Errors : out = Raised(e)
  BY <1>2 DEF Raised, Promise!Alone
<1> QED
  BY <1>1, <1>2 DEF NoValue

\* What is left of the stack when n operands are taken off.
LEMMA Operands ==
    ASSUME StackInv
    PROVE  /\ SubSeq(stack, 1, Len(stack) - 0) = stack
           /\ \A n \in 0..Len(stack) :
                /\ SubSeq(stack, 1, n) \in Seq(AllValues) /\ Len(SubSeq(stack, 1, n)) = n
                /\ n > 0 => /\ SubSeq(stack, 1, n) = SubSeq(stack, 1, n - 1) \o <<stack[n]>>
                            /\ stack[n] \in StackValues /\ stack[n] \in AllValues
<1>1. stack \in Seq(AllValues) /\ stack \in Seq(StackValues) /\ Len(stack) \in Nat
  BY StackItself
<1>2. SubSeq(stack, 1, Len(stack)) = stack
  BY <1>1, SubSeqFull
<1>3. ASSUME NEW n \in 0..Len(stack)
      PROVE  /\ SubSeq(stack, 1, n) \in Seq(AllValues) /\ Len(SubSeq(stack, 1, n)) = n
             /\ n > 0 => /\ SubSeq(stack, 1, n) = SubSeq(stack, 1, n - 1) \o <<stack[n]>>
                         /\ stack[n] \in StackValues /\ stack[n] \in AllValues
  <2>1. SubSeq(stack, 1, n) \in Seq(AllValues) /\ Len(SubSeq(stack, 1, n)) = n
    BY <1>1
  <2>2. n > 0 => n \in 1..Len(stack)
    OBVIOUS
  <2> QED
    BY <1>1, <2>1, <2>2, TopOf
<1> QED
  BY <1>1, <1>2, <1>3

LEMMA GetFieldPromised ==
    ASSUME StackInv, NEW i \in DOMAIN stack, NEW out \in OneValue, GetField(i, out)
    PROVE  Promise!GetField
<1> DEFINE x == stack[i]
           t == <<"getfield", x, "key">>
<1>1. stack \in Seq(AllValues) /\ i \in 1..Len(stack) /\ x \in AllValues
  BY StackItself, Operands
<1>2. t \in Seq(AllValues) /\ Len(t) = 2 + 1
  BY <1>1 DEF AllValues
<1>3. PushValue(Append(stack, "getfield"), i) = Append(Append(stack, "getfield"), x)
  BY <1>1 DEF PushValue, AllValues
<1>4. Append(PushValue(Append(stack, "getfield"), i), "key") = stack \o t
  <2>1. "getfield" \in AllValues /\ "key" \in AllValues
    BY DEF AllValues
  <2>2. Append(Append(Append(stack, "getfield"), x), "key") = stack \o t
    BY <1>1, <2>1, PushedOn
  <2> QED
    BY <1>3, <2>2
<1>5. Protected(stack \o t, 2, 0, out)
  BY <1>4 DEF GetField
<1> HIDE DEF t
<1>6. called' = t /\ stack' = stack \o (IF out.error THEN <<out.values[1]>> ELSE out.values)
  BY <1>1, <1>2, <1>5, CallOnTop
<1> QED
  BY <1>6, OneAnswer, Operands DEF Promise!GetField, Promise!Answer, t

\* Pushing a value that lies below once more.
LEMMA PushCopy ==
    ASSUME NEW S, NEW b \in Seq(S), NEW t \in Seq(S), NEW i \in 1..Len(b)
    PROVE  PushValue(b \o t, i) = Append(b \o t, b[i])
<1>1. (b \o t)[i] = b[i]
  BY OnTop
<1> QED
  BY <1>1 DEF PushValue

\* The pushes of the table accesses.
LEMMA PushedOperands ==
    ASSUME NEW S, NEW s \in Seq(S), NEW f \in S, NEW i \in 1..Len(s), NEW j \in 1..Len(s)
    PROVE  /\ PushValue(PushValue(Append(s, f), i), j) = s \o <<f, s[i], s[j]>>
           /\ <<f, s[i], s[j]>> \in Seq(S) /\ Len(<<f, s[i], s[j]>>) = 3
           /\ \A k \in 1..Len(s) :
                /\ PushValue(PushValue(PushValue(Append(s, f), i), j), k) = s \o <<f, s[i], s[j], s[k]>>
                /\ <<f, s[i], s[j], s[k]>> \in Seq(S) /\ Len(<<f, s[i], s[j], s[k]>>) = 4
           /\ \A e \in S :
                /\ PushValue(Append(PushValue(Append(s, f), i), e), j) = s \o <<f, s[i], e, s[j]>>
                /\ <<f, s[i], e, s[j]>> \in Seq(S) /\ Len(<<f, s[i], e, s[j]>>) = 4
<1>1. \A k \in 1..Len(s) : s[k] \in S
  OBVIOUS
<1>2. PICK x \in S : x = s[i]
  BY <1>1
<1>3. PICK y \in S : y = s[j]
  BY <1>1
<1>4. /\ <<f>> \in Seq(S) /\ <<f, x>> \in Seq(S) /\ <<f, x, y>> \in Seq(S) /\ Len(<<f, x, y>>) = 3
  OBVIOUS
<1>5. \A z, w \in S : <<f, x, z, w>> \in Seq(S) /\ Len(<<f, x, z, w>>) = 4
  OBVIOUS
<1>6. \A e \in S : <<f, x, e>> \in Seq(S)
  OBVIOUS
<1>7. PushValue(Append(s, f), i) = s \o <<f, x>>
  <2>1. Append(s, f) = s \o <<f>>
    BY PushOn
  <2>2. PushValue(s \o <<f>>, i) = Append(s \o <<f>>, x)
    BY <1>2, <1>4, PushCopy
  <2>3. Append(Append(s, f), x) = s \o <<f, x>>
    BY PushedOn
  <2> QED
    BY <2>1, <2>2, <2>3
<1>8. \A e \in S : Append(s \o <<f, x>>, e) = s \o <<f, x, e>>
  <2> TAKE e \in S
  <2>1. Append(s \o <<f, x>>, e) = s \o Append(<<f, x>>, e)
    BY <1>4, PushOn
  <2>2. Append(<<f, x>>, e) = <<f, x, e>>
    BY LongerTuple, ZenonT(60)
  <2> QED
    BY <2>1, <2>2
<1>9. \A e, w \in S : Append(s \o <<f, x, e>>, w) = s \o <<f, x, e, w>>
  <2> TAKE e, w \in S
  <2>1. Append(s \o <<f, x, e>>, w) = s \o Append(<<f, x, e>>, w)
    BY <1>6, PushOn
  <2>2. \A p, q, z, v \in S : Append(<<p, q, z>>, v) = <<p, q, z, v>>
    <3> TAKE p, q \in S
    <3>1. /\ Append(<<p>>, q) = <<p, q>>
          /\ \A z \in S : Append(<<p, q>>, z) = <<p, q, z>>
          /\ \A z, v \in S : Append(<<p, q, z>>, v) = <<p, q, z, v>>
      BY LongerTuple
    <3> QED
      BY <3>1
  <2>3. Append(<<f, x, e>>, w) = <<f, x, e, w>>
    BY <1>4, <2>2, ZenonT(60)
  <2> QED
    BY <2>1, <2>3, Zenon
<1>10. PushValue(s \o <<f, x>>, j) = s \o <<f, x, y>>
  <2>1. PushValue(s \o <<f, x>>, j) = Append(s \o <<f, x>>, y)
    BY <1>3, <1>4, PushCopy
  <2> QED
    BY <1>8, <2>1
<1>11. \A e \in S : \A k \in 1..Len(s) : PushValue(s \o <<f, x, e>>, k) = s \o <<f, x, e, s[k]>>
  <2> TAKE e \in S
  <2> TAKE k \in 1..Len(s)
  <2>1. PushValue(s \o <<f, x, e>>, k) = Append(s \o <<f, x, e>>, s[k])
    BY <1>6, PushCopy
  <2> QED
    BY <1>1, <1>9, <2>1
<1>12. PushValue(PushValue(Append(s, f), i), j) = s \o <<f, x, y>>
  BY <1>7, <1>10
<1>13. ASSUME NEW k \in 1..Len(s)
       PROVE  PushValue(PushValue(PushValue(Append(s, f), i), j), k) = s \o <<f, x, y, s[k]>>
  BY <1>11, <1>12
<1>14. ASSUME NEW e \in S
       PROVE  PushValue(Append(PushValue(Append(s, f), i), e), j) = s \o <<f, x, e, y>>
  BY <1>3, <1>7, <1>8, <1>11
<1> QED
  BY <1>1, <1>2, <1>3, <1>4, <1>5, <1>12, <1>13, <1>14, Zenon

\* What is left without the topmost value, and what is left of that.
LEMMA TopValue ==
    ASSUME StackInv, NEW L, L = Len(stack), L > 0, NEW b, b = SubSeq(stack, 1, L - 1)
    PROVE  /\ b \in Seq(AllValues) /\ Len(b) + 1 = L
           /\ stack[L] \in AllValues /\ stack = b \o <<stack[L]>>
<1>1. L \in 0..L /\ L - 1 \in 0..L /\ stack \in Seq(AllValues)
  BY StackItself
<1>2. SubSeq(stack, 1, L) = stack
  BY <1>1, SubSeqFull
<1>3. /\ SubSeq(stack, 1, L) = b \o <<stack[L]>> /\ stack[L] \in AllValues
      /\ b \in Seq(AllValues) /\ Len(b) = L - 1
  BY <1>1, Operands
<1>4. Len(b) + 1 = L
  BY <1>1, <1>3
<1> QED
  BY <1>2, <1>3, <1>4, Zenon

LEMMA SecondValue ==
    ASSUME StackInv, NEW L, L = Len(stack), L > 1,
           NEW b, b = SubSeq(stack, 1, L - 1), NEW c, c = SubSeq(stack, 1, L - 2)
    PROVE  /\ c \in Seq(AllValues) /\ Len(c) + 1 = L - 1
           /\ stack[L - 1] \in AllValues /\ b = c \o <<stack[L - 1]>>
<1>1. L - 1 \in 0..L /\ L - 2 \in 0..L /\ L - 1 > 0 /\ (L - 1) - 1 = L - 2 /\ L \in Nat
  BY StackItself
<1>2. /\ SubSeq(stack, 1, L - 1) = SubSeq(stack, 1, (L - 1) - 1) \o <<stack[L - 1]>>
      /\ stack[L - 1] \in AllValues /\ c \in Seq(AllValues) /\ Len(c) = L - 2
  BY <1>1, Operands
<1>3. Len(c) + 1 = L - 1
  BY <1>1, <1>2
<1> QED
  BY <1>1, <1>2, <1>3, Zenon

\* What lies on the rest of the stack is the answer.
LEMMA Answered ==
    ASSUME NEW n, NEW answers, NEW a \in answers, NEW b, b = SubSeq(stack, 1, Len(stack) - n),
           stack' = b \o a
    PROVE  Promise!Answer(n, answers)
BY Zenon DEF Promise!Answer

\* The operations, one by one.
LEMMA SetFieldPromised ==
    ASSUME StackInv, NEW i \in DOMAIN stack, NEW out \in NoValue, SetField(i, out)
    PROVE  Promise!SetField
<1> DEFINE L == Len(stack)
           b == SubSeq(stack, 1, L - 1)
           t == <<"setfield", stack[i], "key", stack[L]>>
           a == IF out.error THEN <<out.values[1]>> ELSE out.values
<1>1. stack \in Seq(AllValues) /\ i \in 1..L /\ L \in Nat /\ L \in 1..L /\ L > 0
  BY StackItself, BaseBounds DEF SetField
<1>2. "setfield" \in AllValues /\ "key" \in AllValues
  BY DEF AllValues
<1>3. b \in Seq(AllValues) /\ Len(b) + 1 = L /\ stack[L] \in AllValues /\ stack = b \o <<stack[L]>>
  BY <1>1, TopValue
<1>5. PushValue(Append(PushValue(Append(stack, "setfield"), i), "key"), L) = stack \o t
      /\ t \in Seq(AllValues) /\ Len(t) = 3 + 1
  <2>1. /\ PushValue(Append(PushValue(Append(stack, "setfield"), i), "key"), L) = stack \o t
        /\ t \in Seq(AllValues) /\ Len(t) = 4
    BY <1>1, <1>2, PushedOperands
  <2> QED
    BY <2>1
<1> HIDE DEF t
<1>6. RemoveAt(stack \o t, L) = b \o t
  <2> HIDE DEF b
  <2>1. RemoveAt((b \o <<stack[L]>>) \o t, Len(b) + 1) = b \o t
    BY <1>3, <1>5, TakenOut
  <2> QED
    BY <1>3, <2>1, Zenon
<1>7. Protected(b \o t, 3, 0, out)
  BY <1>5, <1>6 DEF SetField
<1>8. called' = t /\ stack' = b \o a
  <2> HIDE DEF b
  <2> QED
    BY <1>3, <1>5, <1>7, CallOnTop
<1>9. a \in {<<>>} \cup Promise!Alone(Errors)
  BY NoAnswer
<1>10. Promise!Answer(1, {<<>>} \cup Promise!Alone(Errors))
  <2> HIDE DEF a
  <2> QED
    BY <1>8, <1>9, Answered
<1>11. called' = <<"setfield", stack[i], "key", Promise!Last(stack)>>
  BY <1>8 DEF t, Promise!Last
<1> QED
  BY <1>10, <1>11, Zenon DEF Promise!SetField

LEMMA GetTablePromised ==
    ASSUME StackInv, NEW i \in DOMAIN stack, NEW out \in OneValue, GetTable(i, out)
    PROVE  Promise!GetTable
<1> DEFINE L == Len(stack)
           b == SubSeq(stack, 1, L - 1)
           t == <<"gettable", stack[i], stack[L]>>
           a == IF out.error THEN <<out.values[1]>> ELSE out.values
<1>1. stack \in Seq(AllValues) /\ i \in 1..L /\ L \in Nat /\ L \in 1..L /\ L > 0
  BY StackItself, BaseBounds DEF GetTable
<1>2. "gettable" \in AllValues /\ "key" \in AllValues
  BY DEF AllValues
<1>3. b \in Seq(AllValues) /\ Len(b) + 1 = L /\ stack[L] \in AllValues /\ stack = b \o <<stack[L]>>
  BY <1>1, TopValue
<1>5. PushValue(PushValue(Append(stack, "gettable"), i), L) = stack \o t
      /\ t \in Seq(AllValues) /\ Len(t) = 2 + 1
  <2>1. /\ PushValue(PushValue(Append(stack, "gettable"), i), L) = stack \o t
        /\ t \in Seq(AllValues) /\ Len(t) = 3
    BY <1>1, <1>2, PushedOperands
  <2> QED
    BY <2>1
<1> HIDE DEF t
<1>6. RemoveAt(stack \o t, L) = b \o t
  <2> HIDE DEF b
  <2>1. RemoveAt((b \o <<stack[L]>>) \o t, Len(b) + 1) = b \o t
    BY <1>3, <1>5, TakenOut
  <2> QED
    BY <1>3, <2>1, Zenon
<1>7. Protected(b \o t, 2, 0, out)
  BY <1>5, <1>6 DEF GetTable
<1>8. called' = t /\ stack' = b \o a
  <2> HIDE DEF b
  <2> QED
    BY <1>3, <1>5, <1>7, CallOnTop
<1>9. a \in Promise!Alone(Values \cup Errors)
  BY OneAnswer
<1>10. Promise!Answer(1, Promise!Alone(Values \cup Errors))
  <2> HIDE DEF a
  <2> QED
    BY <1>8, <1>9, Answered
<1>11. called' = <<"gettable", stack[i], Promise!Last(stack)>>
  BY <1>8 DEF t, Promise!Last
<1> QED
  BY <1>10, <1>11, Zenon DEF Promise!GetTable

LEMMA SetTablePromised ==
    ASSUME StackInv, NEW i \in DOMAIN stack, NEW out \in NoValue, SetTable(i, out)
    PROVE  Promise!SetTable
<1> DEFINE L == Len(stack)
           b == SubSeq(stack, 1, L - 1)
           c == SubSeq(stack, 1, L - 2)
           t == <<"settable", stack[i], stack[L - 1], stack[L]>>
           a == IF out.error THEN <<out.values[1]>> ELSE out.values
<1>1. stack \in Seq(AllValues) /\ i \in 1..L /\ L \in Nat /\ L \in 1..L /\ L > 1 /\ L - 1 \in 1..L
  BY StackItself, BaseBounds DEF SetTable
<1>2. "settable" \in AllValues /\ "key" \in AllValues
  BY DEF AllValues
<1>3. b \in Seq(AllValues) /\ Len(b) + 1 = L /\ stack[L] \in AllValues /\ stack = b \o <<stack[L]>>
  BY <1>1, TopValue
<1>4. c \in Seq(AllValues) /\ Len(c) + 1 = L - 1 /\ stack[L - 1] \in AllValues
      /\ b = c \o <<stack[L - 1]>>
  BY <1>1, SecondValue
<1>5. PushValue(PushValue(PushValue(Append(stack, "settable"), i), L - 1), L) = stack \o t
      /\ t \in Seq(AllValues) /\ Len(t) = 3 + 1
  <2>1. /\ PushValue(PushValue(PushValue(Append(stack, "settable"), i), L - 1), L) = stack \o t
        /\ t \in Seq(AllValues) /\ Len(t) = 4
    BY <1>1, <1>2, PushedOperands
  <2> QED
    BY <2>1
<1> HIDE DEF t
<1>6. RemoveAt(RemoveAt(stack \o t, L), L - 1) = c \o t
  <2> HIDE DEF b, c
  <2>1. RemoveAt((b \o <<stack[L]>>) \o t, Len(b) + 1) = b \o t
    BY <1>3, <1>5, TakenOut
  <2>2. RemoveAt((c \o <<stack[L - 1]>>) \o t, Len(c) + 1) = c \o t
    BY <1>4, <1>5, TakenOut
  <2> QED
    BY <1>3, <1>4, <2>1, <2>2, Zenon
<1>7. Protected(c \o t, 3, 0, out)
  BY <1>5, <1>6 DEF SetTable
<1>8. called' = t /\ stack' = c \o a
  <2> HIDE DEF b, c
  <2> QED
    BY <1>3, <1>4, <1>5, <1>7, CallOnTop
<1>9. a \in {<<>>} \cup Promise!Alone(Errors)
  BY NoAnswer
<1>10. Promise!Answer(2, {<<>>} \cup Promise!Alone(Errors))
  <2> HIDE DEF a
  <2> QED
    BY <1>8, <1>9, Answered
<1>11. called' = <<"settable", stack[i], stack[Len(stack) - 1], Promise!Last(stack)>>
  BY <1>8 DEF t, Promise!Last
<1> QED
  BY <1>1, <1>10, <1>11, Zenon DEF Promise!SetTable

\* What a call with tolua's message handler leaves on the stack.
LEMMA TracedAnswer ==
    ASSUME NEW out \in Outcomes, NEW s, NEW handler \in Nat \ {0}, s[handler] = "traceback"
    PROVE  (IF out.error THEN <<Handled(s, handler, out.values[1])>> ELSE out.values)
               \in Results \cup Promise!Alone({Promise!Traced(e) : e \in Errors})
<1>1. \A e : Handled(s, handler, e) = Promise!Traced(e)
  BY DEF Handled, Traceback, Promise!Traced
<1>2. CASE \E values \in Results : out = Returned(values)
  BY <1>2 DEF Returned
<1>3. CASE \E e \in Errors : out = Raised(e)
  <2>1. PICK e \in Errors : out = Raised(e)
    BY <1>3
  <2>2. out.error = TRUE /\ out.values[1] = e
    BY <2>1 DEF Raised
  <2>3. <<Promise!Traced(e)>> \in Promise!Alone({Promise!Traced(x) : x \in Errors})
    BY DEF Promise!Alone
  <2> QED
    BY <1>1, <2>2, <2>3
<1> QED
  BY <1>2, <1>3, Zenon DEF Outcomes

LEMMA RequirePromised ==
    ASSUME StackInv, NEW out \in Outcomes, Require(out)
    PROVE  Promise!Require \/ UNCHANGED <<stack, called>>
<1> DEFINE s == stack \o <<"traceback", "require", "name">>
           t == <<"require", "name">>
           b == stack \o <<"traceback">>
           handler == Len(stack) + 1
           a == IF out.error THEN <<Handled(s, handler, out.values[1])>> ELSE out.values
<1>1. stack \in Seq(AllValues) /\ Len(stack) \in Nat
  BY StackItself
<1>2. "traceback" \in AllValues /\ "require" \in AllValues /\ "name" \in AllValues
  BY DEF AllValues, StackValues
<1>3. /\ b \in Seq(AllValues) /\ Len(b) = handler /\ b[handler] = "traceback"
      /\ t \in Seq(AllValues) /\ Len(t) = 2
  BY <1>1, <1>2
<1>4. s = b \o t
  <2>1. Append(stack, "traceback") = b
    BY <1>1, <1>2, PushOn
  <2>2. Append(Append(Append(stack, "traceback"), "require"), "name") = s
    BY <1>1, <1>2, PushedOn
  <2>3. Append(Append(b, "require"), "name") = b \o t
    <3> HIDE DEF b
    <3> QED
      BY <1>2, <1>3, PushedOn
  <2> QED
    BY <2>1, <2>2, <2>3, Zenon
<1>5. /\ Len(s) = Len(b) + 2 /\ s[handler] = "traceback"
      /\ SetTop(s, Len(b)) = b /\ SubSeq(s, Len(b) + 1, Len(b) + 2) = t
  <2> HIDE DEF b, s, t
  <2>1. handler \in 1..Len(b)
    BY <1>1, <1>3
  <2>2. /\ Len(b \o t) = Len(b) + Len(t) /\ SetTop(b \o t, Len(b)) = b
        /\ SubSeq(b \o t, Len(b) + 1, Len(b) + Len(t)) = t
        /\ \A j \in 1..Len(b) : (b \o t)[j] = b[j]
    BY <1>3, OnTop
  <2> QED
    BY <1>3, <1>4, <2>1, <2>2
<1>6. Len(s) - 1 = Len(b) + 1 /\ Len(s) - 1 - 1 = Len(b) /\ Len(b) \in Nat
  BY <1>1, <1>3, <1>5
<1>7. CASE Crashes(s, handler, out)
  BY <1>7 DEF Require, Gone
<1>8. CASE ~Crashes(s, handler, out)
  <2>1. called' = SubSeq(s, Len(s) - 1, Len(s)) /\ stack' = RemoveAt(PCalled(s, 1, handler, out), handler)
    BY <1>8 DEF Require
  <2>2. PCalled(s, 1, handler, out) = b \o a
    <3>1. PCalled(s, 1, handler, out) = SetTop(s, Len(s) - 1 - 1) \o a
      BY DEF PCalled
    <3> HIDE DEF a, b, s
    <3> QED
      BY <1>5, <1>6, <3>1
  <2>3. a \in Results \cup Promise!Alone({Promise!Traced(e) : e \in Errors})
    <3>1. handler \in Nat \ {0}
      BY <1>1
    <3> HIDE DEF s, handler
    <3> QED
      BY <1>5, <3>1, TracedAnswer
  <2>4. a \in Seq(AllValues)
    <3>1. out.values \in Seq(StackValues) /\ out.error => Handled(s, handler, out.values[1]) \in StackValues
      BY OutcomeType, HandledType
    <3>2. a \in Seq(StackValues)
      <4>1. out.values \in Seq(StackValues) /\ (out.error => out.values[1] \in StackValues)
        BY OutcomeType
      <4>2. out.error => Handled(s, handler, out.values[1]) \in StackValues
        BY <4>1, HandledType
      <4> QED
        BY <4>1, <4>2
    <3> HIDE DEF a
    <3> QED
      BY <3>2, SeqMonotonic DEF AllValues
  <2>5. RemoveAt(b \o a, handler) = stack \o a
    <3> HIDE DEF a
    <3> QED
      BY <1>1, <1>2, <2>4, TakenOut
  <2>6. stack' = stack \o a
    BY <2>1, <2>2, <2>5, Zenon
  <2>7. called' = <<"require", "name">>
    <3> HIDE DEF s, b
    <3> QED
      BY <1>5, <1>6, <2>1
  <2>8. Promise!Answer(0, Results \cup Promise!Alone({Promise!Traced(e) : e \in Errors}))
    <3> HIDE DEF a
    <3>1. stack = SubSeq(stack, 1, Len(stack) - 0)
      BY Operands
    <3> QED
      BY <2>3, <2>6, <3>1, Answered
  <2> QED
    BY <2>7, <2>8, Zenon DEF Promise!Require
<1> QED
  BY <1>7, <1>8

\* A stretch of the stack begins with its lowest value.
LEMMA LowestFirst ==
    ASSUME NEW S, NEW s \in Seq(S), NEW m \in 1..Len(s)
    PROVE  SubSeq(s, m, Len(s)) = <<s[m]>> \o SubSeq(s, m + 1, Len(s))
<1> DEFINE u == SubSeq(s, m, Len(s))
           r == SubSeq(s, m + 1, Len(s))
           w == <<s[m]>> \o r
<1>1. u \in Seq(S) /\ Len(u) = Len(s) - m + 1 /\ \A j \in 1..(Len(s) - m + 1) : u[j] = s[m + j - 1]
  OBVIOUS
<1>2. r \in Seq(S) /\ Len(r) = Len(s) - m /\ \A j \in 1..(Len(s) - m) : r[j] = s[m + j]
  OBVIOUS
<1>3. s[m] \in S
  OBVIOUS
<1> HIDE DEF u, r
<1>4. /\ w \in Seq(S) /\ Len(w) = Len(s) - m + 1 /\ w[1] = s[m]
      /\ \A j \in 2..(Len(s) - m + 1) : w[j] = r[j - 1]
  BY <1>2, <1>3
<1> HIDE DEF w
<1>5. ASSUME NEW j \in 1..(Len(s) - m + 1)
      PROVE  u[j] = w[j]
  <2>1. CASE j = 1
    BY <1>1, <1>4, <2>1
  <2>2. CASE j # 1
    <3>1. j \in 2..(Len(s) - m + 1) /\ j - 1 \in 1..(Len(s) - m) /\ m + (j - 1) = m + j - 1
      BY <2>2
    <3> QED
      BY <1>1, <1>2, <1>4, <3>1
  <2> QED
    BY <2>1, <2>2
<1>6. u = w
  BY <1>1, <1>4, <1>5, SeqEqual
<1> QED
  BY <1>6 DEF u, w, r

LEMMA PCallPromised ==
    ASSUME StackInv, NEW out \in Outcomes, PCall(out)
    PROVE  Promise!Call \/ UNCHANGED <<stack, called>>
<1> DEFINE L == Len(stack)
           n == L - Floor
           h == Last(frames).top
           a == IF out.error THEN <<Handled(stack, h, out.values[1])>> ELSE out.values
<1>1. /\ Floor = Base + 1 /\ L >= Floor /\ Base \in Nat /\ L \in Nat
      /\ stack[Floor] = "function"
  BY BaseBounds, StackItself DEF PCall, Owns
<1>2. h = Base /\ Base \in Nat \ {0} /\ stack[Base] = "traceback"
  <2>1. Len(frames) \in 1..Len(frames)
    BY DEF PCall, StackInv, StackType
  <2>2. Base = frames[Len(frames)].top /\ h = Base
    BY DEF PCall, Base, Last
  <2> QED
    BY <2>1, <2>2, FrameType DEF StackInv, FrameKept
<1>3. Protected(stack, n, h, out)
  BY DEF PCall
<1>4. n \in 0..(L - 2) /\ L - n = Floor /\ L - n - 1 = Base /\ L - (n + 1) = Base /\ L - n + 1 = Floor + 1
  BY <1>1, <1>2
<1>5. CASE Crashes(stack, h, out)
  BY <1>3, <1>5 DEF Protected, Gone
<1>6. CASE ~Crashes(stack, h, out)
  <2> HIDE DEF n, h
  <2>1. called' = SubSeq(stack, L - n, L) /\ stack' = PCalled(stack, n, h, out)
    BY <1>3, <1>6 DEF Protected
  <2>2. stack' = SubSeq(stack, 1, L - (n + 1)) \o a
    BY <1>4, <2>1 DEF PCalled, SetTop
  <2>3. a \in Results \cup Promise!Alone({Promise!Traced(e) : e \in Errors})
    BY <1>2, TracedAnswer
  <2>4. Promise!Answer(n + 1, Results \cup Promise!Alone({Promise!Traced(e) : e \in Errors}))
    <3> HIDE DEF a
    <3> QED
      BY <2>2, <2>3, Answered
  <2>5. SubSeq(stack, Floor, L) = <<"function">> \o SubSeq(stack, Floor + 1, L)
    <3>1. Floor \in 1..L /\ stack \in Seq(AllValues)
      BY <1>1, StackItself
    <3>2. SubSeq(stack, Floor, L) = <<stack[Floor]>> \o SubSeq(stack, Floor + 1, L)
      BY <3>1, LowestFirst
    <3> QED
      BY <1>1, <3>2
  <2>6. called' = <<"function">> \o SubSeq(stack, L - n + 1, L)
    BY <1>4, <2>1, <2>5
  <2>7. stack[L - n] = "function" /\ stack[L - n - 1] = "traceback"
    BY <1>1, <1>2, <1>4
  <2> QED
    BY <1>4, <2>4, <2>6, <2>7, Zenon DEF Promise!Call
<1> QED
  BY <1>5, <1>6

\* What pushes one of the host's values, or a handler and a function.
LEMMA MorePushed ==
    ASSUME StackInv, called' = <<>>, NEW t, stack' = stack \o t,
           \/ \E v \in Values \cup {"function", "message", "traced", "traceback"} : t = <<v>>
           \/ t = <<"traceback", "function">>
    PROVE  Promise!PushMore
<1> DEFINE answers == {<<v>> : v \in Values \cup {"function", "message", "traced", "traceback"}}
                         \cup {<<"traceback", "function">>}
<1>1. t \in answers
  OBVIOUS
<1>2. stack = SubSeq(stack, 1, Len(stack) - 0)
  BY Operands
<1>3. Promise!Answer(0, answers)
  <2> HIDE DEF answers
  <2> QED
    BY <1>1, <1>2, Answered
<1> QED
  BY <1>3, Zenon DEF Promise!PushMore

\* What drops the topmost values.
LEMMA Dropped ==
    ASSUME StackInv, called' = <<>>, NEW n \in 0..Len(stack), stack' = SetTop(stack, n)
    PROVE  Promise!Drop
<1> DEFINE m == Len(stack) - n
           b == SubSeq(stack, 1, n)
<1>1. stack \in Seq(AllValues) /\ m \in 0..Len(stack) /\ Len(stack) - m = n
  BY StackItself
<1>2. b \in Seq(AllValues) /\ stack' = b
  BY Operands DEF SetTop
<1> HIDE DEF b, m
<1>3. b \o <<>> = b
  BY <1>2, ConcatEmptySeq
<1>4. b = SubSeq(stack, 1, Len(stack) - m)
  BY <1>1 DEF b
<1>5. Promise!Answer(m, {<<>>})
  BY <1>2, <1>3, <1>4, Answered
<1> QED
  BY <1>1, <1>5, Zenon DEF Promise!Drop

LEMMA PushPromised ==
    ASSUME StackInv, NEW v \in Values, Push(v)
    PROVE  Promise!PushMore
<1>1. stack \in Seq(AllValues) /\ v \in AllValues
  BY StackItself DEF AllValues, StackValues
<1>2. Append(stack, v) = stack \o <<v>>
  BY <1>1, PushOn
<1>3. stack' = stack \o <<v>> /\ called' = <<>>
  BY <1>2 DEF Push
<1> QED
  BY <1>3, MorePushed

LEMMA BeginPCallPromised ==
    ASSUME StackInv, BeginPCall
    PROVE  Promise!PushMore
BY MorePushed DEF BeginPCall

LEMMA LoadBufferPromised ==
    ASSUME StackInv, NEW loaded \in {"function", "message"}, LoadBuffer(loaded)
    PROVE  Promise!PushMore
<1>1. PICK v \in {"function", "message"} : stack' = stack \o <<v>>
  BY BufferLoaded
<1>2. called' = <<>>
  BY DEF LoadBuffer
<1> QED
  BY <1>1, <1>2, MorePushed

LEMMA EndPCallPromised ==
    ASSUME StackInv, EndPCall
    PROVE  Promise!Drop
<1>1. Len(frames) \in 1..Len(frames)
  BY DEF EndPCall, StackInv, StackType
<1>2. Base = frames[Len(frames)].top /\ Base \in Nat \ {0}
  BY <1>1, FrameType DEF EndPCall, Base, StackInv
<1>3. Base - 1 \in 0..Len(stack)
  BY <1>2, StackItself
<1>4. stack' = SetTop(stack, Base - 1) /\ called' = <<>>
  BY <1>2 DEF EndPCall, Last
<1> QED
  BY <1>3, <1>4, Dropped

LEMMA SettlePromised ==
    ASSUME StackInv, NEW n, Settle(n)
    PROVE  Promise!Drop
<1>1. n \in 0..Len(stack)
  BY BaseBounds, StackItself DEF Settle, Base
<1> QED
  BY <1>1, Dropped DEF Settle

LEMMA UnpackPromised ==
    ASSUME StackInv, NEW i \in DOMAIN stack, Asked(i)
    PROVE  Promise!Unpack
<1> DEFINE s == PushValue(Append(stack, "unpack"), i)
           t == <<"unpack", stack[i]>>
<1>1. stack \in Seq(AllValues) /\ i \in 1..Len(stack) /\ "unpack" \in AllValues /\ stack[i] \in AllValues
  BY StackItself, Operands DEF AllValues
<1>2. t \in Seq(AllValues) /\ Len(t) = 2 /\ Len(stack) \in Nat
  BY <1>1
<1>3. s = stack \o t
  <2>1. Append(Append(stack, "unpack"), stack[i]) = stack \o t
    BY <1>1, PushedOn
  <2>2. PushValue(Append(stack, "unpack"), i) = Append(Append(stack, "unpack"), stack[i])
    BY <1>1 DEF PushValue
  <2> QED
    BY <2>1, <2>2, Zenon
<1>4. called' = SubSeq(s, Len(s) - 1, Len(s)) /\ stack' = SetTop(s, Len(s) - 2)
  BY DEF Asked
<1> HIDE DEF s, t
<1>5. /\ Len(s) = Len(stack) + 2 /\ SetTop(s, Len(stack)) = stack
      /\ SubSeq(s, Len(stack) + 1, Len(stack) + 2) = t
  <2>1. /\ Len(stack \o t) = Len(stack) + Len(t) /\ SetTop(stack \o t, Len(stack)) = stack
        /\ SubSeq(stack \o t, Len(stack) + 1, Len(stack) + Len(t)) = t
    BY <1>1, <1>2, OnTop
  <2> QED
    BY <1>2, <1>3, <2>1
<1>6. Len(s) - 1 = Len(stack) + 1 /\ Len(s) - 2 = Len(stack)
  BY <1>2, <1>5
<1>7. called' = t /\ stack' = stack
  BY <1>4, <1>5, <1>6
<1> QED
  BY <1>7, Zenon DEF t, Promise!Unpack

LEMMA PackPromised ==
    ASSUME StackInv, NEW v \in Values, Packed(v)
    PROVE  Promise!Pack
<1> DEFINE t == <<"pack", "parts">>
           s == stack \o t
<1>1. stack \in Seq(AllValues) /\ Len(stack) \in Nat /\ v \in AllValues
  BY StackItself DEF AllValues, StackValues
<1>2. t \in Seq(AllValues) /\ Len(t) = 2
  BY DEF AllValues
<1>3. called' = SubSeq(s, Len(s) - 1, Len(s)) /\ stack' = Append(SetTop(s, Len(s) - 2), v)
  BY DEF Packed
<1> HIDE DEF t
<1>4. /\ Len(s) = Len(stack) + 2 /\ SetTop(s, Len(stack)) = stack
      /\ SubSeq(s, Len(stack) + 1, Len(stack) + 2) = t
  <2>1. /\ Len(stack \o t) = Len(stack) + Len(t) /\ SetTop(stack \o t, Len(stack)) = stack
        /\ SubSeq(stack \o t, Len(stack) + 1, Len(stack) + Len(t)) = t
    BY <1>1, <1>2, OnTop
  <2> QED
    BY <1>2, <2>1
<1> HIDE DEF s
<1>5. Len(s) - 1 = Len(stack) + 1 /\ Len(s) - 2 = Len(stack)
  BY <1>1, <1>4
<1>6. called' = t /\ stack' = Append(stack, v)
  BY <1>3, <1>4, <1>5
<1>7. stack' = stack \o <<v>>
  BY <1>1, <1>6, PushOn
<1>8. Promise!Answer(0, Promise!Alone(Values))
  <2>1. <<v>> \in Promise!Alone(Values)
    BY DEF Promise!Alone
  <2>2. stack = SubSeq(stack, 1, Len(stack) - 0)
    BY Operands
  <2> QED
    BY <1>7, <2>1, <2>2, Answered
<1> QED
  BY <1>6, <1>8, Zenon DEF t, Promise!Pack

LEMMA NextPromised ==
    ASSUME StackInv, [Next]_vars
    PROVE  [Promise!PromiseNext]_<<stack, called>>
<1>1. ASSUME NEW v \in Values, Push(v) \/ Pack(v)
      PROVE  Promise!PromiseNext \/ UNCHANGED <<stack, called>>
  BY <1>1, PushPromised, PackPromised DEF Pack, Gone, Promise!PromiseNext
<1>2. ASSUME NEW i \in DOMAIN stack, NEW out \in OneValue, GetField(i, out) \/ GetTable(i, out)
      PROVE  Promise!PromiseNext
  BY <1>2, GetFieldPromised, GetTablePromised DEF Promise!PromiseNext
<1>3. ASSUME NEW i \in DOMAIN stack, NEW out \in NoValue, SetField(i, out) \/ SetTable(i, out)
      PROVE  Promise!PromiseNext
  BY <1>3, SetFieldPromised, SetTablePromised DEF Promise!PromiseNext
<1>4. ASSUME NEW i \in DOMAIN stack, Unpack(i)
      PROVE  Promise!PromiseNext \/ UNCHANGED <<stack, called>>
  <2>1. called' = <<>> /\ UNCHANGED stack => Promise!Drop
    <3>1. 0 \in 0..Len(stack) /\ stack = SetTop(stack, Len(stack))
      BY StackItself, Operands DEF SetTop
    <3> QED
      BY <3>1, StackItself, Dropped
  <2> QED
    BY <1>4, <2>1, UnpackPromised DEF Unpack, Gone, Promise!PromiseNext
<1>5. ASSUME NEW out \in Outcomes, Require(out) \/ PCall(out)
      PROVE  Promise!PromiseNext \/ UNCHANGED <<stack, called>>
  BY <1>5, RequirePromised, PCallPromised DEF Promise!PromiseNext
<1>6. CASE BeginPCall \/ EndPCall
  BY <1>6, BeginPCallPromised, EndPCallPromised DEF Promise!PromiseNext
<1>7. ASSUME NEW loaded \in {"function", "message"}, LoadBuffer(loaded)
      PROVE  Promise!PromiseNext
  BY <1>7, LoadBufferPromised DEF Promise!PromiseNext
<1>8. ASSUME NEW n \in 0..MaxStack, Settle(n)
      PROVE  Promise!PromiseNext
  BY <1>8, SettlePromised DEF Promise!PromiseNext
<1>9. CASE UNCHANGED vars
  BY <1>9 DEF vars
<1> QED
  BY <1>1, <1>2, <1>3, <1>4, <1>5, <1>6, <1>7, <1>8, <1>9 DEF Next

\* For any values, any depth of calls and any stack: the pushes and removals
\* of every operation amount to what StackPromise says, operands taken off,
\* one answer or one error left, the arguments of the call in their order.
THEOREM Implementation == Spec => KeepsPromise
<1>1. Init => Promise!PromiseInit
  BY DEF Init, Promise!PromiseInit
<1>2. StackInv /\ [Next]_vars => [Promise!PromiseNext]_<<stack, called>>
  BY NextPromised
<1> QED
  BY <1>1, <1>2, StackInvariant, PTL DEF Spec, KeepsPromise, Promise!PromiseSpec
=============================================================================
