-------------------------- MODULE ToluaRefs_proofs --------------------------
(***************************************************************************)
(* Proofs that the registry references of tolua are safe for every set of  *)
(* values, every number of reserved slots and every size of the registry.  *)
(***************************************************************************)
EXTENDS ToluaRefs, FiniteSetTheorems, WellFoundedInduction, TLAPS

USE SlotAssumption, ValueAssumption

-----------------------------------------------------------------------------
(* What the operations on the registry do to the free list.                *)

\* A slot luaL_ref may answer is a slot nobody uses, and nothing but the
\* head of the free list leads to it.
LEMMA NewRefUnused ==
    ASSUME IInv, NEW r \in NewRefs(registry)
    PROVE  /\ r \in Refs \ Live
           /\ FreeHead(registry) # 0 => r = registry[0]
           /\ FreeHead(registry) = 0 =>
                 /\ registry[0] = Nil
                 /\ registry[r] = Nil
                 /\ \A s \in Unused : registry[s] # r
<1>0. /\ registry[0] \in (Refs \ Live) \cup {Nil}
      /\ 0 \notin Refs
      /\ registry \in [Slots -> Values \cup Nat \cup {Nil}]
  BY DEF IInv, FreeListInv, FreeClosed, Unused, Refs, TypeOK
<1>1. CASE registry[0] \in Refs \ Live
  <2>1. FreeHead(registry) = registry[0] /\ FreeHead(registry) # 0
    BY <1>1, <1>0 DEF FreeHead, Refs
  <2> QED
    BY <2>1, <1>1 DEF NewRefs
<1>2. CASE registry[0] = Nil
  <2>1. FreeHead(registry) = 0
    BY <1>2 DEF FreeHead
  <2>2. PICK n \in Lengths(registry) : r = n + 1
    BY <2>1 DEF NewRefs
  <2>3. n \in Reserved..(MaxSlot - 1) /\ registry[r] = Nil
    BY <2>2 DEF Lengths, IInv
  <2>4. r \in Refs
    BY <2>2, <2>3 DEF Refs
  <2>5. r \notin Live
    BY <2>3, <2>4 DEF IInv, OwnersSeeTheirValue
  <2>6. \A s \in Unused : registry[s] # r
    <3>1. SUFFICES ASSUME NEW s \in Unused, registry[s] = r PROVE FALSE
      OBVIOUS
    <3>2. r # Nil
      BY <2>4 DEF Refs
    <3>3. s \in Refs \ Live
      BY <3>1, <3>2, <1>2 DEF Unused
    <3> QED
      BY <1>2, <2>3, <3>1, <3>2, <3>3 DEF IInv, FreeListInv, FreeEndsOnce, LeadsToLast
  <2> QED
    BY <1>2, <2>1, <2>3, <2>4, <2>5, <2>6
<1> QED
  BY <1>0, <1>1, <1>2

\* luaL_ref keeps the free list in order when the slot it answers is in use
\* from then on.
LEMMA FreeListAfterRef ==
    ASSUME IInv, NEW v \in Values, NEW r \in NewRefs(registry),
           registry' = LuaRef(registry, r, v), Live' = Live \cup {r}
    PROVE  FreeListInv'
<1>1. /\ r \in Refs \ Live
      /\ FreeHead(registry) # 0 => r = registry[0]
      /\ FreeHead(registry) = 0 =>
            /\ registry[0] = Nil
            /\ registry[r] = Nil
            /\ \A s \in Unused : registry[s] # r
  BY NewRefUnused
<1>2. /\ registry \in [Slots -> Values \cup Nat \cup {Nil}]
      /\ Refs \subseteq Slots /\ 0 \in Slots /\ 0 \notin Refs
      /\ Nil \notin Refs
  BY DEF IInv, TypeOK, Refs, Slots
<1>3. Unused' = Unused \ {r}
  BY <1>1, <1>2 DEF Unused
<1>4. FreeListInv
  BY DEF IInv
<1>5. CASE FreeHead(registry) # 0
  <2>1. /\ registry'[0] = registry[r]
        /\ \A s \in Refs \ Live : s # r => registry'[s] = registry[s]
    BY <1>1, <1>2, <1>5 DEF LuaRef
  <2>2. \A s \in Refs \ Live : s # r => registry[s] # r
    BY <1>1, <1>2, <1>4, <1>5 DEF FreeListInv, FreeInjective, Unused
  <2>3. registry[r] # r
    BY <1>1, <1>2, <1>4, <1>5 DEF FreeListInv, FreeInjective, Unused
  <2>4. \A s \in Unused' : \E t \in Unused : t # 0 /\ registry'[s] = registry[t]
                                           /\ (s # 0 => t = s) /\ (s = 0 => t = r)
    BY <1>1, <1>2, <1>3, <2>1 DEF Unused
  <2>5. FreeClosed'
    BY <1>1, <1>2, <1>3, <1>4, <1>5, <2>1, <2>2, <2>3 DEF FreeListInv, FreeClosed, Unused
  <2>6. FreeInjective'
    BY <1>1, <1>2, <1>3, <1>4, <2>4 DEF FreeListInv, FreeInjective, Unused
  <2>7. \A s \in Unused' : LeadsToLast(s)' => LeadsToLast(IF s = 0 THEN r ELSE s)
    BY <1>1, <1>2, <1>3, <1>4, <2>1, <2>2, <2>3, ZenonT(60) DEF FreeListInv, FreeClosed, LeadsToLast, Unused
  <2>8. FreeEndsOnce'
    <3>1. registry'[0] = Nil => LeadsToLast(0) /\ ~LeadsToLast(0)'
      BY <1>1, <1>2, <1>5, <2>1 DEF LeadsToLast
    <3>2. r \notin Unused' /\ r \in Unused /\ Unused' \subseteq Unused /\ r # 0
          /\ 0 \in Unused
      BY <1>1, <1>2, <1>3 DEF Unused
    <3> QED
      BY <1>4, <2>7, <3>1, <3>2 DEF FreeListInv, FreeEndsOnce
  <2> QED
    BY <2>5, <2>6, <2>8 DEF FreeListInv
<1>6. CASE FreeHead(registry) = 0
  <2>1. \A s \in Unused \ {r} : registry'[s] = registry[s]
    BY <1>1, <1>2, <1>6 DEF LuaRef, Unused
  <2>2. FreeClosed'
    BY <1>1, <1>2, <1>3, <1>4, <1>6, <2>1 DEF FreeListInv, FreeClosed, Unused
  <2>3. FreeInjective'
    BY <1>1, <1>2, <1>3, <1>4, <1>6, <2>1 DEF FreeListInv, FreeInjective, Unused
  <2>4. \A s \in Unused' : LeadsToLast(s)' => LeadsToLast(s)
    BY <1>1, <1>2, <1>3, <1>4, <1>6, <2>1, ZenonT(60) DEF FreeListInv, FreeClosed, LeadsToLast, Unused
  <2>5. FreeEndsOnce'
    BY <1>1, <1>3, <1>4, <1>6, <2>4 DEF FreeListInv, FreeEndsOnce, Unused
  <2> QED
    BY <2>2, <2>3, <2>5 DEF FreeListInv
<1> QED
  BY <1>5, <1>6

\* luaL_unref keeps the free list in order when the slot was in use and is
\* not in use any more.
LEMMA FreeListAfterUnref ==
    ASSUME IInv, NEW r \in Live,
           registry' = LuaUnref(registry, r), Live' = Live \ {r}
    PROVE  FreeListInv'
<1>1. /\ registry \in [Slots -> Values \cup Nat \cup {Nil}]
      /\ Refs \subseteq Slots /\ 0 \in Slots /\ 0 \notin Refs
      /\ Nil \notin Refs /\ r \in Refs
  BY DEF IInv, TypeOK, Refs, Slots, Live
<1>2. Unused' = Unused \cup {r}
  BY <1>1 DEF Unused
<1>3. FreeListInv
  BY DEF IInv
<1>4. /\ registry'[0] = r /\ registry'[r] = registry[0]
      /\ \A s \in Refs : s # r => registry'[s] = registry[s]
  BY <1>1 DEF LuaUnref
<1>5. \A s \in Unused : registry[s] # r
  BY <1>1, <1>3 DEF FreeListInv, FreeClosed, Unused
<1>6. FreeClosed'
  BY <1>1, <1>2, <1>3, <1>4 DEF FreeListInv, FreeClosed, Unused
<1>7. FreeInjective'
  BY <1>1, <1>2, <1>3, <1>4, <1>5 DEF FreeListInv, FreeInjective, FreeClosed, Unused
<1>8. FreeEndsOnce'
  BY <1>1, <1>2, <1>3, <1>4, <1>5 DEF FreeListInv, FreeClosed, FreeEndsOnce, LeadsToLast, Unused
<1> QED
  BY <1>6, <1>7, <1>8 DEF FreeListInv

-----------------------------------------------------------------------------
(* The inductive invariant.                                                *)

\* The state after tolua_openlibs satisfies the invariant.
LEMMA InitInv == Init => IInv
<1>1. SUFFICES ASSUME Init PROVE IInv
  OBVIOUS
<1>2. Live = {}
  BY <1>1 DEF Init, Live
<1>3. /\ \A i \in Slots : registry[i] = IF i \in 1..Reserved THEN i ELSE Nil
      /\ 0 \in Slots /\ Refs \subseteq Slots /\ Reserved \in 1..Reserved
      /\ Reserved \in Slots /\ \A s \in Unused : s \notin 1..Reserved
  BY <1>1 DEF Init, Prefilled, Slots, Refs, Unused
<1>4. TypeOK
  BY <1>1 DEF Init, TypeOK, Prefilled, Slots
<1>5. FreeListInv
  BY <1>2, <1>3
  DEF FreeListInv, FreeClosed, FreeInjective, FreeEndsOnce, LeadsToLast, Unused
<1>6. registry[Reserved] # Nil
  BY <1>3
<1>7. OwnersSeeTheirValue /\ FixedMapAgrees /\ OwnerInv
  BY <1>1, <1>2 DEF Init, OwnersSeeTheirValue, FixedMapAgrees, OwnerInv
<1> QED
  BY <1>4, <1>5, <1>6, <1>7 DEF IInv

\* tolua_openvaluetype writes a reserved slot and nothing else.
LEMMA OpenValueTypeInv ==
    ASSUME IInv, NEW x \in Values \cup {Nil}, OpenValueType(x)
    PROVE  IInv'
<1>1. /\ registry' = [registry EXCEPT ![CheckValue] = x]
      /\ registry \in [Slots -> Values \cup Nat \cup {Nil}]
      /\ UNCHANGED <<fixedmap, bound, hostRefs, pending, classRefs>>
  BY DEF OpenValueType, IInv, TypeOK
<1>2. /\ Live' = Live /\ Unused' = Unused
      /\ \A s \in {0, Reserved} \cup Refs : registry'[s] = registry[s]
      /\ Unused \subseteq {0} \cup Refs
  BY <1>1 DEF Live, Unused, Refs, Slots
<1>3. TypeOK'
  BY <1>1 DEF IInv, TypeOK
<1>4. FreeListInv'
  <2>1. FreeListInv
    BY DEF IInv
  <2>2. \A s \in Unused : registry'[s] = registry[s]
    BY <1>2
  <2>3. FreeClosed' /\ FreeInjective'
    BY <1>2, <2>1, <2>2 DEF FreeListInv, FreeClosed, FreeInjective
  <2>4. \A s \in Unused : LeadsToLast(s)' <=> LeadsToLast(s)
    BY <1>2, <2>1, <2>2 DEF FreeListInv, FreeClosed, LeadsToLast
  <2> QED
    BY <1>2, <2>1, <2>3, <2>4 DEF FreeListInv, FreeEndsOnce
<1>5. registry'[Reserved] # Nil
  BY <1>2 DEF IInv
<1>6. OwnersSeeTheirValue' /\ FixedMapAgrees' /\ OwnerInv'
  BY <1>1, <1>2 DEF IInv, OwnersSeeTheirValue, FixedMapAgrees, OwnerInv
<1> QED
  BY <1>3, <1>4, <1>5, <1>6 DEF IInv

\* A reference that luaL_ref takes for toluaL_ref or for a class.
LEMMA LuaRefInv ==
    ASSUME IInv, NEW v \in Values, NEW r \in NewRefs(registry),
           registry' = LuaRef(registry, r, v),
           bound' = [bound EXCEPT ![r] = v],
           pending' = pending,
           \/ /\ fixedmap[v] = Nil
              /\ fixedmap' = [fixedmap EXCEPT ![v] = r]
              /\ hostRefs' = hostRefs \cup {r} /\ classRefs' = classRefs
           \/ /\ v \in MetaTables /\ fixedmap' = fixedmap
              /\ classRefs' = classRefs \cup {r} /\ hostRefs' = hostRefs
    PROVE  IInv'
<1>1. /\ r \in Refs \ Live /\ registry'[r] = v
      /\ \A s \in Refs : s # r => registry'[s] = registry[s]
      /\ registry'[Reserved] = registry[Reserved]
  BY NewRefUnused DEF LuaRef, IInv, TypeOK, Refs, Slots
<1>2. Live' = Live \cup {r}
  BY DEF Live
<1>3. FreeListInv'
  BY <1>2, FreeListAfterRef
<1>4. TypeOK'
  <2>1. registry[r] \in Values \cup Nat \cup {Nil}
    BY <1>1 DEF IInv, TypeOK, Refs, Slots
  <2>2. registry' \in [Slots -> Values \cup Nat \cup {Nil}]
    BY <2>1 DEF IInv, TypeOK, LuaRef
  <2> QED
    BY <1>1, <2>2 DEF IInv, TypeOK
<1>5. OwnersSeeTheirValue'
  BY <1>1, <1>2 DEF IInv, TypeOK, OwnersSeeTheirValue
<1>6. FixedMapAgrees'
  BY <1>1 DEF IInv, TypeOK, FixedMapAgrees, Live
<1>7. OwnerInv'
  <2>1. r \notin classRefs /\ r \notin hostRefs \cup pending
    BY <1>1 DEF Live
  <2>2. bound'[r] = v /\ \A s \in Refs : s # r => bound'[s] = bound[s]
    BY <1>1 DEF IInv, TypeOK
  <2>3. classRefs' \cap (hostRefs' \cup pending') = {}
    BY <2>1 DEF IInv, OwnerInv
  <2>4. \A s \in classRefs' : bound'[s] \in MetaTables
    BY <2>1, <2>2 DEF IInv, TypeOK, OwnerInv
  <2>5. ASSUME NEW s \in hostRefs' \cup pending', bound'[s] \notin MetaTables
        PROVE  fixedmap'[bound'[s]] = s
    <3>1. CASE s = r
      BY <2>1, <2>2, <2>5, <3>1 DEF IInv, TypeOK
    <3>2. CASE s # r
      <4>1. s \in hostRefs \cup pending /\ s \in Refs
        BY <3>2 DEF IInv, TypeOK
      <4>2. bound'[s] = bound[s] /\ fixedmap[bound[s]] = s /\ bound[s] \in Values
        BY <2>2, <2>5, <3>2, <4>1 DEF IInv, TypeOK, OwnerInv, OwnersSeeTheirValue, Live
      <4>3. s # Nil
        BY <4>1 DEF Refs
      <4> QED
        BY <4>2, <4>3 DEF IInv, TypeOK
    <3> QED
      BY <3>1, <3>2
  <2> QED
    BY <2>3, <2>4, <2>5 DEF OwnerInv
<1> QED
  BY <1>1, <1>3, <1>4, <1>5, <1>6, <1>7 DEF IInv

\* A reference that its last owner gives to toluaL_unref.
LEMMA ToluaUnrefInv ==
    ASSUME IInv, NEW r \in Live, ToluaUnref(r),
           hostRefs' \cup pending' = (hostRefs \cup pending) \ {r},
           classRefs' = classRefs \ {r},
           hostRefs' \subseteq hostRefs, pending' \subseteq pending
    PROVE  IInv'
<1>1. /\ r \in Refs /\ registry[r] = bound[r] /\ bound[r] \in Values
      /\ \A s \in Refs : s # r => registry'[s] = registry[s] /\ bound'[s] = bound[s]
      /\ bound'[r] = Nil
      /\ registry'[Reserved] = registry[Reserved]
  BY DEF ToluaUnref, LuaUnref, IInv, TypeOK, OwnersSeeTheirValue, Live, Refs, Slots
<1>2. Live' = Live \ {r}
  BY DEF Live
<1>3. FreeListInv'
  BY <1>2, FreeListAfterUnref DEF ToluaUnref
<1>4. TypeOK'
  <2>1. registry[0] \in Values \cup Nat \cup {Nil} /\ r \in Nat
    BY <1>1 DEF IInv, TypeOK, Refs, Slots
  <2>2. registry' \in [Slots -> Values \cup Nat \cup {Nil}]
    BY <1>1, <2>1 DEF IInv, TypeOK, ToluaUnref, LuaUnref
  <2> QED
    BY <1>1, <2>2 DEF IInv, TypeOK, ToluaUnref, Forget
<1>5. OwnersSeeTheirValue'
  BY <1>1, <1>2 DEF IInv, OwnersSeeTheirValue
<1>6. \A u \in Values : fixedmap'[u] = IF u = bound[r] THEN Nil ELSE fixedmap[u]
  BY <1>1 DEF ToluaUnref, Forget
<1>7. FixedMapAgrees'
  BY <1>1, <1>6 DEF IInv, TypeOK, FixedMapAgrees
<1>8. OwnerInv'
  <2>1. classRefs' \cap (hostRefs' \cup pending') = {}
    BY DEF IInv, OwnerInv
  <2>2. \A s \in classRefs' : bound'[s] \in MetaTables
    BY <1>1 DEF IInv, TypeOK, OwnerInv
  <2>3. ASSUME NEW s \in hostRefs' \cup pending', bound'[s] \notin MetaTables
        PROVE  fixedmap'[bound'[s]] = s
    <3>1. s \in hostRefs \cup pending /\ s # r /\ s \in Refs
      BY DEF IInv, TypeOK
    <3>2. bound'[s] = bound[s] /\ fixedmap[bound[s]] = s
      BY <1>1, <2>3, <3>1 DEF IInv, OwnerInv
    <3>3. bound[s] # bound[r]
      BY <1>1, <2>3, <3>1, <3>2 DEF IInv, OwnerInv, Live
    <3> QED
      BY <1>6, <3>1, <3>2, <3>3 DEF IInv, TypeOK, OwnersSeeTheirValue, Live
  <2> QED
    BY <2>1, <2>2, <2>3 DEF OwnerInv
<1> QED
  BY <1>1, <1>3, <1>4, <1>5, <1>7, <1>8 DEF IInv

\* Steps of the owners alone change nothing but who holds a reference.
LEMMA OwnersInv ==
    ASSUME IInv, UNCHANGED <<registry, fixedmap, bound, classRefs>>,
           hostRefs' \cup pending' = hostRefs \cup pending
    PROVE  IInv'
<1>1. Live' = Live /\ Unused' = Unused
  BY DEF Live, Unused
<1>2. TypeOK'
  BY DEF IInv, TypeOK
<1>3. FreeListInv'
  BY <1>1 DEF IInv, FreeListInv, FreeClosed, FreeInjective, FreeEndsOnce, LeadsToLast
<1> QED
  BY <1>1, <1>2, <1>3 DEF IInv, OwnersSeeTheirValue, FixedMapAgrees, OwnerInv

\* Every step preserves the invariant.
LEMMA NextInv == IInv /\ [Next]_vars => IInv'
<1>1. SUFFICES ASSUME IInv, [Next]_vars PROVE IInv'
  OBVIOUS
<1>2. ASSUME NEW x \in Values \cup {Nil}, OpenValueType(x) PROVE IInv'
  BY <1>1, <1>2, OpenValueTypeInv
<1>3. ASSUME NEW v \in Values, ToluaRef(v) PROVE IInv'
  <2>1. PICK r \in RefAnswers(fixedmap, registry, v) :
          /\ bound' = [bound EXCEPT ![r] = v]
          /\ hostRefs' = hostRefs \cup {r}
          /\ IF fixedmap[v] # Nil
             THEN UNCHANGED <<registry, fixedmap>>
             ELSE /\ registry' = LuaRef(registry, r, v)
                  /\ fixedmap' = [fixedmap EXCEPT ![v] = r]
    BY <1>3 DEF ToluaRef
  <2>2. UNCHANGED <<pending, classRefs>>
    BY <1>3 DEF ToluaRef
  <2>3. CASE fixedmap[v] # Nil
    <3>1. r = fixedmap[v] /\ r \in hostRefs \cup pending /\ bound[r] = v
      BY <1>1, <2>1, <2>3 DEF RefAnswers, IInv, FixedMapAgrees
    <3>2. bound' = bound
      BY <1>1, <2>1, <3>1 DEF IInv, TypeOK
    <3> QED
      BY <1>1, <2>1, <2>2, <2>3, <3>1, <3>2, OwnersInv
  <2>4. CASE fixedmap[v] = Nil
    BY <1>1, <2>1, <2>2, <2>4, LuaRefInv DEF RefAnswers
  <2> QED
    BY <2>3, <2>4
<1>4. ASSUME NEW v \in MetaTables, BeginClass(v) PROVE IInv'
  BY <1>1, <1>4, LuaRefInv DEF BeginClass
<1>5. ASSUME NEW r \in Refs, Finalize(r) PROVE IInv'
  BY <1>1, <1>5, OwnersInv DEF Finalize
<1>6. ASSUME NEW r \in Refs, Drain(r) PROVE IInv'
  <2>1. CASE r \in hostRefs
    BY <1>1, <1>6, <2>1, OwnersInv DEF Drain
  <2>2. CASE r \notin hostRefs
    BY <1>1, <1>6, <2>2, ToluaUnrefInv DEF Drain, Live, IInv, OwnerInv
  <2> QED
    BY <2>1, <2>2
<1>7. ASSUME NEW r \in Refs, UnrefClass(r) PROVE IInv'
  BY <1>1, <1>7, ToluaUnrefInv DEF UnrefClass, Live, IInv, OwnerInv
<1>8. CASE UNCHANGED vars
  BY <1>1, <1>8, OwnersInv DEF vars
<1> QED
  BY <1>1, <1>2, <1>3, <1>4, <1>5, <1>6, <1>7, <1>8 DEF Next

\* The inductive invariant holds in every reachable state.
THEOREM Invariance == Spec => []IInv
  BY InitInv, NextInv, PTL DEF Spec

\* Type correctness.
THEOREM TypeCorrect == Spec => []TypeOK
  BY Invariance, PTL DEF IInv

\* Whoever holds a reference finds its value in the registry, whatever the
\* order of references taken, given back, finalized and drained.
THEOREM OwnersSafe == Spec => []OwnersSeeTheirValue
  BY Invariance, PTL DEF IInv

\* The FIXEDMAP never answers with a reference that was given back.
THEOREM FixedMapSafe == Spec => []FixedMapAgrees
  BY Invariance, PTL DEF IInv

\* A value other than a metatable has at most one reference of the host.
THEOREM Deduplicated == Spec => []OneRefPerValue
<1>1. IInv => OneRefPerValue
  BY DEF IInv, OwnerInv, OneRefPerValue
<1> QED
  BY <1>1, Invariance, PTL

-----------------------------------------------------------------------------
(* The references implement the abstract table.                            *)

\* The owners see what their references are bound to.
LEMMA SeenIsBound == IInv => Seen = bound
<1>1. ASSUME IInv PROVE Seen = bound
  <2>1. bound \in [Refs -> Values \cup {Nil}]
    BY <1>1 DEF IInv, TypeOK
  <2>2. ASSUME NEW r \in Refs PROVE Seen[r] = bound[r]
    BY <1>1, <2>2 DEF IInv, OwnersSeeTheirValue, Seen
  <2> QED
    BY <2>1, <2>2 DEF Seen
<1> QED
  BY <1>1

\* A step binds one unused reference, unbinds one, or leaves the table.
LEMMA StepImplements == IInv /\ IInv' /\ [Next]_vars => [Table!TableNext]_Seen
<1>1. SUFFICES ASSUME IInv, IInv', [Next]_vars, Seen' # Seen PROVE Table!TableNext
  OBVIOUS
<1>0. Seen = bound /\ Seen' = bound'
  <2>1. (IInv => Seen = bound)'
    BY SeenIsBound, PTL
  <2> QED
    BY <1>1, <2>1, SeenIsBound
<1>2. Table!Refs = Refs
  BY DEF Table!Refs, Refs
<1>3. ASSUME NEW r \in NewRefs(registry), NEW v \in Values,
             bound' = [bound EXCEPT ![r] = v]
      PROVE  Table!TableNext
  <2>1. r \in Refs /\ bound[r] = Nil
    BY <1>1, NewRefUnused DEF IInv, OwnersSeeTheirValue
  <2>2. Table!Bind(r, v)
    BY <1>0, <1>3, <2>1 DEF Table!Bind
  <2> QED
    BY <1>2, <2>1, <2>2 DEF Table!TableNext
<1>4. ASSUME NEW r \in Live, ToluaUnref(r) PROVE Table!TableNext
  <2>1. r \in Refs /\ bound[r] # Nil
    BY <1>1 DEF IInv, TypeOK, Live, OwnersSeeTheirValue
  <2>2. Table!Unbind(r)
    BY <1>0, <1>4, <2>1 DEF Table!Unbind, ToluaUnref
  <2> QED
    BY <1>2, <2>1, <2>2 DEF Table!TableNext
<1>5. ASSUME NEW v \in Values, ToluaRef(v) PROVE Table!TableNext
  <2>1. PICK r \in RefAnswers(fixedmap, registry, v) : bound' = [bound EXCEPT ![r] = v]
    BY <1>5 DEF ToluaRef
  <2>2. fixedmap[v] = Nil
    BY <1>0, <1>1, <2>1 DEF RefAnswers, IInv, TypeOK, FixedMapAgrees
  <2> QED
    BY <1>3, <2>1, <2>2 DEF RefAnswers
<1>6. ASSUME NEW v \in MetaTables, BeginClass(v) PROVE Table!TableNext
  BY <1>3, <1>6, ValueAssumption DEF BeginClass
<1>7. ASSUME NEW r \in Refs, Drain(r) PROVE Table!TableNext
  BY <1>0, <1>1, <1>4, <1>7 DEF Drain, Live
<1>8. ASSUME NEW r \in Refs, UnrefClass(r) PROVE Table!TableNext
  BY <1>4, <1>8 DEF UnrefClass, Live
<1> QED
  BY <1>0, <1>1, <1>5, <1>6, <1>7, <1>8 DEF Next, OpenValueType, Finalize, vars

\* toluaL_ref and toluaL_unref, with the free list, the FIXEDMAP and the
\* queue of finalized objects, behave as a table of references each bound to
\* one value until it is given back.
THEOREM Implementation == Spec => ImplementsRefTable
<1>1. Init => Table!TableInit
  BY DEF Init, Table!TableInit, Table!Refs, Refs, Seen, Live
<1> QED
  BY <1>1, StepImplements, Invariance, PTL DEF Spec, ImplementsRefTable, Table!TableSpec

\* No step on references writes a slot that tolua reserved, the slot of the
\* value type checker excepted.
THEOREM ReservedSafe == Spec => ReservedKept
<1>1. ASSUME IInv, [Next]_vars, NEW i \in 1..Reserved, i # CheckValue
      PROVE  registry'[i] = registry[i]
  <2>1. i # 0 /\ i \notin Refs /\ i \in Slots
    BY DEF Refs, Slots
  <2>2. ASSUME NEW r \in Refs, NEW v, registry' = LuaRef(registry, r, v)
        PROVE  registry'[i] = registry[i]
    BY <1>1, <2>1, <2>2 DEF LuaRef, IInv, TypeOK
  <2>3. ASSUME NEW r \in Refs, ToluaUnref(r) PROVE registry'[i] = registry[i]
    BY <1>1, <2>1, <2>3 DEF ToluaUnref, LuaUnref, IInv, TypeOK
  <2>4. ASSUME NEW v \in Values, ToluaRef(v) PROVE registry'[i] = registry[i]
    <3>1. CASE fixedmap[v] # Nil
      BY <2>4, <3>1 DEF ToluaRef
    <3>2. CASE fixedmap[v] = Nil
      <4>1. PICK r \in NewRefs(registry) : registry' = LuaRef(registry, r, v)
        BY <2>4, <3>2 DEF ToluaRef, RefAnswers
      <4> QED
        BY <1>1, <2>2, <4>1, NewRefUnused
    <3> QED
      BY <3>1, <3>2
  <2>5. ASSUME NEW v \in MetaTables, BeginClass(v) PROVE registry'[i] = registry[i]
    <3>1. PICK r \in NewRefs(registry) : registry' = LuaRef(registry, r, v)
      BY <2>5 DEF BeginClass
    <3> QED
      BY <1>1, <2>2, <3>1, NewRefUnused
  <2>6. ASSUME NEW x \in Values \cup {Nil}, OpenValueType(x)
        PROVE  registry'[i] = registry[i]
    BY <1>1, <2>6 DEF OpenValueType, IInv, TypeOK
  <2>7. ASSUME NEW r \in Refs, Finalize(r) \/ Drain(r) \/ UnrefClass(r)
        PROVE  registry'[i] = registry[i]
    BY <2>3, <2>7 DEF Finalize, Drain, UnrefClass
  <2> QED
    BY <1>1, <2>4, <2>5, <2>6, <2>7 DEF Next, vars
<1>2. IInv /\ [Next]_vars =>
        [\A i \in 1..Reserved : i # CheckValue => registry'[i] = registry[i]]_vars
  BY <1>1
<1> QED
  BY <1>2, Invariance, PTL DEF Spec, ReservedKept

-----------------------------------------------------------------------------
(* The free list as a whole.                                               *)

\* f is the free list written out, n slots behind slot 0.  It and the slots in
\* use are all slots up to h, and those above have never been used.
FreeChain(f, n, h) ==
    /\ n \in Nat /\ h \in Reserved..MaxSlot
    /\ f \in [0..n -> Slots] /\ f[0] = 0
    /\ \A i \in 0..(n - 1) : registry[f[i]] = f[i + 1]
    /\ registry[f[n]] = Nil
    /\ \A i \in 1..n : f[i] \in Refs \ Live
    /\ \A i, j \in 1..n : f[i] = f[j] => i = j
    /\ \A s \in Refs : s <= h <=> s \in Live \/ \E i \in 1..n : f[i] = s
    /\ \A s \in Refs : s > h => registry[s] = Nil

\* There is such a list.
ChainInv == \E f, n, h : FreeChain(f, n, h)

\* At first the list is empty and no slot has been used.
LEMMA InitChain == Init => ChainInv
<1> SUFFICES ASSUME Init PROVE ChainInv
  OBVIOUS
<1> DEFINE f == [i \in 0..0 |-> 0]
<1>1. Live = {}
  BY DEF Init, Live
<1>2. /\ \A i \in Slots : registry[i] = IF i \in 1..Reserved THEN i ELSE Nil
      /\ 0 \in Slots /\ Refs \subseteq Slots /\ \A s \in Refs : s > Reserved
  BY DEF Init, Prefilled, Slots, Refs
<1>3. Reserved \in Reserved..MaxSlot /\ f \in [0..0 -> Slots] /\ f[0] = 0 /\ registry[0] = Nil
  BY <1>2
<1>4. 1..0 = {} /\ 0..(0 - 1) = {}
  OBVIOUS
<1> HIDE DEF f
<1>5. FreeChain(f, 0, Reserved)
  BY <1>1, <1>2, <1>3, <1>4 DEF FreeChain, Refs
<1>. QED  BY <1>5 DEF ChainInv

\* luaL_ref takes the first slot of the list, or, if it is empty, the slot
\* behind all those in use.
LEMMA ChainAfterRef ==
    ASSUME IInv, ChainInv, NEW v \in Values, NEW r \in NewRefs(registry),
           registry' = LuaRef(registry, r, v), Live' = Live \cup {r}
    PROVE  ChainInv'
<1>1. PICK f, n, h : FreeChain(f, n, h)
  BY DEF ChainInv
<1>2. /\ registry \in [Slots -> Values \cup Nat \cup {Nil}]
      /\ Refs \subseteq Slots /\ 0 \in Slots /\ 0 \notin Refs /\ Nil \notin Slots
      /\ Refs \subseteq Nat
  BY DEF IInv, TypeOK, Refs, Slots
<1>3. /\ n \in Nat /\ h \in Reserved..MaxSlot /\ f \in [0..n -> Slots] /\ f[0] = 0
      /\ \A i \in 0..(n - 1) : registry[f[i]] = f[i + 1]
      /\ registry[f[n]] = Nil
      /\ \A i \in 1..n : f[i] \in Refs \ Live
      /\ \A i, j \in 1..n : f[i] = f[j] => i = j
      /\ \A s \in Refs : s <= h <=> s \in Live \/ \E i \in 1..n : f[i] = s
      /\ \A s \in Refs : s > h => registry[s] = Nil
  BY <1>1 DEF FreeChain
<1>4. r \in Refs \ Live /\ (FreeHead(registry) # 0 => r = registry[0])
  BY NewRefUnused
<1>5. CASE n = 0
  <2>1. registry[0] = Nil /\ FreeHead(registry) = 0
    BY <1>3, <1>5 DEF FreeHead
  <2>2. PICK m \in Lengths(registry) : r = m + 1
    BY <2>1 DEF NewRefs
  <2>3. /\ m \in Reserved..(MaxSlot - 1) /\ registry[m + 1] = Nil
        /\ (m = 0 \/ registry[m] # Nil)
    BY <2>2 DEF Lengths, IInv
  <2>4. \A s \in Refs : s <= h <=> s \in Live
    <3>1. 1..n = {}
      BY <1>5
    <3>. QED  BY <1>3, <3>1
  <2>5. r > h
    BY <1>4, <2>4, <1>3 DEF Refs
  <2>6. m <= h
    <3>1. m \in Refs => m <= h
      BY <1>3, <2>3, <1>5 DEF Refs
    <3>. QED  BY <1>3, <2>3, <3>1 DEF Refs
  <2>7. r = h + 1 /\ h + 1 \in Reserved..MaxSlot
    BY <1>3, <2>2, <2>3, <2>5, <2>6
  <2>8. registry'[0] = Nil /\ \A s \in Refs : s # r => registry'[s] = registry[s]
    BY <1>2, <1>4, <2>1 DEF LuaRef
  <2>9. \A s \in Refs : s > h + 1 => s > h /\ s # r
    BY <1>3, <2>7 DEF Refs
  <2>10. \A s \in Refs : s <= h + 1 <=> s <= h \/ s = r
    BY <1>3, <2>7 DEF Refs
  <2>11. 1..n = {} /\ 0..(n - 1) = {} /\ n = 0
    BY <1>5
  <2>12. FreeChain(f, n, h + 1)'
    BY <1>3, <2>4, <2>7, <2>8, <2>9, <2>10, <2>11 DEF FreeChain
  <2>. QED  BY <2>12 DEF ChainInv
<1>6. CASE n # 0
  <2> DEFINE g == [i \in 0..(n - 1) |-> IF i = 0 THEN 0 ELSE f[i + 1]]
  <2>0. 1 \in 1..n /\ 0 \in 0..(n - 1) /\ n - 1 \in Nat /\ n \in Nat
    BY <1>3, <1>6
  <2>1. r = f[1] /\ FreeHead(registry) # 0 /\ registry[0] = r
    <3>1. registry[0] = f[1] /\ f[1] \in Refs
      BY <1>3, <2>0
    <3>. QED  BY <1>2, <1>4, <3>1 DEF FreeHead
  <2>2. /\ registry'[0] = registry[r] /\ \A s \in Refs : s # r => registry'[s] = registry[s]
    BY <1>2, <1>4, <2>1 DEF LuaRef
  <2>3. ASSUME NEW i \in 1..(n - 1)
        PROVE  g[i] = f[i + 1] /\ i + 1 \in 1..n /\ i + 1 # 1 /\ g[i] \in Refs \ Live /\ g[i] # r
    BY <1>3, <2>0, <2>1
  <2>4. g \in [0..(n - 1) -> Slots] /\ g[0] = 0
    BY <1>2, <1>3, <2>0
  <2> HIDE DEF g
  <2>5. ASSUME NEW i \in 0..(n - 1)
        PROVE  registry'[g[i]] = IF i = n - 1 THEN Nil ELSE f[i + 2]
    <3>1. registry'[g[i]] = registry[f[i + 1]]
      <4>1. CASE i = 0
        BY <2>1, <2>2, <2>4, <4>1
      <4>2. CASE i # 0
        <5>1. i \in 1..(n - 1)
          BY <2>0, <4>2
        <5>. QED  BY <2>2, <2>3, <5>1
      <4>. QED  BY <4>1, <4>2
    <3>2. i = n - 1 => i + 1 = n
      BY <2>0
    <3>3. i # n - 1 => i + 1 \in 0..(n - 1) /\ (i + 1) + 1 = i + 2
      BY <2>0
    <3>. QED  BY <1>3, <3>1, <3>2, <3>3
  <2>6. \A i \in 0..((n - 1) - 1) : registry'[g[i]] = g[i + 1]
    <3> SUFFICES ASSUME NEW i \in 0..((n - 1) - 1) PROVE registry'[g[i]] = g[i + 1]
      OBVIOUS
    <3>1. i \in 0..(n - 1) /\ i # n - 1 /\ i + 1 \in 1..(n - 1) /\ (i + 1) + 1 = i + 2
      BY <2>0
    <3>. QED  BY <2>3, <2>5, <3>1
  <2>7. registry'[g[n - 1]] = Nil
    BY <2>0, <2>5
  <2>8. \A i \in 1..(n - 1) : g[i] \in Refs \ Live'
    BY <2>3
  <2>9. \A i, j \in 1..(n - 1) : g[i] = g[j] => i = j
    <3> SUFFICES ASSUME NEW i \in 1..(n - 1), NEW j \in 1..(n - 1), g[i] = g[j] PROVE i = j
      OBVIOUS
    <3>1. i + 1 = j + 1
      BY <1>3, <2>3
    <3>. QED  BY <3>1
  <2>10. ASSUME NEW s \in Refs
         PROVE  s <= h <=> s \in Live' \/ \E i \in 1..(n - 1) : g[i] = s
    <3>1. (\E i \in 1..n : f[i] = s) <=> s = r \/ \E i \in 1..(n - 1) : g[i] = s
      <4>1. ASSUME NEW i \in 1..n, f[i] = s, s # r PROVE \E k \in 1..(n - 1) : g[k] = s
        <5>1. i # 1 /\ i - 1 \in 1..(n - 1) /\ (i - 1) + 1 = i
          BY <2>0, <2>1, <4>1
        <5>. QED  BY <2>3, <4>1, <5>1
      <4>. QED  BY <2>0, <2>1, <2>3, <4>1
    <3>. QED  BY <1>3, <3>1
  <2>11. \A s \in Refs : s > h => registry'[s] = Nil
    <3>1. \A s \in Refs : s > h => ~(s <= h)
      BY <1>3 DEF Refs
    <3>2. r <= h
      BY <1>3, <1>4, <2>0, <2>1
    <3>. QED  BY <1>3, <2>2, <3>1, <3>2
  <2>12. FreeChain(g, n - 1, h)'
    BY <1>3, <2>0, <2>4, <2>6, <2>7, <2>8, <2>9, <2>10, <2>11 DEF FreeChain
  <2>. QED  BY <2>12 DEF ChainInv
<1>. QED  BY <1>5, <1>6

\* luaL_unref puts the slot in front of the list.
LEMMA ChainAfterUnref ==
    ASSUME IInv, ChainInv, NEW r \in Live,
           registry' = LuaUnref(registry, r), Live' = Live \ {r}
    PROVE  ChainInv'
<1>1. PICK f, n, h : FreeChain(f, n, h)
  BY DEF ChainInv
<1>2. /\ registry \in [Slots -> Values \cup Nat \cup {Nil}]
      /\ Refs \subseteq Slots /\ 0 \in Slots /\ 0 \notin Refs /\ r \in Refs
  BY DEF IInv, TypeOK, Refs, Slots, Live
<1>3. /\ n \in Nat /\ h \in Reserved..MaxSlot /\ f \in [0..n -> Slots] /\ f[0] = 0
      /\ \A i \in 0..(n - 1) : registry[f[i]] = f[i + 1]
      /\ registry[f[n]] = Nil
      /\ \A i \in 1..n : f[i] \in Refs \ Live
      /\ \A i, j \in 1..n : f[i] = f[j] => i = j
      /\ \A s \in Refs : s <= h <=> s \in Live \/ \E i \in 1..n : f[i] = s
      /\ \A s \in Refs : s > h => registry[s] = Nil
  BY <1>1 DEF FreeChain
<1>4. /\ registry'[0] = r /\ registry'[r] = registry[0]
      /\ \A s \in Refs : s # r => registry'[s] = registry[s]
  BY <1>2 DEF LuaUnref
<1> DEFINE g == [i \in 0..(n + 1) |-> IF i = 0 THEN 0 ELSE IF i = 1 THEN r ELSE f[i - 1]]
<1>5. /\ n + 1 \in Nat /\ g \in [0..(n + 1) -> Slots] /\ g[0] = 0 /\ g[1] = r /\ 1 \in 1..(n + 1)
      /\ \A i \in 2..(n + 1) : g[i] = f[i - 1] /\ i - 1 \in 1..n
      /\ \A i \in 1..n : f[i] = g[i + 1] /\ i + 1 \in 2..(n + 1)
  BY <1>2, <1>3
<1> HIDE DEF g
<1>6. \A i \in 2..(n + 1) : g[i] \in Refs \ Live /\ g[i] # r
  BY <1>3, <1>5
<1>7. ASSUME NEW i \in 0..n PROVE registry[f[i]] = IF i = n THEN Nil ELSE f[i + 1]
  BY <1>3
<1>8. ASSUME NEW i \in 0..(n + 1)
      PROVE  registry'[g[i]] = IF i = n + 1 THEN Nil ELSE g[i + 1]
  <2>1. CASE i = 0
    BY <1>3, <1>4, <1>5, <2>1
  <2>2. CASE i = 1
    <3>1. registry'[g[i]] = registry[f[0]]
      BY <1>3, <1>4, <1>5, <2>2
    <3>2. registry[f[0]] = IF 0 = n THEN Nil ELSE f[0 + 1]
      BY <1>3, <1>7
    <3>3. n # 0 => f[1] = g[2]
      BY <1>3, <1>5
    <3>. QED  BY <1>3, <2>2, <3>1, <3>2, <3>3
  <2>3. CASE i \in 2..(n + 1)
    <3>1. registry'[g[i]] = registry[f[i - 1]] /\ i - 1 \in 0..n
      BY <1>3, <1>4, <1>5, <1>6, <2>3
    <3>2. registry[f[i - 1]] = IF i - 1 = n THEN Nil ELSE f[(i - 1) + 1]
      BY <1>7, <3>1
    <3>3. i # n + 1 => i + 1 \in 2..(n + 1) /\ (i + 1) - 1 = (i - 1) + 1
      BY <1>3, <2>3
    <3>4. i # n + 1 => g[i + 1] = f[(i - 1) + 1]
      BY <1>5, <3>3
    <3>. QED  BY <1>3, <2>3, <3>1, <3>2, <3>4
  <2>. QED  BY <1>3, <2>1, <2>2, <2>3
<1>9. \A i \in 0..((n + 1) - 1) : registry'[g[i]] = g[i + 1]
  BY <1>3, <1>8
<1>10. registry'[g[n + 1]] = Nil
  BY <1>3, <1>8
<1>11. \A i \in 1..(n + 1) : g[i] \in Refs \ Live'
  <2>1. \A i \in 1..(n + 1) : i = 1 \/ i \in 2..(n + 1)
    BY <1>3
  <2>. QED  BY <1>2, <1>5, <1>6, <2>1
<1>12. \A i, j \in 1..(n + 1) : g[i] = g[j] => i = j
  <2> SUFFICES ASSUME NEW i \in 1..(n + 1), NEW j \in 1..(n + 1), g[i] = g[j] PROVE i = j
    OBVIOUS
  <2>1. (i = 1 \/ i \in 2..(n + 1)) /\ (j = 1 \/ j \in 2..(n + 1))
    BY <1>3
  <2>2. CASE i \in 2..(n + 1) /\ j \in 2..(n + 1)
    <3>1. i - 1 = j - 1
      BY <1>3, <1>5, <2>2
    <3>. QED  BY <2>2, <3>1
  <2>. QED  BY <1>5, <1>6, <2>1, <2>2
<1>13. ASSUME NEW s \in Refs
       PROVE  s <= h <=> s \in Live' \/ \E i \in 1..(n + 1) : g[i] = s
  <2>1. (\E i \in 1..(n + 1) : g[i] = s) <=> s = r \/ \E i \in 1..n : f[i] = s
    <3>1. ASSUME NEW i \in 1..(n + 1), g[i] = s, s # r PROVE \E k \in 1..n : f[k] = s
      <4>1. i \in 2..(n + 1)
        BY <1>3, <1>5, <3>1
      <4>. QED  BY <1>5, <3>1, <4>1
    <3>2. ASSUME NEW i \in 1..n, f[i] = s PROVE \E k \in 1..(n + 1) : g[k] = s
      <4>1. i + 1 \in 1..(n + 1)
        BY <1>3
      <4>. QED  BY <1>5, <3>2, <4>1
    <3>. QED  BY <1>5, <3>1, <3>2
  <2>. QED  BY <1>3, <2>1
<1>14. \A s \in Refs : s > h => registry'[s] = Nil
  <2>1. \A s \in Refs : s > h => ~(s <= h)
    BY <1>3 DEF Refs
  <2>2. r <= h
    BY <1>2, <1>3
  <2>. QED  BY <1>3, <1>4, <2>1, <2>2
<1>15. FreeChain(g, n + 1, h)'
  BY <1>3, <1>5, <1>9, <1>10, <1>11, <1>12, <1>13, <1>14 DEF FreeChain
<1>. QED  BY <1>15 DEF ChainInv

\* Every other step leaves the free list alone.
LEMMA ChainStays ==
    ASSUME ChainInv, Live' = Live, \A s \in {0} \cup Refs : registry'[s] = registry[s]
    PROVE  ChainInv'
<1>1. PICK f, n, h : FreeChain(f, n, h)
  BY DEF ChainInv
<1>2. ASSUME NEW i \in 0..n PROVE registry'[f[i]] = registry[f[i]]
  <2>1. i = 0 \/ i \in 1..n
    BY <1>1 DEF FreeChain
  <2>. QED  BY <1>1, <2>1 DEF FreeChain
<1>3. n \in 0..n /\ 0..(n - 1) \subseteq 0..n
  BY <1>1 DEF FreeChain
<1>4. FreeChain(f, n, h)'
  BY <1>1, <1>2, <1>3 DEF FreeChain
<1>. QED  BY <1>4 DEF ChainInv

\* Every step keeps the list together.
LEMMA NextChain == IInv /\ ChainInv /\ [Next]_vars => ChainInv'
<1>1. SUFFICES ASSUME IInv, ChainInv, [Next]_vars PROVE ChainInv'
  OBVIOUS
<1>2. ASSUME NEW x \in Values \cup {Nil}, OpenValueType(x) PROVE ChainInv'
  <2>1. Live' = Live
    BY <1>2 DEF OpenValueType, Live
  <2>2. \A s \in {0} \cup Refs : registry'[s] = registry[s]
    BY <1>1, <1>2 DEF OpenValueType, IInv, TypeOK, Refs, Slots
  <2>. QED  BY <1>1, <2>1, <2>2, ChainStays
<1>3. ASSUME NEW v \in Values, ToluaRef(v) PROVE ChainInv'
  <2>1. PICK r \in RefAnswers(fixedmap, registry, v) :
          /\ hostRefs' = hostRefs \cup {r}
          /\ IF fixedmap[v] # Nil THEN UNCHANGED <<registry, fixedmap>>
             ELSE registry' = LuaRef(registry, r, v)
    BY <1>3 DEF ToluaRef
  <2>2. UNCHANGED <<pending, classRefs>>
    BY <1>3 DEF ToluaRef
  <2>3. CASE fixedmap[v] # Nil
    <3>1. r \in hostRefs \cup pending
      BY <1>1, <2>1, <2>3 DEF RefAnswers, IInv, FixedMapAgrees
    <3>2. Live' = Live
      BY <2>1, <2>2, <3>1 DEF Live
    <3>. QED  BY <1>1, <2>1, <2>3, <3>2, ChainStays
  <2>4. CASE fixedmap[v] = Nil
    <3>1. Live' = Live \cup {r} /\ r \in NewRefs(registry)
      BY <2>1, <2>2, <2>4 DEF Live, RefAnswers
    <3>. QED  BY <1>1, <2>1, <2>4, <3>1, ChainAfterRef
  <2>. QED  BY <2>3, <2>4
<1>4. ASSUME NEW v \in MetaTables, BeginClass(v) PROVE ChainInv'
  <2>1. PICK r \in NewRefs(registry) :
          registry' = LuaRef(registry, r, v) /\ classRefs' = classRefs \cup {r}
    BY <1>4 DEF BeginClass
  <2>2. Live' = Live \cup {r} /\ v \in Values
    BY <1>4, <2>1 DEF BeginClass, Live
  <2>. QED  BY <1>1, <2>1, <2>2, ChainAfterRef
<1>5. ASSUME NEW r \in Refs, Finalize(r) PROVE ChainInv'
  <2>1. Live' = Live
    BY <1>5 DEF Finalize, Live
  <2>. QED  BY <1>1, <1>5, <2>1, ChainStays DEF Finalize
<1>6. ASSUME NEW r \in Refs, Drain(r) PROVE ChainInv'
  <2>1. CASE r \in hostRefs
    <3>1. Live' = Live
      BY <1>6, <2>1 DEF Drain, Live
    <3>. QED  BY <1>1, <1>6, <2>1, <3>1, ChainStays DEF Drain
  <2>2. CASE r \notin hostRefs
    <3>1. Live' = Live \ {r} /\ r \in Live
      BY <1>1, <1>6, <2>2 DEF Drain, Live, IInv, OwnerInv
    <3>. QED  BY <1>1, <1>6, <2>2, <3>1, ChainAfterUnref DEF Drain, ToluaUnref
  <2>. QED  BY <2>1, <2>2
<1>7. ASSUME NEW r \in Refs, UnrefClass(r) PROVE ChainInv'
  <2>1. Live' = Live \ {r} /\ r \in Live
    BY <1>1, <1>7 DEF UnrefClass, Live, IInv, OwnerInv
  <2>. QED  BY <1>1, <1>7, <2>1, ChainAfterUnref DEF UnrefClass, ToluaUnref
<1>8. CASE UNCHANGED vars
  <2>1. Live' = Live /\ registry' = registry
    BY <1>8 DEF vars, Live
  <2>. QED  BY <1>1, <2>1, ChainStays
<1>. QED  BY <1>1, <1>2, <1>3, <1>4, <1>5, <1>6, <1>7, <1>8 DEF Next

-----------------------------------------------------------------------------
(* FreeHop runs through the free list.                                      *)

\* A set of natural numbers has a least element.
LEMMA LeastOf ==
    ASSUME NEW S \in SUBSET Nat, S # {}
    PROVE  \E x \in S : \A y \in S : x <= y
<1> DEFINE R == OpToRel(<, Nat)
<1>1. IsWellFoundedOn(R, Nat)
  BY NatLessThanWellFounded
<1>2. \A x, y \in Nat : x < y => <<x, y>> \in R
  BY DEF OpToRel
<1> HIDE DEF R
<1>3. PICK x \in S : \A y \in S : ~(<<y, x>> \in R)
  BY <1>1, WFMin
<1>4. \A y \in S : ~(y < x)
  BY <1>2, <1>3, Zenon
<1>. QED  BY <1>4

\* What FreeHop computes: the slots of the list, then 0.
LEMMA FreeHopChain ==
    ASSUME NEW f, NEW n, NEW h, FreeChain(f, n, h)
    PROVE  \A k \in 0..MaxSlot : FreeHop[k] = IF k < n THEN f[k + 1] ELSE 0
<1> DEFINE Hop(g) == [k \in 0..MaxSlot |->
                         IF k = 0 THEN FreeHead(registry)
                         ELSE IF g[k - 1] = 0 THEN 0
                         ELSE IF registry[g[k - 1]] \in Nat THEN registry[g[k - 1]]
                         ELSE 0]
           w == [k \in 0..MaxSlot |-> IF k < n THEN f[k + 1] ELSE 0]
<1>1. /\ n \in Nat /\ f[0] = 0 /\ Refs \subseteq Nat /\ 0 \notin Refs /\ Nil \notin Nat
      /\ \A i \in 0..(n - 1) : registry[f[i]] = f[i + 1]
      /\ registry[f[n]] = Nil
      /\ \A i \in 1..n : f[i] \in Refs
  BY DEF FreeChain, Refs
<1>2. w = Hop(w)
  <2> SUFFICES ASSUME NEW k \in 0..MaxSlot PROVE w[k] = Hop(w)[k]
    OBVIOUS
  <2>1. CASE k = 0
    <3>1. n # 0 => registry[0] = f[1] /\ f[1] \in Refs
      BY <1>1
    <3>2. n = 0 => registry[0] = Nil
      BY <1>1
    <3>3. n # 0 => FreeHead(registry) = f[1]
      BY <1>1, <3>1 DEF FreeHead
    <3>4. n = 0 => FreeHead(registry) = 0
      BY <1>1, <3>2 DEF FreeHead
    <3>5. w[0] = IF n # 0 THEN f[1] ELSE 0
      BY <1>1
    <3>6. Hop(w)[0] = FreeHead(registry)
      OBVIOUS
    <3> HIDE DEF w, Hop
    <3>. QED  BY <2>1, <3>3, <3>4, <3>5, <3>6
  <2>2. CASE k # 0 /\ k - 1 < n
    <3>1. w[k - 1] = f[k] /\ f[k] \in Refs /\ f[k] # 0
      BY <1>1, <2>2
    <3>2. registry[f[k]] = IF k < n THEN f[k + 1] ELSE Nil
      BY <1>1, <2>2
    <3>3. k < n => f[k + 1] \in Refs
      BY <1>1, <2>2
    <3>. QED  BY <1>1, <2>2, <3>1, <3>2, <3>3
  <2>3. CASE k # 0 /\ ~(k - 1 < n)
    <3>1. w[k - 1] = 0 /\ w[k] = 0
      BY <1>1, <2>3
    <3>. QED  BY <2>3, <3>1
  <2>. QED  BY <2>1, <2>2, <2>3
<1> HIDE DEF w
<1>3. FreeHop = Hop(FreeHop)
  BY <1>2, Zenon DEF FreeHop
<1>4. \A k \in 0..MaxSlot : FreeHop[k] = w[k]
  <2> DEFINE Wrong == {k \in 0..MaxSlot : FreeHop[k] # w[k]}
  <2> SUFFICES ASSUME Wrong # {} PROVE FALSE
    OBVIOUS
  <2>1. Wrong \in SUBSET Nat
    OBVIOUS
  <2>2. PICK k \in Wrong : \A j \in Wrong : k <= j
    BY <2>1, LeastOf
  <2>3. k # 0 => FreeHop[k - 1] = w[k - 1]
    BY <2>2
  <2>4. FreeHop[k] = Hop(FreeHop)[k] /\ w[k] = Hop(w)[k]
    BY <1>2, <1>3
  <2>5. Hop(FreeHop)[k] = Hop(w)[k]
    BY <2>2, <2>3
  <2>. QED  BY <2>2, <2>4, <2>5
<1>. QED  BY <1>4 DEF w

\* The list is no longer than there are slots, so FreeHop gets to its end, and
\* every slot up to h that nobody uses is on it.
LEMMA ChainLosesNothing == IInv /\ ChainInv => NoSlotLost
<1> SUFFICES ASSUME IInv, ChainInv PROVE NoSlotLost
  OBVIOUS
<1>1. PICK f, n, h : FreeChain(f, n, h)
  BY DEF ChainInv
<1>2. /\ n \in Nat /\ h \in Reserved..MaxSlot
      /\ \A i \in 1..n : f[i] \in Refs \ Live
      /\ \A i, j \in 1..n : f[i] = f[j] => i = j
      /\ \A s \in Refs : s <= h <=> s \in Live \/ \E i \in 1..n : f[i] = s
      /\ \A s \in Refs : s > h => registry[s] = Nil
  BY <1>1 DEF FreeChain
<1>3. n <= MaxSlot
  <2> DEFINE g == [i \in 1..n |-> f[i]]
  <2>1. g \in Injection(1..n, 1..MaxSlot)
    BY <1>2 DEF Injection, IsInjective, Refs
  <2>2. IsFiniteSet(1..MaxSlot) /\ Cardinality(1..MaxSlot) = MaxSlot /\ Cardinality(1..n) = n
    BY <1>2, FS_Interval
  <2>. QED  BY <2>1, <2>2, FS_Injection
<1>4. \A k \in 0..MaxSlot : FreeHop[k] = IF k < n THEN f[k + 1] ELSE 0
  BY <1>1, FreeHopChain
<1>5. FreeHop[MaxSlot] = 0
  BY <1>2, <1>3, <1>4
<1>6. FreeList = {f[i] : i \in 1..n}
  <2>1. ASSUME NEW s \in FreeList PROVE s \in {f[i] : i \in 1..n}
    <3>1. PICK k \in 0..MaxSlot : s = FreeHop[k] /\ s # 0
      BY <2>1 DEF FreeList
    <3>2. k < n /\ s = f[k + 1]
      BY <1>4, <3>1
    <3>. QED  BY <1>2, <3>2
  <2>2. ASSUME NEW i \in 1..n PROVE f[i] \in FreeList
    <3>1. i - 1 \in 0..MaxSlot /\ i - 1 < n /\ (i - 1) + 1 = i
      BY <1>2, <1>3
    <3>2. FreeHop[i - 1] = f[i] /\ f[i] # 0
      BY <1>2, <1>4, <3>1 DEF Refs
    <3>. QED  BY <3>1, <3>2 DEF FreeList
  <2>. QED  BY <2>1, <2>2
<1>7. FreeList \cap Live = {}
  BY <1>2, <1>6
<1>8. ASSUME NEW r \in Refs \ Live, NEW s \in Refs, s >= r, registry[s] # Nil
      PROVE  r \in FreeList
  <2>1. s <= h
    BY <1>2, <1>8 DEF Refs
  <2>2. r <= h
    BY <1>2, <1>8, <2>1 DEF Refs
  <2>. QED  BY <1>2, <1>6, <2>2
<1>. QED  BY <1>5, <1>7, <1>8 DEF NoSlotLost

\* luaL_unref loses no slot and luaL_ref hands none out twice: the free list
\* ends, and the registry grows only when every slot up to its end is in use.
THEOREM SlotsSafe == Spec => []NoSlotLost
<1>1. Init => ChainInv
  BY InitChain
<1>2. Spec => []ChainInv
  BY <1>1, NextChain, Invariance, PTL DEF Spec
<1>. QED  BY <1>2, Invariance, ChainLosesNothing, PTL

-----------------------------------------------------------------------------
(* The search for the length of the registry.                              *)

\* f is what a loop of n turns goes through, from x on.
Loop(f, n, x, turn) ==
    \A k \in 0..n : f[k] = IF k = 0 THEN x ELSE turn[f[k - 1]]

LEMMA LoopRuns ==
    ASSUME NEW n \in Nat, NEW U, NEW x \in U, NEW turn \in [U -> U]
    PROVE  \E f \in [0..n -> U] : Loop(f, n, x, turn)
<1> DEFINE S == {m \in 0..n : ~ \E f \in [0..m -> U] : Loop(f, m, x, turn)}
<1>1. ASSUME S # {} PROVE FALSE
  <2>1. PICK m \in S : \A y \in S : m <= y
    <3>1. S \in SUBSET Nat
      OBVIOUS
    <3> HIDE DEF S
    <3>. QED BY <1>1, <3>1, LeastOf
  <2>2. m \in 0..n /\ ~ \E f \in [0..m -> U] : Loop(f, m, x, turn)
    BY <2>1
  <2>3. CASE m = 0
    <3> DEFINE f == [k \in 0..0 |-> x]
    <3>1. f \in [0..m -> U] /\ Loop(f, m, x, turn)
      BY <2>3 DEF Loop
    <3>. QED BY <2>2, <3>1
  <2>4. CASE m # 0
    <3>1. m - 1 \in 0..n /\ ~(m <= m - 1)
      BY <2>2, <2>4
    <3>2. PICK f \in [0..(m - 1) -> U] : Loop(f, m - 1, x, turn)
      BY <2>1, <3>1
    <3>3. f[m - 1] \in U /\ turn[f[m - 1]] \in U
      BY <3>1, <3>2
    <3> DEFINE h == [k \in 0..m |-> IF k = m THEN turn[f[m - 1]] ELSE f[k]]
    <3>4. h \in [0..m -> U]
      <4>1. \A k \in 0..m : k # m => k \in 0..(m - 1)
        BY <3>1
      <4>. QED BY <3>2, <3>3, <4>1
    <3>5. ASSUME NEW k \in 0..m
          PROVE  h[k] = IF k = 0 THEN x ELSE turn[h[k - 1]]
      <4>1. CASE k = m
        BY <2>4, <3>1, <4>1
      <4>2. CASE k # m
        <5>1. k \in 0..(m - 1) /\ h[k] = f[k]
          BY <3>1, <4>2
        <5>2. k # 0 => h[k - 1] = f[k - 1]
          BY <3>1, <4>2
        <5>. QED BY <3>2, <5>1, <5>2 DEF Loop
      <4>. QED BY <4>1, <4>2
    <3>6. Loop(h, m, x, turn)
      <4> HIDE DEF h
      <4>. QED BY <3>5 DEF Loop
    <3>. QED BY <2>2, <3>4, <3>6
  <2>. QED BY <2>3, <2>4
<1>2. n \notin S
  BY <1>1
<1>. QED BY <1>2

\* What each turn carries on holds after every one.
LEMMA LoopKeeps ==
    ASSUME NEW n \in Nat, NEW U, NEW x, NEW turn, NEW f, Loop(f, n, x, turn),
           NEW V \in [0..n -> SUBSET U], x \in V[0],
           \A k \in 1..n : \A y \in V[k - 1] : turn[y] \in V[k]
    PROVE  f[n] \in V[n]
<1> DEFINE S == {k \in 0..n : f[k] \notin V[k]}
<1>1. ASSUME S # {} PROVE FALSE
  <2>1. PICK k \in S : \A y \in S : k <= y
    <3>1. S \in SUBSET Nat
      OBVIOUS
    <3> HIDE DEF S
    <3>. QED BY <1>1, <3>1, LeastOf
  <2>2. CASE k = 0
    BY <2>1, <2>2 DEF Loop
  <2>3. CASE k # 0
    <3>1. k \in 1..n /\ k - 1 \in 0..n /\ ~(k <= k - 1)
      BY <2>1, <2>3
    <3>2. f[k - 1] \in V[k - 1]
      BY <2>1, <3>1
    <3>3. f[k] = turn[f[k - 1]]
      BY <3>1 DEF Loop
    <3>. QED BY <2>1, <3>1, <3>2, <3>3
  <2>. QED BY <2>2, <2>3
<1>. QED BY <1>1

-----------------------------------------------------------------------------
(* Powers of two, which the search probes first.                           *)

TwoToEq == /\ TwoTo[0] = 1
           /\ \A b \in 0..MaxSlot : TwoTo[b] \in Nat
           /\ \A b \in 1..MaxSlot : TwoTo[b] = 2 * TwoTo[b - 1]

LEMMA TwoToIs == TwoToEq
<1> DEFINE turn == [p \in Nat |-> 2 * p]
           Turn(f) == [b \in 0..MaxSlot |-> IF b = 0 THEN 1 ELSE 2 * f[b - 1]]
<1>1. PICK f \in [0..MaxSlot -> Nat] : Loop(f, MaxSlot, 1, turn)
  <2>1. turn \in [Nat -> Nat]
    OBVIOUS
  <2> HIDE DEF turn
  <2>. QED BY <2>1, LoopRuns
<1>2. f = Turn(f)
  <2>1. ASSUME NEW b \in 0..MaxSlot PROVE f[b] = IF b = 0 THEN 1 ELSE 2 * f[b - 1]
    <3>1. b # 0 => b - 1 \in 0..MaxSlot
      OBVIOUS
    <3>. QED BY <1>1, <3>1 DEF Loop
  <2>. QED BY <2>1
<1>3. TwoTo = Turn(TwoTo)
  BY <1>2, Zenon DEF TwoTo
<1>4. \A b \in 0..MaxSlot : TwoTo[b] = IF b = 0 THEN 1 ELSE 2 * TwoTo[b - 1]
  <2> DEFINE t == TwoTo
  <2>1. \A b \in 0..MaxSlot : Turn(t)[b] = IF b = 0 THEN 1 ELSE 2 * t[b - 1]
    OBVIOUS
  <2> HIDE DEF Turn
  <2>. QED BY <1>3, <2>1
<1>5. \A b \in 0..MaxSlot : TwoTo[b] \in Nat
  <2>1. ASSUME NEW b \in 0..MaxSlot PROVE TwoTo[b] \in Nat
    <3> DEFINE S == {c \in 0..MaxSlot : TwoTo[c] \notin Nat}
    <3>1. ASSUME S # {} PROVE FALSE
      <4>1. PICK c \in S : \A y \in S : c <= y
        <5>1. S \in SUBSET Nat
          OBVIOUS
        <5> HIDE DEF S
        <5>. QED BY <3>1, <5>1, LeastOf
      <4>2. c \in 0..MaxSlot /\ TwoTo[c] \notin Nat
        BY <4>1
      <4>3. c # 0
        BY <1>4, <4>2
      <4>4. c - 1 \in 0..MaxSlot /\ ~(c <= c - 1)
        BY <4>2, <4>3
      <4>5. TwoTo[c - 1] \in Nat
        BY <4>1, <4>4
      <4>6. TwoTo[c] = 2 * TwoTo[c - 1]
        BY <1>4, <4>2, <4>3
      <4>. QED BY <4>2, <4>5, <4>6
    <3>. QED BY <3>1
  <2>. QED BY <2>1
<1>. QED BY <1>4, <1>5 DEF TwoToEq

\* A smaller power is at most half of a greater one.
LEMMA PowersGrow ==
    ASSUME NEW b \in 0..MaxSlot, NEW c \in 0..MaxSlot, b < c
    PROVE  2 * TwoTo[b] <= TwoTo[c]
<1> DEFINE S == {d \in 0..MaxSlot : b < d /\ ~(2 * TwoTo[b] <= TwoTo[d])}
<1>1. ASSUME S # {} PROVE FALSE
  <2>1. PICK d \in S : \A y \in S : d <= y
    <3>1. S \in SUBSET Nat
      OBVIOUS
    <3> HIDE DEF S
    <3>. QED BY <1>1, <3>1, LeastOf
  <2>2. d \in 1..MaxSlot /\ d - 1 \in 0..MaxSlot /\ b < d /\ ~(2 * TwoTo[b] <= TwoTo[d]) /\ d - 1 \notin S
    BY <2>1
  <2>3. /\ TwoTo[b] \in Nat /\ TwoTo[d - 1] \in Nat /\ TwoTo[d] \in Nat
        /\ TwoTo[d] = 2 * TwoTo[d - 1]
    BY <2>2, TwoToIs DEF TwoToEq
  <2>4. CASE d = b + 1
    BY <2>2, <2>3, <2>4
  <2>5. CASE d # b + 1
    <3>1. 2 * TwoTo[b] <= TwoTo[d - 1]
      BY <2>2, <2>5
    <3>. QED BY <2>2, <2>3, <3>1
  <2>. QED BY <2>4, <2>5
<1>. QED BY <1>1

Powers == {TwoTo[b] : b \in 0..MaxSlot}

\* The middle between 0 and a power above Reserved is a power not below it.
LEMMA MiddleIsPower ==
    ASSUME NEW p \in Powers, p > Reserved
    PROVE  (0 + p) \div 2 \in Powers /\ (0 + p) \div 2 >= Reserved
<1>1. PICK c \in 0..MaxSlot : p = TwoTo[c]
  BY DEF Powers
<1>2. PICK b \in 0..MaxSlot : Reserved = TwoTo[b]
  BY PowerAssumption
<1>3. TwoTo[b] \in Nat /\ TwoTo[c] \in Nat
  BY TwoToIs DEF TwoToEq
<1>4. b < c
  <2>1. ASSUME ~(b < c) PROVE FALSE
    <3>1. c < b \/ c = b
      BY <2>1
    <3>2. c < b => 2 * TwoTo[c] <= TwoTo[b]
      BY PowersGrow
    <3>. QED BY <1>1, <1>2, <1>3, <3>1, <3>2
  <2>. QED BY <2>1
<1>5. /\ c \in 1..MaxSlot /\ c - 1 \in 0..MaxSlot
      /\ TwoTo[c] = 2 * TwoTo[c - 1] /\ TwoTo[c - 1] \in Nat
  BY <1>4, TwoToIs DEF TwoToEq
<1>6. (0 + p) \div 2 = TwoTo[c - 1]
  BY <1>1, <1>5
<1>7. TwoTo[b] <= TwoTo[c - 1]
  <2>1. 2 * TwoTo[b] <= TwoTo[c]
    BY <1>4, PowersGrow
  <2>. QED BY <1>3, <1>5, <2>1
<1>. QED BY <1>2, <1>5, <1>6, <1>7 DEF Powers

-----------------------------------------------------------------------------
(* The two loops.                                                          *)

Bounds == [lo : Nat, hi : Nat]

\* The last reserved slot is filled and no key is past the registry.
Registered(filled) == filled \subseteq 1..MaxSlot /\ Reserved \in filled

\* Between the bounds the keys go from filled to empty, and not below
\* Reserved: as long as slot 0 is the lower bound, powers are probed.
Brackets(filled, b) ==
    /\ b \in Bounds /\ b.lo < b.hi /\ b.hi \notin filled
    /\ \/ b.lo \in filled /\ b.lo >= Reserved
       \/ b.lo = 0 /\ b.hi \in Powers /\ b.hi > Reserved

LEMMA HalveBrackets ==
    ASSUME NEW filled, Registered(filled), NEW b, Brackets(filled, b)
    PROVE  LET h == Halve(filled, b)
           IN /\ Brackets(filled, h)
              /\ b.hi - b.lo <= 1 => h = b
              /\ b.hi - b.lo > 1 => h.hi - h.lo < b.hi - b.lo
<1> DEFINE mid == (b.lo + b.hi) \div 2
           h == Halve(filled, b)
<1>1. b \in Bounds /\ b.lo \in Nat /\ b.hi \in Nat /\ b.lo < b.hi /\ b.hi \notin filled
  BY DEF Brackets, Bounds
<1>2. mid \in Nat /\ (b.hi - b.lo > 1 => b.lo < mid /\ mid < b.hi)
  BY <1>1
<1>3. b.lo = 0 /\ b.hi \in Powers /\ b.hi > Reserved => mid \in Powers /\ mid >= Reserved
  <2> HIDE DEF mid
  <2>1. SUFFICES ASSUME b.lo = 0, b.hi \in Powers, b.hi > Reserved PROVE mid \in Powers /\ mid >= Reserved
    OBVIOUS
  <2>2. (0 + b.hi) \div 2 \in Powers /\ (0 + b.hi) \div 2 >= Reserved
    BY <2>1, MiddleIsPower
  <2>. QED BY <2>1, <2>2 DEF mid
<1> HIDE DEF mid
<1>4. CASE b.hi - b.lo <= 1
  <2>1. h = b
    BY <1>4 DEF Halve
  <2>. QED BY <1>1, <1>4, <2>1
<1>5. CASE b.hi - b.lo > 1 /\ mid \in filled
  <2>1. h = [b EXCEPT !.lo = mid]
    BY <1>1, <1>5 DEF Halve, mid
  <2>2. h = [lo |-> mid, hi |-> b.hi]
    BY <1>1, <2>1 DEF Bounds
  <2> HIDE DEF h
  <2>3. h \in Bounds /\ h.lo = mid /\ h.hi = b.hi
    BY <1>1, <1>2, <2>2 DEF Bounds
  <2>4. mid >= Reserved
    BY <1>1, <1>2, <1>3, <1>5 DEF Brackets
  <2>5. Brackets(filled, h)
    BY <1>1, <1>2, <1>5, <2>3, <2>4 DEF Brackets
  <2>6. h.hi - h.lo < b.hi - b.lo
    BY <1>1, <1>2, <1>5, <2>3
  <2>7. ~(b.hi - b.lo <= 1)
    BY <1>1, <1>5
  <2>. QED BY <2>5, <2>6, <2>7 DEF h
<1>6. CASE b.hi - b.lo > 1 /\ mid \notin filled
  <2>1. h = [b EXCEPT !.hi = mid]
    BY <1>1, <1>6 DEF Halve, mid
  <2>2. h = [lo |-> b.lo, hi |-> mid]
    BY <1>1, <2>1 DEF Bounds
  <2> HIDE DEF h
  <2>3. h \in Bounds /\ h.lo = b.lo /\ h.hi = mid
    BY <1>1, <1>2, <2>2 DEF Bounds
  <2>4. b.lo = 0 /\ b.hi \in Powers /\ b.hi > Reserved => mid > Reserved
    BY <1>2, <1>3, <1>6 DEF Registered
  <2>5. Brackets(filled, h)
    BY <1>1, <1>2, <1>3, <1>6, <2>3, <2>4 DEF Brackets
  <2>6. h.hi - h.lo < b.hi - b.lo
    BY <1>1, <1>2, <1>6, <2>3
  <2>7. ~(b.hi - b.lo <= 1)
    BY <1>1, <1>6
  <2>. QED BY <2>5, <2>6, <2>7 DEF h
<1>. QED BY <1>1, <1>4, <1>5, <1>6

\* The key that the binary search answers.
Border(filled, n) == n \in filled /\ n + 1 \notin filled /\ n >= Reserved

LEMMA HalveBounds ==
    ASSUME NEW filled, NEW b \in Bounds
    PROVE  Halve(filled, b) \in Bounds
<1> DEFINE mid == (b.lo + b.hi) \div 2
<1>1. b.lo \in Nat /\ b.hi \in Nat
  BY DEF Bounds
<1>2. mid \in Nat
  BY <1>1
<1> HIDE DEF mid
<1>3. \/ Halve(filled, b) = b
      \/ Halve(filled, b) = [b EXCEPT !.lo = mid]
      \/ Halve(filled, b) = [b EXCEPT !.hi = mid]
  BY DEF Halve, mid
<1>. QED BY <1>1, <1>2, <1>3 DEF Bounds

LEMMA SearchFinds ==
    ASSUME NEW filled, Registered(filled), NEW b, Brackets(filled, b)
    PROVE  Border(filled, Search(filled, b))
<1> DEFINE turn == [x \in Bounds |-> Halve(filled, x)]
           Turn(f) == [n \in 0..b.hi |-> IF n = 0 THEN b ELSE Halve(filled, f[n - 1])]
           after == CHOOSE f : f = Turn(f)
           V == [k \in 0..b.hi |->
                   {x \in Bounds : /\ Brackets(filled, x)
                                   /\ x.hi - x.lo <= 1 \/ (x.hi - x.lo) + k <= b.hi}]
<1>1. b \in Bounds /\ b.lo \in Nat /\ b.hi \in Nat
  BY DEF Brackets, Bounds
<1>2. PICK f \in [0..b.hi -> Bounds] : Loop(f, b.hi, b, turn)
  <2>1. turn \in [Bounds -> Bounds]
    BY HalveBounds
  <2> HIDE DEF turn
  <2>. QED BY <1>1, <2>1, LoopRuns
<1>3. f = Turn(f)
  <2>1. ASSUME NEW n \in 0..b.hi PROVE f[n] = IF n = 0 THEN b ELSE Halve(filled, f[n - 1])
    <3>1. n # 0 => n - 1 \in 0..b.hi /\ f[n - 1] \in Bounds
      BY <1>1, <1>2
    <3>. QED BY <1>2, <3>1 DEF Loop
  <2>. QED BY <1>2, <2>1
<1>4. after = Turn(after)
  BY <1>3, Zenon
<1>5. Search(filled, b) = after[b.hi].lo
  BY Zenon DEF Search
<1>6. \A n \in 0..b.hi : after[n] = IF n = 0 THEN b ELSE Halve(filled, after[n - 1])
  <2> HIDE DEF after
  <2> DEFINE T == Turn(after)
  <2>1. \A n \in 0..b.hi : T[n] = IF n = 0 THEN b ELSE Halve(filled, after[n - 1])
    OBVIOUS
  <2> HIDE DEF T
  <2>. QED BY <1>4, <2>1 DEF T
<1> HIDE DEF after
<1>7. \A n \in 0..b.hi : after[n] \in Bounds
  <2> DEFINE S == {n \in 0..b.hi : after[n] \notin Bounds}
  <2>1. ASSUME S # {} PROVE FALSE
    <3>1. PICK n \in S : \A y \in S : n <= y
      <4>1. S \in SUBSET Nat
        BY <1>1
      <4> HIDE DEF S
      <4>. QED BY <2>1, <4>1, LeastOf
    <3>2. n # 0 => after[n - 1] \in Bounds
      BY <1>1, <3>1
    <3>. QED BY <1>1, <1>6, <3>1, <3>2, HalveBounds
  <2>. QED BY <2>1
<1>8. Loop(after, b.hi, b, turn)
  <2>1. ASSUME NEW n \in 0..b.hi PROVE after[n] = IF n = 0 THEN b ELSE turn[after[n - 1]]
    <3>1. n # 0 => n - 1 \in 0..b.hi /\ after[n - 1] \in Bounds
      BY <1>1, <1>7
    <3>. QED BY <1>6, <3>1
  <2> HIDE DEF turn
  <2>. QED BY <2>1 DEF Loop
<1>9. b \in V[0]
  BY <1>1
<1>10. ASSUME NEW k \in 1..b.hi, NEW x \in V[k - 1]
       PROVE  turn[x] \in V[k]
  <2>1. k - 1 \in 0..b.hi /\ k \in 0..b.hi
    BY <1>1
  <2>2. x \in Bounds /\ Brackets(filled, x) /\ (x.hi - x.lo <= 1 \/ (x.hi - x.lo) + (k - 1) <= b.hi)
    BY <2>1
  <2> DEFINE h == Halve(filled, x)
  <2>3. h \in Bounds /\ turn[x] = h
    BY <2>2, HalveBounds
  <2>4. /\ Brackets(filled, h)
        /\ x.hi - x.lo <= 1 => h = x
        /\ x.hi - x.lo > 1 => h.hi - h.lo < x.hi - x.lo
    BY <2>2, HalveBrackets
  <2> HIDE DEF h, turn
  <2>5. x.hi \in Nat /\ x.lo \in Nat /\ h.hi \in Nat /\ h.lo \in Nat
    BY <2>2, <2>3 DEF Bounds
  <2>6. h.hi - h.lo <= 1 \/ (h.hi - h.lo) + k <= b.hi
    <3>1. CASE x.hi - x.lo <= 1
      <4>1. h = x
        BY <2>4, <3>1
      <4>. QED BY <3>1, <4>1
    <3>2. CASE ~(x.hi - x.lo <= 1)
      <4>1. h.hi - h.lo < x.hi - x.lo /\ (x.hi - x.lo) + (k - 1) <= b.hi
        BY <2>2, <2>4, <2>5, <3>2
      <4>. QED BY <1>1, <2>1, <2>5, <4>1
    <3>. QED BY <3>1, <3>2
  <2>7. h \in V[k]
    <3> HIDE DEF Brackets
    <3>. QED BY <2>1, <2>3, <2>4, <2>6
  <2>. QED BY <2>3, <2>7, Zenon
<1>11. V \in [0..b.hi -> SUBSET Bounds]
  OBVIOUS
<1>12. after[b.hi] \in V[b.hi]
  <2> HIDE DEF V, turn
  <2>. QED BY <1>1, <1>8, <1>9, <1>10, <1>11, LoopKeeps
<1>13. PICK e \in Bounds : /\ e = after[b.hi] /\ Brackets(filled, e)
                           /\ e.hi - e.lo <= 1 \/ (e.hi - e.lo) + b.hi <= b.hi
  BY <1>1, <1>12
<1>14. e.lo \in Nat /\ e.hi \in Nat /\ e.lo < e.hi /\ e.hi = e.lo + 1
  BY <1>1, <1>13 DEF Brackets, Bounds
<1>15. e.lo \in filled /\ e.lo >= Reserved /\ e.lo + 1 \notin filled
  BY <1>13, <1>14 DEF Brackets
<1>. QED BY <1>5, <1>13, <1>15 DEF Border

\* The key that the search for an upper bound gets past.
LEMMA LastKeyIs ==
    ASSUME NEW filled, Registered(filled)
    PROVE  LastKey(filled) \in Nat /\ \A j \in filled : j <= LastKey(filled)
<1> DEFINE S == {m \in Nat : \A j \in filled : j <= m}
<1>1. filled \subseteq Nat \ {0} /\ MaxSlot \in S /\ S \in SUBSET Nat
  BY DEF Registered
<1>2. PICK m \in S : \A y \in S : m <= y
  <2> HIDE DEF S
  <2>. QED BY <1>1, LeastOf
<1>3. m \in filled \cup {0}
  <2>1. ASSUME m \notin filled, m # 0 PROVE FALSE
    <3>1. m - 1 \in Nat /\ ~(m <= m - 1)
      BY <1>2, <2>1
    <3>2. \A j \in filled : j <= m - 1
      BY <1>1, <1>2, <2>1
    <3>. QED BY <1>2, <3>1, <3>2
  <2>. QED BY <2>1
<1>4. LastKey(filled) \in filled \cup {0} /\ \A j \in filled : j <= LastKey(filled)
  <2>1. \E k \in filled \cup {0} : \A j \in filled : j <= k
    BY <1>2, <1>3
  <2>. QED BY <2>1, Zenon DEF LastKey
<1>. QED BY <1>1, <1>4

LEMMA WidenedBrackets ==
    ASSUME NEW filled, Registered(filled),
           NEW last \in filled, last >= Reserved
    PROVE  Brackets(filled, Widened(filled, [lo |-> last, hi |-> last + 1]))
<1> DEFINE top == LastKey(filled)
           b == [lo |-> last, hi |-> last + 1]
           turn == [x \in Bounds |-> Widen(filled, x)]
           Turn(f) == [n \in 0..top |-> IF n = 0 THEN b ELSE Widen(filled, f[n - 1])]
           after == CHOOSE f : f = Turn(f)
           V == [k \in 0..top |->
                   {x \in Bounds : /\ x.lo \in filled /\ x.lo >= Reserved /\ x.lo < x.hi
                                   /\ x.hi \notin filled \/ x.hi > k}]
<1>0. top \in Nat /\ \A j \in filled : j <= top
  BY LastKeyIs
<1>1. top \in Nat /\ last \in Nat /\ b \in Bounds /\ b.lo = last /\ b.hi = last + 1
  <2>1. last \in Nat
    BY DEF Registered
  <2>. QED BY <1>0, <2>1 DEF Bounds
<1>2. ASSUME NEW x \in Bounds PROVE Widen(filled, x) \in Bounds
  BY DEF Bounds, Widen
<1> HIDE DEF top, b
<1>3. PICK f \in [0..top -> Bounds] : Loop(f, top, b, turn)
  <2>1. turn \in [Bounds -> Bounds]
    BY <1>2
  <2> HIDE DEF turn
  <2>. QED BY <1>1, <2>1, LoopRuns
<1>4. f = Turn(f)
  <2>1. ASSUME NEW n \in 0..top PROVE f[n] = IF n = 0 THEN b ELSE Widen(filled, f[n - 1])
    <3>1. n # 0 => n - 1 \in 0..top /\ f[n - 1] \in Bounds
      BY <1>1, <1>3
    <3>. QED BY <1>3, <3>1 DEF Loop
  <2>. QED BY <1>3, <2>1
<1>5. after = Turn(after)
  BY <1>4, Zenon
<1>6. Widened(filled, b) = after[top]
  BY Zenon DEF Widened, top
<1>7. \A n \in 0..top : after[n] = IF n = 0 THEN b ELSE Widen(filled, after[n - 1])
  <2> HIDE DEF after
  <2> DEFINE T == Turn(after)
  <2>1. \A n \in 0..top : T[n] = IF n = 0 THEN b ELSE Widen(filled, after[n - 1])
    OBVIOUS
  <2> HIDE DEF T
  <2>. QED BY <1>5, <2>1 DEF T
<1> HIDE DEF after
<1>8. \A n \in 0..top : after[n] \in Bounds
  <2> DEFINE S == {n \in 0..top : after[n] \notin Bounds}
  <2>1. ASSUME S # {} PROVE FALSE
    <3>1. PICK n \in S : \A y \in S : n <= y
      <4>1. S \in SUBSET Nat
        BY <1>1
      <4> HIDE DEF S
      <4>. QED BY <2>1, <4>1, LeastOf
    <3>2. n # 0 => after[n - 1] \in Bounds
      BY <1>1, <3>1
    <3>. QED BY <1>1, <1>2, <1>7, <3>1, <3>2
  <2>. QED BY <2>1
<1>9. Loop(after, top, b, turn)
  <2>1. ASSUME NEW n \in 0..top PROVE after[n] = IF n = 0 THEN b ELSE turn[after[n - 1]]
    <3>1. n # 0 => n - 1 \in 0..top /\ after[n - 1] \in Bounds
      BY <1>1, <1>8
    <3>. QED BY <1>7, <3>1
  <2> HIDE DEF turn
  <2>. QED BY <2>1 DEF Loop
<1>10. b \in V[0]
  BY <1>1
<1>11. ASSUME NEW k \in 1..top, NEW x \in V[k - 1]
       PROVE  turn[x] \in V[k]
  <2>1. k - 1 \in 0..top /\ k \in 0..top
    BY <1>1
  <2>2. /\ x \in Bounds /\ x.lo \in filled /\ x.lo >= Reserved /\ x.lo < x.hi
        /\ x.hi \notin filled \/ x.hi > k - 1
    BY <2>1
  <2>3. x.lo \in Nat /\ x.hi \in Nat /\ turn[x] = Widen(filled, x)
    BY <2>2 DEF Bounds
  <2> HIDE DEF turn
  <2>4. CASE x.hi \in filled
    <3> DEFINE w == [lo |-> x.hi, hi |-> 2 * x.hi]
    <3>1. turn[x] = w /\ w \in Bounds /\ w.lo = x.hi /\ w.hi = 2 * x.hi
      BY <2>3, <2>4 DEF Widen, Bounds
    <3> HIDE DEF w
    <3>2. w.lo \in filled /\ w.lo >= Reserved /\ w.lo < w.hi /\ w.hi > k
      BY <2>1, <2>2, <2>3, <2>4, <3>1
    <3>. QED BY <2>1, <3>1, <3>2
  <2>5. CASE x.hi \notin filled
    BY <2>1, <2>2, <2>3, <2>5 DEF Widen
  <2>. QED BY <2>4, <2>5
<1>12. V \in [0..top -> SUBSET Bounds]
  OBVIOUS
<1>13. after[top] \in V[top]
  <2> HIDE DEF V, turn
  <2>. QED BY <1>1, <1>9, <1>10, <1>11, <1>12, LoopKeeps
<1>14. PICK e \in Bounds : /\ e = after[top] /\ e.lo \in filled /\ e.lo >= Reserved /\ e.lo < e.hi
                           /\ e.hi \notin filled \/ e.hi > top
  BY <1>1, <1>13
<1>15. e.hi \notin filled
  <2>1. e.hi \in Nat
    BY <1>14 DEF Bounds
  <2>. QED BY <1>0, <1>1, <1>14, <2>1
<1>16. Brackets(filled, after[top])
  BY <1>14, <1>15 DEF Brackets
<1>. QED BY <1>6, <1>16 DEF b

\* What lj_tab_len finds for any way the keys lie in array and hash part.
LEMMA TabLenFinds ==
    ASSUME NEW filled, Registered(filled), NEW size \in ArrayParts
    PROVE  Border(filled, TabLen(filled, size))
<1>1. PICK b \in 0..MaxSlot : size = TwoTo[b] + 1 /\ Reserved < size
  BY DEF ArrayParts
<1> DEFINE last == size - 1
<1>2. last = TwoTo[b] /\ last \in Nat /\ last \in Powers /\ last >= Reserved
  BY <1>1, TwoToIs DEF TwoToEq, Powers
<1> HIDE DEF last
<1>3. CASE last \notin filled
  <2> DEFINE x == [lo |-> 0, hi |-> last]
  <2>1. x \in Bounds /\ x.lo = 0 /\ x.hi = last
    BY <1>2 DEF Bounds
  <2>2. last > Reserved
    BY <1>2, <1>3 DEF Registered
  <2>3. Brackets(filled, x)
    <3> HIDE DEF x
    <3>. QED BY <1>2, <1>3, <2>1, <2>2 DEF Brackets
  <2>4. TabLen(filled, size) = Search(filled, x)
    BY <1>3 DEF TabLen, last
  <2> HIDE DEF x
  <2>. QED BY <2>3, <2>4, SearchFinds
<1>4. CASE last \in filled
  <2> DEFINE x == Widened(filled, [lo |-> last, hi |-> last + 1])
  <2>1. Brackets(filled, x)
    BY <1>2, <1>4, WidenedBrackets
  <2>2. TabLen(filled, size) = Search(filled, x)
    BY <1>4 DEF TabLen, last
  <2> HIDE DEF x
  <2>. QED BY <2>1, <2>2, SearchFinds
<1>. QED BY <1>3, <1>4

\* lj_tab_len never stops among the slots that tolua reserved, although one
\* of them may be nil, because their number is a power of two: the registry
\* grows behind a slot in use.
THEOREM LengthSafe == Spec => []LengthSearched
<1>1. IInv => LengthSearched
  <2>1. SUFFICES ASSUME IInv, registry[MaxSlot] = Nil, NEW size \in ArrayParts
        PROVE  TabLen({s \in Slots \ {0} : registry[s] # Nil}, size) \in Lengths(registry)
    BY DEF LengthSearched
  <2> DEFINE filled == {s \in Slots \ {0} : registry[s] # Nil}
             n == TabLen(filled, size)
  <2>2. Registered(filled)
    BY <2>1 DEF IInv, Slots, Registered
  <2>3. \A k : k \in filled <=> k \in 1..MaxSlot /\ registry[k] # Nil
    BY DEF Slots
  <2> HIDE DEF filled
  <2>4. Border(filled, n)
    BY <2>1, <2>2, TabLenFinds
  <2> HIDE DEF n
  <2>5. n \in filled /\ n + 1 \notin filled /\ n >= Reserved
    BY <2>4 DEF Border
  <2>6. n \in 1..MaxSlot /\ n # MaxSlot /\ registry[n] # Nil
    BY <2>1, <2>3, <2>5
  <2>7. n \in 0..(MaxSlot - 1) /\ registry[n + 1] = Nil
    BY <2>3, <2>5, <2>6
  <2>8. n \in Lengths(registry)
    BY <2>5, <2>6, <2>7 DEF Lengths
  <2>. QED BY <2>8 DEF n, filled
<1>. QED BY <1>1, Invariance, PTL
=============================================================================
