------------------------ MODULE ConvertChunk_proofs ------------------------
(* Proofs about module ConvertChunk, for chunks of any number of            *)
(* prototypes and any number of conversions.                                *)
EXTENDS ConvertChunk, TLAPS

USE DEF chunk, work, heap

\* The parts of the invariant that need each other.
IInv0 == /\ TypeOK /\ PreparedOnce /\ BuffersAccounted /\ OnlyLeftoversSkip
         /\ RequestInv /\ RetryInv

\* Nothing is converted at first.
LEMMA InitInv == ASSUME Init PROVE IInv
<1>1. /\ NumProtos \in Nat \ {0} /\ MaxInserts \in Nat
      /\ None \notin Nat /\ None \notin BufferIds
  BY ChunkAssumption
<1>2. TypeOK
  <2>1. /\ 0 \in 0..MaxInserts /\ 0 \in 0..NumProtos
    BY <1>1
  <2>2. needs \in [Protos -> 0..MaxInserts] /\ prepared \in [Protos -> Nat]
    BY <2>1 DEF Init
  <2>3. /\ targetFr2 \in BOOLEAN /\ sourceFr2 \in BOOLEAN /\ message \in BOOLEAN
        /\ stale \in BOOLEAN
    BY DEF Init
  <2>. QED  BY <2>1, <2>2, <2>3 DEF Init, TypeOK
<1>. QED  BY <1>1, <1>2 DEF Init, IInv, PreparedOnce, BuffersAccounted, OnlyLeftoversSkip,
                  FailureExplained, HeaderLast,
                  RequestInv, RetryInv, Protos

\* A call starts from a clean slate, but for the request.
LEMMA CallInv ==
    ASSUME IInv, NEW v \in Versions, NEW target \in BOOLEAN, NEW source \in BOOLEAN,
           NEW n \in [Protos -> 0..MaxInserts], Call(v, target, source, n)
    PROVE  IInv0'
<1>1. /\ NumProtos \in Nat \ {0} /\ MaxInserts \in Nat
      /\ None \notin Nat /\ None \notin BufferIds
  BY ChunkAssumption
<1>2. TypeOK'
  <2>1. 0 \in 0..NumProtos
    BY <1>1
  <2>2. prepared' \in [Protos -> Nat]
    BY DEF Call
  <2>3. /\ message' \in BOOLEAN /\ targetFr2' \in BOOLEAN /\ sourceFr2' \in BOOLEAN
        /\ stale' \in BOOLEAN
    BY DEF Call
  <2>4. /\ live' \subseteq BufferIds /\ handle' \in BufferIds \cup {None}
        /\ buf' \in BufferIds \cup {None} /\ phase' \in {"header", "idle"}
        /\ answer' \in {"none", "chunk", "null"}
    BY DEF Call, IInv, TypeOK
  <2>. QED  BY <2>1, <2>2, <2>3, <2>4 DEF Call, IInv, TypeOK
<1>3. (PreparedOnce /\ RetryInv /\ OnlyLeftoversSkip /\ RequestInv)'
  BY <1>1 DEF Call, PreparedOnce, RetryInv, OnlyLeftoversSkip, RequestInv, Protos
<1>4. BuffersAccounted'
  BY <1>1 DEF Call, IInv, TypeOK, BuffersAccounted
<1>. QED  BY <1>2, <1>3, <1>4 DEF IInv0

\* What tolua_convertbytecodeex does at the end, and its caller afterwards.
LEMMA ReturnInv ==
    ASSUME IInv, ReturnFailure \/ ReturnChunk \/ \E b \in BufferIds : Release(b)
    PROVE  IInv0'
<1>1. /\ NumProtos \in Nat \ {0} /\ MaxInserts \in Nat
      /\ None \notin Nat /\ None \notin BufferIds
  BY ChunkAssumption
<1>2. TypeOK'
  BY <1>1 DEF ReturnFailure, ReturnChunk, Release, IInv, TypeOK, BuffersAccounted
<1>3. (PreparedOnce /\ RetryInv /\ OnlyLeftoversSkip /\ RequestInv)'
  BY DEF ReturnFailure, ReturnChunk, Release, IInv, PreparedOnce, RetryInv,
         OnlyLeftoversSkip, RequestInv, WindowPath, Prepares
<1>4. BuffersAccounted'
  BY <1>1 DEF ReturnFailure, ReturnChunk, Release, IInv, TypeOK, BuffersAccounted
<1>. QED  BY <1>2, <1>3, <1>4 DEF IInv0

\* The header: only here the request of an earlier conversion is dropped.
LEMMA CheckHeaderInv == ASSUME IInv, CheckHeader PROVE IInv0'
<1>1. /\ NumProtos \in Nat \ {0} /\ MaxInserts \in Nat
      /\ None \notin Nat /\ None \notin BufferIds
  BY ChunkAssumption
<1>2. TypeOK'
  BY ZenonT(60) DEF CheckHeader, Fail, IInv, TypeOK
<1>3. PreparedOnce'
  <2>1. proto = 0 /\ retry = None /\ \A p \in Protos : prepared[p] = 0
    BY <1>1 DEF CheckHeader, IInv, RetryInv, Protos
  <2>. QED  BY <1>1, <2>1 DEF CheckHeader, PreparedOnce, Protos
<1>4. (RetryInv /\ OnlyLeftoversSkip /\ RequestInv)'
  BY <1>1 DEF CheckHeader, Fail, IInv, RetryInv, OnlyLeftoversSkip, RequestInv, WindowPath
<1>5. BuffersAccounted'
  BY DEF CheckHeader, Fail, IInv, BuffersAccounted
<1>. QED  BY <1>2, <1>3, <1>4, <1>5 DEF IInv0

\* The preparation of a prototype in the loop counts it once.
LEMMA PrepareOnce ==
    ASSUME IInv, phase = "loop", proto < NumProtos, Prepare
    PROVE  /\ prepared' \in [Protos -> Nat]
           /\ \A p \in Protos : p # proto => prepared'[p] = prepared[p]
           /\ \A p \in Protos : prepared'[p] <= 1
           /\ proto \in Protos
           /\ prepared'[proto] = IF Prepares THEN 1 ELSE 0
           /\ \A p \in Protos : p > proto => prepared'[p] = 0
           /\ \A p \in Protos :
                 p < proto + 1 => prepared'[p] = IF Prepares THEN 1 ELSE 0
<1>1. /\ NumProtos \in Nat \ {0} /\ None \notin Nat
  BY ChunkAssumption
<1>2. /\ proto \in Protos /\ prepared \in [Protos -> Nat]
      /\ \A p \in Protos : p \in Nat
  BY <1>1 DEF IInv, TypeOK, Protos
<1>3. \A p \in Protos : prepared[p] <= 1
  BY DEF IInv, PreparedOnce
<1>4. retry # proto => prepared[proto] = 0
  BY <1>2 DEF IInv, RetryInv
<1>5. retry = proto => prepared[proto] = 1
  BY <1>2 DEF IInv, PreparedOnce
<1>6. retry = proto => Prepares
  BY <1>1, <1>2 DEF IInv, RetryInv, Prepares, Protos
<1>7. /\ prepared' \in [Protos -> Nat]
      /\ \A p \in Protos : p # proto => prepared'[p] = prepared[p]
      /\ \A p \in Protos : prepared'[p] <= 1
      /\ proto \in Protos
      /\ prepared'[proto] = IF Prepares THEN 1 ELSE 0
  BY <1>2, <1>3, <1>4, <1>5, <1>6 DEF Prepare
<1>8. ASSUME NEW p \in Protos, p > proto PROVE prepared'[p] = 0
  <2>1. p # proto /\ prepared[p] = 0
    BY <1>2, <1>8 DEF IInv, RetryInv
  <2>. QED  BY <1>7, <2>1
<1>9. ASSUME NEW p \in Protos, p < proto + 1
      PROVE  prepared'[p] = IF Prepares THEN 1 ELSE 0
  <2>1. CASE p = proto
    BY <1>7, <2>1
  <2>2. CASE p # proto
    <3>1. p < proto
      BY <1>2, <1>9, <2>2
    <3>. QED  BY <1>7, <2>2, <3>1 DEF IInv, PreparedOnce
  <2>. QED  BY <2>1, <2>2
<1>. QED  BY <1>7, <1>8, <1>9

\* A prototype fails, or asks for copies.
LEMMA PatchStopsInv ==
    ASSUME IInv, PatchFails \/ PatchSchedules
    PROVE  IInv0'
<1>1. /\ NumProtos \in Nat \ {0} /\ None \notin Nat /\ None \notin BufferIds
  BY ChunkAssumption
<1>2. phase = "loop" /\ proto < NumProtos /\ Prepare
  BY DEF PatchFails, PatchSchedules
<1>3. /\ prepared' \in [Protos -> Nat]
      /\ \A p \in Protos : p # proto => prepared'[p] = prepared[p]
      /\ \A p \in Protos : prepared'[p] <= 1
      /\ proto \in Protos
      /\ prepared'[proto] = IF Prepares THEN 1 ELSE 0
      /\ \A p \in Protos : p > proto => prepared'[p] = 0
      /\ \A p \in Protos :
            p < proto + 1 => prepared'[p] = IF Prepares THEN 1 ELSE 0
  BY <1>2, PrepareOnce
<1>4. /\ UNCHANGED <<chunk, needs, proto, retry, skipped, heap, header, answer>>
      /\ phase' \in {"failed", "rebuild"} /\ message' \in BOOLEAN
      /\ pending' \in {pending, proto}
      /\ phase' = "rebuild" => pending' = proto /\ targetFr2 /\ needs[proto] > 0
  BY DEF PatchFails, PatchSchedules, Fail, IInv, TypeOK
<1>5. TypeOK'
  BY <1>3, <1>4 DEF IInv, TypeOK
<1>6. PreparedOnce'
  <2>1. \A p \in Protos : p < proto => prepared'[p] = IF Prepares THEN 1 ELSE 0
    BY <1>1, <1>3 DEF Protos
  <2>2. Prepares' = Prepares
    BY <1>4 DEF Prepares
  <2>3. \A p \in Protos : retry = p => prepared'[p] = 1
    BY <1>1, <1>3 DEF IInv, RetryInv, Prepares, Protos
  <2>. QED  BY <1>3, <1>4, <2>1, <2>2, <2>3 DEF PreparedOnce
<1>7. BuffersAccounted'
  BY <1>2, <1>4 DEF IInv, BuffersAccounted
<1>8. OnlyLeftoversSkip' /\ RequestInv'
  BY <1>2, <1>4 DEF IInv, OnlyLeftoversSkip, RequestInv, WindowPath
<1>9. RetryInv'
  <2>1. \A p \in Protos : p > proto => prepared'[p] = 0
    BY <1>3
  <2>2. phase' = "rebuild" => prepared'[proto] = 1
    BY <1>3, <1>4 DEF Prepares
  <2>. QED  BY <1>4, <2>1, <2>2 DEF IInv, RetryInv
<1>. QED  BY <1>5, <1>6, <1>7, <1>8, <1>9 DEF IInv0

\* A prototype is done, with the copies it needs or, on the window path only,
\* without them.
LEMMA PatchGoesOnInv ==
    ASSUME IInv, PatchDone \/ PatchSkips
    PROVE  IInv0'
<1>1. /\ NumProtos \in Nat \ {0} /\ None \notin Nat /\ None \notin BufferIds
  BY ChunkAssumption
<1>2. phase = "loop" /\ proto < NumProtos /\ Prepare
  BY DEF PatchDone, PatchSkips
<1>3. /\ prepared' \in [Protos -> Nat]
      /\ \A p \in Protos : p # proto => prepared'[p] = prepared[p]
      /\ \A p \in Protos : prepared'[p] <= 1
      /\ proto \in Protos
      /\ prepared'[proto] = IF Prepares THEN 1 ELSE 0
      /\ \A p \in Protos : p > proto => prepared'[p] = 0
      /\ \A p \in Protos :
            p < proto + 1 => prepared'[p] = IF Prepares THEN 1 ELSE 0
  BY <1>2, PrepareOnce
<1>4. /\ UNCHANGED <<chunk, needs, pending, heap, header, answer>>
      /\ \/ phase' = "loop" /\ proto' = proto + 1
            /\ retry' = (IF retry = proto THEN None ELSE retry)
         \/ phase' = "failed" /\ proto' = proto /\ retry' = retry
      /\ message' \in BOOLEAN
      /\ skipped' \in {skipped, skipped \cup {proto}}
      /\ skipped' = skipped \/ (WindowPath /\ stale)
  BY DEF PatchDone, PatchSkips, Fail, IInv, TypeOK, RequestInv
<1>5. retry' # None => retry' = retry /\ proto' = proto
  BY <1>1, <1>4 DEF IInv, RetryInv
<1>6. proto \in Nat /\ proto' \in 0..NumProtos
  BY <1>1, <1>3, <1>4 DEF Protos
<1>7. TypeOK'
  BY <1>3, <1>4, <1>5, <1>6 DEF IInv, TypeOK
<1>8. PreparedOnce'
  <2>1. \A p \in Protos : p < proto' => prepared'[p] = IF Prepares THEN 1 ELSE 0
    BY <1>1, <1>3, <1>4, <1>6 DEF Protos
  <2>2. Prepares' = Prepares
    BY <1>4 DEF Prepares
  <2>3. \A p \in Protos : retry' = p => prepared'[p] = 1
    BY <1>1, <1>3, <1>5 DEF IInv, RetryInv, Prepares, Protos
  <2>. QED  BY <1>3, <2>1, <2>2, <2>3 DEF PreparedOnce
<1>9. BuffersAccounted'
  BY <1>2, <1>4 DEF IInv, BuffersAccounted
<1>10. OnlyLeftoversSkip' /\ RequestInv'
  BY <1>2, <1>4 DEF IInv, OnlyLeftoversSkip, RequestInv, WindowPath
<1>11. RetryInv'
  <2>1. \A p \in Protos : p > proto => prepared'[p] = 0
    BY <1>3
  <2>2. phase' = "loop" => \A p \in Protos : p = proto' => prepared'[p] = 0
    BY <1>4, <1>6, <2>1
  <2>3. \A p \in Protos : p > proto' => prepared'[p] = 0
    BY <1>4, <1>6, <2>1 DEF Protos
  <2>4. retry' \in {None, proto'} /\ (retry' # None => targetFr2')
    BY <1>4, <1>5 DEF IInv, RetryInv
  <2>5. phase' \in {"loop", "failed"}
    BY <1>4
  <2>. QED  BY <2>2, <2>3, <2>4, <2>5 DEF RetryInv
<1>. QED  BY <1>7, <1>8, <1>9, <1>10, <1>11 DEF IInv0

\* The chunk is built again, or not.
LEMMA RebuildInv == ASSUME IInv, Rebuild PROVE IInv0'
<1>1. /\ NumProtos \in Nat \ {0} /\ MaxInserts \in Nat
      /\ None \notin Nat /\ None \notin BufferIds
  BY ChunkAssumption
<1>2. /\ phase = "rebuild" /\ proto \in Protos /\ proto \in Nat /\ targetFr2
      /\ prepared[proto] = 1
  BY <1>1 DEF Rebuild, RebuildSucceeds, RebuildFails, IInv, TypeOK, RequestInv, RetryInv, Protos
<1>3. CASE RebuildFails
  <2>1. (TypeOK /\ PreparedOnce /\ BuffersAccounted)'
    BY <1>3 DEF RebuildFails, IInv, TypeOK, PreparedOnce, BuffersAccounted, Prepares
  <2>2. (OnlyLeftoversSkip /\ RequestInv /\ RetryInv)'
    BY <1>3 DEF RebuildFails, IInv, OnlyLeftoversSkip, RequestInv, RetryInv, WindowPath
  <2>. QED  BY <2>1, <2>2 DEF IInv0
<1>4. CASE RebuildSucceeds /\ needs[proto] \in Nat /\ needs[proto] > 0
  <2>1. needs' \in [Protos -> 0..MaxInserts]
    BY <1>1, <1>2, <1>4 DEF RebuildSucceeds, IInv, TypeOK
  <2>2. TypeOK'
    BY <1>1, <1>2, <1>4, <2>1 DEF RebuildSucceeds, IInv, TypeOK
  <2>3. PreparedOnce'
    BY <1>2, <1>4 DEF RebuildSucceeds, IInv, PreparedOnce, Prepares
  <2>4. BuffersAccounted'
    BY <1>1, <1>4 DEF RebuildSucceeds, IInv, TypeOK, BuffersAccounted
  <2>5. (OnlyLeftoversSkip /\ RequestInv)'
    BY <1>2, <1>4 DEF RebuildSucceeds, IInv, OnlyLeftoversSkip, RequestInv, WindowPath
  <2>6. RetryInv'
    BY <1>2, <1>4 DEF RebuildSucceeds, IInv, RetryInv
  <2>. QED  BY <2>2, <2>3, <2>4, <2>5, <2>6 DEF IInv0
<1>5. RebuildSucceeds => needs[proto] \in Nat /\ needs[proto] > 0
  BY <1>1, <1>2 DEF IInv, RequestInv, TypeOK, RebuildSucceeds
<1>. QED  BY <1>3, <1>4, <1>5 DEF Rebuild

\* The end of the prototypes.
LEMMA FinishInv == ASSUME IInv, Finish PROVE IInv0'
<1>1. (TypeOK /\ PreparedOnce /\ BuffersAccounted)'
  BY DEF Finish, IInv, TypeOK, PreparedOnce, BuffersAccounted, Prepares
<1>2. (OnlyLeftoversSkip /\ RequestInv /\ RetryInv)'
  BY DEF Finish, IInv, OnlyLeftoversSkip, RequestInv, RetryInv, WindowPath
<1>. QED  BY <1>1, <1>2 DEF IInv0

\* The answers and the header, which every step keeps for itself.
LEMMA AnswersInv ==
    ASSUME IInv, [Next]_vars
    PROVE  (FailureExplained /\ HeaderLast)'
<1>1. NumProtos \in Nat \ {0} /\ proto \in 0..NumProtos
  BY ChunkAssumption DEF IInv, TypeOK
<1> USE <1>1 DEF IInv, FailureExplained, HeaderLast
<1>2. CASE UNCHANGED vars
  BY <1>2 DEF vars
<1>3. ASSUME NEW v \in Versions, NEW target \in BOOLEAN, NEW source \in BOOLEAN,
             NEW n \in [Protos -> 0..MaxInserts], Call(v, target, source, n)
      PROVE  (FailureExplained /\ HeaderLast)'
  BY <1>3 DEF Call
<1>4. CASE ReturnFailure \/ ReturnChunk \/ \E b \in BufferIds : Release(b)
  BY <1>4 DEF ReturnFailure, ReturnChunk, Release
<1>5. CASE CheckHeader \/ PatchFails \/ PatchSchedules
  BY <1>5 DEF CheckHeader, Fail, PatchFails, PatchSchedules
<1>6. CASE PatchSkips \/ PatchDone
  BY <1>6 DEF Fail, PatchSkips, PatchDone
<1>7. CASE Rebuild \/ Finish
  BY <1>7 DEF Rebuild, RebuildSucceeds, RebuildFails, Finish
<1>. QED  BY <1>2, <1>3, <1>4, <1>5, <1>6, <1>7 DEF Next, Calling, Converting

\* Every step keeps the invariant.
LEMMA NextInv == ASSUME IInv, [Next]_vars PROVE IInv'
<1>0. SUFFICES IInv0'
  BY AnswersInv DEF IInv, IInv0
<1>1. CASE UNCHANGED vars
  BY <1>1 DEF vars, IInv, IInv0, TypeOK, PreparedOnce, BuffersAccounted, OnlyLeftoversSkip,
             RequestInv, RetryInv, WindowPath, Prepares
<1>2. CASE Calling
  BY <1>2, CallInv DEF Calling
<1>3. CASE ReturnFailure \/ ReturnChunk \/ \E b \in BufferIds : Release(b)
  BY <1>3, ReturnInv
<1>4. CASE CheckHeader
  BY <1>4, CheckHeaderInv
<1>5. CASE PatchFails \/ PatchSchedules
  BY <1>5, PatchStopsInv
<1>6. CASE PatchDone \/ PatchSkips
  BY <1>6, PatchGoesOnInv
<1>7. CASE Rebuild
  BY <1>7, RebuildInv
<1>8. CASE Finish
  BY <1>8, FinishInv
<1>. QED  BY <1>1, <1>2, <1>3, <1>4, <1>5, <1>6, <1>7, <1>8 DEF Next, Converting

\* The invariant holds throughout.
THEOREM Invariance == Spec => []IInv
<1>1. Init => IInv
  BY InitInv
<1>2. IInv /\ [Next]_vars => IInv'
  BY NextInv
<1>. QED  BY <1>1, <1>2, PTL DEF Spec

\* However many prototypes ask for copies however often, the opcodes of each
\* are translated once (retry_proto_index, retry_proto_prepared).
THEOREM PreparationSafe == Spec => []PreparedOnce
<1>1. IInv => PreparedOnce
  BY DEF IInv
<1>. QED  BY <1>1, Invariance, PTL

\* No buffer is lost or freed twice (buf_io and the free of both functions).
THEOREM BuffersSafe == Spec => []BuffersAccounted
<1>1. IInv => BuffersAccounted
  BY DEF IInv
<1>. QED  BY <1>1, Invariance, PTL

\* Copies are left out only where a failed conversion left its request
\* behind (tolua_clear_pending_insert_copy is not called on the window path).
THEOREM LeftoversSafe == Spec => []OnlyLeftoversSkip
<1>1. IInv => OnlyLeftoversSkip
  BY DEF IInv
<1>. QED  BY <1>1, Invariance, PTL

\* Every failure has its text, whatever failed (tolua_failbytecode and the
\* text that tolua_convertbytecodeex supplies).
THEOREM FailuresExplained == Spec => []FailureExplained
<1>1. IInv => FailureExplained
  BY DEF IInv
<1>. QED  BY <1>1, Invariance, PTL

\* No chunk is half converted and marked as FR2.
THEOREM HeaderSafe == Spec => []HeaderLast
<1>1. IInv => HeaderLast
  BY DEF IInv
<1>. QED  BY <1>1, Invariance, PTL

\* The variables keep their types.
THEOREM TypeCorrect == Spec => []TypeOK
<1>1. IInv => TypeOK
  BY DEF IInv
<1>. QED  BY <1>1, Invariance, PTL

\* The steps of a prototype more.
LEMMA OneMore ==
    ASSUME NEW a \in Nat \ {0}, NEW k \in Nat
    PROVE  /\ a * k \in Nat /\ (a - 1) * k \in Nat
           /\ a * k = (a - 1) * k + k
<1>1. a * k \in Nat /\ (a - 1) * k \in Nat
  BY SMT
<1>2. a * k = (a - 1) * k + k
  BY SMT
<1>. QED  BY <1>1, <1>2

\* At a prototype there are steps to come for it and for the ones behind it.
LEMMA RestOfRow ==
    ASSUME IInv, proto < NumProtos
    PROVE  /\ proto \in Protos /\ needs[proto] \in 0..MaxInserts
           /\ (NumProtos - proto - 1) * StepsOfOne \in Nat
           /\ StepsOfRest = (NumProtos - proto - 1) * StepsOfOne + 2 * needs[proto] + 1
           /\ StepsOfRest \in Nat /\ StepsOfRest > 0
<1>1. NumProtos \in Nat /\ MaxInserts \in Nat /\ proto \in Nat
  BY ChunkAssumption DEF IInv, TypeOK
<1>2. proto \in Protos /\ needs[proto] \in 0..MaxInserts
  BY <1>1 DEF IInv, TypeOK, Protos
<1>3. StepsOfOne \in Nat /\ NumProtos - proto \in Nat \ {0}
  BY <1>1 DEF StepsOfOne
<1>4. (NumProtos - proto - 1) * StepsOfOne \in Nat
  BY <1>3, OneMore
<1>5. StepsOfRest = (NumProtos - proto - 1) * StepsOfOne + 2 * needs[proto] + 1
  BY DEF StepsOfRest
<1>6. needs[proto] \in Nat
  BY <1>1, <1>2
<1>7. StepsOfRest \in Nat /\ StepsOfRest > 0
  <2>. DEFINE behind == (NumProtos - proto - 1) * StepsOfOne
  <2>1. behind \in Nat /\ StepsOfRest = behind + 2 * needs[proto] + 1
    BY <1>4, <1>5
  <2>. HIDE DEF behind
  <2>. QED  BY <1>6, <2>1
<1>. QED  BY <1>2, <1>4, <1>5, <1>7

\* The bound is a number in every state of a conversion.
LEMMA StepsCount == IInv => StepsLeft \in Nat
<1>. SUFFICES ASSUME IInv PROVE StepsLeft \in Nat
  OBVIOUS
<1>1. /\ NumProtos \in Nat \ {0} /\ MaxInserts \in Nat
      /\ phase \in {"idle", "header", "loop", "rebuild", "failed", "ok"}
  BY ChunkAssumption DEF IInv, TypeOK
<1>2. StepsOfRest \in Nat
  <2>1. CASE proto < NumProtos
    BY <2>1, RestOfRow
  <2>2. CASE ~(proto < NumProtos)
    BY <2>2 DEF StepsOfRest
  <2>. QED  BY <2>1, <2>2
<1>3. NumProtos * StepsOfOne \in Nat
  <2>1. StepsOfOne \in Nat
    BY <1>1 DEF StepsOfOne
  <2>. QED  BY <1>1, <2>1, OneMore
<1>. QED  BY <1>1, <1>2, <1>3 DEF StepsLeft

\* The next prototype and all behind it take no more steps than the last one
\* that was taken leaves for them.
LEMMA RestBehind ==
    ASSUME NEW k \in Nat, NEW m \in Nat, k <= m, NEW a \in Nat \ {0}
    PROVE  (a - 1) * (2 * m + 1) + 2 * k + 1 <= a * (2 * m + 1)
<1>1. a * (2 * m + 1) = (a - 1) * (2 * m + 1) + (2 * m + 1)
  BY OneMore, 2 * m + 1 \in Nat
<1>2. (a - 1) * (2 * m + 1) \in Nat
  BY OneMore, 2 * m + 1 \in Nat
<1>. QED  BY <1>1, <1>2

\* Every step of a conversion lowers it.
LEMMA StepsFall ==
    ASSUME IInv, Next, phase # "idle"
    PROVE  StepsLeft' < StepsLeft
<1>1. /\ NumProtos \in Nat \ {0} /\ MaxInserts \in Nat /\ proto \in 0..NumProtos
  BY ChunkAssumption DEF IInv, TypeOK
<1>2. proto < NumProtos =>
          /\ proto \in Protos /\ needs[proto] \in Nat /\ needs[proto] <= MaxInserts
          /\ StepsOfRest \in Nat /\ StepsOfRest > 0
  BY <1>1, RestOfRow
<1>3. CASE CheckHeader
  <2>1. /\ phase = "header" /\ proto = 0 /\ 0 \in Protos
    BY <1>1, <1>3 DEF CheckHeader, IInv, RetryInv, Protos
  <2>2. StepsLeft = NumProtos * StepsOfOne + 3 /\ NumProtos * StepsOfOne \in Nat
    BY <1>1, <2>1, OneMore, StepsOfOne \in Nat DEF StepsLeft, StepsOfOne
  <2>3. StepsOfRest <= NumProtos * StepsOfOne /\ StepsOfRest \in Nat
    <3>1. StepsOfRest = (NumProtos - 1) * StepsOfOne + 2 * needs[0] + 1
      BY <1>1, <2>1, RestOfRow
    <3>. QED  BY <1>1, <1>2, <2>1, <3>1, RestBehind DEF StepsOfOne
  <2>4. /\ phase' \in {"failed", "ok", "loop"}
        /\ StepsOfRest' = StepsOfRest
    BY <1>3 DEF CheckHeader, Fail, StepsOfRest, StepsOfOne
  <2>5. StepsLeft' \in {1, StepsOfRest' + 2}
    BY <2>4 DEF StepsLeft
  <2>. DEFINE whole == NumProtos * StepsOfOne
  <2>6. whole \in Nat /\ StepsLeft = whole + 3 /\ StepsOfRest <= whole
    BY <2>2, <2>3
  <2>. HIDE DEF whole
  <2>. QED  BY <2>3, <2>4, <2>5, <2>6
<1>4. CASE PatchFails \/ PatchSchedules
  <2>1. /\ phase = "loop" /\ phase' \in {"failed", "rebuild"} /\ proto < NumProtos
        /\ StepsOfRest' = StepsOfRest
    BY <1>4 DEF PatchFails, PatchSchedules, Fail, StepsOfRest, StepsOfOne
  <2>. QED  BY <1>2, <2>1 DEF StepsLeft
<1>5. CASE PatchSkips \/ PatchDone
  <2>1. /\ phase = "loop" /\ proto < NumProtos
        /\ \/ phase' = "failed"
           \/ phase' = "loop" /\ proto' = proto + 1 /\ needs' = needs
    BY <1>5 DEF PatchSkips, PatchDone, Fail
  <2>2. CASE phase' = "failed"
    BY <1>2, <2>1, <2>2 DEF StepsLeft
  <2>3. CASE phase' = "loop" /\ proto' = proto + 1 /\ needs' = needs
    <3>1. StepsLeft = StepsOfRest + 2 /\ StepsLeft' = StepsOfRest' + 2
      BY <2>1, <2>3 DEF StepsLeft
    <3>2. CASE proto + 1 < NumProtos
      <4>. DEFINE a == NumProtos - proto - 1
      <4>1. /\ a \in Nat \ {0} /\ proto + 1 \in Protos
            /\ NumProtos - (proto + 1) - 1 = a - 1
        BY <1>1, <3>2 DEF Protos
      <4>2. needs[proto + 1] \in Nat /\ needs[proto + 1] <= MaxInserts
        BY <1>1, <4>1 DEF IInv, TypeOK
      <4>3. StepsOfRest = a * StepsOfOne + 2 * needs[proto] + 1
        BY <2>1, RestOfRow
      <4>4. StepsOfRest' = (a - 1) * StepsOfOne + 2 * needs[proto + 1] + 1
        BY <2>3, <3>2, <4>1 DEF StepsOfRest, StepsOfOne
      <4>5. StepsOfRest' <= a * StepsOfOne
        BY <1>1, <4>1, <4>2, <4>4, RestBehind DEF StepsOfOne
      <4>6. a * StepsOfOne \in Nat /\ StepsOfRest' \in Nat
        <5>1. StepsOfOne \in Nat
          BY <1>1 DEF StepsOfOne
        <5>2. a * StepsOfOne \in Nat /\ (a - 1) * StepsOfOne \in Nat
          BY <4>1, <5>1, OneMore
        <5>. QED  BY <4>2, <4>4, <5>2
      <4>. HIDE DEF a
      <4>. QED  BY <1>2, <2>1, <3>1, <4>3, <4>5, <4>6
    <3>3. CASE ~(proto + 1 < NumProtos)
      BY <1>2, <2>1, <2>3, <3>1, <3>3 DEF StepsOfRest
    <3>. QED  BY <3>2, <3>3
  <2>. QED  BY <2>1, <2>2, <2>3
<1>6. CASE Rebuild
  <2>1. phase = "rebuild" /\ proto < NumProtos
    BY <1>6 DEF Rebuild, RebuildSucceeds, RebuildFails, IInv, RequestInv
  <2>2. CASE RebuildFails
    BY <1>2, <2>1, <2>2 DEF RebuildFails, StepsLeft
  <2>3. CASE RebuildSucceeds
    <3>1. phase' = "loop" /\ proto' = proto /\ needs'[proto] = needs[proto] - 1
      BY <1>2, <2>1, <2>3 DEF RebuildSucceeds, IInv, TypeOK
    <3>2. (NumProtos - proto - 1) * StepsOfOne \in Nat
      BY <2>1, RestOfRow
    <3>. DEFINE behind == (NumProtos - proto - 1) * StepsOfOne
    <3>3. behind \in Nat /\ StepsOfRest = behind + 2 * needs[proto] + 1
      BY <2>1, <3>2, RestOfRow
    <3>4. StepsOfRest' = behind + 2 * (needs[proto] - 1) + 1
      BY <2>1, <3>1 DEF StepsOfRest, StepsOfOne
    <3>5. StepsLeft = StepsOfRest + 1 /\ StepsLeft' = StepsOfRest' + 2
      BY <2>1, <3>1 DEF StepsLeft
    <3>. HIDE DEF behind
    <3>. QED  BY <1>2, <2>1, <3>3, <3>4, <3>5
  <2>. QED  BY <1>6, <2>2, <2>3 DEF Rebuild
<1>7. CASE Finish
  <2>1. /\ phase = "loop" /\ phase' = "ok" /\ StepsOfRest = 0
    BY <1>1, <1>7 DEF Finish, StepsOfRest
  <2>. QED  BY <2>1 DEF StepsLeft
<1>8. CASE ReturnFailure \/ ReturnChunk
  <2>1. phase \in {"failed", "ok"} /\ phase' = "idle"
    BY <1>8 DEF ReturnFailure, ReturnChunk
  <2>. QED  BY <2>1 DEF StepsLeft
<1>9. ~Calling /\ ~(\E b \in BufferIds : Release(b))
  BY DEF Calling, Call, Release
<1>. QED  BY <1>3, <1>4, <1>5, <1>6, <1>7, <1>8, <1>9 DEF Next, Converting

\* No conversion goes on without end: every step of one leaves fewer to come,
\* the turns in which the chunk is built again and the same prototype taken
\* once more (retry_proto_index) included.
THEOREM ConversionComesCloser == Spec => ComesCloser
<1>1. Init => IInv
  BY InitInv
<1>2. IInv /\ [Next]_vars => IInv'
  BY NextInv
<1>3. (IInv => StepsLeft \in Nat)'
  BY StepsCount, PTL
<1>4. IInv /\ IInv' /\ [Next]_vars =>
          [phase # "idle" => StepsLeft \in Nat /\ StepsLeft' \in Nat /\ StepsLeft' < StepsLeft]_vars
  BY <1>3, StepsCount, StepsFall
<1>. QED  BY <1>1, <1>2, <1>4, PTL DEF Spec, ComesCloser
=============================================================================
