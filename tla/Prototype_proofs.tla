-------------------------- MODULE Prototype_proofs --------------------------
(* Proofs about the stages of one prototype: for prototypes of any size,    *)
(* the jumps arrive that InsertCopies retargets, the opcodes that           *)
(* PrepareOps changes still pass and consume the values they did, and the   *)
(* program that Repack makes goes the way of its source, with the frame and *)
(* the operands it needs, and with less to be repacked after every turn.    *)
EXTENDS MCPrototype, SequenceTheorems, WellFoundedInduction, TLAPS

-----------------------------------------------------------------------------
(* Inserting copies (InsertCopies).                                         *)

\* What a rebuilt prototype consists of: the instructions it had, each moved
\* to its new place, and copies from req.at on.
LEMMA RebuiltParts ==
    ASSUME NEW c, NEW n \in Nat, NEW req \in Request, req.at <= n
    PROVE  /\ DOMAIN Rebuilt(c, n, req) = 0..(n + req.count - 1)
           /\ \A o \in 0..(n - 1) :
                 /\ Moved(o, req) \in 0..(n + req.count - 1)
                 /\ Rebuilt(c, n, req)[Moved(o, req)] = MovedIns(c, n, o, req)
           /\ \A p \in 0..(n + req.count - 1) :
                 \/ \E o \in 0..(n - 1) : p = Moved(o, req)
                 \/ /\ req.at <= p /\ p < req.at + req.count
                    /\ Rebuilt(c, n, req)[p] = Copy
<1>1. /\ req.at \in Nat /\ req.count \in Nat \ {0}
  BY InsertAssumption DEF Request
<1>2. DOMAIN Rebuilt(c, n, req) = 0..(n + req.count - 1)
  BY DEF Rebuilt
<1>3. ASSUME NEW o \in 0..(n - 1)
      PROVE  /\ Moved(o, req) \in 0..(n + req.count - 1)
             /\ Rebuilt(c, n, req)[Moved(o, req)] = MovedIns(c, n, o, req)
  <2>1. CASE o >= req.at
    <3>1. PICK p \in 0..(n + req.count - 1) :
              p = o + req.count /\ ~(p < req.at) /\ ~(p < req.at + req.count)
      BY <1>1, <2>1
    <3>2. Rebuilt(c, n, req)[p] = MovedIns(c, n, p - req.count, req)
      BY <3>1 DEF Rebuilt
    <3>3. p - req.count = o /\ Moved(o, req) = p
      BY <1>1, <2>1, <3>1 DEF Moved
    <3>. QED  BY <3>1, <3>2, <3>3
  <2>2. CASE ~(o >= req.at)
    <3>1. Moved(o, req) = o /\ o \in 0..(n + req.count - 1) /\ o < req.at
      BY <1>1, <2>2 DEF Moved
    <3>. QED  BY <3>1 DEF Rebuilt
  <2>. QED  BY <2>1, <2>2
<1>4. ASSUME NEW p \in 0..(n + req.count - 1)
      PROVE  \/ \E o \in 0..(n - 1) : p = Moved(o, req)
             \/ /\ req.at <= p /\ p < req.at + req.count
                /\ Rebuilt(c, n, req)[p] = Copy
  <2>1. CASE p < req.at
    <3>1. p \in 0..(n - 1) /\ p = Moved(p, req)
      BY <1>1, <2>1 DEF Moved
    <3>. QED  BY <3>1
  <2>2. CASE req.at <= p /\ p < req.at + req.count
    BY <1>1, <2>2 DEF Rebuilt
  <2>3. CASE req.at + req.count <= p
    <3>1. p - req.count \in 0..(n - 1) /\ p = Moved(p - req.count, req)
      BY <1>1, <2>3 DEF Moved
    <3>. QED  BY <3>1
  <2>. QED  BY <1>1, <2>1, <2>2, <2>3
<1>. QED  BY <1>2, <1>3, <1>4

\* Moving an instruction changes nothing but its jump.
LEMMA MovedInsKeeps ==
    ASSUME NEW n \in Nat, NEW c \in [0..(n - 1) -> Instruction],
           NEW req \in Request, NEW o \in 0..(n - 1)
    PROVE  /\ MovedIns(c, n, o, req) \in Instruction
           /\ MovedIns(c, n, o, req).kind = c[o].kind
           /\ MovedIns(c, n, o, req).id = c[o].id
           /\ MovedIns(c, n, o, req).goal = c[o].goal
<1>1. c[o] \in Instruction
  OBVIOUS
<1>2. ASSUME NEW d \in Int PROVE Distance(d) \in Int
  BY InsertAssumption DEF Distance
<1>3. /\ req.at \in Int /\ req.count \in Int /\ o \in Int /\ Target(c, o) \in Int
  BY <1>1, InsertAssumption DEF Request, Instruction, Target
<1>4. Retargeted(Target(c, o), req) - Moved(o, req) - 1 \in Int
  BY <1>3 DEF Retargeted, Moved
<1>5. Distance(Retargeted(Target(c, o), req) - Moved(o, req) - 1) \in Int
  BY <1>2, <1>4
<1>. QED  BY <1>1, <1>5 DEF MovedIns, Instruction

\* Shifting a position by the number of copies stays in the longer code.
LEMMA Shifted ==
    ASSUME NEW n \in Nat, NEW k \in Nat, NEW e \in 0..(n - 1), NEW m, m = n + k
    PROVE  \A x : x = e \/ x = e + k => x \in 0..(m - 1)
OBVIOUS

\* A retargeted jump goes where Retargeted says, if its distance fits.
LEMMA JumpMoves ==
    ASSUME NEW n \in Nat, NEW c \in [0..(n - 1) -> Instruction],
           NEW req \in Request, req.at <= n, n + req.count <= JumpBias,
           NEW o \in 0..(n - 1), GetJumpTarget(c, n, o)
    PROVE  Target(Rebuilt(c, n, req), Moved(o, req)) = Retargeted(Target(c, o), req)
<1> DEFINE t == Retargeted(Target(c, o), req)
           q == Moved(o, req)
           m == n + req.count
<1>1. /\ req.at \in Nat /\ req.count \in Nat \ {0} /\ JumpBias \in Nat
  BY InsertAssumption DEF Request
<1>2. Target(c, o) \in 0..(n - 1)
  BY DEF GetJumpTarget
<1>3. t \in 0..(m - 1) /\ q \in 0..(m - 1)
  <2>1. n + req.count \in Nat /\ m = n + req.count
    BY <1>1
  <2>2. t = Target(c, o) \/ t = Target(c, o) + req.count
    BY DEF Retargeted
  <2>3. q = o \/ q = o + req.count
    BY DEF Moved
  <2> HIDE DEF t, q, m
  <2>4. t \in 0..(m - 1)
    BY <1>1, <1>2, <2>1, <2>2, Shifted
  <2>5. q \in 0..(m - 1)
    BY <1>1, <2>1, <2>3, Shifted
  <2>. QED BY <2>4, <2>5
<1>4. t - q - 1 \in Int /\ t - q - 1 < JumpBias /\ -JumpBias <= t - q - 1
  <2>1. m \in Nat /\ m <= JumpBias
    BY <1>1
  <2> HIDE DEF t, q, m
  <2>. QED BY <1>1, <1>3, <2>1
<1>5. Distance(t - q - 1) = t - q - 1
  BY <1>1, <1>4 DEF Distance
<1>6. Rebuilt(c, n, req)[q] = MovedIns(c, n, o, req)
  BY RebuiltParts
<1>7. c[o] \in Instruction
  OBVIOUS
<1>8. MovedIns(c, n, o, req).jump = t - q - 1
  BY <1>5, <1>7 DEF MovedIns, Instruction
<1>. QED  BY <1>3, <1>6, <1>8 DEF Target

-----------------------------------------------------------------------------

\* The compiled prototype satisfies the invariant.
LEMMA InitInv == ASSUME Init PROVE IInv
<1>1. PICK goals \in [Originals -> Originals \cup {-1}],
           kinds \in [Originals -> Kinds \ {"copy"}] :
           /\ \A p \in Originals : goals[p] # -1 <=> kinds[p] \in {"jmp", "isnext"}
           /\ \A p \in Originals :
                 kinds[p] = "isnext" => kinds[goals[p]] = "itern" /\ p < goals[p]
           /\ code = Compiled(goals, kinds)
  BY DEF Init
<1>2. numbc = NumIns /\ request = NoRequest /\ status = "patch"
  BY DEF Init
<1>3. /\ NumIns \in Nat /\ 0 <= NumIns /\ NumIns <= MaxSize /\ MaxSize \in Nat
      /\ Originals = 0..(numbc - 1) /\ Positions = Originals
  BY <1>2, InsertAssumption DEF Originals, Positions
<1>4. \A p \in Originals : kinds[p] \in {"op", "jmp", "isnext", "itern"}
  BY <1>1 DEF Kinds
<1>5. ASSUME NEW p \in Originals
      PROVE  /\ code[p] = [kind |-> kinds[p], id |-> p,
                           jump |-> IF goals[p] = -1 THEN 0 ELSE goals[p] - p - 1,
                           goal |-> goals[p]]
             /\ code[p] \in Instruction
             /\ code[p].id = p /\ code[p].goal = goals[p] /\ code[p].kind = kinds[p]
             /\ code[p].kind # "copy" /\ p \in Int /\ p # -1
             /\ goals[p] # -1 => /\ Target(code, p) = goals[p]
                                 /\ Target(code, p) \in Positions
  <2>1. code[p] = [kind |-> kinds[p], id |-> p,
                   jump |-> IF goals[p] = -1 THEN 0 ELSE goals[p] - p - 1,
                   goal |-> goals[p]]
    BY <1>1 DEF Compiled
  <2>2. p \in Int /\ p # -1 /\ goals[p] \in Originals \cup {-1} /\ goals[p] \in Int
    BY <1>1, <1>3 DEF Originals
  <2>3. code[p] \in Instruction
    BY <2>1, <2>2, <1>1, <1>4 DEF Instruction
  <2>4. goals[p] # -1 => Target(code, p) = goals[p]
    BY <2>1, <2>2 DEF Target
  <2>. QED  BY <2>1, <2>2, <2>3, <2>4, <1>3, <1>4
<1>12. \A p \in Originals : /\ code[p].kind \in {"jmp", "isnext"} => goals[p] # -1
                            /\ code[p].kind = "isnext" => p < goals[p]
  BY <1>1, <1>5, Zenon
<1>6. TypeOK
  <2>1. code \in [0..(numbc - 1) -> Instruction]
    BY <1>1, <1>3, <1>5 DEF Compiled
  <2>. QED  BY <2>1, <1>2, <1>3 DEF TypeOK, NoRequest
<1>7. Ghosts
  <2> SUFFICES ASSUME NEW p \in Originals
               PROVE  /\ code[p].goal # -1 <=> code[p].kind \in {"jmp", "isnext"}
                      /\ code[p].id = -1 <=> code[p].kind = "copy"
    BY <1>3 DEF Ghosts, IsCopy
  <2>1. code[p].id = p /\ p # -1 /\ code[p].kind # "copy"
    BY <1>5
  <2>2. code[p].goal = goals[p] /\ code[p].kind = kinds[p]
    BY <1>5
  <2>3. goals[p] # -1 <=> kinds[p] \in {"jmp", "isnext"}
    BY <1>1, <1>4
  <2>. QED  BY <2>1, <2>2, <2>3
<1>8. JumpsArrive
  <2> SUFFICES ASSUME NEW p \in Positions, code[p].kind = "jmp"
               PROVE  Target(code, p) \in Positions /\ LeadsTo(Target(code, p), code[p].goal)
    BY DEF JumpsArrive
  <2>0. p \in Originals
    BY <1>3
  <2>1. goals[p] # -1 /\ Target(code, p) = goals[p] /\ goals[p] \in Positions
    BY <2>0, <1>5, <1>12
  <2>2. goals[p] \in Int /\ code[goals[p]].id = goals[p] /\ code[p].goal = goals[p]
    BY <1>3, <1>5, <2>1
  <2>3. goals[p] <= goals[p] /\ goals[p]..(goals[p] - 1) = {}
    BY <2>2
  <2>. QED  BY <2>1, <2>2, <2>3 DEF LeadsTo
<1>9. NoCopyBypassed
  <2> SUFFICES ASSUME NEW p \in Positions, code[p].kind = "jmp", Target(code, p) > 0
               PROVE  ~IsCopy(Target(code, p) - 1)
    BY DEF NoCopyBypassed
  <2>0. p \in Originals
    BY <1>3
  <2>1. Target(code, p) \in 0..(NumIns - 1)
    BY <2>0, <1>3, <1>5, <1>12 DEF Originals
  <2>2. Target(code, p) - 1 \in Originals
    BY <2>1, <1>3 DEF Originals
  <2>. QED  BY <2>2, <1>5 DEF IsCopy
<1>10. OriginalsInOrder
  BY <1>3, <1>5 DEF OriginalsInOrder, IsCopy
<1>11. IsnextStaysClose /\ IsnextShort
  <2> SUFFICES ASSUME NEW p \in Originals, NEW q \in Originals, code[p].kind = "isnext",
                      code[q].id = code[p].goal
               PROVE  /\ p < q /\ Target(code, p) = q /\ q \in Int
                      /\ \A r \in (p + 1)..(q - 1) : code[r].kind # "copy"
    BY <1>3 DEF IsnextStaysClose, IsnextShort, IsCopy
  <2>0. code[q].id = q /\ code[p].goal = goals[p] /\ q # -1
    BY <1>5, Zenon
  <2>1. q = goals[p] /\ p < q /\ q # -1
    BY <2>0, <1>12
  <2>2. Target(code, p) = q /\ p \in Int /\ q \in Int
    BY <2>1, <1>5
  <2>3. (p + 1)..(q - 1) \subseteq Originals
    BY <1>3 DEF Originals
  <2>. QED  BY <2>1, <2>2, <2>3, <1>5
<1>. QED  BY <1>6, <1>7, <1>8, <1>9, <1>10, <1>11 DEF IInv

\* A request keeps the invariant.
LEMMA ScheduleInv ==
    ASSUME IInv, NEW from \in 0..numbc, NEW count \in 1..MaxCopies, NEW allow \in BOOLEAN,
           Schedule(from, count, allow)
    PROVE  IInv'
<1>1. UNCHANGED <<code, numbc, status>>
  BY DEF Schedule
<1>2. TypeOK'
  <2>1. from \in 0..MaxSize /\ from <= numbc
    BY InsertAssumption DEF IInv, TypeOK
  <2>2. request' \in Request /\ request'.at <= numbc /\ numbc + request'.count <= MaxSize
    BY <2>1 DEF Schedule, Request
  <2>. QED  BY <1>1, <2>2 DEF IInv, TypeOK
<1>3. /\ (Ghosts /\ JumpsArrive /\ NoCopyBypassed /\ OriginalsInOrder)'
      /\ (IsnextStaysClose /\ IsnextShort)'
  BY <1>1 DEF IInv, Ghosts, JumpsArrive, NoCopyBypassed, OriginalsInOrder,
             IsnextStaysClose, IsnextShort, Positions, IsCopy, LeadsTo, Target
<1>. QED  BY <1>2, <1>3 DEF IInv

\* The heart of the matter: a rebuild keeps the invariant.
LEMMA RebuildInv == ASSUME IInv, Rebuild PROVE IInv'
<1>1. CASE status' = "layout" /\ UNCHANGED <<code, numbc, request>>
  BY <1>1 DEF IInv, TypeOK, Ghosts, JumpsArrive, NoCopyBypassed, OriginalsInOrder,
             IsnextStaysClose, IsnextShort, Positions, IsCopy, LeadsTo, Target
<1>2. CASE /\ code' = Rebuilt(code, numbc, request)
           /\ numbc' = numbc + request.count
           /\ request' = NoRequest
           /\ UNCHANGED status
  <2> DEFINE n == numbc
             from == request.at
             count == request.count
  <2>1. /\ request \in Request /\ request.active /\ from <= n /\ n + count <= MaxSize
        /\ n \in Nat /\ NumIns <= n /\ from \in Nat /\ count \in Nat \ {0}
        /\ code \in [0..(n - 1) -> Instruction]
        /\ status \in {"patch", "layout"} /\ NumIns \in Nat /\ MaxSize \in Nat
    <3>1. NumIns \in Nat /\ MaxSize \in Nat /\ MaxCopies \in Nat
      BY InsertAssumption
    <3>2. TypeOK /\ request.active
      BY DEF IInv, Rebuild
    <3>3. request \in Request
      BY <3>2 DEF TypeOK, NoRequest
    <3>4. request.at \in 0..MaxSize /\ request.count \in 1..MaxCopies
      BY <3>3 DEF Request
    <3>5. numbc \in NumIns..MaxSize /\ request.at <= numbc /\ numbc + request.count <= MaxSize
      BY <3>2 DEF TypeOK
    <3>6. code \in [0..(numbc - 1) -> Instruction] /\ status \in {"patch", "layout"}
      BY <3>2 DEF TypeOK
    <3>. QED  BY <3>1, <3>2, <3>3, <3>4, <3>5, <3>6
  <2>2. /\ DOMAIN code' = 0..(n + count - 1)
        /\ \A o \in 0..(n - 1) :
              /\ Moved(o, request) \in 0..(n + count - 1)
              /\ code'[Moved(o, request)] = MovedIns(code, n, o, request)
        /\ \A p \in 0..(n + count - 1) :
              \/ \E o \in 0..(n - 1) : p = Moved(o, request)
              \/ from <= p /\ p < from + count /\ code'[p] = Copy
    <3>1. code' = Rebuilt(code, n, request)
      BY <1>2
    <3>2. request \in Request /\ n \in Nat /\ request.at <= n
      BY <2>1
    <3>3. /\ DOMAIN Rebuilt(code, n, request) = 0..(n + count - 1)
          /\ \A o \in 0..(n - 1) :
                /\ Moved(o, request) \in 0..(n + count - 1)
                /\ Rebuilt(code, n, request)[Moved(o, request)] = MovedIns(code, n, o, request)
          /\ \A p \in 0..(n + count - 1) :
                \/ \E o \in 0..(n - 1) : p = Moved(o, request)
                \/ /\ from <= p /\ p < from + count
                   /\ Rebuilt(code, n, request)[p] = Copy
      BY <3>2, RebuiltParts
    <3>. QED  BY <3>1, <3>3
  <2>3. \A o \in 0..(n - 1) :
           /\ MovedIns(code, n, o, request) \in Instruction
           /\ code'[Moved(o, request)].kind = code[o].kind
           /\ code'[Moved(o, request)].id = code[o].id
           /\ code'[Moved(o, request)].goal = code[o].goal
    <3>1. ASSUME NEW o \in 0..(n - 1)
          PROVE  /\ MovedIns(code, n, o, request) \in Instruction
                 /\ MovedIns(code, n, o, request).kind = code[o].kind
                 /\ MovedIns(code, n, o, request).id = code[o].id
                 /\ MovedIns(code, n, o, request).goal = code[o].goal
      BY <2>1, MovedInsKeeps, Zenon
    <3>. QED  BY <2>2, <3>1, Zenon
  <2>4. /\ Copy.kind = "copy" /\ Copy.id = -1 /\ Copy.goal = -1 /\ Copy \in Instruction
    BY DEF Copy, Instruction, Kinds
  <2>5. /\ Positions = 0..(n - 1) /\ Positions' = 0..(n + count - 1)
    <3>1. numbc' = n + count
      BY <1>2
    <3>2. Positions = 0..(n - 1)
      BY DEF Positions
    <3>3. Positions' = 0..(numbc' - 1)
      BY DEF Positions
    <3>4. 0..(numbc' - 1) = 0..(n + count - 1)
      BY <2>1, <3>1
    <3>. QED  BY <3>2, <3>3, <3>4, Zenon
  <2>6. TypeOK'
    <3>1. \A p \in 0..(n + count - 1) : code'[p] \in Instruction
      BY <2>2, <2>3, <2>4
    <3>2. code' = [p \in 0..(n + count - 1) |-> code'[p]]
      BY <1>2 DEF Rebuilt
    <3>3. code' \in [0..(n + count - 1) -> Instruction]
      BY <3>1, <3>2
    <3>. QED  BY <1>2, <2>1, <3>3 DEF TypeOK, NoRequest
  <2>7. Ghosts'
    BY <2>2, <2>3, <2>4, <2>5 DEF IInv, Ghosts, IsCopy
  <2>8. ASSUME numbc' <= JumpBias, NEW p \in Positions', code'[p].kind = "jmp"
        PROVE  \E o \in Positions : /\ p = Moved(o, request)
                                    /\ code[o].kind = "jmp" /\ code'[p].goal = code[o].goal
                                    /\ Target(code, o) \in Positions
                                    /\ LeadsTo(Target(code, o), code[o].goal)
                                    /\ Target(code, o) > 0 => ~IsCopy(Target(code, o) - 1)
                                    /\ Target(code', p) = Retargeted(Target(code, o), request)
    <3>1. PICK o \in 0..(n - 1) : p = Moved(o, request)
      BY <2>2, <2>4, <2>5, <2>8
    <3>2. o \in Positions /\ code[o].kind = "jmp" /\ code'[p].goal = code[o].goal
      BY <2>3, <2>5, <2>8, <3>1
    <3>3. numbc <= JumpBias /\ n + count <= JumpBias
      BY <1>2, <2>1, <2>8, InsertAssumption
    <3>4. /\ Target(code, o) \in Positions
          /\ LeadsTo(Target(code, o), code[o].goal)
          /\ Target(code, o) > 0 => ~IsCopy(Target(code, o) - 1)
      BY <3>2, <3>3 DEF IInv, JumpsArrive, NoCopyBypassed
    <3>5. GetJumpTarget(code, n, o)
      BY <3>2, <3>4, <2>5 DEF GetJumpTarget, IInv, Ghosts
    <3>6. Target(Rebuilt(code, n, request), Moved(o, request))
              = Retargeted(Target(code, o), request)
      BY <2>1, <3>3, <3>5, JumpMoves
    <3>. QED  BY <1>2, <3>1, <3>2, <3>4, <3>6
  <2>9. JumpsArrive'
    <3> SUFFICES ASSUME numbc' <= JumpBias, NEW p \in Positions', code'[p].kind = "jmp"
                 PROVE  /\ Target(code', p) \in Positions'
                        /\ LeadsTo(Target(code, p), code[p].goal)'
      BY DEF JumpsArrive
    <3>1. PICK o \in Positions :
              /\ code'[p].goal = code[o].goal
              /\ Target(code, o) \in Positions
              /\ LeadsTo(Target(code, o), code[o].goal)
              /\ Target(code', p) = Retargeted(Target(code, o), request)
      BY <2>8
    <3> DEFINE t == Target(code, o)
    <3>2. PICK q \in Positions : /\ t <= q /\ code[q].id = code[o].goal
                                 /\ \A r \in t..(q - 1) : IsCopy(r)
      BY <3>1 DEF LeadsTo
    <3>3. /\ t \in Nat /\ q \in Nat /\ t < n /\ q < n
      BY <3>1, <3>2, <2>1, <2>5
    <3> HIDE DEF t
    <3>4. /\ Retargeted(t, request) \in 0..(n + count - 1)
          /\ Moved(q, request) \in 0..(n + count - 1)
      BY <2>1, <3>3, SMTT(40) DEF Retargeted, Moved
    <3>5. Retargeted(t, request) <= Moved(q, request)
      BY <2>1, <3>2, <3>3 DEF Retargeted, Moved
    <3>6. code'[Moved(q, request)].id = code'[p].goal
      BY <2>3, <2>5, <3>1, <3>2
    <3>7. ASSUME NEW r \in Retargeted(t, request)..(Moved(q, request) - 1)
          PROVE  code'[r].kind = "copy"
      <4>1. r \in 0..(n + count - 1) /\ Retargeted(t, request) <= r /\ r < Moved(q, request)
            /\ r \in Nat
        BY <2>1, <3>4
      <4>2. CASE r < from
        <5>1. t <= r /\ r <= q - 1 /\ r \in t..(q - 1) /\ r = Moved(r, request)
              /\ r \in 0..(n - 1)
          BY <2>1, <3>2, <3>3, <4>1, <4>2, SMTT(40) DEF Retargeted, Moved
        <5>. QED  BY <5>1, <2>3, <3>2 DEF IsCopy
      <4>3. CASE from <= r /\ r < from + count
        <5>1. ~\E s \in 0..(n - 1) : r = Moved(s, request)
          BY <2>1, <4>1, <4>3 DEF Moved
        <5>. QED  BY <5>1, <2>2, <2>4, <4>1
      <4>4. CASE from + count <= r
        <5>1. r - count \in t..(q - 1) /\ r = Moved(r - count, request)
              /\ r - count \in 0..(n - 1)
          <6>1. r < q + count
            BY <2>1, <3>3, <4>1, <4>4 DEF Moved
          <6>2. t <= r - count
            BY <2>1, <3>3, <4>1, <4>4, SMTT(40) DEF Retargeted
          <6>3. r - count \in Int /\ from <= r - count /\ r = Moved(r - count, request)
            BY <2>1, <4>1, <4>4, SMTT(40) DEF Moved
          <6>. QED  BY <2>1, <3>3, <4>1, <4>4, <6>1, <6>2, <6>3, SMTT(40)
        <5>. QED  BY <5>1, <2>3, <3>2 DEF IsCopy
      <4>. QED  BY <2>1, <4>1, <4>2, <4>3, <4>4
    <3>8. Target(code', p) = Retargeted(t, request)
      BY <3>1 DEF t
    <3>. QED  BY <2>5, <3>4, <3>5, <3>6, <3>7, <3>8 DEF LeadsTo, IsCopy
  <2>10. NoCopyBypassed'
    <3> SUFFICES ASSUME numbc' <= JumpBias, NEW p \in Positions', code'[p].kind = "jmp",
                        Target(code', p) > 0
                 PROVE  ~IsCopy(Target(code, p) - 1)'
      BY DEF NoCopyBypassed
    <3>1. PICK o \in Positions :
              /\ Target(code, o) \in Positions
              /\ Target(code, o) > 0 => ~IsCopy(Target(code, o) - 1)
              /\ Target(code', p) = Retargeted(Target(code, o), request)
      BY <2>8
    <3> DEFINE t == Target(code, o)
    <3>2. t \in Nat /\ t < n
      BY <3>1, <2>1, <2>5
    <3>3. /\ t > 0 /\ t - 1 \in 0..(n - 1)
          /\ Retargeted(t, request) - 1 = Moved(t - 1, request)
      <4>1. Retargeted(t, request) > 0
        BY <3>1
      <4> HIDE DEF t
      <4>2. t > 0
        BY <2>1, <3>2, <4>1 DEF Retargeted
      <4>. QED  BY <2>1, <3>2, <4>2 DEF Retargeted, Moved
    <3>4. code[t - 1].kind # "copy"
      BY <3>1, <3>3 DEF IsCopy
    <3>5. code'[Moved(t - 1, request)].kind # "copy"
      BY <2>3, <3>3, <3>4
    <3>. QED  BY <3>1, <3>3, <3>5 DEF IsCopy
  <2>11. OriginalsInOrder'
    <3>1. ASSUME NEW i \in Originals
          PROVE  \E p \in Positions' : code'[p].id = i
      <4>1. PICK o \in Positions : code[o].id = i
        BY DEF IInv, OriginalsInOrder
      <4>. QED  BY <4>1, <2>2, <2>3, <2>5
    <3>2. ASSUME NEW p \in Positions', NEW q \in Positions', p < q,
                 code'[p].kind # "copy", code'[q].kind # "copy"
          PROVE  code'[p].id < code'[q].id
      <4>1. PICK o \in 0..(n - 1) : p = Moved(o, request)
        BY <2>2, <2>4, <2>5, <3>2
      <4>2. PICK s \in 0..(n - 1) : q = Moved(s, request)
        BY <2>2, <2>4, <2>5, <3>2
      <4>3. o < s
        BY <2>1, <3>2, <4>1, <4>2 DEF Moved
      <4>4. code[o].kind # "copy" /\ code[s].kind # "copy"
        BY <2>3, <3>2, <4>1, <4>2
      <4>5. code[o].id < code[s].id
        BY <2>5, <4>3, <4>4 DEF IInv, OriginalsInOrder, IsCopy
      <4>. QED  BY <2>3, <4>1, <4>2, <4>5
    <3>. QED  BY <3>1, <3>2 DEF OriginalsInOrder, IsCopy
  <2>12. ASSUME NEW p \in Positions', NEW q \in Positions', code'[p].kind = "isnext",
                code'[q].id = code'[p].goal
         PROVE  /\ p < q /\ Target(code', p) <= q
                /\ (\A r \in (p + 1)..(q - 1) : code'[r].kind # "copy")
                      => Target(code', p) = q
    <3>1. PICK o \in 0..(n - 1) : p = Moved(o, request)
      BY <2>2, <2>4, <2>5, <2>12
    <3>2. code[o].kind = "isnext" /\ code'[p].goal = code[o].goal /\ code[o].goal # -1
      BY <2>3, <2>5, <2>12, <3>1 DEF IInv, Ghosts
    <3>3. PICK s \in 0..(n - 1) : q = Moved(s, request)
      BY <2>2, <2>4, <2>5, <2>12, <3>2
    <3>4. code[s].id = code[o].goal
      BY <2>3, <2>12, <3>2, <3>3
    <3> DEFINE t == Target(code, o)
    <3>5. /\ o < s /\ t <= s
          /\ (\A r \in (o + 1)..(s - 1) : code[r].kind # "copy") => t = s
      BY <2>5, <3>2, <3>4 DEF IInv, IsnextStaysClose, IsnextShort, IsCopy
    <3>6. t \in Int /\ Target(code', p) = t + (p - o) /\ p \in Int /\ o \in Int
      <4>1. code'[p] = code[o]
        BY <2>2, <3>1, <3>2 DEF MovedIns, GetJumpTarget
      <4>2. code[o].jump \in Int
        BY <2>1 DEF Instruction
      <4>3. p \in Int /\ o \in Int
        BY <2>1, <2>5
      <4>. QED  BY <4>1, <4>2, <4>3 DEF Target
    <3> HIDE DEF t
    <3>7. CASE o < from /\ from <= s
      <4>1. p = o /\ q = s + count
        BY <2>1, <3>1, <3>3, <3>7 DEF Moved
      <4>2. from \in (p + 1)..(q - 1) /\ from \in 0..(n + count - 1) /\ p \in Int /\ q \in Int
        <5>1. /\ o \in 0..(n - 1) /\ s \in 0..(n - 1) /\ n \in Nat
              /\ from \in Nat /\ count \in Nat \ {0}
          BY <2>1
        <5> HIDE DEF n, from, count
        <5>. QED  BY <3>7, <4>1, <5>1
      <4>3. \A m \in 0..(n - 1) : Moved(m, request) # from
        BY <2>1 DEF Moved
      <4>4. code'[from].kind = "copy"
        BY <2>2, <2>4, <4>2, <4>3
      <4>5. p < q /\ Target(code', p) <= q
        BY <2>1, <3>5, <3>6, <3>7, <4>1
      <4>. QED  BY <4>2, <4>4, <4>5
    <3>8. CASE ~(o < from /\ from <= s)
      <4>1. PICK d \in {0, count} : /\ p = o + d /\ q = s + d
                                    /\ \A m \in (o + 1)..(s - 1) : Moved(m, request) = m + d
        <5>1. CASE s < from
          BY <2>1, <3>1, <3>3, <3>5, <5>1 DEF Moved
        <5>2. CASE from <= o
          BY <2>1, <3>1, <3>3, <3>5, <5>2 DEF Moved
        <5>. QED  BY <2>1, <3>8, <5>1, <5>2
      <4>2. \A m \in (o + 1)..(s - 1) : code'[m + d].kind = code[m].kind
        <5>1. (o + 1)..(s - 1) \subseteq 0..(n - 1)
          BY <2>1
        <5>. QED  BY <2>3, <4>1, <5>1
      <4>3. (\A r \in (p + 1)..(q - 1) : code'[r].kind # "copy")
               => \A m \in (o + 1)..(s - 1) : code[m].kind # "copy"
        <5>1. /\ o \in Int /\ s \in Int /\ d \in Int
              /\ \A m \in (o + 1)..(s - 1) : m + d \in (p + 1)..(q - 1)
          BY <2>1, <4>1
        <5>. QED  BY <4>2, <5>1
      <4>. QED  BY <2>1, <3>5, <3>6, <4>1, <4>3
    <3>. QED  BY <3>7, <3>8
  <2>13. (IsnextStaysClose /\ IsnextShort)'
    BY <2>12 DEF IsnextStaysClose, IsnextShort, IsCopy
  <2>. QED  BY <2>6, <2>7, <2>9, <2>10, <2>11, <2>13 DEF IInv
<1>. QED  BY <1>1, <1>2 DEF Rebuild

\* Every step keeps the invariant.
LEMMA NextInv == ASSUME IInv, [Next]_vars PROVE IInv'
<1>1. CASE UNCHANGED vars
  BY <1>1 DEF vars, IInv, TypeOK, Ghosts, JumpsArrive, NoCopyBypassed, OriginalsInOrder,
             IsnextStaysClose, IsnextShort, Positions, IsCopy, LeadsTo, Target
<1>2. CASE \E from \in 0..numbc, count \in 1..MaxCopies, allow \in BOOLEAN :
               Schedule(from, count, allow)
  BY <1>2, ScheduleInv
<1>3. CASE Rebuild
  BY <1>3, RebuildInv
<1>. QED  BY <1>1, <1>2, <1>3 DEF Next

\* The invariant holds throughout.
THEOREM Invariance == Spec => []IInv
<1>1. Init => IInv
  BY InitInv
<1>2. IInv /\ [Next]_vars => IInv'
  BY NextInv
<1>. QED  BY <1>1, <1>2, PTL DEF Spec

\* Inserting copies never redirects a jump, however often it is done
\* (tolua_rebuild_chunk_with_insert_copy), up to the reach of a jump.
THEOREM JumpsSafe == Spec => []JumpsArrive
<1>1. IInv => JumpsArrive
  BY DEF IInv
<1>. QED  BY <1>1, Invariance, PTL

\* No jump gets past copies that were put in front of its instruction: only
\* jumps to req.at itself and below it keep their target.
THEOREM CopiesSafe == Spec => []NoCopyBypassed
<1>1. IInv => NoCopyBypassed
  BY DEF IInv
<1>. QED  BY <1>1, Invariance, PTL

\* The compiled instructions are never lost or reordered.
THEOREM OrderSafe == Spec => []OriginalsInOrder
<1>1. IInv => OriginalsInOrder
  BY DEF IInv
<1>. QED  BY <1>1, Invariance, PTL

\* ISNEXT finds its ITERN as long as nothing is inserted between them: the
\* prototypes that tolua_get_jump_target fails, since it does not look at
\* ISNEXT, are those with copies in a loop over a table or just before its ITERN.
THEOREM IsnextKept == Spec => []IsnextStaysClose
<1>1. IInv => IsnextStaysClose
  BY DEF IInv
<1>. QED  BY <1>1, Invariance, PTL

\* The prototype stays as long as its header says.
THEOREM TypeCorrect == Spec => []TypeOK
<1>1. IInv => TypeOK
  BY DEF IInv
<1>. QED  BY <1>1, Invariance, PTL

-----------------------------------------------------------------------------
(* Preparing the opcodes (PrepareOps).                                      *)

\* Every instruction is one that the compiler emits behind those before it.
Emitted == \A n \in DOMAIN emitted : Prepare!Compiles(n, emitted[n])

\* The variables have their types, and the loops stay inside the prototype.
PrepareTypes ==
    /\ path \in Prepare!Paths
    /\ emitted \in Seq(Prepare!Instructions) /\ Len(emitted) <= MaxCode
    /\ prepared \in Seq(Prepare!Instructions) /\ renamed \in Seq(Nat)
    /\ Len(renamed) = Len(prepared)
    /\ step \in {"compile", "remap", "prepare", "collect", "resolve", "ok", "refused"}
    /\ IF step = "compile" THEN prepared = <<>> /\ pc = 1
       ELSE Len(prepared) = Len(emitted) /\ pc \in DOMAIN prepared

\* What may become of an instruction s: it is kept, downgraded, or loses its
\* specialized loop.
Kept(s, c) ==
    /\ c.a = s.a
    /\ \/ c.op = s.op /\ c.c = s.c
       \/ s.op = "CALLM"  /\ c.op = "CALL"  /\ c.c = s.c + 2
       \/ s.op = "CALLMT" /\ c.op = "CALLT" /\ c.c = s.c + 2
       \/ s.op = "ISNEXT" /\ c.op = "JMP"
       \/ s.op = "ITERN"  /\ c.op = "ITERC"

\* What still consumes open results finds the instruction that produces them.
Followed ==
    /\ \A i \in DOMAIN prepared : Kept(emitted[i], prepared[i])
    /\ \A i \in DOMAIN prepared : Prepare!TakesOpen(prepared[i]) =>
          \/ prepared[Prepare!Producer(prepared, i)].op = "CALL"
          \/ Prepare!GivesOpen(prepared[Prepare!Producer(prepared, i)])

\* What a register map is applied to has been checked up to pc.
Validated ==
    /\ step = "collect" => path = "register" /\ pc = 1
    /\ step \in {"resolve", "ok"} /\ path = "register" =>
          \A i \in DOMAIN prepared :
             /\ prepared[i].op \notin {"CALLM", "CALLMT", "RETM"}
             /\ i < pc \/ step = "ok" => Prepare!Paired(prepared, i)

\* Each loop that renames has renamed the opcodes up to pc.
Renames ==
    /\ step = "remap" => path = "window"
    /\ step = "resolve" => path # "window"
    /\ \A i \in DOMAIN prepared :
          \/ step = "refused"
          \/ path = "register" /\ renamed[i] = 0
          \/ /\ path = "window"
             /\ renamed[i] = IF step = "remap" /\ i >= pc THEN 0 ELSE 1
          \/ /\ path = "rename"
             /\ renamed[i] = IF step = "prepare" /\ i >= pc THEN 0 ELSE 1

\* The inductive invariant.
PrepareInv == PrepareTypes /\ Emitted /\ Followed /\ Validated /\ Renames

\* What the fields of an instruction may be, and what conversion makes of it.
LEMMA InstructionFields ==
    ASSUME NEW i1 \in Prepare!Instructions
    PROVE  /\ i1.a \in Nat /\ i1.c \in Nat /\ i1.b \in {0, 2}
           /\ i1.op \in {"CALL", "VARG"} => [i1 EXCEPT !.b = 2] \in Prepare!Instructions
           /\ i1.op \in {"CALLM", "CALLMT"} /\ i1.c <= MaxFixed =>
                 Prepare!Downgraded(i1) \in Prepare!Instructions
           /\ [i1 EXCEPT !.op = Prepare!PlainOp(@)] \in Prepare!Instructions
           /\ i1 = [op |-> i1.op, a |-> i1.a, b |-> i1.b, c |-> i1.c, to |-> i1.to]
<1> DEFINE Stays(op, a, b, c, to) ==
        i1 = Prepare!Ins(op, a, b, c, to) /\ a \in Nat /\ b \in {0, 2} /\ c \in Nat
<1>1. ASSUME NEW op, NEW a1, NEW b1, NEW c1, NEW to, Stays(op, a1, b1, c1, to)
      PROVE  /\ i1.a = a1 /\ i1.c = c1 /\ i1.b = b1 /\ i1.op = op
             /\ [i1 EXCEPT !.b = 2] = Prepare!Ins(op, a1, 2, c1, to)
             /\ op \in {"CALLM", "CALLMT"} => Prepare!Downgraded(i1) =
                   Prepare!Ins(IF op = "CALLM" THEN "CALL" ELSE "CALLT", a1, 2, c1 + 2, to)
             /\ [i1 EXCEPT !.op = Prepare!PlainOp(@)] = Prepare!Ins(Prepare!PlainOp(op), a1, b1, c1, to)
             /\ i1 = [op |-> i1.op, a |-> i1.a, b |-> i1.b, c |-> i1.c, to |-> i1.to]
  <2>1. i1 = [op |-> op, a |-> a1, b |-> b1, c |-> c1, to |-> to]
    BY <1>1 DEF Prepare!Ins
  <2>2. [i1 EXCEPT !.b = 2] = Prepare!Ins(op, a1, 2, c1, to)
    BY <2>1 DEF Prepare!Ins
  <2>3. op \in {"CALLM", "CALLMT"} => Prepare!Downgraded(i1) =
             Prepare!Ins(IF op = "CALLM" THEN "CALL" ELSE "CALLT", a1, 2, c1 + 2, to)
    <3>1. CASE op = "CALLM"
      <4>1. Prepare!Downgraded(i1) = [i1 EXCEPT !.op = "CALL", !.b = 2, !.c = c1 + 2]
        BY <2>1, <3>1 DEF Prepare!Downgraded
      <4>. QED  BY <2>1, <3>1, <4>1 DEF Prepare!Ins
    <3>2. CASE op = "CALLMT"
      <4>1. Prepare!Downgraded(i1) = [i1 EXCEPT !.op = "CALLT", !.b = 2, !.c = c1 + 2]
        BY <2>1, <3>2 DEF Prepare!Downgraded
      <4>. QED  BY <2>1, <3>2, <4>1 DEF Prepare!Ins
    <3>. QED  BY <3>1, <3>2
  <2>4. [i1 EXCEPT !.op = Prepare!PlainOp(@)] = Prepare!Ins(Prepare!PlainOp(op), a1, b1, c1, to)
    BY <2>1 DEF Prepare!Ins
  <2>. QED  BY <2>1, <2>2, <2>3, <2>4
<1>2. CASE \E op \in {"CALL", "CALLM"}, a1 \in Prepare!Bases, b1 \in {0, 2}, c1 \in Prepare!Counts :
               i1 = Prepare!Ins(op, a1, b1, c1, 0)
  <2>1. PICK op \in {"CALL", "CALLM"}, a1 \in Prepare!Bases, b1 \in {0, 2}, c1 \in Prepare!Counts :
               i1 = Prepare!Ins(op, a1, b1, c1, 0)
    BY <1>2
  <2>2. c1 <= MaxFixed => c1 + 2 \in Prepare!Counts
    BY PrototypeAssumption DEF Prepare!Counts
  <2>3. Stays(op, a1, b1, c1, 0)
    BY <2>1, PrototypeAssumption DEF Prepare!Counts, Prepare!Bases
  <2>4. Prepare!PlainOp(op) = op
    BY DEF Prepare!PlainOp
  <2>. QED  BY <1>1, <2>1, <2>2, <2>3, <2>4 DEF Prepare!Instructions
<1>3. CASE \E op \in {"CALLT", "CALLMT", "RETM"}, a1 \in Prepare!Bases, c1 \in Prepare!Counts :
               i1 = Prepare!Ins(op, a1, 2, c1, 0)
  <2>1. PICK op \in {"CALLT", "CALLMT", "RETM"}, a1 \in Prepare!Bases, c1 \in Prepare!Counts :
               i1 = Prepare!Ins(op, a1, 2, c1, 0)
    BY <1>3
  <2>2. c1 <= MaxFixed => c1 + 2 \in Prepare!Counts
    BY PrototypeAssumption DEF Prepare!Counts
  <2>3. Stays(op, a1, 2, c1, 0)
    BY <2>1, PrototypeAssumption DEF Prepare!Counts, Prepare!Bases
  <2>4. Prepare!PlainOp(op) = op
    BY DEF Prepare!PlainOp
  <2>. QED  BY <1>1, <2>1, <2>2, <2>3, <2>4 DEF Prepare!Instructions
<1>4. CASE \E a1 \in Prepare!Bases, b1 \in {0, 2} : i1 = Prepare!Ins("VARG", a1, b1, 0, 0)
  <2>1. PICK a1 \in Prepare!Bases, b1 \in {0, 2} : i1 = Prepare!Ins("VARG", a1, b1, 0, 0)
    BY <1>4
  <2>2. Stays("VARG", a1, b1, 0, 0) /\ Prepare!PlainOp("VARG") = "VARG"
    BY <2>1, PrototypeAssumption DEF Prepare!Bases, Prepare!PlainOp
  <2>. QED  BY <1>1, <2>1, <2>2 DEF Prepare!Instructions
<1>5. CASE \E a1 \in Prepare!Bases : i1 = Prepare!Ins("TSETM", a1, 2, 0, 0)
  <2>1. PICK a1 \in Prepare!Bases : i1 = Prepare!Ins("TSETM", a1, 2, 0, 0)
    BY <1>5
  <2>2. Stays("TSETM", a1, 2, 0, 0) /\ Prepare!PlainOp("TSETM") = "TSETM"
    BY <2>1, PrototypeAssumption DEF Prepare!Bases, Prepare!PlainOp
  <2>. QED  BY <1>1, <2>1, <2>2 DEF Prepare!Instructions
<1>6. CASE \E op \in {"UCLO", "ISNEXT", "JMP"}, to \in 1..MaxCode : i1 = Prepare!Ins(op, 0, 2, 0, to)
  <2>1. PICK op \in {"UCLO", "ISNEXT", "JMP"}, to \in 1..MaxCode : i1 = Prepare!Ins(op, 0, 2, 0, to)
    BY <1>6
  <2>2. Stays(op, 0, 2, 0, to)
    BY <2>1
  <2>3. Prepare!PlainOp(op) \in {"UCLO", "ISNEXT", "JMP"}
    BY DEF Prepare!PlainOp
  <2>4. \A q \in {"UCLO", "ISNEXT", "JMP"} : Prepare!Ins(q, 0, 2, 0, to) \in Prepare!Instructions
    BY <2>1 DEF Prepare!Instructions
  <2>. QED  BY <1>1, <2>1, <2>2, <2>3, <2>4
<1>7. CASE \E op \in {"ITERN", "ITERC", "MOV", "FOREIGN"} : i1 = Prepare!Ins(op, 0, 2, 0, 0)
  <2>1. PICK op \in {"ITERN", "ITERC", "MOV", "FOREIGN"} : i1 = Prepare!Ins(op, 0, 2, 0, 0)
    BY <1>7
  <2>2. Stays(op, 0, 2, 0, 0)
    BY <2>1
  <2>3. Prepare!PlainOp(op) \in {"ITERN", "ITERC", "MOV", "FOREIGN"}
    BY DEF Prepare!PlainOp
  <2>4. \A q \in {"ITERN", "ITERC", "MOV", "FOREIGN"} : Prepare!Ins(q, 0, 2, 0, 0) \in Prepare!Instructions
    BY DEF Prepare!Instructions
  <2>. QED  BY <1>1, <2>1, <2>2, <2>3, <2>4
<1>. QED  BY <1>2, <1>3, <1>4, <1>5, <1>6, <1>7 DEF Prepare!Instructions

\* The producer of what an instruction consumes is before it, gives open
\* results, and nothing else consumes them.
LEMMA ProducerFound ==
    ASSUME PrepareTypes, Emitted, NEW n \in DOMAIN emitted, Prepare!TakesOpen(emitted[n])
    PROVE  /\ Prepare!Producer(emitted, n) \in DOMAIN emitted
           /\ Prepare!Producer(emitted, n) < n /\ n > 1
           /\ Prepare!GivesOpen(emitted[Prepare!Producer(emitted, n)])
           /\ emitted[n].op \in {"CALLM", "CALLMT"} =>
                 emitted[Prepare!Producer(emitted, n)].a = emitted[n].a + 1 + emitted[n].c
           /\ emitted[n].c <= MaxFixed
           /\ \A m \in DOMAIN emitted :
                 Prepare!TakesOpen(emitted[m])
                 /\ Prepare!Producer(emitted, m) = Prepare!Producer(emitted, n) => m = n
<1>1. DOMAIN emitted = 1..Len(emitted)
  BY DEF PrepareTypes
<1>2. ASSUME NEW m \in DOMAIN emitted, Prepare!TakesOpen(emitted[m])
      PROVE  /\ m > 1 /\ emitted[m].c <= MaxFixed
             /\ \/ /\ Prepare!GivesOpen(emitted[m - 1]) /\ Prepare!Producer(emitted, m) = m - 1
                   /\ ~(m > 2 /\ emitted[m - 1].op = "UCLO" /\ Prepare!GivesOpen(emitted[m - 2]))
                \/ /\ m > 2 /\ emitted[m - 1].op = "UCLO" /\ Prepare!GivesOpen(emitted[m - 2])
                   /\ Prepare!Producer(emitted, m) = m - 2
             /\ emitted[m].op \in {"CALLM", "CALLMT"} =>
                   emitted[Prepare!Producer(emitted, m)].a = emitted[m].a + 1 + emitted[m].c
  <2> DEFINE k == IF m > 2 /\ emitted[m - 1].op = "UCLO" /\ Prepare!GivesOpen(emitted[m - 2])
                  THEN m - 2 ELSE m - 1
  <2>1. Prepare!Compiles(m, emitted[m])
    BY DEF Emitted
  <2>2. m \in Nat /\ m >= 1
    BY <1>1
  <2>3. /\ m > 1 /\ emitted[m].c <= MaxFixed
        /\ emitted[m].op \in {"CALLM", "CALLMT"} => emitted[k].a = emitted[m].a + 1 + emitted[m].c
        /\ \/ k = m - 1 /\ Prepare!GivesOpen(emitted[m - 1])
           \/ k = m - 2 /\ m > 2 /\ emitted[m - 1].op = "UCLO" /\ Prepare!GivesOpen(emitted[m - 2])
    BY <1>2, <2>1, <2>2 DEF Prepare!Compiles
  <2>4. Prepare!GivesOpen(emitted[m - 1]) => emitted[m - 1].op # "UCLO"
    BY DEF Prepare!GivesOpen
  <2>5. Prepare!Producer(emitted, m) = k
    BY <2>2, <2>3, <2>4 DEF Prepare!Producer
  <2>. QED  BY <2>2, <2>3, <2>4, <2>5
<1>3. ASSUME NEW m \in DOMAIN emitted, Prepare!TakesOpen(emitted[m]),
             Prepare!Producer(emitted, m) = Prepare!Producer(emitted, n)
      PROVE  m = n
  <2>1. emitted[n].op # "UCLO" /\ emitted[m].op # "UCLO"
    BY <1>3 DEF Prepare!TakesOpen
  <2>. QED  BY <1>1, <1>2, <1>3, <2>1
<1>. QED  BY <1>1, <1>2, <1>3

\* No prototype is there yet.
LEMMA InitPrepareInv == Prepare!Init => PrepareInv
<1>1. ASSUME NEW S PROVE <<>> \in Seq(S) /\ DOMAIN (<<>>) = {} /\ Len(<<>>) = 0
  OBVIOUS
<1> SUFFICES ASSUME Prepare!Init PROVE PrepareInv
  OBVIOUS
<1>2. /\ path \in Prepare!Paths /\ emitted = <<>> /\ prepared = <<>> /\ renamed = <<>>
      /\ pc = 1 /\ step = "compile"
  BY DEF Prepare!Init
<1>3. PrepareTypes
  BY <1>1, <1>2, PrototypeAssumption DEF PrepareTypes
<1>. QED
  BY <1>1, <1>2, <1>3 DEF PrepareInv, Emitted, Followed, Validated, Renames

\* The compiler looks at what is before an instruction only.
LEMMA EmitPrepareInv ==
    ASSUME PrepareInv, NEW ins \in Prepare!Instructions, Prepare!Emit(ins)
    PROVE  PrepareInv'
<1> DEFINE n == Len(emitted) + 1
<1>1. /\ step = "compile" /\ Len(emitted) < MaxCode /\ Prepare!Compiles(n, ins)
      /\ emitted' = Append(emitted, ins)
      /\ UNCHANGED <<path, prepared, renamed, pc, step>>
  BY DEF Prepare!Emit
<1>2. /\ emitted' \in Seq(Prepare!Instructions) /\ Len(emitted') = n
      /\ DOMAIN emitted' = 1..n /\ DOMAIN emitted = 1..(n - 1) /\ n \in Nat \ {0}
      /\ emitted'[n] = ins /\ \A i \in 1..(n - 1) : emitted'[i] = emitted[i]
  BY <1>1 DEF PrepareInv, PrepareTypes
<1>3. PrepareTypes'
  BY <1>1, <1>2, PrototypeAssumption DEF PrepareInv, PrepareTypes
<1>4. Emitted'
  <2> SUFFICES ASSUME NEW m \in 1..n PROVE Prepare!Compiles(m, emitted[m])'
    BY <1>2 DEF Emitted
  <2> DEFINE e == emitted'[m]
  <2>1. Prepare!Compiles(m, e)
    BY <1>1, <1>2 DEF PrepareInv, Emitted
  <2>2. \A i \in Int : 1 <= i /\ i < m => emitted'[i] = emitted[i]
    BY <1>2
  <2> HIDE DEF e, n
  <2>3. m \in Int
    BY <1>2
  <2>4. \A i \in 1..(m - 1) : i \in Int /\ 1 <= i /\ i < m
    BY <2>3
  <2>5. /\ m > 1 => 1 <= m - 1 /\ m - 1 < m /\ m - 1 \in Int
        /\ m > 2 => 1 <= m - 2 /\ m - 2 < m /\ m - 2 \in Int /\ m > 1
    BY <2>3
  <2>. QED
    BY <2>1, <2>2, <2>4, <2>5, Zenon DEF Prepare!Compiles, e
<1>5. prepared = <<>> /\ DOMAIN prepared = {}
  BY <1>1, SMTT(40) DEF PrepareInv, PrepareTypes
<1>. QED
  BY <1>1, <1>3, <1>4, <1>5 DEF PrepareInv, Followed, Validated, Renames

\* A loop over the instructions: at the last one, the next loop starts.
LEMMA TurnTaken ==
    ASSUME PrepareTypes, step # "compile", NEW next, Prepare!Turn(pc, next)
    PROVE  /\ pc \in 1..Len(prepared) /\ pc' \in 1..Len(prepared) /\ DOMAIN prepared = 1..Len(prepared)
           /\ \/ pc < Len(prepared) /\ pc' = pc + 1 /\ step' = step
              \/ pc = Len(prepared) /\ pc' = 1 /\ step' = next
<1>1. pc \in 1..Len(prepared) /\ DOMAIN prepared = 1..Len(prepared) /\ Len(prepared) \in Nat
  BY DEF PrepareTypes
<1> DEFINE n == Len(prepared)
<1>2. \/ pc < n /\ pc' = pc + 1 /\ step' = step
      \/ ~(pc < n) /\ pc' = 1 /\ step' = next
  BY DEF Prepare!Turn
<1>3. pc \in 1..n /\ n \in Nat
  BY <1>1
<1> HIDE DEF n
<1>4. /\ pc' \in 1..n
      /\ \/ pc < n /\ pc' = pc + 1 /\ step' = step
         \/ pc = n /\ pc' = 1 /\ step' = next
  BY <1>2, <1>3
<1>. QED  BY <1>1, <1>4 DEF n

\* What is emitted does not change after compilation.
LEMMA EmittedStays == Emitted /\ emitted' = emitted => Emitted'
<1> SUFFICES ASSUME Emitted, emitted' = emitted, NEW m \in DOMAIN emitted
             PROVE  Prepare!Compiles(m, emitted[m])'
  BY DEF Emitted
<1> DEFINE e == emitted[m]
<1>1. Prepare!Compiles(m, e)
  BY DEF Emitted
<1>2. e' = e /\ \A i : emitted'[i] = emitted[i]
  OBVIOUS
<1> HIDE DEF e
<1>. QED  BY <1>1, <1>2, Zenon DEF Prepare!Compiles, e

\* Each operation preserves the invariant.
LEMMA StartPrepareInv == PrepareInv /\ Prepare!Start => PrepareInv'
<1> SUFFICES ASSUME PrepareInv, Prepare!Start PROVE PrepareInv'
  OBVIOUS
<1> DEFINE n == Len(emitted)
<1>1. /\ step = "compile" /\ emitted # <<>> /\ pc = 1 /\ prepared' = emitted
      /\ renamed' = [i \in DOMAIN emitted |-> 0]
      /\ step' = IF path = "window" THEN "remap" ELSE "prepare"
      /\ UNCHANGED <<path, emitted, pc>>
  BY DEF Prepare!Start, PrepareInv, PrepareTypes
<1>2. emitted \in Seq(Prepare!Instructions) /\ DOMAIN emitted = 1..n /\ n \in Nat \ {0}
  BY <1>1 DEF PrepareInv, PrepareTypes
<1>3. renamed' \in Seq(Nat) /\ Len(renamed') = n
  <2>1. renamed' \in [1..n -> Nat]
    BY <1>1, <1>2
  <2>2. renamed' \in Seq(Nat)
    BY <1>2, <2>1, SeqDef
  <2>. QED  BY <1>2, <2>1, <2>2, LenProperties
<1>4. PrepareTypes'
  BY <1>1, <1>2, <1>3 DEF PrepareInv, PrepareTypes
<1>5. Emitted'
  BY <1>1, EmittedStays DEF PrepareInv
<1>6. Followed'
  <2>1. \A i \in DOMAIN emitted : Kept(emitted[i], emitted[i])
    BY DEF Kept
  <2>2. \A i \in DOMAIN emitted : Prepare!TakesOpen(emitted[i]) =>
           Prepare!GivesOpen(emitted[Prepare!Producer(emitted, i)])
    BY ProducerFound DEF PrepareInv
  <2>. QED  BY <1>1, <2>1, <2>2, Zenon DEF Followed
<1>7. Validated' /\ Renames'
  <2>1. path \in {"window", "register", "rename"}
    BY DEF PrepareInv, PrepareTypes, Prepare!Paths
  <2>. QED  BY <1>1, <1>2, <2>1 DEF Validated, Renames
<1>. QED  BY <1>4, <1>5, <1>6, <1>7 DEF PrepareInv

\* A step that changes no instruction.
LEMMA SameCode ==
    ASSUME PrepareInv, UNCHANGED <<path, emitted, prepared>>, step # "compile", step' # "compile",
           renamed' \in Seq(Nat), Len(renamed') = Len(renamed), pc' \in DOMAIN prepared,
           step' \in {"compile", "remap", "prepare", "collect", "resolve", "ok", "refused"}
    PROVE  PrepareTypes' /\ Emitted' /\ Followed'
<1>1. PrepareTypes'
  BY DEF PrepareInv, PrepareTypes
<1>2. Emitted'
  BY EmittedStays DEF PrepareInv
<1>3. Followed'
  BY DEF PrepareInv, Followed
<1>. QED  BY <1>1, <1>2, <1>3

\* Renaming an opcode keeps the invariant.
LEMMA RemapPrepareInv == PrepareInv /\ Prepare!RemapIns => PrepareInv'
<1> SUFFICES ASSUME PrepareInv, Prepare!RemapIns PROVE PrepareInv'
  OBVIOUS
<1> DEFINE n == Len(prepared)
<1>0. CASE prepared[pc].op = "FOREIGN"
  <2>1. /\ step = "remap" /\ step' = "refused"
        /\ UNCHANGED <<path, emitted, prepared, renamed, pc>>
    BY <1>0 DEF Prepare!RemapIns, Prepare!Refuse
  <2>2. pc \in DOMAIN prepared
    BY <2>1 DEF PrepareInv, PrepareTypes
  <2>3. PrepareTypes' /\ Emitted' /\ Followed'
    BY <2>1, <2>2, SameCode DEF PrepareInv, PrepareTypes
  <2>. QED  BY <2>1, <2>3 DEF PrepareInv, Validated, Renames
<1> SUFFICES ASSUME prepared[pc].op # "FOREIGN" PROVE PrepareInv'
  BY <1>0
<1>1. /\ step = "remap" /\ renamed' = [renamed EXCEPT ![pc] = @ + 1]
      /\ Prepare!Turn(pc, "prepare") /\ UNCHANGED <<path, emitted, prepared>>
  BY DEF Prepare!RemapIns
<1>2. /\ pc \in 1..n /\ pc' \in 1..n /\ DOMAIN prepared = 1..n
      /\ \/ pc < n /\ pc' = pc + 1 /\ step' = "remap"
         \/ pc = n /\ pc' = 1 /\ step' = "prepare"
  BY <1>1, TurnTaken DEF PrepareInv
<1>3. renamed \in Seq(Nat) /\ Len(renamed) = n /\ DOMAIN renamed = 1..n
  BY DEF PrepareInv, PrepareTypes
<1> HIDE DEF n
<1>4. /\ renamed' \in Seq(Nat) /\ Len(renamed') = Len(renamed)
      /\ \A i \in DOMAIN renamed : renamed'[i] = IF i = pc THEN renamed[i] + 1 ELSE renamed[i]
  <2>1. pc \in 1..Len(renamed) /\ renamed[pc] \in Nat
    BY <1>2, <1>3, ElementOfSeq
  <2>2. renamed[pc] + 1 \in Nat
    BY <2>1
  <2>. QED  BY <1>1, <1>3, <2>1, <2>2, ExceptSeq
<1>5. PrepareTypes' /\ Emitted' /\ Followed'
  BY <1>1, <1>2, <1>4, SameCode
<1>6. Validated'
  BY <1>1, <1>2 DEF Validated
<1>7. Renames'
  <2>1. path = "window"
    BY <1>1 DEF PrepareInv, Renames
  <2>2. \A i \in DOMAIN prepared : renamed[i] = IF i >= pc THEN 0 ELSE 1
    BY <1>1, <2>1 DEF PrepareInv, Renames
  <2>4. ASSUME NEW i \in DOMAIN prepared
        PROVE  renamed'[i] = IF step' = "remap" /\ i >= pc' THEN 0 ELSE 1
    <3>1. renamed'[i] = IF i = pc THEN renamed[i] + 1 ELSE renamed[i]
      BY <1>2, <1>3, <1>4
    <3>2. renamed'[i] = IF i > pc THEN 0 ELSE 1
      <4>1. renamed[i] = IF i >= pc THEN 0 ELSE 1
        BY <2>2
      <4>2. i \in Int /\ pc \in Int
        BY <1>2
      <4>. QED  BY <3>1, <4>1, <4>2
    <3>3. i \in 1..n /\ (i > pc <=> step' = "remap" /\ i >= pc')
      BY <1>2
    <3>. QED  BY <3>2, <3>3
  <2>. QED  BY <1>1, <1>2, <2>1, <2>4 DEF Renames
<1>. QED  BY <1>5, <1>6, <1>7 DEF PrepareInv

\* So does collecting the targets.
LEMMA CollectPrepareInv == PrepareInv /\ Prepare!Collect => PrepareInv'
<1> SUFFICES ASSUME PrepareInv, Prepare!Collect PROVE PrepareInv'
  OBVIOUS
<1>1. /\ step = "collect" /\ UNCHANGED <<path, emitted, prepared, renamed, pc>>
      /\ step' = IF \E i \in DOMAIN prepared : prepared[i].op \in {"CALLM", "CALLMT", "RETM"}
                 THEN "refused" ELSE "resolve"
  BY DEF Prepare!Collect
<1>2. PrepareTypes' /\ Emitted' /\ Followed'
  <2>1. pc \in DOMAIN prepared /\ renamed \in Seq(Nat)
    BY <1>1 DEF PrepareInv, PrepareTypes
  <2>. QED  BY <1>1, <2>1, SameCode
<1>3. path = "register" /\ pc = 1
  BY <1>1 DEF PrepareInv, Validated
<1>4. Renames'
  BY <1>1, <1>3 DEF PrepareInv, Renames
<1>5. pc = 1 /\ DOMAIN prepared = 1..Len(prepared)
  BY <1>3 DEF PrepareInv, PrepareTypes
<1>6. Validated'
  <2>1. CASE \E i \in DOMAIN prepared : prepared[i].op \in {"CALLM", "CALLMT", "RETM"}
    BY <1>1, <2>1 DEF Validated
  <2>2. CASE ~ \E i \in DOMAIN prepared : prepared[i].op \in {"CALLM", "CALLMT", "RETM"}
    <3>1. \A i \in DOMAIN prepared : ~(i < pc)
      BY <1>5
    <3>. QED  BY <1>1, <1>3, <2>2, <3>1 DEF Validated
  <2>. QED  BY <2>1, <2>2
<1>. QED  BY <1>2, <1>4, <1>6 DEF PrepareInv

\* So does resolving an open call.
LEMMA ResolvePrepareInv == PrepareInv /\ Prepare!ResolveIns => PrepareInv'
<1> SUFFICES ASSUME PrepareInv, Prepare!ResolveIns PROVE PrepareInv'
  OBVIOUS
<1> DEFINE n == Len(prepared)
<1>1. step = "resolve" /\ UNCHANGED <<path, emitted, renamed>>
  BY DEF Prepare!ResolveIns
<1>2. path \in {"register", "rename"} /\ renamed \in Seq(Nat) /\ pc \in DOMAIN prepared
  BY <1>1 DEF PrepareInv, PrepareTypes, Prepare!Paths, Renames
<1>3. CASE path = "register" /\ ~Prepare!Paired(prepared, pc)
  <2>1. step' = "refused" /\ UNCHANGED <<prepared, pc>>
    BY <1>3 DEF Prepare!ResolveIns, Prepare!Refuse
  <2>2. PrepareTypes' /\ Emitted' /\ Followed'
    BY <1>1, <1>2, <2>1, SameCode
  <2>. QED  BY <2>1, <2>2 DEF PrepareInv, Validated, Renames
<1>4. CASE ~(path = "register" /\ ~Prepare!Paired(prepared, pc))
  <2>1. Prepare!Turn(pc, "ok") /\ UNCHANGED prepared
    BY <1>4 DEF Prepare!ResolveIns
  <2>2. /\ pc \in 1..n /\ pc' \in 1..n /\ DOMAIN prepared = 1..n
        /\ \/ pc < n /\ pc' = pc + 1 /\ step' = "resolve"
           \/ pc = n /\ pc' = 1 /\ step' = "ok"
    BY <1>1, <2>1, TurnTaken DEF PrepareInv
  <2> HIDE DEF n
  <2>3. PrepareTypes' /\ Emitted' /\ Followed'
    BY <1>1, <1>2, <2>1, <2>2, SameCode
  <2>4. Renames'
    BY <1>1, <1>2, <2>1, <2>2 DEF PrepareInv, Renames
  <2>5. Validated'
    <3> SUFFICES ASSUME path = "register", NEW i \in 1..n
                 PROVE  /\ prepared[i].op \notin {"CALLM", "CALLMT", "RETM"}
                        /\ i < pc' \/ step' = "ok" => Prepare!Paired(prepared, i)
      BY <1>1, <2>1, <2>2 DEF Validated, Prepare!Paired, Prepare!GivesOpen
    <3>1. /\ prepared[i].op \notin {"CALLM", "CALLMT", "RETM"}
          /\ i < pc => Prepare!Paired(prepared, i)
      BY <1>1, <2>2 DEF PrepareInv, Validated
    <3>2. i < pc' \/ step' = "ok" => i < pc \/ i = pc
      BY <1>1, <2>2
    <3>. QED  BY <1>4, <3>1, <3>2
  <2>. QED  BY <2>3, <2>4, <2>5 DEF PrepareInv
<1>. QED  BY <1>3, <1>4

\* Conversion keeps the places of producers and consumers.
LEMMA SamePlaces ==
    ASSUME PrepareTypes, Emitted, step # "compile",
           NEW prog \in Seq(Prepare!Instructions), Len(prog) = Len(emitted),
           \A i \in DOMAIN prog : Kept(emitted[i], prog[i])
    PROVE  /\ DOMAIN prog = 1..Len(emitted) /\ DOMAIN emitted = 1..Len(emitted)
           /\ DOMAIN prepared = 1..Len(emitted)
           /\ \A i \in DOMAIN prog : Prepare!TakesOpen(prog[i]) =>
                 /\ Prepare!TakesOpen(emitted[i])
                 /\ emitted[i].op = prog[i].op /\ emitted[i].c = prog[i].c
           /\ \A i \in DOMAIN prog : Prepare!TakesOpen(emitted[i]) =>
                 Prepare!Producer(prog, i) = Prepare!Producer(emitted, i)
<1>1. /\ DOMAIN prog = 1..Len(emitted) /\ DOMAIN emitted = 1..Len(emitted)
      /\ DOMAIN prepared = 1..Len(emitted) /\ Len(emitted) \in Nat
  BY DEF PrepareTypes
<1>2. ASSUME NEW i \in DOMAIN prog, Prepare!TakesOpen(prog[i])
      PROVE  /\ Prepare!TakesOpen(emitted[i])
             /\ emitted[i].op = prog[i].op /\ emitted[i].c = prog[i].c
  BY <1>2 DEF Kept, Prepare!TakesOpen
<1>3. ASSUME NEW i \in DOMAIN prog, Prepare!TakesOpen(emitted[i])
      PROVE  Prepare!Producer(prog, i) = Prepare!Producer(emitted, i)
  <2>1. i > 1
    BY <1>1, <1>3, ProducerFound
  <2>2. i - 1 \in DOMAIN prog
    BY <1>1, <2>1
  <2>3. prog[i - 1].op = "UCLO" <=> emitted[i - 1].op = "UCLO"
    BY <2>2 DEF Kept
  <2>. QED  BY <2>3 DEF Prepare!Producer
<1>. QED  BY <1>1, <1>2, <1>3

\* A downgraded call, and its producer with one result.
LEMMA DowngradeFollowed ==
    ASSUME PrepareInv, step = "prepare", Prepare!Downgrades(prepared, pc),
           Prepare!Collapsed(prepared, pc) # <<>>, UNCHANGED emitted,
           prepared' = [Prepare!Collapsed(prepared, pc) EXCEPT ![pc] = Prepare!Downgraded(prepared[pc])]
    PROVE  /\ prepared' \in Seq(Prepare!Instructions) /\ Len(prepared') = Len(prepared)
           /\ Followed'
<1> DEFINE p == Prepare!Producer(prepared, pc)
           n == Len(emitted)
           ins == prepared[pc]
           one == [prepared EXCEPT ![p].b = 2]
<1>1. /\ prepared \in Seq(Prepare!Instructions) /\ Len(prepared) = n /\ pc \in DOMAIN prepared
      /\ n \in Nat /\ PrepareTypes /\ Emitted /\ Followed
  BY DEF PrepareInv, PrepareTypes
<1>2. /\ DOMAIN prepared = 1..n /\ DOMAIN emitted = 1..n
      /\ \A i \in 1..n : Prepare!TakesOpen(prepared[i]) =>
             /\ Prepare!TakesOpen(emitted[i])
             /\ emitted[i].op = prepared[i].op /\ emitted[i].c = prepared[i].c
      /\ \A i \in 1..n : Prepare!TakesOpen(emitted[i]) =>
             Prepare!Producer(prepared, i) = Prepare!Producer(emitted, i)
  BY <1>1, SamePlaces DEF Followed
<1>3. ins.op \in {"CALLM", "CALLMT"}
  BY DEF Prepare!Downgrades
<1>4. /\ Prepare!TakesOpen(emitted[pc]) /\ emitted[pc].op = ins.op /\ emitted[pc].c = ins.c
      /\ p = Prepare!Producer(emitted, pc)
  BY <1>1, <1>2, <1>3 DEF Prepare!TakesOpen
<1>5. /\ p \in 1..n /\ p < pc /\ ins.c <= MaxFixed
      /\ \A m \in 1..n : Prepare!TakesOpen(emitted[m])
             /\ Prepare!Producer(emitted, m) = p => m = pc
  BY <1>1, <1>2, <1>4, ProducerFound
<1>6. Prepare!Collapsed(prepared, pc) = one /\ prepared[p].op \in {"CALL", "VARG"}
  BY DEF Prepare!Collapsed
<1>7. /\ ins \in Prepare!Instructions /\ prepared[p] \in Prepare!Instructions
      /\ Prepare!Downgraded(ins) \in Prepare!Instructions
      /\ [prepared[p] EXCEPT !.b = 2] \in Prepare!Instructions
  <2>1. ins \in Prepare!Instructions /\ prepared[p] \in Prepare!Instructions
    BY <1>1, <1>2, <1>5, ElementOfSeq
  <2>. QED  BY <2>1, <1>3, <1>5, <1>6, InstructionFields
<1>8. /\ one \in Seq(Prepare!Instructions) /\ Len(one) = n
      /\ \A j \in 1..n : one[j] = IF j = p THEN [prepared[p] EXCEPT !.b = 2] ELSE prepared[j]
  <2> DEFINE e == [prepared[p] EXCEPT !.b = 2]
  <2>1. one = [prepared EXCEPT ![p] = e]
    OBVIOUS
  <2>2. e \in Prepare!Instructions
    BY <1>7
  <2> HIDE DEF e, one
  <2>3. p \in 1..Len(prepared)
    BY <1>1, <1>5
  <2>4. one \in Seq(Prepare!Instructions) /\ Len(one) = Len(prepared)
        /\ \A j \in 1..Len(prepared) : one[j] = IF j = p THEN e ELSE prepared[j]
    BY <1>1, <2>1, <2>2, <2>3, ExceptSeq
  <2>. QED  BY <1>1, <2>4 DEF e
<1>9. /\ prepared' \in Seq(Prepare!Instructions) /\ Len(prepared') = n
      /\ \A j \in 1..n : prepared'[j] = IF j = pc THEN Prepare!Downgraded(ins) ELSE one[j]
  <2> DEFINE e == Prepare!Downgraded(ins)
  <2>1. prepared' = [one EXCEPT ![pc] = e] /\ e \in Prepare!Instructions /\ pc \in 1..Len(one)
    BY <1>1, <1>2, <1>6, <1>7, <1>8
  <2> HIDE DEF e, one
  <2>2. /\ prepared' \in Seq(Prepare!Instructions) /\ Len(prepared') = Len(one)
        /\ \A j \in 1..Len(one) : prepared'[j] = IF j = pc THEN e ELSE one[j]
    <3>1. one \in Seq(Prepare!Instructions)
      BY <1>8
    <3>2. pc \in 1..Len(one) /\ e \in Prepare!Instructions
      BY <2>1
    <3>3. /\ [one EXCEPT ![pc] = e] \in Seq(Prepare!Instructions)
          /\ Len([one EXCEPT ![pc] = e]) = Len(one)
          /\ \A j \in 1..Len(one) : [one EXCEPT ![pc] = e][j] = IF j = pc THEN e ELSE one[j]
      BY <3>1, <3>2, ExceptSeq
    <3>. QED  BY <2>1, <3>3
  <2>. QED  BY <1>8, <2>2 DEF e
<1>10. /\ prepared'[pc] = Prepare!Downgraded(ins) /\ prepared'[p] = [prepared[p] EXCEPT !.b = 2]
       /\ \A j \in 1..n : j # pc /\ j # p => prepared'[j] = prepared[j]
  <2>1. p # pc /\ p \in 1..n /\ pc \in 1..n
    BY <1>1, <1>2, <1>5
  <2> HIDE DEF p, n, ins, one
  <2>. QED  BY <1>8, <1>9, <2>1
<1>11. /\ Prepare!Downgraded(ins).a = ins.a /\ Prepare!Downgraded(ins).c = ins.c + 2
       /\ Prepare!Downgraded(ins).op = IF ins.op = "CALLM" THEN "CALL" ELSE "CALLT"
       /\ [prepared[p] EXCEPT !.b = 2].a = prepared[p].a
       /\ [prepared[p] EXCEPT !.b = 2].c = prepared[p].c
       /\ [prepared[p] EXCEPT !.b = 2].op = prepared[p].op
  BY <1>7, InstructionFields DEF Prepare!Downgraded
<1>12. ASSUME NEW i \in 1..n PROVE Kept(emitted[i], prepared'[i])
  <2>1. Kept(emitted[i], prepared[i])
    BY <1>1, <1>2 DEF Followed
  <2>2. i = pc => prepared'[i].a = prepared[i].a /\ prepared'[i].c = prepared[i].c + 2
                  /\ prepared'[i].op = IF ins.op = "CALLM" THEN "CALL" ELSE "CALLT"
    BY <1>10, <1>11
  <2>3. i # pc => prepared'[i].a = prepared[i].a /\ prepared'[i].c = prepared[i].c
                  /\ prepared'[i].op = prepared[i].op
    BY <1>10, <1>11
  <2>4. CASE i = pc
    BY <1>3, <1>4, <2>1, <2>2, <2>4 DEF Kept
  <2>5. CASE i # pc
    BY <2>1, <2>3, <2>5 DEF Kept
  <2>. QED  BY <2>4, <2>5
<1>. HIDE DEF p, n, ins, one
<1>13. ASSUME NEW i \in 1..n, Prepare!TakesOpen(prepared'[i])
       PROVE  \/ prepared'[Prepare!Producer(prepared', i)].op = "CALL"
              \/ Prepare!GivesOpen(prepared'[Prepare!Producer(prepared', i)])
  <2> DEFINE q == Prepare!Producer(emitted, i)
  <2>1. i # pc
    BY <1>3, <1>10, <1>11, <1>13 DEF Prepare!TakesOpen
  <2>2. Prepare!TakesOpen(prepared[i])
    BY <1>10, <1>11, <1>13, <2>1 DEF Prepare!TakesOpen
  <2>3. Prepare!TakesOpen(emitted[i]) /\ q = Prepare!Producer(prepared, i)
    BY <1>2, <2>2
  <2>4. q = Prepare!Producer(prepared', i)
    <3>0. step # "compile"
      OBVIOUS
    <3>1. \A j \in DOMAIN prepared' : Kept(emitted[j], prepared'[j])
      BY <1>9, <1>12
    <3>2. i \in DOMAIN prepared' /\ Len(prepared') = Len(emitted)
      BY <1>9 DEF n
    <3>. QED  BY <1>1, <1>9, <2>3, <3>0, <3>1, <3>2, SamePlaces
  <2>5. q # p /\ q \in 1..n /\ Prepare!GivesOpen(emitted[q])
    BY <1>1, <1>2, <1>5, <2>1, <2>3, ProducerFound
  <2>6. prepared[q].op = "CALL" \/ Prepare!GivesOpen(prepared[q])
    BY <1>1, <1>2, <2>2, <2>3 DEF Followed
  <2> HIDE DEF q
  <2>7. CASE q = pc
    <3>1. ins.op = "CALLM"
      BY <1>3, <1>4, <2>5, <2>7 DEF Prepare!GivesOpen
    <3>. QED  BY <1>10, <1>11, <2>4, <2>7, <3>1
  <2>8. CASE q # pc
    BY <1>10, <2>4, <2>5, <2>6, <2>8
  <2>. QED  BY <2>7, <2>8
<1>14. DOMAIN prepared' = 1..n /\ Len(prepared') = Len(prepared)
  BY <1>1, <1>9
<1>15. Followed'
  <2>1. \A i \in DOMAIN prepared' : Kept(emitted'[i], prepared'[i])
    BY <1>12, <1>14
  <2>2. ASSUME NEW i \in DOMAIN prepared', Prepare!TakesOpen(prepared'[i])
        PROVE  \/ prepared'[Prepare!Producer(prepared', i)].op = "CALL"
               \/ Prepare!GivesOpen(prepared'[Prepare!Producer(prepared', i)])
    BY <1>13, <1>14, <2>2
  <2>. QED  BY <2>1, <2>2, Zenon DEF Followed
<1>. QED  BY <1>9, <1>14, <1>15

\* An instruction that is not downgraded, specialized or not.
LEMMA PlainFollowed ==
    ASSUME PrepareInv, step = "prepare", UNCHANGED emitted,
           \/ prepared' = [prepared EXCEPT ![pc].op = Prepare!PlainOp(@)]
           \/ prepared' = prepared
    PROVE  /\ prepared' \in Seq(Prepare!Instructions) /\ Len(prepared') = Len(prepared)
           /\ Followed'
<1> DEFINE n == Len(emitted)
           e == [prepared[pc] EXCEPT !.op = Prepare!PlainOp(@)]
           r == [prepared EXCEPT ![pc] = e]
<1>1. /\ prepared \in Seq(Prepare!Instructions) /\ Len(prepared) = n /\ pc \in DOMAIN prepared
      /\ n \in Nat /\ DOMAIN prepared = 1..n /\ PrepareTypes /\ Emitted /\ Followed
  BY DEF PrepareInv, PrepareTypes
<1>2. prepared' = prepared => Followed'
  BY <1>1 DEF Followed
<1>3. CASE prepared' = r
  <2>1. prepared[pc] \in Prepare!Instructions
    BY <1>1, ElementOfSeq
  <2>2. /\ e \in Prepare!Instructions /\ e.a = prepared[pc].a /\ e.b = prepared[pc].b
        /\ e.c = prepared[pc].c /\ e.op = Prepare!PlainOp(prepared[pc].op)
    BY <2>1, InstructionFields
  <2>3. \/ prepared[pc].op = "ISNEXT" /\ e.op = "JMP"
        \/ prepared[pc].op = "ITERN" /\ e.op = "ITERC"
        \/ e.op = prepared[pc].op
    BY <2>2 DEF Prepare!PlainOp
  <2>4. /\ prepared' \in Seq(Prepare!Instructions) /\ Len(prepared') = n
        /\ \A j \in 1..n : prepared'[j] = IF j = pc THEN e ELSE prepared[j]
    <3> HIDE DEF e
    <3>1. pc \in 1..Len(prepared)
      BY <1>1
    <3>2. /\ r \in Seq(Prepare!Instructions) /\ Len(r) = Len(prepared)
          /\ \A j \in 1..Len(prepared) : r[j] = IF j = pc THEN e ELSE prepared[j]
      BY <1>1, <2>2, <3>1, ExceptSeq
    <3>. QED  BY <1>1, <1>3, <3>2
  <2> HIDE DEF e, n, r
  <2>5. ASSUME NEW i \in 1..n
        PROVE  /\ Kept(emitted[i], prepared'[i])
               /\ prepared'[i].a = prepared[i].a /\ prepared'[i].b = prepared[i].b
               /\ \/ prepared'[i].op = prepared[i].op
                  \/ prepared[i].op = "ISNEXT" /\ prepared'[i].op = "JMP"
                  \/ prepared[i].op = "ITERN" /\ prepared'[i].op = "ITERC"
    <3>1. Kept(emitted[i], prepared[i])
      BY <1>1 DEF Followed
    <3>. QED  BY <2>2, <2>3, <2>4, <3>1 DEF Kept
  <2>6. ASSUME NEW i \in 1..n, Prepare!TakesOpen(prepared'[i])
        PROVE  \/ prepared'[Prepare!Producer(prepared', i)].op = "CALL"
               \/ Prepare!GivesOpen(prepared'[Prepare!Producer(prepared', i)])
    <3> DEFINE q == Prepare!Producer(emitted, i)
    <3>1. Prepare!TakesOpen(prepared[i])
      BY <2>5, <2>6 DEF Prepare!TakesOpen
    <3>2. Prepare!TakesOpen(emitted[i]) /\ q = Prepare!Producer(prepared, i)
      BY <1>1, <3>1, SamePlaces DEF Followed, n
    <3>3. q = Prepare!Producer(prepared', i)
      <4>1. \A j \in DOMAIN prepared' : Kept(emitted[j], prepared'[j])
        BY <2>4, <2>5
      <4>2. i \in DOMAIN prepared' /\ Len(prepared') = Len(emitted)
        BY <2>4 DEF n
      <4>3. step # "compile"
        OBVIOUS
      <4>. QED  BY <1>1, <2>4, <3>2, <4>1, <4>2, <4>3, SamePlaces
    <3>4. DOMAIN emitted = 1..n
      BY <1>1 DEF PrepareTypes, n
    <3>5. q \in 1..n
      BY <1>1, <3>2, <3>4, ProducerFound
    <3>6. prepared[q].op = "CALL" \/ Prepare!GivesOpen(prepared[q])
      BY <1>1, <3>1, <3>2 DEF Followed
    <3> HIDE DEF q
    <3>7. /\ prepared'[q].b = prepared[q].b
          /\ \/ prepared'[q].op = prepared[q].op
             \/ prepared[q].op \in {"ISNEXT", "ITERN"}
      BY <2>5, <3>5
    <3>. QED  BY <3>3, <3>6, <3>7 DEF Prepare!GivesOpen
  <2>7. DOMAIN prepared' = 1..n
    BY <2>4
  <2>8. Followed'
    <3>1. \A i \in DOMAIN prepared' : Kept(emitted'[i], prepared'[i])
      BY <2>5, <2>7
    <3>2. ASSUME NEW i \in DOMAIN prepared', Prepare!TakesOpen(prepared'[i])
          PROVE  \/ prepared'[Prepare!Producer(prepared', i)].op = "CALL"
                 \/ Prepare!GivesOpen(prepared'[Prepare!Producer(prepared', i)])
      BY <2>6, <2>7, <3>2
    <3>. QED  BY <3>1, <3>2, Zenon DEF Followed
  <2>. QED  BY <1>1, <2>4, <2>8
<1>. QED  BY <1>1, <1>2, <1>3

\* So does preparing an instruction.
LEMMA PreparePrepareInv == PrepareInv /\ Prepare!PrepareIns => PrepareInv'
<1> SUFFICES ASSUME PrepareInv, Prepare!PrepareIns PROVE PrepareInv'
  OBVIOUS
<1> DEFINE n == Len(prepared)
           next == CASE path = "window" -> "ok"
                     [] path = "register" -> "collect"
                     [] OTHER -> "resolve"
           stops == \/ prepared[pc].op = "FOREIGN"
                    \/ Prepare!Downgrades(prepared, pc)
                       /\ (Prepare!TooMany(prepared[pc]) \/ Prepare!Collapsed(prepared, pc) = <<>>)
                    \/ /\ ~Prepare!Downgrades(prepared, pc)
                       /\ path = "register" /\ prepared[pc].op = "ISNEXT"
                       /\ (prepared[pc].to \notin DOMAIN prepared
                           \/ prepared[prepared[pc].to].op \notin {"ITERN", "ITERC"})
<1>1. /\ step = "prepare" /\ UNCHANGED <<path, emitted>>
      /\ renamed' = IF path = "rename" /\ step' # "refused"
                    THEN [renamed EXCEPT ![pc] = @ + 1] ELSE renamed
  BY DEF Prepare!PrepareIns
<1>2. path \in {"window", "register", "rename"} /\ renamed \in Seq(Nat) /\ pc \in DOMAIN prepared
  BY <1>1 DEF PrepareInv, PrepareTypes, Prepare!Paths
<1>3. CASE stops
  <2>1. step' = "refused" /\ UNCHANGED <<prepared, pc>>
    BY <1>3 DEF Prepare!PrepareIns, Prepare!Refuse
  <2>2. renamed' = renamed
    BY <1>1, <2>1
  <2>3. PrepareTypes' /\ Emitted' /\ Followed'
    BY <1>1, <1>2, <2>1, <2>2, SameCode
  <2>. QED  BY <2>1, <2>3 DEF PrepareInv, Validated, Renames
<1>4. CASE ~stops
  <2>1. Prepare!Turn(pc, next)
    BY <1>4 DEF Prepare!PrepareIns
  <2>2. /\ prepared' \in Seq(Prepare!Instructions) /\ Len(prepared') = Len(prepared)
        /\ Followed'
    <3>1. CASE Prepare!Downgrades(prepared, pc)
      <4>1. /\ Prepare!Collapsed(prepared, pc) # <<>>
            /\ prepared' = [Prepare!Collapsed(prepared, pc) EXCEPT
                               ![pc] = Prepare!Downgraded(prepared[pc])]
        BY <1>4, <3>1 DEF Prepare!PrepareIns
      <4>. QED  BY <1>1, <3>1, <4>1, DowngradeFollowed
    <3>2. CASE ~Prepare!Downgrades(prepared, pc)
      <4>1. prepared' = IF path = "register"
                        THEN [prepared EXCEPT ![pc].op = Prepare!PlainOp(@)] ELSE prepared
        BY <1>4, <3>2 DEF Prepare!PrepareIns
      <4>. QED  BY <1>1, <4>1, PlainFollowed
    <3>. QED  BY <3>1, <3>2
  <2>3. /\ path = "window" => next = "ok"
        /\ path = "register" => next = "collect"
        /\ path = "rename" => next = "resolve"
    OBVIOUS
  <2> HIDE DEF next, stops
  <2>4. /\ pc \in 1..n /\ pc' \in 1..n /\ DOMAIN prepared = 1..n
        /\ \/ pc < n /\ pc' = pc + 1 /\ step' = "prepare"
           \/ pc = n /\ pc' = 1 /\ step' = next
    BY <1>1, <2>1, TurnTaken DEF PrepareInv
  <2>5. Len(renamed) = n /\ DOMAIN renamed = 1..n /\ Len(emitted) = n
    BY <1>1 DEF PrepareInv, PrepareTypes
  <2>6. DOMAIN prepared' = 1..n
    BY <2>2, <2>4
  <2> HIDE DEF n
  <2>7. /\ renamed' \in Seq(Nat) /\ Len(renamed') = n
        /\ path = "rename" => \A j \in 1..n : renamed'[j] = IF j = pc THEN renamed[j] + 1 ELSE renamed[j]
        /\ path # "rename" => renamed' = renamed
    <3>1. pc \in 1..Len(renamed) /\ renamed[pc] \in Nat
      BY <1>2, <2>4, <2>5, ElementOfSeq
    <3>2. renamed[pc] + 1 \in Nat
      BY <3>1
    <3>3. /\ [renamed EXCEPT ![pc] = @ + 1] \in Seq(Nat)
          /\ Len([renamed EXCEPT ![pc] = @ + 1]) = Len(renamed)
          /\ \A j \in 1..Len(renamed) : [renamed EXCEPT ![pc] = @ + 1][j] =
                IF j = pc THEN renamed[pc] + 1 ELSE renamed[j]
      BY <1>2, <3>1, <3>2, ExceptSeq
    <3>4. path = "rename" => step' # "refused"
      BY <2>3, <2>4
    <3>. QED  BY <1>1, <1>2, <2>5, <3>3, <3>4
  <2>8. PrepareTypes'
    BY <1>1, <1>2, <2>2, <2>3, <2>4, <2>5, <2>6, <2>7 DEF PrepareInv, PrepareTypes, n
  <2>9. Emitted'
    BY <1>1, EmittedStays DEF PrepareInv
  <2>10. Validated'
    BY <1>1, <1>2, <2>3, <2>4 DEF Validated
  <2>11. Renames'
    <3>1. /\ step' = "remap" => path = "window"
          /\ step' = "resolve" => path # "window"
      BY <1>2, <2>3, <2>4
    <3>2. ASSUME NEW j \in 1..n
          PROVE  \/ path = "register" /\ renamed'[j] = 0
                 \/ path = "window" /\ renamed'[j] = 1
                 \/ path = "rename" /\ renamed'[j] = IF step' = "prepare" /\ j >= pc' THEN 0 ELSE 1
      <4>1. \/ path = "register" /\ renamed[j] = 0
            \/ path = "window" /\ renamed[j] = 1
            \/ path = "rename" /\ renamed[j] = IF j >= pc THEN 0 ELSE 1
        BY <1>1, <2>4 DEF PrepareInv, Renames
      <4>2. CASE path = "rename"
        <5>1. renamed'[j] = IF j = pc THEN renamed[j] + 1 ELSE renamed[j]
          BY <2>7, <4>2
        <5>2. renamed'[j] = IF j > pc THEN 0 ELSE 1
          BY <2>4, <4>1, <4>2, <5>1
        <5>3. j > pc <=> step' = "prepare" /\ j >= pc'
          BY <2>3, <2>4, <4>2
        <5>. QED  BY <4>2, <5>2, <5>3
      <4>. QED  BY <2>7, <4>1, <4>2
    <3>3. step' # "remap"
      BY <1>2, <2>3, <2>4
    <3>. QED  BY <1>1, <2>6, <3>1, <3>2, <3>3 DEF Renames
  <2>. QED  BY <2>2, <2>8, <2>9, <2>10, <2>11 DEF PrepareInv
<1>. QED  BY <1>3, <1>4

\* The invariant holds of every prototype that the compiler emits.
THEOREM PrepareInvariance == Prepare!Spec => []PrepareInv
<1>1. PrepareInv /\ [Prepare!Next]_(Prepare!vars) => PrepareInv'
  <2> SUFFICES ASSUME PrepareInv, [Prepare!Next]_(Prepare!vars) PROVE PrepareInv'
    OBVIOUS
  <2>1. CASE \E ins \in Prepare!Instructions : Prepare!Emit(ins)
    BY <2>1, EmitPrepareInv
  <2>2. CASE UNCHANGED Prepare!vars
    <3>1. UNCHANGED <<path, emitted, prepared, renamed, pc, step>>
      BY <2>2 DEF Prepare!vars
    <3>2. Emitted'
      BY <3>1, EmittedStays DEF PrepareInv
    <3>3. PrepareTypes' /\ Followed' /\ Validated' /\ Renames'
      BY <3>1 DEF PrepareInv, PrepareTypes, Followed, Validated, Renames
    <3>. QED  BY <3>2, <3>3 DEF PrepareInv
  <2>. QED  BY <2>1, <2>2, StartPrepareInv, RemapPrepareInv, PreparePrepareInv, CollectPrepareInv,
               ResolvePrepareInv DEF Prepare!Next
<1>. QED  BY <1>1, InitPrepareInv, PTL DEF Prepare!Spec

\* A downgraded call has the arguments it had: its fixed ones, and the first
\* open result, which lies right behind them.
LEMMA SameConsumed == PrepareInv => FirstResultPassed
<1> SUFFICES ASSUME PrepareInv, NEW i \in DOMAIN prepared
             PROVE  Prepare!Consumed(prepared, i) = Prepare!Consumed(emitted, i)
  BY DEF FirstResultPassed, Prepare!FirstResultPassed
<1> DEFINE c == prepared[i]
           s == emitted[i]
           q == Prepare!Producer(emitted, i)
<1>1. /\ step # "compile" /\ PrepareTypes /\ Emitted /\ Followed
      /\ prepared \in Seq(Prepare!Instructions) /\ Len(prepared) = Len(emitted)
  <2>1. step = "compile" => DOMAIN prepared = {}
    BY DEF PrepareInv, PrepareTypes
  <2>. QED  BY <2>1 DEF PrepareInv, PrepareTypes
<1>2. /\ DOMAIN prepared = DOMAIN emitted
      /\ Prepare!TakesOpen(c) => Prepare!TakesOpen(s) /\ s.op = c.op /\ s.c = c.c
      /\ Prepare!TakesOpen(s) => Prepare!Producer(prepared, i) = q
  BY <1>1, SamePlaces DEF Followed
<1>3. Kept(s, c)
  BY <1>1 DEF Followed
<1>4. s \in Prepare!Instructions
  BY <1>1, <1>2, ElementOfSeq DEF PrepareTypes
<1>5. s.a \in Nat /\ s.c \in Nat
  BY <1>4, InstructionFields
<1>6. Prepare!TakesOpen(s) =>
        /\ prepared[q].a = emitted[q].a
        /\ s.op \in {"CALLM", "CALLMT"} => emitted[q].a = s.a + 1 + s.c
  <2> SUFFICES ASSUME Prepare!TakesOpen(s)
               PROVE  /\ prepared[q].a = emitted[q].a
                      /\ s.op \in {"CALLM", "CALLMT"} => emitted[q].a = s.a + 1 + s.c
    OBVIOUS
  <2>1. q \in DOMAIN emitted
    BY <1>1, <1>2, ProducerFound
  <2>. QED  BY <1>1, <1>2, <2>1, ProducerFound DEF Followed, Kept
<1>7. CASE Prepare!TakesOpen(c)
  BY <1>2, <1>3, <1>6, <1>7 DEF Prepare!Consumed, Prepare!TakesOpen, Kept
<1>8. CASE s.op \in {"CALLM", "CALLMT"} /\ c.op \in {"CALL", "CALLT"}
  <2>1. c.a = s.a /\ c.c = s.c + 2
    BY <1>3, <1>8 DEF Kept
  <2>2. Prepare!Consumed(prepared, i) = (c.a + 1)..(c.a + c.c - 1)
    BY <1>8 DEF Prepare!Consumed
  <2>3. Prepare!Consumed(emitted, i) = ((s.a + 1)..(s.a + s.c)) \cup {emitted[q].a}
    BY <1>8 DEF Prepare!Consumed
  <2>4. emitted[q].a = s.a + 1 + s.c
    BY <1>6, <1>8 DEF Prepare!TakesOpen
  <2>5. (s.a + 1)..(s.a + s.c + 1) = ((s.a + 1)..(s.a + s.c)) \cup {s.a + 1 + s.c}
    BY <1>5
  <2>6. c.a + c.c - 1 = s.a + s.c + 1 /\ c.a + 1 = s.a + 1
    BY <1>5, <2>1
  <2>. QED  BY <2>2, <2>3, <2>4, <2>5, <2>6
<1>9. CASE ~Prepare!TakesOpen(c) /\ c.op = s.op
  <2>1. c.a = s.a /\ c.c = s.c
    BY <1>3, <1>9 DEF Kept, Prepare!TakesOpen
  <2>2. CASE c.op \in {"CALL", "CALLT"}
    BY <1>9, <2>1, <2>2 DEF Prepare!Consumed
  <2>3. CASE c.op \notin {"CALL", "CALLT"}
    BY <1>9, <2>3 DEF Prepare!Consumed, Prepare!TakesOpen
  <2>. QED  BY <2>2, <2>3
<1>10. CASE s.op \in {"ISNEXT", "ITERN"} /\ c.op \in {"JMP", "ITERC"}
  BY <1>10 DEF Prepare!Consumed
<1>. QED  BY <1>3, <1>7, <1>8, <1>9, <1>10 DEF Kept

\* What was checked of a register map, and Followed, pair open results.
LEMMA OpenPaired == PrepareInv => OpenResultsPaired
<1> SUFFICES ASSUME PrepareInv, step = "ok", NEW i \in DOMAIN prepared
             PROVE  /\ path = "register" /\ Prepare!GivesOpen(prepared[i]) =>
                          i < Len(prepared) /\ prepared[i + 1].op = "TSETM"
                    /\ path = "register" /\ Prepare!TakesOpen(prepared[i]) =>
                          i > 1 /\ Prepare!GivesOpen(prepared[i - 1])
                    /\ Prepare!TakesOpen(prepared[i]) =>
                          \/ prepared[Prepare!Producer(prepared, i)].op = "CALL"
                          \/ Prepare!GivesOpen(prepared[Prepare!Producer(prepared, i)])
  BY Zenon DEF OpenResultsPaired, Prepare!OpenResultsPaired
<1>1. path = "register" => /\ prepared[i].op \notin {"CALLM", "CALLMT", "RETM"}
                           /\ Prepare!Paired(prepared, i)
  BY DEF PrepareInv, Validated
<1>2. Prepare!TakesOpen(prepared[i]) =>
          \/ prepared[Prepare!Producer(prepared, i)].op = "CALL"
          \/ Prepare!GivesOpen(prepared[Prepare!Producer(prepared, i)])
  BY DEF PrepareInv, Followed
<1>. QED  BY <1>1, <1>2 DEF Prepare!Paired, Prepare!TakesOpen

\* Whatever tolua_prepare_proto_bytecode downgrades, every call gets the
\* arguments of the source, the first of several open results included.
THEOREM ResultsPassed == Prepare!Spec => []FirstResultPassed
BY PrepareInvariance, SameConsumed, PTL

\* In an accepted prototype, what consumes open results finds an instruction
\* that produces them; under a register map, only a TSETM right behind it.
THEOREM ResultsPaired == Prepare!Spec => []OpenResultsPaired
BY PrepareInvariance, OpenPaired, PTL

\* The two loops that can rename opcodes of version 1 never both do.
THEOREM OpcodesRenamed == Prepare!Spec => []RenamedOnce
<1>1. PrepareInv => RenamedOnce
  BY DEF PrepareInv, Renames, RenamedOnce, Prepare!RenamedOnce
<1>. QED  BY <1>1, PrepareInvariance, PTL

\* The variables of PrepareOps have their types.
THEOREM PrepareTypeCorrect == Prepare!Spec => []Prepare!TypeOK
<1>1. PrepareInv => Prepare!TypeOK
  <2> SUFFICES ASSUME PrepareInv PROVE Prepare!TypeOK
    OBVIOUS
  <2>1. PrepareTypes /\ Len(emitted) \in Nat
    BY DEF PrepareInv, PrepareTypes
  <2>2. step = "compile" => pc \in 1..(MaxCode + 1) /\ Len(prepared) = 0
    BY <2>1, PrototypeAssumption DEF PrepareTypes
  <2>3. step # "compile" => pc \in 1..(MaxCode + 1) /\ Len(prepared) = Len(emitted)
    <3>1. step # "compile" => pc \in 1..Len(prepared) /\ Len(prepared) = Len(emitted)
      BY <2>1 DEF PrepareTypes
    <3>2. Len(emitted) <= MaxCode
      BY <2>1 DEF PrepareTypes
    <3>. QED  BY <2>1, <3>1, <3>2, PrototypeAssumption
  <2>. QED  BY <2>1, <2>2, <2>3 DEF Prepare!TypeOK, PrepareTypes
<1>. QED  BY <1>1, PrepareInvariance, PTL

-----------------------------------------------------------------------------
(* Repacking (Repack).                                                      *)

Operations == {"LOAD", "MOV", "CALL", "CAT", "TEST", "EQ", "JMP", "USE", "RET0", "RET1", "RET"}
Insns == [op : Operations, id : Nat, a : Nat, b : Nat, c : Nat, to : Nat]

Jumps(ins) == ins.op \in {"JMP", "TEST", "EQ"}

\* The registers that ins names are below m.
RegsBelow(ins, m) ==
    /\ ins.a < m
    /\ ins.op \in {"MOV", "TEST", "EQ", "CAT"} => ins.c < m
    /\ ins.op = "CAT" => ins.b < m
    /\ ins.op = "RET" => ins.a + ins.c < m + 2

\* What the compiler may emit as one of the first n instructions, but the end.
Fitting(n, m) ==
    {ins \in Insns : /\ RegsBelow(ins, m) /\ ~Repacked!Ends(ins)
                     /\ ins.op = "CAT" => ins.b < ins.c
                     /\ ins.to \in IF Jumps(ins) THEN 1..(n + 1) ELSE {0}}

RepackTypes ==
    /\ source \in Seq(Insns) /\ repacked \in Seq(Insns)
    /\ operands \in Nat /\ loop \in Nat /\ framesize \in Nat \ {0}
    /\ phase \in {"compile", "repack", "run", "done", "layout", "overflow"}
    /\ faults \subseteq {"blind", "carried", "overtaken", "torn", "overwriting"}

\* While it is compiled, only the exit of an open loop has no target.
Compiling ==
    /\ repacked = <<>> /\ at = <<1, 1>> /\ faults = {}
    /\ NumLocals + operands <= framesize
    /\ loop > 0 => loop \in DOMAIN source /\ source[loop].op = "TEST"
    /\ \A k \in DOMAIN source :
          /\ source[k].id = k
          /\ \/ source[k] \in Fitting(Len(source), framesize)
             \/ k = loop /\ source[k].to = 0 /\ RegsBelow(source[k], framesize)

\* The program that is handed over: it ends at its end only.
HandedOver ==
    /\ Len(source) > 0
    /\ \A k \in DOMAIN source :
          /\ source[k].id = k
          /\ source[k].op = "CAT" => source[k].b < source[k].c
          /\ Repacked!Ends(source[k]) <=> k = Len(source)
          /\ source[k].to \in IF Jumps(source[k]) THEN DOMAIN source ELSE {0}

\* What new still has of the instruction old.
SameKind(new, old) ==
    /\ new.id = old.id /\ new.op = old.op
    /\ old.op = "RET" => new.c = old.c
    /\ old.op = "CAT" /\ "torn" \notin faults => new.c - new.b = old.c - old.b

\* The instructions in the buffer are those of source and copies.
FromSource(f) ==
    \A p \in DOMAIN repacked :
       /\ repacked[p].id # 0 => SameKind(repacked[p], source[f[p]])
       /\ repacked[p].id = 0 => repacked[p].op = "MOV" /\ p < Len(repacked)

\* f takes them to those of source in order, a copy to what it is made for.
InOrder(f) ==
    /\ f[1] = 1 /\ f[Len(repacked)] = Len(source)
    /\ \A p \in 1..(Len(repacked) - 1) :
          f[p + 1] = IF repacked[p].id = 0 THEN f[p] ELSE f[p] + 1
    /\ \A p, q \in DOMAIN repacked : p < q =>
          f[p] <= f[q] /\ (repacked[p].id # 0 => f[p] < f[q])

\* Every jump arrives where it did, and not behind a copy.
Arrives(f) ==
    \A p \in DOMAIN repacked :
       IF Jumps(repacked[p])
       THEN /\ repacked[p].to \in DOMAIN repacked
            /\ f[repacked[p].to] = source[f[p]].to
            /\ repacked[p].to > 1 => repacked[repacked[p].to - 1].id # 0
       ELSE repacked[p].to = 0

\* Both programs run side by side.
InStep(f) == at[1] = f[at[2]] /\ at[2] \in DOMAIN repacked /\ at \in Nat \X Nat

Linked(f) ==
    /\ f \in [DOMAIN repacked -> DOMAIN source]
    /\ FromSource(f) /\ InOrder(f) /\ Arrives(f) /\ InStep(f)

\* The inductive invariant.
RepackInv ==
    /\ RepackTypes
    /\ phase = "compile" => Compiling
    /\ phase # "compile" =>
          /\ HandedOver
          /\ Len(repacked) > 0
          /\ \A p \in DOMAIN repacked : RegsBelow(repacked[p], framesize)
          /\ phase = "repack" => at = <<1, 1>>
          /\ \E f : Linked(f)

\* A set of numbers that is not empty has a least one.
LEMMA LeastOf ==
    ASSUME NEW S \in SUBSET Nat, S # {}
    PROVE  \E x \in S : \A y \in S : x <= y
<1> DEFINE R == OpToRel(<, Nat)
<1>1. IsWellFoundedOn(R, Nat)
  BY NatLessThanWellFounded
<1>2. \A x, y \in Nat : x < y => <<x, y>> \in R
  BY DEF OpToRel
<1> HIDE DEF R
<1>3. PICK x \in S : \A y \in S : ~(<<y, x>> \in R)
  BY <1>1, WFMin
<1>4. \A y \in S : ~(y < x)
  BY <1>2, <1>3, Zenon
<1>. QED BY <1>4

\* The least and the greatest of a set of numbers.
LEMMA MinIs ==
    ASSUME NEW S \in SUBSET Nat, S # {}
    PROVE  Repacked!Min(S) \in S
<1>1. \E x \in S : \A y \in S : x =< y
  BY LeastOf
<1>. QED BY <1>1, Zenon DEF Repacked!Min

\* So has a bounded one a greatest.
LEMMA MaxIs ==
    ASSUME NEW n \in Nat, NEW S \in SUBSET 0..n, S # {}
    PROVE  Repacked!Max(S) \in S /\ \A y \in S : y <= Repacked!Max(S)
<1> DEFINE T == {n - y : y \in S}
<1>1. T \in SUBSET Nat /\ T # {}
  <2>1. \A y \in S : n - y \in Nat
    OBVIOUS
  <2>2. PICK y \in S : TRUE
    OBVIOUS
  <2>3. n - y \in T
    BY <2>2
  <2>. QED BY <2>1, <2>3
<1>2. PICK x \in T : \A y \in T : x <= y
  BY <1>1, LeastOf
<1>3. PICK m \in S : x = n - m
  OBVIOUS
<1>4. \A y \in S : m >= y
  <2>1. \A y \in S : n - m <= n - y
    BY <1>2, <1>3
  <2>. QED BY <2>1
<1>5. \E z \in S : \A y \in S : z >= y
  BY <1>4
<1>6. Repacked!Max(S) \in S /\ \A y \in S : Repacked!Max(S) >= y
  BY <1>5, Zenon DEF Repacked!Max
<1>. QED BY <1>6

\* Every field has its type.
LEMMA InsnFields ==
    ASSUME NEW ins \in Insns
    PROVE  /\ ins.op \in Operations /\ ins.id \in Nat /\ ins.to \in Nat
           /\ ins.a \in Nat /\ ins.b \in Nat /\ ins.c \in Nat
BY DEF Insns

\* The frame of a prototype without a statement.
LEMMA MaxNumLocals == Repacked!Max({NumLocals, 1}) \in Nat \ {0}
                      /\ NumLocals <= Repacked!Max({NumLocals, 1})
<1>1. {NumLocals, 1} \in SUBSET 0..(NumLocals + 1) /\ {NumLocals, 1} # {}
  BY PrototypeAssumption
<1>2. /\ Repacked!Max({NumLocals, 1}) \in {NumLocals, 1}
      /\ \A y \in {NumLocals, 1} : y <= Repacked!Max({NumLocals, 1})
  BY <1>1, MaxIs, PrototypeAssumption
<1>. QED BY <1>2, PrototypeAssumption

\* The invariant holds before the first instruction is emitted.
LEMMA InitRepackInv == Repacked!Init => RepackInv
<1> SUFFICES ASSUME Repacked!Init PROVE RepackInv
  OBVIOUS
<1>1. /\ source = <<>> /\ operands = 0 /\ loop = 0 /\ repacked = <<>> /\ phase = "compile"
      /\ at = <<1, 1>> /\ faults = {} /\ framesize = Repacked!Max({NumLocals, 1})
  BY DEF Repacked!Init
<1>2. RepackTypes
  BY <1>1, MaxNumLocals, EmptySeq DEF RepackTypes
<1>3. Compiling
  BY <1>1, MaxNumLocals, PrototypeAssumption DEF Compiling
<1>. QED BY <1>1, <1>2, <1>3 DEF RepackInv

\* What the compiler emits fits.
LEMMA EachFits ==
    ASSUME NEW n \in Nat, NEW m \in Nat, NEW r \in 0..(m - 1), NEW s \in 0..(m - 1),
           NEW to \in 1..(n + 1), NEW k \in {0, 1}
    PROVE  /\ Repacked!Load(r) \in Fitting(n, m)
           /\ Repacked!Copy(r, s) \in Fitting(n, m)
           /\ Repacked!Call(r, k) \in Fitting(n, m)
           /\ Repacked!Test(r, to) \in Fitting(n, m)
           /\ Repacked!Equal(r, s, to) \in Fitting(n, m)
           /\ Repacked!Jump(to) \in Fitting(n, m)
           /\ Repacked!Store(r) \in Fitting(n, m)
           /\ r < s => Repacked!Cat(r, s) \in Fitting(n, m)
<1>1. r \in Nat /\ s \in Nat /\ to \in Nat /\ k + 1 \in Nat /\ 0 < m
  OBVIOUS
<1>2. \A op \in Operations, a, b, c, t \in Nat :
          /\ Repacked!Ins(op, a, b, c, t) \in Insns
          /\ Repacked!Ins(op, a, b, c, t).op = op
          /\ Repacked!Ins(op, a, b, c, t).a = a
          /\ Repacked!Ins(op, a, b, c, t).b = b
          /\ Repacked!Ins(op, a, b, c, t).c = c
          /\ Repacked!Ins(op, a, b, c, t).to = t
  BY DEF Repacked!Ins, Insns
<1> HIDE DEF Repacked!Ins
<1>3. \A op \in Operations \ {"RET", "RET0", "RET1"}, a, b, c, t \in Nat :
          /\ a < m
          /\ op \in {"MOV", "TEST", "EQ", "CAT"} => c < m
          /\ op = "CAT" => b < m /\ b < c
          /\ t \in IF op \in {"JMP", "TEST", "EQ"} THEN 1..(n + 1) ELSE {0}
          => Repacked!Ins(op, a, b, c, t) \in Fitting(n, m)
  <2> SUFFICES ASSUME NEW op \in Operations \ {"RET", "RET0", "RET1"},
                      NEW a \in Nat, NEW b \in Nat, NEW c \in Nat, NEW t \in Nat,
                      a < m,
                      op \in {"MOV", "TEST", "EQ", "CAT"} => c < m,
                      op = "CAT" => b < m /\ b < c,
                      t \in IF op \in {"JMP", "TEST", "EQ"} THEN 1..(n + 1) ELSE {0}
               PROVE  Repacked!Ins(op, a, b, c, t) \in Fitting(n, m)
    OBVIOUS
  <2> DEFINE ins == Repacked!Ins(op, a, b, c, t)
  <2>1. /\ ins \in Insns /\ ins.op = op /\ ins.a = a /\ ins.b = b
        /\ ins.c = c /\ ins.to = t
    BY <1>2
  <2> HIDE DEF ins
  <2>2. RegsBelow(ins, m) /\ ~Repacked!Ends(ins) /\ (ins.op = "CAT" => ins.b < ins.c)
    BY <2>1 DEF RegsBelow, Repacked!Ends
  <2>3. ins.to \in IF Jumps(ins) THEN 1..(n + 1) ELSE {0}
    BY <2>1 DEF Jumps
  <2>4. ins \in Fitting(n, m)
    BY <2>1, <2>2, <2>3 DEF Fitting
  <2>. QED BY <2>4 DEF ins
<1>4. {"LOAD", "MOV", "CALL", "CAT", "TEST", "EQ", "JMP", "USE"}
          \subseteq Operations \ {"RET", "RET0", "RET1"}
  BY DEF Operations
<1>. QED
  BY <1>1, <1>3, <1>4 DEF Repacked!Load, Repacked!Copy, Repacked!Call, Repacked!Test,
     Repacked!Equal, Repacked!Jump, Repacked!Store, Repacked!Cat

\* The registers of an instruction are in a larger frame, too.
LEMMA RegsLarger ==
    ASSUME NEW m \in Nat, NEW w \in Nat, m <= w, NEW ins \in Insns, RegsBelow(ins, m)
    PROVE  RegsBelow(ins, w)
BY InsnFields DEF RegsBelow

\* The same instruction fits a longer program and a larger frame.
LEMMA FitsLarger ==
    ASSUME NEW n \in Nat, NEW k \in Nat, n <= k, NEW m \in Nat, NEW w \in Nat, m <= w,
           NEW ins \in Fitting(n, m)
    PROVE  ins \in Fitting(k, w)
<1>1. ins \in Insns /\ RegsBelow(ins, m)
  BY DEF Fitting
<1>2. RegsBelow(ins, w)
  BY <1>1, RegsLarger
<1>3. 1..(n + 1) \subseteq 1..(k + 1)
  OBVIOUS
<1>4. ins.to \in IF Jumps(ins) THEN 1..(k + 1) ELSE {0}
  BY <1>3 DEF Fitting
<1>. QED BY <1>1, <1>2, <1>4 DEF Fitting

\* Numbering an instruction changes nothing else.
LEMMA Numbered ==
    ASSUME NEW ins \in Insns, NEW n \in Nat
    PROVE  /\ [ins EXCEPT !.id = n] \in Insns
           /\ [ins EXCEPT !.id = n].id = n
           /\ [ins EXCEPT !.id = n].op = ins.op
           /\ [ins EXCEPT !.id = n].a = ins.a
           /\ [ins EXCEPT !.id = n].b = ins.b
           /\ [ins EXCEPT !.id = n].c = ins.c
           /\ [ins EXCEPT !.id = n].to = ins.to
BY DEF Insns

\* So does redirecting its jump.
LEMMA Redirected ==
    ASSUME NEW ins \in Insns, NEW n \in Nat
    PROVE  /\ [ins EXCEPT !.to = n] \in Insns
           /\ [ins EXCEPT !.to = n].to = n
           /\ [ins EXCEPT !.to = n].op = ins.op
           /\ [ins EXCEPT !.to = n].a = ins.a
           /\ [ins EXCEPT !.to = n].b = ins.b
           /\ [ins EXCEPT !.to = n].c = ins.c
           /\ [ins EXCEPT !.to = n].id = ins.id
BY DEF Insns

\* An instruction that is numbered fits as before.
LEMMA NumberedFits ==
    ASSUME NEW n \in Nat, NEW k \in Nat, NEW m \in Nat, NEW ins \in Fitting(n, m)
    PROVE  [ins EXCEPT !.id = k] \in Fitting(n, m)
<1> DEFINE new == [ins EXCEPT !.id = k]
<1>1. ins \in Insns
  BY DEF Fitting
<1>2. /\ new \in Insns /\ new.op = ins.op /\ new.a = ins.a /\ new.b = ins.b
      /\ new.c = ins.c /\ new.to = ins.to
  BY <1>1, Numbered
<1> HIDE DEF new
<1>3. RegsBelow(new, m) /\ ~Repacked!Ends(new) /\ (new.op = "CAT" => new.b < new.c)
  BY <1>2 DEF Fitting, RegsBelow, Repacked!Ends
<1>4. new.to \in IF Jumps(new) THEN 1..(n + 1) ELSE {0}
  BY <1>2 DEF Fitting, Jumps
<1>5. new \in Fitting(n, m)
  BY <1>2, <1>3, <1>4 DEF Fitting
<1>. QED BY <1>5 DEF new

\* Emitting instructions that fit keeps the invariant.
LEMMA EmitRepackInv ==
    ASSUME RepackInv, NEW m \in Nat, NEW inss,
           inss \in Seq(Fitting(Len(source) + Len(inss), m)),
           NEW left \in Nat, NumLocals + left <= m \/ NumLocals + left <= framesize,
           m <= framesize \/ \E k \in DOMAIN inss : m = inss[k].a + 1,
           Repacked!Emit(inss, left)
    PROVE  RepackInv'
<1> DEFINE n == Len(source)
           t == n + Len(inss)
           numbered == [k \in DOMAIN inss |-> [inss[k] EXCEPT !.id = n + k]]
           sizes == {framesize} \cup {inss[k].a + 1 : k \in DOMAIN inss}
<1>1. /\ phase = "compile" /\ source' = source \o numbered /\ operands' = left
      /\ framesize' = Repacked!Max(sizes)
      /\ UNCHANGED <<loop, repacked, phase, faults, at>>
  BY DEF Repacked!Emit, Repacked!running
<1>2. RepackTypes /\ Compiling
  BY <1>1 DEF RepackInv
<1>3. source \in Seq(Insns) /\ n \in Nat /\ framesize \in Nat \ {0} /\ Len(inss) \in Nat /\ t \in Nat
  BY <1>2, LenProperties DEF RepackTypes
<1>4. DOMAIN inss = 1..Len(inss) /\ \A k \in DOMAIN inss : inss[k] \in Fitting(t, m)
  BY LenProperties, ElementOfSeq
<1>5. \A k \in DOMAIN inss : inss[k] \in Insns /\ inss[k].a \in Nat /\ inss[k].a < m
  BY <1>4, InsnFields DEF Fitting, RegsBelow
<1> HIDE DEF t
<1>6. /\ framesize' \in Nat \ {0} /\ framesize <= framesize' /\ m <= framesize'
  <2>1. sizes \in SUBSET 0..(framesize + m) /\ sizes # {}
    <3>1. framesize \in 0..(framesize + m)
      BY <1>3
    <3>2. \A k \in DOMAIN inss : inss[k].a + 1 \in 0..(framesize + m)
      BY <1>3, <1>5
    <3>. QED BY <3>1, <3>2
  <2> HIDE DEF sizes
  <2>5. framesize + m \in Nat
    BY <1>3
  <2>2. framesize' \in sizes /\ \A y \in sizes : y <= framesize'
    BY <1>1, <2>1, <2>5, MaxIs
  <2>3. framesize \in sizes /\ \A k \in DOMAIN inss : inss[k].a + 1 \in sizes
    BY DEF sizes
  <2>4. framesize' \in Nat
    BY <2>1, <2>2, <1>3
  <2>. QED BY <1>3, <2>2, <2>3, <2>4
<1>7. /\ numbered \in Seq(Fitting(t, m)) /\ Len(numbered) = Len(inss)
      /\ \A k \in 1..Len(inss) : numbered[k] = [inss[k] EXCEPT !.id = n + k]
  <2>1. ASSUME NEW k \in 1..Len(inss)
        PROVE  [inss[k] EXCEPT !.id = n + k] \in Fitting(t, m)
    <3>1. n + k \in Nat /\ inss[k] \in Fitting(t, m)
      BY <1>3, <1>4
    <3>. QED BY <1>3, <3>1, NumberedFits
  <2>2. numbered = [k \in 1..Len(inss) |-> [inss[k] EXCEPT !.id = n + k]]
    BY <1>4
  <2>. QED BY <1>3, <2>1, <2>2
<1> HIDE DEF numbered
<1>8. /\ source' \in Seq(Insns) /\ Len(source') = t
      /\ \A k \in 1..t : source'[k] = IF k <= n THEN source[k] ELSE numbered[k - n]
  <2>1. numbered \in Seq(Insns)
    <3>1. Fitting(t, m) \subseteq Insns
      BY DEF Fitting
    <3>. QED BY <1>7, <3>1, SeqMonotonic
  <2>2. /\ source \o numbered \in Seq(Insns)
        /\ Len(source \o numbered) = n + Len(numbered)
        /\ \A k \in 1..(n + Len(numbered)) : (source \o numbered)[k] =
              IF k <= n THEN source[k] ELSE numbered[k - n]
    BY <1>3, <2>1, ConcatProperties
  <2>. QED BY <1>1, <1>7, <2>2 DEF t
<1>9. RepackTypes'
  BY <1>1, <1>2, <1>6, <1>8 DEF RepackTypes
<1>10. Compiling'
  <2>1. NumLocals + left <= framesize'
    BY <1>3, <1>6, PrototypeAssumption
  <2>2. DOMAIN source = 1..n /\ DOMAIN source' = 1..t /\ n <= t
    BY <1>3, <1>8, LenProperties DEF t
  <2>3. (loop > 0 => loop \in DOMAIN source /\ source[loop].op = "TEST")'
    BY <1>1, <1>2, <1>8, <2>2 DEF Compiling
  <2>4. ASSUME NEW k \in 1..t
        PROVE  /\ source'[k].id = k
               /\ \/ source'[k] \in Fitting(t, framesize')
                  \/ k = loop' /\ source'[k].to = 0 /\ RegsBelow(source'[k], framesize')
    <3>1. CASE k <= n
      <4>1. k \in DOMAIN source /\ source'[k] = source[k]
        BY <1>8, <2>2, <3>1
      <4>2. source[k] \in Insns
        BY <1>3, <2>2, <4>1, ElementOfSeq
      <4>3. RegsBelow(source[k], framesize) => RegsBelow(source[k], framesize')
        BY <1>3, <1>6, <4>2, RegsLarger
      <4>4. source[k] \in Fitting(n, framesize) => source[k] \in Fitting(t, framesize')
        BY <1>3, <1>6, <2>2, FitsLarger
      <4>. QED BY <1>1, <1>2, <4>1, <4>3, <4>4 DEF Compiling
    <3>2. CASE ~(k <= n)
      <4>1. k - n \in 1..Len(inss) /\ source'[k] = numbered[k - n]
        BY <1>3, <1>8, <3>2 DEF t
      <4>2. source'[k] = [inss[k - n] EXCEPT !.id = n + (k - n)]
        BY <1>7, <4>1
      <4>3. n + (k - n) = k /\ inss[k - n] \in Insns
        BY <1>3, <1>4, <1>5, <4>1
      <4>4. source'[k].id = k
        BY <4>2, <4>3, Numbered
      <4>5. source'[k] \in Fitting(t, m)
        BY <1>7, <4>1, ElementOfSeq
      <4>6. source'[k] \in Fitting(t, framesize')
        <5>1. t \in Nat /\ t <= t /\ framesize' \in Nat /\ m <= framesize'
          BY <1>3, <1>6
        <5>. QED BY <4>5, <5>1, FitsLarger
      <4>. QED BY <4>4, <4>6
    <3>. QED BY <3>1, <3>2
  <2>. QED BY <1>1, <1>2, <1>8, <2>1, <2>2, <2>3, <2>4 DEF Compiling
<1>. QED BY <1>1, <1>9, <1>10 DEF RepackInv

\* A sequence of one.
LEMMA Singles ==
    ASSUME NEW S, NEW x \in S, NEW y \in S
    PROVE  /\ <<x>> \in Seq(S) /\ Len(<<x>>) = 1 /\ <<x>>[1] = x
           /\ <<x, y>> \in Seq(S) /\ Len(<<x, y>>) = 2 /\ <<x, y>>[1] = x
OBVIOUS

\* What is known of the numbers while the prototype is compiled.
LEMMA Bounds ==
    ASSUME RepackInv, phase = "compile"
    PROVE  /\ Len(source) \in Nat /\ operands \in Nat /\ framesize \in Nat \ {0}
           /\ Repacked!Top \in Nat /\ Repacked!Top <= framesize
           /\ NumLocals \in Nat /\ operands <= Repacked!Top
           /\ Repacked!Top = NumLocals + operands
BY LenProperties, PrototypeAssumption DEF RepackInv, RepackTypes, Compiling, Repacked!Top

\* A constant, a global or a call without arguments, at the top of the stack.
LEMMA PlainFits ==
    ASSUME Repacked!Top \in Nat, NEW n \in Nat, NEW inss \in Repacked!Plain
    PROVE  /\ inss \in Seq(Fitting(n, Repacked!Top + 1))
           /\ Len(inss) \in Nat /\ Len(inss) > 0
           /\ inss[1].a = Repacked!Top
<1> DEFINE r == Repacked!Top
           S == Fitting(n, r + 1)
<1>1. r \in 0..((r + 1) - 1) /\ 1 \in 1..(n + 1) /\ r + 1 \in Nat
  OBVIOUS
<1>2. Repacked!Load(r) \in S /\ Repacked!Call(r, 1) \in S
  BY <1>1, EachFits
<1>3. Repacked!Load(r).a = r
  BY DEF Repacked!Load, Repacked!Ins
<1> HIDE DEF r, S
<1>4. inss = <<Repacked!Load(r)>> \/ inss = <<Repacked!Load(r), Repacked!Call(r, 1)>>
  BY DEF Repacked!Plain, r
<1>5. inss \in Seq(S) /\ Len(inss) \in {1, 2} /\ inss[1] = Repacked!Load(r)
  <2> DEFINE x == Repacked!Load(r)
             y == Repacked!Call(r, 1)
  <2>1. x \in S /\ y \in S /\ (inss = <<x>> \/ inss = <<x, y>>)
    BY <1>2, <1>4
  <2> HIDE DEF x, y
  <2>2. CASE inss = <<x>>
    BY <2>1, <2>2 DEF x
  <2>3. CASE inss = <<x, y>>
    BY <2>1, <2>3 DEF x
  <2>. QED BY <2>1, <2>2, <2>3 DEF x
<1>. QED BY <1>3, <1>5 DEF r, S

\* Emitting an operand keeps the invariant.
LEMMA OperandRepackInv == RepackInv /\ Repacked!Operand => RepackInv'
<1> SUFFICES ASSUME RepackInv, Repacked!Operand PROVE RepackInv'
  OBVIOUS
<1> DEFINE r == Repacked!Top
           n == Len(source)
           left == operands + 1
<1>1. phase = "compile"
  BY DEF Repacked!Operand, Repacked!Emit
<1>2. /\ n \in Nat /\ operands \in Nat /\ framesize \in Nat \ {0}
      /\ r \in Nat /\ r <= framesize /\ NumLocals \in Nat
      /\ left \in Nat /\ NumLocals + left = r + 1
  BY <1>1, Bounds
<1>3. ASSUME NEW inss, inss \in Seq(Fitting(n + Len(inss), r + 1)), Len(inss) > 0,
             inss[1].a = r, Repacked!Emit(inss, left)
      PROVE  RepackInv'
  <2>1. 1 \in DOMAIN inss /\ r + 1 = inss[1].a + 1
    BY <1>3, LenProperties
  <2>2. r + 1 \in Nat /\ NumLocals + left <= r + 1
    BY <1>2
  <2>. QED BY <1>2, <1>3, <2>1, <2>2, EmitRepackInv
<1>4. ASSUME NEW inss \in Repacked!Plain, Repacked!Emit(inss, left)
      PROVE  RepackInv'
  <2>1. n + Len(inss) \in Nat
    BY <1>2, <1>4, PlainFits
  <2>2. inss \in Seq(Fitting(n + Len(inss), r + 1)) /\ Len(inss) > 0 /\ inss[1].a = r
    BY <1>2, <2>1, PlainFits
  <2>. QED BY <1>3, <1>4, <2>2
<1>5. ASSUME NEW l \in Repacked!Locals, Repacked!Emit(<<Repacked!Copy(r, l)>>, left)
      PROVE  RepackInv'
  <2>1. /\ r \in 0..((r + 1) - 1) /\ l \in 0..((r + 1) - 1) /\ r + 1 \in Nat
        /\ n + 1 \in Nat /\ 1 \in 1..((n + 1) + 1)
    BY <1>2 DEF Repacked!Locals
  <2>2. Repacked!Copy(r, l) \in Fitting(n + 1, r + 1)
    BY <2>1, EachFits
  <2>3. Repacked!Copy(r, l).a = r
    BY DEF Repacked!Copy, Repacked!Ins
  <2> DEFINE inss == <<Repacked!Copy(r, l)>>
  <2>4. inss \in Seq(Fitting(n + 1, r + 1)) /\ Len(inss) = 1 /\ inss[1] = Repacked!Copy(r, l)
    BY <2>2, Singles
  <2>5. Repacked!Emit(inss, left)
    BY <1>5
  <2> HIDE DEF inss
  <2>6. inss \in Seq(Fitting(n + Len(inss), r + 1)) /\ Len(inss) > 0 /\ inss[1].a = r
    BY <2>3, <2>4
  <2>. QED BY <1>3, <2>5, <2>6
<1>6. ASSUME NEW first \in Repacked!Plain, NEW second \in Repacked!Plain,
             Repacked!Emit(Repacked!Either(first, second), left)
      PROVE  RepackInv'
  <2> DEFINE to == n + Len(first) + Len(second) + 2
             mid == <<Repacked!Test(r, to)>>
             inss == Repacked!Either(first, second)
             t == n + (Len(first) + 1 + Len(second))
             S == Fitting(t, r + 1)
  <2>1. Len(first) \in Nat /\ Len(second) \in Nat /\ Len(first) > 0
    BY <1>2, PlainFits
  <2>2. t \in Nat /\ to \in 1..(t + 1) /\ r \in 0..((r + 1) - 1) /\ r + 1 \in Nat
    BY <1>2, <2>1
  <2>3. first \in Seq(S) /\ second \in Seq(S) /\ first[1].a = r
    BY <1>2, <2>2, PlainFits
  <2>4. Repacked!Test(r, to) \in S
    BY <2>2, EachFits
  <2>5. mid \in Seq(S) /\ Len(mid) = 1
    BY <2>4, Singles
  <2>6. inss = (first \o mid) \o second
    BY DEF Repacked!Either
  <2> HIDE DEF S, mid, inss
  <2>7. /\ first \o mid \in Seq(S) /\ Len(first \o mid) = Len(first) + 1
        /\ (first \o mid)[1] = first[1]
    <3>1. 1 \in 1..(Len(first) + Len(mid)) /\ 1 <= Len(first)
      BY <2>1, <2>5
    <3>2. first \in Seq(S) /\ mid \in Seq(S)
      BY <2>3, <2>5
    <3>3. /\ first \o mid \in Seq(S) /\ Len(first \o mid) = Len(first) + Len(mid)
          /\ \A q \in 1..(Len(first) + Len(mid)) :
                (first \o mid)[q] = IF q <= Len(first) THEN first[q] ELSE mid[q - Len(first)]
      BY <3>2, ConcatProperties
    <3>. QED BY <2>5, <3>1, <3>3
  <2>8. /\ inss \in Seq(S) /\ Len(inss) = Len(first) + 1 + Len(second)
        /\ inss[1] = first[1]
    <3>1. 1 \in 1..(Len(first \o mid) + Len(second)) /\ 1 <= Len(first \o mid)
      BY <2>1, <2>7
    <3>. QED BY <2>3, <2>6, <2>7, <3>1, ConcatProperties
  <2>9. n + Len(inss) = t /\ Len(inss) > 0
    BY <2>1, <2>8
  <2>10. inss \in Seq(Fitting(n + Len(inss), r + 1))
    BY <2>8, <2>9 DEF S
  <2>11. Repacked!Emit(inss, left)
    BY <1>6 DEF inss
  <2>. QED BY <1>3, <2>3, <2>8, <2>9, <2>10, <2>11
<1>7. ASSUME Repacked!Emit(Repacked!Chosen, left)
      PROVE  RepackInv'
  <2> DEFINE inss == Repacked!Chosen
             S == Fitting(n + 7, r + 2)
  <2>1. /\ r \in 0..((r + 2) - 1) /\ r + 1 \in 0..((r + 2) - 1) /\ r + 2 \in Nat
        /\ n + 7 \in Nat /\ n + 7 \in 1..((n + 7) + 1) /\ n + 8 \in 1..((n + 7) + 1)
    BY <1>2
  <2>2. /\ Repacked!Load(r) \in S /\ Repacked!Load(r + 1) \in S /\ Repacked!Call(r + 1, 1) \in S
        /\ Repacked!Equal(r, r + 1, n + 7) \in S /\ Repacked!Jump(n + 8) \in S
    BY <2>1, EachFits
  <2>3. Repacked!Load(r + 1).a = r + 1
    BY DEF Repacked!Load, Repacked!Ins
  <2>4. inss = <<Repacked!Load(r), Repacked!Load(r + 1), Repacked!Call(r + 1, 1),
                 Repacked!Equal(r, r + 1, n + 7), Repacked!Load(r), Repacked!Jump(n + 8),
                 Repacked!Load(r)>>
    BY DEF Repacked!Chosen
  <2> HIDE DEF inss, S
  <2>5. inss \in Seq(S) /\ Len(inss) = 7 /\ DOMAIN inss = 1..7 /\ inss[2].a = r + 1
    BY <2>2, <2>3, <2>4
  <2>6. 2 \in DOMAIN inss /\ r + 2 = inss[2].a + 1 /\ NumLocals + left <= r + 2
    BY <1>2, <2>5
  <2>7. inss \in Seq(Fitting(n + Len(inss), r + 2))
    BY <2>5 DEF S
  <2>8. Repacked!Emit(inss, left)
    BY <1>7 DEF inss
  <2>. QED BY <1>2, <2>1, <2>6, <2>7, <2>8, EmitRepackInv
<1>. QED BY <1>4, <1>5, <1>6, <1>7 DEF Repacked!Operand

\* Emitting a CAT keeps the invariant.
LEMMA JoinRepackInv == RepackInv /\ Repacked!Join => RepackInv'
<1> SUFFICES ASSUME RepackInv, Repacked!Join PROVE RepackInv'
  OBVIOUS
<1>1. PICK k \in 2..operands :
        Repacked!Emit(<<Repacked!Cat(Repacked!Top - k, Repacked!Top - 1)>>, operands - k + 1)
  BY DEF Repacked!Join
<1> DEFINE r == Repacked!Top - k
           s == Repacked!Top - 1
           n == Len(source)
<1>2. phase = "compile"
  BY <1>1 DEF Repacked!Emit
<1>3. /\ n + 1 \in Nat /\ framesize \in Nat /\ 1 \in 1..((n + 1) + 1)
      /\ r \in 0..(framesize - 1) /\ s \in 0..(framesize - 1) /\ r < s
      /\ operands - k + 1 \in Nat /\ NumLocals + (operands - k + 1) <= framesize
  BY <1>2, Bounds
<1>4. Repacked!Cat(r, s) \in Fitting(n + 1, framesize)
  BY <1>3, EachFits
<1>5. /\ <<Repacked!Cat(r, s)>> \in Seq(Fitting(n + 1, framesize))
      /\ Len(<<Repacked!Cat(r, s)>>) = 1
  BY <1>4, Singles
<1> DEFINE inss == <<Repacked!Cat(r, s)>>
<1>6. Repacked!Emit(inss, operands - k + 1)
  BY <1>1
<1> HIDE DEF inss
<1>7. inss \in Seq(Fitting(n + Len(inss), framesize)) /\ framesize <= framesize
  BY <1>3, <1>5 DEF inss
<1>. QED BY <1>3, <1>6, <1>7, EmitRepackInv

\* Emitting a statement keeps the invariant.
LEMMA StatementRepackInv == RepackInv /\ Repacked!Statement => RepackInv'
<1> SUFFICES ASSUME RepackInv, Repacked!Statement PROVE RepackInv'
  OBVIOUS
<1> DEFINE r == Repacked!Top
           n == Len(source)
<1>1. phase = "compile"
  BY DEF Repacked!Statement, Repacked!Emit
<1>2. /\ n \in Nat /\ n + 1 \in Nat /\ n + 2 \in Nat /\ operands \in Nat /\ framesize \in Nat \ {0}
      /\ r \in Nat /\ r <= framesize /\ NumLocals \in Nat /\ operands <= r
      /\ r = NumLocals + operands /\ NumLocals + 0 <= framesize
  BY <1>1, Bounds
<1>3. ASSUME NEW x \in 0..(framesize - 1), Repacked!Emit(<<Repacked!Store(x)>>, 0)
      PROVE  RepackInv'
  <2> DEFINE inss == <<Repacked!Store(x)>>
  <2>1. 1 \in 1..((n + 1) + 1) /\ framesize \in Nat /\ framesize <= framesize
    BY <1>2
  <2>2. Repacked!Store(x) \in Fitting(n + 1, framesize)
    BY <1>2, <2>1, EachFits
  <2>3. inss \in Seq(Fitting(n + 1, framesize)) /\ Len(inss) = 1
    BY <2>2, Singles
  <2>4. inss \in Seq(Fitting(n + Len(inss), framesize)) /\ Repacked!Emit(inss, 0)
    BY <1>3, <2>3
  <2> HIDE DEF inss
  <2>. QED BY <1>2, <2>1, <2>4, EmitRepackInv
<1>4. ASSUME operands = 1, Repacked!Emit(<<Repacked!Store(r - 1)>>, 0)
      PROVE  RepackInv'
  <2>1. r - 1 \in 0..(framesize - 1)
    BY <1>2, <1>4
  <2>. QED BY <1>3, <1>4, <2>1
<1>5. ASSUME NEW l \in Repacked!Locals, Repacked!Emit(<<Repacked!Store(l)>>, 0)
      PROVE  RepackInv'
  <2>1. l \in 0..(framesize - 1)
    BY <1>2 DEF Repacked!Locals
  <2>. QED BY <1>3, <1>5, <2>1
<1>6. ASSUME Repacked!Emit(<<Repacked!Load(r), Repacked!Call(r, 0)>>, 0)
      PROVE  RepackInv'
  <2> DEFINE inss == <<Repacked!Load(r), Repacked!Call(r, 0)>>
  <2>1. 1 \in 1..((n + 2) + 1) /\ r + 1 \in Nat /\ r \in 0..((r + 1) - 1)
    BY <1>2
  <2>2. Repacked!Load(r) \in Fitting(n + 2, r + 1) /\ Repacked!Call(r, 0) \in Fitting(n + 2, r + 1)
    BY <1>2, <2>1, EachFits
  <2>3. /\ inss \in Seq(Fitting(n + 2, r + 1)) /\ Len(inss) = 2
        /\ inss[1] = Repacked!Load(r) /\ DOMAIN inss = 1..2
    BY <2>2
  <2>4. Repacked!Load(r).a = r
    BY DEF Repacked!Load, Repacked!Ins
  <2>5. inss \in Seq(Fitting(n + Len(inss), r + 1)) /\ Repacked!Emit(inss, 0)
    BY <1>6, <2>3
  <2> HIDE DEF inss
  <2>6. 1 \in DOMAIN inss /\ r + 1 = inss[1].a + 1
    BY <2>3, <2>4
  <2>. QED BY <1>2, <2>1, <2>5, <2>6, EmitRepackInv
<1>. QED BY <1>4, <1>5, <1>6 DEF Repacked!Statement

\* What changes when one instruction is added at the end.
LEMMA Appended ==
    ASSUME NEW S, NEW s \in Seq(S), NEW x \in S
    PROVE  /\ Append(s, x) \in Seq(S) /\ Len(Append(s, x)) = Len(s) + 1
           /\ Len(s) \in Nat /\ DOMAIN s = 1..Len(s)
           /\ DOMAIN Append(s, x) = 1..(Len(s) + 1)
           /\ \A k \in 1..Len(s) : Append(s, x)[k] = s[k]
           /\ Append(s, x)[Len(s) + 1] = x
OBVIOUS

\* Opening a loop or closing it keeps the invariant.
LEMMA LoopRepackInv == RepackInv /\ Repacked!Loop => RepackInv'
<1> SUFFICES ASSUME RepackInv, Repacked!Loop PROVE RepackInv'
  OBVIOUS
<1> DEFINE n == Len(source)
<1>1. /\ phase = "compile" /\ operands = 0
      /\ UNCHANGED <<operands, repacked, framesize, phase, faults, at>>
  BY DEF Repacked!Loop, Repacked!running
<1>2. RepackTypes /\ Compiling
  BY <1>1 DEF RepackInv
<1>3. source \in Seq(Insns) /\ n \in Nat /\ framesize \in Nat \ {0} /\ loop \in Nat /\ DOMAIN source = 1..n
  BY <1>2, LenProperties DEF RepackTypes
<1>4. \A k \in 1..n : source[k] \in Insns
  BY <1>3, ElementOfSeq
<1>5. ASSUME NEW l \in Repacked!Locals, loop = 0,
             source' = Append(source, [Repacked!Test(l, 0) EXCEPT !.id = n + 1]),
             loop' = n + 1
      PROVE  RepackInv'
  <2> DEFINE x == Repacked!Test(l, 0)
             new == [x EXCEPT !.id = n + 1]
  <2>1. l \in Nat /\ l < framesize
    BY <1>2, <1>3, PrototypeAssumption DEF Repacked!Locals, Compiling, RepackTypes
  <2>2. /\ x \in Insns /\ x.op = "TEST" /\ x.a = 0 /\ x.c = l /\ x.to = 0
    BY <2>1 DEF Repacked!Test, Repacked!Ins, Insns, Operations
  <2> HIDE DEF x
  <2>3. new \in Insns /\ new.op = "TEST" /\ new.id = n + 1 /\ new.a = 0 /\ new.c = l /\ new.to = 0
    BY <1>3, <2>2, Numbered
  <2>4. source' = Append(source, new)
    BY <1>5 DEF x
  <2> HIDE DEF new
  <2>5. /\ source' \in Seq(Insns) /\ Len(source') = n + 1 /\ DOMAIN source' = 1..(n + 1)
        /\ \A k \in 1..n : source'[k] = source[k]
        /\ source'[n + 1] = new
    BY <1>3, <2>3, <2>4, Appended
  <2>6. RegsBelow(new, framesize)
    BY <1>3, <2>1, <2>3 DEF RegsBelow
  <2>7. ASSUME NEW k \in 1..(n + 1)
        PROVE  /\ source'[k].id = k
               /\ \/ source'[k] \in Fitting(n + 1, framesize)
                  \/ k = loop' /\ source'[k].to = 0 /\ RegsBelow(source'[k], framesize)
    <3>1. CASE k = n + 1
      BY <1>5, <2>3, <2>5, <2>6, <3>1
    <3>2. CASE k # n + 1
      <4>1. k \in 1..n /\ source'[k] = source[k]
        BY <1>3, <2>5, <3>2
      <4>2. source[k].id = k /\ source[k] \in Fitting(n, framesize)
        BY <1>2, <1>3, <1>5, <4>1 DEF Compiling
      <4>3. n <= n + 1 /\ n + 1 \in Nat /\ framesize \in Nat /\ framesize <= framesize
        BY <1>3
      <4>4. source[k] \in Fitting(n + 1, framesize)
        BY <1>3, <4>2, <4>3, FitsLarger
      <4>. QED BY <4>1, <4>2, <4>4
    <3>. QED BY <3>1, <3>2
  <2>8. RepackTypes'
    BY <1>1, <1>2, <1>3, <1>5, <2>5 DEF RepackTypes
  <2>10. loop' \in DOMAIN source' /\ source'[loop'].op = "TEST"
    <3>1. loop' = n + 1
      BY <1>5
    <3>2. n + 1 \in 1..(n + 1)
      BY <1>3
    <3>. QED BY <2>3, <2>5, <3>1, <3>2
  <2>9. Compiling'
    BY <1>1, <1>2, <2>5, <2>7, <2>10 DEF Compiling
  <2>. QED BY <1>1, <2>8, <2>9 DEF RepackInv
<1>6. ASSUME loop > 0, source[loop].to = 0,
             source' = [Append(source, [Repacked!Jump(loop) EXCEPT !.id = n + 1])
                           EXCEPT ![loop].to = n + 2],
             loop' = loop
      PROVE  RepackInv'
  <2> DEFINE x == Repacked!Jump(loop)
             new == [x EXCEPT !.id = n + 1]
             old == source[loop]
             exit == [old EXCEPT !.to = n + 2]
  <2>1. loop \in 1..n /\ old \in Insns /\ old.op = "TEST" /\ old.id = loop /\ RegsBelow(old, framesize)
    BY <1>2, <1>3, <1>4, <1>6 DEF Compiling, Fitting
  <2>2. n + 1 \in Nat /\ loop \in 1..((n + 1) + 1) /\ 0 \in 0..(framesize - 1) /\ 0 \in {0, 1}
        /\ framesize \in Nat
    BY <1>3, <2>1
  <2>3. x \in Fitting(n + 1, framesize)
    BY <2>2, EachFits
  <2> HIDE DEF x
  <2>4. new \in Fitting(n + 1, framesize) /\ new \in Insns /\ new.id = n + 1
    <3>1. x \in Insns
      BY <2>3 DEF Fitting
    <3>. QED BY <2>2, <2>3, <3>1, NumberedFits, Numbered
  <2>5. /\ exit \in Insns /\ exit.op = "TEST" /\ exit.id = loop /\ exit.to = n + 2
        /\ exit.a = old.a /\ exit.b = old.b /\ exit.c = old.c
    <3>1. n + 2 \in Nat
      BY <1>3
    <3>. QED BY <2>1, <3>1, Redirected
  <2>6. source' = [Append(source, new) EXCEPT ![loop].to = n + 2]
    BY <1>6 DEF x
  <2> HIDE DEF new
  <2>7. /\ Append(source, new) \in Seq(Insns) /\ Len(Append(source, new)) = n + 1
        /\ DOMAIN Append(source, new) = 1..(n + 1)
        /\ \A k \in 1..n : Append(source, new)[k] = source[k]
        /\ Append(source, new)[n + 1] = new
    BY <1>3, <2>4, Appended
  <2>8. source' = [Append(source, new) EXCEPT ![loop] = exit]
    BY <2>1, <2>6, <2>7
  <2> HIDE DEF exit, old
  <2>9. /\ source' \in Seq(Insns) /\ Len(source') = n + 1 /\ DOMAIN source' = 1..(n + 1)
        /\ \A k \in 1..n : source'[k] = IF k = loop THEN exit ELSE source[k]
        /\ source'[n + 1] = new
    <3> DEFINE s == Append(source, new)
    <3>1. s \in Seq(Insns) /\ Len(s) = n + 1 /\ loop \in 1..Len(s)
      BY <1>3, <2>1, <2>7
    <3>2. s[n + 1] = new /\ \A k \in 1..n : s[k] = source[k]
      BY <2>7
    <3>3. source' = [s EXCEPT ![loop] = exit]
      BY <2>8
    <3> HIDE DEF s
    <3>4. /\ source' \in Seq(Insns) /\ Len(source') = n + 1
          /\ \A k \in 1..(n + 1) : source'[k] = IF k = loop THEN exit ELSE s[k]
      BY <2>5, <3>1, <3>3, ExceptSeq
    <3>5. DOMAIN source' = 1..(n + 1)
      BY <3>4, LenProperties
    <3>. QED BY <1>3, <2>1, <3>2, <3>4, <3>5
  <2>10. exit \in Fitting(n + 1, framesize)
    <3>1. RegsBelow(exit, framesize) /\ ~Repacked!Ends(exit) /\ exit.op # "CAT"
      BY <2>1, <2>5 DEF RegsBelow, Repacked!Ends
    <3>2. exit.to \in IF Jumps(exit) THEN 1..((n + 1) + 1) ELSE {0}
      BY <1>3, <2>5 DEF Jumps
    <3>. QED BY <2>5, <3>1, <3>2 DEF Fitting
  <2>11. ASSUME NEW k \in 1..(n + 1)
         PROVE  source'[k].id = k /\ source'[k] \in Fitting(n + 1, framesize)
    <3>1. CASE k = n + 1
      BY <2>4, <2>9, <3>1
    <3>2. CASE k = loop
      BY <2>1, <2>5, <2>9, <2>10, <3>2
    <3>3. CASE k # n + 1 /\ k # loop
      <4>1. k \in 1..n /\ source'[k] = source[k]
        BY <1>3, <2>9, <3>3
      <4>2. source[k].id = k /\ source[k] \in Fitting(n, framesize)
        BY <1>2, <1>3, <3>3, <4>1 DEF Compiling
      <4>3. n <= n + 1 /\ n + 1 \in Nat /\ framesize \in Nat /\ framesize <= framesize
        BY <1>3
      <4>4. source[k] \in Fitting(n + 1, framesize)
        BY <1>3, <4>2, <4>3, FitsLarger
      <4>. QED BY <4>1, <4>2, <4>4
    <3>. QED BY <3>1, <3>2, <3>3
  <2>12. loop \in DOMAIN source' /\ source'[loop].op = "TEST"
    BY <1>3, <2>1, <2>5, <2>9
  <2>13. RepackTypes'
    BY <1>1, <1>2, <1>6, <2>9 DEF RepackTypes
  <2>14. Compiling'
    BY <1>1, <1>2, <1>6, <2>9, <2>11, <2>12 DEF Compiling
  <2>. QED BY <1>1, <2>13, <2>14 DEF RepackInv
<1>. QED BY <1>5, <1>6 DEF Repacked!Loop

\* The compiler's end, and what holds of a program that is handed over.
LEMMA EndRepackInv == RepackInv /\ Repacked!End => RepackInv'
<1> SUFFICES ASSUME RepackInv, Repacked!End PROVE RepackInv'
  OBVIOUS
<1> DEFINE n == Len(source)
           last == IF operands = 0
                   THEN {Repacked!Return(0, 0)} \cup {Repacked!Return(l, 1) : l \in Repacked!Locals}
                   ELSE {Repacked!Return(NumLocals, operands)}
<1>1. /\ phase = "compile" /\ phase' = "repack" /\ repacked' = source'
      /\ loop > 0 => source[loop].to > 0
      /\ UNCHANGED <<operands, loop, framesize, faults, at>>
  BY DEF Repacked!End, Repacked!running
<1>2. PICK x \in last : source' = Append(source, [x EXCEPT !.id = n + 1])
  BY DEF Repacked!End
<1>3. RepackTypes /\ Compiling
  BY <1>1 DEF RepackInv
<1>4. /\ source \in Seq(Insns) /\ n \in Nat /\ framesize \in Nat \ {0} /\ loop \in Nat
      /\ operands \in Nat /\ NumLocals \in Nat /\ NumLocals + operands <= framesize
      /\ DOMAIN source = 1..n
  BY <1>3, LenProperties, PrototypeAssumption DEF RepackTypes, Compiling
<1>5. x \in Insns /\ Repacked!Ends(x) /\ RegsBelow(x, framesize) /\ x.to = 0
  <2>1. \A r, k \in Nat :
           /\ Repacked!Return(r, k) \in Insns /\ Repacked!Ends(Repacked!Return(r, k))
           /\ Repacked!Return(r, k).a = r /\ Repacked!Return(r, k).c = k + 1
           /\ Repacked!Return(r, k).to = 0
           /\ Repacked!Return(r, k).op \in IF k < 2 THEN {"RET0", "RET1"} ELSE {"RET"}
    BY DEF Repacked!Return, Repacked!Ins, Repacked!Ends, Insns, Operations
  <2> HIDE DEF Repacked!Return
  <2>2. \A r, k \in Nat : r < framesize /\ r + k <= framesize =>
           RegsBelow(Repacked!Return(r, k), framesize)
    <3> SUFFICES ASSUME NEW r \in Nat, NEW k \in Nat, r < framesize, r + k <= framesize
                 PROVE  RegsBelow(Repacked!Return(r, k), framesize)
      OBVIOUS
    <3> DEFINE ins == Repacked!Return(r, k)
    <3>1. ins.a = r /\ ins.c = k + 1 /\ ins.op \in {"RET0", "RET1", "RET"}
      BY <2>1
    <3> HIDE DEF ins
    <3>2. RegsBelow(ins, framesize)
      BY <1>4, <3>1 DEF RegsBelow
    <3>. QED BY <3>2 DEF ins
  <2>3. PICK r \in Nat, k \in Nat : x = Repacked!Return(r, k) /\ r < framesize /\ r + k <= framesize
    <3>1. CASE operands = 0 /\ x = Repacked!Return(0, 0)
      BY <1>4, <3>1, SMTT(30)
    <3>2. CASE operands = 0 /\ x \in {Repacked!Return(l, 1) : l \in Repacked!Locals}
      BY <1>4, <3>2 DEF Repacked!Locals
    <3>3. CASE operands # 0
      BY <1>2, <1>4, <3>3
    <3>. QED BY <1>2, <3>1, <3>2, <3>3
  <2>. QED BY <2>1, <2>2, <2>3
<1> DEFINE new == [x EXCEPT !.id = n + 1]
<1> HIDE DEF last
<1>6. /\ new \in Insns /\ Repacked!Ends(new) /\ RegsBelow(new, framesize) /\ new.to = 0
      /\ new.id = n + 1
  <2>1. /\ new \in Insns /\ new.op = x.op /\ new.a = x.a /\ new.b = x.b /\ new.c = x.c
        /\ new.to = x.to /\ new.id = n + 1
    BY <1>4, <1>5, Numbered
  <2>. QED BY <1>5, <2>1 DEF Repacked!Ends, RegsBelow
<1>7. source' = Append(source, new)
  BY <1>2
<1> HIDE DEF new
<1>8. /\ source' \in Seq(Insns) /\ Len(source') = n + 1 /\ DOMAIN source' = 1..(n + 1)
      /\ \A k \in 1..n : source'[k] = source[k]
      /\ source'[n + 1] = new
  BY <1>4, <1>6, <1>7, Appended
<1>9. ASSUME NEW k \in 1..n
      PROVE  source[k].id = k /\ source[k] \in Fitting(n, framesize)
  BY <1>1, <1>3, <1>4 DEF Compiling
<1>10. ASSUME NEW k \in 1..(n + 1)
       PROVE  /\ source'[k] \in Insns /\ source'[k].id = k
              /\ source'[k].op = "CAT" => source'[k].b < source'[k].c
              /\ Repacked!Ends(source'[k]) <=> k = n + 1
              /\ source'[k].to \in IF Jumps(source'[k]) THEN 1..(n + 1) ELSE {0}
              /\ RegsBelow(source'[k], framesize)
  <2>1. CASE k = n + 1
    BY <1>6, <1>8, <2>1 DEF Repacked!Ends, Jumps
  <2>2. CASE k # n + 1
    <3>1. k \in 1..n /\ source'[k] = source[k]
      BY <1>4, <1>8, <2>2
    <3>. QED BY <1>9, <2>2, <3>1 DEF Fitting
  <2>. QED BY <2>1, <2>2
<1>11. RepackTypes'
  BY <1>1, <1>3, <1>8 DEF RepackTypes
<1>12. HandedOver'
  BY <1>4, <1>8, <1>10 DEF HandedOver
<1>16. PICK f : f = [p \in 1..(n + 1) |-> p]
  OBVIOUS
<1>13. Linked(f)'
  <2>1. DOMAIN repacked' = 1..(n + 1) /\ Len(repacked') = n + 1 /\ repacked' = source'
    BY <1>1, <1>8
  <2>2. f \in [1..(n + 1) -> 1..(n + 1)] /\ \A p \in 1..(n + 1) : f[p] = p
    BY <1>16
  <2>3. FromSource(f)'
    BY <1>4, <1>10, <2>1, <2>2 DEF FromSource, SameKind
  <2>4. InOrder(f)'
    BY <1>4, <1>10, <2>1, <2>2 DEF InOrder
  <2>5. Arrives(f)'
    <3> SUFFICES ASSUME NEW p \in 1..(n + 1)
                 PROVE  IF Jumps(source'[p])
                        THEN /\ source'[p].to \in 1..(n + 1)
                             /\ f[source'[p].to] = source'[f[p]].to
                             /\ source'[p].to > 1 => source'[source'[p].to - 1].id # 0
                        ELSE source'[p].to = 0
      BY <2>1 DEF Arrives
    <3>1. CASE Jumps(source'[p])
      <4>1. source'[p].to \in 1..(n + 1)
        BY <1>10, <3>1
      <4>2. source'[p].to > 1 => source'[p].to - 1 \in 1..(n + 1)
        BY <1>4, <4>1
      <4>3. source'[p].to > 1 => source'[source'[p].to - 1].id = source'[p].to - 1
        BY <1>10, <4>2
      <4>. QED BY <2>2, <3>1, <4>1, <4>3
    <3>2. CASE ~Jumps(source'[p])
      BY <1>10, <3>2
    <3>. QED BY <3>1, <3>2
  <2>6. InStep(f)'
    BY <1>1, <1>3, <1>4, <2>1, <2>2 DEF InStep, Compiling
  <2>. QED BY <1>8, <2>1, <2>2, <2>3, <2>4, <2>5, <2>6 DEF Linked
<1>14. \E g : Linked(g)'
  BY <1>13
<1>15. Len(repacked') > 0 /\ \A p \in DOMAIN repacked' : RegsBelow(repacked'[p], framesize')
  BY <1>1, <1>4, <1>8, <1>10
<1>17. at' = <<1, 1>>
  BY <1>1, <1>3 DEF Compiling
<1>. QED BY <1>1, <1>11, <1>12, <1>14, <1>15, <1>17 DEF RepackInv

\* What is known of the buffer from the end of the compilation on.
LEMMA InBuffer ==
    ASSUME RepackInv, phase # "compile"
    PROVE  /\ repacked \in Seq(Insns) /\ Len(repacked) \in Nat \ {0}
           /\ DOMAIN repacked = 1..Len(repacked) /\ framesize \in Nat \ {0}
           /\ \A p \in DOMAIN repacked : repacked[p] \in Insns /\ RegsBelow(repacked[p], framesize)
           /\ DOMAIN source = 1..Len(source) /\ Len(source) \in Nat \ {0}
           /\ \A k \in DOMAIN source : source[k] \in Insns
<1>1. /\ source \in Seq(Insns) /\ repacked \in Seq(Insns) /\ framesize \in Nat \ {0}
      /\ Len(repacked) > 0 /\ Len(source) > 0
      /\ \A p \in DOMAIN repacked : RegsBelow(repacked[p], framesize)
  BY DEF RepackInv, RepackTypes, HandedOver
<1>2. /\ DOMAIN repacked = 1..Len(repacked) /\ Len(repacked) \in Nat
      /\ DOMAIN source = 1..Len(source) /\ Len(source) \in Nat
  BY <1>1, LenProperties
<1>3. /\ \A p \in 1..Len(repacked) : repacked[p] \in Insns
      /\ \A k \in 1..Len(source) : source[k] \in Insns
  BY <1>1, ElementOfSeq
<1>. QED BY <1>1, <1>2, <1>3

\* The registers that must stay together are in the frame.
LEMMA NeededRegs ==
    ASSUME RepackInv, phase # "compile", NEW p \in DOMAIN repacked, Repacked!NeedsRepack(p)
    PROVE  /\ repacked[p].op \in {"CAT", "RET"}
           /\ Repacked!NumRegs(p) \in Nat \ {0} /\ Repacked!FirstReg(p) \in Nat
           /\ Repacked!FirstReg(p) + Repacked!NumRegs(p) <= framesize
<1> DEFINE ins == repacked[p]
<1>1. ins \in Insns /\ RegsBelow(ins, framesize) /\ framesize \in Nat
  BY InBuffer
<1>2. ins.a \in Nat /\ ins.b \in Nat /\ ins.c \in Nat
  BY <1>1, InsnFields
<1>3. \A h \in Repacked!Holes : h \in Nat
  <2>1. \A q \in DOMAIN repacked : repacked[q].a \in Nat
    BY InBuffer, InsnFields
  <2>. QED BY <2>1 DEF Repacked!Holes
<1>4. CASE ins.op = "CAT" /\ Repacked!ClosedRangeHole(Repacked!Holes, ins.b, ins.c)
  <2>1. ins.b <= ins.c
    BY <1>2, <1>3, <1>4 DEF Repacked!ClosedRangeHole, Repacked!RangeHole
  <2>2. Repacked!NumRegs(p) = ins.c - ins.b + 1 /\ Repacked!FirstReg(p) = ins.b
    BY <1>4 DEF Repacked!NumRegs, Repacked!FirstReg
  <2>3. ins.c < framesize
    BY <1>1, <1>4 DEF RegsBelow
  <2>. QED BY <1>1, <1>2, <1>4, <2>1, <2>2, <2>3
<1>5. CASE ins.op = "RET" /\ Repacked!RangeHole(Repacked!Holes, ins.a, ins.a + ins.c - 2)
  <2>1. ins.c >= 2
    BY <1>2, <1>3, <1>5 DEF Repacked!RangeHole
  <2>2. Repacked!NumRegs(p) = ins.c - 1 /\ Repacked!FirstReg(p) = ins.a
    BY <1>5 DEF Repacked!NumRegs, Repacked!FirstReg
  <2>3. ins.a + ins.c < framesize + 2
    BY <1>1, <1>5 DEF RegsBelow
  <2>. QED BY <1>1, <1>2, <1>5, <2>1, <2>2, <2>3
<1>. QED BY <1>4, <1>5 DEF Repacked!NeedsRepack

\* What a search for a new place finds.
LEMMA SearchFinds ==
    ASSUME NEW s \in SUBSET Nat, NEW t \in SUBSET Nat
    PROVE  Repacked!Searched(s, t) = Repacked!Nowhere \/ Repacked!Searched(s, t) \in s \cup t
<1>1. CASE s # {}
  BY <1>1, MinIs DEF Repacked!Searched
<1>2. CASE s = {} /\ t = {}
  BY <1>2 DEF Repacked!Searched, Repacked!Least
<1>3. CASE s = {} /\ t # {}
  BY <1>3, MinIs DEF Repacked!Searched, Repacked!Least
<1>. QED BY <1>1, <1>2, <1>3

\* The places that are searched have no hole between their registers.
LEMMA PlacesFree ==
    ASSUME RepackInv, phase # "compile", NEW p \in DOMAIN repacked, Repacked!NeedsRepack(p)
    PROVE  /\ Repacked!Inside(p) \in SUBSET Nat /\ Repacked!Outside(p) \in SUBSET Nat
           /\ \A base \in Repacked!Inside(p) \cup Repacked!Outside(p) :
                 Repacked!HoleFree(base, Repacked!NumRegs(p))
<1>1. framesize \in Nat /\ Repacked!NumRegs(p) \in Nat /\ MaxA \in Nat
  BY InBuffer, NeededRegs, PrototypeAssumption
<1>2. /\ \A x \in 0..(framesize - Repacked!NumRegs(p)) : x \in Nat
      /\ \A x \in framesize..(MaxA - Repacked!NumRegs(p) + 1) : x \in Nat
  BY <1>1
<1>. QED BY <1>2 DEF Repacked!Inside, Repacked!Outside

\* The place of a move has none, either, or it is that of a RET above the frame.
LEMMA MoveBaseFound ==
    ASSUME RepackInv, phase # "compile", NEW p \in DOMAIN repacked, Repacked!NeedsRepack(p),
           NEW w, Repacked!MoveBase(p, w) # Repacked!Nowhere
    PROVE  /\ Repacked!MoveBase(p, w) \in Nat
           /\ \/ Repacked!HoleFree(Repacked!MoveBase(p, w), Repacked!NumRegs(p))
              \/ repacked[p].op = "RET" /\ Repacked!MoveBase(p, w) = framesize
<1>1. CASE repacked[p].op = "RET"
  BY <1>1, InBuffer DEF Repacked!MoveBase
<1>2. CASE repacked[p].op # "RET"
  <2> DEFINE s == {base \in Repacked!Inside(p) :
                     /\ Repacked!Apart(p, base)
                     /\ Repacked!Touched(p, w) \cap base..(base + Repacked!NumRegs(p) - 1) = {}}
             t == {base \in Repacked!Outside(p) : Repacked!Apart(p, base)}
  <2>1. Repacked!MoveBase(p, w) = Repacked!Searched(s, t)
    BY <1>2 DEF Repacked!MoveBase
  <2>2. s \subseteq Repacked!Inside(p) /\ t \subseteq Repacked!Outside(p)
    OBVIOUS
  <2> HIDE DEF s, t
  <2>3. Repacked!MoveBase(p, w) \in s \cup t
    BY <2>1, <2>2, PlacesFree, SearchFinds
  <2>. QED BY <2>2, <2>3, PlacesFree
<1>. QED BY <1>1, <1>2

\* The place of copies has none, or it was taken without looking.
LEMMA CopyBaseFound ==
    ASSUME RepackInv, phase # "compile", NEW p \in DOMAIN repacked, Repacked!NeedsRepack(p),
           Repacked!CopyBase(p, Repacked!Inside(p)) # Repacked!Nowhere
    PROVE  /\ Repacked!JumpsTo(p) = {}
           /\ Repacked!CopyBase(p, Repacked!Inside(p)) \in Nat
           /\ \/ Repacked!HoleFree(Repacked!CopyBase(p, Repacked!Inside(p)), Repacked!NumRegs(p))
              \/ Repacked!CopyBase(p, Repacked!Inside(p)) = framesize - Repacked!NumRegs(p) + 1
<1> DEFINE inside == Repacked!Inside(p)
           s == {base \in inside : Repacked!Apart(p, base)}
           t == {base \in Repacked!Outside(p) : Repacked!Apart(p, base)}
           apart == Repacked!Searched(s, t)
           split == Repacked!SplitBase(p, inside)
           base == Repacked!CopyBase(p, inside)
<1>1. /\ Repacked!JumpsTo(p) = {}
      /\ base = apart \/ base = split
      /\ apart # Repacked!Nowhere => base = apart
  BY DEF Repacked!CopyBase
<1>2. s \subseteq inside /\ t \subseteq Repacked!Outside(p)
  OBVIOUS
<1>3. /\ inside \in SUBSET Nat /\ Repacked!Outside(p) \in SUBSET Nat
      /\ \A x \in inside \cup Repacked!Outside(p) : Repacked!HoleFree(x, Repacked!NumRegs(p))
  BY PlacesFree
<1>4. framesize - Repacked!NumRegs(p) + 1 \in Nat
  BY InBuffer, NeededRegs
<1>5. split \in inside \/ split = framesize - Repacked!NumRegs(p) + 1
  BY <1>3, MinIs DEF Repacked!SplitBase
<1> HIDE DEF s, t, inside, split
<1>6. apart = Repacked!Nowhere \/ apart \in s \cup t
  BY <1>2, <1>3, SearchFinds
<1> HIDE DEF apart, base
<1>7. base # Repacked!Nowhere
  BY DEF base, inside
<1>8. CASE base = apart
  <2>1. base \in inside \cup Repacked!Outside(p)
    BY <1>2, <1>6, <1>7, <1>8
  <2>. QED BY <1>1, <1>3, <2>1 DEF base, inside
<1>9. CASE base = split
  BY <1>1, <1>3, <1>4, <1>5, <1>9 DEF base, inside
<1>. QED BY <1>1, <1>8, <1>9

\* What is done about an instruction, whatever window was found.
Planned(plan) ==
    /\ plan.at \in DOMAIN repacked /\ Repacked!NeedsRepack(plan.at)
    /\ plan.base \in Nat
    /\ plan.how = "move" =>
          \/ Repacked!HoleFree(plan.base, Repacked!NumRegs(plan.at))
          \/ repacked[plan.at].op = "RET" /\ plan.base = framesize
    /\ plan.how # "move" =>
          /\ repacked[plan.at].op = "CAT" /\ Repacked!JumpsTo(plan.at) = {}
          /\ \/ Repacked!HoleFree(plan.base, Repacked!NumRegs(plan.at))
             \/ plan.base = framesize - Repacked!NumRegs(plan.at) + 1

\* Every plan is one of those.
LEMMA PlanFacts ==
    ASSUME RepackInv, phase # "compile", NEW plan \in Repacked!Plans
    PROVE  Planned(plan)
<1>1. PICK p \in DOMAIN repacked : Repacked!NeedsRepack(p) /\ plan \in Repacked!Plan(p)
  BY DEF Repacked!Plans
<1>2. ASSUME NEW w, plan \in Repacked!MovePlan(p, w)
      PROVE  Planned(plan)
  <2>1. /\ plan = [how |-> "move", at |-> p, window |-> w, base |-> Repacked!MoveBase(p, w)]
        /\ Repacked!MoveBase(p, w) # Repacked!Nowhere
    BY <1>2 DEF Repacked!MovePlan, Repacked!PlanFor
  <2>2. plan.at = p /\ plan.how = "move" /\ plan.base = Repacked!MoveBase(p, w)
    BY <2>1
  <2>. QED BY <1>1, <2>1, <2>2, MoveBaseFound DEF Planned
<1>3. ASSUME repacked[p].op # "RET", plan \in Repacked!CopyPlan(p)
      PROVE  Planned(plan)
  <2> DEFINE base == Repacked!CopyBase(p, Repacked!Inside(p))
  <2>1. /\ plan = [how |-> "copy", at |-> p, window |-> p, base |-> base]
        /\ base # Repacked!Nowhere
    BY <1>3 DEF Repacked!CopyPlan, Repacked!PlanFor
  <2>2. plan.at = p /\ plan.how = "copy" /\ plan.base = base
    BY <2>1
  <2>3. repacked[p].op = "CAT"
    BY <1>1, <1>3, NeededRegs
  <2>. QED BY <1>1, <2>1, <2>2, <2>3, CopyBaseFound DEF Planned
<1>4. \/ \E w : plan \in Repacked!MovePlan(p, w)
      \/ repacked[p].op # "RET" /\ plan \in Repacked!CopyPlan(p)
  BY <1>1, Zenon DEF Repacked!Plan, Repacked!PlanWith, Repacked!OtherPlan
<1>. QED BY <1>2, <1>3, <1>4

\* The greater of two numbers.
LEMMA MaxTwo ==
    ASSUME NEW m \in Nat, NEW n \in Nat
    PROVE  /\ Repacked!Max({m, n}) \in Nat /\ Repacked!Max({m, n}) \in {m, n}
           /\ m <= Repacked!Max({m, n}) /\ n <= Repacked!Max({m, n})
<1>1. {m, n} \in SUBSET 0..(m + n) /\ {m, n} # {} /\ m + n \in Nat
  OBVIOUS
<1>2. Repacked!Max({m, n}) \in {m, n} /\ \A y \in {m, n} : y <= Repacked!Max({m, n})
  BY <1>1, MaxIs
<1>. QED BY <1>2

\* A register of first..last is renamed, another one is not.
Renamed(r, first, last, base) == IF r \in first..last THEN base + r - first ELSE r

\* What ins becomes.
RemappedAs(new, ins, first, last, base) ==
    /\ new \in Insns
    /\ new.id = ins.id /\ new.op = ins.op /\ new.to = ins.to
    /\ new.a = IF ins.op = "JMP" THEN ins.a ELSE Renamed(ins.a, first, last, base)
    /\ new.b = IF ins.op = "CAT" THEN Renamed(ins.b, first, last, base) ELSE ins.b
    /\ new.c = IF ins.op \in {"CAT", "MOV", "TEST", "EQ"}
               THEN Renamed(ins.c, first, last, base) ELSE ins.c

\* That is what renaming makes of it.
LEMMA RemappedFields ==
    ASSUME NEW ins \in Insns, NEW first \in Nat, NEW last \in Nat, NEW base \in Nat
    PROVE  RemappedAs(Repacked!Remapped(ins, first, last, base), ins, first, last, base)
<1>1. \A r \in Nat : Renamed(r, first, last, base) \in Nat
  BY DEF Renamed
<1> DEFINE x == IF ins.op = "JMP" THEN ins.a ELSE Renamed(ins.a, first, last, base)
           y == IF ins.op = "CAT" THEN Renamed(ins.b, first, last, base) ELSE ins.b
           z == IF ins.op \in {"CAT", "MOV", "TEST", "EQ"}
                THEN Renamed(ins.c, first, last, base) ELSE ins.c
           new == [ins EXCEPT !.a = x, !.b = y, !.c = z]
<1>2. Repacked!Remapped(ins, first, last, base) = new
  BY Zenon DEF Repacked!Remapped, Renamed
<1>3. x \in Nat /\ y \in Nat /\ z \in Nat
  BY <1>1, InsnFields
<1> HIDE DEF x, y, z
<1>4. /\ new \in Insns
      /\ new.id = ins.id /\ new.op = ins.op /\ new.to = ins.to
      /\ new.a = x /\ new.b = y /\ new.c = z
  BY <1>3 DEF Insns
<1> HIDE DEF new
<1>5. RemappedAs(new, ins, first, last, base)
  BY <1>4, Zenon DEF x, y, z, RemappedAs
<1>. QED BY <1>2, <1>5

\* The registers of a plan that is carried out.
LEMMA PlanRegs ==
    ASSUME RepackInv, phase # "compile", NEW plan, Planned(plan)
    PROVE  /\ Repacked!FirstReg(plan.at) \in Nat /\ Repacked!NumRegs(plan.at) \in Nat \ {0}
           /\ Repacked!FirstReg(plan.at) + Repacked!NumRegs(plan.at) - 1 \in Nat
           /\ Repacked!FirstReg(plan.at) + Repacked!NumRegs(plan.at) <= framesize
           /\ plan.base \in Nat /\ plan.base + Repacked!NumRegs(plan.at) \in Nat
           /\ repacked[plan.at].op \in {"CAT", "RET"} /\ plan.at \in 1..Len(repacked)
           /\ repacked[plan.at].op = "CAT" =>
                 Repacked!NumRegs(plan.at) = repacked[plan.at].c - repacked[plan.at].b + 1
           /\ repacked[plan.at].op = "RET" => Repacked!NumRegs(plan.at) = repacked[plan.at].c - 1
<1>1. plan.at \in DOMAIN repacked /\ Repacked!NeedsRepack(plan.at) /\ plan.base \in Nat
  BY DEF Planned
<1>2. /\ Repacked!FirstReg(plan.at) \in Nat /\ Repacked!NumRegs(plan.at) \in Nat \ {0}
      /\ Repacked!FirstReg(plan.at) + Repacked!NumRegs(plan.at) <= framesize
      /\ repacked[plan.at].op \in {"CAT", "RET"}
  BY <1>1, NeededRegs
<1>3. /\ repacked[plan.at].op = "CAT" =>
            Repacked!NumRegs(plan.at) = repacked[plan.at].c - repacked[plan.at].b + 1
      /\ repacked[plan.at].op = "RET" => Repacked!NumRegs(plan.at) = repacked[plan.at].c - 1
  BY DEF Repacked!NumRegs
<1>4. DOMAIN repacked = 1..Len(repacked)
  BY InBuffer
<1>. QED BY <1>1, <1>2, <1>3, <1>4

\* What the window holds.
LEMMA WindowSafe ==
    ASSUME RepackInv, phase # "compile", NEW plan, Planned(plan),
           NEW q \in Repacked!InWindow(plan)
    PROVE  /\ q \in 1..Len(repacked) /\ q < plan.at /\ q \in 1..(Len(repacked) - 1)
           /\ "torn" \notin Repacked!FaultsOf(plan) /\ repacked[q].op = "CAT" =>
                 \/ (repacked[q].b..repacked[q].c) \subseteq Repacked!Together(plan.at)
                 \/ (repacked[q].b..repacked[q].c) \cap Repacked!Together(plan.at) = {}
           /\ "carried" \notin Repacked!FaultsOf(plan) /\ repacked[q].op = "CALL" =>
                 repacked[q].a \notin Repacked!Together(plan.at)
<1>1. plan.at \in 1..Len(repacked) /\ Len(repacked) \in Nat
  BY PlanRegs, InBuffer
<1>2. q \in 1..(plan.at - 1)
  BY DEF Repacked!InWindow
<1>3. ASSUME "torn" \notin Repacked!FaultsOf(plan), repacked[q].op = "CAT"
      PROVE  \/ (repacked[q].b..repacked[q].c) \subseteq Repacked!Together(plan.at)
             \/ (repacked[q].b..repacked[q].c) \cap Repacked!Together(plan.at) = {}
  BY <1>3, Zenon DEF Repacked!FaultsOf
<1>4. ASSUME "carried" \notin Repacked!FaultsOf(plan), repacked[q].op = "CALL"
      PROVE  repacked[q].a \notin Repacked!Together(plan.at)
  BY <1>4, Zenon DEF Repacked!FaultsOf
<1>. QED BY <1>1, <1>2, <1>3, <1>4

\* Only the last instruction ends the program.
LEMMA NoEndInside ==
    ASSUME RepackInv, phase # "compile", NEW q \in 1..(Len(repacked) - 1)
    PROVE  ~Repacked!Ends(repacked[q])
<1>1. PICK f : Linked(f)
  BY DEF RepackInv
<1>2. /\ Len(repacked) \in Nat /\ DOMAIN repacked = 1..Len(repacked)
      /\ Len(source) \in Nat /\ DOMAIN source = 1..Len(source)
  BY InBuffer
<1>3. q \in 1..Len(repacked) /\ q + 1 \in 1..Len(repacked)
  BY <1>2
<1>4. f[q] \in 1..Len(source) /\ f[q + 1] \in 1..Len(source)
  BY <1>1, <1>2, <1>3 DEF Linked
<1>5. CASE repacked[q].id = 0
  BY <1>1, <1>2, <1>3, <1>5 DEF Linked, FromSource, Repacked!Ends
<1>6. CASE repacked[q].id # 0
  <2>1. f[q + 1] = f[q] + 1
    BY <1>1, <1>6 DEF Linked, InOrder
  <2>2. f[q] # Len(source)
    BY <1>2, <1>4, <2>1
  <2>3. ~Repacked!Ends(source[f[q]])
    BY <1>2, <1>4, <2>2 DEF RepackInv, HandedOver
  <2>4. repacked[q].op = source[f[q]].op
    BY <1>1, <1>2, <1>3, <1>6 DEF Linked, FromSource, SameKind
  <2>. QED BY <2>3, <2>4 DEF Repacked!Ends
<1>. QED BY <1>5, <1>6

\* What a move makes of the instruction at q.
MovedAs(new, plan, q) ==
    IF q \in Repacked!InWindow(plan)
    THEN RemappedAs(new, repacked[q], Repacked!FirstReg(plan.at),
                    Repacked!FirstReg(plan.at) + Repacked!NumRegs(plan.at) - 1, plan.base)
    ELSE IF q # plan.at THEN new = repacked[q]
    ELSE /\ new \in Insns
         /\ new.id = repacked[q].id /\ new.op = repacked[q].op /\ new.to = repacked[q].to
         /\ new.op = "RET" => new.a = plan.base /\ new.c = repacked[q].c
         /\ new.op = "CAT" => /\ new.a = repacked[q].a /\ new.b = plan.base
                              /\ new.c = plan.base + Repacked!NumRegs(plan.at) - 1

\* That is what a move makes of the code.
LEMMA MovedParts ==
    ASSUME RepackInv, phase # "compile", NEW plan, Planned(plan)
    PROVE  /\ Repacked!Moved(plan) \in Seq(Insns)
           /\ Len(Repacked!Moved(plan)) = Len(repacked)
           /\ \A q \in 1..Len(repacked) : MovedAs(Repacked!Moved(plan)[q], plan, q)
<1> DEFINE p == plan.at
           first == Repacked!FirstReg(p)
           n == Repacked!NumRegs(p)
           last == first + n - 1
           ret == [repacked[p] EXCEPT !.a = plan.base]
           cat == [repacked[p] EXCEPT !.b = plan.base, !.c = plan.base + n - 1]
           New(q) == IF q \in Repacked!InWindow(plan)
                     THEN Repacked!Remapped(repacked[q], first, last, plan.base)
                     ELSE IF q = p /\ repacked[p].op = "RET" THEN ret
                     ELSE IF q = p THEN cat
                     ELSE repacked[q]
<1>1. Repacked!Moved(plan) = [q \in DOMAIN repacked |-> New(q)]
  BY DEF Repacked!Moved
<1>2. /\ DOMAIN repacked = 1..Len(repacked) /\ Len(repacked) \in Nat
      /\ \A q \in 1..Len(repacked) : repacked[q] \in Insns
  BY InBuffer
<1>3. /\ first \in Nat /\ last \in Nat /\ n \in Nat \ {0} /\ plan.base \in Nat
      /\ plan.base + n - 1 \in Nat /\ p \in 1..Len(repacked)
      /\ repacked[p].op \in {"CAT", "RET"}
  BY PlanRegs
<1>4. /\ ret \in Insns /\ ret.id = repacked[p].id /\ ret.op = repacked[p].op
      /\ ret.to = repacked[p].to /\ ret.a = plan.base /\ ret.c = repacked[p].c
      /\ cat \in Insns /\ cat.id = repacked[p].id /\ cat.op = repacked[p].op
      /\ cat.to = repacked[p].to /\ cat.a = repacked[p].a /\ cat.b = plan.base
      /\ cat.c = plan.base + n - 1
  <2> DEFINE ins == repacked[p]
             x == plan.base
             y == plan.base + n - 1
  <2>1. ins \in Insns /\ x \in Nat /\ y \in Nat
    BY <1>2, <1>3
  <2>2. ret = [ins EXCEPT !.a = x] /\ cat = [ins EXCEPT !.b = x, !.c = y]
    OBVIOUS
  <2> HIDE DEF ins, x, y, ret, cat
  <2>3. /\ ret \in Insns /\ ret.id = ins.id /\ ret.op = ins.op
        /\ ret.to = ins.to /\ ret.a = x /\ ret.c = ins.c
    BY <2>1, <2>2 DEF Insns
  <2>4. /\ cat \in Insns /\ cat.id = ins.id /\ cat.op = ins.op
        /\ cat.to = ins.to /\ cat.a = ins.a /\ cat.b = x /\ cat.c = y
    BY <2>1, <2>2 DEF Insns
  <2>. QED BY <2>3, <2>4 DEF ins, x, y
<1> HIDE DEF ret, cat
<1>5. ASSUME NEW q \in 1..Len(repacked)
      PROVE  New(q) \in Insns /\ MovedAs(New(q), plan, q)
  <2>1. CASE q \in Repacked!InWindow(plan)
    <3>1. RemappedAs(Repacked!Remapped(repacked[q], first, last, plan.base), repacked[q],
                     first, last, plan.base)
      BY <1>2, <1>3, RemappedFields
    <3>2. New(q) = Repacked!Remapped(repacked[q], first, last, plan.base)
      BY <2>1
    <3>. QED BY <2>1, <3>1, <3>2 DEF MovedAs, RemappedAs
  <2>2. CASE q \notin Repacked!InWindow(plan) /\ q # p
    BY <1>2, <2>2 DEF MovedAs
  <2>3. CASE q \notin Repacked!InWindow(plan) /\ q = p /\ repacked[p].op = "RET"
    <3>1. New(q) = ret
      BY <2>3
    <3>. QED BY <1>4, <2>3, <3>1 DEF MovedAs
  <2>4. CASE q \notin Repacked!InWindow(plan) /\ q = p /\ repacked[p].op # "RET"
    <3>1. New(q) = cat
      BY <2>4
    <3>. QED BY <1>4, <2>4, <3>1 DEF MovedAs
  <2>. QED BY <2>1, <2>2, <2>3, <2>4
<1> HIDE DEF New
<1>6. Repacked!Moved(plan) = [q \in 1..Len(repacked) |-> New(q)]
  BY <1>1, <1>2
<1>7. Repacked!Moved(plan) \in Seq(Insns)
  BY <1>2, <1>5, <1>6, IsASeq
<1>8. /\ Len(Repacked!Moved(plan)) = Len(repacked)
      /\ \A q \in 1..Len(repacked) : Repacked!Moved(plan)[q] = New(q)
  BY <1>2, <1>6, <1>7
<1>. QED BY <1>5, <1>7, <1>8

\* A move keeps the program, its numbers and its jumps.
LEMMA MovedKeeps ==
    ASSUME RepackInv, phase # "compile", NEW plan, Planned(plan), NEW q \in 1..Len(repacked),
           NEW new, MovedAs(new, plan, q), NEW w \in Nat, framesize <= w,
           plan.base + Repacked!NumRegs(plan.at) <= w
    PROVE  /\ new.id = repacked[q].id /\ new.op = repacked[q].op /\ new.to = repacked[q].to
           /\ RegsBelow(new, w)
           /\ new.op = "RET" => new.c = repacked[q].c
           /\ "torn" \notin Repacked!FaultsOf(plan) /\ new.op = "CAT"
              /\ repacked[q].b <= repacked[q].c =>
                 new.c - new.b = repacked[q].c - repacked[q].b
<1> DEFINE p == plan.at
           first == Repacked!FirstReg(p)
           n == Repacked!NumRegs(p)
           last == first + n - 1
           old == repacked[q]
<1>1. /\ old \in Insns /\ RegsBelow(old, framesize) /\ framesize \in Nat
      /\ DOMAIN repacked = 1..Len(repacked)
  BY InBuffer
<1>2. /\ first \in Nat /\ last \in Nat /\ n \in Nat \ {0} /\ plan.base \in Nat
      /\ p \in 1..Len(repacked) /\ plan.base + last - first < w
      /\ repacked[p].op \in {"CAT", "RET"}
      /\ repacked[p].op = "CAT" => n = repacked[p].c - repacked[p].b + 1
      /\ repacked[p].op = "RET" => n = repacked[p].c - 1
  BY PlanRegs
<1>3. old.a \in Nat /\ old.b \in Nat /\ old.c \in Nat
  BY <1>1, InsnFields
<1>7. q = p => /\ old.op \in {"CAT", "RET"}
               /\ old.op = "CAT" => n = old.c - old.b + 1
               /\ old.op = "RET" => n = old.c - 1
  BY <1>2
<1>8. plan.base + n <= w /\ w \in Nat
  OBVIOUS
<1> HIDE DEF first, last, n, old
<1>4. CASE q \in Repacked!InWindow(plan)
  <2>1. RemappedAs(new, old, first, last, plan.base)
    BY <1>4 DEF MovedAs, first, last, n, old
  <2>2. old.op # "RET"
    BY <1>4, WindowSafe, NoEndInside DEF Repacked!Ends, old
  <2>3. \A r \in Nat : r < framesize => Renamed(r, first, last, plan.base) < w
    BY <1>1, <1>2 DEF Renamed
  <2>4. RegsBelow(new, w)
    BY <1>1, <1>3, <2>1, <2>2, <2>3 DEF RegsBelow, RemappedAs
  <2>5. ASSUME "torn" \notin Repacked!FaultsOf(plan), old.op = "CAT", old.b <= old.c
        PROVE  new.c - new.b = old.c - old.b
    <3>1. \/ (old.b..old.c) \subseteq first..last
          \/ (old.b..old.c) \cap first..last = {}
      BY <1>4, <2>5, WindowSafe DEF Repacked!Together, first, last, n, old
    <3>2. Renamed(old.c, first, last, plan.base) - Renamed(old.b, first, last, plan.base)
             = old.c - old.b
      <4>1. old.b \in Nat /\ old.c \in Nat /\ old.b <= old.c
        BY <1>3, <2>5
      <4>2. old.b \in old.b..old.c /\ old.c \in old.b..old.c
        BY <4>1
      <4>3. old.b \in first..last <=> old.c \in first..last
        BY <3>1, <4>2
      <4>4. CASE old.b \in first..last
        BY <1>2, <4>1, <4>3, <4>4, SMTT(30) DEF Renamed
      <4>5. CASE old.b \notin first..last
        BY <4>3, <4>5 DEF Renamed
      <4>. QED BY <4>4, <4>5
    <3>. QED BY <2>1, <2>5, <3>2 DEF RemappedAs
  <2>. QED BY <2>1, <2>2, <2>4, <2>5 DEF RemappedAs, old
<1>5. CASE q \notin Repacked!InWindow(plan) /\ q # p
  <2>1. new = old
    BY <1>5 DEF MovedAs, old
  <2>. QED BY <1>1, <2>1, RegsLarger DEF old
<1>6. CASE q \notin Repacked!InWindow(plan) /\ q = p
  <2>1. /\ new \in Insns
        /\ new.id = old.id /\ new.op = old.op /\ new.to = old.to
        /\ new.op = "RET" => new.a = plan.base /\ new.c = old.c
        /\ new.op = "CAT" => /\ new.a = old.a /\ new.b = plan.base
                             /\ new.c = plan.base + n - 1
    BY <1>6 DEF MovedAs, old, n
  <2>2. RegsBelow(new, w)
    <3>1. CASE old.op = "CAT"
      <4>1. new.op = "CAT" /\ new.a = old.a /\ new.b = plan.base /\ new.c = plan.base + n - 1
        BY <2>1, <3>1
      <4>2. old.a < w
        BY <1>1, <1>3 DEF RegsBelow
      <4>3. plan.base < w /\ plan.base + n - 1 < w
        BY <1>2, <1>8
      <4>. QED BY <4>1, <4>2, <4>3 DEF RegsBelow
    <3>2. CASE old.op = "RET"
      <4>1. new.a = plan.base /\ new.c = n + 1 /\ new.op = "RET"
        BY <1>2, <1>3, <1>6, <1>7, <2>1, <3>2
      <4>. QED BY <1>2, <1>8, <4>1 DEF RegsBelow
    <3>. QED BY <1>6, <1>7, <3>1, <3>2
  <2>3. new.op = "CAT" => new.c - new.b = old.c - old.b
    BY <1>2, <1>3, <1>6, <1>7, <2>1
  <2>. QED BY <2>1, <2>2, <2>3 DEF old
<1>. QED BY <1>4, <1>5, <1>6

\* What a program with a part spliced in consists of.
LEMMA Spliced ==
    ASSUME NEW S, NEW r \in Seq(S), NEW s \in Seq(S), NEW x \in S, NEW t \in Seq(S)
    PROVE  /\ r \o s \o <<x>> \o t \in Seq(S)
           /\ Len(r \o s \o <<x>> \o t) = Len(r) + Len(s) + 1 + Len(t)
           /\ \A q \in 1..(Len(r) + Len(s) + 1 + Len(t)) :
                (r \o s \o <<x>> \o t)[q] =
                   IF q <= Len(r) THEN r[q]
                   ELSE IF q <= Len(r) + Len(s) THEN s[q - Len(r)]
                   ELSE IF q = Len(r) + Len(s) + 1 THEN x
                   ELSE t[q - (Len(r) + Len(s) + 1)]
<1>1. Len(r) \in Nat /\ Len(s) \in Nat /\ Len(t) \in Nat
  BY LenProperties
<1>2. <<x>> \in Seq(S) /\ Len(<<x>>) = 1 /\ <<x>>[1] = x
  BY Singles
<1> DEFINE rs == r \o s
           rsx == rs \o <<x>>
           rsxt == rsx \o t
<1>3. /\ rs \in Seq(S) /\ Len(rs) = Len(r) + Len(s)
      /\ \A q \in 1..(Len(r) + Len(s)) : rs[q] = IF q <= Len(r) THEN r[q] ELSE s[q - Len(r)]
  BY ConcatProperties
<1> HIDE DEF rs
<1>4. /\ rsx \in Seq(S) /\ Len(rsx) = Len(rs) + 1
      /\ \A q \in 1..(Len(rs) + 1) : rsx[q] = IF q <= Len(rs) THEN rs[q] ELSE <<x>>[q - Len(rs)]
  <2> DEFINE u == <<x>>
  <2>1. u \in Seq(S) /\ Len(u) = 1
    BY <1>2
  <2>3. rs \in Seq(S)
    BY <1>3
  <2> HIDE DEF u
  <2>2. /\ rs \o u \in Seq(S) /\ Len(rs \o u) = Len(rs) + Len(u)
        /\ \A q \in 1..(Len(rs) + Len(u)) :
              (rs \o u)[q] = IF q <= Len(rs) THEN rs[q] ELSE u[q - Len(rs)]
    BY <2>1, <2>3, ConcatProperties
  <2>. QED BY <2>1, <2>2 DEF u
<1> HIDE DEF rsx
<1>5. /\ rsxt \in Seq(S) /\ Len(rsxt) = Len(rsx) + Len(t)
      /\ \A q \in 1..(Len(rsx) + Len(t)) : rsxt[q] = IF q <= Len(rsx) THEN rsx[q] ELSE t[q - Len(rsx)]
  <2>1. rsx \in Seq(S) /\ t \in Seq(S)
    BY <1>4
  <2>. QED BY <2>1, ConcatProperties
<1>6. rsxt = r \o s \o <<x>> \o t
  BY DEF rsx, rs
<1> HIDE DEF rsxt
<1>7. Len(rs) \in Nat /\ Len(rsx) = Len(r) + Len(s) + 1 /\ Len(rsxt) = Len(r) + Len(s) + 1 + Len(t)
  BY <1>1, <1>3, <1>4, <1>5
<1>8. ASSUME NEW q \in 1..(Len(r) + Len(s) + 1 + Len(t))
      PROVE  rsxt[q] = IF q <= Len(r) THEN r[q]
                       ELSE IF q <= Len(r) + Len(s) THEN s[q - Len(r)]
                       ELSE IF q = Len(r) + Len(s) + 1 THEN x
                       ELSE t[q - (Len(r) + Len(s) + 1)]
  <2>1. CASE q <= Len(r) + Len(s)
    <3>1. q \in 1..(Len(r) + Len(s)) /\ q \in 1..(Len(rs) + 1) /\ q \in 1..(Len(rsx) + Len(t))
          /\ q <= Len(rs) /\ q <= Len(rsx)
      BY <1>1, <1>3, <1>7, <2>1
    <3>2. rsxt[q] = rs[q]
      BY <1>4, <1>5, <3>1
    <3>. QED BY <1>3, <2>1, <3>1, <3>2
  <2>2. CASE q = Len(r) + Len(s) + 1
    <3>1. q \in 1..(Len(rs) + 1) /\ q \in 1..(Len(rsx) + Len(t))
          /\ ~(q <= Len(rs)) /\ q - Len(rs) = 1 /\ q <= Len(rsx)
      BY <1>1, <1>3, <1>7, <2>2
    <3>2. rsxt[q] = <<x>>[1]
      BY <1>4, <1>5, <3>1
    <3>3. ~(q <= Len(r)) /\ ~(q <= Len(r) + Len(s))
      BY <1>1, <2>2
    <3>. QED BY <1>2, <2>2, <3>2, <3>3
  <2>3. CASE q > Len(r) + Len(s) + 1
    <3>1. q \in 1..(Len(rsx) + Len(t)) /\ ~(q <= Len(rsx))
      BY <1>1, <1>7, <2>3
    <3>2. rsxt[q] = t[q - Len(rsx)]
      BY <1>5, <3>1
    <3>3. ~(q <= Len(r)) /\ ~(q <= Len(r) + Len(s)) /\ q # Len(r) + Len(s) + 1
      BY <1>1, <2>3
    <3>. QED BY <1>7, <3>2, <3>3
  <2>. QED BY <1>1, <2>1, <2>2, <2>3
<1>. QED BY <1>5, <1>6, <1>7, <1>8

\* An instruction whose jump is moved past n copies before p.
ShiftedAs(new, old, p, n) ==
    /\ new \in Insns
    /\ new.id = old.id /\ new.op = old.op
    /\ new.a = old.a /\ new.b = old.b /\ new.c = old.c
    /\ new.to = IF old.to > p THEN old.to + n ELSE old.to

\* What copies make of the code at q.
CopiedAs(new, plan, q) ==
    LET p == plan.at
        n == Repacked!NumRegs(p)
    IN /\ q < p => ShiftedAs(new, repacked[q], p, n)
       /\ q >= p /\ q < p + n =>
             /\ new \in Insns /\ new.id = 0 /\ new.op = "MOV" /\ new.to = 0
             /\ new.a \in plan.base..(plan.base + n - 1)
             /\ new.c \in Repacked!FirstReg(p)..(Repacked!FirstReg(p) + n - 1)
       /\ q = p + n =>
             /\ new \in Insns /\ new.id = repacked[p].id /\ new.op = repacked[p].op
             /\ new.a = repacked[p].a /\ new.b = plan.base /\ new.c = plan.base + n - 1
             /\ new.to = IF repacked[p].to > p THEN repacked[p].to + n ELSE repacked[p].to
       /\ q > p + n => ShiftedAs(new, repacked[q - n], p, n)

\* That is what copies make of the code.
LEMMA CopiesParts ==
    ASSUME RepackInv, phase # "compile", NEW plan, Planned(plan)
    PROVE  /\ Repacked!WithCopies(plan) \in Seq(Insns)
           /\ Len(Repacked!WithCopies(plan)) = Len(repacked) + Repacked!NumRegs(plan.at)
           /\ \A q \in 1..(Len(repacked) + Repacked!NumRegs(plan.at)) :
                 CopiedAs(Repacked!WithCopies(plan)[q], plan, q)
<1> DEFINE p == plan.at
           first == Repacked!FirstReg(p)
           n == Repacked!NumRegs(p)
           base == plan.base
           Offset(k) == IF base > first THEN n - k ELSE k - 1
           copies == [k \in 1..n |-> Repacked!Copy(base + Offset(k), first + Offset(k))]
           shifted == [q \in DOMAIN repacked |->
                          [repacked[q] EXCEPT !.to = IF @ > p THEN @ + n ELSE @]]
           cat == [shifted[p] EXCEPT !.b = base, !.c = base + n - 1]
           left == SubSeq(shifted, 1, p - 1)
           right == SubSeq(shifted, p + 1, Len(repacked))
<1>1. Repacked!WithCopies(plan) = left \o copies \o <<cat>> \o right
  BY DEF Repacked!WithCopies
<1>2. /\ DOMAIN repacked = 1..Len(repacked) /\ Len(repacked) \in Nat
      /\ \A q \in 1..Len(repacked) : repacked[q] \in Insns
  BY InBuffer
<1>3. /\ first \in Nat /\ n \in Nat \ {0} /\ base \in Nat /\ p \in 1..Len(repacked)
      /\ base + n - 1 \in Nat
  BY PlanRegs
<1>4. copies \in Seq(Insns) /\ Len(copies) = n
      /\ \A k \in 1..n : /\ copies[k] \in Insns /\ copies[k].id = 0 /\ copies[k].op = "MOV"
                         /\ copies[k].to = 0 /\ copies[k].a \in base..(base + n - 1)
                         /\ copies[k].c \in first..(first + n - 1)
  <2>1. \A r, s \in Nat : /\ Repacked!Copy(r, s) \in Insns /\ Repacked!Copy(r, s).id = 0
                          /\ Repacked!Copy(r, s).op = "MOV" /\ Repacked!Copy(r, s).to = 0
                          /\ Repacked!Copy(r, s).a = r /\ Repacked!Copy(r, s).c = s
    BY DEF Repacked!Copy, Repacked!Ins, Insns, Operations
  <2>2. \A k \in 1..n : Offset(k) \in 0..(n - 1)
    BY <1>3
  <2> HIDE DEF Offset
  <2>3. \A k \in 1..n : /\ base + Offset(k) \in Nat /\ first + Offset(k) \in Nat
                        /\ base + Offset(k) \in base..(base + n - 1)
                        /\ first + Offset(k) \in first..(first + n - 1)
    BY <1>3, <2>2, SMTT(30)
  <2> DEFINE Each(k) == Repacked!Copy(base + Offset(k), first + Offset(k))
  <2>4. \A k \in 1..n : /\ Each(k) \in Insns /\ Each(k).id = 0 /\ Each(k).op = "MOV"
                        /\ Each(k).to = 0 /\ Each(k).a \in base..(base + n - 1)
                        /\ Each(k).c \in first..(first + n - 1)
    BY <2>1, <2>3
  <2>5. copies = [k \in 1..n |-> Each(k)]
    OBVIOUS
  <2> HIDE DEF Each, copies
  <2>6. copies \in Seq(Insns)
    <3>1. n \in Nat /\ \A k \in 1..n : Each(k) \in Insns
      BY <1>3, <2>4
    <3>. QED BY <2>5, <3>1
  <2>7. Len(copies) = n /\ \A k \in 1..n : copies[k] = Each(k)
    BY <1>3, <2>5, <2>6
  <2>. QED BY <2>4, <2>6, <2>7
<1> HIDE DEF copies
<1>5. ASSUME NEW q \in 1..Len(repacked)
      PROVE  shifted[q] \in Insns /\ ShiftedAs(shifted[q], repacked[q], p, n)
  <2> DEFINE ins == repacked[q]
             to == IF ins.to > p THEN ins.to + n ELSE ins.to
             new == [ins EXCEPT !.to = to]
  <2>1. shifted[q] = new
    BY <1>2
  <2>2. ins \in Insns /\ to \in Nat
    BY <1>2, <1>3, InsnFields
  <2> HIDE DEF ins, to, shifted
  <2>3. /\ new \in Insns /\ new.to = to /\ new.op = ins.op /\ new.id = ins.id
        /\ new.a = ins.a /\ new.b = ins.b /\ new.c = ins.c
    BY <2>2, Redirected
  <2> HIDE DEF new
  <2>. QED BY <2>1, <2>3 DEF ShiftedAs, ins, to
<1> HIDE DEF shifted
<1>6. /\ cat \in Insns /\ cat.id = repacked[p].id /\ cat.op = repacked[p].op
      /\ cat.a = repacked[p].a /\ cat.b = base /\ cat.c = base + n - 1
      /\ cat.to = IF repacked[p].to > p THEN repacked[p].to + n ELSE repacked[p].to
  <2> DEFINE ins == shifted[p]
             x == base
             y == base + n - 1
  <2>1. ins \in Insns /\ x \in Nat /\ y \in Nat /\ cat = [ins EXCEPT !.b = x, !.c = y]
    BY <1>3, <1>5
  <2> HIDE DEF ins, x, y, cat
  <2>2. /\ cat \in Insns /\ cat.id = ins.id /\ cat.op = ins.op
        /\ cat.to = ins.to /\ cat.a = ins.a /\ cat.b = x /\ cat.c = y
    BY <2>1 DEF Insns
  <2>3. ShiftedAs(ins, repacked[p], p, n)
    BY <1>3, <1>5 DEF ins
  <2>. QED BY <2>2, <2>3 DEF x, y, ShiftedAs
<1> HIDE DEF cat
<1>7. /\ left \in Seq(Insns) /\ Len(left) = p - 1
      /\ \A q \in 1..(p - 1) : left[q] = shifted[q]
  <2>1. \A q \in 1..(p - 1) : shifted[q] \in Insns
    BY <1>2, <1>3, <1>5
  <2>2. 1 \in Int /\ p - 1 \in Int /\ (IF 1 <= p - 1 THEN (p - 1) - 1 + 1 ELSE 0) = p - 1
        /\ (p - 1) - 1 + 1 = p - 1 /\ \A q \in 1..(p - 1) : 1 + q - 1 = q
    BY <1>2, <1>3
  <2>3. /\ left \in Seq(Insns)
        /\ Len(left) = IF 1 <= p - 1 THEN (p - 1) - 1 + 1 ELSE 0
        /\ \A q \in 1..((p - 1) - 1 + 1) : left[q] = shifted[1 + q - 1]
    BY <2>1, <2>2, SubSeqProperties
  <2> HIDE DEF left
  <2>. QED BY <2>2, <2>3
<1>8. /\ right \in Seq(Insns) /\ Len(right) = Len(repacked) - p
      /\ \A q \in 1..(Len(repacked) - p) : right[q] = shifted[p + q]
  <2>1. \A q \in (p + 1)..Len(repacked) : shifted[q] \in Insns
    BY <1>2, <1>3, <1>5
  <2>2. /\ p + 1 \in Int /\ Len(repacked) \in Int
        /\ (IF p + 1 <= Len(repacked) THEN Len(repacked) - (p + 1) + 1 ELSE 0) = Len(repacked) - p
        /\ Len(repacked) - (p + 1) + 1 = Len(repacked) - p
        /\ \A q \in 1..(Len(repacked) - p) : (p + 1) + q - 1 = p + q
    <3>1. p \in Int /\ Len(repacked) \in Int /\ p <= Len(repacked)
      BY <1>2, <1>3
    <3> HIDE DEF p
    <3>2. CASE p + 1 <= Len(repacked)
      BY <3>1, <3>2
    <3>3. CASE ~(p + 1 <= Len(repacked))
      BY <3>1, <3>3
    <3>. QED BY <3>2, <3>3
  <2>3. /\ right \in Seq(Insns)
        /\ Len(right) = IF p + 1 <= Len(repacked) THEN Len(repacked) - (p + 1) + 1 ELSE 0
        /\ \A q \in 1..(Len(repacked) - (p + 1) + 1) : right[q] = shifted[(p + 1) + q - 1]
    BY <2>1, <2>2, SubSeqProperties
  <2> HIDE DEF right
  <2>. QED BY <2>2, <2>3
<1> DEFINE new == Repacked!WithCopies(plan)
<1> HIDE DEF left, right, new
<1>9. /\ new \in Seq(Insns)
      /\ Len(new) = (p - 1) + n + 1 + (Len(repacked) - p)
      /\ \A q \in 1..((p - 1) + n + 1 + (Len(repacked) - p)) :
            new[q] = IF q <= p - 1 THEN left[q]
                     ELSE IF q <= (p - 1) + n THEN copies[q - (p - 1)]
                     ELSE IF q = (p - 1) + n + 1 THEN cat
                     ELSE right[q - ((p - 1) + n + 1)]
  <2>1. new = left \o copies \o <<cat>> \o right
    BY <1>1 DEF new
  <2>2. left \in Seq(Insns) /\ copies \in Seq(Insns) /\ cat \in Insns /\ right \in Seq(Insns)
    BY <1>4, <1>6, <1>7, <1>8
  <2> DEFINE all == left \o copies \o <<cat>> \o right
  <2>3. /\ all \in Seq(Insns)
        /\ Len(all) = Len(left) + Len(copies) + 1 + Len(right)
        /\ \A q \in 1..(Len(left) + Len(copies) + 1 + Len(right)) :
             all[q] = IF q <= Len(left) THEN left[q]
                      ELSE IF q <= Len(left) + Len(copies) THEN copies[q - Len(left)]
                      ELSE IF q = Len(left) + Len(copies) + 1 THEN cat
                      ELSE right[q - (Len(left) + Len(copies) + 1)]
    BY <2>2, Spliced
  <2>4. Len(left) = p - 1 /\ Len(copies) = n /\ Len(right) = Len(repacked) - p
    BY <1>4, <1>7, <1>8
  <2> HIDE DEF all
  <2>5. all = new
    BY <2>1 DEF all
  <2> HIDE DEF p, n
  <2>. QED BY <2>3, <2>4, <2>5
<1>10. (p - 1) + n + 1 + (Len(repacked) - p) = Len(repacked) + n
  BY <1>2, <1>3
<1>11. ASSUME NEW q \in 1..(Len(repacked) + n)
       PROVE  CopiedAs(new[q], plan, q)
  <2>1. ASSUME q < p PROVE ShiftedAs(new[q], repacked[q], p, n)
    <3>1. q \in 1..(p - 1) /\ q <= p - 1 /\ q \in 1..Len(repacked)
      BY <1>2, <1>3, <2>1
    <3>2. new[q] = shifted[q]
      BY <1>7, <1>9, <1>10, <3>1
    <3>. QED BY <1>5, <3>1, <3>2
  <2>2. ASSUME q >= p, q < p + n
        PROVE  /\ new[q] \in Insns /\ new[q].id = 0 /\ new[q].op = "MOV" /\ new[q].to = 0
               /\ new[q].a \in base..(base + n - 1)
               /\ new[q].c \in first..(first + n - 1)
    <3>1. q - (p - 1) \in 1..n /\ ~(q <= p - 1) /\ q <= (p - 1) + n
      BY <1>2, <1>3, <2>2, SMTT(30)
    <3>2. new[q] = copies[q - (p - 1)]
      BY <1>9, <1>10, <3>1
    <3>. QED BY <1>4, <3>1, <3>2
  <2>3. ASSUME q = p + n PROVE new[q] = cat
    <3>1. ~(q <= p - 1) /\ ~(q <= (p - 1) + n) /\ q = (p - 1) + n + 1
      BY <1>2, <1>3, <2>3
    <3>. QED BY <1>9, <1>10, <3>1
  <2>4. ASSUME q > p + n PROVE ShiftedAs(new[q], repacked[q - n], p, n)
    <3>1. /\ ~(q <= p - 1) /\ ~(q <= (p - 1) + n) /\ q # (p - 1) + n + 1
          /\ q - ((p - 1) + n + 1) \in 1..(Len(repacked) - p)
          /\ p + (q - ((p - 1) + n + 1)) = q - n /\ q - n \in 1..Len(repacked)
      <4>1. /\ p \in Int /\ n \in Int /\ q \in Int /\ Len(repacked) \in Int
            /\ q > p + n /\ q <= Len(repacked) + n /\ p >= 1 /\ n >= 1
        BY <1>2, <1>3, <2>4
      <4> HIDE DEF p, n
      <4>. QED BY <4>1
    <3>2. new[q] = right[q - ((p - 1) + n + 1)]
      BY <1>9, <1>10, <3>1
    <3>3. new[q] = shifted[q - n]
      BY <1>8, <3>1, <3>2
    <3>. QED BY <1>5, <3>1, <3>3
  <2>. QED BY <1>6, <2>1, <2>2, <2>3, <2>4 DEF CopiedAs
<1>. QED BY <1>9, <1>10, <1>11 DEF new

\* A move leaves the program linked as it was.
LEMMA MoveLinked ==
    ASSUME RepackInv, phase # "compile", NEW plan, Planned(plan), NEW f, Linked(f),
           repacked' = Repacked!Moved(plan), source' = source, at' = at,
           faults' = faults \cup Repacked!FaultsOf(plan),
           framesize' = Repacked!Max({framesize, plan.base + Repacked!NumRegs(plan.at)})
    PROVE  /\ Linked(f)'
           /\ repacked' \in Seq(Insns) /\ Len(repacked') > 0
           /\ \A q \in DOMAIN repacked' : RegsBelow(repacked'[q], framesize')
<1>1. /\ DOMAIN repacked = 1..Len(repacked) /\ Len(repacked) \in Nat \ {0}
      /\ DOMAIN source = 1..Len(source) /\ framesize \in Nat
  BY InBuffer
<1>2. /\ framesize' \in Nat /\ framesize <= framesize'
      /\ plan.base + Repacked!NumRegs(plan.at) <= framesize'
  BY <1>1, PlanRegs, MaxTwo
<1>3. /\ repacked' \in Seq(Insns) /\ Len(repacked') = Len(repacked)
      /\ \A q \in 1..Len(repacked) : MovedAs(repacked'[q], plan, q)
  BY MovedParts
<1>4. DOMAIN repacked' = 1..Len(repacked)
  BY <1>3, LenProperties
<1>5. ASSUME NEW q \in 1..Len(repacked)
      PROVE  /\ repacked'[q].id = repacked[q].id /\ repacked'[q].op = repacked[q].op
             /\ repacked'[q].to = repacked[q].to
             /\ RegsBelow(repacked'[q], framesize')
             /\ repacked'[q].op = "RET" => repacked'[q].c = repacked[q].c
             /\ "torn" \notin Repacked!FaultsOf(plan) /\ repacked'[q].op = "CAT"
                /\ repacked[q].b <= repacked[q].c =>
                   repacked'[q].c - repacked'[q].b = repacked[q].c - repacked[q].b
  <2>1. MovedAs(repacked'[q], plan, q)
    BY <1>3
  <2>. QED BY <1>2, <2>1, MovedKeeps
<1>6. FromSource(f)'
  <2> SUFFICES ASSUME NEW q \in 1..Len(repacked)
               PROVE  /\ repacked'[q].id # 0 => SameKind(repacked[q], source[f[q]])'
                      /\ repacked'[q].id = 0 => repacked'[q].op = "MOV" /\ q < Len(repacked)
    BY <1>3, <1>4 DEF FromSource
  <2>1. /\ repacked[q].id # 0 => SameKind(repacked[q], source[f[q]])
        /\ repacked[q].id = 0 => repacked[q].op = "MOV" /\ q < Len(repacked)
        /\ f[q] \in DOMAIN source
    BY <1>1 DEF Linked, FromSource
  <2>2. CASE repacked[q].id = 0
    BY <1>5, <2>1, <2>2
  <2>3. CASE repacked[q].id # 0
    <3>1. /\ repacked'[q].id = source[f[q]].id /\ repacked'[q].op = source[f[q]].op
          /\ source[f[q]].op = "RET" => repacked'[q].c = source[f[q]].c
      BY <1>5, <2>1, <2>3 DEF SameKind
    <3>2. ASSUME source[f[q]].op = "CAT", "torn" \notin faults'
          PROVE  repacked'[q].c - repacked'[q].b = source[f[q]].c - source[f[q]].b
      <4>1. "torn" \notin faults /\ "torn" \notin Repacked!FaultsOf(plan)
        BY <3>2
      <4>2. repacked[q].c - repacked[q].b = source[f[q]].c - source[f[q]].b
        BY <2>1, <2>3, <3>2, <4>1 DEF SameKind
      <4>3. source[f[q]].b < source[f[q]].c
        BY <2>1, <3>2 DEF RepackInv, HandedOver
      <4>4. /\ source[f[q]].b \in Nat /\ source[f[q]].c \in Nat
            /\ repacked[q].b \in Nat /\ repacked[q].c \in Nat
        BY <1>1, <2>1, InBuffer, InsnFields
      <4>5. repacked[q].b <= repacked[q].c
        BY <4>2, <4>3, <4>4
      <4>. QED BY <1>5, <3>1, <3>2, <4>1, <4>2, <4>5
    <3>. QED BY <2>3, <1>5, <3>1, <3>2 DEF SameKind
  <2>. QED BY <2>2, <2>3
<1>7. InOrder(f)'
  <2>1. InOrder(f)
    BY DEF Linked
  <2>2. \A q \in 1..(Len(repacked) - 1) : q \in 1..Len(repacked)
    BY <1>1
  <2>3. /\ Len(repacked') = Len(repacked) /\ Len(source') = Len(source)
        /\ \A q \in 1..Len(repacked) : repacked'[q].id = repacked[q].id
    BY <1>3, <1>5
  <2>. QED BY <1>1, <1>4, <2>1, <2>2, <2>3 DEF InOrder
<1>8. Arrives(f)'
  <2> SUFFICES ASSUME NEW q \in 1..Len(repacked)
               PROVE  IF Jumps(repacked'[q])
                      THEN /\ repacked'[q].to \in 1..Len(repacked)
                           /\ f[repacked'[q].to] = source[f[q]].to
                           /\ repacked'[q].to > 1 => repacked'[repacked'[q].to - 1].id # 0
                      ELSE repacked'[q].to = 0
    BY <1>4 DEF Arrives
  <2>1. IF Jumps(repacked[q])
        THEN /\ repacked[q].to \in 1..Len(repacked)
             /\ f[repacked[q].to] = source[f[q]].to
             /\ repacked[q].to > 1 => repacked[repacked[q].to - 1].id # 0
        ELSE repacked[q].to = 0
    BY <1>1 DEF Linked, Arrives
  <2>2. Jumps(repacked'[q]) <=> Jumps(repacked[q])
    BY <1>5 DEF Jumps
  <2>3. repacked'[q].to = repacked[q].to
    BY <1>5
  <2>4. repacked[q].to \in 1..Len(repacked) /\ repacked[q].to > 1 =>
           repacked'[repacked[q].to - 1].id = repacked[repacked[q].to - 1].id
    <3>1. repacked[q].to \in 1..Len(repacked) /\ repacked[q].to > 1 =>
             repacked[q].to - 1 \in 1..Len(repacked)
      BY <1>1
    <3>. QED BY <1>5, <3>1
  <2>. QED BY <2>1, <2>2, <2>3, <2>4
<1>9. InStep(f)'
  BY <1>1, <1>4 DEF Linked, InStep
<1>10. (f \in [DOMAIN repacked -> DOMAIN source])'
  BY <1>1, <1>4 DEF Linked
<1>11. Linked(f)'
  BY <1>6, <1>7, <1>8, <1>9, <1>10 DEF Linked
<1>12. Len(repacked') > 0 /\ \A q \in DOMAIN repacked' : RegsBelow(repacked'[q], framesize')
  <2>1. Len(repacked') > 0
    BY <1>1, <1>3
  <2>2. \A q \in 1..Len(repacked) : RegsBelow(repacked'[q], framesize')
    BY <1>5
  <2>. QED BY <1>4, <2>1, <2>2
<1>. QED BY <1>3, <1>11, <1>12

\* The place in the code from which copies have moved the instruction at q, a
\* copy counting as what it was made for.
FromPlace(q, p, n) == IF q < p THEN q ELSE IF q <= p + n THEN p ELSE q - n

\* The places keep their order.
LEMMA PlaceKept ==
    ASSUME NEW m \in Nat, NEW p \in 1..m, NEW n \in Nat \ {0}, NEW q \in 1..(m + n)
    PROVE  /\ FromPlace(q, p, n) \in 1..m
           /\ FromPlace(q, p, n) = m <=> (q = m + n \/ (p = m /\ q >= p))
           /\ q < m + n => FromPlace(q + 1, p, n) =
                 IF q >= p /\ q < p + n THEN FromPlace(q, p, n) ELSE FromPlace(q, p, n) + 1
           /\ \A r \in 1..(m + n) : q < r =>
                 /\ FromPlace(q, p, n) <= FromPlace(r, p, n)
                 /\ ~(q >= p /\ q < p + n) => FromPlace(q, p, n) < FromPlace(r, p, n)
BY DEF FromPlace

\* So do copies: each of them is linked to what it was made for.
LEMMA CopyLinked ==
    ASSUME RepackInv, phase # "compile", NEW plan, Planned(plan), plan.how # "move",
           NEW f, Linked(f), at = <<1, 1>>,
           repacked' = Repacked!WithCopies(plan), source' = source, at' = at,
           faults' = faults \cup Repacked!FaultsOf(plan),
           framesize' = Repacked!Max({framesize, plan.base + Repacked!NumRegs(plan.at)})
    PROVE  /\ \E g : Linked(g)'
           /\ repacked' \in Seq(Insns) /\ Len(repacked') > 0
           /\ \A q \in DOMAIN repacked' : RegsBelow(repacked'[q], framesize')
<1> DEFINE p == plan.at
           n == Repacked!NumRegs(p)
           m == Len(repacked)
<1>1. /\ DOMAIN repacked = 1..m /\ m \in Nat \ {0}
      /\ DOMAIN source = 1..Len(source) /\ Len(source) \in Nat \ {0} /\ framesize \in Nat
      /\ \A q \in 1..m : repacked[q] \in Insns /\ RegsBelow(repacked[q], framesize)
  BY InBuffer
<1>2. /\ framesize' \in Nat /\ framesize <= framesize' /\ plan.base + n <= framesize'
      /\ framesize \in Nat
  BY <1>1, PlanRegs, MaxTwo
<1>3. /\ repacked' \in Seq(Insns) /\ Len(repacked') = m + n
      /\ \A q \in 1..(m + n) : CopiedAs(repacked'[q], plan, q)
  BY CopiesParts
<1>4. /\ p \in 1..m /\ n \in Nat \ {0} /\ plan.base \in Nat
      /\ Repacked!FirstReg(p) \in Nat /\ Repacked!FirstReg(p) + n <= framesize
  BY PlanRegs
<1>5. repacked[p].op = "CAT" /\ n = repacked[p].c - repacked[p].b + 1 /\ Repacked!JumpsTo(p) = {}
  BY PlanRegs DEF Planned
<1>6. DOMAIN repacked' = 1..(m + n)
  BY <1>3, LenProperties
<1>7. /\ f \in [1..m -> 1..Len(source)] /\ FromSource(f) /\ InOrder(f) /\ Arrives(f) /\ InStep(f)
  BY <1>1 DEF Linked
<1>8. repacked[p].id # 0
  BY <1>1, <1>4, <1>5, <1>7 DEF FromSource
<1>9. PICK g : g = [q \in 1..(m + n) |-> f[FromPlace(q, p, n)]]
  OBVIOUS
<1> DEFINE Copied(q) == q >= p /\ q < p + n
           From(q) == FromPlace(q, p, n)
<1>10. ASSUME NEW q \in 1..(m + n)
       PROVE  /\ From(q) \in 1..m /\ g[q] = f[From(q)]
              /\ From(q) = m => q = m + n \/ Copied(q)
              /\ q < m + n => From(q + 1) = IF Copied(q) THEN From(q) ELSE From(q) + 1
              /\ \A r \in 1..(m + n) : q < r =>
                    From(q) <= From(r) /\ (~Copied(q) => From(q) < From(r))
  <2>1. /\ From(q) \in 1..m
        /\ From(q) = m <=> (q = m + n \/ (p = m /\ q >= p))
        /\ q < m + n => From(q + 1) = IF Copied(q) THEN From(q) ELSE From(q) + 1
        /\ \A r \in 1..(m + n) : q < r =>
              From(q) <= From(r) /\ (~Copied(q) => From(q) < From(r))
    BY <1>1, <1>4, PlaceKept
  <2>2. p = m /\ q >= p => q = m + n \/ Copied(q)
    BY <1>1, <1>4
  <2>. QED BY <1>9, <2>1, <2>2
<1>11. ASSUME NEW q \in 1..(m + n), Copied(q)
       PROVE  /\ repacked'[q].id = 0 /\ repacked'[q].op = "MOV" /\ repacked'[q].to = 0
              /\ RegsBelow(repacked'[q], framesize') /\ q < m + n
  <2>1. CopiedAs(repacked'[q], plan, q)
    BY <1>3
  <2>2. /\ repacked'[q] \in Insns /\ repacked'[q].id = 0 /\ repacked'[q].op = "MOV"
        /\ repacked'[q].to = 0
        /\ repacked'[q].a \in plan.base..(plan.base + n - 1)
        /\ repacked'[q].c \in Repacked!FirstReg(p)..(Repacked!FirstReg(p) + n - 1)
    BY <1>11, <2>1 DEF CopiedAs
  <2>3. repacked'[q].a < framesize' /\ repacked'[q].c < framesize'
    <3> HIDE DEF p, n, m
    <3>1. /\ \A x \in plan.base..(plan.base + n - 1) : x < framesize'
          /\ \A x \in Repacked!FirstReg(p)..(Repacked!FirstReg(p) + n - 1) : x < framesize'
      BY <1>2, <1>4
    <3>. QED BY <2>2, <3>1
  <2>4. q < m + n
    <3> HIDE DEF p, n, m
    <3>. QED BY <1>1, <1>4, <1>11
  <2>. QED BY <2>2, <2>3, <2>4 DEF RegsBelow
<1>12. ASSUME NEW q \in 1..(m + n), ~Copied(q)
       PROVE  /\ repacked'[q].id = repacked[From(q)].id
              /\ repacked'[q].op = repacked[From(q)].op
              /\ repacked'[q].to = IF repacked[From(q)].to > p THEN repacked[From(q)].to + n
                                   ELSE repacked[From(q)].to
              /\ RegsBelow(repacked'[q], framesize')
              /\ repacked'[q].op = "RET" => repacked'[q].c = repacked[From(q)].c
              /\ repacked'[q].op = "CAT" =>
                    repacked'[q].c - repacked'[q].b = repacked[From(q)].c - repacked[From(q)].b
  <2>1. CopiedAs(repacked'[q], plan, q)
    BY <1>3
  <2>2. CASE q = p + n
    <3>1. From(q) = p
      BY <1>4, <2>2 DEF FromPlace
    <3>2. /\ repacked'[q] \in Insns /\ repacked'[q].id = repacked[p].id
          /\ repacked'[q].op = repacked[p].op /\ repacked'[q].a = repacked[p].a
          /\ repacked'[q].b = plan.base /\ repacked'[q].c = plan.base + n - 1
          /\ repacked'[q].to = IF repacked[p].to > p THEN repacked[p].to + n ELSE repacked[p].to
      BY <2>1, <2>2 DEF CopiedAs
    <3>3. /\ repacked[p].a \in Nat /\ repacked[p].b \in Nat /\ repacked[p].c \in Nat
          /\ repacked[p].a < framesize
      BY <1>1, <1>4, InsnFields DEF RegsBelow
    <3>4. RegsBelow(repacked'[q], framesize')
      <4> HIDE DEF p, n, m
      <4>1. /\ repacked[p].a < framesize' /\ plan.base < framesize'
            /\ plan.base + n - 1 < framesize'
        BY <1>2, <1>4, <3>3
      <4>. QED BY <1>5, <3>2, <4>1 DEF RegsBelow
    <3>5. repacked'[q].c - repacked'[q].b = repacked[p].c - repacked[p].b
      <4> HIDE DEF p, n, m
      <4>. QED BY <1>4, <1>5, <3>2, <3>3
    <3>. QED BY <1>5, <3>1, <3>2, <3>4, <3>5
  <2>3. CASE q # p + n
    <3>1. ShiftedAs(repacked'[q], repacked[From(q)], p, n) /\ From(q) \in 1..m
      <4>1. CASE q < p
        BY <1>4, <1>10, <2>1, <4>1 DEF CopiedAs, FromPlace
      <4>2. CASE q > p + n
        <5>1. From(q) = q - n
          BY <1>4, <4>2 DEF FromPlace
        <5>. QED BY <1>10, <2>1, <4>2, <5>1 DEF CopiedAs
      <4>. QED BY <1>4, <1>12, <2>3, <4>1, <4>2
    <3>2. repacked[From(q)] \in Insns /\ RegsBelow(repacked[From(q)], framesize')
      BY <1>1, <1>2, <3>1, RegsLarger
    <3>. QED BY <3>1, <3>2 DEF ShiftedAs, RegsBelow
  <2>. QED BY <2>2, <2>3
<1> HIDE DEF From, Copied
<1>13. FromSource(g)'
  <2> SUFFICES ASSUME NEW q \in 1..(m + n)
               PROVE  /\ repacked'[q].id # 0 => SameKind(repacked[q], source[g[q]])'
                      /\ repacked'[q].id = 0 => repacked'[q].op = "MOV" /\ q < m + n
    BY <1>3, <1>6 DEF FromSource
  <2>1. CASE Copied(q)
    BY <1>11, <2>1
  <2>2. CASE ~Copied(q)
    <3> DEFINE o == From(q)
    <3>1. /\ o \in 1..m /\ g[q] = f[o]
          /\ repacked[o].id # 0 => SameKind(repacked[o], source[f[o]])
          /\ repacked[o].id = 0 => repacked[o].op = "MOV" /\ o < m
      BY <1>1, <1>7, <1>10 DEF FromSource
    <3>2. repacked[o].id = 0 => q < m + n
      <4>1. repacked[o].id = 0 => o # m
        BY <1>1, <3>1
      <4>2. q = m + n => o = m
        <5> HIDE DEF p, n, m
        <5>. QED BY <1>1, <1>4 DEF From, FromPlace
      <4> HIDE DEF p, n, m, o
      <4>. QED BY <1>1, <1>4, <4>1, <4>2
    <3>3. CASE repacked[o].id # 0
      <4>1. SameKind(repacked[o], source[f[o]])
        BY <3>1, <3>3
      <4>2. "torn" \notin faults' => "torn" \notin faults
        OBVIOUS
      <4>. QED BY <1>12, <2>2, <3>1, <3>3, <4>1, <4>2 DEF SameKind
    <3>4. CASE repacked[o].id = 0
      BY <1>12, <2>2, <3>1, <3>2, <3>4
    <3>. QED BY <3>3, <3>4
  <2>. QED BY <2>1, <2>2
<1>14. g[1] = 1 /\ g[m + n] = Len(source)
  <2>1. 1 \in 1..(m + n) /\ m + n \in 1..(m + n)
    BY <1>1, <1>4
  <2>2. From(1) = 1 /\ From(m + n) = m
    BY <1>1, <1>4 DEF From, FromPlace
  <2>. QED BY <1>7, <1>10, <2>1, <2>2 DEF InOrder
<1>15. InOrder(g)'
  <2>1. ASSUME NEW q \in 1..(m + n - 1)
        PROVE  g[q + 1] = IF repacked'[q].id = 0 THEN g[q] ELSE g[q] + 1
    <3>1. q \in 1..(m + n) /\ q + 1 \in 1..(m + n) /\ q < m + n
      BY <1>1, <1>4
    <3>2. CASE Copied(q)
      BY <1>10, <1>11, <3>1, <3>2
    <3>3. CASE ~Copied(q)
      <4>1. From(q + 1) = From(q) + 1 /\ From(q) \in 1..m /\ From(q + 1) \in 1..m
        BY <1>10, <3>1, <3>3
      <4>2. From(q) \in 1..(m - 1)
        BY <1>1, <4>1
      <4>3. f[From(q) + 1] = IF repacked[From(q)].id = 0 THEN f[From(q)] ELSE f[From(q)] + 1
        BY <1>7, <4>2 DEF InOrder
      <4>. QED BY <1>10, <1>12, <3>1, <3>3, <4>1, <4>3
    <3>. QED BY <3>2, <3>3
  <2>2. ASSUME NEW q \in 1..(m + n), NEW r \in 1..(m + n), q < r
        PROVE  g[q] <= g[r] /\ (repacked'[q].id # 0 => g[q] < g[r])
    <3>1. /\ From(q) \in 1..m /\ From(r) \in 1..m /\ From(q) <= From(r)
          /\ g[q] = f[From(q)] /\ g[r] = f[From(r)]
          /\ ~Copied(q) => From(q) < From(r)
      BY <1>10, <2>2
    <3>2. /\ From(q) < From(r) => /\ f[From(q)] <= f[From(r)]
                                  /\ repacked[From(q)].id # 0 => f[From(q)] < f[From(r)]
          /\ f[From(q)] \in Nat
      BY <1>1, <1>7, <3>1 DEF InOrder
    <3>3. CASE Copied(q)
      <4>1. repacked'[q].id = 0
        BY <1>11, <3>3
      <4>2. From(q) < From(r) \/ From(q) = From(r)
        BY <3>1
      <4>. QED BY <3>1, <3>2, <4>1, <4>2
    <3>4. CASE ~Copied(q)
      BY <1>12, <3>1, <3>2, <3>4
    <3>. QED BY <3>3, <3>4
  <2> HIDE DEF p, n, m
  <2>3. Len(repacked') = m + n /\ Len(source') = Len(source)
    BY <1>3
  <2>4. \A q \in 1..(m + n - 1) : g[q + 1] = IF repacked'[q].id = 0 THEN g[q] ELSE g[q] + 1
    BY <2>1
  <2>5. \A q, r \in 1..(m + n) : q < r => g[q] <= g[r] /\ (repacked'[q].id # 0 => g[q] < g[r])
    BY <2>2
  <2>6. g[1] = 1 /\ g[Len(repacked')] = Len(source')
    BY <1>14, <2>3
  <2>9. Len(repacked') - 1 = m + n - 1
    BY <1>1, <1>4, <2>3
  <2>7. \A q \in 1..(Len(repacked') - 1) :
           g[q + 1] = IF repacked'[q].id = 0 THEN g[q] ELSE g[q] + 1
    BY <2>4, <2>9
  <2>8. \A q, r \in DOMAIN repacked' : q < r =>
           g[q] <= g[r] /\ (repacked'[q].id # 0 => g[q] < g[r])
    BY <1>6, <2>5
  <2>. QED BY <2>6, <2>7, <2>8 DEF InOrder
<1>16. Arrives(g)'
  <2> SUFFICES ASSUME NEW q \in 1..(m + n)
               PROVE  IF Jumps(repacked'[q])
                      THEN /\ repacked'[q].to \in 1..(m + n)
                           /\ g[repacked'[q].to] = source[g[q]].to
                           /\ repacked'[q].to > 1 => repacked'[repacked'[q].to - 1].id # 0
                      ELSE repacked'[q].to = 0
    BY <1>6 DEF Arrives
  <2>1. CASE Copied(q)
    BY <1>11, <2>1 DEF Jumps
  <2>2. CASE ~Copied(q)
    <3> DEFINE o == From(q)
               t == repacked[o].to
               u == repacked'[q].to
    <3>1. /\ o \in 1..m /\ g[q] = f[o] /\ (Jumps(repacked'[q]) <=> Jumps(repacked[o]))
          /\ u = IF t > p THEN t + n ELSE t
      BY <1>10, <1>12, <2>2 DEF Jumps
    <3>2. IF Jumps(repacked[o])
          THEN /\ t \in 1..m /\ f[t] = source[f[o]].to
               /\ t > 1 => repacked[t - 1].id # 0
          ELSE t = 0
      BY <1>1, <1>7, <3>1 DEF Arrives
    <3>3. CASE Jumps(repacked[o])
      <4>1. /\ t \in 1..m /\ f[t] = source[f[o]].to
            /\ t > 1 => repacked[t - 1].id # 0
        BY <3>2, <3>3
      <4>2. t # p
        BY <1>1, <1>5, <3>1 DEF Repacked!JumpsTo
      <4>3. u \in 1..(m + n) /\ From(u) = t
        <5> HIDE DEF p, n, m, t, u, o
        <5>. QED BY <1>1, <1>4, <3>1, <4>1, <4>2 DEF From, FromPlace
      <4>4. ASSUME u > 1 PROVE repacked'[u - 1].id # 0
        <5>1. u - 1 \in 1..(m + n) /\ ~Copied(u - 1) /\ t > 1 /\ From(u - 1) = t - 1
          <6>1. m \in Nat /\ p \in 1..m /\ n \in Nat \ {0} /\ t \in 1..m /\ t # p /\ u > 1
                /\ u = IF t > p THEN t + n ELSE t
            BY <1>1, <1>4, <3>1, <4>1, <4>2, <4>4
          <6> HIDE DEF p, n, m, t, u, o
          <6>2. CASE t > p
            BY <6>1, <6>2 DEF From, FromPlace, Copied
          <6>3. CASE t < p
            BY <6>1, <6>3 DEF From, FromPlace, Copied
          <6>. QED BY <6>1, <6>2, <6>3
        <5>. QED BY <1>12, <3>2, <3>3, <5>1
      <4>. QED BY <1>10, <3>1, <3>2, <3>3, <4>3, <4>4
    <3>4. CASE ~Jumps(repacked[o])
      BY <1>4, <3>1, <3>2, <3>4
    <3>. QED BY <3>3, <3>4
  <2>. QED BY <2>1, <2>2
<1>17. InStep(g)'
  <2>1. at' = <<1, 1>> /\ 1 \in 1..(m + n)
    BY <1>1, <1>4
  <2>. QED BY <1>6, <1>14, <2>1 DEF InStep
<1>18. (g \in [DOMAIN repacked -> DOMAIN source])'
  <2>1. \A q \in 1..(m + n) : f[From(q)] \in 1..Len(source)
    BY <1>7, <1>10
  <2>. QED BY <1>1, <1>6, <1>9, <2>1 DEF From
<1>19. Linked(g)'
  BY <1>13, <1>15, <1>16, <1>17, <1>18 DEF Linked
<1>20. \A q \in DOMAIN repacked' : RegsBelow(repacked'[q], framesize')
  BY <1>6, <1>11, <1>12
<1>21. Len(repacked') > 0
  <2> HIDE DEF p, n, m
  <2>. QED BY <1>1, <1>3, <1>4
<1>22. repacked' \in Seq(Insns)
  BY <1>3
<1>23. \E h : Linked(h)'
  BY <1>19
<1>. QED BY <1>20, <1>21, <1>22, <1>23
\* What changes nothing in the buffer keeps it linked.
LEMMA LinkedSame ==
    ASSUME NEW f, Linked(f), UNCHANGED <<source, repacked, faults, at>>
    PROVE  Linked(f)'
<1>1. source' = source /\ repacked' = repacked /\ faults' = faults /\ at' = at
  OBVIOUS
<1>2. FromSource(f)' /\ InOrder(f)' /\ Arrives(f)' /\ InStep(f)'
  BY <1>1 DEF Linked, FromSource, SameKind, InOrder, Arrives, InStep
<1>. QED BY <1>1, <1>2 DEF Linked

\* The faults of a plan are those that have a name.
LEMMA FaultsNamed ==
    ASSUME NEW plan
    PROVE  Repacked!FaultsOf(plan)
               \subseteq {"blind", "carried", "overtaken", "torn", "overwriting"}
BY Zenon DEF Repacked!FaultsOf

\* A turn that changes the code keeps the invariant.
LEMMA OneRepackInv ==
    ASSUME RepackInv, phase = "repack", Repacked!RepackOne(Repacked!Plans),
           UNCHANGED <<source, operands, loop, at>>
    PROVE  RepackInv'
<1>1. /\ RepackTypes /\ HandedOver /\ Len(repacked) > 0 /\ at = <<1, 1>>
      /\ \A p \in DOMAIN repacked : RegsBelow(repacked[p], framesize)
      /\ \E f : Linked(f)
  BY DEF RepackInv
<1>2. HandedOver' /\ at' = <<1, 1>>
  BY <1>1 DEF HandedOver
<1>3. PICK plan \in Repacked!Plans :
         LET size == plan.base + Repacked!NumRegs(plan.at)
         IN IF size > MaxA
            THEN phase' = "overflow" /\ UNCHANGED <<repacked, framesize, faults>>
            ELSE /\ repacked' = IF plan.how = "move" THEN Repacked!Moved(plan)
                                ELSE Repacked!WithCopies(plan)
                 /\ framesize' = Repacked!Max({framesize, size})
                 /\ faults' = faults \cup Repacked!FaultsOf(plan)
                 /\ UNCHANGED phase
  BY Zenon DEF Repacked!RepackOne
<1>4. Planned(plan)
  BY PlanFacts
<1>5. PICK f : Linked(f)
  BY <1>1
<1>6. CASE plan.base + Repacked!NumRegs(plan.at) > MaxA
  <2>1. phase' = "overflow" /\ UNCHANGED <<repacked, framesize, faults>>
    BY <1>3, <1>6
  <2>2. Linked(f)'
    BY <1>5, <2>1, LinkedSame
  <2>3. RepackTypes'
    BY <1>1, <2>1 DEF RepackTypes
  <2>4. Len(repacked') > 0 /\ \A p \in DOMAIN repacked' : RegsBelow(repacked'[p], framesize')
    BY <1>1, <2>1
  <2>. QED BY <1>2, <2>1, <2>2, <2>3, <2>4 DEF RepackInv
<1>7. CASE ~(plan.base + Repacked!NumRegs(plan.at) > MaxA)
  <2>1. /\ repacked' = IF plan.how = "move" THEN Repacked!Moved(plan)
                       ELSE Repacked!WithCopies(plan)
        /\ framesize' = Repacked!Max({framesize, plan.base + Repacked!NumRegs(plan.at)})
        /\ faults' = faults \cup Repacked!FaultsOf(plan)
        /\ phase' = phase
    BY <1>3, <1>7
  <2>2. /\ \E g : Linked(g)'
        /\ repacked' \in Seq(Insns) /\ Len(repacked') > 0
        /\ \A q \in DOMAIN repacked' : RegsBelow(repacked'[q], framesize')
    <3>1. CASE plan.how = "move"
      BY <1>4, <1>5, <2>1, <3>1, MoveLinked
    <3>2. CASE plan.how # "move"
      BY <1>1, <1>4, <1>5, <2>1, <3>2, CopyLinked
    <3>. QED BY <3>1, <3>2
  <2>3. framesize' \in Nat \ {0}
    <3>1. /\ framesize \in Nat \ {0} /\ plan.base + Repacked!NumRegs(plan.at) \in Nat
      BY <1>1, <1>4, PlanRegs DEF RepackTypes
    <3>2. framesize' \in Nat /\ framesize <= framesize'
      BY <2>1, <3>1, MaxTwo
    <3>. QED BY <3>1, <3>2
  <2>4. RepackTypes'
    BY <1>1, <2>1, <2>2, <2>3, FaultsNamed DEF RepackTypes
  <2>5. phase' = "repack"
    BY <2>1
  <2>. QED BY <1>2, <2>2, <2>4, <2>5 DEF RepackInv
<1>. QED BY <1>6, <1>7

\* What goes on with the buffer as it is.
LEMMA SameRepackInv ==
    ASSUME RepackInv, phase # "compile", phase' \in {"run", "done", "layout"},
           UNCHANGED <<source, operands, loop, repacked, framesize, faults>>,
           \A f : Linked(f) => InStep(f)'
    PROVE  RepackInv'
<1>1. /\ RepackTypes /\ HandedOver /\ Len(repacked) > 0
      /\ \A p \in DOMAIN repacked : RegsBelow(repacked[p], framesize)
  BY DEF RepackInv
<1>2. PICK f : Linked(f)
  BY DEF RepackInv
<1>3. /\ source' = source /\ repacked' = repacked /\ faults' = faults
      /\ framesize' = framesize /\ operands' = operands /\ loop' = loop
  OBVIOUS
<1>4. FromSource(f)' /\ InOrder(f)' /\ Arrives(f)'
  BY <1>2, <1>3 DEF Linked, FromSource, SameKind, InOrder, Arrives
<1>5. InStep(f)'
  BY <1>2
<1>6. Linked(f)'
  BY <1>2, <1>3, <1>4, <1>5 DEF Linked
<1>7. RepackTypes' /\ HandedOver'
  BY <1>1, <1>3 DEF RepackTypes, HandedOver
<1>8. Len(repacked') > 0 /\ \A p \in DOMAIN repacked' : RegsBelow(repacked'[p], framesize')
  BY <1>1, <1>3
<1>. QED BY <1>6, <1>7, <1>8 DEF RepackInv

\* Every turn keeps it.
LEMMA RepackingRepackInv ==
    ASSUME RepackInv, Repacked!Repacking
    PROVE  RepackInv'
<1>1. /\ phase = "repack" /\ UNCHANGED <<source, operands, loop, at>>
      /\ Repacked!RepackOne(Repacked!Plans) \/ Repacked!RepackNothing(Repacked!Plans)
  BY DEF Repacked!Repacking, Repacked!Repacked, Repacked!compiling, Repacked!running
<1>2. CASE Repacked!RepackOne(Repacked!Plans)
  BY <1>1, <1>2, OneRepackInv
<1>3. CASE Repacked!RepackNothing(Repacked!Plans)
  <2>1. /\ phase' \in {"run", "done", "layout"}
        /\ UNCHANGED <<source, operands, loop, at, repacked, framesize, faults>>
    BY <1>1, <1>3 DEF Repacked!RepackNothing
  <2>2. \A f : Linked(f) => InStep(f)'
    BY <2>1 DEF Linked, InStep
  <2>. QED BY <1>1, <2>1, <2>2, SameRepackInv
<1>. QED BY <1>1, <1>2, <1>3

\* The run goes side by side through both programs.
LEMMA RunCopyRepackInv ==
    ASSUME RepackInv, Repacked!RunCopy
    PROVE  RepackInv'
<1>1. /\ phase = "run" /\ repacked[at[2]].id = 0
      /\ at' = [at EXCEPT ![2] = @ + 1]
      /\ UNCHANGED <<source, operands, loop, repacked, framesize, phase, faults>>
  BY DEF Repacked!RunCopy, Repacked!compiling
<1>2. ASSUME NEW f, Linked(f) PROVE InStep(f)'
  <2>1. /\ DOMAIN repacked = 1..Len(repacked) /\ Len(repacked) \in Nat
    BY <1>1, InBuffer
  <2>2. PICK r, s \in Nat : at = <<r, s>>
    BY <1>2 DEF Linked, InStep
  <2>3. /\ s \in 1..Len(repacked) /\ r = f[s] /\ repacked[s].id = 0
    BY <1>1, <1>2, <2>1, <2>2 DEF Linked, InStep
  <2>4. s < Len(repacked)
    BY <1>2, <2>1, <2>3 DEF Linked, FromSource
  <2>5. s + 1 \in 1..Len(repacked) /\ s \in 1..(Len(repacked) - 1)
    BY <2>1, <2>3, <2>4
  <2>6. f[s + 1] = f[s]
    BY <1>2, <2>3, <2>5 DEF Linked, InOrder
  <2>7. at' = <<r, s + 1>>
    BY <1>1, <2>2
  <2>8. at'[1] = f[at'[2]] /\ at'[2] \in 1..Len(repacked) /\ at' \in Nat \X Nat
    BY <2>2, <2>3, <2>5, <2>6, <2>7
  <2>. QED BY <1>1, <2>1, <2>8 DEF InStep
<1>. QED BY <1>1, <1>2, SameRepackInv

\* An instruction and what became of it are run at the same time.
LEMMA RunBothRepackInv ==
    ASSUME RepackInv, Repacked!RunBoth
    PROVE  RepackInv'
<1>1. /\ phase = "run" /\ repacked[at[2]].id # 0
      /\ UNCHANGED <<source, operands, loop, repacked, framesize, faults>>
      /\ IF Repacked!Ends(source[at[1]]) THEN phase' = "done" /\ at' = at
         ELSE /\ phase' = "run"
              /\ \/ /\ source[at[1]].op # "JMP"
                    /\ at' = <<at[1] + 1, at[2] + 1>>
                 \/ /\ source[at[1]].op \in {"JMP", "TEST", "EQ"}
                    /\ at' = <<source[at[1]].to, repacked[at[2]].to>>
  BY DEF Repacked!RunBoth, Repacked!compiling
<1>2. ASSUME NEW f, Linked(f) PROVE InStep(f)'
  <2>1. /\ DOMAIN repacked = 1..Len(repacked) /\ Len(repacked) \in Nat
        /\ DOMAIN source = 1..Len(source) /\ Len(source) \in Nat
    BY <1>1, InBuffer
  <2>2. PICK r, s \in Nat : at = <<r, s>>
    BY <1>2 DEF Linked, InStep
  <2>3. /\ s \in 1..Len(repacked) /\ r = f[s] /\ repacked[s].id # 0 /\ r \in 1..Len(source)
        /\ at[1] = r /\ at[2] = s
    BY <1>1, <1>2, <2>1, <2>2 DEF Linked, InStep
  <2>4. repacked[s].op = source[r].op
    BY <1>2, <2>1, <2>3 DEF Linked, FromSource, SameKind
  <2>5. CASE Repacked!Ends(source[r])
    BY <1>1, <1>2, <2>3, <2>5 DEF Linked, InStep
  <2>6. ASSUME at' = <<r + 1, s + 1>>, ~Repacked!Ends(source[r])
        PROVE  InStep(f)'
    <3>6. PICK m \in Nat : m = Len(repacked)
      BY <2>1
    <3>1. s # m
      <4>1. Len(source) \in DOMAIN source => Repacked!Ends(source[Len(source)])
        BY <1>1 DEF RepackInv, HandedOver
      <4>2. s = m => r = Len(source)
        BY <1>2, <2>3, <3>6 DEF Linked, InOrder
      <4>3. r = Len(source) => Repacked!Ends(source[r])
        BY <2>1, <2>3, <4>1
      <4>. QED BY <2>6, <4>2, <4>3
    <3>2. s + 1 \in 1..Len(repacked) /\ s \in 1..(Len(repacked) - 1)
      <4>1. s \in 1..m /\ s # m
        BY <2>3, <3>1, <3>6
      <4>2. s + 1 \in 1..m /\ s \in 1..(m - 1)
        BY <4>1
      <4>. QED BY <3>6, <4>2
    <3>3. f[s + 1] = r + 1
      BY <1>2, <2>3, <3>2 DEF Linked, InOrder
    <3>4. at'[1] = f[at'[2]] /\ at'[2] \in 1..Len(repacked) /\ at' \in Nat \X Nat
      BY <2>2, <2>6, <3>2, <3>3
    <3>5. DOMAIN repacked' = 1..Len(repacked)
      BY <1>1, <2>1
    <3>. QED BY <3>4, <3>5 DEF InStep
  <2>7. ASSUME at' = <<source[r].to, repacked[s].to>>, source[r].op \in {"JMP", "TEST", "EQ"}
        PROVE  InStep(f)'
    <3>1. repacked[s].to \in 1..Len(repacked) /\ f[repacked[s].to] = source[r].to
      BY <1>2, <2>1, <2>3, <2>4, <2>7 DEF Linked, Arrives, Jumps
    <3>2. source[r].to \in Nat /\ repacked[s].to \in Nat
      BY <1>1, <2>1, <2>3, InBuffer, InsnFields
    <3>3. at'[1] = f[at'[2]] /\ at'[2] \in 1..Len(repacked) /\ at' \in Nat \X Nat
      BY <2>7, <3>1, <3>2
    <3>. QED BY <1>1, <2>1, <3>3 DEF InStep
  <2>. QED BY <1>1, <2>3, <2>5, <2>6, <2>7
<1>3. phase' \in {"run", "done", "layout"} /\ phase # "compile"
  BY <1>1
<1>. QED BY <1>1, <1>2, <1>3, SameRepackInv

\* The invariant is inductive.
LEMMA NextRepackInv ==
    ASSUME RepackInv, [Repacked!Next]_Repacked!vars
    PROVE  RepackInv'
<1>1. CASE Repacked!Operand
  BY <1>1, OperandRepackInv
<1>2. CASE Repacked!Join
  BY <1>2, JoinRepackInv
<1>3. CASE Repacked!Statement
  BY <1>3, StatementRepackInv
<1>4. CASE Repacked!Loop
  BY <1>4, LoopRepackInv
<1>5. CASE Repacked!End
  BY <1>5, EndRepackInv
<1>6. CASE Repacked!Repacking
  BY <1>6, RepackingRepackInv
<1>7. CASE Repacked!RunCopy
  BY <1>7, RunCopyRepackInv
<1>8. CASE Repacked!RunBoth
  BY <1>8, RunBothRepackInv
<1>9. CASE UNCHANGED Repacked!vars
  <2>1. UNCHANGED <<source, operands, loop, repacked, framesize, phase, faults, at>>
    BY <1>9 DEF Repacked!vars, Repacked!compiling, Repacked!running
  <2>2. \A f : Linked(f) => Linked(f)'
    BY <2>1, LinkedSame
  <2>3. RepackTypes' /\ (phase = "compile" => Compiling')
        /\ (phase # "compile" => HandedOver')
    BY <2>1 DEF RepackInv, RepackTypes, Compiling, HandedOver
  <2>4. phase # "compile" =>
           /\ Len(repacked') > 0
           /\ \A p \in DOMAIN repacked' : RegsBelow(repacked'[p], framesize')
           /\ phase = "repack" => at' = <<1, 1>>
           /\ \E f : Linked(f)
    BY <2>1 DEF RepackInv
  <2>. QED BY <2>1, <2>2, <2>3, <2>4 DEF RepackInv
<1>. QED
  BY <1>1, <1>2, <1>3, <1>4, <1>5, <1>6, <1>7, <1>8, <1>9 DEF Repacked!Next

\* The invariant holds in every state of compiling, repacking and running: what is
\* in the buffer is linked to the source, instruction by instruction and jump by
\* jump, however often it has been repacked.
THEOREM RepackInvariance == Repacked!Spec => []RepackInv
BY InitRepackInv, NextRepackInv, PTL DEF Repacked!Spec

-----------------------------------------------------------------------------
(* What follows from the invariant.                                         *)

\* The buffer ends with the end of the program, and nothing else ends it.
LEMMA LastEnds ==
    ASSUME RepackInv, phase # "compile", NEW f, Linked(f), NEW p \in DOMAIN repacked,
           ~Repacked!Ends(repacked[p])
    PROVE  p \in 1..(Len(repacked) - 1) /\ p + 1 \in DOMAIN repacked
<1>1. /\ DOMAIN repacked = 1..Len(repacked) /\ Len(repacked) \in Nat \ {0}
      /\ DOMAIN source = 1..Len(source) /\ Len(source) \in Nat \ {0}
  BY InBuffer
<1>2. p # Len(repacked)
  <2> SUFFICES ASSUME p = Len(repacked) PROVE FALSE
    OBVIOUS
  <2>1. repacked[p].id # 0
    BY <1>1 DEF Linked, FromSource
  <2>2. repacked[p].op = source[Len(source)].op
    BY <2>1 DEF Linked, FromSource, InOrder, SameKind
  <2>3. Repacked!Ends(source[Len(source)])
    BY <1>1 DEF RepackInv, HandedOver
  <2>. QED BY <2>2, <2>3 DEF Repacked!Ends
<1>. QED BY <1>1, <1>2

\* How many registers an instruction reads.
LEMMA Ranging ==
    ASSUME NEW n \in Nat, NEW r \in Nat
    PROVE  /\ [k \in 1..n |-> r + k - 1] \in Seq(Nat)
           /\ Len([k \in 1..n |-> r + k - 1]) = n
<1>1. \A k \in 1..n : r + k - 1 \in Nat
  OBVIOUS
<1>. QED BY <1>1

\* Every kind of instruction reads so many of them.
LEMMA ReadsLen ==
    ASSUME NEW ins \in Insns
    PROVE  /\ ins.op \in {"CALL", "USE", "RET1", "MOV", "TEST"} =>
                 Len(Repacked!ReadsInOrder(ins)) = 1
           /\ ins.op = "EQ" => Len(Repacked!ReadsInOrder(ins)) = 2
           /\ ins.op \in {"LOAD", "JMP", "RET0"} => Len(Repacked!ReadsInOrder(ins)) = 0
           /\ ins.op = "CAT" /\ ins.b <= ins.c =>
                 Len(Repacked!ReadsInOrder(ins)) = ins.c - ins.b + 1
           /\ ins.op = "RET" =>
                 Len(Repacked!ReadsInOrder(ins)) = IF ins.c = 0 THEN 0 ELSE ins.c - 1
<1>1. ins.a \in Nat /\ ins.b \in Nat /\ ins.c \in Nat
  BY InsnFields
<1>2. CASE ins.op = "CAT" /\ ins.b <= ins.c
  <2>1. ins.c - ins.b + 1 \in Nat
    BY <1>1, <1>2
  <2>2. Repacked!ReadsInOrder(ins) = [k \in 1..(ins.c - ins.b + 1) |-> ins.b + k - 1]
    BY <1>2 DEF Repacked!ReadsInOrder
  <2>3. Len(Repacked!ReadsInOrder(ins)) = ins.c - ins.b + 1
    BY <1>1, <2>1, <2>2, Ranging
  <2>. QED BY <1>2, <2>3
<1>3. CASE ins.op = "RET"
  <2>1. PICK n \in Nat : n = IF ins.c = 0 THEN 0 ELSE ins.c - 1
    BY <1>1
  <2>2. 1..(ins.c - 1) = 1..n
    BY <1>1, <2>1
  <2>3. Repacked!ReadsInOrder(ins) = [k \in 1..n |-> ins.a + k - 1]
    BY <1>3, <2>2 DEF Repacked!ReadsInOrder
  <2>4. Len(Repacked!ReadsInOrder(ins)) = n
    BY <1>1, <2>3, Ranging
  <2>. QED BY <1>3, <2>1, <2>4
<1>4. CASE ins.op \in {"CALL", "USE", "RET1"}
  <2>1. Repacked!ReadsInOrder(ins) = <<ins.a>>
    BY <1>4 DEF Repacked!ReadsInOrder
  <2>. QED BY <1>4, <2>1
<1>5. CASE ins.op \in {"MOV", "TEST"}
  <2>1. Repacked!ReadsInOrder(ins) = <<ins.c>>
    BY <1>5 DEF Repacked!ReadsInOrder
  <2>. QED BY <1>5, <2>1
<1>6. CASE ins.op = "EQ"
  <2>1. Repacked!ReadsInOrder(ins) = <<ins.a, ins.c>>
    BY <1>6 DEF Repacked!ReadsInOrder
  <2>. QED BY <1>6, <2>1
<1>7. CASE ins.op \in {"LOAD", "JMP", "RET0"}
  <2>1. Repacked!ReadsInOrder(ins) = <<>>
    BY <1>7 DEF Repacked!ReadsInOrder
  <2>. QED BY <1>7, <2>1
<1>. QED BY <1>2, <1>3, <1>4, <1>5, <1>6, <1>7

\* Instructions of the same kind read as many.
LEMMA SameKindReads ==
    ASSUME NEW new \in Insns, NEW old \in Insns, SameKind(new, old), "torn" \notin faults,
           old.op = "CAT" => old.b < old.c
    PROVE  Len(Repacked!ReadsInOrder(new)) = Len(Repacked!ReadsInOrder(old))
<1>1. /\ new.op = old.op /\ old.op \in Operations
      /\ old.op = "RET" => new.c = old.c
      /\ old.op = "CAT" => new.c - new.b = old.c - old.b
  BY InsnFields DEF SameKind
<1>2. /\ new.b \in Nat /\ new.c \in Nat /\ old.b \in Nat /\ old.c \in Nat
  BY InsnFields
<1>3. old.op = "CAT" => /\ new.b <= new.c /\ old.b <= old.c
                        /\ new.c - new.b + 1 = old.c - old.b + 1
  BY <1>1, <1>2
<1>4. CASE old.op = "CAT"
  BY <1>1, <1>3, <1>4, ReadsLen
<1>5. CASE old.op = "RET"
  BY <1>1, <1>5, ReadsLen
<1>6. CASE old.op \in Operations \ {"CAT", "RET"}
  BY <1>1, <1>6, ReadsLen DEF Operations
<1>. QED BY <1>1, <1>4, <1>5, <1>6

\* What is linked has been kept.
LEMMA KeptOfInv == RepackInv => Repacked!ProgramKept
<1> SUFFICES ASSUME RepackInv, phase # "compile" PROVE Repacked!ProgramKept
  BY DEF Repacked!ProgramKept
<1>1. PICK f : Linked(f)
  BY DEF RepackInv
<1>2. /\ DOMAIN repacked = 1..Len(repacked) /\ Len(repacked) \in Nat \ {0}
      /\ DOMAIN source = 1..Len(source)
      /\ \A p \in DOMAIN repacked : repacked[p] \in Insns
      /\ \A k \in DOMAIN source : source[k] \in Insns
  BY InBuffer
<1>3. /\ f \in [DOMAIN repacked -> DOMAIN source] /\ f[1] = 1
      /\ phase = "run" => at[2] \in DOMAIN repacked /\ f[at[2]] = at[1]
  BY <1>1 DEF Linked, InOrder, InStep
<1>4. ASSUME NEW p \in DOMAIN repacked
      PROVE  /\ Repacked!After(repacked, p) \subseteq DOMAIN repacked
             /\ IF repacked[p].id = 0 THEN repacked[p].op = "MOV" /\ f[p + 1] = f[p]
                ELSE /\ repacked[p].id = f[p] /\ repacked[p].op = source[f[p]].op
                     /\ ~Repacked!Ends(source[f[p]]) /\ source[f[p]].op # "JMP" =>
                           f[p + 1] = f[p] + 1
                     /\ source[f[p]].op \in {"JMP", "TEST", "EQ"} =>
                           f[repacked[p].to] = source[f[p]].to
                     /\ "torn" \notin faults =>
                           Len(Repacked!ReadsInOrder(repacked[p])) =
                           Len(Repacked!ReadsInOrder(source[f[p]]))
  <2>1. ~Repacked!Ends(repacked[p]) =>
           p \in 1..(Len(repacked) - 1) /\ p + 1 \in DOMAIN repacked
    BY <1>1, LastEnds
  <2>2. Jumps(repacked[p]) => /\ repacked[p].to \in DOMAIN repacked
                              /\ f[repacked[p].to] = source[f[p]].to
    BY <1>1 DEF Linked, Arrives
  <2>3. Repacked!After(repacked, p) \subseteq DOMAIN repacked
    <3>1. CASE Repacked!Ends(repacked[p])
      BY <3>1 DEF Repacked!After, Repacked!Ends
    <3>2. CASE repacked[p].op = "JMP"
      BY <2>2, <3>2 DEF Repacked!After, Repacked!Ends, Jumps
    <3>3. CASE repacked[p].op \in {"TEST", "EQ"}
      BY <2>1, <2>2, <3>3 DEF Repacked!After, Repacked!Ends, Jumps
    <3>4. CASE repacked[p].op \notin {"JMP", "TEST", "EQ"} /\ ~Repacked!Ends(repacked[p])
      BY <2>1, <3>4 DEF Repacked!After, Repacked!Ends
    <3>. QED BY <3>1, <3>2, <3>3, <3>4 DEF Repacked!Ends
  <2>4. CASE repacked[p].id = 0
    <3>1. repacked[p].op = "MOV"
      BY <1>1, <2>4 DEF Linked, FromSource
    <3>2. p \in 1..(Len(repacked) - 1)
      BY <2>1, <3>1 DEF Repacked!Ends
    <3>3. f[p + 1] = f[p]
      BY <1>1, <2>4, <3>2 DEF Linked, InOrder
    <3>. QED BY <2>3, <2>4, <3>1, <3>3
  <2>5. CASE repacked[p].id # 0
    <3>1. SameKind(repacked[p], source[f[p]]) /\ f[p] \in DOMAIN source
      BY <1>1, <1>3, <2>5 DEF Linked, FromSource
    <3>2. /\ source[f[p]].id = f[p]
          /\ source[f[p]].op = "CAT" => source[f[p]].b < source[f[p]].c
      BY <3>1 DEF RepackInv, HandedOver
    <3>3. repacked[p].id = f[p] /\ repacked[p].op = source[f[p]].op
      BY <3>1, <3>2 DEF SameKind
    <3>4. ~Repacked!Ends(source[f[p]]) => f[p + 1] = f[p] + 1
      <4>1. ~Repacked!Ends(source[f[p]]) => p \in 1..(Len(repacked) - 1)
        BY <2>1, <3>3 DEF Repacked!Ends
      <4>. QED BY <1>1, <2>5, <4>1 DEF Linked, InOrder
    <3>5. "torn" \notin faults => Len(Repacked!ReadsInOrder(repacked[p])) =
                                  Len(Repacked!ReadsInOrder(source[f[p]]))
      BY <1>2, <3>1, <3>2, SameKindReads
    <3>6. source[f[p]].op \in {"JMP", "TEST", "EQ"} => f[repacked[p].to] = source[f[p]].to
      BY <2>2, <3>3 DEF Jumps
    <3>. QED BY <2>3, <2>5, <3>3, <3>4, <3>5, <3>6
  <2>. QED BY <2>4, <2>5
<1>. QED BY <1>3, <1>4, Zenon DEF Repacked!ProgramKept

\* Every copy of repacking runs on into the instruction it was made for, every
\* other instruction is one of the source and goes on, by itself and by its jump,
\* where that one does; unless a CAT was torn, it has as many operands.
THEOREM ProgramSafe == Repacked!Spec => []Repacked!ProgramKept
BY RepackInvariance, KeptOfInv, PTL

\* No jump arrives behind a copy that has not run.
THEOREM CopiesRun == Repacked!Spec => []Repacked!NoCopySkipped
<1>1. RepackInv => Repacked!NoCopySkipped
  <2> SUFFICES ASSUME RepackInv, NEW p \in DOMAIN repacked,
                      NEW q \in DOMAIN repacked, repacked[q].to = p
               PROVE  p = 1 \/ repacked[p - 1].id # 0
    BY DEF Repacked!NoCopySkipped, Repacked!JumpsTo
  <2>1. phase # "compile"
    BY DEF RepackInv, Compiling
  <2>2. PICK f : Linked(f)
    BY <2>1 DEF RepackInv
  <2>3. DOMAIN repacked = 1..Len(repacked) /\ Len(repacked) \in Nat
    BY <2>1, InBuffer
  <2>4. IF Jumps(repacked[q]) THEN p > 1 => repacked[p - 1].id # 0 ELSE p = 0
    BY <2>2 DEF Linked, Arrives
  <2>. QED BY <2>3, <2>4
<1>. QED BY <1>1, RepackInvariance, PTL

\* The frame has every register that an instruction in the buffer names.
THEOREM FrameSafe == Repacked!Spec => []Repacked!FrameHolds
<1>1. RepackInv => Repacked!FrameHolds
  <2> SUFFICES ASSUME RepackInv, NEW p \in DOMAIN repacked
               PROVE  Repacked!Reads(repacked[p]) \cup Repacked!Writes(repacked[p])
                          \subseteq 0..(framesize - 1)
    BY DEF Repacked!FrameHolds
  <2>1. phase # "compile"
    BY DEF RepackInv, Compiling
  <2>2. PICK ins \in Insns : ins = repacked[p] /\ RegsBelow(ins, framesize)
    BY <2>1, InBuffer
  <2>3. framesize \in Nat /\ ins.a \in Nat /\ ins.b \in Nat /\ ins.c \in Nat
    BY <2>1, <2>2, InBuffer, InsnFields
  <2>4. ins.a \in 0..(framesize - 1)
    BY <2>2, <2>3 DEF RegsBelow
  <2>5. Repacked!Writes(ins) \subseteq {ins.a}
    BY DEF Repacked!Writes, Repacked!Result
  <2>6. Repacked!ToSet(Repacked!ReadsInOrder(ins)) \subseteq 0..(framesize - 1)
    <3>1. CASE ins.op = "CAT"
      <4>1. Repacked!ReadsInOrder(ins) = [k \in 1..(ins.c - ins.b + 1) |-> ins.b + k - 1]
        BY <3>1 DEF Repacked!ReadsInOrder
      <4>2. ins.c < framesize
        BY <2>2, <3>1 DEF RegsBelow
      <4>3. \A k \in 1..(ins.c - ins.b + 1) : ins.b + k - 1 \in 0..(framesize - 1)
        BY <2>3, <4>2
      <4>. QED BY <4>1, <4>3 DEF Repacked!ToSet
    <3>2. CASE ins.op = "RET"
      <4>1. Repacked!ReadsInOrder(ins) = [k \in 1..(ins.c - 1) |-> ins.a + k - 1]
        BY <3>2 DEF Repacked!ReadsInOrder
      <4>2. ins.a + ins.c < framesize + 2
        BY <2>2, <3>2 DEF RegsBelow
      <4>3. \A k \in 1..(ins.c - 1) : ins.a + k - 1 \in 0..(framesize - 1)
        BY <2>3, <4>2
      <4>. QED BY <4>1, <4>3 DEF Repacked!ToSet
    <3>3. CASE ins.op \in {"CALL", "USE", "RET1"}
      <4>1. Repacked!ReadsInOrder(ins) = <<ins.a>>
        BY <3>3 DEF Repacked!ReadsInOrder
      <4>. QED BY <2>4, <4>1 DEF Repacked!ToSet
    <3>4. CASE ins.op \in {"MOV", "TEST"}
      <4>1. Repacked!ReadsInOrder(ins) = <<ins.c>>
        BY <3>4 DEF Repacked!ReadsInOrder
      <4>2. ins.c \in 0..(framesize - 1)
        BY <2>2, <2>3, <3>4 DEF RegsBelow
      <4>. QED BY <4>1, <4>2 DEF Repacked!ToSet
    <3>5. CASE ins.op = "EQ"
      <4>1. Repacked!ReadsInOrder(ins) = <<ins.a, ins.c>>
        BY <3>5 DEF Repacked!ReadsInOrder
      <4>2. ins.c \in 0..(framesize - 1)
        BY <2>2, <2>3, <3>5 DEF RegsBelow
      <4>. QED BY <2>4, <4>1, <4>2 DEF Repacked!ToSet
    <3>6. CASE ins.op \notin {"CAT", "RET", "CALL", "USE", "RET1", "MOV", "TEST", "EQ"}
      <4>1. Repacked!ReadsInOrder(ins) = <<>>
        BY <3>6 DEF Repacked!ReadsInOrder
      <4>. QED BY <4>1 DEF Repacked!ToSet
    <3>. QED BY <3>1, <3>2, <3>3, <3>4, <3>5, <3>6
  <2>7. Repacked!Reads(ins) \subseteq 0..(framesize - 1)
    BY <2>4, <2>6 DEF Repacked!Reads
  <2>. QED BY <2>2, <2>4, <2>5, <2>7
<1>. QED BY <1>1, RepackInvariance, PTL

\* An instruction of the source stands in the buffer once.
LEMMA IdsApart ==
    ASSUME RepackInv, phase # "compile", NEW p \in DOMAIN repacked, NEW q \in DOMAIN repacked,
           repacked[p].id = repacked[q].id, repacked[p].id # 0
    PROVE  p = q
<1>1. PICK f : Linked(f)
  BY DEF RepackInv
<1>2. DOMAIN repacked = 1..Len(repacked) /\ DOMAIN source = 1..Len(source)
  BY InBuffer
<1>3. f[p] \in DOMAIN source /\ f[q] \in DOMAIN source
  BY <1>1 DEF Linked
<1>4. repacked[p].id = source[f[p]].id /\ repacked[q].id = source[f[q]].id
  BY <1>1 DEF Linked, FromSource, SameKind
<1>5. source[f[p]].id = f[p] /\ source[f[q]].id = f[q]
  BY <1>3 DEF RepackInv, HandedOver
<1>6. f[p] = f[q] /\ f[p] \in Int /\ p \in Int /\ q \in Int
  <2>1. f[p] = f[q]
    BY <1>4, <1>5
  <2>2. Len(repacked) \in Nat /\ Len(source) \in Nat
    BY InBuffer
  <2>. QED BY <1>2, <1>3, <2>1, <2>2
<1>7. p < q => f[p] < f[q]
  BY <1>1 DEF Linked, InOrder
<1>8. q < p => f[q] < f[p]
  BY <1>1 DEF Linked, InOrder
<1>. QED BY <1>6, <1>7, <1>8

\* Every hole is in the frame.
LEMMA HolesInFrame ==
    ASSUME RepackInv, phase # "compile", NEW h \in Repacked!Holes
    PROVE  h \in Nat /\ h < framesize
<1>1. PICK q \in DOMAIN repacked : h = repacked[q].a
  BY DEF Repacked!Holes
<1>2. repacked[q] \in Insns /\ RegsBelow(repacked[q], framesize)
  BY InBuffer
<1>. QED BY <1>1, <1>2, InsnFields DEF RegsBelow

\* While no CAT has been torn, the first operand of one is below its last one.
LEMMA CatInOrder ==
    ASSUME RepackInv, phase # "compile", "torn" \notin faults,
           NEW q \in DOMAIN repacked, repacked[q].op = "CAT"
    PROVE  repacked[q].b < repacked[q].c
<1>1. PICK f : Linked(f)
  BY DEF RepackInv
<1>2. repacked[q].id # 0 /\ f[q] \in DOMAIN source
  BY <1>1 DEF Linked, FromSource
<1>3. SameKind(repacked[q], source[f[q]])
  BY <1>1, <1>2 DEF Linked, FromSource
<1>4. source[f[q]].b < source[f[q]].c /\ repacked[q].c - repacked[q].b = source[f[q]].c - source[f[q]].b
  BY <1>2, <1>3 DEF SameKind, RepackInv, HandedOver
<1>5. repacked[q] \in Insns /\ source[f[q]] \in Insns
  BY <1>2, InBuffer
<1>6. /\ repacked[q].b \in Nat /\ repacked[q].c \in Nat
      /\ source[f[q]].b \in Nat /\ source[f[q]].c \in Nat
  BY <1>5, InsnFields
<1>. QED BY <1>4, <1>6

\* What needs to be repacked has a number.
LEMMA NeededHasId ==
    ASSUME RepackInv, phase # "compile", NEW p \in DOMAIN repacked, Repacked!NeedsRepack(p)
    PROVE  repacked[p].id # 0
<1>1. PICK f : Linked(f)
  BY DEF RepackInv
<1>2. repacked[p].op \in {"CAT", "RET"}
  BY NeededRegs
<1>. QED BY <1>1, <1>2 DEF Linked, FromSource

\* Where holes are free, there are none; nor are there any above the frame.
LEMMA NoHoleThere ==
    ASSUME RepackInv, phase # "compile", NEW base \in Nat, NEW n \in Nat \ {0},
           Repacked!HoleFree(base, n) \/ base = framesize
    PROVE  \A h \in Repacked!Holes : ~(base <= h /\ h < base + n)
<1> SUFFICES ASSUME NEW h \in Repacked!Holes, base <= h, h < base + n PROVE FALSE
  OBVIOUS
<1>1. h \in Nat /\ h < framesize /\ framesize \in Nat
  BY HolesInFrame, InBuffer
<1>2. base # framesize
  BY <1>1
<1>3. ~Repacked!ClosedRangeHole(Repacked!Holes, base, base + n - 1)
  BY <1>2 DEF Repacked!HoleFree
<1>4. base + n - 1 + 1 = base + n
  OBVIOUS
<1>. QED BY <1>3, <1>4 DEF Repacked!ClosedRangeHole, Repacked!RangeHole

\* A move that takes no call along leaves the holes where they are.
LEMMA MovedHoles ==
    ASSUME RepackInv, phase # "compile", NEW plan, Planned(plan),
           repacked' = Repacked!Moved(plan), "carried" \notin Repacked!FaultsOf(plan)
    PROVE  Repacked!Holes' = Repacked!Holes
<1>1. DOMAIN repacked = 1..Len(repacked) /\ framesize \in Nat
  BY InBuffer
<1>2. /\ DOMAIN repacked' = 1..Len(repacked)
      /\ \A q \in 1..Len(repacked) : MovedAs(repacked'[q], plan, q)
  <2>1. /\ Repacked!Moved(plan) \in Seq(Insns) /\ Len(Repacked!Moved(plan)) = Len(repacked)
        /\ \A q \in 1..Len(repacked) : MovedAs(Repacked!Moved(plan)[q], plan, q)
    BY MovedParts
  <2>. QED BY <2>1, LenProperties
<1>3. plan.base \in Nat /\ Repacked!NumRegs(plan.at) \in Nat
  BY PlanRegs
<1>4. PICK w \in Nat : framesize <= w /\ plan.base + Repacked!NumRegs(plan.at) <= w
  <2>1. framesize + plan.base + Repacked!NumRegs(plan.at) \in Nat
    BY <1>1, <1>3
  <2>. QED BY <1>1, <1>3, <2>1
<1>5. ASSUME NEW q \in 1..Len(repacked)
      PROVE  /\ repacked'[q].op = repacked[q].op
             /\ repacked[q].op = "CALL" => repacked'[q].a = repacked[q].a
  <2>1. MovedAs(repacked'[q], plan, q)
    BY <1>2
  <2>2. repacked'[q].op = repacked[q].op
    BY <1>4, <2>1, MovedKeeps
  <2>3. ASSUME repacked[q].op = "CALL" PROVE repacked'[q].a = repacked[q].a
    <3>1. CASE q \in Repacked!InWindow(plan)
      <4>1. repacked[q].a \notin Repacked!Together(plan.at)
        BY <2>3, <3>1, WindowSafe
      <4>. QED BY <2>1, <2>3, <3>1, <4>1 DEF MovedAs, RemappedAs, Renamed, Repacked!Together
    <3>2. CASE q \notin Repacked!InWindow(plan)
      <4>1. q # plan.at
        BY <2>3, PlanRegs
      <4>. QED BY <2>1, <3>2, <4>1 DEF MovedAs
    <3>. QED BY <3>1, <3>2
  <2>. QED BY <2>2, <2>3
<1>6. Repacked!Holes = {repacked[p].a : p \in {q \in 1..Len(repacked) : repacked[q].op = "CALL"}}
  BY <1>1 DEF Repacked!Holes
<1>7. Repacked!Holes' = {repacked'[p].a : p \in {q \in 1..Len(repacked) : repacked'[q].op = "CALL"}}
  BY <1>2 DEF Repacked!Holes
<1>. QED BY <1>5, <1>6, <1>7

\* After it, what needs to be repacked needed it before, and the instruction it
\* was made for does not need it any more.
LEMMA MovedNeeds ==
    ASSUME RepackInv, phase # "compile", NEW plan, Planned(plan), plan.how = "move",
           repacked' = Repacked!Moved(plan), "carried" \notin Repacked!FaultsOf(plan),
           "torn" \notin Repacked!FaultsOf(plan), "torn" \notin faults,
           NEW q \in 1..Len(repacked), Repacked!NeedsRepack(q)'
    PROVE  Repacked!NeedsRepack(q) /\ q # plan.at /\ repacked'[q].id = repacked[q].id
<1> DEFINE p == plan.at
           first == Repacked!FirstReg(p)
           n == Repacked!NumRegs(p)
           last == first + n - 1
           old == repacked[q]
           new == repacked'[q]
           base == plan.base
           H == Repacked!Holes
<1>1. DOMAIN repacked = 1..Len(repacked) /\ old \in Insns /\ framesize \in Nat
  BY InBuffer
<1>2. MovedAs(new, plan, q)
  BY MovedParts
<1>3. /\ base \in Nat /\ n \in Nat \ {0} /\ first \in Nat /\ last \in Nat
      /\ p \in 1..Len(repacked) /\ repacked[p].op \in {"CAT", "RET"}
      /\ repacked[p].op = "RET" => n = repacked[p].c - 1
  BY PlanRegs
<1>4. \/ new.op = "CAT" /\ Repacked!ClosedRangeHole(H, new.b, new.c)
      \/ new.op = "RET" /\ Repacked!RangeHole(H, new.a, new.a + new.c - 2)
  <2>1. Repacked!Holes' = H
    BY MovedHoles
  <2>. QED BY <2>1 DEF Repacked!NeedsRepack, Repacked!ClosedRangeHole, Repacked!RangeHole
<1>5. \A h \in H : h \in Nat /\ ~(base <= h /\ h < base + n)
  <2>1. Repacked!HoleFree(base, n) \/ base = framesize
    BY DEF Planned
  <2>. QED BY <1>3, <2>1, NoHoleThere, HolesInFrame
<1>6. old.a \in Nat /\ old.b \in Nat /\ old.c \in Nat
  BY <1>1, InsnFields
<1>7. CASE q \in Repacked!InWindow(plan)
  <2>1. q < p /\ q \in 1..(Len(repacked) - 1) /\ q \in 1..Len(repacked)
    BY <1>7, WindowSafe
  <2>2. RemappedAs(new, old, first, last, base)
    BY <1>2, <1>7 DEF MovedAs
  <2>3. new.op = "CAT" /\ old.op = "CAT" /\ new.id = old.id
    <3>1. ~Repacked!Ends(old)
      BY <2>1, NoEndInside
    <3>. QED BY <1>4, <2>2, <3>1 DEF RemappedAs, Repacked!Ends
  <2>4. old.b < old.c
    BY <1>1, <2>3, CatInOrder
  <2>5. \/ (old.b..old.c) \subseteq Repacked!Together(p)
        \/ (old.b..old.c) \cap Repacked!Together(p) = {}
    BY <1>7, <2>3, WindowSafe
  <2>6. PICK h \in H : new.b <= h /\ h < new.c + 1
    BY <1>4, <2>3 DEF Repacked!ClosedRangeHole, Repacked!RangeHole
  <2>7. /\ new.b = Renamed(old.b, first, last, base)
        /\ new.c = Renamed(old.c, first, last, base)
    BY <2>2, <2>3 DEF RemappedAs
  <2>8. old.b \in old.b..old.c /\ old.c \in old.b..old.c
    BY <1>6, <2>4
  <2>9. p \in Int /\ q \in Int
    BY <1>3
  <2>10. Repacked!Together(p) = first..last
    BY DEF Repacked!Together
  <2> HIDE DEF first, last, n, old, new, base, H
  <2>11. CASE old.b \in first..last /\ old.c \in first..last
    <3>1. new.b = base + old.b - first /\ new.c = base + old.c - first
      BY <2>7, <2>11 DEF Renamed
    <3>2. last = first + n - 1
      BY DEF last
    <3>3. base <= new.b /\ new.c < base + n /\ new.b \in Int /\ new.c \in Int
      BY <1>3, <1>6, <2>11, <3>1, <3>2
    <3>4. h \in Nat /\ ~(base <= h /\ h < base + n)
      BY <1>5
    <3>5. base \in Nat /\ n \in Nat
      BY <1>3
    <3>. QED BY <2>6, <3>3, <3>4, <3>5
  <2>12. CASE old.b \notin first..last /\ old.c \notin first..last
    <3>1. new.b = old.b /\ new.c = old.c
      BY <2>7, <2>12 DEF Renamed
    <3>2. Repacked!ClosedRangeHole(H, old.b, old.c)
      BY <2>6, <3>1 DEF Repacked!ClosedRangeHole, Repacked!RangeHole
    <3>. QED BY <2>1, <2>3, <2>9, <3>2 DEF Repacked!NeedsRepack, old, new, H
  <2>. QED BY <2>5, <2>8, <2>10, <2>11, <2>12
<1>8. CASE q \notin Repacked!InWindow(plan) /\ q # p
  <2>1. new = old
    BY <1>2, <1>8 DEF MovedAs
  <2>. QED BY <1>4, <1>8, <2>1 DEF Repacked!NeedsRepack
<1>9. CASE q \notin Repacked!InWindow(plan) /\ q = p
  <2>1. /\ new.op = old.op
        /\ new.op = "RET" => new.a = base /\ new.c = n + 1
        /\ new.op = "CAT" => new.b = base /\ new.c = base + n - 1
    BY <1>2, <1>3, <1>6, <1>9 DEF MovedAs
  <2> HIDE DEF n, old, new, base, H
  <2>2. CASE new.op = "CAT"
    <3>1. PICK h \in H : base <= h /\ h < base + n - 1 + 1
      BY <1>4, <2>1, <2>2 DEF Repacked!ClosedRangeHole, Repacked!RangeHole
    <3>2. h \in Nat /\ ~(base <= h /\ h < base + n)
      BY <1>5
    <3>. QED BY <1>3, <3>1, <3>2
  <2>3. CASE new.op = "RET"
    <3>1. PICK h \in H : base <= h /\ h < base + (n + 1) - 2
      BY <1>4, <2>1, <2>3 DEF Repacked!RangeHole
    <3>2. h \in Nat /\ ~(base <= h /\ h < base + n)
      BY <1>5
    <3>. QED BY <1>3, <3>1, <3>2
  <2>. QED BY <1>4, <2>2, <2>3
<1>. QED BY <1>7, <1>8, <1>9

\* Copies leave the holes where they are, in every case.
LEMMA CopiesHoles ==
    ASSUME RepackInv, phase # "compile", NEW plan, Planned(plan), plan.how # "move",
           repacked' = Repacked!WithCopies(plan)
    PROVE  Repacked!Holes' = Repacked!Holes
<1> DEFINE p == plan.at
           n == Repacked!NumRegs(p)
           m == Len(repacked)
<1>1. DOMAIN repacked = 1..m /\ m \in Nat
  BY InBuffer
<1>2. /\ DOMAIN repacked' = 1..(m + n)
      /\ \A q \in 1..(m + n) : CopiedAs(repacked'[q], plan, q)
  <2>1. /\ Repacked!WithCopies(plan) \in Seq(Insns) /\ Len(Repacked!WithCopies(plan)) = m + n
        /\ \A q \in 1..(m + n) : CopiedAs(Repacked!WithCopies(plan)[q], plan, q)
    BY CopiesParts
  <2>. QED BY <2>1, LenProperties
<1>3. p \in 1..m /\ n \in Nat \ {0} /\ repacked[p].op = "CAT"
  BY PlanRegs DEF Planned
<1>4. ASSUME NEW q \in 1..(m + n), repacked'[q].op = "CALL"
      PROVE  \E o \in 1..m : repacked[o].op = "CALL" /\ repacked[o].a = repacked'[q].a
  <2>1. CopiedAs(repacked'[q], plan, q)
    BY <1>2
  <2>2. /\ q < p => ShiftedAs(repacked'[q], repacked[q], p, n)
        /\ q > p + n => ShiftedAs(repacked'[q], repacked[q - n], p, n)
        /\ ~(q >= p /\ q < p + n) /\ q # p + n
    BY <1>3, <1>4, <2>1 DEF CopiedAs
  <2> HIDE DEF p, n, m
  <2>3. CASE q < p
    <3>1. q \in 1..m
      BY <1>1, <1>3, <2>3
    <3>. QED BY <1>4, <2>2, <2>3, <3>1 DEF ShiftedAs
  <2>4. CASE q > p + n
    <3>1. q - n \in 1..m
      BY <1>1, <1>3, <2>4
    <3>. QED BY <1>4, <2>2, <2>4, <3>1 DEF ShiftedAs
  <2>. QED BY <1>1, <1>3, <2>2, <2>3, <2>4
<1>5. ASSUME NEW o \in 1..m, repacked[o].op = "CALL"
      PROVE  \E q \in 1..(m + n) : repacked'[q].op = "CALL" /\ repacked'[q].a = repacked[o].a
  <2>1. o # p
    BY <1>3, <1>5
  <2>2. CASE o < p
    <3>1. o \in 1..(m + n)
      <4> HIDE DEF p, n, m
      <4>. QED BY <1>1, <1>3
    <3>2. CopiedAs(repacked'[o], plan, o)
      BY <1>2, <3>1
    <3>3. ShiftedAs(repacked'[o], repacked[o], p, n)
      BY <2>2, <3>2 DEF CopiedAs
    <3>. QED BY <1>5, <3>1, <3>3 DEF ShiftedAs
  <2>3. CASE o > p
    <3>1. o + n \in 1..(m + n) /\ o + n > p + n /\ (o + n) - n = o
      <4> HIDE DEF p, n, m
      <4>. QED BY <1>1, <1>3, <2>3
    <3>2. CopiedAs(repacked'[o + n], plan, o + n)
      BY <1>2, <3>1
    <3>3. ShiftedAs(repacked'[o + n], repacked[o], p, n)
      BY <3>1, <3>2 DEF CopiedAs
    <3>. QED BY <1>5, <3>1, <3>3 DEF ShiftedAs
  <2>. QED
    <3> HIDE DEF p, n, m
    <3>. QED BY <1>1, <1>3, <2>1, <2>2, <2>3
<1>6. Repacked!Holes = {repacked[r].a : r \in {q \in 1..m : repacked[q].op = "CALL"}}
  BY <1>1 DEF Repacked!Holes
<1>7. Repacked!Holes' = {repacked'[r].a : r \in {q \in 1..(m + n) : repacked'[q].op = "CALL"}}
  BY <1>2 DEF Repacked!Holes
<1> HIDE DEF p, n, m
<1>. QED BY <1>4, <1>5, <1>6, <1>7

\* What needs to be repacked after them needed it before; the CAT they were made
\* for does so only if their place was chosen without looking.
LEMMA CopiesNeeds ==
    ASSUME RepackInv, phase # "compile", NEW plan, Planned(plan), plan.how # "move",
           repacked' = Repacked!WithCopies(plan),
           NEW q \in 1..(Len(repacked) + Repacked!NumRegs(plan.at)), Repacked!NeedsRepack(q)'
    PROVE  \E o \in 1..Len(repacked) :
              /\ Repacked!NeedsRepack(o) /\ repacked'[q].id = repacked[o].id
              /\ Repacked!HoleFree(plan.base, Repacked!NumRegs(plan.at)) => o # plan.at
<1> DEFINE p == plan.at
           n == Repacked!NumRegs(p)
           m == Len(repacked)
           new == repacked'[q]
           H == Repacked!Holes
<1>1. DOMAIN repacked = 1..m /\ m \in Nat
  BY InBuffer
<1>2. p \in 1..m /\ n \in Nat \ {0} /\ plan.base \in Nat
  BY PlanRegs
<1>3. CopiedAs(new, plan, q)
  BY CopiesParts
<1>4. \/ new.op = "CAT" /\ Repacked!ClosedRangeHole(H, new.b, new.c)
      \/ new.op = "RET" /\ Repacked!RangeHole(H, new.a, new.a + new.c - 2)
  <2>1. Repacked!Holes' = H
    BY CopiesHoles
  <2>. QED BY <2>1 DEF Repacked!NeedsRepack, Repacked!ClosedRangeHole, Repacked!RangeHole
<1>5. Repacked!NeedsRepack(p)
  BY DEF Planned
<1>6. /\ q < p => ShiftedAs(new, repacked[q], p, n)
      /\ q >= p /\ q < p + n => new.op = "MOV"
      /\ q = p + n => /\ new.id = repacked[p].id /\ new.op = "CAT"
                      /\ new.b = plan.base /\ new.c = plan.base + n - 1
      /\ q > p + n => ShiftedAs(new, repacked[q - n], p, n)
  BY <1>3 DEF CopiedAs, Planned
<1>7. ASSUME NEW o \in 1..m, o # p, ShiftedAs(new, repacked[o], p, n)
      PROVE  Repacked!NeedsRepack(o) /\ new.id = repacked[o].id
  <2>1. /\ new.op = repacked[o].op /\ new.id = repacked[o].id
        /\ new.a = repacked[o].a /\ new.b = repacked[o].b /\ new.c = repacked[o].c
    BY <1>7 DEF ShiftedAs
  <2> HIDE DEF new
  <2>. QED BY <1>4, <2>1 DEF Repacked!NeedsRepack
<1>8. CASE q < p
  <2>1. q \in 1..m
    <3> HIDE DEF p, n, m
    <3>. QED BY <1>1, <1>2, <1>8
  <2>2. q # p
    <3> HIDE DEF p, n, m
    <3>. QED BY <1>2, <1>8
  <2>. QED BY <1>6, <1>7, <1>8, <2>1, <2>2
<1>9. CASE q >= p /\ q < p + n
  BY <1>4, <1>6, <1>9
<1>10. CASE q = p + n
  <2>1. ~Repacked!HoleFree(plan.base, n)
    <3>1. Repacked!ClosedRangeHole(H, plan.base, plan.base + n - 1)
      BY <1>4, <1>6, <1>10
    <3>. QED BY <3>1 DEF Repacked!HoleFree
  <2>. QED BY <1>2, <1>5, <1>6, <1>10, <2>1
<1>11. CASE q > p + n
  <2>1. q - n \in 1..m /\ q - n # p
    <3>1. q \in 1..(m + n)
      OBVIOUS
    <3> HIDE DEF p, n, m
    <3>. QED BY <1>1, <1>2, <1>11, <3>1
  <2>. QED BY <1>6, <1>7, <1>11, <2>1
<1>12. q < p \/ (q >= p /\ q < p + n) \/ q = p + n \/ q > p + n
  <2> HIDE DEF p, n, m
  <2>. QED BY <1>1, <1>2
<1>. QED BY <1>8, <1>9, <1>10, <1>11, <1>12

\* What a turn does about the instructions that need to be repacked.
LEMMA TurnCloser ==
    ASSUME RepackInv, phase = "repack", phase' = "repack",
           Repacked!RepackOne(Repacked!Plans), faults' \cap {"carried", "torn"} = {}
    PROVE  /\ Repacked!Pending' \subseteq Repacked!Pending
           /\ \/ Repacked!Pending' # Repacked!Pending
              \/ framesize' > framesize /\ framesize' <= MaxA
<1>1. PICK plan \in Repacked!Plans :
         LET size == plan.base + Repacked!NumRegs(plan.at)
         IN IF size > MaxA
            THEN phase' = "overflow" /\ UNCHANGED <<repacked, framesize, faults>>
            ELSE /\ repacked' = IF plan.how = "move" THEN Repacked!Moved(plan)
                                ELSE Repacked!WithCopies(plan)
                 /\ framesize' = Repacked!Max({framesize, size})
                 /\ faults' = faults \cup Repacked!FaultsOf(plan)
                 /\ UNCHANGED phase
  BY Zenon DEF Repacked!RepackOne
<1>2. Planned(plan)
  BY PlanFacts
<1> DEFINE p == plan.at
           n == Repacked!NumRegs(p)
           size == plan.base + n
<1>3. ~(size > MaxA)
  BY <1>1
<1>4. /\ repacked' = IF plan.how = "move" THEN Repacked!Moved(plan)
                     ELSE Repacked!WithCopies(plan)
      /\ framesize' = Repacked!Max({framesize, size})
      /\ faults' = faults \cup Repacked!FaultsOf(plan)
  BY <1>1, <1>3
<1>5. /\ "carried" \notin Repacked!FaultsOf(plan) /\ "torn" \notin Repacked!FaultsOf(plan)
      /\ "torn" \notin faults
  BY <1>4
<1>6. /\ p \in DOMAIN repacked /\ Repacked!NeedsRepack(p) /\ repacked[p].id \in Repacked!Pending
      /\ DOMAIN repacked = 1..Len(repacked) /\ repacked[p].id # 0
  BY <1>2, InBuffer, NeededHasId DEF Planned, Repacked!Pending
<1>7. ASSUME NEW o \in 1..Len(repacked), Repacked!NeedsRepack(o)
      PROVE  /\ repacked[o].id \in Repacked!Pending
             /\ o # p => repacked[o].id # repacked[p].id
  <2>1. o = p \/ repacked[o].id # repacked[p].id
    BY <1>6, IdsApart
  <2>. QED BY <1>6, <1>7, <2>1 DEF Repacked!Pending
<1>8. CASE plan.how = "move"
  <2>1. repacked' = Repacked!Moved(plan)
    BY <1>4, <1>8
  <2>2. DOMAIN repacked' = 1..Len(repacked)
    <3>1. /\ Repacked!Moved(plan) \in Seq(Insns) /\ Len(Repacked!Moved(plan)) = Len(repacked)
      BY <1>2, MovedParts
    <3>. QED BY <2>1, <3>1, LenProperties
  <2>3. ASSUME NEW q \in 1..Len(repacked), Repacked!NeedsRepack(q)'
        PROVE  repacked'[q].id \in Repacked!Pending \ {repacked[p].id}
    <3>1. Repacked!NeedsRepack(q) /\ q # p /\ repacked'[q].id = repacked[q].id
      BY <1>2, <1>5, <1>8, <2>1, <2>3, MovedNeeds
    <3>. QED BY <1>7, <3>1
  <2>4. Repacked!Pending' \subseteq Repacked!Pending \ {repacked[p].id}
    BY <2>2, <2>3 DEF Repacked!Pending
  <2>. QED BY <1>6, <2>4
<1>9. CASE plan.how # "move"
  <2>1. repacked' = Repacked!WithCopies(plan)
    BY <1>4, <1>9
  <2>2. DOMAIN repacked' = 1..(Len(repacked) + n)
    <3>1. /\ Repacked!WithCopies(plan) \in Seq(Insns)
          /\ Len(Repacked!WithCopies(plan)) = Len(repacked) + n
      BY <1>2, CopiesParts
    <3>. QED BY <2>1, <3>1, LenProperties
  <2>3. ASSUME NEW q \in 1..(Len(repacked) + n), Repacked!NeedsRepack(q)'
        PROVE  /\ repacked'[q].id \in Repacked!Pending
               /\ Repacked!HoleFree(plan.base, n) => repacked'[q].id # repacked[p].id
    <3>1. PICK o \in 1..Len(repacked) :
             /\ Repacked!NeedsRepack(o) /\ repacked'[q].id = repacked[o].id
             /\ Repacked!HoleFree(plan.base, n) => o # p
      BY <1>2, <1>9, <2>1, <2>3, CopiesNeeds
    <3>. QED BY <1>7, <3>1
  <2>4. /\ Repacked!Pending' \subseteq Repacked!Pending
        /\ Repacked!HoleFree(plan.base, n) => repacked[p].id \notin Repacked!Pending'
    BY <2>2, <2>3 DEF Repacked!Pending
  <2>5. CASE Repacked!HoleFree(plan.base, n)
    BY <1>6, <2>4, <2>5
  <2>6. CASE plan.base = framesize - n + 1
    <3>1. n \in Nat /\ framesize \in Nat /\ size \in Nat /\ MaxA \in Nat
      BY <1>2, PlanRegs, InBuffer, PrototypeAssumption
    <3>2. size = framesize + 1
      BY <2>6, <3>1
    <3>3. framesize' \in {framesize, size} /\ size <= framesize'
      BY <1>4, <3>1, MaxTwo
    <3> HIDE DEF size, n
    <3>. QED BY <1>3, <2>4, <3>1, <3>2, <3>3
  <2>. QED BY <1>2, <1>9, <2>5, <2>6 DEF Planned
<1>. QED BY <1>8, <1>9

\* A turn of repacking that moves no call along and tears no CAT leaves less to be
\* repacked, or the frame has grown towards its limit: this is what ends the loop.
THEOREM RepackComesCloser == Repacked!Spec => Repacked!TurnsComeCloser
<1>1. ASSUME RepackInv, [Repacked!Next]_Repacked!vars
      PROVE  [phase = "repack" /\ phase' = "repack" /\ faults' \cap {"carried", "torn"} = {}
              => /\ Repacked!Pending' \subseteq Repacked!Pending
                 /\ \/ Repacked!Pending' # Repacked!Pending
                    \/ framesize' > framesize /\ framesize' <= MaxA]_Repacked!vars
  <2> SUFFICES ASSUME Repacked!Next, phase = "repack", phase' = "repack",
                      faults' \cap {"carried", "torn"} = {}
               PROVE  /\ Repacked!Pending' \subseteq Repacked!Pending
                      /\ \/ Repacked!Pending' # Repacked!Pending
                         \/ framesize' > framesize /\ framesize' <= MaxA
    BY <1>1
  <2>1. Repacked!Repacking
    BY DEF Repacked!Next, Repacked!Operand, Repacked!Join, Repacked!Statement, Repacked!Emit,
       Repacked!Loop, Repacked!End, Repacked!RunCopy, Repacked!RunBoth
  <2>2. ~Repacked!RepackNothing(Repacked!Plans)
    BY DEF Repacked!RepackNothing
  <2>3. Repacked!RepackOne(Repacked!Plans)
    BY <2>1, <2>2 DEF Repacked!Repacking, Repacked!Repacked
  <2>. QED BY <1>1, <2>3, TurnCloser
<1>. QED BY <1>1, RepackInvariance, PTL DEF Repacked!Spec, Repacked!TurnsComeCloser
=============================================================================
