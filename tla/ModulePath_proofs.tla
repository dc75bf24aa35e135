-------------------------- MODULE ModulePath_proofs --------------------------
(***************************************************************************)
(* Proofs about ModulePath, for any names and any bounds: the buffer holds *)
(* the path of the namespace that is open, so every name made of it is the *)
(* path of what it names.                                                  *)
(***************************************************************************)
EXTENDS ModulePath, SequenceTheorems, FiniteSetTheorems, TLAPS

USE ModuleAssumption

Tables == [kind : {"none", "module", "type"}, name : AnyName, meta : BOOLEAN]
Frames == [kind : {"module", "type", "pre"}, path : Paths \cup {<<>>}, name : AnyName]

-----------------------------------------------------------------------------
(* The inductive invariant.                                                *)

\* The types of all variables.  A path without a table has None.
Types ==
    /\ table \in [Paths -> Tables]
    /\ sb \in AnyName
    /\ frames \in Seq(Frames)
    /\ preload \subseteq Paths
    /\ orderly \in BOOLEAN
    /\ \A p \in Paths : /\ table[p].kind = "none" => Missing(p)
                        /\ table[p].kind = "type" => table[p].meta
                        /\ table[p].meta => table[p].name # <<>>

\* A module stands in the module that its path is cut to, the first one in
\* the global table.  Nothing else is below a module.
ModuleFrames ==
    \A i \in DOMAIN frames : frames[i].kind = "module" =>
        IF i = 1 THEN frames[i].path = <<>>
        ELSE /\ frames[i].path \in Paths
             /\ frames[i - 1].kind = "module"
             /\ frames[i - 1].path = Front(frames[i].path)

\* A type is innermost, its table is not there before it is ended, and its
\* name is its path unless require has opened a namespace with a wrong name.
TypeFrames ==
    \A i \in DOMAIN frames : frames[i].kind = "type" =>
        /\ i = Len(frames) /\ i > 1
        /\ frames[i].path \in Paths /\ Missing(frames[i].path)
        /\ frames[i].name # <<>>
        /\ frames[i - 1].kind = "pre" => frames[i].path = frames[i - 1].name
        /\ orderly \/ frames[i - 1].kind = "module" => frames[i].name = frames[i].path

\* A preloaded namespace is outermost, holds nothing but its type, and every
\* table on the way to it exists.
PreFrames ==
    \A i \in DOMAIN frames : frames[i].kind = "pre" =>
        /\ i = 1 /\ \A j \in DOMAIN frames : j > 1 => frames[j].kind = "type"
        /\ frames[i].path \in Paths /\ frames[i].name \in Paths
        /\ Len(frames[i].name) > 1 /\ frames[i].path = Front(frames[i].name)
        /\ table[frames[i].name].kind # "module"
        /\ \A s \in Steps(frames[i].path) : ~Missing(s)

\* The buffer has the path of the innermost namespace, with a type open in
\* it or not: always in a module, in a preloaded one if the host is orderly.
BufferFollows ==
    /\ frames = <<>> => sb = <<>>
    /\ \A i \in DOMAIN frames :
          /\ \/ i = Len(frames) /\ frames[i].kind # "type"
             \/ i + 1 = Len(frames) /\ frames[i + 1].kind = "type"
          /\ orderly \/ frames[i].kind = "module"
          => sb = frames[i].path

\* The types that require has opened or is opening.
Opened(p) ==
    \/ p \in DOMAIN answers
    \/ \E i \in DOMAIN frames : frames[i].kind = "pre" /\ frames[i].name = p

\* What names the tables have: the one place for a wrong name that lasts is
\* a type that require opened for a host that is not orderly.
Named ==
    /\ orderly => \A p \in Paths : ~Missing(p) => table[p].name = p
    /\ \A p \in Paths : table[p].kind = "module" /\ table[p].meta => table[p].name = p
    /\ \A p \in Paths : table[p].kind = "type" => table[p].name = p \/ Opened(p)
    /\ \A q \in DOMAIN answers : q \in Paths /\ table[q].kind = "type"

\* The namespace of a preloaded type is a module, and the way to it exists.
Announced ==
    \A q \in preload : /\ Len(q) > 1 /\ table[Front(q)].kind = "module"
                       /\ \A s \in Steps(Front(q)) : ~Missing(s)

\* All of it, with the two properties that are inductive with it.
IInv == /\ Types /\ ModuleFrames /\ TypeFrames /\ PreFrames /\ BufferFollows
        /\ Named /\ Announced /\ LoadedByPath /\ RequireAnswersType

-----------------------------------------------------------------------------
(* Paths.                                                                  *)

(* Paths are the sequences of names of bounded length.                     *)
LEMMA PathsType ==
    ASSUME NEW p
    PROVE  p \in Paths <=> p \in Seq(Names) /\ Len(p) \in 1..MaxLen
<1>1. p \in Paths => p \in Seq(Names) /\ Len(p) \in 1..MaxLen
  <2>. SUFFICES ASSUME p \in Paths PROVE p \in Seq(Names) /\ Len(p) \in 1..MaxLen
    OBVIOUS
  <2>1. PICK m \in 0..MaxLen : p \in [1..m -> Names]
    BY DEF Paths, BoundedSeq, SeqOf
  <2>2. p \in Seq(Names) /\ Len(p) = m
    BY <2>1, IsASeq, LenProperties, SMTT(40)
  <2>. QED BY <2>1, <2>2, EmptySeq DEF Paths
<1>2. p \in Seq(Names) /\ Len(p) \in 1..MaxLen => p \in Paths
  <2>. SUFFICES ASSUME p \in Seq(Names), Len(p) \in 1..MaxLen PROVE p \in Paths
    OBVIOUS
  <2>1. p \in [1..Len(p) -> Names]
    BY LenProperties
  <2>2. Len(p) \in 0..MaxLen /\ p # <<>>
    BY EmptySeq
  <2>. QED BY <2>1, <2>2 DEF Paths, BoundedSeq, SeqOf
<1>. QED BY <1>1, <1>2

(* The front of a sequence that is not empty, and its last element.        *)
LEMMA FrontLast ==
    ASSUME NEW S, NEW s \in Seq(S), s # <<>>
    PROVE  /\ Front(s) \in Seq(S) /\ Len(Front(s)) = Len(s) - 1
           /\ \A i \in 1..(Len(s) - 1) : Front(s)[i] = s[i]
           /\ Last(s) \in S /\ Last(s) = s[Len(s)]
           /\ s = Append(Front(s), Last(s))
<1>1. Len(s) \in Nat /\ Len(s) > 0
  BY EmptySeq, LenProperties
<1>2. /\ Front(s) \in Seq(S) /\ Len(Front(s)) = Len(s) - 1
      /\ \A i \in 1..(Len(s) - 1) : Front(s)[i] = s[i]
  <2>1. \A i \in 1..(Len(s) - 1) : s[i] \in S
    BY <1>1, ElementOfSeq
  <2>2. Front(s) = SubSeq(s, 1, Len(s) - 1)
    BY DEF Front
  <2>3. /\ SubSeq(s, 1, Len(s) - 1) \in Seq(S)
        /\ Len(SubSeq(s, 1, Len(s) - 1)) = Len(s) - 1
        /\ \A i \in 1..(Len(s) - 1) : SubSeq(s, 1, Len(s) - 1)[i] = s[i]
    <3>. DEFINE m == Len(s) - 1
    <3>1. m \in Nat /\ \A i \in 1..m : s[i] \in S
      BY <1>1, <2>1
    <3>. HIDE DEF m
    <3>2. /\ SubSeq(s, 1, m) \in Seq(S)
          /\ Len(SubSeq(s, 1, m)) = m
          /\ \A i \in 1..m : SubSeq(s, 1, m)[i] = s[i]
      BY <3>1, SubSeqProperties
    <3>. QED BY <3>2 DEF m
  <2>. QED BY <2>2, <2>3
<1>3. Last(s) \in S /\ Last(s) = s[Len(s)]
  BY <1>1, ElementOfSeq DEF Last
<1>4. s = Append(Front(s), Last(s))
  <2>1. Append(Front(s), Last(s)) \in Seq(S) /\ Len(Append(Front(s), Last(s))) = Len(s)
    BY <1>1, <1>2, <1>3, AppendProperties
  <2>2. \A i \in 1..Len(s) : Append(Front(s), Last(s))[i] = s[i]
    BY <1>1, <1>2, <1>3, AppendProperties
  <2>. QED BY <2>1, <2>2, SeqEqual
<1>. QED BY <1>2, <1>3, <1>4

(* Appending a name can be undone.                                         *)
LEMMA FrontAppend ==
    ASSUME NEW S, NEW s \in Seq(S), NEW e \in S
    PROVE  /\ Append(s, e) \in Seq(S) /\ Append(s, e) # <<>>
           /\ Len(Append(s, e)) = Len(s) + 1
           /\ \A i \in 1..Len(s) : Append(s, e)[i] = s[i]
           /\ Append(s, e)[Len(s) + 1] = e
           /\ Front(Append(s, e)) = s /\ Last(Append(s, e)) = e
<1>1. /\ Append(s, e) \in Seq(S) /\ Append(s, e) # <<>>
      /\ Len(Append(s, e)) = Len(s) + 1 /\ Len(s) \in Nat
      /\ \A i \in 1..Len(s) : Append(s, e)[i] = s[i]
      /\ Append(s, e)[Len(s) + 1] = e
  BY AppendProperties, LenProperties
<1>2. Last(Append(s, e)) = e
  BY <1>1 DEF Last
<1>3. /\ Front(Append(s, e)) \in Seq(S) /\ Len(Front(Append(s, e))) = Len(s)
      /\ \A i \in 1..Len(s) : Front(Append(s, e))[i] = s[i]
  <2>. DEFINE t == Append(s, e)
  <2>1. t \in Seq(S) /\ t # <<>>
    BY <1>1
  <2>. HIDE DEF t
  <2>2. /\ Front(t) \in Seq(S) /\ Len(Front(t)) = Len(t) - 1
        /\ \A i \in 1..(Len(t) - 1) : Front(t)[i] = t[i]
    BY <2>1, FrontLast
  <2>. QED BY <2>2, <1>1 DEF t
<1>4. Front(Append(s, e)) = s
  BY <1>3, SeqEqual
<1>. QED BY <1>1, <1>2, <1>4

(* The steps of a path are the steps of its front and the path itself.     *)
LEMMA StepsOfPath ==
    ASSUME NEW p \in Paths
    PROVE  /\ Steps(p) \subseteq Paths /\ p \in Steps(p)
           /\ \A s \in Steps(p) : Len(s) <= Len(p)
           /\ Len(p) > 1 => /\ Front(p) \in Paths
                            /\ p \notin Steps(Front(p))
                            /\ Steps(p) = Steps(Front(p)) \cup {p}
<1>1. p \in Seq(Names) /\ Len(p) \in 1..MaxLen /\ DOMAIN p = 1..Len(p)
  BY PathsType, LenProperties
<1>2. ASSUME NEW i \in DOMAIN p
      PROVE  SubSeq(p, 1, i) \in Paths /\ Len(SubSeq(p, 1, i)) = i
  <2>1. SubSeq(p, 1, i) \in Seq(Names) /\ Len(SubSeq(p, 1, i)) = i
    BY <1>1, SubSeqProperties
  <2>2. Len(SubSeq(p, 1, i)) \in 1..MaxLen
    BY <2>1, <1>1
  <2>. QED BY <2>1, <2>2, PathsType, ZenonT(60)
<1>3. SubSeq(p, 1, Len(p)) = p
  BY <1>1, SubSeqFull
<1>4. Steps(p) \subseteq Paths /\ p \in Steps(p) /\ \A s \in Steps(p) : Len(s) <= Len(p)
  <2>1. \A i \in DOMAIN p : SubSeq(p, 1, i) \in Paths /\ Len(SubSeq(p, 1, i)) <= Len(p)
    BY <1>1, <1>2
  <2>2. Len(p) \in DOMAIN p
    BY <1>1
  <2>. QED BY <2>1, <2>2, <1>3, ZenonT(60) DEF Steps
<1>5. ASSUME Len(p) > 1
      PROVE  Front(p) \in Paths /\ p \notin Steps(Front(p)) /\ Steps(p) = Steps(Front(p)) \cup {p}
  <2>1. Front(p) \in Seq(Names) /\ Len(Front(p)) = Len(p) - 1
    <3>1. p # <<>>
      BY <1>1, EmptySeq
    <3>. QED BY <3>1, <1>1, FrontLast
  <2>2. Front(p) \in Paths /\ DOMAIN Front(p) = 1..(Len(p) - 1)
    BY <2>1, <1>1, <1>5, PathsType, LenProperties
  <2>3. ASSUME NEW i \in DOMAIN Front(p)
        PROVE  SubSeq(Front(p), 1, i) = SubSeq(p, 1, i)
    <3>1. i \in 1..Len(p) /\ i \in 1..Len(Front(p))
      BY <2>1, <2>2, <1>1
    <3>2. /\ SubSeq(p, 1, i) \in Seq(Names) /\ Len(SubSeq(p, 1, i)) = i
          /\ \A j \in 1..i : SubSeq(p, 1, i)[j] = p[j]
      BY <3>1, <1>1, SubSeqProperties
    <3>3. /\ SubSeq(Front(p), 1, i) \in Seq(Names) /\ Len(SubSeq(Front(p), 1, i)) = i
          /\ \A j \in 1..i : SubSeq(Front(p), 1, i)[j] = Front(p)[j]
      BY <3>1, <2>1, SubSeqProperties
    <3>4. \A j \in 1..i : Front(p)[j] = p[j]
      BY <3>1, <2>1, <1>1, <1>5, FrontLast, EmptySeq
    <3>. QED BY <3>2, <3>3, <3>4, SeqEqual
  <2>4. Steps(Front(p)) = {SubSeq(p, 1, i) : i \in 1..(Len(p) - 1)}
    BY <2>2, <2>3 DEF Steps
  <2>5. p \notin Steps(Front(p))
    <3>1. \A i \in 1..(Len(p) - 1) : Len(SubSeq(p, 1, i)) = i /\ i # Len(p)
      <4>1. ASSUME NEW i \in 1..(Len(p) - 1) PROVE i \in DOMAIN p /\ i # Len(p)
        <5>1. Len(p) \in Nat
          BY <1>1
        <5>2. i \in 1..Len(p) /\ i # Len(p)
          BY <5>1
        <5>. QED BY <5>2, <1>1
      <4>. QED BY <4>1, <1>2, SMTT(40)
    <3>2. \A i \in 1..(Len(p) - 1) : SubSeq(p, 1, i) # p
      BY <3>1
    <3>. QED BY <3>2, <2>4
  <2>6. 1..Len(p) = 1..(Len(p) - 1) \cup {Len(p)}
    BY <1>1
  <2>7. Steps(p) = {SubSeq(p, 1, i) : i \in 1..(Len(p) - 1)} \cup {SubSeq(p, 1, Len(p))}
    BY <2>6, <1>1 DEF Steps
  <2>. QED BY <2>2, <2>4, <2>5, <2>7, <1>3
<1>. QED BY <1>4, <1>5

(* A name that is piled up is a name.                                      *)
LEMMA PiledType ==
    ASSUME sb \in AnyName, NEW p \in Paths, NEW k \in Nat
    PROVE  Piled(p, k) \in AnyName
<1>1. p \in Seq(Names) /\ Len(p) \in Nat \ {0} /\ DOMAIN p = 1..Len(p)
  BY PathsType, LenProperties
<1>2. ASSUME NEW i \in 1..(k * Len(p))
      PROVE  p[((i - 1) % Len(p)) + 1] \in Names
  <2>1. (i - 1) % Len(p) \in 0..(Len(p) - 1)
    BY <1>1
  <2>2. ((i - 1) % Len(p)) + 1 \in 1..Len(p)
    BY <1>1, <2>1
  <2>. QED BY <1>1, <2>2, ElementOfSeq
<1>3. [i \in 1..(k * Len(p)) |-> p[((i - 1) % Len(p)) + 1]] \in Seq(Names)
  <2>1. k * Len(p) \in Nat
    BY <1>1
  <2>. QED BY <2>1, <1>2, IsASeq
<1>. QED BY <1>3, ConcatProperties DEF Piled, AnyName

-----------------------------------------------------------------------------
(* Frames that are begun and ended.                                        *)

(* The frames, and which is innermost.                                     *)
LEMMA FrameFacts ==
    ASSUME IInv
    PROVE  /\ Len(frames) \in Nat /\ DOMAIN frames = 1..Len(frames)
           /\ \A i \in 1..Len(frames) : frames[i] \in Frames
           /\ frames # <<>> => Len(frames) > 0 /\ Top = frames[Len(frames)]
<1>1. frames \in Seq(Frames)
  BY DEF IInv, Types
<1>2. Len(frames) \in Nat /\ DOMAIN frames = 1..Len(frames)
  BY <1>1, LenProperties
<1>3. frames # <<>> => Len(frames) > 0
  BY <1>1, EmptySeq
<1>. QED BY <1>1, <1>2, <1>3, ElementOfSeq DEF Top, Last

(* Beginning a frame leaves those below it alone.                          *)
LEMMA FrameBegun ==
    ASSUME IInv, NEW f \in Frames, frames' = Append(frames, f)
    PROVE  /\ frames' \in Seq(Frames) /\ frames' # <<>>
           /\ Len(frames') = Len(frames) + 1 /\ DOMAIN frames' = 1..(Len(frames) + 1)
           /\ \A i \in 1..Len(frames) : frames'[i] = frames[i]
           /\ frames'[Len(frames) + 1] = f
<1>1. frames \in Seq(Frames)
  BY DEF IInv, Types
<1>2. /\ frames' \in Seq(Frames) /\ frames' # <<>>
      /\ Len(frames') = Len(frames) + 1
      /\ \A i \in 1..Len(frames) : frames'[i] = frames[i]
      /\ frames'[Len(frames) + 1] = f
  BY <1>1, AppendProperties
<1>3. DOMAIN frames' = 1..(Len(frames) + 1)
  BY <1>2, LenProperties
<1>. QED BY <1>2, <1>3

(* Ending a frame leaves those below it alone.                             *)
LEMMA FrameEnded ==
    ASSUME IInv, frames # <<>>, frames' = Front(frames)
    PROVE  /\ frames' \in Seq(Frames)
           /\ Len(frames') = Len(frames) - 1 /\ DOMAIN frames' = 1..(Len(frames) - 1)
           /\ \A i \in 1..(Len(frames) - 1) : frames'[i] = frames[i]
           /\ frames' = <<>> <=> Len(frames) = 1
<1>1. frames \in Seq(Frames)
  BY DEF IInv, Types
<1>2. /\ frames' \in Seq(Frames)
      /\ Len(frames') = Len(frames) - 1
      /\ \A i \in 1..(Len(frames) - 1) : frames'[i] = frames[i]
  BY <1>1, FrontLast
<1>3. DOMAIN frames' = 1..(Len(frames) - 1)
  BY <1>2, LenProperties
<1>4. Len(frames) \in Nat /\ (frames' = <<>> <=> Len(frames') = 0)
  BY <1>1, <1>2, EmptySeq, LenProperties
<1>. QED BY <1>2, <1>3, <1>4

\* No table goes, and no module becomes a type.
Grow == \A p \in Paths : /\ ~Missing(p) => ~Missing(p)'
                         /\ table[p].kind = "module" => table'[p].kind = "module"

(* What is said of preloaded types stays true when no table goes.          *)
LEMMA AnnouncedKept ==
    ASSUME IInv, Grow, preload' = preload
    PROVE  Announced'
<1>. SUFFICES ASSUME NEW q \in preload
              PROVE  /\ Len(q) > 1 /\ table'[Front(q)].kind = "module"
                     /\ \A s \in Steps(Front(q)) : ~Missing(s)'
  BY DEF Announced
<1>1. q \in Paths /\ Len(q) > 1 /\ table[Front(q)].kind = "module"
      /\ \A s \in Steps(Front(q)) : ~Missing(s)
  BY DEF IInv, Types, Announced
<1>2. Front(q) \in Paths /\ Steps(Front(q)) \subseteq Paths
  BY <1>1, StepsOfPath
<1>. QED BY <1>1, <1>2 DEF Grow

(* Nothing is registered at first.                                         *)
LEMMA InitIInv ==
    ASSUME Init
    PROVE  IInv
<1>1. <<>> \in AnyName /\ <<>> \in Seq(Frames) /\ DOMAIN frames = {}
  BY EmptySeq DEF AnyName, Init
<1>2. Types
  BY <1>1 DEF Init, Types, Tables, None, Missing
<1>3. ModuleFrames /\ TypeFrames /\ PreFrames /\ BufferFollows
  BY <1>1 DEF Init, ModuleFrames, TypeFrames, PreFrames, BufferFollows
<1>4. DOMAIN answers = {} /\ DOMAIN loaded = {}
  BY DEF Init
<1>5. Named
  BY <1>4 DEF Init, Named, Missing, None
<1>6. Announced /\ LoadedByPath /\ RequireAnswersType
  BY <1>4 DEF Init, Announced, LoadedByPath, RequireAnswersType
<1>. QED BY <1>2, <1>3, <1>5, <1>6 DEF IInv

(* BeginGlobal: the global table is opened with an empty buffer.           *)
LEMMA BeginGlobalKeeps ==
    ASSUME IInv, BeginGlobal
    PROVE  IInv'
<1>. DEFINE f == Frame("module", <<>>, <<>>)
<1>1. /\ frames = <<>> /\ frames' = <<f>> /\ sb = <<>>
      /\ UNCHANGED <<table, sb, loaded, preload, answers, orderly>>
  BY DEF BeginGlobal, IInv, BufferFollows
<1>2. f \in Frames /\ f.kind = "module" /\ f.path = <<>>
  BY EmptySeq DEF Frames, Frame, AnyName
<1>3. Len(frames') = 1 /\ DOMAIN frames' = {1} /\ frames'[1] = f /\ frames' # <<>>
  BY <1>1
<1>4. Types'
  <2>1. frames' \in Seq(Frames)
    BY <1>1, <1>2
  <2>. QED BY <1>1, <2>1 DEF IInv, Types, Missing
<1>5. ModuleFrames' /\ TypeFrames' /\ PreFrames'
  BY <1>2, <1>3 DEF ModuleFrames, TypeFrames, PreFrames
<1>6. BufferFollows'
  BY <1>1, <1>2, <1>3 DEF BufferFollows
<1>7. Named'
  <2>1. \A p : Opened(p) => p \in DOMAIN answers
    BY <1>1 DEF Opened
  <2>. QED BY <1>1, <2>1 DEF IInv, Named, Opened, Missing
<1>8. Announced'
  BY <1>1, AnnouncedKept DEF Grow, Missing
<1>. QED BY <1>1, <1>4, <1>5, <1>6, <1>7, <1>8 DEF IInv, LoadedByPath, RequireAnswersType

(* BeginModule: a table with a metatable gives the buffer its own path.    *)
LEMMA BeginModuleKeeps ==
    ASSUME IInv, NEW n \in Names, BeginModule(n)
    PROVE  IInv'
<1>. DEFINE p == Append(Top.path, n)
            f == Frame("module", p, <<>>)
            L == Len(frames)
<1>1. /\ InModule /\ p \in Paths /\ (orderly \/ p \notin DOMAIN answers)
      /\ frames' = Append(frames, f)
      /\ IF table[p].meta
         THEN sb' = table[p].name /\ table' = table
         ELSE sb' = Append(sb, n) /\ table' = [table EXCEPT ![p] = Module(Append(sb, n), TRUE)]
      /\ UNCHANGED <<loaded, preload, answers, orderly>>
  BY DEF BeginModule
<1>2. /\ L \in Nat \ {0} /\ DOMAIN frames = 1..L /\ frames[L].kind = "module"
      /\ frames[L].path = Top.path /\ frames[L] \in Frames
  BY <1>1, FrameFacts DEF InModule
<1>3. sb = Top.path
  BY <1>2, FrameFacts DEF IInv, BufferFollows
<1>4. Top.path \in Seq(Names) /\ Front(p) = Top.path /\ p = Append(sb, n)
  <2>1. Top.path \in Seq(Names)
    BY <1>2, PathsType, EmptySeq DEF Frames
  <2>. QED BY <2>1, <1>3, FrontAppend
<1>5. \A i \in DOMAIN frames : frames[i].kind = "module"
  <2>. SUFFICES ASSUME NEW i \in 1..L PROVE frames[i].kind = "module"
    BY <1>2
  <2>1. frames[i].kind \in {"module", "type", "pre"}
    BY FrameFacts DEF Frames
  <2>2. frames[i].kind # "type"
    BY <1>2 DEF IInv, TypeFrames
  <2>3. frames[i].kind # "pre"
    <3>. SUFFICES ASSUME frames[i].kind = "pre" PROVE FALSE
      OBVIOUS
    <3>1. i = 1 /\ \A j \in DOMAIN frames : j > 1 => frames[j].kind = "type"
      BY <1>2 DEF IInv, PreFrames
    <3>2. L # 1
      BY <3>1, <1>2
    <3>. QED BY <3>1, <3>2, <1>2
  <2>. QED BY <2>1, <2>2, <2>3
<1>6. table[p] \in Tables
  BY <1>1 DEF IInv, Types
<1>7. ASSUME table[p].meta PROVE table[p].name = p
  <2>1. ~Missing(p)
    BY <1>7 DEF Missing, None
  <2>2. table[p].kind \in {"type", "module"}
    BY <1>1, <1>6, <2>1 DEF IInv, Types, Tables
  <2>3. ~orderly => ~Opened(p)
    BY <1>1, <1>5 DEF Opened
  <2>. QED BY <1>1, <1>7, <2>1, <2>2, <2>3 DEF IInv, Named
<1>8. /\ sb' = p
      /\ \/ table' = table
         \/ ~table[p].meta /\ table' = [table EXCEPT ![p] = Module(p, TRUE)]
  BY <1>1, <1>4, <1>7
<1>9. f \in Frames /\ f.kind = "module" /\ f.path = p
  BY <1>1, EmptySeq DEF Frames, Frame, AnyName
<1>10. /\ frames' \in Seq(Frames) /\ frames' # <<>>
       /\ Len(frames') = L + 1 /\ DOMAIN frames' = 1..(L + 1)
       /\ \A i \in 1..L : frames'[i] = frames[i]
       /\ frames'[L + 1] = f
  BY <1>1, <1>9, FrameBegun
<1>. HIDE DEF p, f, L
<1>11. \A i \in DOMAIN frames' : frames'[i].kind = "module"
  <2>. SUFFICES ASSUME NEW i \in 1..(L + 1) PROVE frames'[i].kind = "module"
    BY <1>10
  <2>1. CASE i = L + 1
    BY <2>1, <1>9, <1>10
  <2>2. CASE i \in 1..L
    BY <2>2, <1>2, <1>5, <1>10
  <2>. QED BY <2>1, <2>2, <1>2
<1>12. Grow /\ table' \in [Paths -> Tables]
  <2>1. CASE table' = table
    BY <2>1 DEF Grow, Missing, IInv, Types
  <2>2. CASE ~table[p].meta /\ table' = [table EXCEPT ![p] = Module(p, TRUE)]
    <3>1. Module(p, TRUE) \in Tables /\ Module(p, TRUE).kind = "module" /\ Module(p, TRUE) # None
      BY <1>1, PathsType DEF Tables, Module, AnyName, None
    <3>2. table \in [Paths -> Tables]
      BY DEF IInv, Types
    <3>. QED BY <2>2, <3>1, <3>2, <1>1 DEF Grow, Missing
  <2>. QED BY <1>8, <2>1, <2>2
<1>13. Types'
  <2>1. p \in AnyName /\ p # <<>>
    BY <1>1, PathsType, EmptySeq DEF AnyName
  <2>2. ASSUME NEW r \in Paths
        PROVE  /\ table'[r].kind = "none" => Missing(r)'
               /\ table'[r].kind = "type" => table'[r].meta
               /\ table'[r].meta => table'[r].name # <<>>
    <3>1. CASE table'[r] = table[r]
      BY <3>1 DEF IInv, Types, Missing
    <3>2. CASE r = p /\ table'[r] = Module(p, TRUE)
      BY <3>2, <2>1 DEF Module
    <3>. QED BY <3>1, <3>2, <1>1, <1>8 DEF IInv, Types
  <2>. QED BY <1>1, <1>8, <1>10, <1>12, <2>1, <2>2 DEF IInv, Types
<1>14. ModuleFrames'
  <2>. SUFFICES ASSUME NEW i \in 1..(L + 1)
                PROVE  IF i = 1 THEN frames'[i].path = <<>>
                       ELSE /\ frames'[i].path \in Paths
                            /\ frames'[i - 1].kind = "module"
                            /\ frames'[i - 1].path = Front(frames'[i].path)
    BY <1>10 DEF ModuleFrames
  <2>1. CASE i = L + 1
    <3>1. i # 1 /\ i - 1 = L /\ frames'[L] = frames[L]
      BY <2>1, <1>2, <1>10
    <3>. QED BY <2>1, <3>1, <1>1, <1>2, <1>4, <1>9, <1>10
  <2>2. CASE i \in 1..L
    <3>1. i # 1 => i - 1 \in 1..L
      BY <2>2, <1>2
    <3>. QED BY <2>2, <3>1, <1>2, <1>5, <1>10 DEF IInv, ModuleFrames
  <2>. QED BY <2>1, <2>2, <1>2
<1>15. TypeFrames' /\ PreFrames'
  BY <1>11 DEF TypeFrames, PreFrames
<1>16. BufferFollows'
  <2>. SUFFICES ASSUME NEW i \in 1..(L + 1),
                       i = L + 1 \/ (i + 1 = L + 1 /\ frames'[i + 1].kind = "type")
                PROVE  sb' = frames'[i].path
    BY <1>10 DEF BufferFollows
  <2>1. i = L + 1
    BY <1>9, <1>10
  <2>. QED BY <2>1, <1>8, <1>9, <1>10
<1>17. Named'
  <2>1. ASSUME NEW r \in Paths, ~Opened(r)' PROVE ~Opened(r)
    BY <2>1, <1>1, <1>5 DEF Opened
  <2>2. ASSUME NEW r \in Paths
        PROVE  /\ orderly' => (~Missing(r)' => table'[r].name = r)
               /\ table'[r].kind = "module" /\ table'[r].meta => table'[r].name = r
               /\ table'[r].kind = "type" => table'[r].name = r \/ Opened(r)'
               /\ table[r].kind = "type" => table'[r].kind = "type"
    <3>1. CASE table'[r] = table[r]
      BY <3>1, <2>1, <1>1 DEF IInv, Named, Missing
    <3>2. CASE r = p /\ ~table[r].meta /\ table'[r] = Module(p, TRUE)
      BY <3>2 DEF Module, IInv, Types
    <3>. QED BY <3>1, <3>2, <1>1, <1>8 DEF IInv, Types
  <2>. QED BY <2>2, <1>1 DEF IInv, Named
<1>18. Announced'
  BY <1>1, <1>12, AnnouncedKept
<1>. QED BY <1>1, <1>13, <1>14, <1>15, <1>16, <1>17, <1>18 DEF IInv, LoadedByPath, RequireAnswersType

(* EndModule: cutting the buffer at its dot gives the module around.       *)
LEMMA EndModuleKeeps ==
    ASSUME IInv, EndModule
    PROVE  IInv'
<1>. DEFINE L == Len(frames)
<1>1. /\ InModule /\ frames # <<>> /\ frames' = Front(frames)
      /\ sb' = IF sb = <<>> THEN <<>> ELSE Front(sb)
      /\ UNCHANGED <<table, loaded, preload, answers, orderly>>
  BY DEF EndModule, InModule
<1>2. /\ L \in Nat \ {0} /\ DOMAIN frames = 1..L /\ frames[L].kind = "module"
      /\ frames[L].path = Top.path /\ frames[L] \in Frames
  BY <1>1, FrameFacts DEF InModule
<1>3. sb = frames[L].path
  BY <1>2, FrameFacts DEF IInv, BufferFollows
<1>4. /\ frames' \in Seq(Frames)
      /\ Len(frames') = L - 1 /\ DOMAIN frames' = 1..(L - 1)
      /\ \A i \in 1..(L - 1) : frames'[i] = frames[i]
      /\ frames' = <<>> <=> L = 1
  BY <1>1, FrameEnded
<1>. HIDE DEF L
<1>5. L # 1 => /\ sb' = frames[L - 1].path /\ frames[L - 1].kind = "module" /\ L - 1 \in 1..(L - 1)
  <2>1. L # 1 => /\ frames[L].path \in Paths /\ frames[L - 1].kind = "module"
                 /\ frames[L - 1].path = Front(frames[L].path)
    BY <1>2 DEF IInv, ModuleFrames
  <2>. QED BY <2>1, <1>1, <1>2, <1>3 DEF Paths
<1>6. L = 1 => sb' = <<>>
  BY <1>1, <1>2, <1>3 DEF IInv, ModuleFrames
<1>7. ASSUME NEW i \in 1..(L - 1) PROVE frames[i].kind \in {"module", "pre"} /\ frames[i].kind # "pre"
  <2>1. frames[i] \in Frames /\ i \in DOMAIN frames /\ i # L
    BY <1>2, FrameFacts
  <2>2. frames[i].kind # "type"
    BY <2>1 DEF IInv, TypeFrames, L
  <2>3. frames[i].kind # "pre"
    BY <2>1, <1>2 DEF IInv, PreFrames
  <2>. QED BY <2>1, <2>2, <2>3 DEF Frames
<1>8. Types'
  <2>1. sb' \in AnyName
    <3>1. CASE L = 1
      BY <3>1, <1>6, EmptySeq DEF AnyName
    <3>2. CASE L # 1
      <4>1. L - 1 \in 1..L
        BY <3>2, <1>2
      <4>2. frames[L - 1] \in Frames
        BY <4>1, FrameFacts DEF L
      <4>. QED BY <4>2, <3>2, <1>5, EmptySeq, PathsType DEF Frames, AnyName
    <3>. QED BY <3>1, <3>2
  <2>. QED BY <2>1, <1>1, <1>4 DEF IInv, Types, Missing
<1>9. ModuleFrames'
  <2>. SUFFICES ASSUME NEW i \in 1..(L - 1)
                PROVE  IF i = 1 THEN frames'[i].path = <<>>
                       ELSE /\ frames'[i].path \in Paths
                            /\ frames'[i - 1].kind = "module"
                            /\ frames'[i - 1].path = Front(frames'[i].path)
    BY <1>4 DEF ModuleFrames
  <2>1. i \in 1..L /\ (i # 1 => i - 1 \in 1..(L - 1))
    BY <1>2
  <2>2. frames[i].kind = "module"
    BY <1>7
  <2>. QED BY <2>1, <2>2, <1>2, <1>4 DEF IInv, ModuleFrames
<1>10. TypeFrames' /\ PreFrames'
  <2>1. \A i \in DOMAIN frames' : frames'[i].kind = "module"
    BY <1>4, <1>7
  <2>. QED BY <2>1 DEF TypeFrames, PreFrames
<1>11. BufferFollows'
  <2>1. frames' = <<>> => sb' = <<>>
    BY <1>4, <1>6
  <2>2. ASSUME NEW i \in 1..(L - 1),
               i = L - 1 \/ (i + 1 = L - 1 /\ frames'[i + 1].kind = "type")
        PROVE  sb' = frames'[i].path
    <3>1. i = L - 1
      <4>1. ~(i + 1 = L - 1 /\ frames'[i + 1].kind = "type")
        <5>. SUFFICES ASSUME i + 1 = L - 1 PROVE frames'[i + 1].kind # "type"
          OBVIOUS
        <5>1. i + 1 \in 1..(L - 1)
          BY <1>2
        <5>. QED BY <5>1, <1>4, <1>7
      <4>. QED BY <4>1, <2>2
    <3>2. L # 1
      BY <1>2
    <3>. QED BY <3>1, <3>2, <1>4, <1>5
  <2>. QED BY <2>1, <2>2, <1>4 DEF BufferFollows
<1>12. Named'
  <2>1. ASSUME NEW r, Opened(r) PROVE r \in DOMAIN answers
    <3>1. \A i \in DOMAIN frames : frames[i].kind # "pre"
      <4>. SUFFICES ASSUME NEW i \in 1..L PROVE frames[i].kind # "pre"
        BY <1>2
      <4>1. i = L \/ i \in 1..(L - 1)
        BY <1>2
      <4>. QED BY <4>1, <1>2, <1>7
    <3>. QED BY <2>1, <3>1 DEF Opened
  <2>. QED BY <2>1, <1>1 DEF IInv, Named, Opened, Missing
<1>13. Announced'
  BY <1>1, AnnouncedKept DEF Grow, Missing
<1>. QED BY <1>1, <1>8, <1>9, <1>10, <1>11, <1>12, <1>13 DEF IInv, LoadedByPath, RequireAnswersType

(* BeginType: the name of a type is made of the buffer.                    *)
LEMMA BeginTypeKeeps ==
    ASSUME IInv, NEW n \in Names, BeginType(n)
    PROVE  IInv'
<1>. DEFINE p == Append(Top.path, n)
            name == Append(sb, n)
            f == Frame("type", p, name)
            L == Len(frames)
<1>1. /\ frames # <<>> /\ Top.kind \in {"module", "pre"} /\ p \in Paths /\ Missing(p)
      /\ Top.kind = "pre" => p = Top.name
      /\ loaded' = Bind(loaded, name, p)
      /\ frames' = Append(frames, f)
      /\ UNCHANGED <<table, sb, preload, answers, orderly>>
  BY DEF BeginType, InNamespace
<1>2. /\ L \in Nat \ {0} /\ DOMAIN frames = 1..L /\ frames[L] = Top /\ frames[L] \in Frames
  BY <1>1, FrameFacts
<1>3. orderly \/ Top.kind = "module" => sb = Top.path
  BY <1>1, <1>2, FrameFacts DEF IInv, BufferFollows
<1>4. orderly \/ Top.kind = "module" => name = p
  BY <1>3
<1>5. name \in AnyName /\ name # <<>>
  BY FrontAppend DEF IInv, Types, AnyName
<1>6. f \in Frames /\ f.kind = "type" /\ f.path = p /\ f.name = name
  BY <1>1, <1>5 DEF Frames, Frame
<1>7. /\ frames' \in Seq(Frames) /\ frames' # <<>>
      /\ Len(frames') = L + 1 /\ DOMAIN frames' = 1..(L + 1)
      /\ \A i \in 1..L : frames'[i] = frames[i]
      /\ frames'[L + 1] = f
  BY <1>1, <1>6, FrameBegun
<1>8. \A i \in 1..L : frames[i].kind # "type"
  BY <1>1, <1>2 DEF IInv, TypeFrames
<1>. HIDE DEF p, name, f, L
<1>9. Types'
  BY <1>1, <1>7 DEF IInv, Types, Missing
<1>10. ModuleFrames'
  <2>. SUFFICES ASSUME NEW i \in 1..(L + 1), frames'[i].kind = "module"
                PROVE  IF i = 1 THEN frames'[i].path = <<>>
                       ELSE /\ frames'[i].path \in Paths
                            /\ frames'[i - 1].kind = "module"
                            /\ frames'[i - 1].path = Front(frames'[i].path)
    BY <1>7 DEF ModuleFrames
  <2>1. i \in 1..L /\ (i # 1 => i - 1 \in 1..L)
    BY <1>2, <1>6, <1>7
  <2>. QED BY <2>1, <1>2, <1>7 DEF IInv, ModuleFrames
<1>11. TypeFrames'
  <2>. SUFFICES ASSUME NEW i \in 1..(L + 1), frames'[i].kind = "type"
                PROVE  /\ i = L + 1 /\ i > 1
                       /\ frames'[i].path \in Paths /\ table'[frames'[i].path] = None
                       /\ frames'[i].name # <<>>
                       /\ frames'[i - 1].kind = "pre" => frames'[i].path = frames'[i - 1].name
                       /\ orderly' \/ frames'[i - 1].kind = "module" => frames'[i].name = frames'[i].path
    BY <1>7 DEF TypeFrames, Missing
  <2>1. i = L + 1
    <3>1. i \in 1..L => frames'[i].kind # "type"
      BY <1>7, <1>8
    <3>. QED BY <3>1, <1>2
  <2>2. i > 1 /\ i - 1 = L /\ frames'[L] = Top
    BY <2>1, <1>2, <1>7
  <2>3. table'[p] = None
    BY <1>1 DEF Missing
  <2>. QED BY <2>1, <2>2, <2>3, <1>1, <1>4, <1>5, <1>6, <1>7
<1>12. PreFrames'
  <2>. SUFFICES ASSUME NEW i \in 1..(L + 1), frames'[i].kind = "pre"
                PROVE  /\ i = 1 /\ \A j \in 1..(L + 1) : j > 1 => frames'[j].kind = "type"
                       /\ frames'[i].path \in Paths /\ frames'[i].name \in Paths
                       /\ Len(frames'[i].name) > 1 /\ frames'[i].path = Front(frames'[i].name)
                       /\ table'[frames'[i].name].kind # "module"
                       /\ \A s \in Steps(frames'[i].path) : ~Missing(s)'
    BY <1>7 DEF PreFrames
  <2>1. i \in 1..L /\ frames[i].kind = "pre" /\ frames'[i] = frames[i]
    BY <1>2, <1>6, <1>7
  <2>2. /\ i = 1 /\ \A j \in 1..L : j > 1 => frames[j].kind = "type"
        /\ frames[i].path \in Paths /\ frames[i].name \in Paths
        /\ Len(frames[i].name) > 1 /\ frames[i].path = Front(frames[i].name)
        /\ table[frames[i].name].kind # "module"
        /\ \A s \in Steps(frames[i].path) : ~Missing(s)
    BY <2>1, <1>2 DEF IInv, PreFrames
  <2>3. ASSUME NEW j \in 1..(L + 1), j > 1 PROVE frames'[j].kind = "type"
    <3>1. CASE j \in 1..L
      BY <3>1, <2>2, <2>3, <1>7
    <3>2. CASE j = L + 1
      BY <3>2, <1>6, <1>7
    <3>. QED BY <3>1, <3>2, <1>2
  <2>. QED BY <2>1, <2>2, <2>3, <1>1 DEF Missing
<1>13. BufferFollows'
  <2>. SUFFICES ASSUME NEW i \in 1..(L + 1),
                       \/ i = L + 1 /\ frames'[i].kind # "type"
                       \/ i + 1 = L + 1 /\ frames'[i + 1].kind = "type",
                       orderly' \/ frames'[i].kind = "module"
                PROVE  sb' = frames'[i].path
    BY <1>7 DEF BufferFollows
  <2>1. i = L
    BY <1>2, <1>6, <1>7
  <2>. QED BY <2>1, <1>1, <1>2, <1>3, <1>7
<1>14. Named'
  <2>1. ASSUME NEW r, Opened(r) PROVE Opened(r)'
    <3>1. CASE r \in DOMAIN answers
      BY <3>1, <1>1 DEF Opened
    <3>2. CASE \E i \in DOMAIN frames : frames[i].kind = "pre" /\ frames[i].name = r
      <4>1. PICK i \in 1..L : frames[i].kind = "pre" /\ frames[i].name = r
        BY <3>2, <1>2
      <4>2. i \in DOMAIN frames' /\ frames'[i] = frames[i]
        BY <1>2, <1>7
      <4>. QED BY <4>1, <4>2 DEF Opened
    <3>. QED BY <2>1, <3>1, <3>2 DEF Opened
  <2>. QED BY <2>1, <1>1 DEF IInv, Named, Missing
<1>15. LoadedByPath'
  <2>. SUFFICES ASSUME orderly', NEW k \in DOMAIN loaded' PROVE loaded'[k] = k
    BY DEF LoadedByPath
  <2>1. k = name \/ k \in DOMAIN loaded
    BY <1>1 DEF Bind
  <2>2. loaded'[k] = IF k = name THEN p ELSE loaded[k]
    BY <1>1, <2>1 DEF Bind
  <2>. QED BY <2>1, <2>2, <1>1, <1>4 DEF IInv, LoadedByPath
<1>16. Announced'
  BY <1>1, AnnouncedKept DEF Grow, Missing
<1>. QED BY <1>1, <1>9, <1>10, <1>11, <1>12, <1>13, <1>14, <1>15, <1>16 DEF IInv, RequireAnswersType

(* EndType: the table of a type is put where its frame says.               *)
LEMMA EndTypeKeeps ==
    ASSUME IInv, EndType
    PROVE  IInv'
<1>. DEFINE L == Len(frames)
            p == frames[Len(frames)].path
            name == frames[Len(frames)].name
<1>1. /\ frames # <<>> /\ Top.kind = "type" /\ frames' = Front(frames)
      /\ table' = [table EXCEPT ![p] = Type(name)]
      /\ UNCHANGED <<sb, loaded, preload, answers, orderly>>
  BY FrameFacts DEF EndType
<1>2. /\ L \in Nat \ {0} /\ DOMAIN frames = 1..L /\ frames[L].kind = "type" /\ frames[L] \in Frames
  BY <1>1, FrameFacts
<1>3. /\ L > 1 /\ p \in Paths /\ Missing(p) /\ name # <<>>
      /\ frames[L - 1].kind = "pre" => p = frames[L - 1].name
      /\ orderly \/ frames[L - 1].kind = "module" => name = p
  BY <1>2 DEF IInv, TypeFrames
<1>4. /\ frames' \in Seq(Frames)
      /\ Len(frames') = L - 1 /\ DOMAIN frames' = 1..(L - 1)
      /\ \A i \in 1..(L - 1) : frames'[i] = frames[i]
      /\ frames' # <<>>
  BY <1>1, <1>3, FrameEnded
<1>5. name \in AnyName
  BY <1>2 DEF Frames
<1>. HIDE DEF L, p, name
<1>6. ASSUME NEW i \in 1..(L - 1) PROVE frames[i].kind \in {"module", "pre"} /\ i \in 1..L
  <2>1. i \in 1..L /\ i # L
    BY <1>2, SMTT(40)
  <2>2. frames[i] \in Frames
    BY <2>1, FrameFacts, ZenonT(60) DEF L
  <2>3. frames[i].kind # "type"
    BY <2>1, <1>2 DEF IInv, TypeFrames, L
  <2>. QED BY <2>1, <2>2, <2>3 DEF Frames
<1>7. Type(name) \in Tables /\ Type(name) # None /\ Type(name).kind = "type" /\ Type(name).meta /\ Type(name).name = name
  BY <1>5 DEF Tables, Type, None
<1>8. table \in [Paths -> Tables] /\ table' \in [Paths -> Tables]
  BY <1>1, <1>7 DEF IInv, Types
<1>9. \A r \in Paths : table'[r] = IF r = p THEN Type(name) ELSE table[r]
  BY <1>1, <1>8
<1>10. Grow
  BY <1>3, <1>7, <1>9 DEF Grow, Missing, None
<1>11. Types'
  <2>1. ASSUME NEW r \in Paths
        PROVE  /\ table'[r].kind = "none" => Missing(r)'
               /\ table'[r].kind = "type" => table'[r].meta
               /\ table'[r].meta => table'[r].name # <<>>
    <3>1. CASE r = p
      BY <3>1, <1>3, <1>7, <1>9
    <3>2. CASE r # p
      BY <3>2, <1>9 DEF IInv, Types, Missing
    <3>. QED BY <3>1, <3>2
  <2>. QED BY <2>1, <1>1, <1>4, <1>8 DEF IInv, Types
<1>12. ModuleFrames'
  <2>. SUFFICES ASSUME NEW i \in 1..(L - 1), frames'[i].kind = "module"
                PROVE  IF i = 1 THEN frames'[i].path = <<>>
                       ELSE /\ frames'[i].path \in Paths
                            /\ frames'[i - 1].kind = "module"
                            /\ frames'[i - 1].path = Front(frames'[i].path)
    BY <1>4 DEF ModuleFrames
  <2>1. i \in 1..L /\ (i # 1 => i - 1 \in 1..(L - 1))
    BY <1>2
  <2>. QED BY <2>1, <1>2, <1>4 DEF IInv, ModuleFrames
<1>13. TypeFrames'
  BY <1>4, <1>6 DEF TypeFrames
<1>14. PreFrames'
  <2>. SUFFICES ASSUME NEW i \in 1..(L - 1), frames'[i].kind = "pre"
                PROVE  /\ i = 1 /\ \A j \in 1..(L - 1) : j > 1 => frames'[j].kind = "type"
                       /\ frames'[i].path \in Paths /\ frames'[i].name \in Paths
                       /\ Len(frames'[i].name) > 1 /\ frames'[i].path = Front(frames'[i].name)
                       /\ table'[frames'[i].name].kind # "module"
                       /\ \A s \in Steps(frames'[i].path) : ~Missing(s)'
    BY <1>4 DEF PreFrames
  <2>1. i \in 1..L /\ frames[i].kind = "pre" /\ frames'[i] = frames[i]
    BY <1>4, <1>6
  <2>2. /\ i = 1 /\ \A j \in 1..L : j > 1 => frames[j].kind = "type"
        /\ frames[i].path \in Paths /\ frames[i].name \in Paths
        /\ Len(frames[i].name) > 1 /\ frames[i].path = Front(frames[i].name)
        /\ table[frames[i].name].kind # "module"
        /\ \A s \in Steps(frames[i].path) : ~Missing(s)
    BY <2>1, <1>2 DEF IInv, PreFrames
  <2>3. \A j \in 1..(L - 1) : j > 1 => frames'[j].kind = "type"
    BY <2>2, <1>4, <1>6
  <2>4. table'[frames[i].name].kind # "module"
    BY <2>2, <1>7, <1>9
  <2>5. Steps(frames[i].path) \subseteq Paths
    BY <2>2, StepsOfPath
  <2>. QED BY <2>1, <2>2, <2>3, <2>4, <2>5, <1>10 DEF Grow
<1>15. BufferFollows'
  <2>. SUFFICES ASSUME NEW i \in 1..(L - 1),
                       \/ i = L - 1 /\ frames'[i].kind # "type"
                       \/ i + 1 = L - 1 /\ frames'[i + 1].kind = "type",
                       orderly' \/ frames'[i].kind = "module"
                PROVE  sb' = frames'[i].path
    BY <1>4 DEF BufferFollows
  <2>1. i = L - 1
    <3>. SUFFICES ASSUME i + 1 = L - 1 PROVE frames'[i + 1].kind # "type"
      OBVIOUS
    <3>1. i + 1 \in 1..(L - 1)
      BY <1>2
    <3>. QED BY <3>1, <1>4, <1>6
  <2>2. i \in 1..L /\ i + 1 = L
    BY <2>1, <1>2
  <2>3. sb = frames[i].path
    BY <2>2, <1>1, <1>2, <1>4 DEF IInv, BufferFollows, L
  <2>. QED BY <2>3, <1>1, <1>4
<1>16. Named'
  <2>1. ASSUME NEW r, Opened(r) PROVE Opened(r)'
    <3>1. CASE r \in DOMAIN answers
      BY <3>1, <1>1 DEF Opened
    <3>2. CASE \E i \in DOMAIN frames : frames[i].kind = "pre" /\ frames[i].name = r
      <4>1. PICK i \in 1..L : frames[i].kind = "pre" /\ frames[i].name = r
        BY <3>2, <1>2
      <4>2. i # L
        BY <4>1, <1>2
      <4>3. i \in DOMAIN frames' /\ frames'[i] = frames[i]
        BY <4>2, <1>2, <1>4
      <4>. QED BY <4>1, <4>3 DEF Opened
    <3>. QED BY <2>1, <3>1, <3>2 DEF Opened
  <2>2. ASSUME NEW r, r = p PROVE name = p \/ Opened(r)'
    <3>1. L - 1 \in 1..(L - 1)
      BY <1>2, <1>3
    <3>2. CASE frames[L - 1].kind = "pre"
      <4>1. L - 1 \in DOMAIN frames' /\ frames'[L - 1].kind = "pre" /\ frames'[L - 1].name = r
        BY <2>2, <3>1, <3>2, <1>3, <1>4
      <4>. QED BY <4>1 DEF Opened
    <3>. QED BY <3>1, <3>2, <1>3, <1>6
  <2>3. ASSUME NEW r \in Paths
        PROVE  /\ orderly' => (~Missing(r)' => table'[r].name = r)
               /\ table'[r].kind = "module" /\ table'[r].meta => table'[r].name = r
               /\ table'[r].kind = "type" => table'[r].name = r \/ Opened(r)'
               /\ table[r].kind = "type" => table'[r].kind = "type"
    <3>1. CASE r = p
      BY <3>1, <2>2, <1>1, <1>3, <1>7, <1>9
    <3>2. CASE r # p
      BY <3>2, <2>1, <1>1, <1>9 DEF IInv, Named, Missing
    <3>. QED BY <3>1, <3>2
  <2>. QED BY <2>3, <1>1 DEF IInv, Named
<1>17. Announced'
  BY <1>1, <1>10, AnnouncedKept
<1>. QED BY <1>1, <1>11, <1>12, <1>13, <1>14, <1>15, <1>16, <1>17 DEF IInv, LoadedByPath, RequireAnswersType

(* AddPreload: only the namespace itself may be missing if orderly.        *)
LEMMA AddPreloadKeeps ==
    ASSUME IInv, NEW q \in Paths, AddPreload(q)
    PROVE  IInv'
<1>. DEFINE p == Front(q)
<1>1. /\ frames = <<>> /\ Len(q) > 1 /\ NoType(p)
      /\ orderly' = (orderly /\ \A s \in Steps(p) : s = p \/ ~Missing(s))
      /\ preload' = preload \cup {q}
      /\ table' = [s \in Paths |-> IF s \in Steps(p) /\ Missing(s) THEN Module(p, FALSE) ELSE table[s]]
      /\ UNCHANGED <<sb, frames, loaded, answers>>
  BY DEF AddPreload
<1>2. p \in Paths /\ Steps(p) \subseteq Paths /\ p \in Steps(p)
  <2>1. p \in Paths
    BY <1>1, StepsOfPath
  <2>. QED BY <2>1, StepsOfPath
<1>3. /\ Module(p, FALSE) \in Tables /\ Module(p, FALSE) # None
      /\ Module(p, FALSE).kind = "module" /\ ~Module(p, FALSE).meta /\ Module(p, FALSE).name = p
  BY <1>2, PathsType DEF Tables, Module, None, AnyName
<1>. HIDE DEF p
<1>4. ASSUME NEW r \in Paths
      PROVE  \/ table'[r] = table[r] /\ ~(r \in Steps(p) /\ Missing(r))
             \/ table'[r] = Module(p, FALSE) /\ r \in Steps(p) /\ Missing(r)
  BY <1>1
<1>5. Grow /\ table' \in [Paths -> Tables] /\ \A r \in Paths : table[r] \in Tables
  <2>1. table \in [Paths -> Tables]
    BY DEF IInv, Types
  <2>2. table' \in [Paths -> Tables]
    BY <2>1, <1>1, <1>3
  <2>3. Grow
    BY <1>3, <1>4 DEF Grow, Missing
  <2>. QED BY <2>1, <2>2, <2>3
<1>6. Types'
  <2>1. ASSUME NEW r \in Paths
        PROVE  /\ table'[r].kind = "none" => Missing(r)'
               /\ table'[r].kind = "type" => table'[r].meta
               /\ table'[r].meta => table'[r].name # <<>>
    BY <1>3, <1>4 DEF IInv, Types, Missing
  <2>. QED BY <2>1, <1>1, <1>5 DEF IInv, Types
<1>7. ModuleFrames' /\ TypeFrames' /\ PreFrames' /\ BufferFollows'
  <2>1. DOMAIN frames = {}
    BY <1>1
  <2>. QED BY <2>1, <1>1 DEF IInv, ModuleFrames, TypeFrames, PreFrames, BufferFollows
<1>8. Named'
  <2>1. \A r : Opened(r) => Opened(r)'
    BY <1>1 DEF Opened
  <2>2. ASSUME NEW r \in Paths
        PROVE  /\ orderly' => (~Missing(r)' => table'[r].name = r)
               /\ table'[r].kind = "module" /\ table'[r].meta => table'[r].name = r
               /\ table'[r].kind = "type" => table'[r].name = r \/ Opened(r)'
               /\ table[r].kind = "type" => table'[r].kind = "type"
    <3>1. CASE table'[r] = table[r]
      BY <3>1, <2>1, <1>1 DEF IInv, Named, Missing
    <3>2. CASE table'[r] = Module(p, FALSE) /\ r \in Steps(p) /\ Missing(r)
      <4>1. orderly' => r = p
        BY <3>2, <1>1
      <4>2. table[r].kind # "type"
        BY <3>2 DEF Missing, None
      <4>. QED BY <3>2, <4>1, <4>2, <1>3
    <3>. QED BY <3>1, <3>2, <1>4
  <2>. QED BY <2>2, <1>1 DEF IInv, Named
<1>9. Announced'
  <2>. SUFFICES ASSUME NEW x \in preload'
                PROVE  /\ Len(x) > 1 /\ table'[Front(x)].kind = "module"
                       /\ \A s \in Steps(Front(x)) : ~Missing(s)'
    BY DEF Announced
  <2>1. CASE x = q
    <3>1. table[p].kind # "type"
      BY <1>1, <1>2 DEF NoType
    <3>2. table'[p].kind = "module"
      BY <3>1, <1>2, <1>3, <1>4, <1>5 DEF IInv, Types, Tables
    <3>3. \A s \in Steps(p) : ~Missing(s)'
      BY <1>2, <1>3, <1>4 DEF Missing
    <3>. QED BY <2>1, <3>2, <3>3, <1>1 DEF p
  <2>2. CASE x \in preload
    <3>1. /\ x \in Paths /\ Len(x) > 1 /\ table[Front(x)].kind = "module"
          /\ \A s \in Steps(Front(x)) : ~Missing(s)
      BY <2>2 DEF IInv, Types, Announced
    <3>2. Front(x) \in Paths /\ Steps(Front(x)) \subseteq Paths
      BY <3>1, StepsOfPath
    <3>. QED BY <3>1, <3>2, <1>5 DEF Grow
  <2>. QED BY <2>1, <2>2, <1>1
<1>. QED BY <1>1, <1>6, <1>7, <1>8, <1>9 DEF IInv, LoadedByPath, RequireAnswersType

(* BeginPreModule: no table on the way is missing if orderly.              *)
LEMMA BeginPreModuleKeeps ==
    ASSUME IInv, NEW q \in Paths, BeginPreModule(q)
    PROVE  IInv'
<1>. DEFINE p == Front(q)
            f == Frame("pre", p, q)
            M(s) == Module(Piled(p, Cardinality({r \in Steps(s) : Missing(r)})), FALSE)
<1>1. /\ frames = <<>> /\ Len(q) > 1 /\ NoType(p) /\ Missing(q)
      /\ orderly' = (orderly /\ q \in preload)
      /\ table' = [s \in Paths |-> IF s \in Steps(p) /\ Missing(s) THEN M(s) ELSE table[s]]
      /\ sb' = table'[p].name
      /\ frames' = <<f>>
      /\ UNCHANGED <<loaded, preload, answers>>
  BY DEF BeginPreModule
<1>2. p \in Paths /\ Steps(p) \subseteq Paths /\ p \in Steps(p) /\ q \notin Steps(p)
  <2>1. p \in Paths /\ q \notin Steps(p)
    BY <1>1, StepsOfPath
  <2>. QED BY <2>1, StepsOfPath
<1>3. ASSUME NEW s \in Paths
      PROVE  M(s) \in Tables /\ M(s) # None /\ M(s).kind = "module" /\ ~M(s).meta
  <2>1. IsFiniteSet({r \in Steps(s) : Missing(r)})
    <3>1. s \in Seq(Names) /\ Len(s) \in Nat /\ DOMAIN s = 1..Len(s)
      BY PathsType, LenProperties
    <3>2. IsFiniteSet(DOMAIN s)
      BY <3>1, FS_Interval
    <3>3. IsFiniteSet(Steps(s))
      <4>. DEFINE g == [i \in DOMAIN s |-> SubSeq(s, 1, i)]
      <4>1. g \in Surjection(DOMAIN s, Steps(s))
        BY DEF Surjection, Steps
      <4>. QED BY <3>2, <4>1, FS_Surjection
    <3>. QED BY <3>3, FS_Subset
  <2>2. Piled(p, Cardinality({r \in Steps(s) : Missing(r)})) \in AnyName
    <3>1. Cardinality({r \in Steps(s) : Missing(r)}) \in Nat
      BY <2>1, FS_CardinalityType
    <3>. QED BY <3>1, <1>2, PiledType DEF IInv, Types
  <2>. QED BY <2>2 DEF Tables, Module, None
<1>4. f \in Frames /\ f.kind = "pre" /\ f.path = p /\ f.name = q
  BY <1>2, PathsType DEF Frames, Frame, AnyName
<1>. HIDE DEF p, f, M
<1>5. ASSUME NEW r \in Paths
      PROVE  \/ table'[r] = table[r] /\ ~(r \in Steps(p) /\ Missing(r))
             \/ table'[r] = M(r) /\ r \in Steps(p) /\ Missing(r)
  BY <1>1
<1>6. Grow /\ table' \in [Paths -> Tables] /\ \A r \in Paths : table[r] \in Tables
  <2>1. table \in [Paths -> Tables]
    BY DEF IInv, Types
  <2>2. table' \in [Paths -> Tables]
    BY <2>1, <1>1, <1>3
  <2>3. Grow
    BY <1>3, <1>5 DEF Grow, Missing
  <2>. QED BY <2>1, <2>2, <2>3
<1>7. Len(frames') = 1 /\ DOMAIN frames' = {1} /\ frames'[1] = f /\ frames' # <<>>
  BY <1>1
<1>8. Types'
  <2>1. ASSUME NEW r \in Paths
        PROVE  /\ table'[r].kind = "none" => Missing(r)'
               /\ table'[r].kind = "type" => table'[r].meta
               /\ table'[r].meta => table'[r].name # <<>>
    BY <1>3, <1>5 DEF IInv, Types, Missing
  <2>2. sb' \in AnyName
    BY <1>1, <1>2, <1>6 DEF Tables
  <2>3. frames' \in Seq(Frames)
    BY <1>1, <1>4
  <2>4. orderly' \in BOOLEAN
    BY <1>1
  <2>. QED BY <2>1, <2>2, <2>3, <2>4, <1>1, <1>6 DEF IInv, Types
<1>9. ModuleFrames' /\ TypeFrames'
  BY <1>4, <1>7 DEF ModuleFrames, TypeFrames
<1>10. PreFrames'
  <2>1. table'[q].kind # "module"
    BY <1>1, <1>2, <1>5 DEF Missing, None
  <2>2. \A s \in Steps(p) : ~Missing(s)'
    BY <1>2, <1>3, <1>5 DEF Missing
  <2>3. p = Front(q)
    BY DEF p
  <2>. QED BY <2>1, <2>2, <2>3, <1>1, <1>2, <1>4, <1>7 DEF PreFrames
<1>11. ASSUME orderly' PROVE orderly /\ \A r \in Paths : table'[r] = table[r]
  <2>1. \A s \in Steps(p) : ~Missing(s)
    BY <1>1, <1>11 DEF IInv, Announced, p
  <2>. QED BY <2>1, <1>1, <1>5, <1>11
<1>12. BufferFollows'
  <2>1. orderly' => sb' = p
    <3>1. ~Missing(p) /\ orderly' => table'[p].name = p
      BY <1>2, <1>11 DEF IInv, Named
    <3>2. orderly' => ~Missing(p)
      BY <1>1, <1>2 DEF IInv, Announced, p
    <3>. QED BY <3>1, <3>2, <1>1
  <2>. QED BY <2>1, <1>4, <1>7 DEF BufferFollows
<1>13. Named'
  <2>1. ASSUME NEW r, Opened(r) PROVE r \in DOMAIN answers
    BY <2>1, <1>1 DEF Opened
  <2>2. ASSUME NEW r \in Paths
        PROVE  /\ orderly' => (~Missing(r)' => table'[r].name = r)
               /\ table'[r].kind = "module" /\ table'[r].meta => table'[r].name = r
               /\ table'[r].kind = "type" => table'[r].name = r \/ r \in DOMAIN answers
               /\ table[r].kind = "type" => table'[r].kind = "type"
    <3>1. CASE table'[r] = table[r]
      BY <3>1, <2>1, <1>1 DEF IInv, Named, Missing
    <3>2. CASE table'[r] = M(r) /\ r \in Steps(p) /\ Missing(r)
      BY <3>2, <1>3, <1>11 DEF Missing, None
    <3>. QED BY <3>1, <3>2, <1>5
  <2>. QED BY <2>2, <1>1 DEF IInv, Named, Opened
<1>14. Announced'
  BY <1>1, <1>6, AnnouncedKept
<1>. QED BY <1>1, <1>8, <1>9, <1>10, <1>12, <1>13, <1>14 DEF IInv, LoadedByPath, RequireAnswersType

(* EndPreModule: require answers the name of the type.                     *)
LEMMA EndPreModuleKeeps ==
    ASSUME IInv, EndPreModule
    PROVE  IInv'
<1>. DEFINE q == frames[Len(frames)].name
            name == table[q].name
            M == Module(<<>>, FALSE)
<1>1. /\ frames # <<>> /\ Top.kind = "pre" /\ ~Missing(q)
      /\ answers' = Bind(answers, q, name)
      /\ table' = [s \in Paths |-> IF s \in Steps(name) /\ Missing(s) THEN M ELSE table[s]]
      /\ sb' = <<>> /\ frames' = <<>>
      /\ UNCHANGED <<loaded, preload, orderly>>
  BY FrameFacts DEF EndPreModule
<1>2. /\ q \in Paths /\ Len(q) > 1 /\ table[q].kind # "module"
      /\ \A s \in Steps(Front(q)) : ~Missing(s)
      /\ \A i \in DOMAIN frames : frames[i].kind = "pre" => frames[i].name = q
  <2>1. /\ Len(frames) \in DOMAIN frames /\ frames[Len(frames)].kind = "pre"
    BY <1>1, FrameFacts
  <2>2. Len(frames) = 1
    BY <2>1 DEF IInv, PreFrames
  <2>3. \A i \in DOMAIN frames : i = Len(frames)
    BY <2>2, FrameFacts
  <2>. QED BY <2>1, <2>3 DEF IInv, PreFrames
<1>. HIDE DEF q
<1>3. table[q].kind = "type" /\ name \in AnyName
  BY <1>1, <1>2 DEF IInv, Types, Tables
<1>4. M \in Tables /\ M # None /\ M.kind = "module" /\ ~M.meta
  BY EmptySeq DEF Tables, Module, None, AnyName
<1>5. orderly => name = q
  BY <1>1, <1>2 DEF IInv, Named
<1>6. \A s \in Steps(q) : ~Missing(s)
  BY <1>1, <1>2, StepsOfPath
<1>. HIDE DEF name, M
<1>7. ASSUME NEW r \in Paths
      PROVE  \/ table'[r] = table[r]
             \/ table'[r] = M /\ Missing(r) /\ ~orderly
  <2>1. table'[r] = IF r \in Steps(name) /\ Missing(r) THEN M ELSE table[r]
    BY <1>1
  <2>. QED BY <2>1, <1>5, <1>6
<1>8. Grow /\ table' \in [Paths -> Tables]
  <2>1. table \in [Paths -> Tables]
    BY DEF IInv, Types
  <2>2. table' \in [Paths -> Tables]
    BY <2>1, <1>1, <1>4
  <2>3. Grow
    BY <1>4, <1>7 DEF Grow, Missing
  <2>. QED BY <2>2, <2>3
<1>9. Types'
  <2>1. ASSUME NEW r \in Paths
        PROVE  /\ table'[r].kind = "none" => Missing(r)'
               /\ table'[r].kind = "type" => table'[r].meta
               /\ table'[r].meta => table'[r].name # <<>>
    BY <1>4, <1>7 DEF IInv, Types, Missing
  <2>. QED BY <2>1, <1>1, <1>8, EmptySeq DEF IInv, Types, AnyName
<1>10. ModuleFrames' /\ TypeFrames' /\ PreFrames' /\ BufferFollows'
  <2>1. DOMAIN frames' = {}
    BY <1>1
  <2>. QED BY <2>1, <1>1 DEF ModuleFrames, TypeFrames, PreFrames, BufferFollows
<1>11. DOMAIN answers' = DOMAIN answers \cup {q} /\ answers'[q] = name
       /\ \A r \in DOMAIN answers : r # q => answers'[r] = answers[r]
  BY <1>1 DEF Bind
<1>12. Named'
  <2>1. ASSUME NEW r, Opened(r) PROVE r \in DOMAIN answers'
    BY <2>1, <1>2, <1>11 DEF Opened
  <2>2. ASSUME NEW r \in Paths
        PROVE  /\ orderly' => (~Missing(r)' => table'[r].name = r)
               /\ table'[r].kind = "module" /\ table'[r].meta => table'[r].name = r
               /\ table'[r].kind = "type" => table'[r].name = r \/ r \in DOMAIN answers'
               /\ table[r].kind = "type" => table'[r].kind = "type"
    <3>1. CASE table'[r] = table[r]
      BY <3>1, <2>1, <1>1 DEF IInv, Named, Missing
    <3>2. CASE table'[r] = M /\ Missing(r) /\ ~orderly
      BY <3>2, <1>1, <1>4 DEF Missing, None
    <3>. QED BY <3>1, <3>2, <1>7
  <2>3. \A r \in DOMAIN answers' : r \in Paths /\ table'[r].kind = "type"
    BY <2>2, <1>2, <1>3, <1>11 DEF IInv, Named
  <2>. QED BY <2>2, <2>3 DEF Named, Opened
<1>13. RequireAnswersType'
  BY <1>1, <1>5, <1>11 DEF IInv, RequireAnswersType
<1>14. Announced'
  BY <1>1, <1>8, AnnouncedKept
<1>. QED BY <1>1, <1>9, <1>10, <1>12, <1>13, <1>14 DEF IInv, LoadedByPath

-----------------------------------------------------------------------------
(* The theorems.                                                           *)

(* Every step keeps the invariant.                                         *)
LEMMA NextIInv ==
    ASSUME IInv, [Next]_vars
    PROVE  IInv'
<1>1. CASE UNCHANGED vars
  <2>1. \A r : Opened(r) <=> Opened(r)'
    BY <1>1 DEF vars, Opened
  <2>2. Named' /\ Types' /\ PreFrames' /\ TypeFrames' /\ Announced'
    BY <2>1, <1>1 DEF IInv, vars, Named, Types, PreFrames, TypeFrames, Announced, Missing
  <2>. QED BY <2>2, <1>1 DEF IInv, vars, ModuleFrames, BufferFollows, LoadedByPath, RequireAnswersType
<1>2. CASE BeginGlobal
  BY <1>2, BeginGlobalKeeps
<1>3. CASE EndModule
  BY <1>3, EndModuleKeeps
<1>4. CASE EndType
  BY <1>4, EndTypeKeeps
<1>5. CASE EndPreModule
  BY <1>5, EndPreModuleKeeps
<1>6. CASE \E n \in Names : BeginModule(n) \/ BeginType(n)
  BY <1>6, BeginModuleKeeps, BeginTypeKeeps
<1>7. CASE \E q \in Paths : AddPreload(q) \/ BeginPreModule(q)
  BY <1>7, AddPreloadKeeps, BeginPreModuleKeeps
<1>. QED BY <1>1, <1>2, <1>3, <1>4, <1>5, <1>6, <1>7 DEF Next

(* The inductive invariant holds in every reachable state.                 *)
THEOREM Invariance == Spec => []IInv
<1>. QED BY InitIInv, NextIInv, PTL DEF Spec

(* Type correctness of the registration state.                             *)
THEOREM TypeCorrect == Spec => []TypeOK
<1>1. IInv => TypeOK
  <2>. SUFFICES ASSUME IInv PROVE TypeOK
    OBVIOUS
  <2>1. \A i \in DOMAIN frames : frames[i] \in Frames
    BY FrameFacts
  <2>. QED BY <2>1 DEF IInv, Types, TypeOK, Tables, Frames
<1>. QED BY <1>1, Invariance, PTL

(* The buffer, which is no stack, follows the modules that the host begins *)
(* and ends (tolua_beginmodule, tolua_endmodule), however often.           *)
THEOREM BufferFollowsPath == Spec => []BufferIsPath
<1>1. IInv => BufferIsPath
  <2>. SUFFICES ASSUME IInv, InModule \/ (orderly /\ InNamespace) PROVE sb = Top.path
    BY DEF BufferIsPath
  <2>1. /\ Len(frames) \in DOMAIN frames /\ Top = frames[Len(frames)]
        /\ Top.kind \in {"module", "pre"} /\ (orderly \/ Top.kind = "module")
    BY FrameFacts DEF InModule, InNamespace
  <2>. QED BY <2>1 DEF IInv, BufferFollows
<1>. QED BY <1>1, Invariance, PTL

(* _addtoloaded enters a type in package.loaded under its own path.        *)
THEOREM LoadedUnderPath == Spec => []LoadedByPath
<1>1. IInv => LoadedByPath
  BY DEF IInv
<1>. QED BY <1>1, Invariance, PTL

(* tolua_endpremodule answers the type that was required.                  *)
THEOREM RequireAnswers == Spec => []RequireAnswersType
<1>1. IInv => RequireAnswersType
  BY DEF IInv
<1>. QED BY <1>1, Invariance, PTL

(* module_index_event finds a type that tolua_addpreload has announced.    *)
THEOREM PreloadFound == Spec => []IndexFindsPreload
<1>1. IInv => IndexFindsPreload
  <2>. SUFFICES ASSUME IInv, NEW q \in preload, Missing(q) /\ table[Front(q)].meta
                PROVE  IndexKey(Front(q), Last(q)) = q
    BY DEF IndexFindsPreload
  <2>1. q \in Paths /\ Len(q) > 1 /\ table[Front(q)].kind = "module"
    BY DEF IInv, Types, Announced
  <2>2. Front(q) \in Paths
    BY <2>1, StepsOfPath
  <2>3. table[Front(q)].name = Front(q)
    BY <2>1, <2>2 DEF IInv, Named
  <2>4. q = Append(Front(q), Last(q))
    BY <2>1, PathsType, FrontLast, EmptySeq, SMTT(40)
  <2>. QED BY <2>3, <2>4 DEF IndexKey
<1>. QED BY <1>1, Invariance, PTL

=============================================================================
