----------------------- MODULE ClassFunctions_proofs -----------------------
(***************************************************************************)
(* Proofs about what Lua gets from registered classes and what it calls    *)
(* there.                                                                  *)
(*                                                                         *)
(* ClassEvents: a class answers its class table, its objects and the bases *)
(* of their peers alike, and what was assigned to an object is read back.  *)
(*                                                                         *)
(* ClosureErrors: no error that a host function reports is lost, and none  *)
(* is invented save by a report that ran out of memory.                    *)
(***************************************************************************)
EXTENDS ClassEvents, ClosureErrors, Integers, SequenceTheorems, WellFoundedInduction, TLAPS

-----------------------------------------------------------------------------
(* Recursion over classes and tables, each of which refers to an older one. *)

(* A non-empty set of natural numbers has a least element.                 *)
LEMMA LeastOf ==
    ASSUME NEW S \in SUBSET Nat, S # {}
    PROVE  \E x \in S : \A y \in S : x <= y
<1> DEFINE R == OpToRel(<, Nat)
<1>1. IsWellFoundedOn(R, Nat)
  BY NatLessThanWellFounded
<1>2. \A x, y \in Nat : x < y => <<x, y>> \in R
  BY DEF OpToRel
<1> HIDE DEF R
<1>3. PICK x \in S : \A y \in S : ~(<<y, x>> \in R)
  BY <1>1, WFMin
<1>4. \A y \in S : ~(y < x)
  BY <1>2, <1>3, Zenon
<1>. QED BY <1>4

Descends(up, n) == \A c \in 1..n : up[c] \in Nat /\ up[c] < c

Solution(f, n, up, zero, g) == \A c \in 0..n : f[c] = IF c = 0 THEN zero ELSE g[c][f[up[c]]]

(* What is defined at 0, and at c from its value at an older up[c], exists. *)
LEMMA Recursion ==
    ASSUME NEW n \in Nat, NEW up, Descends(up, n),
           NEW V, NEW zero \in V, NEW g \in [1..n -> [V -> V]]
    PROVE  \E f \in [0..n -> V] : Solution(f, n, up, zero, g)
<1> USE DEF Descends, Solution
<1> DEFINE Solves(f, m) == \A c \in 0..m : f[c] = IF c = 0 THEN zero ELSE g[c][f[up[c]]]
           S == {m \in 0..n : ~ \E f \in [0..m -> V] : Solves(f, m)}
<1>1. ASSUME S # {} PROVE FALSE
  <2>1. PICK x \in S : \A y \in S : x <= y
    <3>1. S \in SUBSET Nat
      OBVIOUS
    <3> HIDE DEF S
    <3>. QED BY <1>1, <3>1, LeastOf
  <2>2. x \in 0..n /\ ~ \E f \in [0..x -> V] : Solves(f, x)
    BY <2>1
  <2>3. CASE x = 0
    <3> DEFINE f == [c \in 0..0 |-> zero]
    <3>1. f \in [0..x -> V] /\ Solves(f, x)
      BY <2>3
    <3>. QED BY <2>2, <3>1
  <2>4. CASE x # 0
    <3>1. x - 1 \in 0..n /\ ~(x <= x - 1) /\ x \in 1..n
      BY <2>2, <2>4
    <3>2. PICK f \in [0..(x - 1) -> V] : Solves(f, x - 1)
      BY <2>1, <3>1
    <3>3. up[x] \in 0..(x - 1) /\ g[x] \in [V -> V]
      BY <3>1
    <3>4. g[x][f[up[x]]] \in V
      BY <3>3
    <3> DEFINE h == [c \in 0..x |-> IF c = x THEN g[x][f[up[x]]] ELSE f[c]]
    <3>5. h \in [0..x -> V]
      <4>1. \A c \in 0..x : c # x => c \in 0..(x - 1)
        BY <3>1
      <4>. QED BY <3>4, <4>1
    <3>6. ASSUME NEW c \in 0..x
          PROVE  h[c] = IF c = 0 THEN zero ELSE g[c][h[up[c]]]
      <4>1. CASE c = x
        <5>1. c # 0 /\ h[c] = g[x][f[up[x]]]
          BY <2>4, <4>1
        <5>2. h[up[x]] = f[up[x]]
          BY <3>1, <3>3
        <5>. QED BY <4>1, <5>1, <5>2
      <4>2. CASE c # x
        <5>1. c \in 0..(x - 1) /\ h[c] = f[c]
          BY <3>1, <4>2
        <5>2. f[c] = IF c = 0 THEN zero ELSE g[c][f[up[c]]]
          BY <3>2, <5>1
        <5>3. c # 0 => h[up[c]] = f[up[c]]
          <6>1. ASSUME c # 0 PROVE up[c] \in 0..x /\ up[c] # x
            BY <3>1, <5>1, <6>1
          <6>. QED BY <6>1
        <5>. QED BY <5>1, <5>2, <5>3
      <4>. QED BY <4>1, <4>2
    <3> HIDE DEF h
    <3>. QED BY <2>2, <3>5, <3>6
  <2>. QED BY <2>3, <2>4
<1>2. n \in 0..n /\ S = {}
  BY <1>1
<1>. QED BY <1>2

(* A set that holds 0, and with what a class refers to the class itself.   *)
LEMMA Descent ==
    ASSUME NEW n \in Nat, NEW up, Descends(up, n),
           NEW S, 0 \in S, \A c \in 1..n : up[c] \in S => c \in S
    PROVE  0..n \subseteq S
<1> USE DEF Descends
<1> DEFINE Bad == {c \in 0..n : c \notin S}
<1>1. ASSUME Bad # {} PROVE FALSE
  <2>1. PICK x \in Bad : \A y \in Bad : x <= y
    <3>1. Bad \in SUBSET Nat
      OBVIOUS
    <3> HIDE DEF Bad
    <3>. QED BY <1>1, <3>1, LeastOf
  <2>2. x \in 1..n
    BY <2>1
  <2>3. up[x] \in 0..n /\ ~(x <= up[x])
    BY <2>2
  <2>. QED BY <2>1, <2>2, <2>3
<1>. QED BY <1>1

-----------------------------------------------------------------------------
(* The four recursive functions, written out once.                         *)

\* Base classes and prototypes are older.
Older ==
    /\ parent \in [Classes -> 0..NumClasses] /\ \A c \in Classes : parent[c] < c
    /\ proto \in [Tables -> 0..NumTables] /\ \A t \in Tables : proto[t] < t

\* What a search can come to.
Found(kinds, n) == [kind : kinds \cup {"nowhere", "lost"}, at : 0..n]

LEMMA Counted == ASSUME Older
                 PROVE  /\ NumClasses \in Nat /\ NumTables \in Nat
                        /\ Descends(parent, NumClasses) /\ Descends(proto, NumTables)
BY EventAssumption DEF Descends, Older, Classes, Tables

ClassPlacesEq ==
    /\ ClassPlaces[0] = Nowhere
    /\ \A c \in 1..NumClasses :
         ClassPlaces[c] = IF raw[c] # Nil THEN Place("raw", c)
                         ELSE IF c \in get THEN Place("get", c)
                         ELSE ClassPlaces[parent[c]]

LEMMA ClassEquation == ASSUME Older PROVE ClassPlacesEq
<1> DEFINE V == Found({"raw", "get"}, NumClasses)
           g == [c \in 1..NumClasses |-> [v \in V |->
                    IF raw[c] # Nil THEN Place("raw", c)
                    ELSE IF c \in get THEN Place("get", c)
                    ELSE v]]
           Body(f) == [c \in 0..NumClasses |->
                    IF c = 0 THEN Nowhere
                     ELSE IF raw[c] # Nil THEN Place("raw", c)
                     ELSE IF c \in get THEN Place("get", c)
                     ELSE f[parent[c]]]
<1>1. Nowhere \in V /\ g \in [1..NumClasses -> [V -> V]]
  BY Counted DEF Found, Place, Nowhere
<1>2. PICK f \in [0..NumClasses -> V] : Solution(f, NumClasses, parent, Nowhere, g)
  <2> HIDE DEF V, g
  <2>. QED BY <1>1, Counted, Recursion
<1>3. ASSUME NEW c \in 0..NumClasses
      PROVE  f[c] = IF c = 0 THEN Nowhere
                     ELSE IF raw[c] # Nil THEN Place("raw", c)
                     ELSE IF c \in get THEN Place("get", c)
                     ELSE f[parent[c]]
  <2>1. CASE c = 0
    BY <1>2, <2>1 DEF Solution
  <2>2. CASE c # 0
    <3>1. c \in 1..NumClasses /\ parent[c] \in 0..NumClasses
      BY <2>2, Counted DEF Older, Classes, Tables
    <3>2. f[parent[c]] \in V
      BY <1>2, <3>1
    <3> HIDE DEF V
    <3>. QED BY <1>2, <2>2, <3>1, <3>2 DEF Solution
  <2>. QED BY <2>1, <2>2
<1>4. f = Body(f)
  BY <1>2, <1>3
<1>5. ClassPlaces = CHOOSE p : p = Body(p)
  BY Zenon DEF ClassPlaces
<1>6. ClassPlaces = Body(ClassPlaces)
  <2> HIDE DEF Body
  <2>. QED BY <1>4, <1>5, Zenon
<1>7. ClassPlaces[0] = Nowhere
  BY <1>6, Counted
<1>8. ASSUME NEW c \in 1..NumClasses
      PROVE  ClassPlaces[c] = IF raw[c] # Nil THEN Place("raw", c)
                         ELSE IF c \in get THEN Place("get", c)
                         ELSE ClassPlaces[parent[c]]
  <2>1. c \in 0..NumClasses /\ c # 0
    OBVIOUS
  <2>2. ClassPlaces[c] = Body(ClassPlaces)[c]
    BY <1>6
  <2>. QED BY <2>1, <2>2
<1>. QED BY <1>7, <1>8 DEF ClassPlacesEq

SetterPlacesEq ==
    /\ SetterPlaces[0] = Nowhere
    /\ \A c \in 1..NumClasses :
         SetterPlaces[c] = IF c \in set THEN Place("set", c)
                          ELSE IF key = "number" THEN Lost
                          ELSE SetterPlaces[parent[c]]

LEMMA SetterEquation == ASSUME Older PROVE SetterPlacesEq
<1> DEFINE V == Found({"set"}, NumClasses)
           g == [c \in 1..NumClasses |-> [v \in V |->
                    IF c \in set THEN Place("set", c)
                    ELSE IF key = "number" THEN Lost
                    ELSE v]]
           Body(f) == [c \in 0..NumClasses |->
                    IF c = 0 THEN Nowhere
                     ELSE IF c \in set THEN Place("set", c)
                     ELSE IF key = "number" THEN Lost
                     ELSE f[parent[c]]]
<1>1. Nowhere \in V /\ g \in [1..NumClasses -> [V -> V]]
  BY Counted DEF Found, Place, Nowhere, Lost
<1>2. PICK f \in [0..NumClasses -> V] : Solution(f, NumClasses, parent, Nowhere, g)
  <2> HIDE DEF V, g
  <2>. QED BY <1>1, Counted, Recursion
<1>3. ASSUME NEW c \in 0..NumClasses
      PROVE  f[c] = IF c = 0 THEN Nowhere
                     ELSE IF c \in set THEN Place("set", c)
                     ELSE IF key = "number" THEN Lost
                     ELSE f[parent[c]]
  <2>1. CASE c = 0
    BY <1>2, <2>1 DEF Solution
  <2>2. CASE c # 0
    <3>1. c \in 1..NumClasses /\ parent[c] \in 0..NumClasses
      BY <2>2, Counted DEF Older, Classes, Tables
    <3>2. f[parent[c]] \in V
      BY <1>2, <3>1
    <3> HIDE DEF V
    <3>. QED BY <1>2, <2>2, <3>1, <3>2 DEF Solution
  <2>. QED BY <2>1, <2>2
<1>4. f = Body(f)
  BY <1>2, <1>3
<1>5. SetterPlaces = CHOOSE p : p = Body(p)
  BY Zenon DEF SetterPlaces
<1>6. SetterPlaces = Body(SetterPlaces)
  <2> HIDE DEF Body
  <2>. QED BY <1>4, <1>5, Zenon
<1>7. SetterPlaces[0] = Nowhere
  BY <1>6, Counted
<1>8. ASSUME NEW c \in 1..NumClasses
      PROVE  SetterPlaces[c] = IF c \in set THEN Place("set", c)
                          ELSE IF key = "number" THEN Lost
                          ELSE SetterPlaces[parent[c]]
  <2>1. c \in 0..NumClasses /\ c # 0
    OBVIOUS
  <2>2. SetterPlaces[c] = Body(SetterPlaces)[c]
    BY <1>6
  <2>. QED BY <2>1, <2>2
<1>. QED BY <1>7, <1>8 DEF SetterPlacesEq

PeerPlacesEq ==
    /\ PeerPlaces[0] = Nowhere
    /\ \A c \in 1..NumTables :
         PeerPlaces[c] = IF c \in traw THEN Place("table", c)
                        ELSE IF c \in tget THEN Place("tget", c)
                        ELSE PeerPlaces[proto[c]]

LEMMA PeerEquation == ASSUME Older PROVE PeerPlacesEq
<1> DEFINE V == Found({"table", "tget"}, NumTables)
           g == [c \in 1..NumTables |-> [v \in V |->
                    IF c \in traw THEN Place("table", c)
                    ELSE IF c \in tget THEN Place("tget", c)
                    ELSE v]]
           Body(f) == [c \in 0..NumTables |->
                    IF c = 0 THEN Nowhere
                     ELSE IF c \in traw THEN Place("table", c)
                     ELSE IF c \in tget THEN Place("tget", c)
                     ELSE f[proto[c]]]
<1>1. Nowhere \in V /\ g \in [1..NumTables -> [V -> V]]
  BY Counted DEF Found, Place, Nowhere
<1>2. PICK f \in [0..NumTables -> V] : Solution(f, NumTables, proto, Nowhere, g)
  <2> HIDE DEF V, g
  <2>. QED BY <1>1, Counted, Recursion
<1>3. ASSUME NEW c \in 0..NumTables
      PROVE  f[c] = IF c = 0 THEN Nowhere
                     ELSE IF c \in traw THEN Place("table", c)
                     ELSE IF c \in tget THEN Place("tget", c)
                     ELSE f[proto[c]]
  <2>1. CASE c = 0
    BY <1>2, <2>1 DEF Solution
  <2>2. CASE c # 0
    <3>1. c \in 1..NumTables /\ proto[c] \in 0..NumTables
      BY <2>2, Counted DEF Older, Classes, Tables
    <3>2. f[proto[c]] \in V
      BY <1>2, <3>1
    <3> HIDE DEF V
    <3>. QED BY <1>2, <2>2, <3>1, <3>2 DEF Solution
  <2>. QED BY <2>1, <2>2
<1>4. f = Body(f)
  BY <1>2, <1>3
<1>5. PeerPlaces = CHOOSE p : p = Body(p)
  BY Zenon DEF PeerPlaces
<1>6. PeerPlaces = Body(PeerPlaces)
  <2> HIDE DEF Body
  <2>. QED BY <1>4, <1>5, Zenon
<1>7. PeerPlaces[0] = Nowhere
  BY <1>6, Counted
<1>8. ASSUME NEW c \in 1..NumTables
      PROVE  PeerPlaces[c] = IF c \in traw THEN Place("table", c)
                        ELSE IF c \in tget THEN Place("tget", c)
                        ELSE PeerPlaces[proto[c]]
  <2>1. c \in 0..NumTables /\ c # 0
    OBVIOUS
  <2>2. PeerPlaces[c] = Body(PeerPlaces)[c]
    BY <1>6
  <2>. QED BY <2>1, <2>2
<1>. QED BY <1>7, <1>8 DEF PeerPlacesEq

PeerTargetsEq ==
    /\ PeerTargets[0] = Nowhere
    /\ \A c \in 1..NumTables :
         PeerTargets[c] = IF c \in traw THEN Place("table", c)
                         ELSE IF c \in tset THEN Place("tset", c)
                         ELSE PeerTargets[proto[c]]

LEMMA TargetEquation == ASSUME Older PROVE PeerTargetsEq
<1> DEFINE V == Found({"table", "tset"}, NumTables)
           g == [c \in 1..NumTables |-> [v \in V |->
                    IF c \in traw THEN Place("table", c)
                    ELSE IF c \in tset THEN Place("tset", c)
                    ELSE v]]
           Body(f) == [c \in 0..NumTables |->
                    IF c = 0 THEN Nowhere
                     ELSE IF c \in traw THEN Place("table", c)
                     ELSE IF c \in tset THEN Place("tset", c)
                     ELSE f[proto[c]]]
<1>1. Nowhere \in V /\ g \in [1..NumTables -> [V -> V]]
  BY Counted DEF Found, Place, Nowhere
<1>2. PICK f \in [0..NumTables -> V] : Solution(f, NumTables, proto, Nowhere, g)
  <2> HIDE DEF V, g
  <2>. QED BY <1>1, Counted, Recursion
<1>3. ASSUME NEW c \in 0..NumTables
      PROVE  f[c] = IF c = 0 THEN Nowhere
                     ELSE IF c \in traw THEN Place("table", c)
                     ELSE IF c \in tset THEN Place("tset", c)
                     ELSE f[proto[c]]
  <2>1. CASE c = 0
    BY <1>2, <2>1 DEF Solution
  <2>2. CASE c # 0
    <3>1. c \in 1..NumTables /\ proto[c] \in 0..NumTables
      BY <2>2, Counted DEF Older, Classes, Tables
    <3>2. f[proto[c]] \in V
      BY <1>2, <3>1
    <3> HIDE DEF V
    <3>. QED BY <1>2, <2>2, <3>1, <3>2 DEF Solution
  <2>. QED BY <2>1, <2>2
<1>4. f = Body(f)
  BY <1>2, <1>3
<1>5. PeerTargets = CHOOSE p : p = Body(p)
  BY Zenon DEF PeerTargets
<1>6. PeerTargets = Body(PeerTargets)
  <2> HIDE DEF Body
  <2>. QED BY <1>4, <1>5, Zenon
<1>7. PeerTargets[0] = Nowhere
  BY <1>6, Counted
<1>8. ASSUME NEW c \in 1..NumTables
      PROVE  PeerTargets[c] = IF c \in traw THEN Place("table", c)
                         ELSE IF c \in tset THEN Place("tset", c)
                         ELSE PeerTargets[proto[c]]
  <2>1. c \in 0..NumTables /\ c # 0
    OBVIOUS
  <2>2. PeerTargets[c] = Body(PeerTargets)[c]
    BY <1>6
  <2>. QED BY <2>1, <2>2
<1>. QED BY <1>7, <1>8 DEF PeerTargetsEq

AncestryEq ==
    /\ Ancestry[0] = {}
    /\ \A c \in 1..NumClasses :
         Ancestry[c] = {c} \cup Ancestry[parent[c]]

LEMMA AncestryEquation == ASSUME Older PROVE AncestryEq
<1> DEFINE V == SUBSET (1..NumClasses)
           g == [c \in 1..NumClasses |-> [v \in V |->
                    {c} \cup v]]
           Body(f) == [c \in 0..NumClasses |->
                    IF c = 0 THEN {}
                     ELSE {c} \cup f[parent[c]]]
<1>1. {} \in V /\ g \in [1..NumClasses -> [V -> V]]
  BY Counted DEF Found
<1>2. PICK f \in [0..NumClasses -> V] : Solution(f, NumClasses, parent, {}, g)
  <2> HIDE DEF V, g
  <2>. QED BY <1>1, Counted, Recursion
<1>3. ASSUME NEW c \in 0..NumClasses
      PROVE  f[c] = IF c = 0 THEN {}
                     ELSE {c} \cup f[parent[c]]
  <2>1. CASE c = 0
    BY <1>2, <2>1 DEF Solution
  <2>2. CASE c # 0
    <3>1. c \in 1..NumClasses /\ parent[c] \in 0..NumClasses
      BY <2>2, Counted DEF Older, Classes, Tables
    <3>2. f[parent[c]] \in V
      BY <1>2, <3>1
    <3> HIDE DEF V
    <3>. QED BY <1>2, <2>2, <3>1, <3>2 DEF Solution
  <2>. QED BY <2>1, <2>2
<1>4. f = Body(f)
  BY <1>2, <1>3
<1>5. Ancestry = CHOOSE p : p = Body(p)
  BY Zenon DEF Ancestry
<1>6. Ancestry = Body(Ancestry)
  <2> HIDE DEF Body
  <2>. QED BY <1>4, <1>5, Zenon
<1>7. Ancestry[0] = {}
  BY <1>6, Counted
<1>8. ASSUME NEW c \in 1..NumClasses
      PROVE  Ancestry[c] = {c} \cup Ancestry[parent[c]]
  <2>1. c \in 0..NumClasses /\ c # 0
    OBVIOUS
  <2>2. Ancestry[c] = Body(Ancestry)[c]
    BY <1>6
  <2>. QED BY <2>1, <2>2
<1>. QED BY <1>7, <1>8 DEF AncestryEq

-----------------------------------------------------------------------------
(* What the searches find.                                                 *)

LEMMA AncestryRange ==
    ASSUME Older, NEW c \in Classes
    PROVE  c \in Ancestry[c] /\ Ancestry[c] \subseteq 1..c
<1> DEFINE S == {d \in 0..NumClasses : Ancestry[d] \subseteq 1..d}
<1>1. AncestryEq /\ NumClasses \in Nat /\ Descends(parent, NumClasses)
  BY AncestryEquation, Counted
<1>2. 0 \in S
  BY <1>1 DEF AncestryEq
<1>3. ASSUME NEW d \in 1..NumClasses, parent[d] \in S PROVE d \in S
  <2>1. Ancestry[d] = {d} \cup Ancestry[parent[d]]
    BY <1>1 DEF AncestryEq
  <2>2. Ancestry[parent[d]] \subseteq 1..parent[d] /\ parent[d] \in Nat /\ parent[d] < d
    BY <1>1, <1>3 DEF Descends
  <2>3. 1..parent[d] \subseteq 1..d
    BY <2>2
  <2>. QED BY <2>1, <2>2, <2>3
<1> HIDE DEF S
<1>4. c \in S
  BY <1>1, <1>2, <1>3, Descent DEF Classes
<1>5. c \in 1..NumClasses /\ c # 0 /\ c \in 0..NumClasses
  BY <1>1 DEF Classes
<1>. QED BY <1>1, <1>4, <1>5 DEF S, AncestryEq

\* A value is found in the class or a base class of it.
LEMMA ClassFound ==
    ASSUME Older, NEW c \in Classes, ClassPlaces[c].kind = "raw"
    PROVE  ClassPlaces[c].at \in Ancestry[c]
<1> DEFINE S == {d \in 0..NumClasses :
                   ClassPlaces[d].kind = "raw" => ClassPlaces[d].at \in Ancestry[d]}
<1>1. /\ AncestryEq /\ ClassPlacesEq /\ NumClasses \in Nat /\ Descends(parent, NumClasses)
  BY AncestryEquation, ClassEquation, Counted
<1>2. 0 \in S
  BY <1>1 DEF ClassPlacesEq, Nowhere, Place
<1>3. ASSUME NEW d \in 1..NumClasses, parent[d] \in S PROVE d \in S
  <2>1. d \in 0..NumClasses /\ Ancestry[d] = {d} \cup Ancestry[parent[d]]
    BY <1>1 DEF AncestryEq
  <2>2. ClassPlaces[d] \in {Place("raw", d), Place("get", d), ClassPlaces[parent[d]]}
    BY <1>1 DEF ClassPlacesEq
  <2>3. Place("raw", d).at = d /\ Place("get", d).kind # "raw"
    BY DEF Place
  <2>. QED BY <1>3, <2>1, <2>2, <2>3
<1> HIDE DEF S
<1>4. c \in S
  BY <1>1, <1>2, <1>3, Descent DEF Classes
<1>. QED BY <1>4 DEF S

\* A setter is found in the class or a base class of it.
LEMMA SetterFound ==
    ASSUME Older, NEW c \in Classes
    PROVE  \/ SetterPlaces[c] \in {Nowhere, Lost}
           \/ \E d \in Ancestry[c] \cap set : SetterPlaces[c] = Place("set", d)
<1> DEFINE S == {d \in 0..NumClasses :
                   \/ SetterPlaces[d] \in {Nowhere, Lost}
                   \/ \E e \in Ancestry[d] \cap set : SetterPlaces[d] = Place("set", e)}
<1>1. /\ AncestryEq /\ SetterPlacesEq /\ NumClasses \in Nat /\ Descends(parent, NumClasses)
  BY AncestryEquation, SetterEquation, Counted
<1>2. 0 \in S
  BY <1>1 DEF SetterPlacesEq
<1>3. ASSUME NEW d \in 1..NumClasses, parent[d] \in S PROVE d \in S
  <2>1. d \in 0..NumClasses /\ d # 0
    OBVIOUS
  <2>2. Ancestry[d] = {d} \cup Ancestry[parent[d]]
    BY <1>1, <2>1 DEF AncestryEq
  <2>3. \/ d \in set /\ SetterPlaces[d] = Place("set", d)
        \/ SetterPlaces[d] \in {Lost, SetterPlaces[parent[d]]}
    BY <1>1 DEF SetterPlacesEq
  <2>. QED BY <1>3, <2>1, <2>2, <2>3
<1> HIDE DEF S
<1>4. c \in S
  BY <1>1, <1>2, <1>3, Descent DEF Classes
<1>. QED BY <1>4 DEF S

\* What an assignment finds in a peer and its prototypes.
LEMMA TargetFound ==
    ASSUME Older, traw \subseteq Tables, tset \subseteq Tables, NEW t \in 0..NumTables
    PROVE  \/ PeerTargets[t] = Nowhere
           \/ \E u \in traw : PeerTargets[t] = Place("table", u)
           \/ \E u \in tset : PeerTargets[t] = Place("tset", u)
<1> DEFINE S == {d \in 0..NumTables :
                   \/ PeerTargets[d] = Nowhere
                   \/ \E u \in traw : PeerTargets[d] = Place("table", u)
                   \/ \E u \in tset : PeerTargets[d] = Place("tset", u)}
<1>1. PeerTargetsEq /\ NumTables \in Nat /\ Descends(proto, NumTables)
  BY TargetEquation, Counted
<1>2. 0 \in S
  BY <1>1 DEF PeerTargetsEq
<1>3. ASSUME NEW d \in 1..NumTables, proto[d] \in S PROVE d \in S
  <2>1. d \in 0..NumTables /\ d # 0
    OBVIOUS
  <2>. QED BY <1>1, <1>3, <2>1 DEF PeerTargetsEq
<1> HIDE DEF S
<1>4. t \in S
  BY <1>1, <1>2, <1>3, Descent
<1>. QED BY <1>4 DEF S

\* Where every Lua table with a setter has a getter, reading finds what an
\* assignment finds.
LEMMA PeersAgree ==
    ASSUME Older, tget = tset, NEW t \in 0..NumTables
    PROVE  /\ PeerTargets[t] = Nowhere => PeerPlaces[t] = Nowhere
           /\ PeerTargets[t].kind = "table" => PeerPlaces[t] = PeerTargets[t]
           /\ PeerTargets[t].kind = "tset" => PeerPlaces[t] = Place("tget", PeerTargets[t].at)
           /\ PeerPlaces[t] = Nowhere => PeerTargets[t] = Nowhere
<1> DEFINE Agrees(d) ==
              /\ PeerTargets[d] = Nowhere => PeerPlaces[d] = Nowhere
              /\ PeerTargets[d].kind = "table" => PeerPlaces[d] = PeerTargets[d]
              /\ PeerTargets[d].kind = "tset" => PeerPlaces[d] = Place("tget", PeerTargets[d].at)
              /\ PeerPlaces[d] = Nowhere => PeerTargets[d] = Nowhere
           S == {d \in 0..NumTables : Agrees(d)}
<1>1. PeerTargetsEq /\ PeerPlacesEq /\ NumTables \in Nat /\ Descends(proto, NumTables)
  BY TargetEquation, PeerEquation, Counted
<1>2. 0 \in S
  BY <1>1 DEF PeerTargetsEq, PeerPlacesEq, Nowhere, Place
<1>3. ASSUME NEW d \in 1..NumTables, proto[d] \in S PROVE d \in S
  <2>1. d \in 0..NumTables /\ d # 0
    OBVIOUS
  <2>2. CASE d \in traw
    <3>1. PeerTargets[d] = Place("table", d) /\ PeerPlaces[d] = Place("table", d)
      BY <1>1, <2>2 DEF PeerTargetsEq, PeerPlacesEq
    <3>. QED BY <2>1, <3>1 DEF Place, Nowhere
  <2>3. CASE d \notin traw /\ d \in tset
    <3>1. PeerTargets[d] = Place("tset", d) /\ PeerPlaces[d] = Place("tget", d)
      BY <1>1, <2>3 DEF PeerTargetsEq, PeerPlacesEq
    <3>. QED BY <2>1, <3>1 DEF Place, Nowhere
  <2>4. CASE d \notin traw /\ d \notin tset
    <3>1. PeerTargets[d] = PeerTargets[proto[d]] /\ PeerPlaces[d] = PeerPlaces[proto[d]]
      BY <1>1, <2>1, <2>4 DEF PeerTargetsEq, PeerPlacesEq
    <3>. QED BY <1>3, <2>1, <3>1
  <2>. QED BY <2>2, <2>3, <2>4
<1> HIDE DEF S
<1>4. t \in S
  BY <1>1, <1>2, <1>3, Descent
<1>. QED BY <1>4 DEF S

\* A declaration is seen from the class and the classes derived from it only.
LEMMA Unaffected ==
    ASSUME Older, Older', UNCHANGED parent, NEW c \in Classes,
           \A a \in Ancestry[c] : raw'[a] = raw[a] /\ (a \in get' <=> a \in get)
    PROVE  ClassPlaces'[c] = ClassPlaces[c]
<1> DEFINE Same(a) == raw'[a] = raw[a] /\ (a \in get' <=> a \in get)
           S == {d \in 0..NumClasses :
                   (\A a \in Ancestry[d] : Same(a)) => ClassPlaces'[d] = ClassPlaces[d]}
<1>1. /\ AncestryEq /\ ClassPlacesEq /\ NumClasses \in Nat /\ Descends(parent, NumClasses)
  BY AncestryEquation, ClassEquation, Counted
<1>2. ClassPlacesEq'
  <2>1. (Older => ClassPlacesEq)'
    BY ClassEquation, PTL
  <2>. QED BY <2>1
<1>3. 0 \in S
  BY <1>1, <1>2 DEF ClassPlacesEq, Nowhere, Place
<1>4. ASSUME NEW d \in 1..NumClasses, parent[d] \in S PROVE d \in S
  <2>1. d \in 0..NumClasses /\ d # 0
    OBVIOUS
  <2>2. SUFFICES ASSUME \A a \in Ancestry[d] : Same(a)
                 PROVE  ClassPlaces'[d] = ClassPlaces[d]
    BY <2>1
  <2>3. Ancestry[d] = {d} \cup Ancestry[parent[d]]
    BY <1>1, <2>1 DEF AncestryEq
  <2>4. Same(d) /\ ClassPlaces'[parent[d]] = ClassPlaces[parent[d]]
    BY <1>4, <2>2, <2>3
  <2>. QED BY <1>1, <1>2, <2>1, <2>4 DEF ClassPlacesEq, Place, Nowhere
<1> HIDE DEF S
<1>5. c \in S
  BY <1>1, <1>3, <1>4, Descent DEF Classes
<1>. QED BY <1>5 DEF S

-----------------------------------------------------------------------------
(* The invariant.                                                          *)

\* A copy in a class table that Lua did not assign, and that no declaration
\* made old, is what the class and its base classes hold.
CopyInv ==
    \A c \in Classes \ changed :
        cache[c] # Nil => /\ key = "name" /\ ClassPlaces[c].kind = "raw"
                          /\ raw[ClassPlaces[c].at] = cache[c]

EventInv ==
    /\ TypeOK
    /\ key \in {"name", "number"}
    /\ Older
    /\ classOf \in [Objects -> Classes]
    /\ CopyInv
    /\ AssignedIsRead

LEMMA EventInit == ASSUME Init PROVE EventInv
<1>1. TypeOK /\ key \in {"name", "number"} /\ Older /\ classOf \in [Objects -> Classes]
  BY EventAssumption DEF Init, TypeOK, Older, Classes, Tables
<1>2. CopyInv
  BY DEF Init, CopyInv
<1>3. AssignedIsRead
  BY DEF Init, AssignedIsRead, NoWrite
<1>. QED BY <1>1, <1>2, <1>3 DEF EventInv

\* While the base classes stay, so do the ancestries.
LEMMA AncestryKept == ASSUME UNCHANGED parent PROVE Ancestry' = Ancestry
BY Zenon DEF Ancestry

\* A step that assigns nothing leaves AssignedIsRead with nothing to say.
LEMMA NothingWritten == ASSUME wrote' = NoWrite PROVE AssignedIsRead'
BY DEF AssignedIsRead, NoWrite

\* A declaration in class c: the copies it makes old are those of c and of
\* the classes derived from it.
LEMMA DeclareCopies ==
    ASSUME EventInv, Older', NEW c \in Classes, UNCHANGED <<identity, cache>>,
           changed' = changed \cup Outdated(c),
           \A a \in Classes : a # c => raw'[a] = raw[a] /\ (a \in get' <=> a \in get)
    PROVE  CopyInv'
<1>1. SUFFICES ASSUME NEW d \in Classes, d \notin changed', cache'[d] # Nil
               PROVE  (/\ key = "name" /\ ClassPlaces[d].kind = "raw"
                       /\ raw[ClassPlaces[d].at] = cache[d])'
  BY DEF CopyInv
<1>2. UNCHANGED <<key, parent, cache>> /\ Older
  BY DEF identity, EventInv
<1>3. d \notin changed /\ cache[d] # Nil /\ c \notin Ancestry[d]
  BY <1>1, <1>2 DEF Outdated
<1>4. /\ key = "name" /\ ClassPlaces[d].kind = "raw"
      /\ raw[ClassPlaces[d].at] = cache[d]
  BY <1>3 DEF EventInv, CopyInv
<1>5. \A a \in Ancestry[d] : a \in Classes /\ a # c
  <2>1. Ancestry[d] \subseteq 1..d /\ 1..d \subseteq Classes
    BY <1>2, AncestryRange, Counted DEF Classes
  <2>. QED BY <1>3, <2>1
<1>6. ClassPlaces'[d] = ClassPlaces[d]
  BY <1>2, <1>5, Unaffected
<1>7. ClassPlaces[d].at \in Ancestry[d]
  BY <1>2, <1>4, ClassFound
<1>8. raw'[ClassPlaces[d].at] = raw[ClassPlaces[d].at]
  BY <1>5, <1>7
<1>. QED BY <1>2, <1>4, <1>6, <1>8

LEMMA HoldInv ==
    ASSUME EventInv, NEW c \in Classes, NEW v \in Values, Hold(c, v)
    PROVE  EventInv'
<1>1. UNCHANGED <<key, parent, classOf, get, cache, proto>> /\ wrote' = NoWrite
  BY DEF Hold, identity, tables
<1>2. TypeOK' /\ (key \in {"name", "number"})' /\ Older' /\ (classOf \in [Objects -> Classes])'
  <2>1. UNCHANGED <<key, parent, classOf, proto, get, set, cache, traw, tget, tset, peer, vptr>>
    BY DEF Hold, identity, tables, peers
  <2>2. raw' \in [Classes -> Values \cup {Nil}]
    BY DEF Hold, EventInv, TypeOK
  <2>3. changed' \subseteq Classes
    BY DEF Hold, EventInv, TypeOK, Outdated
  <2>. QED BY <2>1, <2>2, <2>3 DEF EventInv, TypeOK, Older
<1>3. CopyInv'
  <2>1. \A a \in Classes : a # c => raw'[a] = raw[a] /\ (a \in get' <=> a \in get)
    BY <1>1 DEF Hold, EventInv, TypeOK
  <2>2. changed' = changed \cup Outdated(c) /\ UNCHANGED <<identity, cache>>
    BY DEF Hold
  <2>. QED BY <1>2, <2>1, <2>2, DeclareCopies
<1>4. AssignedIsRead'
  BY <1>1, NothingWritten
<1>. QED BY <1>2, <1>3, <1>4 DEF EventInv

LEMMA VariableInv ==
    ASSUME EventInv, NEW c \in Classes, NEW getter \in BOOLEAN, NEW setter \in BOOLEAN,
           Variable(c, getter, setter)
    PROVE  EventInv'
<1>1. UNCHANGED <<key, parent, classOf, raw, cache, proto>> /\ wrote' = NoWrite
  BY DEF Variable, identity, tables
<1>2. TypeOK' /\ (key \in {"name", "number"})' /\ Older' /\ (classOf \in [Objects -> Classes])'
  <2>1. UNCHANGED <<key, parent, classOf, proto, raw, cache, traw, tget, tset, peer, vptr>>
    BY DEF Variable, identity, tables, peers
  <2>2. get' \subseteq Classes /\ set' \subseteq Classes
    BY DEF Variable, EventInv, TypeOK
  <2>3. changed' \subseteq Classes
    BY DEF Variable, EventInv, TypeOK, Outdated
  <2>. QED BY <2>1, <2>2, <2>3 DEF EventInv, TypeOK, Older
<1>3. CopyInv'
  <2>1. \A a \in Classes : a # c => raw'[a] = raw[a] /\ (a \in get' <=> a \in get)
    BY <1>1 DEF Variable
  <2>2. changed' = changed \cup Outdated(c) /\ UNCHANGED <<identity, cache>>
    BY DEF Variable
  <2>. QED BY <1>2, <2>1, <2>2, DeclareCopies
<1>4. AssignedIsRead'
  BY <1>1, NothingWritten
<1>. QED BY <1>2, <1>3, <1>4 DEF EventInv

\* Steps that leave the classes alone find there what was found before.
LEMMA SamePlaces == ASSUME UNCHANGED <<parent, raw, get>> PROVE ClassPlaces' = ClassPlaces
BY Zenon DEF ClassPlaces

LEMMA ReadClassInv ==
    ASSUME EventInv, NEW c \in Classes, ReadClass(c)
    PROVE  EventInv'
<1>1. /\ UNCHANGED <<key, parent, classOf, proto, raw, get, set, traw, tget, tset, peer, vptr>>
      /\ changed' = changed /\ wrote' = NoWrite
  BY DEF ReadClass, identity, members, tables, peers
<1>2. ClassPlaces' = ClassPlaces
  BY <1>1, SamePlaces
<1>3. key = "name" /\ ClassPlaces[c].kind = "raw" /\ raw[ClassPlaces[c].at] \in Functions
      /\ cache' = [cache EXCEPT ![c] = raw[ClassPlaces[c].at]]
  BY DEF ReadClass, ByName, Nowhere, Place
<1>4. TypeOK' /\ (key \in {"name", "number"})' /\ Older' /\ (classOf \in [Objects -> Classes])'
  BY <1>1, <1>3 DEF EventInv, TypeOK, Older, Values
<1>5. CopyInv'
  <2>1. ASSUME NEW d \in Classes, d \notin changed, cache'[d] # Nil
        PROVE  /\ key = "name" /\ ClassPlaces[d].kind = "raw"
               /\ raw[ClassPlaces[d].at] = cache'[d]
    <3>1. CASE d = c
      BY <1>3, <3>1 DEF EventInv, TypeOK
    <3>2. CASE d # c
      BY <1>3, <2>1, <3>2 DEF EventInv, TypeOK, CopyInv
    <3>. QED BY <3>1, <3>2
  <2>. QED BY <1>1, <1>2, <2>1 DEF CopyInv
<1>6. AssignedIsRead'
  BY <1>1, NothingWritten
<1>. QED BY <1>4, <1>5, <1>6 DEF EventInv

LEMMA AssignClassInv ==
    ASSUME EventInv, NEW c \in Classes, NEW v \in Values, AssignClass(c, v)
    PROVE  EventInv'
<1>1. /\ UNCHANGED <<key, parent, classOf, proto, raw, get, set, traw, tget, tset, peer, vptr>>
      /\ changed' = changed \cup {c} /\ wrote' = NoWrite
      /\ cache' = [cache EXCEPT ![c] = v]
  BY DEF AssignClass, identity, members, tables, peers
<1>2. ClassPlaces' = ClassPlaces
  BY <1>1, SamePlaces
<1>3. TypeOK' /\ (key \in {"name", "number"})' /\ Older' /\ (classOf \in [Objects -> Classes])'
  BY <1>1 DEF EventInv, TypeOK, Older
<1>4. CopyInv'
  <2>1. \A d \in Classes \ changed' : d \in Classes \ changed /\ cache'[d] = cache[d]
    BY <1>1 DEF EventInv, TypeOK
  <2>. QED BY <1>1, <1>2, <2>1 DEF EventInv, CopyInv
<1>5. AssignedIsRead'
  BY <1>1, NothingWritten
<1>. QED BY <1>3, <1>4, <1>5 DEF EventInv

-----------------------------------------------------------------------------
(* What an assignment to an object does.                                   *)

\* Assigning changes no table but the peer of an object whose key was found
\* nowhere.
LEMMA AssignedTable ==
    ASSUME EventInv, NEW o \in Objects
    PROVE  /\ NewIndexEvent(o).kind = "table" => NewIndexEvent(o).at \in Tables
           /\ \/ NewIndexEvent(o).kind # "table"
              \/ NewIndexEvent(o).at \in traw
              \/ /\ PeerTargets[peer[o]] = Nowhere /\ SetterPlaces[classOf[o]] = Nowhere
                 /\ peer[o] \in Tables /\ NewIndexEvent(o) = Place("table", peer[o])
<1>1. /\ peer[o] \in 0..NumTables /\ classOf[o] \in Classes /\ NumTables \in Nat
      /\ traw \subseteq Tables /\ tset \subseteq Tables /\ Older
  BY EventAssumption DEF EventInv, TypeOK
<1>2. CASE PeerTargets[peer[o]] # Nowhere
  <2>1. NewIndexEvent(o) = PeerTargets[peer[o]]
    BY <1>2 DEF NewIndexEvent
  <2>2. \/ \E u \in traw : NewIndexEvent(o) = Place("table", u)
        \/ \E u \in tset : NewIndexEvent(o) = Place("tset", u)
    BY <1>1, <1>2, <2>1, TargetFound
  <2>. QED BY <1>1, <2>2 DEF Place
<1>3. CASE PeerTargets[peer[o]] = Nowhere /\ SetterPlaces[classOf[o]] # Nowhere
  <2>1. NewIndexEvent(o) = SetterPlaces[classOf[o]]
    BY <1>3 DEF NewIndexEvent
  <2>2. \/ NewIndexEvent(o) = Lost
        \/ \E d \in Ancestry[classOf[o]] : NewIndexEvent(o) = Place("set", d)
    BY <1>1, <1>3, <2>1, SetterFound
  <2>. QED BY <2>2 DEF Place, Lost
<1>4. CASE PeerTargets[peer[o]] = Nowhere /\ SetterPlaces[classOf[o]] = Nowhere
  <2>1. CASE peer[o] # 0 /\ o \notin nulls
    <3>1. NewIndexEvent(o) = Place("table", peer[o]) /\ peer[o] \in Tables
      BY <1>1, <1>4, <2>1 DEF NewIndexEvent, Tables
    <3>. QED BY <1>4, <3>1 DEF Place
  <2>2. CASE ~(peer[o] # 0 /\ o \notin nulls)
    <3>1. NewIndexEvent(o) = Refused
      BY <1>4, <2>2 DEF NewIndexEvent
    <3>. QED BY <3>1 DEF Refused, Place
  <2>. QED BY <2>1, <2>2
<1>. QED BY <1>2, <1>3, <1>4

\* A setter of the class takes the value: its getter gives it back.
LEMMA SetterHasGetter ==
    ASSUME EventInv, NEW o \in Objects, Declared(o), NEW d,
           SetterPlaces[classOf[o]] = Place("set", d)
    PROVE  ClassPlaces[classOf[o]] = Place("get", d)
<1> DEFINE c == classOf[o]
<1>1. c \in Classes /\ Older /\ NumClasses \in Nat
  BY EventAssumption DEF EventInv
<1>2. c \in 1..NumClasses /\ AncestryEq /\ SetterPlacesEq /\ ClassPlacesEq
  BY <1>1, AncestryEquation, SetterEquation, ClassEquation DEF Classes
<1>3. c \in Ancestry[c] /\ Ancestry[c] \subseteq 1..c
  BY <1>1, AncestryRange
<1>4. d \in Ancestry[c] \cap set
  <2>1. Place("set", d) \notin {Nowhere, Lost}
    BY DEF Place, Nowhere, Lost
  <2>2. PICK e \in Ancestry[c] \cap set : Place("set", d) = Place("set", e)
    BY <1>1, <2>1, SetterFound
  <2>. QED BY <2>2 DEF Place
<1>5. c \in set
  <2>1. d = c \/ c > d
    BY <1>2, <1>3, <1>4
  <2>. QED BY <1>3, <1>4, <2>1 DEF Declared
<1>6. d = c
  <2>1. SetterPlaces[c] = Place("set", c)
    BY <1>2, <1>5 DEF SetterPlacesEq
  <2>. QED BY <2>1 DEF Place
<1>7. raw[c] = Nil /\ c \in get
  BY <1>3, <1>5 DEF Declared
<1>. QED BY <1>2, <1>6, <1>7 DEF ClassPlacesEq

\* The assigned place answers, if the assignment changed no table.
LEMMA AssignedAgrees ==
    ASSUME EventInv, NEW o \in Objects, Declared(o),
           NewIndexEvent(o) = Place("table", peer[o]) => PeerTargets[peer[o]] # Nowhere
    PROVE  LET place == NewIndexEvent(o)
           IN  /\ place.kind = "set" => IndexEvent(o) = Place("get", place.at)
               /\ place.kind = "tset" => IndexEvent(o) = Place("tget", place.at)
               /\ place.kind = "table" => IndexEvent(o) = place
<1> DEFINE place == NewIndexEvent(o)
<1>1. /\ peer[o] \in 0..NumTables /\ classOf[o] \in Classes /\ tget = tset
      /\ traw \subseteq Tables /\ tset \subseteq Tables /\ Older
  BY DEF EventInv, TypeOK, Declared
<1>2. CASE PeerTargets[peer[o]] # Nowhere
  <2>1. place = PeerTargets[peer[o]]
    BY <1>2 DEF NewIndexEvent
  <2>2. PeerPlaces[peer[o]] # Nowhere
    BY <1>1, <1>2, PeersAgree
  <2>3. IndexEvent(o) = PeerPlaces[peer[o]]
    BY <2>2 DEF IndexEvent
  <2>4. place.kind = "tset" \/ place.kind = "table"
    <3>1. \/ \E u \in traw : place = Place("table", u)
          \/ \E u \in tset : place = Place("tset", u)
      BY <1>1, <1>2, <2>1, TargetFound
    <3>. QED BY <3>1 DEF Place
  <2> HIDE DEF place
  <2>5. /\ place.kind = "tset" => PeerPlaces[peer[o]] = Place("tget", place.at)
        /\ place.kind = "table" => PeerPlaces[peer[o]] = place
    BY <1>1, <2>1, PeersAgree
  <2>. QED BY <2>3, <2>4, <2>5 DEF place
<1>3. CASE PeerTargets[peer[o]] = Nowhere
  <2>1. PeerPlaces[peer[o]] = Nowhere
    BY <1>1, <1>3, PeersAgree
  <2>2. IndexEvent(o) = ClassPlaces[classOf[o]]
    BY <2>1 DEF IndexEvent
  <2>3. CASE SetterPlaces[classOf[o]] # Nowhere
    <3>1. place = SetterPlaces[classOf[o]]
      BY <1>3, <2>3 DEF NewIndexEvent
    <3>2. CASE place = Lost
      BY <3>2 DEF Lost, Place
    <3>3. ASSUME NEW d, place = Place("set", d)
          PROVE  ClassPlaces[classOf[o]] = Place("get", place.at) /\ place.kind = "set"
      <4>1. place.at = d /\ place.kind = "set"
        BY <3>3 DEF Place
      <4>2. ClassPlaces[classOf[o]] = Place("get", d)
        BY <3>1, <3>3, SetterHasGetter
      <4>. QED BY <4>1, <4>2
    <3>4. place = Lost \/ \E d \in Ancestry[classOf[o]] : place = Place("set", d)
      BY <1>1, <2>3, <3>1, SetterFound
    <3>. QED BY <2>2, <3>2, <3>3, <3>4
  <2>4. CASE SetterPlaces[classOf[o]] = Nowhere
    <3>1. place = Refused \/ place = Place("table", peer[o])
      BY <1>3, <2>4 DEF NewIndexEvent
    <3>2. place = Refused
      BY <1>3, <3>1
    <3>. QED BY <3>2 DEF Refused, Place
  <2>. QED BY <2>3, <2>4
<1>. QED BY <1>2, <1>3

LEMMA AssignInv ==
    ASSUME EventInv, NEW o \in Objects, NEW isNil \in BOOLEAN, Assign(o, isNil)
    PROVE  EventInv'
<1> DEFINE place == NewIndexEvent(o)
<1>1. /\ UNCHANGED <<key, parent, classOf, nulls, raw, get, set, cache, proto>>
      /\ UNCHANGED <<tget, tset, peer, vptr, changed>>
  BY DEF Assign, identity, members, peers
<1>2. /\ traw' = IF place.kind # "table" THEN traw
                 ELSE IF isNil THEN traw \ {place.at} ELSE traw \cup {place.at}
      /\ wrote' = IF isNil THEN NoWrite ELSE [obj |-> o, place |-> place]
  BY DEF Assign
<1>3. TypeOK' /\ (key \in {"name", "number"})' /\ Older' /\ (classOf \in [Objects -> Classes])'
  <2>1. traw' \subseteq Tables
    BY <1>2, AssignedTable DEF EventInv, TypeOK
  <2>. QED BY <1>1, <2>1 DEF EventInv, TypeOK, Older
<1>4. CopyInv'
  BY <1>1, SamePlaces DEF EventInv, CopyInv
<1>5. AssignedIsRead'
  <2>1. CASE isNil
    BY <1>2, <2>1, NothingWritten
  <2>2. CASE ~isNil /\ traw' = traw
    <3>1. IndexEvent(o)' = IndexEvent(o) /\ (Declared(o)' <=> Declared(o))
      <4>1. PeerPlaces' = PeerPlaces
        BY <1>1, <2>2, Zenon DEF PeerPlaces
      <4>. QED BY <1>1, <4>1, SamePlaces, AncestryKept DEF IndexEvent, Declared
    <3>2. ASSUME Declared(o)
          PROVE  /\ place.kind = "set" => IndexEvent(o) = Place("get", place.at)
                 /\ place.kind = "tset" => IndexEvent(o) = Place("tget", place.at)
                 /\ place.kind = "table" => IndexEvent(o) = place
      <4>1. CASE place = Place("table", peer[o]) /\ PeerTargets[peer[o]] = Nowhere
        <5>1. place.kind = "table" /\ place.at = peer[o] /\ peer[o] \in Tables
          BY <4>1, AssignedTable DEF Place
        <5>2. peer[o] \in traw
          BY <1>2, <2>2, <5>1
        <5>3. PeerTargetsEq /\ peer[o] \in 1..NumTables
          BY <5>1, TargetEquation DEF EventInv, Tables
        <5>4. PeerTargets[peer[o]] = Place("table", peer[o])
          BY <5>2, <5>3 DEF PeerTargetsEq
        <5>. QED BY <4>1, <5>4 DEF Place, Nowhere
      <4>2. CASE ~(place = Place("table", peer[o]) /\ PeerTargets[peer[o]] = Nowhere)
        BY <3>2, <4>2, AssignedAgrees
      <4>. QED BY <4>1, <4>2
    <3>3. wrote'.obj = o /\ wrote'.place = place
      BY <1>2, <2>2
    <3> HIDE DEF place
    <3>. QED BY <3>1, <3>2, <3>3 DEF AssignedIsRead, Place
  <2>3. CASE ~isNil /\ traw' # traw
    <3>1. place = Place("table", peer[o]) /\ peer[o] \in Tables
      BY <1>2, <2>3, AssignedTable
    <3>2. place.kind = "table" /\ place.at = peer[o]
      BY <3>1 DEF Place
    <3>3. peer[o] \in traw'
      BY <1>2, <2>3, <3>2
    <3>4. PeerPlacesEq'
      <4>1. (Older => PeerPlacesEq)'
        BY PeerEquation, PTL
      <4>. QED BY <1>3, <4>1
    <3>5. peer[o] \in 1..NumTables
      BY <3>1 DEF Tables
    <3>6. PeerPlaces'[peer[o]] = Place("table", peer[o])
      BY <3>3, <3>4, <3>5 DEF PeerPlacesEq
    <3>7. IndexEvent(o)' = place
      BY <1>1, <3>1, <3>6 DEF IndexEvent, Place, Nowhere
    <3>8. wrote'.obj = o /\ wrote'.place = place
      BY <1>2, <2>3
    <3> HIDE DEF place
    <3>. QED BY <3>2, <3>7, <3>8 DEF AssignedIsRead
  <2>. QED BY <2>1, <2>2, <2>3
<1>. QED BY <1>3, <1>4, <1>5 DEF EventInv

\* Steps on peers and Lua tables.
LEMMA PeerInv ==
    ASSUME EventInv, \/ \E o \in Objects, t \in Tables : SetPeer(o, t)
                     \/ \E o \in Objects : RemovePeer(o)
                     \/ \E t \in Tables : Prepare(t)
    PROVE  EventInv'
<1>1. /\ UNCHANGED <<key, parent, classOf, raw, get, set, cache, changed>>
      /\ wrote' = NoWrite
  BY DEF SetPeer, RemovePeer, Prepare, identity, members
<1>2. (key \in {"name", "number"})' /\ (classOf \in [Objects -> Classes])'
  BY <1>1 DEF EventInv
<1>3. CopyInv'
  BY <1>1, SamePlaces DEF EventInv, CopyInv
<1>4. AssignedIsRead'
  BY <1>1, NothingWritten
<1>5. /\ parent \in [Classes -> 0..NumClasses] /\ \A c \in Classes : parent[c] < c
      /\ proto \in [Tables -> 0..NumTables] /\ \A t \in Tables : proto[t] < t
      /\ NumTables \in Nat /\ TypeOK
  BY EventAssumption DEF EventInv, Older
<1>6. TypeOK' /\ Older'
  <2>1. ASSUME NEW o \in Objects, NEW t \in Tables, SetPeer(o, t) PROVE TypeOK' /\ Older'
    <3>1. UNCHANGED <<traw, tget, tset, proto>>
      BY <2>1 DEF SetPeer, tables
    <3>2. peer' \in [Objects -> 0..NumTables]
      BY <1>5, <2>1 DEF SetPeer, Tables, TypeOK
    <3>3. vptr' \in [Tables -> Objects \cup {Nil}]
      BY <1>5, <2>1 DEF SetPeer, TypeOK
    <3>. QED BY <1>1, <1>5, <3>1, <3>2, <3>3 DEF TypeOK, Older
  <2>2. ASSUME NEW o \in Objects, RemovePeer(o) PROVE TypeOK' /\ Older'
    <3>1. UNCHANGED <<traw, tget, tset, proto, vptr>>
      BY <2>2 DEF RemovePeer, tables
    <3>2. peer' \in [Objects -> 0..NumTables]
      BY <1>5, <2>2 DEF RemovePeer, TypeOK
    <3>. QED BY <1>1, <1>5, <3>1, <3>2 DEF TypeOK, Older
  <2>3. ASSUME NEW t \in Tables, Prepare(t) PROVE TypeOK' /\ Older'
    <3>1. UNCHANGED <<peer, vptr>>
      BY <2>3 DEF Prepare, peers
    <3>2. traw' \subseteq Tables /\ tget' \subseteq Tables /\ tset' \subseteq Tables
      BY <1>5, <2>3 DEF Prepare, TypeOK
    <3>3. /\ proto' \in [Tables -> 0..NumTables]
          /\ \A u \in Tables : proto'[u] < u
      <4>1. CASE proto' = proto
        BY <1>5, <4>1
      <4>2. ASSUME NEW p \in 0..(t - 1), proto' = [proto EXCEPT ![t] = p]
            PROVE  /\ proto' \in [Tables -> 0..NumTables]
                   /\ \A u \in Tables : proto'[u] < u
        <5>1. p \in 0..NumTables /\ p < t
          BY <1>5 DEF Tables
        <5>. QED BY <1>5, <4>2, <5>1
      <4>. QED BY <2>3, <4>1, <4>2 DEF Prepare
    <3>. QED BY <1>1, <1>5, <3>1, <3>2, <3>3 DEF TypeOK, Older
  <2>. QED BY <2>1, <2>2, <2>3
<1>. QED BY <1>1, <1>2, <1>3, <1>4, <1>6 DEF EventInv

LEMMA EventStutter == ASSUME EventInv, UNCHANGED vars PROVE EventInv'
<1>1. /\ UNCHANGED <<key, parent, classOf, nulls, raw, get, set, cache, proto>>
      /\ UNCHANGED <<traw, tget, tset, peer, vptr, changed, wrote>>
  BY DEF vars, identity, members, tables, peers
<1>2. ClassPlaces' = ClassPlaces /\ Ancestry' = Ancestry /\ PeerPlaces' = PeerPlaces
  <2>1. PeerPlaces' = PeerPlaces
    BY <1>1, Zenon DEF PeerPlaces
  <2>. QED BY <1>1, <2>1, SamePlaces, AncestryKept
<1>3. TypeOK' /\ (key \in {"name", "number"})' /\ Older' /\ (classOf \in [Objects -> Classes])'
  BY <1>1 DEF EventInv, TypeOK, Older
<1>4. CopyInv'
  BY <1>1, <1>2 DEF EventInv, CopyInv
<1>5. AssignedIsRead'
  <2>1. \A o : (Declared(o)' <=> Declared(o)) /\ IndexEvent(o)' = IndexEvent(o)
    BY <1>1, <1>2 DEF Declared, IndexEvent
  <2>. QED BY <1>1, <2>1, Zenon DEF EventInv, AssignedIsRead
<1>. QED BY <1>3, <1>4, <1>5 DEF EventInv

LEMMA EventNext == ASSUME EventInv, [Next]_vars PROVE EventInv'
<1>1. CASE Next
  BY <1>1, HoldInv, AssignClassInv, VariableInv, ReadClassInv, AssignInv, PeerInv DEF Next
<1>2. CASE UNCHANGED vars
  BY <1>2, EventStutter
<1>. QED BY <1>1, <1>2

THEOREM EventsInvariance == Spec => []EventInv
<1>1. Init => EventInv
  BY EventInit
<1>2. EventInv /\ [Next]_vars => EventInv'
  BY EventNext
<1>. QED BY <1>1, <1>2, PTL DEF Spec

\* A class table, an object without a peer and the base of a peer answer
\* the same, for every chain of base classes (tolua.c, class_index_event and vptr_index_event).
THEOREM ClassAnswersAgree == Spec => []ThreeWaysToAClass
<1>1. EventInv => ThreeWaysToAClass
  <2> SUFFICES ASSUME EventInv PROVE ThreeWaysToAClass
    OBVIOUS
  <2>1. ASSUME NEW c \in Classes \ changed
        PROVE  ClassAnswer(c) = Answer(ByName(c))
    <3>1. CASE cache[c] # Nil
      <4>1. key = "name" /\ ClassPlaces[c].kind = "raw" /\ raw[ClassPlaces[c].at] = cache[c]
        BY <2>1, <3>1 DEF EventInv, CopyInv
      <4>. QED BY <3>1, <4>1 DEF ClassAnswer, Answer, ByName
    <3>2. CASE cache[c] = Nil
      BY <3>2 DEF ClassAnswer
    <3>. QED BY <3>1, <3>2
  <2>2. PeerPlaces[0] = Nowhere
    BY PeerEquation DEF EventInv, PeerPlacesEq
  <2>. QED BY <2>1, <2>2 DEF ThreeWaysToAClass, BaseIndexEvent, IndexEvent, ByName
<1>. QED BY <1>1, EventsInvariance, PTL

\* What was assigned without an error is read back (class_newindex_event
\* and class_index_event), for every chain of base classes and prototypes.
THEOREM AssignmentsRead == Spec => []AssignedIsRead
<1>1. EventInv => AssignedIsRead
  BY DEF EventInv
<1>. QED BY <1>1, EventsInvariance, PTL

-----------------------------------------------------------------------------
(* Errors of the host functions.                                           *)

\* What is left of the stack when its innermost activations have gone.
LEMMA Popped ==
    ASSUME ErrorInv, NEW k \in 1..Len(stack)
    PROVE  LET s == SubSeq(stack, 1, k - 1)
           IN /\ s \in Seq(Activation) /\ Len(s) = k - 1 /\ Len(s) < Depth
              /\ Len(s) > 0 => s[1].protected
              /\ \A i \in DOMAIN s : ~s[i].raised
<1> DEFINE s == SubSeq(stack, 1, k - 1)
<1>1. stack \in Seq(Activation) /\ Len(stack) \in Nat
  BY DEF ErrorInv, ErrorTypeOK
<1>2. /\ s \in Seq(Activation)
      /\ Len(s) = k - 1
      /\ \A i \in 1..(k - 1) : s[i] = stack[i]
  BY <1>1, SubSeqProperties
<1>3. \A i \in 1..(k - 1) : ~stack[i].raised
  BY <1>1 DEF ErrorInv, FlagOfTop, Depth
<1> QED BY <1>1, <1>2, <1>3 DEF ErrorInv, ErrorTypeOK, Depth

LEMMA NoErrorFirst == ErrorInit => ErrorInv
BY ClosureAssumption DEF ErrorInit, ErrorInv, ErrorTypeOK, NoErrorLost,
       NoErrorInvented, FlagOfTop, Ending, Depth,
       Top

LEMMA CallInv ==
    ASSUME ErrorInv,
           NEW f \in HostFunctions, NEW protected \in BOOLEAN, Call(f, protected)
    PROVE  ErrorInv'
<1> DEFINE a == [fn |-> f, protected |-> protected, raised |-> FALSE]
<1>1. a \in Activation
  BY DEF Activation
<1>2. /\ stack' \in Seq(Activation) /\ Len(stack') = Len(stack) + 1
      /\ stack'[Len(stack) + 1] = a
      /\ \A i \in 1..Len(stack) : stack'[i] = stack[i]
  BY <1>1 DEF Call, ErrorInv, ErrorTypeOK
<1>3. /\ Len(stack) \in Nat /\ flag' = flag /\ last' = last /\ a.raised = FALSE
      /\ starved' = starved
  BY DEF Call, ErrorInv, ErrorTypeOK
<1>4. \A i \in 1..Len(stack) : ~stack[i].raised
  BY <1>3 DEF Call, ErrorInv, FlagOfTop, Depth, Top
<1>5. \A h \in HostFunctions : flag[h] => h \in starved
  BY <1>3 DEF Call, ErrorInv, FlagOfTop, Depth, Top
<1>6. \A i \in 1..Len(stack') : ~stack'[i].raised
  BY <1>2, <1>3, <1>4
<1>7. FlagOfTop'
  BY <1>2, <1>3, <1>5, <1>6 DEF FlagOfTop, Depth, Top
<1>8. Depth' > 0 => stack'[1].protected
  <2>1. CASE Depth = 0
    BY <1>2, <1>3, <2>1 DEF Call, Depth
  <2>2. CASE Depth # 0
    BY <1>2, <1>3, <2>2 DEF ErrorInv, ErrorTypeOK, Depth
  <2> QED BY <2>1, <2>2
<1>9. ErrorTypeOK'
  BY ClosureAssumption, <1>2, <1>3, <1>8 DEF Call, ErrorInv, ErrorTypeOK, Depth
<1> QED BY <1>3, <1>7, <1>9 DEF ErrorInv, NoErrorLost, NoErrorInvented

\* An error that unwinds the stack while no flag is set but those of reports
\* that ran out of memory.
LEMMA UnwindInv ==
    ASSUME ErrorInv, Unwind,
           flag' \in [HostFunctions -> BOOLEAN],
           \A f \in HostFunctions : flag'[f] => f \in starved',
           last' \in Ending, starved' \in SUBSET HostFunctions,
           NoErrorLost', NoErrorInvented'
    PROVE  ErrorInv'
<1>1. PICK k \in DOMAIN stack : stack' = SubSeq(stack, 1, k - 1)
  BY DEF Unwind
<1>2. k \in 1..Len(stack)
  BY <1>1 DEF ErrorInv, ErrorTypeOK
<1>3. /\ stack' \in Seq(Activation) /\ Len(stack') < Len(stack)
      /\ Len(stack') > 0 => stack'[1].protected
      /\ \A i \in DOMAIN stack' : ~stack'[i].raised
  BY <1>1, <1>2, Popped DEF Depth
<1>4. Len(stack') \in Nat
  BY <1>3
<1>5. FlagOfTop'
  BY <1>3, <1>4 DEF FlagOfTop, Depth, Top
<1>6. ErrorTypeOK'
  BY ClosureAssumption, <1>3, <1>4 DEF ErrorInv, ErrorTypeOK, Depth
<1> QED BY <1>5, <1>6 DEF ErrorInv

\* The innermost activation.
LEMMA TopType ==
    ASSUME ErrorInv, Depth > 0
    PROVE  /\ stack \in Seq(Activation) /\ Len(stack) \in Nat
           /\ Depth \in 1..Len(stack) /\ Depth = Len(stack) /\ Top = stack[Depth]
           /\ Top \in Activation /\ Top.fn \in HostFunctions
           /\ Top.raised \in BOOLEAN
<1>1. stack \in Seq(Activation)
  BY DEF ErrorInv, ErrorTypeOK
<1>2. Depth \in 1..Len(stack) /\ Len(stack) \in Nat
  BY <1>1 DEF Depth
<1>3. stack[Depth] \in Activation
  BY <1>1, <1>2
<1> QED BY <1>1, <1>2, <1>3 DEF Activation, Depth, Top

LEMMA ReportedType ==
    ASSUME NEW a \in Activation
    PROVE  /\ Reported(a) \in Activation /\ Reported(a).raised = TRUE
           /\ Reported(a).fn = a.fn /\ Reported(a).protected = a.protected
BY DEF Activation, Reported

LEMMA ReportInv ==
    ASSUME ErrorInv, Report
    PROVE  ErrorInv'
<1> DEFINE a == Reported(stack[Depth])
<1>1. /\ stack \in Seq(Activation) /\ Len(stack) \in Nat /\ Depth \in 1..Len(stack)
      /\ stack[Depth] \in Activation /\ stack[Depth].fn \in HostFunctions
  BY TopType DEF Report
<1>2. /\ a \in Activation /\ a.raised = TRUE /\ a.fn = stack[Depth].fn
      /\ a.protected = stack[Depth].protected
  BY <1>1, ReportedType
<1>3. stack' = [stack EXCEPT ![Depth] = a] /\ last' = last /\ starved' = starved
      /\ flag' = [flag EXCEPT ![stack[Depth].fn] = TRUE]
  BY DEF Report, Top
<1>4. /\ stack' \in Seq(Activation) /\ Len(stack') = Len(stack)
      /\ stack'[Depth] = a
      /\ \A i \in 1..Len(stack) : i # Depth => stack'[i] = stack[i]
  BY <1>1, <1>2, <1>3
<1>5. ErrorTypeOK'
  <2>1. flag' \in [HostFunctions -> BOOLEAN]
    BY <1>1, <1>3 DEF ErrorInv, ErrorTypeOK
  <2>2. stack'[1].protected
    BY <1>1, <1>2, <1>4 DEF ErrorInv, ErrorTypeOK, Depth
  <2> QED BY <1>3, <1>4, <2>1, <2>2 DEF ErrorInv, ErrorTypeOK, Depth
<1>6. FlagOfTop'
  <2>1. \A i \in DOMAIN stack' : i < Depth' => ~stack'[i].raised
    BY <1>1, <1>4 DEF ErrorInv, FlagOfTop, Depth
  <2>2. Depth' = Depth /\ Top' = a
    BY <1>4 DEF Depth, Top
  <2>3. flag'[a.fn]
    BY <1>1, <1>2, <1>3 DEF ErrorInv, ErrorTypeOK
  <2>4. \A f \in HostFunctions : flag[f] => f \in starved
    BY DEF ErrorInv, FlagOfTop, Report
  <2>5. \A f \in HostFunctions : flag'[f] => f \in starved' \/ a.fn = f
    BY <1>1, <1>2, <1>3, <2>4 DEF ErrorInv, ErrorTypeOK
  <2> QED BY <1>1, <1>2, <2>1, <2>2, <2>3, <2>5 DEF FlagOfTop
<1> QED BY <1>3, <1>5, <1>6 DEF ErrorInv, NoErrorLost, NoErrorInvented

LEMMA ReportStarvesInv ==
    ASSUME ErrorInv, ReportStarves
    PROVE  ErrorInv'
<1>1. Top.fn \in HostFunctions
  BY TopType DEF ReportStarves
<1>2. \A f \in HostFunctions : flag[f] => f \in starved
  BY DEF ErrorInv, FlagOfTop, ReportStarves
<1>3. /\ flag' \in [HostFunctions -> BOOLEAN]
      /\ \A f \in HostFunctions : flag'[f] => f \in starved'
      /\ starved' \in SUBSET HostFunctions
  BY <1>1, <1>2 DEF ErrorInv, ErrorTypeOK, ReportStarves
<1>4. last' \in Ending /\ NoErrorLost' /\ NoErrorInvented'
  BY DEF ErrorInv, ErrorTypeOK, ReportStarves, NoErrorLost,
         NoErrorInvented
<1> QED BY <1>3, <1>4, UnwindInv DEF ReportStarves

LEMMA ApiErrorInv ==
    ASSUME ErrorInv, ApiError
    PROVE  ErrorInv'
<1>1. \A f \in HostFunctions : flag[f] => f \in starved
  BY DEF ErrorInv, FlagOfTop, ApiError
<1>2. /\ flag' \in [HostFunctions -> BOOLEAN]
      /\ \A f \in HostFunctions : flag'[f] => f \in starved'
      /\ last' \in Ending /\ NoErrorLost' /\ NoErrorInvented'
      /\ starved' \in SUBSET HostFunctions
  BY <1>1 DEF ErrorInv, ErrorTypeOK, ApiError, NoErrorLost,
              NoErrorInvented
<1> QED BY <1>2, UnwindInv DEF ApiError

LEMMA ReturnInv ==
    ASSUME ErrorInv, Return
    PROVE  ErrorInv'
<1>1. /\ stack \in Seq(Activation)
      /\ Depth \in 1..Len(stack) /\ Top \in Activation
      /\ Top.fn \in HostFunctions /\ Top.raised \in BOOLEAN
  BY TopType DEF Return
<1>2. /\ Top.raised => flag[Top.fn]
      /\ flag[Top.fn] => Top.raised \/ Top.fn \in starved
      /\ flag[Top.fn] \in BOOLEAN
  BY <1>1 DEF ErrorInv, ErrorTypeOK, FlagOfTop
<1>3. last' \in Ending /\ NoErrorLost' /\ NoErrorInvented'
  BY <1>1, <1>2 DEF Return, Ending, NoErrorLost,
                    NoErrorInvented, ErrorInv, ErrorTypeOK
<1>4. /\ flag' \in [HostFunctions -> BOOLEAN] /\ starved' \in SUBSET HostFunctions
      /\ \A f \in HostFunctions : flag'[f] => f \in starved'
  BY <1>1 DEF Return, ErrorInv, ErrorTypeOK, FlagOfTop
<1>5. CASE flag[Top.fn]
  BY <1>3, <1>4, <1>5, UnwindInv DEF Return
<1>6. CASE ~flag[Top.fn]
  <2>1. stack' = SubSeq(stack, 1, Depth - 1)
    BY <1>6 DEF Return
  <2>2. /\ stack' \in Seq(Activation) /\ Len(stack') < Len(stack)
        /\ Len(stack') > 0 => stack'[1].protected
        /\ \A i \in DOMAIN stack' : ~stack'[i].raised
    BY <1>1, <2>1, Popped DEF Depth
  <2>3. Len(stack') \in Nat
    BY <2>2
  <2>4. FlagOfTop'
    BY <1>4, <2>2, <2>3 DEF FlagOfTop, Depth, Top
  <2>5. ErrorTypeOK'
    BY ClosureAssumption, <1>3, <1>4, <2>2, <2>3 DEF ErrorInv, ErrorTypeOK, Depth
  <2> QED BY <1>3, <2>4, <2>5 DEF ErrorInv
<1> QED BY <1>5, <1>6

LEMMA ErrorsNext ==
    ASSUME ErrorInv, [ErrorNext]_errorVars
    PROVE  ErrorInv'
<1>1. CASE UNCHANGED errorVars
  BY <1>1 DEF errorVars, ErrorInv, ErrorTypeOK, NoErrorLost,
              NoErrorInvented, FlagOfTop, Depth, Top
<1> QED BY <1>1, CallInv, ReportInv, ReportStarvesInv, ApiErrorInv, ReturnInv DEF ErrorNext

\* The flags and the activations always agree.
THEOREM ErrorsInvariance == ErrorSpec => []ErrorInv
<1>1. ErrorInit => ErrorInv
  BY NoErrorFirst
<1>2. ErrorInv /\ [ErrorNext]_errorVars => ErrorInv'
  BY ErrorsNext
<1> QED BY <1>1, <1>2, PTL DEF ErrorSpec

\* For any number of host functions, nested as deep as they may be, errors
\* that are reported are raised (tolua_error, tolua_closure).
THEOREM ErrorsArrive == ErrorSpec => []NoErrorLost
<1>1. ErrorInv => NoErrorLost
  BY DEF ErrorInv
<1> QED BY <1>1, ErrorsInvariance, PTL

\* And a host function that reported no error raises none, unless an earlier
\* report of it ran out of memory.
THEOREM ErrorsAreOwn == ErrorSpec => []NoErrorInvented
<1>1. ErrorInv => NoErrorInvented
  BY DEF ErrorInv
<1> QED BY <1>1, ErrorsInvariance, PTL

\* The variables keep their types, and Lua is called in protected mode.
THEOREM ErrorsTypeCorrect == ErrorSpec => []ErrorTypeOK
<1>1. ErrorInv => ErrorTypeOK
  BY DEF ErrorInv
<1> QED BY <1>1, ErrorsInvariance, PTL
=============================================================================
