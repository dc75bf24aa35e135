---------------------------- MODULE ClassEvents ----------------------------
(***************************************************************************)
(* What Lua reads and writes in registered classes and their objects       *)
(* (src/tolua.c): class_index_event and class_newindex_event, the events   *)
(* of tolua's "base" (vptr), and peers.                                    *)
(*                                                                         *)
(* A registered class has a metatable with its functions, constants and    *)
(* properties, whose own metatable is that of its base class, and a class  *)
(* table for Lua, into which static functions are copied when they are     *)
(* first read.  An object is a userdata with the metatable of its class.   *)
(* It may be given a peer, a Lua table that comes before the class and     *)
(* may have prototypes (metatables) of its own; the peer's field "base"    *)
(* leads past the peer to the class.                                       *)
(*                                                                         *)
(* The module follows one key, a name or a number: nothing here relates    *)
(* different keys.  For a number the getter and the setter of a class are  *)
(* its functions .geti and .seti, and a class holds no value.              *)
(***************************************************************************)
EXTENDS Naturals, FiniteSets

CONSTANTS NumClasses,   \* classes are numbered in the order of registration
          NumTables,    \* Lua tables, numbered in the order of creation
          Objects,      \* userdata
          Functions,    \* functions of the host
          Constants,    \* other values a class may hold
          Nil,          \* Lua's nil
          MaxDeclared   \* bound: declarations of the key in all places

Classes == 1..NumClasses
Tables  == 1..NumTables
Values  == Functions \cup Constants

ASSUME EventAssumption ==
    /\ NumClasses \in Nat \ {0} /\ NumTables \in Nat /\ MaxDeclared \in Nat
    /\ Nil \notin Values /\ Nil \notin Objects

VARIABLES key,         \* "name" or "number"
          parent,      \* base class, 0 if there is none
          classOf,     \* the class of each object
          nulls,       \* objects that stand for the host's null
          raw,         \* what a class holds under the key
          get, set,    \* classes with a getter, a setter for it
          cache,       \* what the class table holds under the key
          traw,        \* Lua tables that hold a value under the key
          tget, tset,  \* Lua tables with a getter, a setter for it
          proto,       \* metatable of a Lua table, 0 if it has none
          peer,        \* the environment of an object, 0 for TOLUA_NOPEER
          vptr,        \* the object that the base of a peer leads to
          changed,     \* history: class tables with an entry that Lua
                       \* assigned, or that is older than a declaration
          wrote        \* history: object and place of an assignment, if that
                       \* was the last step and gave the key a value

identity == <<key, parent, classOf, nulls>>
members  == <<raw, get, set>>
tables   == <<traw, tget, tset, proto>>
peers    == <<peer, vptr>>
vars == <<identity, members, cache, tables, peers, changed, wrote>>

-----------------------------------------------------------------------------
(* Places: where an event finds the key.                                   *)

Place(kind, at) == [kind |-> kind, at |-> at]
Nowhere == Place("nowhere", 0)
Lost    == Place("lost", 0)
Refused == Place("refused", 0)
NoWrite == [obj |-> Nil, place |-> Nowhere]

\* class_index_event from class c upwards: what the class holds goes before
\* its getter.
ClassPlaces[c \in 0..NumClasses] ==
    IF c = 0 THEN Nowhere
    ELSE IF raw[c] # Nil THEN Place("raw", c)
    ELSE IF c \in get THEN Place("get", c)
    ELSE ClassPlaces[parent[c]]

\* The same in the peer of an object, from table t upwards.
PeerPlaces[t \in 0..NumTables] ==
    IF t = 0 THEN Nowhere
    ELSE IF t \in traw THEN Place("table", t)
    ELSE IF t \in tget THEN Place("tget", t)
    ELSE PeerPlaces[proto[t]]

\* Reading an object.  Faulty variant: the class goes before the peer.
IndexClassFirst(o) ==
    IF ClassPlaces[classOf[o]] # Nowhere THEN ClassPlaces[classOf[o]]
                                         ELSE PeerPlaces[peer[o]]
IndexEvent(o) ==
    IF PeerPlaces[peer[o]] # Nowhere THEN PeerPlaces[peer[o]]
                                     ELSE ClassPlaces[classOf[o]]

\* Reading a class table that has no entry, or a base, starts at class c.
\* Neither looks for .geti.
ByName(c) == IF key = "name" THEN ClassPlaces[c] ELSE Nowhere

\* vptr_index_event.  Faulty variant: the base of a peer is that of the
\* class of its object.
BaseOfParent(t) == ByName(parent[classOf[vptr[t]]])
BaseIndexEvent(t) == ByName(classOf[vptr[t]])

\* class_newindex_event on an object: the setters from class c upwards.  A
\* number is looked for in the first class only, and dropped without an
\* error when that class has no .seti.
SetterPlaces[c \in 0..NumClasses] ==
    IF c = 0 THEN Nowhere
    ELSE IF c \in set THEN Place("set", c)
    ELSE IF key = "number" THEN Lost
    ELSE SetterPlaces[parent[c]]

\* The same in the peer: a value that is there is replaced where it is,
\* in a prototype as well.
PeerTargets[t \in 0..NumTables] ==
    IF t = 0 THEN Nowhere
    ELSE IF t \in traw THEN Place("table", t)
    ELSE IF t \in tset THEN Place("tset", t)
    ELSE PeerTargets[proto[t]]

\* Faulty variant: the setters of the class go before the peer.
NewIndexClassFirst(o) ==
    IF SetterPlaces[classOf[o]] \notin {Nowhere, Lost} THEN SetterPlaces[classOf[o]]
    ELSE IF PeerTargets[peer[o]] # Nowhere THEN PeerTargets[peer[o]]
    ELSE IF peer[o] # 0 /\ o \notin nulls THEN Place("table", peer[o])
    ELSE Refused

\* Assigning to an object.  A key that is found nowhere goes into the peer.
NewIndexEvent(o) ==
    IF PeerTargets[peer[o]] # Nowhere THEN PeerTargets[peer[o]]
    ELSE IF SetterPlaces[classOf[o]] # Nowhere THEN SetterPlaces[classOf[o]]
    ELSE IF peer[o] # 0 /\ o \notin nulls THEN Place("table", peer[o])
    ELSE Refused

\* Class c and its base classes.
Ancestry[c \in 0..NumClasses] ==
    IF c = 0 THEN {} ELSE {c} \cup Ancestry[parent[c]]

-----------------------------------------------------------------------------
Init ==
    /\ key \in {"name", "number"}
    /\ parent \in {p \in [Classes -> 0..NumClasses] : \A c \in Classes : p[c] < c}
    /\ classOf \in [Objects -> Classes]
    /\ nulls \in SUBSET Objects
    /\ raw = [c \in Classes |-> Nil] /\ get = {} /\ set = {}
    /\ cache = [c \in Classes |-> Nil]
    /\ traw = {} /\ tget = {} /\ tset = {} /\ proto = [t \in Tables |-> 0]
    /\ peer = [o \in Objects |-> 0] /\ vptr = [t \in Tables |-> Nil]
    /\ changed = {} /\ wrote = NoWrite

Room == MaxDeclared > Cardinality({c \in Classes : raw[c] # Nil}) + Cardinality(get)
            + Cardinality(set) + Cardinality(traw) + Cardinality(tget) + Cardinality(tset)

-----------------------------------------------------------------------------
(* The host declares.                                                      *)

\* Entries of class tables that a declaration in class c makes old.
Outdated(c) == {d \in Classes : c \in Ancestry[d] /\ cache[d] # Nil}

\* tolua_function and tolua_constant
Hold(c, v) ==
    /\ key = "name"
    /\ raw[c] = Nil => Room
    /\ raw' = [raw EXCEPT ![c] = v]
    /\ changed' = changed \cup Outdated(c)
    /\ wrote' = NoWrite
    /\ UNCHANGED <<identity, get, set, cache, tables, peers>>

\* tolua_variable, and tolua_function with the names .geti and .seti: a
\* property has a getter always and may have a setter.
Variable(c, getter, setter) ==
    /\ getter \/ setter
    /\ key = "name" => getter
    /\ Room
    /\ get' = IF getter THEN get \cup {c} ELSE get
    /\ set' = IF setter THEN set \cup {c} ELSE set
    /\ changed' = changed \cup Outdated(c)
    /\ wrote' = NoWrite
    /\ UNCHANGED <<identity, raw, cache, tables, peers>>

-----------------------------------------------------------------------------
(* Lua reads and assigns.                                                  *)

\* Faulty variant: the search starts above the class itself.
ReadClassKeepsBase(c) ==
    /\ cache[c] = Nil /\ parent[c] # 0
    /\ ByName(parent[c]).kind = "raw" /\ raw[ByName(parent[c]).at] \in Functions
    /\ cache' = [cache EXCEPT ![c] = raw[ByName(parent[c]).at]]
    /\ wrote' = NoWrite
    /\ UNCHANGED <<identity, members, tables, peers, changed>>

\* class_index_event on a class table: a function that is found is copied
\* into it.  Once it is there, Lua finds it without the event.
ReadClass(c) ==
    /\ cache[c] = Nil
    /\ ByName(c).kind = "raw" /\ raw[ByName(c).at] \in Functions
    /\ cache' = [cache EXCEPT ![c] = raw[ByName(c).at]]
    /\ wrote' = NoWrite
    /\ UNCHANGED <<identity, members, tables, peers, changed>>

\* Lua assigns v to an entry that is there, also without the event.  (With
\* the event nothing changes here: a setter is called or an error raised.)
AssignClass(c, v) ==
    /\ cache[c] # Nil
    /\ cache' = [cache EXCEPT ![c] = v]
    /\ changed' = changed \cup {c}
    /\ wrote' = NoWrite
    /\ UNCHANGED <<identity, members, tables, peers>>

\* class_newindex_event on an object; the value may be nil.  The stores of
\* the host and of the setters in peers are not followed.
Assign(o, isNil) ==
    /\ LET place == NewIndexEvent(o)
       IN /\ traw' = IF place.kind # "table" THEN traw
                     ELSE IF isNil THEN traw \ {place.at} ELSE traw \cup {place.at}
          /\ wrote' = IF isNil THEN NoWrite ELSE [obj |-> o, place |-> place]
    /\ traw' # traw => Room \/ isNil
    /\ UNCHANGED <<identity, members, cache, tget, tset, proto, peers, changed>>

\* tolua_bnd_setpeer: the table becomes the environment of the object, and
\* gets a new base that leads to the object.
SetPeer(o, t) ==
    /\ peer' = [peer EXCEPT ![o] = t]
    /\ vptr' = [vptr EXCEPT ![t] = o]
    /\ wrote' = NoWrite
    /\ UNCHANGED <<identity, members, cache, tables, changed>>

\* setpeer(o, nil): the table keeps its base.
RemovePeer(o) ==
    /\ peer[o] # 0
    /\ peer' = [peer EXCEPT ![o] = 0]
    /\ wrote' = NoWrite
    /\ UNCHANGED <<identity, members, cache, tables, vptr, changed>>

\* Lua puts the key into a table of its own, gives it a getter or a setter
\* (tolua_initgettable, tolua_initsettable; calling them again makes them
\* empty), or a metatable that is older than the table.
Prepare(t) ==
    /\ \/ t \notin traw /\ Room /\ traw' = traw \cup {t} /\ UNCHANGED <<tget, tset, proto>>
       \/ t \notin tget /\ Room /\ tget' = tget \cup {t} /\ UNCHANGED <<traw, tset, proto>>
       \/ t \notin tset /\ Room /\ tset' = tset \cup {t} /\ UNCHANGED <<traw, tget, proto>>
       \/ t \in tget /\ tget' = tget \ {t} /\ UNCHANGED <<traw, tset, proto>>
       \/ t \in tset /\ tset' = tset \ {t} /\ UNCHANGED <<traw, tget, proto>>
       \/ \E p \in 0..(t - 1) : proto' = [proto EXCEPT ![t] = p] /\ UNCHANGED <<traw, tget, tset>>
    /\ wrote' = NoWrite
    /\ UNCHANGED <<identity, members, cache, peers, changed>>

Next == \/ \E c \in Classes, v \in Values : Hold(c, v) \/ AssignClass(c, v)
        \/ \E c \in Classes, getter, setter \in BOOLEAN : Variable(c, getter, setter)
        \/ \E c \in Classes : ReadClass(c)
        \/ \E o \in Objects, isNil \in BOOLEAN : Assign(o, isNil)
        \/ \E o \in Objects, t \in Tables : SetPeer(o, t)
        \/ \E o \in Objects : RemovePeer(o)
        \/ \E t \in Tables : Prepare(t)

Spec == Init /\ [][Next]_vars

-----------------------------------------------------------------------------
TypeOK ==
    /\ raw \in [Classes -> Values \cup {Nil}] /\ cache \in [Classes -> Values \cup {Nil}]
    /\ get \subseteq Classes /\ set \subseteq Classes /\ changed \subseteq Classes
    /\ traw \subseteq Tables /\ tget \subseteq Tables /\ tset \subseteq Tables
    /\ proto \in [Tables -> 0..NumTables] /\ peer \in [Objects -> 0..NumTables]
    /\ vptr \in [Tables -> Objects \cup {Nil}]

\* What is read at a place.
Answer(place) == IF place.kind = "raw" THEN raw[place.at] ELSE place
ClassAnswer(c) == IF cache[c] # Nil THEN cache[c] ELSE Answer(ByName(c))

\* A class table, an object of the class without a peer and the base of its
\* peer answer the same, although the class table keeps copies: only an
\* assignment by Lua, or a declaration after the copy was made, parts them.
ThreeWaysToAClass ==
    \A c \in Classes \ changed :
        /\ \A t \in Tables : vptr[t] # Nil /\ classOf[vptr[t]] = c =>
              Answer(BaseIndexEvent(t)) = ClassAnswer(c)
        /\ \A o \in Objects : key = "name" /\ classOf[o] = c /\ peer[o] = 0 =>
              Answer(IndexEvent(o)) = ClassAnswer(c)

\* Every place that takes a value under the key gives it back: setters have
\* getters, and no class hides a property of a base class.
Declared(o) ==
    /\ tget = tset
    /\ \A c \in set : c \in get
    /\ \A c, d \in Ancestry[classOf[o]] : c > d /\ d \in set => c \in set
    /\ \A c \in Ancestry[classOf[o]] \cap set : raw[c] = Nil

\* An assignment that raised no error is read back from the place it went
\* to, whatever peer, prototypes, getters and setters the object has, unless
\* a number was dropped for want of a .seti.
AssignedIsRead ==
    wrote.obj # Nil /\ Declared(wrote.obj) =>
        CASE wrote.place.kind = "set"  -> IndexEvent(wrote.obj) = Place("get", wrote.place.at)
          [] wrote.place.kind = "tset" -> IndexEvent(wrote.obj) = Place("tget", wrote.place.at)
          [] wrote.place.kind = "table" -> IndexEvent(wrote.obj) = wrote.place
          [] OTHER -> TRUE
=============================================================================
