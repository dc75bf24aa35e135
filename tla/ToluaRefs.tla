------------------------------ MODULE ToluaRefs ------------------------------
(***************************************************************************)
(* The references tolua keeps in the Lua registry (src/tolua.c).           *)
(*                                                                         *)
(* The registry is an array.  Slot 0 heads a free list threaded through    *)
(* the freed slots (luaL_ref, luaL_unref); slots 1..Reserved are tolua's   *)
(* own (LUA_RIDX_...), filled once so that luaL_ref, which extends the     *)
(* array at its length, never hands one out.  toluaL_ref remembers the     *)
(* reference of a value in the FIXEDMAP table and answers a second request *)
(* with the same reference; toluaL_unref forgets it.  Class registration   *)
(* takes references of metatables from the same registry with luaL_ref,    *)
(* past the FIXEDMAP.                                                      *)
(*                                                                         *)
(* The owner of the references is the C# host, which is not part of the    *)
(* repository.  It keeps one object per reference (hostRefs); when the     *)
(* garbage collector of C# finalizes that object, on a thread of its own,  *)
(* the reference waits in a queue (pending) until the main thread drains   *)
(* it, so a value can be requested again in between.                       *)
(***************************************************************************)
EXTENDS Naturals, TabLen

CONSTANTS Values,       \* Lua objects: functions, tables, threads
          MetaTables,   \* those that registration creates as metatables
          Nil,          \* Lua's nil
          Reserved,     \* 64 in the code
          CheckValue,   \* LUA_RIDX_CHECKVALUE, a reserved slot that may be nil
          MaxSlot       \* bound: the registry never has more slots

\* 2 ^ b
TwoTo[b \in 0..MaxSlot] == IF b = 0 THEN 1 ELSE 2 * TwoTo[b - 1]

ASSUME SlotAssumption ==
    /\ Reserved \in Nat /\ CheckValue \in 1..(Reserved - 1)
    /\ MaxSlot \in Nat /\ Reserved < MaxSlot
ASSUME PowerAssumption == \E b \in 0..MaxSlot : Reserved = TwoTo[b]
ASSUME ValueAssumption ==
    /\ MetaTables \subseteq Values
    /\ Nil \notin Values /\ Nil \notin Nat
    /\ \A v \in Values : v \notin Nat

VARIABLES registry,   \* slot -> value; a number in a freed or prefilled slot
          fixedmap,   \* LUA_RIDX_FIXEDMAP: value -> reference, or Nil
          bound,      \* reference -> the value its owner got it for, or Nil
          hostRefs,   \* references that a live C# object holds
          pending,    \* references whose C# object was finalized
          classRefs   \* references of the registered classes and enums

vars == <<registry, fixedmap, bound, hostRefs, pending, classRefs>>

Slots == 0..MaxSlot
Refs  == (Reserved + 1)..MaxSlot

-----------------------------------------------------------------------------
(* luaL_ref and luaL_unref on a registry t.                                *)

\* lua_tointeger(t[FREELIST_REF]): the first free slot, 0 if there is none.
FreeHead(t) == IF t[0] \in Nat THEN t[0] ELSE 0

\* The lengths lua_objlen may answer: a border of the array.  LuaJIT probes
\* powers of two before anything between them, so with the last reserved
\* slot filled it does not stop at a nil among the reserved slots.  LengthSearched
\* asks this of the search itself (module TabLen).
Lengths(t) == {n \in 0..(MaxSlot - 1) : /\ n = 0 \/ t[n] # Nil
                                        /\ t[n + 1] = Nil
                                        /\ t[Reserved] # Nil => n >= Reserved}

\* The slots luaL_ref may answer.
NewRefs(t) == IF FreeHead(t) # 0 THEN {FreeHead(t)}
              ELSE {n + 1 : n \in Lengths(t)}

\* Faulty variant: the head of the free list stays where it is.
LuaRefKeepsHead(t, r, v) == [t EXCEPT ![r] = v]

\* luaL_ref(v) with the answer r: r leaves the free list if it heads it.
LuaRef(t, r, v) ==
    IF FreeHead(t) # 0 THEN [t EXCEPT ![0] = t[r], ![r] = v]
                       ELSE [t EXCEPT ![r] = v]

\* Faulty variants: the two writes of luaL_unref swapped; no link written.
LuaUnrefSwapped(t, r) == [t EXCEPT ![r] = r, ![0] = r]
LuaUnrefUnlinked(t, r) == [t EXCEPT ![r] = Nil, ![0] = r]

\* luaL_unref(r): r becomes the head of the free list.
LuaUnref(t, r) == [t EXCEPT ![r] = t[0], ![0] = r]
-----------------------------------------------------------------------------
(* The references of tolua.                                                *)

\* Faulty variant: the loop stops before the last reserved slot.
PrefilledTooShort == [i \in Slots |-> IF i \in 1..(Reserved - 1) THEN i ELSE Nil]

\* tolua_setluabaseridx: the reserved slots are filled with their numbers.
\* What tolua_openlibs stores in some of them afterwards is never nil.
Prefilled == [i \in Slots |-> IF i \in 1..Reserved THEN i ELSE Nil]

Init == /\ registry = Prefilled
        /\ fixedmap = [v \in Values |-> Nil]
        /\ bound = [r \in Refs |-> Nil]
        /\ hostRefs = {} /\ pending = {} /\ classRefs = {}

Live == hostRefs \cup pending \cup classRefs

\* tolua_openvaluetype: the global GetLuaValueType, nil when there is none.
OpenValueType(x) ==
    /\ registry' = [registry EXCEPT ![CheckValue] = x]
    /\ UNCHANGED <<fixedmap, bound, hostRefs, pending, classRefs>>

\* The answers of toluaL_ref(v) on the map m and the registry t.
RefAnswers(m, t, v) == IF m[v] # Nil THEN {m[v]} ELSE NewRefs(t)

\* toluaL_ref(v), the host's object for the answer included.  A nil value
\* raises an error at the write of the FIXEDMAP and changes nothing.
ToluaRef(v) ==
    /\ v \in MetaTables => \E r \in Live : bound[r] = v
    /\ \E r \in RefAnswers(fixedmap, registry, v) :
          /\ bound' = [bound EXCEPT ![r] = v]
          /\ hostRefs' = hostRefs \cup {r}
          /\ IF fixedmap[v] # Nil
             THEN UNCHANGED <<registry, fixedmap>>
             ELSE /\ registry' = LuaRef(registry, r, v)
                  /\ fixedmap' = [fixedmap EXCEPT ![v] = r]
    /\ UNCHANGED <<pending, classRefs>>

\* Faulty variant: toluaL_unref leaves the FIXEDMAP alone.
ForgetNothing(m, t, r) == m

\* The FIXEDMAP after toluaL_unref(r): the entry of the value in slot r is
\* dropped, whatever reference it has.
Forget(m, t, r) == [v \in Values |-> IF v = t[r] THEN Nil ELSE m[v]]

\* toluaL_unref(r)
ToluaUnref(r) ==
    /\ fixedmap' = Forget(fixedmap, registry, r)
    /\ registry' = LuaUnref(registry, r)
    /\ bound' = [bound EXCEPT ![r] = Nil]

-----------------------------------------------------------------------------
(* The owners.                                                             *)

\* The garbage collector of the host finalizes the object of r.
Finalize(r) ==
    /\ r \in hostRefs
    /\ hostRefs' = hostRefs \ {r}
    /\ pending' = pending \cup {r}
    /\ UNCHANGED <<registry, fixedmap, bound, classRefs>>

\* The main thread takes r from the queue.  The host lets it go when a new
\* object for the same reference was made in the meantime.
Drain(r) ==
    /\ r \in pending
    /\ pending' = pending \ {r}
    /\ IF r \in hostRefs THEN UNCHANGED <<registry, fixedmap, bound>>
                         ELSE ToluaUnref(r)
    /\ UNCHANGED <<hostRefs, classRefs>>

\* tolua_beginclass without a reference and tolua_beginenum: luaL_ref of a
\* metatable that is created here.
BeginClass(v) ==
    /\ \A r \in Refs : bound[r] # v
    /\ \E r \in NewRefs(registry) :
          /\ registry' = LuaRef(registry, r, v)
          /\ bound' = [bound EXCEPT ![r] = v]
          /\ classRefs' = classRefs \cup {r}
    /\ UNCHANGED <<fixedmap, hostRefs, pending>>

\* The host gives the reference of a class back.
UnrefClass(r) ==
    /\ r \in classRefs
    /\ classRefs' = classRefs \ {r}
    /\ ToluaUnref(r)
    /\ UNCHANGED <<hostRefs, pending>>

Next == \/ \E x \in Values \cup {Nil} : OpenValueType(x)
        \/ \E v \in Values : ToluaRef(v)
        \/ \E v \in MetaTables : BeginClass(v)
        \/ \E r \in Refs : Finalize(r) \/ Drain(r) \/ UnrefClass(r)

Spec == Init /\ [][Next]_vars

-----------------------------------------------------------------------------
(* Properties.                                                             *)

\* The variables have their types; number entries are slots or reserved.
TypeOK == /\ registry \in [Slots -> Values \cup Nat \cup {Nil}]
          /\ fixedmap \in [Values -> Refs \cup {Nil}]
          /\ bound \in [Refs -> Values \cup {Nil}]
          /\ hostRefs \subseteq Refs
          /\ pending \subseteq Refs
          /\ classRefs \subseteq Refs

\* Whoever holds a reference, a finalized object in the queue included,
\* finds in its slot the value it took the reference of: toluaL_ref and
\* luaL_ref never hand out a slot that is in use.
OwnersSeeTheirValue ==
    \A r \in Refs : /\ r \in Live <=> bound[r] # Nil
                    /\ r \in Live => registry[r] = bound[r]

\* What toluaL_ref answers from the FIXEDMAP is a reference the host still
\* has, of the value that was asked for: toluaL_unref leaves no entry of a
\* freed slot behind.
FixedMapAgrees ==
    \A v \in Values : fixedmap[v] # Nil =>
        /\ fixedmap[v] \in hostRefs \cup pending
        /\ bound[fixedmap[v]] = v

\* A value has one reference through toluaL_ref.  (Not so a metatable:
\* giving the reference of its class back makes toluaL_unref forget the
\* entry that belongs to the other one.)
OneRefPerValue ==
    \A r, s \in hostRefs \cup pending :
        bound[r] = bound[s] /\ bound[r] \notin MetaTables => r = s

\* FreeHop[k] is the k-th slot of the free list, 0 past its end.
FreeHop[k \in 0..MaxSlot] ==
    IF k = 0 THEN FreeHead(registry)
    ELSE IF FreeHop[k - 1] = 0 THEN 0
    ELSE IF registry[FreeHop[k - 1]] \in Nat THEN registry[FreeHop[k - 1]]
    ELSE 0

FreeList == {FreeHop[k] : k \in 0..MaxSlot} \ {0}

\* The free list of luaL_ref and luaL_unref ends, holds no slot in use, and
\* holds every slot that was given back: none is lost, so the registry only
\* grows when all its slots are in use.
NoSlotLost ==
    /\ FreeHop[MaxSlot] = 0
    /\ FreeList \cap Live = {}
    /\ \A r \in Refs \ Live :
          (\E s \in Refs : s >= r /\ registry[s] # Nil) => r \in FreeList

\* Array parts that hold at least the reserved slots.  bestasize makes none
\* smaller, because more than half of these are filled.
ArrayParts == {n \in {TwoTo[b] + 1 : b \in 0..MaxSlot} : Reserved < n /\ n <= MaxSlot + 1}

\* lj_tab_len answers a length that Lengths allows, for every registry that
\* can arise and every way its slots are spread over array and hash part:
\* luaL_ref extends the registry at a free slot, and never takes one of
\* tolua's own for free because LUA_RIDX_CHECKVALUE below it is empty.
LengthSearched ==
    registry[MaxSlot] = Nil =>
        \A size \in ArrayParts :
            TabLen({s \in Slots \ {0} : registry[s] # Nil}, size) \in Lengths(registry)

\* Why the slots in use stay out of luaL_ref's reach.  The free list runs
\* from slot 0 through slots nobody uses, no slot follows two others, and
\* only one slot of the list, possibly slot 0, has no successor.
Unused == {0} \cup (Refs \ Live)

FreeClosed == \A s \in Unused : registry[s] \in (Refs \ Live) \cup {Nil}

FreeInjective ==
    \A s, t \in Unused : registry[s] = registry[t] /\ registry[s] # Nil => s = t

\* s leads to the last slot of the list.
LeadsToLast(s) == registry[s] # Nil /\ registry[registry[s]] = Nil

FreeEndsOnce ==
    /\ registry[0] = Nil => \A s \in Unused : ~LeadsToLast(s)
    /\ \A s, t \in Unused : LeadsToLast(s) /\ LeadsToLast(t) => s = t

FreeListInv == FreeClosed /\ FreeInjective /\ FreeEndsOnce

\* Class references are those of metatables and no object of the host has
\* one; the FIXEDMAP knows the reference of every other value.
OwnerInv ==
    /\ classRefs \cap (hostRefs \cup pending) = {}
    /\ \A r \in classRefs : bound[r] \in MetaTables
    /\ \A r \in hostRefs \cup pending :
          bound[r] \notin MetaTables => fixedmap[bound[r]] = r

\* The inductive invariant.
IInv == /\ TypeOK
        /\ registry[Reserved] # Nil
        /\ OwnersSeeTheirValue
        /\ FixedMapAgrees
        /\ OwnerInv
        /\ FreeListInv

\* A reference never touches the slots tolua reserved for itself.
ReservedKept ==
    [][\A i \in 1..Reserved : i # CheckValue => registry'[i] = registry[i]]_vars

\* What the owners of the references find in the registry.
Seen == [r \in Refs |-> IF r \in Live THEN registry[r] ELSE Nil]

\* The registry, seen through the references that somebody holds, behaves
\* as the table of module RefTable: no free list, FIXEDMAP or length shows.
Table == INSTANCE RefTable WITH bound <- Seen
ImplementsRefTable == Table!TableSpec
=============================================================================
