---------------------------- MODULE HostObjects ----------------------------
(***************************************************************************)
(* Objects of the host as Lua sees them (src/tolua.c).  The host keeps     *)
(* objects in numbered slots; Lua gets a userdata that holds the number.   *)
(* The table at LUA_RIDX_UBOX maps a number to its userdata, with weak     *)
(* values, so that pushing an object again answers the same userdata as    *)
(* long as the collector has not taken it.  The finalizer of a userdata    *)
(* reads the number with tolua_rawnetobj and gives the slot back.          *)
(* The host's side (its slots and its map from objects to slots) is not in *)
(* the repository: it is modelled from how these functions are used.       *)
(***************************************************************************)
EXTENDS Naturals, FiniteSets

CONSTANTS Objects,    \* objects of the host
          Indices,    \* slots of the host; bound: how many there are
          Userdata,   \* bound: userdata that exist at the same time
          MaxLost,    \* bound: pushes that have no memory for their userdata
          None        \* nil, no slot, no object

ASSUME NoneAssumption == None \notin Objects \cup Indices \cup Userdata
ASSUME LostAssumption == MaxLost \in Nat

VARIABLES ubox,      \* the cache: LUA_RIDX_UBOX
          life,      \* whether each userdata waits for its finalizer
          held,      \* the userdata that Lua refers to
          val,       \* the number each userdata holds
          madeFor,   \* history: the object each userdata was pushed for
          free,      \* host: slots in the pool
          slot,      \* host: the object in each slot
          indexOf,   \* host: the slot of each object
          pushing,   \* the slot of a push that has no userdata yet
          lost       \* history: slots of pushes that had no memory for theirs

vars == <<ubox, life, held, val, madeFor, free, slot, indexOf, pushing, lost>>

\* A userdata does not exist, lives, or waits for its finalizer in the
\* collector's list mmudata.
Lives == {"none", "live", "pending"}

TypeOK ==
    /\ ubox \in [Indices -> Userdata \cup {None}]
    /\ life \in [Userdata -> Lives]
    /\ held \in SUBSET Userdata
    /\ val \in [Userdata -> Indices \cup {None}]
    /\ madeFor \in [Userdata -> Objects \cup {None}]
    /\ free \in SUBSET Indices
    /\ slot \in [Indices -> Objects \cup {None}]
    /\ indexOf \in [Objects -> Indices \cup {None}]
    /\ pushing \in Indices \cup {None}
    /\ lost \in SUBSET Indices

Init == /\ ubox = [i \in Indices |-> None]
        /\ life = [u \in Userdata |-> "none"]
        /\ held = {}
        /\ val = [u \in Userdata |-> None]
        /\ madeFor = [u \in Userdata |-> None]
        /\ free = Indices
        /\ slot = [i \in Indices |-> None]
        /\ indexOf = [o \in Objects |-> None]
        /\ pushing = None
        /\ lost = {}

Cached(o) == indexOf[o] # None /\ ubox[indexOf[o]] # None

\* tolua_pushudata finds the userdata of the object's slot.  The table is
\* weak, so it may be one that nothing else refers to.
PushAgain(o) ==
    /\ pushing = None
    /\ Cached(o)
    /\ held' = held \cup {ubox[indexOf[o]]}
    /\ UNCHANGED <<ubox, life, val, madeFor, free, slot, indexOf, pushing, lost>>

\* tolua_pushudata finds nothing, or the host has no slot for the object.
\* The host empties the slot it had, which its finalizer will give back, and
\* takes another one.
TakeSlot(o) ==
    /\ pushing = None
    /\ ~Cached(o)
    /\ \E i \in free :
          /\ free' = free \ {i}
          /\ slot' = [j \in Indices |-> IF j = i THEN o
                                        ELSE IF j = indexOf[o] THEN None
                                        ELSE slot[j]]
          /\ indexOf' = [indexOf EXCEPT ![o] = i]
          /\ pushing' = i
    /\ UNCHANGED <<ubox, life, held, val, madeFor, lost>>

\* Faulty variant: the userdata is not put into the cache.
PushNewUncached(u) ==
    /\ pushing # None
    /\ life[u] = "none"
    /\ life' = [life EXCEPT ![u] = "live"]
    /\ held' = held \cup {u}
    /\ val' = [val EXCEPT ![u] = pushing]
    /\ madeFor' = [madeFor EXCEPT ![u] = slot[pushing]]
    /\ pushing' = None
    /\ UNCHANGED <<ubox, free, slot, indexOf, lost>>

\* tolua_pushnewudata: a userdata with the number of the slot, cached.
PushNew(u) ==
    /\ pushing # None
    /\ life[u] = "none"
    /\ life' = [life EXCEPT ![u] = "live"]
    /\ held' = held \cup {u}
    /\ val' = [val EXCEPT ![u] = pushing]
    /\ ubox' = [ubox EXCEPT ![pushing] = u]
    /\ madeFor' = [madeFor EXCEPT ![u] = slot[pushing]]
    /\ pushing' = None
    /\ UNCHANGED <<free, slot, indexOf, lost>>

\* tolua_newudata has no memory for the userdata: the error leaves the slot
\* that the host took with nobody to give it back.
PushStarves ==
    /\ pushing # None /\ Cardinality(lost) < MaxLost
    /\ pushing' = None
    /\ lost' = lost \cup {pushing}
    /\ UNCHANGED <<ubox, life, held, val, madeFor, free, slot, indexOf>>

\* lua_rawseti has no memory for the entry in the cache: the userdata exists
\* and has its finalizer, but the error takes it from the Lua stack.
PushUncacheable(u) ==
    /\ pushing # None
    /\ life[u] = "none"
    /\ life' = [life EXCEPT ![u] = "live"]
    /\ val' = [val EXCEPT ![u] = pushing]
    /\ madeFor' = [madeFor EXCEPT ![u] = slot[pushing]]
    /\ pushing' = None
    /\ UNCHANGED <<ubox, held, free, slot, indexOf, lost>>

\* Lua lets go of the last reference.
Drop(u) ==
    /\ u \in held
    /\ held' = held \ {u}
    /\ UNCHANGED <<ubox, life, val, madeFor, free, slot, indexOf, pushing, lost>>

\* Faulty variant: the cache keeps a userdata until it has been finalized.
SeparateOnly(dead) ==
    /\ \A u \in dead : life[u] = "live" /\ u \notin held
    /\ life' = [u \in Userdata |-> IF u \in dead THEN "pending" ELSE life[u]]
    /\ UNCHANGED <<ubox, held, val, madeFor, free, slot, indexOf, pushing, lost>>

\* The atomic phase of the collector: the userdata found dead are moved to
\* the list of those to finalize, and their entries in weak tables cleared.
\* It may run inside a push as well, because tolua_newudata allocates.
Separate(dead) ==
    /\ \A u \in dead : life[u] = "live" /\ u \notin held
    /\ life' = [u \in Userdata |-> IF u \in dead THEN "pending" ELSE life[u]]
    /\ ubox' = [i \in Indices |-> IF ubox[i] \in dead THEN None ELSE ubox[i]]
    /\ UNCHANGED <<held, val, madeFor, free, slot, indexOf, pushing, lost>>

\* tolua_rawnetobj: the number a userdata holds.
RawNetObj(u) == val[u]

\* Faulty variant: the number is read once the userdata is gone.
FinalizeTooLate(u) ==
    /\ life[u] = "pending"
    /\ life' = [life EXCEPT ![u] = "none"]
    /\ UNCHANGED <<ubox, held, val, madeFor, free, slot, indexOf, pushing, lost>>

\* The finalizer of a userdata: the host takes the object out of the slot
\* and gives the slot back to its pool.
Finalize(u) ==
    /\ life[u] = "pending"
    /\ free' = free \cup {RawNetObj(u)}
    /\ slot' = [slot EXCEPT ![RawNetObj(u)] = None]
    /\ indexOf' = [o \in Objects |-> IF indexOf[o] = RawNetObj(u) THEN None
                                     ELSE indexOf[o]]
    /\ life' = [life EXCEPT ![u] = "none"]
    /\ UNCHANGED <<ubox, held, val, madeFor, pushing, lost>>

Next ==
    \/ \E o \in Objects : PushAgain(o) \/ TakeSlot(o)
    \/ \E u \in Userdata : PushNew(u) \/ PushUncacheable(u) \/ Drop(u) \/ Finalize(u)
    \/ PushStarves
    \/ \E dead \in SUBSET Userdata : Separate(dead)

Spec == Init /\ [][Next]_vars

-----------------------------------------------------------------------------
\* What Lua refers to, or gets from the cache when the object is pushed.
Reachable == held \cup {u \in Userdata : \E i \in Indices : ubox[i] = u}

\* Lua can never get hold of two userdata for one object: comparing them by
\* identity, or using them as keys, would tell one object from itself.  This
\* includes the userdata left behind by a push that failed half-way.
OneUserdataPerObject ==
    \A u, v \in Reachable : madeFor[u] = madeFor[v] => u = v

\* A userdata that Lua refers to leads to the object it was pushed for, also
\* when that object was pushed, collected and pushed again before an earlier
\* finalizer ran: that finalizer gives back a slot nobody uses any more.
LeadsToItsObject ==
    \A u \in Userdata : u \in held => slot[val[u]] = madeFor[u]

\* Every slot that is taken belongs to a userdata that will be finalized, or
\* to a push that is about to make one: no object is kept for ever because
\* the number of its slot was forgotten.  The exception are pushes that had
\* no memory for the userdata itself; the other allocation of a push, the
\* entry in the cache, may fail without harm.
NoSlotLeaks ==
    \A i \in Indices \ free :
        \/ pushing = i
        \/ \E u \in Userdata : life[u] # "none" /\ val[u] = i
        \/ i \in lost
=============================================================================
