---------------------------- MODULE ConvertChunk ----------------------------
(***************************************************************************)
(* One conversion after another of a chunk of bytecode                     *)
(* (src/tolua_fr1_to_fr2.c): tolua_convertbytecodeex, the loop over the    *)
(* prototypes in tolua_convert_bytecode_inplace, and the request for       *)
(* copies that a prototype leaves in a static variable                     *)
(* (tolua_pending_insert_copy).                                            *)
(*                                                                         *)
(* There are two loops: chunks of version 1 that become FR2 are patched    *)
(* window by window (WindowPath), all others with a register map.  In both *)
(* a prototype that needs copies schedules them, the whole chunk is built  *)
(* again, and the loop takes the same prototype once more, now without     *)
(* preparing its opcodes again.                                            *)
(***************************************************************************)
EXTENDS Naturals, FiniteSets

CONSTANTS NumProtos,   \* bound: prototypes of a chunk
          MaxInserts,  \* bound: how often a prototype needs copies
          Versions,    \* versions of the chunks that are converted
          BufferIds,   \* what malloc may answer
          None         \* no prototype, no buffer

ASSUME ChunkAssumption ==
    /\ NumProtos \in Nat \ {0} /\ MaxInserts \in Nat
    /\ Versions \subseteq {1, 2}
    /\ IsFiniteSet(BufferIds) /\ None \notin Nat \cup BufferIds

VARIABLES phase,     \* "idle", "header", "loop", "rebuild", "failed", "ok"
          version, targetFr2, sourceFr2,     \* of the chunk and the call
          stale,     \* history: a request was active when the call came
          needs,     \* prototype -> the rounds of copies it still needs
          proto,     \* proto_index
          retry,     \* retry_proto_index, with retry_proto_prepared
          prepared,  \* prototype -> how often its opcodes were prepared
          skipped,   \* prototypes that were refused copies they need
          pending,   \* the prototype of tolua_pending_insert_copy, or None
          live,      \* buffers that are allocated
          handle,    \* the buffer of tolua_convertbytecodeex
          buf,       \* the buffer of tolua_convert_bytecode_inplace
          handedOut, \* buffers that belong to the callers
          header,    \* what the header of buf says: "source" or "target"
          message,   \* tolua_last_bytecode_debug is not empty
          answer     \* the last answer: "none", "chunk", "null"

chunk == <<version, targetFr2, sourceFr2, stale>>
work  == <<needs, proto, retry, prepared, skipped>>
heap  == <<live, handle, buf, handedOut>>
vars  == <<phase, chunk, work, pending, heap, header, message, answer>>

Protos == 0..(NumProtos - 1)

WindowPath == version = 1 /\ targetFr2
Prepares == targetFr2 \/ version = 1

Init ==
    /\ phase = "idle"
    /\ version \in Versions /\ targetFr2 = TRUE /\ sourceFr2 = FALSE
    /\ stale = FALSE
    /\ needs = [p \in Protos |-> 0] /\ proto = 0 /\ retry = None
    /\ prepared = [p \in Protos |-> 0] /\ skipped = {}
    /\ pending = None
    /\ live = {} /\ handle = None /\ buf = None /\ handedOut = {}
    /\ header = "source" /\ message = FALSE /\ answer = "none"

-----------------------------------------------------------------------------
(* tolua_convertbytecodeex.                                                *)

\* A call: the debug text is cleared and the chunk copied.  Null or empty
\* input, and a failing malloc, are answered at once.
Call(v, target, source, n) ==
    /\ phase = "idle"
    /\ version' = v /\ targetFr2' = target /\ sourceFr2' = source
    /\ stale' = (pending # None)
    /\ needs' = n /\ proto' = 0 /\ retry' = None
    /\ prepared' = [p \in Protos |-> 0] /\ skipped' = {}
    /\ header' = "source"
    /\ \/ \E b \in BufferIds \ live :
             /\ live' = live \cup {b} /\ handle' = b /\ buf' = b
             /\ phase' = "header" /\ message' = FALSE
             /\ UNCHANGED answer
       \/ /\ phase' = "idle" /\ message' = TRUE /\ answer' = "null"
          /\ UNCHANGED <<live, handle, buf>>
    /\ UNCHANGED <<pending, handedOut>>

\* Faulty variant: the status is passed on without a text.
ReturnFailureUnexplained ==
    /\ phase = "failed"
    /\ live' = live \ {handle} /\ handle' = None /\ buf' = None
    /\ answer' = "null" /\ phase' = "idle"
    /\ UNCHANGED <<chunk, work, pending, handedOut, header, message>>

\* The conversion failed: a text is supplied if there is none, the copy freed.
ReturnFailure ==
    /\ phase = "failed"
    /\ message' = TRUE
    /\ live' = live \ {handle} /\ handle' = None /\ buf' = None
    /\ answer' = "null" /\ phase' = "idle"
    /\ UNCHANGED <<chunk, work, pending, handedOut, header>>

ReturnChunk ==
    /\ phase = "ok"
    /\ message' = FALSE
    /\ handedOut' = handedOut \cup {handle} /\ handle' = None /\ buf' = None
    /\ answer' = "chunk" /\ phase' = "idle"
    /\ UNCHANGED <<chunk, work, pending, live, header>>

\* The caller (tolua_loadbuffer) frees what it got.
Release(b) ==
    /\ phase = "idle" /\ b \in handedOut
    /\ handedOut' = handedOut \ {b} /\ live' = live \ {b}
    /\ UNCHANGED <<phase, chunk, work, pending, handle, buf, header, message, answer>>

-----------------------------------------------------------------------------
(* tolua_convert_bytecode_inplace.                                         *)

\* tolua_failbytecode and what calls it: the status goes up with a text.
Fail == phase' = "failed" /\ message' = TRUE

\* Faulty variants: the request is cleared on no path; the header is marked
\* before the prototypes are converted.
CheckHeaderMarks ==
    /\ phase = "header"
    /\ \/ /\ Fail /\ UNCHANGED <<pending, header>>
       \/ /\ ~sourceFr2
          /\ phase' = "loop" /\ header' = "target"
          /\ pending' = IF WindowPath THEN pending ELSE None
          /\ UNCHANGED message
    /\ UNCHANGED <<chunk, work, heap, answer>>
CheckHeaderKeepsRequest ==
    /\ phase = "header"
    /\ \/ /\ Fail /\ UNCHANGED header
       \/ /\ sourceFr2 /\ targetFr2 /\ version = 2
          /\ phase' = "ok" /\ header' = "target" /\ UNCHANGED message
       \/ /\ ~sourceFr2
          /\ phase' = "loop" /\ UNCHANGED <<header, message>>
    /\ UNCHANGED <<chunk, work, pending, heap, answer>>

\* The header is read.  A chunk that is FR2 already is accepted as it is or
\* refused.  Only the loop with the register map forgets an old request.
CheckHeader ==
    /\ phase = "header"
    /\ \/ /\ Fail /\ UNCHANGED <<pending, header>>
       \/ /\ sourceFr2 /\ targetFr2 /\ version = 2
          /\ phase' = "ok" /\ header' = "target"
          /\ UNCHANGED <<pending, message>>
       \/ /\ ~sourceFr2
          /\ phase' = "loop"
          /\ pending' = IF WindowPath THEN pending ELSE None
          /\ UNCHANGED <<header, message>>
    /\ UNCHANGED <<chunk, work, heap, answer>>

\* tolua_patch_proto_v1_fr2 or tolua_patch_proto_bytecode prepares the
\* opcodes unless the prototype is taken again.
Prepare == prepared' = IF Prepares /\ retry # proto
                       THEN [prepared EXCEPT ![proto] = @ + 1]
                       ELSE prepared

\* The prototype, or its frame size, cannot be converted.
PatchFails ==
    /\ phase = "loop" /\ proto < NumProtos
    /\ Prepare /\ Fail
    /\ UNCHANGED <<chunk, needs, proto, retry, skipped, pending, heap, header, answer>>

\* The prototype needs copies and schedules them; the frame size may turn
\* out too large right after that.
PatchSchedules ==
    /\ phase = "loop" /\ proto < NumProtos
    /\ targetFr2 /\ needs[proto] > 0 /\ pending = None
    /\ Prepare
    /\ pending' = proto
    /\ \/ phase' = "rebuild" /\ UNCHANGED message
       \/ Fail
    /\ UNCHANGED <<chunk, needs, proto, retry, skipped, heap, header, answer>>

\* The prototype needs copies but a request is active: the copies are left
\* out, and the prototype fails or passes without them.
PatchSkips ==
    /\ phase = "loop" /\ proto < NumProtos
    /\ targetFr2 /\ needs[proto] > 0 /\ pending # None
    /\ Prepare
    /\ skipped' = skipped \cup {proto}
    /\ \/ /\ Fail /\ UNCHANGED <<needs, proto, retry>>
       \/ /\ proto' = proto + 1
          /\ retry' = IF retry = proto THEN None ELSE retry
          /\ UNCHANGED <<phase, needs, message>>
    /\ UNCHANGED <<chunk, pending, heap, header, answer>>

\* The prototype is converted, and its frame size is.
PatchDone ==
    /\ phase = "loop" /\ proto < NumProtos
    /\ ~targetFr2 \/ needs[proto] = 0
    /\ Prepare
    /\ proto' = proto + 1
    /\ retry' = IF retry = proto THEN None ELSE retry
    /\ UNCHANGED <<phase, chunk, needs, skipped, pending, heap, header, message, answer>>

\* Faulty variants of the rebuild: the prototype is prepared again; the
\* caller keeps the old buffer; a refused request is tried once more.
RebuiltForgetsRetry ==
    /\ phase = "rebuild"
    /\ \E b \in BufferIds \ live :
          /\ live' = (live \ {buf}) \cup {b} /\ buf' = b /\ handle' = b
    /\ pending' = None /\ phase' = "loop"
    /\ needs' = [needs EXCEPT ![proto] = @ - 1]
    /\ UNCHANGED <<chunk, proto, retry, prepared, skipped, handedOut, header, message, answer>>
RebuiltBehindCaller ==
    /\ phase = "rebuild"
    /\ \E b \in BufferIds \ live :
          /\ live' = (live \ {buf}) \cup {b} /\ buf' = b
    /\ pending' = None /\ retry' = proto /\ phase' = "loop"
    /\ needs' = [needs EXCEPT ![proto] = @ - 1]
    /\ UNCHANGED <<chunk, proto, prepared, skipped, handle, handedOut, header, message, answer>>
RefusedTriesAgain ==
    /\ phase = "rebuild"
    /\ pending' = None /\ phase' = "loop" /\ retry' = proto
    /\ UNCHANGED <<chunk, needs, proto, prepared, skipped, heap, header, message, answer>>

\* tolua_rebuild_chunk_with_insert_copy succeeds: the old buffer is freed
\* and the prototype taken again.
RebuildSucceeds ==
    /\ phase = "rebuild"
    /\ \E b \in BufferIds \ live :
          /\ live' = (live \ {buf}) \cup {b} /\ buf' = b /\ handle' = b
    /\ pending' = None /\ retry' = proto /\ phase' = "loop"
    /\ needs' = [needs EXCEPT ![proto] = @ - 1]
    /\ UNCHANGED <<chunk, proto, prepared, skipped, handedOut, header, message, answer>>

\* It fails, without a text: no memory, or a jump enters the copies.
RebuildFails ==
    /\ phase = "rebuild"
    /\ phase' = "failed"
    /\ UNCHANGED <<chunk, work, pending, heap, header, message, answer>>

Rebuild == RebuildSucceeds \/ RebuildFails

\* After the last prototype the header gets its version and its FR2 flag.
Finish ==
    /\ phase = "loop" /\ proto = NumProtos
    /\ header' = "target" /\ phase' = "ok"
    /\ UNCHANGED <<chunk, work, pending, heap, message, answer>>

Converting == \/ CheckHeader \/ PatchFails \/ PatchSchedules \/ PatchSkips
              \/ PatchDone \/ Rebuild \/ Finish
              \/ ReturnFailure \/ ReturnChunk

Calling == \E v \in Versions, target, source \in BOOLEAN, n \in [Protos -> 0..MaxInserts] :
              Call(v, target, source, n)

Next == Calling \/ Converting \/ \E b \in BufferIds : Release(b)

Spec == Init /\ [][Next]_vars

\* The converter is ordinary sequential code: once called, it runs.
FairSpec == Spec /\ WF_vars(Converting)

-----------------------------------------------------------------------------
(* Properties.                                                             *)

\* The variables have their types.
TypeOK ==
    /\ phase \in {"idle", "header", "loop", "rebuild", "failed", "ok"}
    /\ version \in Versions /\ targetFr2 \in BOOLEAN /\ sourceFr2 \in BOOLEAN
    /\ stale \in BOOLEAN
    /\ needs \in [Protos -> 0..MaxInserts]
    /\ proto \in 0..NumProtos /\ retry \in Protos \cup {None}
    /\ prepared \in [Protos -> Nat]
    /\ skipped \subseteq Protos /\ pending \in Protos \cup {None}
    /\ live \subseteq BufferIds /\ handedOut \subseteq BufferIds
    /\ handle \in BufferIds \cup {None} /\ buf \in BufferIds \cup {None}
    /\ header \in {"source", "target"} /\ message \in BOOLEAN
    /\ answer \in {"none", "chunk", "null"}

\* Opcodes are translated by a table, and translating them twice destroys
\* them: however often a prototype is taken, and however the conversion ends,
\* its opcodes are prepared once, before anything else is done to it.
PreparedOnce ==
    phase \in {"loop", "rebuild", "failed", "ok"} =>
        \A p \in Protos :
            /\ prepared[p] <= 1
            /\ p < proto => prepared[p] = IF Prepares THEN 1 ELSE 0
            /\ retry = p => prepared[p] = 1

\* Every buffer is somebody's: the running conversion has one, which both its
\* functions agree on, and all others belong to callers.  Nothing is lost
\* when a conversion fails between two rebuilds, and nothing is freed twice.
BuffersAccounted ==
    /\ handle = buf
    /\ handle \notin handedOut
    /\ live = handedOut \cup (IF phase = "idle" THEN {} ELSE {handle})
    /\ phase = "idle" <=> handle = None

\* A failure comes with a text, a chunk without one.
FailureExplained ==
    phase = "idle" => /\ answer = "null" => message
                      /\ answer = "chunk" => ~message

\* A chunk is called FR2 only when all its prototypes are.
HeaderLast ==
    header = "target" => (proto = NumProtos \/ sourceFr2)

\* A conversion leaves copies out for one reason only: it converts a chunk
\* of version 1 to FR2, and the request of a conversion that failed before
\* was still there when it was called.  Nothing of an earlier conversion
\* reaches the path with the register map.
OnlyLeftoversSkip == skipped # {} => WindowPath /\ stale

\* Every conversion comes to an end.
Answers == (phase # "idle") ~> (phase = "idle")

\* What bounds a conversion: every prototype is taken once, and twice more
\* (one step for the rebuild) for each round of copies it needs.
StepsOfOne == 2 * MaxInserts + 1
StepsOfRest ==
    IF proto < NumProtos
    THEN (NumProtos - proto - 1) * StepsOfOne + 2 * needs[proto] + 1
    ELSE 0
StepsLeft ==
    CASE phase = "idle" -> 0
      [] phase \in {"failed", "ok"} -> 1
      [] phase = "rebuild" -> StepsOfRest + 1
      [] phase = "loop" -> StepsOfRest + 2
      [] phase = "header" -> NumProtos * StepsOfOne + 3

\* What Answers rests on: whichever way a conversion goes, however often the
\* chunk is built again for the same prototype, each of its steps leaves fewer
\* to come, so that it never takes a prototype again without end.
ComesCloser ==
    [][phase # "idle" => StepsLeft \in Nat /\ StepsLeft' \in Nat /\ StepsLeft' < StepsLeft]_vars

\* While a request is active it is for the prototype at hand or left over;
\* on the path with the register map none is left over in the loop.
RequestInv ==
    /\ phase = "rebuild" => /\ pending = proto /\ proto < NumProtos
                            /\ targetFr2 /\ needs[proto] > 0
    /\ phase \in {"header", "loop"} /\ pending # None => stale
    /\ phase = "loop" /\ ~WindowPath => pending = None

\* Only the current prototype is ever taken again, and the ones from there
\* on were not prepared, unless it is this one that is taken again.
RetryInv ==
    /\ retry \in {None, proto} /\ (retry # None => targetFr2)
    /\ phase = "header" => retry = None /\ proto = 0
    /\ \A p \in Protos : p > proto => prepared[p] = 0
    /\ phase \in {"header", "loop"} /\ retry # proto =>
          \A p \in Protos : p = proto => prepared[p] = 0
    /\ phase = "rebuild" => prepared[proto] = 1

\* The inductive invariant.
IInv == /\ TypeOK /\ PreparedOnce /\ BuffersAccounted
        /\ FailureExplained /\ HeaderLast /\ OnlyLeftoversSkip
        /\ RequestInv /\ RetryInv
=============================================================================
