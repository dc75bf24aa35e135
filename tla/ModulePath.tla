----------------------------- MODULE ModulePath -----------------------------
(***************************************************************************)
(* Registration of modules and types (src/tolua.c): tolua_beginmodule to   *)
(* tolua_endmodule, the registration of classes, enums and static classes, *)
(* and the preloading of types (tolua_addpreload, tolua_beginpremodule,    *)
(* tolua_endpremodule).                                                    *)
(*                                                                         *)
(* Every name a type gets, in package.loaded and in its own table, is made *)
(* of one static buffer, sb, which holds the path of the module that is    *)
(* being registered.  The buffer is not a stack: leaving a module cuts it  *)
(* at its last dot, entering one that exists already reads the path back   *)
(* from the ".name" of the table.  A path is a sequence of names.          *)
(***************************************************************************)
EXTENDS Naturals, SequencesExt

CONSTANTS Names,       \* names of modules and types
          MaxLen,      \* bound: names of a path in the global table
          MaxTables,   \* bound: nothing is begun beyond so many tables
          MaxPreload   \* bound: types that are preloaded

ASSUME ModuleAssumption ==
    MaxLen \in Nat \ {0} /\ MaxTables \in Nat /\ MaxPreload \in Nat

VARIABLES table,      \* path -> the table that is there
          sb,         \* the path in the buffer, <<>> if it is empty
          frames,     \* what the host has begun, innermost last
          loaded,     \* names in package.loaded -> the path of the type
          preload,    \* types the host opens when they are required
          answers,    \* types opened that way -> the path require answers
          orderly     \* history: whether the host has preloaded a namespace
                      \* only after those around it, and opened no type by
                      \* require that it had not announced

vars == <<table, sb, frames, loaded, preload, answers, orderly>>

Paths == BoundedSeq(Names, MaxLen) \ {<<>>}

\* A table in the global table: a module or a type, its ".name" (<<>> if it
\* has none), whether it has a metatable.
None == [kind |-> "none", name |-> <<>>, meta |-> FALSE]
Module(name, meta) == [kind |-> "module", name |-> name, meta |-> meta]
Type(name) == [kind |-> "type", name |-> name, meta |-> TRUE]

Missing(p) == table[p] = None
Room == Cardinality({p \in Paths : ~Missing(p)}) < MaxTables
Steps(p) == {SubSeq(p, 1, i) : i \in DOMAIN p}

\* A frame: the table on the Lua stack that is being filled, with the name
\* it gets if it is a type, or the type that is opened in it.
Frame(kind, path, name) == [kind |-> kind, path |-> path, name |-> name]
Top == Last(frames)
InModule == frames # <<>> /\ Top.kind = "module"
InNamespace == frames # <<>> /\ Top.kind \in {"module", "pre"}

Bind(f, k, v) == [i \in DOMAIN f \cup {k} |-> IF i = k THEN v ELSE f[i]]

Init == /\ table = [p \in Paths |-> None]
        /\ sb = <<>> /\ frames = <<>>
        /\ loaded = << >> /\ preload = {} /\ answers = << >>
        /\ orderly = TRUE

-----------------------------------------------------------------------------
(* Modules.                                                                *)

\* tolua_beginmodule(NULL): the global table.
BeginGlobal ==
    /\ frames = <<>>
    /\ frames' = <<Frame("module", <<>>, <<>>)>>
    /\ UNCHANGED <<table, sb, loaded, preload, answers, orderly>>

\* Faulty variants: a new table gets no name; the path is not read back from
\* a table that exists.
BeginModuleUnnamed(n) ==
    LET p == Append(Top.path, n)
        name == Append(sb, n)
    IN /\ InModule /\ p \in Paths /\ (Missing(p) => Room)
       /\ orderly \/ p \notin DOMAIN answers
       /\ frames' = Append(frames, Frame("module", p, <<>>))
       /\ IF table[p].meta
          THEN sb' = table[p].name /\ UNCHANGED table
          ELSE sb' = name /\ table' = [table EXCEPT ![p] = Module(<<>>, TRUE)]
       /\ UNCHANGED <<loaded, preload, answers, orderly>>
BeginModuleKeepsPath(n) ==
    LET p == Append(Top.path, n)
        name == Append(sb, n)
    IN /\ InModule /\ p \in Paths /\ (Missing(p) => Room)
       /\ orderly \/ p \notin DOMAIN answers
       /\ frames' = Append(frames, Frame("module", p, <<>>))
       /\ IF table[p].meta
          THEN UNCHANGED <<sb, table>>
          ELSE sb' = name /\ table' = [table EXCEPT ![p] = Module(name, TRUE)]
       /\ UNCHANGED <<loaded, preload, answers, orderly>>

\* tolua_beginmodule(n): a table that is new, or has no metatable yet, is
\* named after the buffer; from any other the buffer takes the name.
BeginModule(n) ==
    LET p == Append(Top.path, n)
        name == Append(sb, n)
    IN /\ InModule /\ p \in Paths /\ (Missing(p) => Room)
       /\ orderly \/ p \notin DOMAIN answers
       /\ frames' = Append(frames, Frame("module", p, <<>>))
       /\ IF table[p].meta
          THEN sb' = table[p].name /\ UNCHANGED table
          ELSE sb' = name /\ table' = [table EXCEPT ![p] = Module(name, TRUE)]
       /\ UNCHANGED <<loaded, preload, answers, orderly>>

\* tolua_endmodule: the buffer is cut at its last dot.
EndModule ==
    /\ InModule
    /\ frames' = Front(frames)
    /\ sb' = IF sb = <<>> THEN <<>> ELSE Front(sb)
    /\ UNCHANGED <<table, loaded, preload, answers, orderly>>

-----------------------------------------------------------------------------
(* Types: tolua_beginclass, tolua_beginenum and tolua_beginstaticclass     *)
(* name them in the same way.  No type has the path of a namespace, and    *)
(* each is registered once.                                                *)

\* Faulty variant: the type is loaded under its own name only.
BeginTypeShortName(n) ==
    LET p == Append(Top.path, n)
    IN /\ InNamespace /\ p \in Paths /\ Missing(p)
       /\ IF Top.kind = "pre" THEN p = Top.name ELSE Room
       /\ loaded' = Bind(loaded, <<n>>, p)
       /\ frames' = Append(frames, Frame("type", p, Append(sb, n)))
       /\ UNCHANGED <<table, sb, preload, answers, orderly>>

\* _pushfullname and _addtoloaded are part of beginning a type.
BeginType(n) ==
    LET p == Append(Top.path, n)
        name == Append(sb, n)
    IN /\ InNamespace /\ p \in Paths /\ Missing(p)
       /\ IF Top.kind = "pre" THEN p = Top.name ELSE Room
       /\ loaded' = Bind(loaded, name, p)
       /\ frames' = Append(frames, Frame("type", p, name))
       /\ UNCHANGED <<table, sb, preload, answers, orderly>>

\* tolua_endclass, tolua_endenum, tolua_endstaticclass.
EndType ==
    /\ frames # <<>> /\ Top.kind = "type"
    /\ table' = [table EXCEPT ![Top.path] = Type(Top.name)]
    /\ frames' = Front(frames)
    /\ UNCHANGED <<sb, loaded, preload, answers, orderly>>

-----------------------------------------------------------------------------
(* Preloading.  A namespace on the way is never a type.                    *)

NoType(p) == \A s \in Steps(p) : table[s].kind # "type"

\* tolua_addpreload for the namespace of the type q: every table that is
\* missing on the way gets the name of the whole namespace.
AddPreload(q) ==
    LET p == Front(q)
    IN /\ frames = <<>> /\ Len(q) > 1 /\ Missing(q) /\ NoType(p)
       /\ Room /\ Cardinality(preload) < MaxPreload /\ q \notin preload
       /\ orderly' = (orderly /\ \A s \in Steps(p) : s = p \/ ~Missing(s))
       /\ preload' = preload \cup {q}
       /\ table' = [s \in Paths |-> IF s \in Steps(p) /\ Missing(s)
                                    THEN Module(p, FALSE) ELSE table[s]]
       /\ UNCHANGED <<sb, frames, loaded, answers>>

\* Faulty variant: the name of the table is left out.
IndexKeyShort(p, n) == <<n>>

\* module_index_event and _preload: what is looked up in package.preload when
\* the table at p, whose metatable has the event, has no field n.
IndexKey(p, n) == Append(table[p].name, n)

\* The name the k-th missing table on the way to p gets: pushmodule puts the
\* whole path behind the buffer, and the result into the buffer.
Piled(p, k) == sb \o [i \in 1..(k * Len(p)) |-> p[((i - 1) % Len(p)) + 1]]

\* Faulty variant: the buffer keeps what it held.
BeginPreModuleKeepsPath(q) ==
    LET p == Front(q)
    IN /\ frames = <<>> /\ Len(q) > 1 /\ NoType(p) /\ Missing(q)
       /\ orderly' = (orderly /\ q \in preload)
       /\ Room
       /\ table' = [s \in Paths |->
             IF s \in Steps(p) /\ Missing(s)
             THEN Module(Piled(p, Cardinality({r \in Steps(s) : Missing(r)})), FALSE)
             ELSE table[s]]
       /\ frames' = <<Frame("pre", p, q)>>
       /\ UNCHANGED <<sb, loaded, preload, answers>>

\* tolua_beginpremodule for the namespace of the type q: the buffer takes
\* the name of the last table on the way.
BeginPreModule(q) ==
    LET p == Front(q)
    IN /\ frames = <<>> /\ Len(q) > 1 /\ NoType(p) /\ Missing(q)
       /\ orderly' = (orderly /\ q \in preload)
       /\ Room
       /\ table' = [s \in Paths |->
             IF s \in Steps(p) /\ Missing(s)
             THEN Module(Piled(p, Cardinality({r \in Steps(s) : Missing(r)})), FALSE)
             ELSE table[s]]
       /\ sb' = table'[p].name
       /\ frames' = <<Frame("pre", p, q)>>
       /\ UNCHANGED <<loaded, preload, answers>>

\* Faulty variant: the table of the namespace is answered.
EndPreModuleNamespace ==
    /\ frames # <<>> /\ Top.kind = "pre" /\ ~Missing(Top.name)
    /\ answers' = Bind(answers, Top.name, Top.path)
    /\ sb' = <<>> /\ frames' = <<>>
    /\ UNCHANGED <<table, loaded, preload, orderly>>

\* tolua_endpremodule for the type that was registered meanwhile: require
\* answers the table at the path that is the type's name (tolua_createtable
\* makes it if it is not there), and the buffer is emptied.
EndPreModule ==
    /\ frames # <<>> /\ Top.kind = "pre" /\ ~Missing(Top.name)
    /\ LET name == table[Top.name].name
       IN /\ answers' = Bind(answers, Top.name, name)
          /\ table' = [s \in Paths |-> IF s \in Steps(name) /\ Missing(s)
                                       THEN Module(<<>>, FALSE) ELSE table[s]]
    /\ sb' = <<>> /\ frames' = <<>>
    /\ UNCHANGED <<loaded, preload, orderly>>

Next == \/ BeginGlobal \/ EndModule \/ EndType \/ EndPreModule
        \/ \E n \in Names : BeginModule(n) \/ BeginType(n)
        \/ \E q \in Paths : AddPreload(q) \/ BeginPreModule(q)

Spec == Init /\ [][Next]_vars

-----------------------------------------------------------------------------
(* Properties.                                                             *)

AnyName == Seq(Names)

\* The variables have their types; a table with a metatable has a name.
TypeOK ==
    /\ \A p \in Paths : /\ table[p].kind \in {"none", "module", "type"}
                        /\ table[p].name \in AnyName /\ table[p].meta \in BOOLEAN
                        /\ table[p].meta => table[p].name # <<>>
    /\ DOMAIN table = Paths
    /\ sb \in AnyName
    /\ \A i \in DOMAIN frames : /\ frames[i].kind \in {"module", "type", "pre"}
                                /\ frames[i].path \in Paths \cup {<<>>}
    /\ preload \subseteq Paths

\* While a namespace is open the buffer holds its path, after any number of
\* modules that were begun and ended in it, new ones or old ones.  Even when
\* the host preloads in any order, beginning a module repairs the names, as
\* long as no module is begun in a type that require opened then.
BufferIsPath == InModule \/ (orderly /\ InNamespace) => sb = Top.path

\* A type is in package.loaded under the path where the global table has it.
LoadedByPath == orderly => \A name \in DOMAIN loaded : loaded[name] = name

\* Requiring a preloaded type answers the type, not a table made for it.
RequireAnswersType == orderly => \A q \in DOMAIN answers : answers[q] = q

\* A preloaded type is found by indexing the module it belongs to, in
\* whatever order modules were begun and types preloaded.
IndexFindsPreload ==
    \A q \in preload : Missing(q) /\ table[Front(q)].meta => IndexKey(Front(q), Last(q)) = q
=============================================================================
