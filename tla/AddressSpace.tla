---------------------------- MODULE AddressSpace ----------------------------
(***************************************************************************)
(* The memory of execution states: lib/Core/AddressSpace.cpp with the      *)
(* reference counts of lib/Core/Memory.cpp and the operations of Executor  *)
(* and ExecutionState that use them.                                       *)
(*                                                                         *)
(* States share ObjectStates until one of them writes.  An address space   *)
(* may write in place to the ObjectStates whose copyOnWriteOwner is its    *)
(* cowKey, and copies the others first.                                    *)
(*                                                                         *)
(* A MemoryObject is its address.  The ObjectStates of an object are the   *)
(* cells heap[o][c]; an ObjectState never changes the object it is for.    *)
(* The bytes of an object are abstracted to one value.                     *)
(***************************************************************************)
EXTENDS Integers, FiniteSets

CONSTANTS
    State,          \* identities of execution states
    Object,         \* addresses at which a memory object can be
    Cell,           \* bound: the ObjectStates one object can have at a time
    Value,          \* contents of an object
    Constants,      \* external objects added with isReadOnly
    Globals,        \* global and external objects, Constants among them
    First,          \* the initial state
    None,           \* no ObjectState
    MaxKey,         \* bound on cowKey
    MaxSymbolics,   \* bound on the entries of symbolics for one object
    Select(_, _)    \* the contents of an object merged with SelectExpr

ObjectState == [copyOnWriteOwner : Nat, readOnly : BOOLEAN, value : Value]

ASSUME ConstantsAssumption ==
    /\ First \in State /\ Globals \subseteq Object /\ Constants \subseteq Globals
    /\ MaxKey \in Nat \ {0} /\ MaxSymbolics \in Nat \ {0}
    /\ Cell # {} /\ None \notin Cell /\ None \notin Value /\ None \notin ObjectState
    /\ IsFiniteSet(Cell) /\ IsFiniteSet(State)

\* SelectExpr of two values is one of them under every assignment.
ASSUME SelectAssumption ==
    /\ \A v, w \in Value : Select(v, w) \in Value
    /\ \A v \in Value : Select(v, v) = v

VARIABLES
    live,           \* the states that exist
    cowKey,         \* AddressSpace::cowKey of each state
    objects,        \* AddressSpace::objects: the cell bound to each object, or None
    allocas,        \* the objects on the allocas lists of the state's stack
    symbolics,      \* how often each object is on ExecutionState::symbolics
    heap,           \* the ObjectStates that exist, None elsewhere
    refCount        \* MemoryObject::refCount, 0 when the object does not exist

vars == <<live, cowKey, objects, allocas, symbolics, heap, refCount>>

NoObjects == [o \in Object |-> None]

NoSymbolics == [o \in Object |-> 0]

Bound(s) == {o \in Object : objects[s][o] # None}

Os(s, o) == heap[o][objects[s][o]]

-----------------------------------------------------------------------------
\* The reference counts.

\* An ObjectState is deleted when the last ObjectHolder lets go of it, which is
\* when no map has it any more.
Held(maps, h) ==
    [o \in Object |-> [c \in Cell |->
        IF \E s \in State : maps[s][o] = c THEN h[o][c] ELSE None]]

Existing(h, o) == {c \in Cell : h[o][c] # None}

\* The entries of symbolics for an object: the state and a number for each.
SymbolicIn(syms, o) == UNION {{s} \X (1..syms[s][o]) : s \in State}

\* Mutant: the constructors of ObjectState do not count.
ReleaseNoCellCount(h) ==
    /\ heap' = Held(objects', h)
    /\ refCount' = [o \in Object |->
        refCount[o] + Cardinality(SymbolicIn(symbolics', o) \ SymbolicIn(symbolics, o))
                    - Cardinality(Existing(h, o) \ Existing(heap', o))
                    - Cardinality(SymbolicIn(symbolics, o) \ SymbolicIn(symbolics', o))]

\* Mutant: addSymbolic and the copy of symbolics do not count.
ReleaseNoSymbolicCount(h) ==
    /\ heap' = Held(objects', h)
    /\ refCount' = [o \in Object |->
        refCount[o] + Cardinality(Existing(h, o) \ Existing(heap, o))
                    - Cardinality(Existing(h, o) \ Existing(heap', o))
                    - Cardinality(SymbolicIn(symbolics, o) \ SymbolicIn(symbolics', o))]

\* h has the cells an operation constructs; afterwards the ones without a holder
\* are destroyed.  Each constructor and destructor counts in the MemoryObject, and
\* so does each entry of symbolics.
Release(h) ==
    /\ heap' = Held(objects', h)
    /\ refCount' = [o \in Object |->
        refCount[o] + Cardinality(Existing(h, o) \ Existing(heap, o))
                    + Cardinality(SymbolicIn(symbolics', o) \ SymbolicIn(symbolics, o))
                    - Cardinality(Existing(h, o) \ Existing(heap', o))
                    - Cardinality(SymbolicIn(symbolics, o) \ SymbolicIn(symbolics', o))]

-----------------------------------------------------------------------------
\* The operations of AddressSpace.

HasRoom(o) == \E c \in Cell : heap[o][c] = None

Fresh(o) == CHOOSE c \in Cell : heap[o][c] = None

\* bindObject of a new ObjectState: it belongs to the address space.
NewCell(key, v) == [copyOnWriteOwner |-> key, readOnly |-> FALSE, value |-> v]

Bind(map, o) == [map EXCEPT ![o] = Fresh(o)]

Put(h, o, c, cell) == [h EXCEPT ![o] = [@ EXCEPT ![c] = cell]]

UnbindAll(map, objs) == [o \in Object |-> IF o \in objs THEN None ELSE map[o]]

Owns(key, o, c) == heap[o][c].copyOnWriteOwner = key

\* getWriteable: the cell to write to, itself or a copy that is bound instead.
Writeable(key, o, c) == IF Owns(key, o, c) THEN c ELSE Fresh(o)

CanWrite(key, o, c) == Owns(key, o, c) \/ HasRoom(o)

\* A state with key and map writes contents to the objects in written.
WriteMap(key, map, written) ==
    [o \in Object |-> IF o \in written THEN Writeable(key, o, map[o]) ELSE map[o]]

WriteHeap(key, map, written, contents) ==
    [o \in Object |-> [c \in Cell |->
        IF o \in written /\ c = Writeable(key, o, map[o])
        THEN NewCell(key, contents[o]) ELSE heap[o][c]]]

\* Mutant: cowKey(b.cowKey + 1) leaves the original its key.
CopyKeyOfCopyOnly(k) == [mine |-> k, copy |-> k + 1]

\* Mutant: the copy starts at cowKey(1) like a new address space.
CopyKeyRestarts(k) == [mine |-> k + 1, copy |-> 1]

\* The copy constructor: both address spaces get a key no object has.
CopyKey(k) == [mine |-> k + 1, copy |-> k + 1]

-----------------------------------------------------------------------------
FirstCell == CHOOSE c \in Cell : TRUE

\* Executor::initializeGlobals, in the initial state.
Init ==
    /\ live = {First}
    /\ cowKey = [s \in State |-> 1]
    /\ allocas = [s \in State |-> {}]
    /\ symbolics = [s \in State |-> NoSymbolics]
    /\ objects = [s \in State |-> [o \in Object |->
                    IF s = First /\ o \in Globals THEN FirstCell ELSE None]]
    /\ \E contents \in [Globals -> Value] :
        heap = [o \in Object |-> [c \in Cell |->
                    IF o \in Globals /\ c = FirstCell
                    THEN [copyOnWriteOwner |-> 1, readOnly |-> o \in Constants,
                          value |-> contents[o]]
                    ELSE None]]
    /\ refCount = [o \in Object |-> IF o \in Globals THEN 1 ELSE 0]

\* ~ExecutionState, after a state is terminated for whatever reason; h has what
\* the state wrote before that.
EndWith(s, h) ==
    /\ s \in live
    /\ live' = live \ {s}
    /\ objects' = [objects EXCEPT ![s] = NoObjects]
    /\ allocas' = [allocas EXCEPT ![s] = {}]
    /\ symbolics' = [symbolics EXCEPT ![s] = NoSymbolics]
    /\ UNCHANGED cowKey
    /\ Release(h)

Terminate(s) == EndWith(s, heap)

\* An address malloc has free.  Bound: the address of a global, or of an object
\* that was on a list of allocas when it was deleted, is not handed out again.
FreeAddress(o) ==
    refCount[o] = 0 /\ o \notin Globals /\ \A s \in State : o \notin allocas[s]

\* executeAlloc, on the stack or not.
ExecuteAlloc(s, o, v, isLocal) ==
    /\ s \in live /\ FreeAddress(o) /\ HasRoom(o)
    /\ objects' = [objects EXCEPT ![s] = Bind(@, o)]
    /\ allocas' = IF isLocal THEN [allocas EXCEPT ![s] = @ \cup {o}] ELSE allocas
    /\ UNCHANGED <<live, cowKey, symbolics>>
    /\ Release(Put(heap, o, Fresh(o), NewCell(cowKey[s], v)))

\* realloc: the new object gets the contents of the old one, which is then unbound.
\* Unlike free it does not ask what the old object is: an alloca stays on its list.
ExecuteRealloc(s, o, n) ==
    /\ s \in live /\ o \in Bound(s) /\ FreeAddress(n) /\ HasRoom(n)
    /\ objects' = [objects EXCEPT ![s] = UnbindAll(Bind(@, n), {o})]
    /\ UNCHANGED <<live, cowKey, allocas, symbolics>>
    /\ Release(Put(heap, n, Fresh(n), NewCell(cowKey[s], Os(s, o).value)))

\* executeFree: "free of alloca" and "free of global" end the state.
ExecuteFree(s, o) ==
    /\ s \in live /\ o \in Bound(s)
    /\ IF o \in Globals \cup allocas[s]
       THEN Terminate(s)
       ELSE /\ objects' = [objects EXCEPT ![s] = UnbindAll(@, {o})]
            /\ UNCHANGED <<live, cowKey, allocas, symbolics>>
            /\ Release(heap)

\* popFrame: the allocas of the frame are unbound, those that realloc has unbound
\* before without effect.  If such an object has been deleted, the address is read
\* from freed memory, and any object may be unbound in its place.
PopFrame(s, frame) ==
    /\ s \in live /\ frame \subseteq allocas[s] /\ frame # {}
    /\ LET deleted == {o \in frame : refCount[o] = 0}
       IN  \E read \in [deleted -> Object] :
            objects' = [objects EXCEPT ![s] =
                            UnbindAll(@, (frame \ deleted) \cup {read[o] : o \in deleted})]
    /\ allocas' = [allocas EXCEPT ![s] = @ \ frame]
    /\ UNCHANGED <<live, cowKey, symbolics>>
    /\ Release(heap)

\* executeMakeSymbolic: a new ObjectState is bound instead of a copy, and every
\* call adds an entry to symbolics.
ExecuteMakeSymbolic(s, o, v) ==
    /\ s \in live /\ o \in Bound(s) /\ HasRoom(o)
    /\ IF Os(s, o).readOnly
       THEN Terminate(s)
       ELSE /\ symbolics[s][o] < MaxSymbolics
            /\ objects' = [objects EXCEPT ![s] = Bind(@, o)]
            /\ symbolics' = [symbolics EXCEPT ![s][o] = @ + 1]
            /\ UNCHANGED <<live, cowKey, allocas>>
            /\ Release(Put(heap, o, Fresh(o), NewCell(cowKey[s], v)))

\* The writes of one state; UNCHANGED what only branches and ends change.
WriteObjects(s, written, contents) ==
    /\ \A o \in written : CanWrite(cowKey[s], o, objects[s][o])
    /\ objects' = [objects EXCEPT ![s] = WriteMap(cowKey[s], @, written)]
    /\ UNCHANGED <<live, cowKey, allocas, symbolics>>
    /\ Release(WriteHeap(cowKey[s], objects[s], written, contents))

\* Mutant: the test of readOnly is missing.
ExecuteStoreUnchecked(s, o, v) ==
    /\ s \in live /\ o \in Bound(s)
    /\ WriteObjects(s, {o}, [p \in {o} |-> v])

\* executeMemoryOperation, a store that is in bounds.
ExecuteStore(s, o, v) ==
    /\ s \in live /\ o \in Bound(s)
    /\ IF Os(s, o).readOnly
       THEN Terminate(s)
       ELSE WriteObjects(s, {o}, [p \in {o} |-> v])

\* callExternalFunction: after the call the objects it wrote to are copied in, in
\* the order of their addresses, and errno on its own.  A read-only object among
\* them ends the state, with the objects before it copied in.
CallExternal(s, written, contents) ==
    /\ s \in live /\ written \subseteq Bound(s) /\ written # {}
    /\ IF \E o \in written : Os(s, o).readOnly
       THEN \E copied \in SUBSET {o \in written : ~Os(s, o).readOnly} :
                /\ \A o \in copied : CanWrite(cowKey[s], o, objects[s][o])
                /\ EndWith(s, WriteHeap(cowKey[s], objects[s], copied, contents))
       ELSE WriteObjects(s, written, contents)

\* The copy constructor of ExecutionState, for branch and for specBranch.
Branch(s, t) ==
    /\ s \in live /\ t \in State \ live /\ cowKey[s] < MaxKey
    /\ live' = live \cup {t}
    /\ LET key == CopyKey(cowKey[s])
       IN  cowKey' = [cowKey EXCEPT ![s] = key.mine, ![t] = key.copy]
    /\ objects' = [objects EXCEPT ![t] = objects[s]]
    /\ allocas' = [allocas EXCEPT ![t] = allocas[s]]
    /\ symbolics' = [symbolics EXCEPT ![t] = symbolics[s]]
    /\ Release(heap)

\* executeMemoryOperation, a store that may be to several objects: the state is
\* forked, and the side b where the pointer is in bounds writes to the
\* ObjectState that was resolved before the fork.
StoreOneOfMany(s, t, b, o, v) ==
    /\ s \in live /\ t \in State \ live /\ b \in {s, t} /\ cowKey[s] < MaxKey
    /\ o \in Bound(s) /\ ~Os(s, o).readOnly /\ HasRoom(o)
    /\ LET key == CopyKey(cowKey[s])
           keyOfB == IF b = s THEN key.mine ELSE key.copy
           other == IF b = s THEN t ELSE s
       IN  /\ cowKey' = [cowKey EXCEPT ![s] = key.mine, ![t] = key.copy]
           /\ objects' = [objects EXCEPT ![b] = WriteMap(keyOfB, objects[s], {o}),
                                         ![other] = objects[s]]
           /\ live' = live \cup {t}
           /\ allocas' = [allocas EXCEPT ![t] = allocas[s]]
           /\ symbolics' = [symbolics EXCEPT ![t] = symbolics[s]]
           /\ Release(WriteHeap(keyOfB, objects[s], {o}, [p \in {o} |-> v]))

\* ExecutionState::merge of b into a, after which the caller terminates b.  The
\* objects whose ObjectStates differ are written to.  The lists of symbolics are
\* compared by how often an object is on them.
Mutated(a, b) == {o \in Object : objects[a][o] # objects[b][o]}

Merge(a, b) ==
    /\ a \in live /\ b \in live \ {a}
    /\ symbolics[a] = symbolics[b] /\ Bound(a) = Bound(b)
    /\ \A o \in Mutated(a, b) : CanWrite(cowKey[a], o, objects[a][o])
    /\ live' = live \ {b}
    /\ objects' = [objects EXCEPT ![a] = WriteMap(cowKey[a], @, Mutated(a, b)),
                                  ![b] = NoObjects]
    /\ allocas' = [allocas EXCEPT ![b] = {}]
    /\ symbolics' = [symbolics EXCEPT ![b] = NoSymbolics]
    /\ Release(WriteHeap(cowKey[a], objects[a], Mutated(a, b),
                [o \in Mutated(a, b) |-> Select(Os(a, o).value, Os(b, o).value)]))
    /\ UNCHANGED cowKey

\* No state is left.
Done == live = {} /\ UNCHANGED vars

Next ==
    \/ \E s \in State : Terminate(s)
    \/ \E s \in State, o \in Object, v \in Value, isLocal \in BOOLEAN :
        ExecuteAlloc(s, o, v, isLocal)
    \/ \E s \in State, o, n \in Object : ExecuteRealloc(s, o, n)
    \/ \E s \in State, o \in Object : ExecuteFree(s, o)
    \/ \E s \in State, frame \in SUBSET Object : PopFrame(s, frame)
    \/ \E s \in State, o \in Object, v \in Value : ExecuteMakeSymbolic(s, o, v)
    \/ \E s \in State, o \in Object, v \in Value : ExecuteStore(s, o, v)
    \/ \E s \in State, written \in SUBSET Object :
        \E contents \in [written -> Value] : CallExternal(s, written, contents)
    \/ \E s, t \in State : Branch(s, t)
    \/ \E s, t, b \in State, o \in Object, v \in Value : StoreOneOfMany(s, t, b, o, v)
    \/ \E a, b \in State : Merge(a, b)
    \/ Done

Spec == Init /\ [][Next]_vars
-----------------------------------------------------------------------------
(* Properties *)

\* Every variable has the type the C++ declarations give it, with the bounds of
\* this module.
TypeOK ==
    /\ live \subseteq State
    /\ cowKey \in [State -> 1..MaxKey]
    /\ objects \in [State -> [Object -> Cell \cup {None}]]
    /\ allocas \in [State -> SUBSET Object]
    /\ symbolics \in [State -> [Object -> 0..MaxSymbolics]]
    /\ heap \in [Object -> [Cell -> ObjectState \cup {None}]]
    /\ refCount \in [Object -> Nat]

\* The invariant AddressSpace.h documents: "forall o in objects,
\* o->copyOnWriteOwner <= cowKey", through every bind, copy and branch.
OwnersUpToKey ==
    \A s \in State, o \in Object :
        o \in Bound(s) => Os(s, o).copyOnWriteOwner <= cowKey[s]

\* What getWriteable relies on when it hands out an ObjectState without a copy:
\* one with the key of the address space is in no other address space, although
\* a state and its copy have the same key.
OwnersAlone ==
    \A s, t \in State, o \in Object :
        s # t /\ o \in Bound(s) /\ objects[t][o] = objects[s][o]
            => Os(s, o).copyOnWriteOwner < cowKey[s]

\* MemoryObject::refCount counts its ObjectStates and its entries in symbolics,
\* over all states, so that the destructors delete it, and give its address back
\* to malloc, with the last of them and not before.
CountsReferences ==
    \A o \in Object :
        refCount[o] = Cardinality(Existing(heap, o)) + Cardinality(SymbolicIn(symbolics, o))

\* The assertion of ExecutionState::merge: when two states pass its tests, the
\* objects that differ between them are not read-only.
MergesWriteableOnly ==
    \A a, b \in live :
        Bound(a) = Bound(b) => \A o \in Mutated(a, b) : ~Os(a, o).readOnly

\* What a state reads: the contents of the ObjectStates in its map.
Memory ==
    [s \in State |-> [o \in Object |->
        IF objects[s][o] = None THEN None ELSE Os(s, o).value]]

Private == INSTANCE PrivateMemory WITH Unbound <- None, mem <- Memory

\* Sharing is not seen: with copy-on-write, reference counts and keys that states
\* have in common, every state reads what it would read from a memory of its own.
PrivateMemories == Private!Spec

=============================================================================
