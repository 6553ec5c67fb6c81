------------------------- MODULE AddressSpaceProofs -------------------------
(***************************************************************************)
(* The theorems on AddressSpace: IInv is an invariant, the properties that *)
(* follow from it, and the refinement of PrivateMemory.  What an operation *)
(* does is in the lemmas of AddressSpaceLemmas and AddressSpaceSteps; here *)
(* each is matched with the operation of PrivateMemory it performs.        *)
(***************************************************************************)
EXTENDS AddressSpaceSteps

\* Two live states agree on the constants, so that merge writes to none of them.
LEMMA MergeKeeps ==
    ASSUME IInv, NEW a \in State, NEW b \in State, Merge(a, b)
    PROVE  /\ IInv'
           /\ Memory' = [u \in State |->
                IF u = b THEN NoObjects
                ELSE IF u = a
                THEN [o \in Object |-> IF o \in Bound(a)
                                       THEN Select(Memory[a][o], Memory[b][o]) ELSE None]
                ELSE Memory[u]]
<1> DEFINE written == Mutated(a, b)
           contents == [o \in written |-> Select(Os(a, o).value, Os(b, o).value)]
           h == WriteHeap(cowKey[a], objects[a], written, contents)
<1>1. /\ a \in live /\ b \in live \ {a} /\ Bound(a) = Bound(b) /\ cowKey' = cowKey
      /\ \A o \in written : CanWrite(cowKey[a], o, objects[a][o])
      /\ live' = live \ {b} /\ Release(h) /\ cowKey[a] \in Nat
  BY Facts DEF Merge
<1>2. /\ allocas' \in [State -> SUBSET Object] /\ symbolics' \in Symbolics
      /\ live' \subseteq State
  <2>1. /\ allocas' = [allocas EXCEPT ![b] = {}] /\ live' = live \ {b}
        /\ symbolics' = [symbolics EXCEPT ![b] = NoSymbolics]
    BY DEF Merge
  <2>2. NoSymbolics \in [Object -> 0..MaxSymbolics]
    BY ConstantsAssumption DEF NoSymbolics
  <2> QED BY <2>1, <2>2, Facts DEF Symbolics
<1>3. written \subseteq Bound(a) /\ written \subseteq Object
  BY <1>1, SMTT(20) DEF Mutated, Bound
<1>4. \A o \in written : o \notin Constants
  <2> SUFFICES ASSUME NEW o \in Constants, o \in written PROVE FALSE
    OBVIOUS
  <2>1. objects[a][o] # None /\ objects[b][o] # None /\ objects[a][o] # objects[b][o]
    BY <1>1, <1>3, SMTT(20) DEF Mutated, Bound
  <2> QED BY <1>1, <2>1, Facts DEF Placed
<1>5. \A o \in written : contents[o] \in Value
  <2> SUFFICES ASSUME NEW o \in written PROVE Select(Os(a, o).value, Os(b, o).value) \in Value
    OBVIOUS
  <2>1. o \in Object /\ objects[a][o] # None /\ objects[b][o] # None
    BY <1>1, <1>3 DEF Bound
  <2>2. Os(a, o) \in ObjectState /\ Os(b, o) \in ObjectState
    BY <2>1, Facts DEF KeyInv, Os
  <2>3. Os(a, o).value \in Value /\ Os(b, o).value \in Value
    BY <2>2 DEF ObjectState
  <2> QED BY <2>3, SelectAssumption
<1>6. \A o \in written : Writeable(cowKey[a], o, objects[a][o]) \in Cell
  <2> SUFFICES ASSUME NEW o \in written
               PROVE  Writeable(cowKey[a], o, objects[a][o]) \in Cell
    OBVIOUS
  <2>1. objects[a][o] \in Cell /\ CanWrite(cowKey[a], o, objects[a][o])
    BY <1>1, <1>3, Facts DEF Maps, Bound
  <2> HIDE DEF written
  <2> QED BY <2>1, FreshCell, Zenon DEF Writeable, CanWrite
<1>7. WriteMap(cowKey[a], objects[a], written) \in [Object -> Cell \cup {None}]
  BY <1>3, <1>6, Facts DEF WriteMap, Maps
<1>8. /\ objects' \in Maps /\ objects'[b] = NoObjects
      /\ objects'[a] = WriteMap(cowKey[a], objects[a], written)
      /\ \A u \in State \ {a, b} : objects'[u] = objects[u]
  <2>1. objects' = [objects EXCEPT ![a] = WriteMap(cowKey[a], objects[a], written),
                                   ![b] = NoObjects]
    BY DEF Merge
  <2>2. NoObjects \in [Object -> Cell \cup {None}]
    BY DEF NoObjects
  <2> HIDE DEF written
  <2> QED BY <1>1, <1>7, <2>1, <2>2, Facts DEF Maps
<1>c. \A o \in Bound(a) : /\ Memory[a][o] = Os(a, o).value /\ Memory[b][o] = Os(b, o).value
                          /\ Memory[a][o] \in Value
  <2> SUFFICES ASSUME NEW o \in Bound(a)
               PROVE  /\ Memory[a][o] = Os(a, o).value /\ Memory[b][o] = Os(b, o).value
                      /\ Memory[a][o] \in Value
    OBVIOUS
  <2>1. o \in Object /\ objects[a][o] # None /\ objects[b][o] # None
    BY <1>1 DEF Bound
  <2>2. Os(a, o) \in ObjectState
    BY <2>1, Facts DEF KeyInv, Os
  <2>3. Memory[a][o] = Os(a, o).value /\ Memory[b][o] = Os(b, o).value
    BY <2>1 DEF Memory
  <2> QED BY <2>2, <2>3 DEF ObjectState
<1>d. /\ \A o \in written : contents[o] = Select(Memory[a][o], Memory[b][o])
      /\ \A o \in Bound(a) \ written : Memory[a][o] = Select(Memory[a][o], Memory[b][o])
      /\ \A o \in Object \ Bound(a) : Memory[a][o] = None /\ o \notin written
  <2>1. \A o \in Bound(a) \ written : objects[a][o] = objects[b][o]
    BY DEF Mutated, Bound
  <2>2. \A o \in Bound(a) \ written : Memory[a][o] = Memory[b][o]
    BY <1>c, <2>1 DEF Os
  <2>3. \A o \in Object \ Bound(a) : Memory[a][o] = None /\ o \notin written
    BY <1>3 DEF Memory, Bound
  <2>4. \A o \in written : contents[o] = Select(Memory[a][o], Memory[b][o])
    BY <1>3, <1>c
  <2>5. \A o \in Bound(a) \ written : Memory[a][o] = Select(Memory[a][o], Memory[b][o])
    BY <1>c, <2>2, SelectAssumption, SMTT(20)
  <2> QED BY <2>3, <2>4, <2>5
<1> HIDE DEF written, contents
<1>9. Writes(a, cowKey[a], objects, objects', written, contents, h)
  BY <1>1, <1>3, <1>4, <1>5, <1>8, Facts, SMTT(20) DEF Writes, Bound
<1> HIDE DEF h
<1>10. /\ h \in Heaps /\ ReadOnlyAsAdded(h) /\ Local(a, cowKey[a], objects, objects', h)
       /\ \A o \in written : objects'[a][o] # None /\ h[o][objects'[a][o]].value = contents[o]
       /\ \A o \in Object \ written : objects'[a][o] = objects[a][o]
       /\ \A o \in Object \ written, c \in Cell : h[o][c] = heap[o][c]
  <2>1. heap \in Heaps /\ ReadOnlyAsAdded(heap)
    BY Facts
  <2>2. Wrote(a, cowKey[a], objects, objects', written, contents, h)
    BY ONLY <1>9, <2>1, WriteIsLocal, Zenon
  <2> QED BY ONLY <2>2, Zenon DEF Wrote
<1>11. Placed'
  <2>1. \A o \in Constants : objects'[a][o] = objects[a][o]
    BY <1>4, <1>10, ConstantsAssumption
  <2>2. /\ live' \subseteq live /\ \A u \in State \ live : objects'[u] = objects[u]
        /\ \A u \in live \ live' : objects'[u] = NoObjects
    BY <1>1, <1>8
  <2>3. \A u \in live', o \in Constants : objects'[u][o] \in {None, objects[u][o]}
    BY <1>1, <1>2, <1>8, <2>1
  <2> QED BY ONLY IInv, <2>2, <2>3, PlacedKept, Zenon
<1>12. /\ IInv' /\ Memory'[a] = Contents(objects'[a], h)
       /\ \A u \in State \ {a} : Memory'[u] = Contents(objects'[u], heap)
  BY <1>1, <1>2, <1>8, <1>10, <1>11, Facts, LocalStep, Zenon
<1>13. Contents(objects'[a], h) =
            [o \in Object |-> IF o \in Bound(a) THEN Select(Memory[a][o], Memory[b][o]) ELSE None]
  <2>1. \A o \in written : Contents(objects'[a], h)[o] = contents[o]
    BY <1>3, <1>10 DEF Contents
  <2>2. \A o \in Object \ written : Contents(objects'[a], h)[o] = Memory[a][o]
    <3> SUFFICES ASSUME NEW o \in Object \ written
                 PROVE  Contents(objects'[a], h)[o] = Contents(objects[a], heap)[o]
      BY MemoryFacts
    <3>1. objects'[a][o] = objects[a][o] /\ objects[a][o] \in Cell \cup {None}
      BY <1>10, Facts DEF Maps
    <3>2. \A c \in Cell : h[o][c] = heap[o][c]
      BY <1>10
    <3> QED BY ONLY <3>1, <3>2, o \in Object, SameContents, SMTT(60)
  <2>3. Contents(objects'[a], h) = [o \in Object |-> Contents(objects'[a], h)[o]]
    BY SMTT(20) DEF Contents
  <2>4. \A o \in Object : Contents(objects'[a], h)[o] =
            IF o \in Bound(a) THEN Select(Memory[a][o], Memory[b][o]) ELSE None
    <3> HIDE DEF Memory
    <3> QED BY <1>3, <1>d, <2>1, <2>2
  <2> HIDE DEF Memory
  <2> QED BY <2>3, <2>4
<1>14. /\ \A u \in State \ {a, b} : Memory'[u] = Memory[u]
       /\ Memory'[b] = NoObjects
  <2>1. Contents(NoObjects, heap) = NoObjects
    BY DEF Contents, NoObjects
  <2> QED BY <1>1, <1>8, <1>12, <2>1, MemoryFacts
<1> HIDE DEF Memory
<1> QED BY <1>1, <1>12, <1>13, <1>14, MemoryFacts

\* The initial state has every global, with the first key.
LEMMA InitHolds ==
    ASSUME Init
    PROVE  IInv
<1> DEFINE cell(o) == heap[o][FirstCell]
<1>1. FirstCell \in Cell /\ FirstCell # None /\ First \in State
  BY ConstantsAssumption DEF FirstCell
<1>2. PICK contents \in [Globals -> Value] :
        heap = [o \in Object |-> [c \in Cell |->
                    IF o \in Globals /\ c = FirstCell
                    THEN [copyOnWriteOwner |-> 1, readOnly |-> o \in Constants,
                          value |-> contents[o]]
                    ELSE None]]
  BY DEF Init
<1>3. \A o \in Globals : /\ cell(o) \in ObjectState /\ cell(o).copyOnWriteOwner = 1
                         /\ (cell(o).readOnly <=> o \in Constants)
  <2> SUFFICES ASSUME NEW o \in Globals
               PROVE  /\ cell(o) \in ObjectState /\ cell(o).copyOnWriteOwner = 1
                      /\ (cell(o).readOnly <=> o \in Constants)
    OBVIOUS
  <2> DEFINE ro == o \in Constants
  <2>1. cell(o) = [copyOnWriteOwner |-> 1, readOnly |-> ro, value |-> contents[o]]
    BY <1>1, <1>2, ConstantsAssumption, Zenon
  <2>2. ro \in BOOLEAN
    OBVIOUS
  <2> HIDE DEF ro
  <2>4. contents[o] \in Value
    OBVIOUS
  <2>3. cell(o) \in ObjectState /\ cell(o).copyOnWriteOwner = 1 /\ cell(o).readOnly = ro
    BY <2>1, <2>2, <2>4, SMTT(60) DEF ObjectState
  <2> QED BY <2>3, Zenon DEF ro
<1>4. /\ \A o \in Object, c \in Cell : o \notin Globals \/ c # FirstCell => heap[o][c] = None
      /\ heap = [o \in Object |-> [c \in Cell |-> heap[o][c]]]
  BY <1>2
<1>5. heap \in Heaps
  BY <1>1, <1>3, <1>4 DEF Heaps
<1>6. TypeOK
  <2>1. symbolics = [s \in State |-> NoSymbolics] /\ NoSymbolics \in [Object -> 0..MaxSymbolics]
    BY ConstantsAssumption DEF Init, NoSymbolics
  <2>2. symbolics \in [State -> [Object -> 0..MaxSymbolics]]
    BY ONLY <2>1
  <2> QED BY <1>1, <1>5, <2>2, ConstantsAssumption DEF Init, TypeOK, Heaps
<1>7. /\ \A o \in Globals : objects[First][o] = FirstCell
      /\ \A o \in Object \ Globals : objects[First][o] = None
      /\ \A s \in State \ {First}, o \in Object : objects[s][o] = None
      /\ \A s \in State : objects[s] = [o \in Object |-> objects[s][o]] /\ cowKey[s] = 1
  BY <1>1, ConstantsAssumption DEF Init
<1> HIDE DEF cell
<1>8. KeyInv(cowKey, objects, heap)
  <2>1. \A s \in State, o \in Object : objects[s][o] # None =>
            s = First /\ o \in Globals /\ objects[s][o] = FirstCell
    BY <1>7
  <2>2. \A o \in Globals : /\ heap[o][FirstCell] \in ObjectState
                           /\ heap[o][FirstCell].copyOnWriteOwner <= cowKey[First]
    <3>1. \A o \in Globals : cell(o) \in ObjectState /\ cell(o).copyOnWriteOwner = 1
      BY <1>3, Zenon
    <3>2. cowKey[First] = 1
      BY <1>1, <1>7, Zenon
    <3> QED BY <3>1, <3>2 DEF cell
  <2> QED BY <2>1, <2>2 DEF KeyInv
<1>9. ReadOnlyAsAdded(heap)
  BY <1>3, <1>4, Zenon DEF ReadOnlyAsAdded, cell
<1>10. Placed
  <2>1. live = {First}
    BY DEF Init
  <2> QED BY <1>1, <1>7, <2>1 DEF Placed, NoObjects
<1>11. CountsReferences
  <2> SUFFICES ASSUME NEW o \in Object
               PROVE  refCount[o] = Cardinality(Existing(heap, o))
                                  + Cardinality(SymbolicIn(symbolics, o))
    BY DEF CountsReferences
  <2>1. SymbolicIn(symbolics, o) = {}
    <3>1. \A s \in State : symbolics[s][o] = 0
      BY DEF Init, NoSymbolics
    <3>2. 1..0 = {}
      OBVIOUS
    <3> QED BY <3>1, <3>2 DEF SymbolicIn
  <2>2. Cardinality({}) = 0 /\ Cardinality({FirstCell}) = 1
    BY FS_EmptySet, FS_Singleton
  <2>3. CASE o \in Globals
    <3>1. Existing(heap, o) = {FirstCell}
      <4>1. heap[o][FirstCell] # None
        BY <2>3, <1>3, ConstantsAssumption, Zenon DEF cell
      <4>2. \A c \in Cell : c # FirstCell => heap[o][c] = None
        BY <1>4, Zenon
      <4> QED BY ONLY <1>1, <4>1, <4>2 DEF Existing
    <3>2. refCount[o] = 1
      BY <2>3 DEF Init
    <3> QED BY <2>1, <2>2, <3>1, <3>2
  <2>4. CASE o \notin Globals
    <3>1. Existing(heap, o) = {}
      BY <2>4, <1>4 DEF Existing
    <3>2. refCount[o] = 0
      BY <2>4 DEF Init
    <3> QED BY <2>1, <2>2, <3>1, <3>2
  <2> QED BY <2>3, <2>4
<1> QED BY <1>6, <1>8, <1>9, <1>10, <1>11 DEF IInv

-----------------------------------------------------------------------------
\* IInv is inductive.
LEMMA StepKeeps ==
    ASSUME IInv, [Next]_vars
    PROVE  IInv'
<1>1. CASE \E s \in State : Terminate(s)
  BY <1>1, TerminateKeeps
<1>2. CASE \E s \in State, o \in Object, v \in Value, isLocal \in BOOLEAN :
            ExecuteAlloc(s, o, v, isLocal)
  BY <1>2, AllocKeeps
<1>3. CASE \E s \in State, o, n \in Object : ExecuteRealloc(s, o, n)
  BY <1>3, ReallocKeeps
<1>4. CASE \E s \in State, o \in Object : ExecuteFree(s, o)
  BY <1>4, FreeKeeps
<1>5. CASE \E s \in State, frame \in SUBSET Object : PopFrame(s, frame)
  BY <1>5, PopFrameKeeps
<1>6. CASE \E s \in State, o \in Object, v \in Value : ExecuteMakeSymbolic(s, o, v)
  BY <1>6, MakeSymbolicKeeps
<1>7. CASE \E s \in State, o \in Object, v \in Value : ExecuteStore(s, o, v)
  BY <1>7, StoreKeeps, ZenonT(40)
<1>8. CASE \E s \in State, written \in SUBSET Object :
            \E contents \in [written -> Value] : CallExternal(s, written, contents)
  BY <1>8, CallExternalKeeps
<1>9. CASE \E s, t \in State : Branch(s, t)
  BY <1>9, BranchKeeps
<1>10. CASE \E s, t, b \in State, o \in Object, v \in Value : StoreOneOfMany(s, t, b, o, v)
  BY <1>10, StoreOneOfManyKeeps
<1>11. CASE \E a, b \in State : Merge(a, b)
  BY <1>11, MergeKeeps
<1>12. CASE UNCHANGED vars
  <2>1. /\ live' = live /\ cowKey' = cowKey /\ objects' = objects /\ allocas' = allocas
        /\ symbolics' = symbolics /\ heap' = heap /\ refCount' = refCount
    BY <1>12 DEF vars
  <2>2. IInv
    OBVIOUS
  <2>3. TypeOK'
    BY ONLY <2>1, <2>2, Zenon DEF IInv, TypeOK
  <2>4. KeyInv(cowKey, objects, heap)' /\ ReadOnlyAsAdded(heap)'
    BY ONLY <2>1, <2>2, Zenon DEF IInv, KeyInv, ReadOnlyAsAdded
  <2>5. Placed'
    BY ONLY <2>1, <2>2 DEF IInv, Placed
  <2>6. CountsReferences'
    BY ONLY <2>1, <2>2, Zenon DEF IInv, CountsReferences, Existing, SymbolicIn
  <2> QED BY <2>3, <2>4, <2>5, <2>6 DEF IInv
<1> QED
  BY <1>1, <1>2, <1>3, <1>4, <1>5, <1>6, <1>7, <1>8, <1>9, <1>10, <1>11, <1>12 DEF Next, Done

\* The data of address spaces, objects and counts keep the types and the invariant
\* IInv through every operation, for any numbers of states, objects and values.
THEOREM Invariant == Spec => [](TypeOK /\ IInv)
<1>1. Init => IInv
  BY InitHolds
<1>2. IInv /\ [Next]_vars => IInv'
  BY StepKeeps
<1>3. IInv => TypeOK
  BY DEF IInv
<1> QED BY <1>1, <1>2, <1>3, PTL DEF Spec

\* The invariant AddressSpace.h documents holds through every bindObject, copy,
\* getWriteable and merge: no object's owner is above the key.
THEOREM OwnersStayUpToKey == Spec => []OwnersUpToKey
<1>1. IInv => OwnersUpToKey
  BY DEF IInv, KeyInv, OwnersUpToKey, Bound, Os
<1> QED BY <1>1, Invariant, PTL

\* What getWriteable hands out without a copy is in no other address space,
\* although a state and its copy have the same key.
THEOREM OwnersStayAlone == Spec => []OwnersAlone
<1>1. IInv => OwnersAlone
  BY DEF IInv, KeyInv, OwnersAlone, Bound, Os
<1> QED BY <1>1, Invariant, PTL

\* MemoryObject::refCount is the number of ObjectStates and of entries of symbolics,
\* so that an object is deleted with the last of them and not before.
THEOREM CountsStayRight == Spec => []CountsReferences
<1>1. IInv => CountsReferences
  BY DEF IInv
<1> QED BY <1>1, Invariant, PTL

\* The assertion on read-only objects in ExecutionState::merge cannot fail.
THEOREM MergesStayWriteable == Spec => []MergesWriteableOnly
<1>1. IInv => MergesWriteableOnly
  <2> SUFFICES ASSUME IInv, NEW a \in live, NEW b \in live, Bound(a) = Bound(b),
                      NEW o \in Mutated(a, b)
               PROVE  ~Os(a, o).readOnly
    BY DEF MergesWriteableOnly
  <2>1. o \in Bound(a) /\ o \in Bound(b) /\ a \in State
    BY Facts DEF Mutated, Bound
  <2>2. o \notin Constants
    <3>1. objects[a][o] # None /\ objects[b][o] # None /\ objects[a][o] # objects[b][o]
      BY <2>1 DEF Mutated, Bound
    <3> QED BY <3>1, Facts DEF Placed
  <2> QED BY <2>1, <2>2, ReadOnlyObjects
<1> QED BY <1>1, Invariant, PTL

-----------------------------------------------------------------------------
\* What a state reads from an object is a value exactly when it has the object.
LEMMA MemoryTyped ==
    ASSUME IInv
    PROVE  /\ Memory \in [State -> [Object -> Value \cup {None}]]
           /\ \A s \in State : Private!Bound(s) = Bound(s)
           /\ Private!Empty = NoObjects
<1>1. \A s \in State, o \in Object : objects[s][o] # None => Os(s, o).value \in Value
  BY Facts DEF KeyInv, Os, ObjectState
<1>2. \A s \in State, o \in Object :
        Memory[s][o] = IF objects[s][o] = None THEN None ELSE Os(s, o).value
  BY DEF Memory
<1>3. Memory = [s \in State |-> [o \in Object |-> Memory[s][o]]]
  BY DEF Memory
<1> HIDE DEF Memory
<1>4. \A s \in State, o \in Object :
        Memory[s][o] \in Value \cup {None} /\ (Memory[s][o] = None <=> objects[s][o] = None)
  BY <1>1, <1>2, ConstantsAssumption
<1>5. \A s \in State : Private!Bound(s) = Bound(s)
  BY <1>4 DEF Private!Bound, Bound
<1>6. Private!Empty = NoObjects
  BY DEF Private!Empty, NoObjects
<1> QED BY <1>3, <1>4, <1>5, <1>6

\* A state ends, whatever it wrote just before.
LEMMA EndRefines ==
    ASSUME IInv, NEW s \in live, live' = live \ {s},
           Memory' = [Memory EXCEPT ![s] = NoObjects]
    PROVE  Private!Next
<1>1. s \in State /\ Private!Empty = NoObjects
  BY Facts, MemoryTyped
<1> HIDE DEF Memory
<1>2. Private!End(s)
  BY <1>1 DEF Private!End
<1> QED BY <1>1, <1>2 DEF Private!Next

LEMMA TerminateRefines ==
    ASSUME IInv, NEW s \in State, Terminate(s)
    PROVE  Private!Next
<1>1. Memory' = [Memory EXCEPT ![s] = NoObjects]
  BY TerminateKeeps
<1>2. s \in live /\ live' = live \ {s}
  BY DEF Terminate, EndWith
<1> HIDE DEF Memory
<1> QED BY <1>1, <1>2, EndRefines

\* A change of contents that one state sees.
LEMMA AssignRefines ==
    ASSUME IInv, IInv', NEW s \in live, NEW written \in SUBSET (Bound(s) \ Constants),
           NEW f, \A o \in written : f[o] \in Value, live' = live,
           Memory' = [Memory EXCEPT ![s] =
                        [o \in Object |-> IF o \in written THEN f[o] ELSE Memory[s][o]]]
    PROVE  Private!Next
<1>1. /\ s \in State /\ Memory \in [State -> [Object -> Value \cup {None}]]
      /\ Private!Bound(s) = Bound(s)
  BY Facts, MemoryTyped
<1> HIDE DEF Memory
<1>2. /\ \A t \in State \ {s} : Memory'[t] = Memory[t]
      /\ Memory'[s] = [o \in Object |-> IF o \in written THEN f[o] ELSE Memory[s][o]]
  BY <1>1
<1>3. \A o \in Object : \/ Memory'[s][o] = Memory[s][o]
                        \/ o \in Bound(s) \ Constants /\ Memory'[s][o] \in Value
  BY <1>2
<1>4. \A o \in Object : (IF o \in written THEN f[o] ELSE Memory[s][o]) \in Value \cup {None}
  BY <1>1
<1>5. Memory' \in [State -> [Object -> Value \cup {None}]]
  BY <1>1, <1>4
<1>6. Private!Assign(s)
  BY <1>1, <1>2, <1>3, <1>5 DEF Private!Assign
<1> QED BY <1>1, <1>6 DEF Private!Next

LEMMA OverwriteRefines ==
    ASSUME IInv, IInv', NEW s \in live, NEW written \in SUBSET (Bound(s) \ Constants),
           NEW contents, \A o \in written : contents[o] \in Value, live' = live,
           Memory' = Overwritten(s, written, contents)
    PROVE  Private!Next
  BY AssignRefines DEF Overwritten

LEMMA AllocRefines ==
    ASSUME IInv, NEW s \in State, NEW o \in Object, NEW v \in Value, NEW isLocal \in BOOLEAN,
           ExecuteAlloc(s, o, v, isLocal)
    PROVE  Private!Next
<1>1. /\ \A u \in State : objects[u][o] = None
      /\ Memory' = [Memory EXCEPT ![s] =
                        [p \in Object |-> IF p = o THEN v ELSE Memory[s][p]]]
  BY AllocKeeps
<1>2. s \in live /\ live' = live
  BY DEF ExecuteAlloc
<1>3. \A u \in State : Memory[u][o] = None
  BY <1>1 DEF Memory
<1> HIDE DEF Memory
<1>4. Private!Bind(s, o, v)
  BY <1>1, <1>2, <1>3 DEF Private!Bind
<1> QED BY <1>4 DEF Private!Next

LEMMA ReallocRefines ==
    ASSUME IInv, NEW s \in State, NEW o \in Object, NEW n \in Object,
           ExecuteRealloc(s, o, n)
    PROVE  Private!Next
<1>1. /\ \A u \in State : objects[u][n] = None
      /\ Memory' = [Memory EXCEPT ![s] = [p \in Object |->
            CASE p = o -> None [] p = n -> Memory[s][o] [] OTHER -> Memory[s][p]]]
  BY ReallocKeeps
<1>2. s \in live /\ live' = live /\ o \in Private!Bound(s)
  BY MemoryTyped DEF ExecuteRealloc
<1>3. \A u \in State : Memory[u][n] = None
  BY <1>1 DEF Memory
<1> HIDE DEF Memory
<1>4. Private!Move(s, o, n)
  BY <1>1, <1>2, <1>3 DEF Private!Move
<1> QED BY <1>4 DEF Private!Next

LEMMA UnbindRefines ==
    ASSUME IInv, NEW s \in live, NEW gone \in SUBSET Object, live' = live,
           Memory' = [Memory EXCEPT ![s] =
                        [o \in Object |-> IF o \in gone THEN None ELSE Memory[s][o]]]
    PROVE  Private!Next
<1> DEFINE objs == gone \cap Private!Bound(s)
<1>1. s \in State /\ objs \in SUBSET Object
  BY Facts
<1> HIDE DEF Memory
<1>2. \A o \in Object \ Private!Bound(s) : Memory[s][o] = None
  BY DEF Private!Bound
<1>3. [o \in Object |-> IF o \in gone THEN None ELSE Memory[s][o]]
        = [o \in Object |-> IF o \in objs THEN None ELSE Memory[s][o]]
  BY <1>2
<1>4. Private!Unbind(s, objs)
  BY <1>3 DEF Private!Unbind
<1> QED BY <1>1, <1>4 DEF Private!Next

LEMMA FreeRefines ==
    ASSUME IInv, NEW s \in State, NEW o \in Object, ExecuteFree(s, o)
    PROVE  Private!Next
<1>1. CASE Terminate(s)
  BY <1>1, TerminateRefines
<1>2. CASE ~Terminate(s)
  <2>1. /\ s \in live /\ {o} \in SUBSET Object /\ live' = live
        /\ Memory' = [Memory EXCEPT ![s] =
                        [p \in Object |-> IF p \in {o} THEN None ELSE Memory[s][p]]]
    BY <1>2, FreeKeeps
  <2> HIDE DEF Memory
  <2> QED BY <2>1, UnbindRefines
<1> QED BY <1>1, <1>2

LEMMA PopFrameRefines ==
    ASSUME IInv, NEW s \in State, NEW frame \in SUBSET Object, PopFrame(s, frame)
    PROVE  Private!Next
<1>1. PICK gone \in SUBSET Object :
        Memory' = [Memory EXCEPT ![s] =
                        [o \in Object |-> IF o \in gone THEN None ELSE Memory[s][o]]]
  BY PopFrameKeeps, Zenon
<1>2. s \in live /\ live' = live
  BY DEF PopFrame
<1> HIDE DEF Memory
<1> QED BY <1>1, <1>2, UnbindRefines

LEMMA MakeSymbolicRefines ==
    ASSUME IInv, NEW s \in State, NEW o \in Object, NEW v \in Value,
           ExecuteMakeSymbolic(s, o, v)
    PROVE  Private!Next
<1>1. CASE Terminate(s)
  BY <1>1, TerminateRefines
<1>2. CASE ~Terminate(s)
  <2>1. /\ IInv' /\ s \in live /\ o \in Bound(s) \ Constants /\ live' = live
        /\ Memory' = [Memory EXCEPT ![s] =
                        [p \in Object |-> IF p = o THEN v ELSE Memory[s][p]]]
    BY <1>2, MakeSymbolicKeeps
  <2> DEFINE f == [p \in {o} |-> v]
  <2>2. [p \in Object |-> IF p = o THEN v ELSE Memory[s][p]]
            = [p \in Object |-> IF p \in {o} THEN f[p] ELSE Memory[s][p]]
    OBVIOUS
  <2>3. {o} \in SUBSET (Bound(s) \ Constants) /\ \A p \in {o} : f[p] \in Value
    BY <2>1
  <2>4. Memory' = Overwritten(s, {o}, f)
    BY <2>1, <2>2 DEF Overwritten
  <2> HIDE DEF Memory, f
  <2> QED BY <2>1, <2>3, <2>4, OverwriteRefines
<1> QED BY <1>1, <1>2

LEMMA StoreRefines ==
    ASSUME IInv, NEW s \in State, NEW o \in Object, NEW v \in Value, ExecuteStore(s, o, v)
    PROVE  Private!Next
<1>1. CASE Terminate(s)
  BY <1>1, TerminateRefines
<1>2. CASE ~Terminate(s)
  <2> DEFINE f == [p \in {o} |-> v]
  <2>1. /\ IInv' /\ s \in live /\ {o} \in SUBSET (Bound(s) \ Constants) /\ live' = live
        /\ Memory' = Overwritten(s, {o}, f)
    BY <1>2, StoreKeeps
  <2>2. \A p \in {o} : f[p] \in Value
    OBVIOUS
  <2> HIDE DEF f
  <2> QED BY <2>1, <2>2, OverwriteRefines
<1> QED BY <1>1, <1>2

LEMMA CallExternalRefines ==
    ASSUME IInv, NEW s \in State, NEW written \in SUBSET Object,
           NEW contents \in [written -> Value], CallExternal(s, written, contents)
    PROVE  Private!Next
<1>1. /\ IInv' /\ s \in live
      /\ \/ live' = live \ {s} /\ Memory' = [Memory EXCEPT ![s] = NoObjects]
         \/ /\ written \subseteq Bound(s) \ Constants /\ live' = live
            /\ Memory' = Overwritten(s, written, contents)
  BY CallExternalKeeps, Zenon
<1> HIDE DEF Memory
<1>2. CASE live' = live \ {s} /\ Memory' = [Memory EXCEPT ![s] = NoObjects]
  BY <1>1, <1>2, EndRefines
<1>3. CASE /\ written \subseteq Bound(s) \ Constants /\ live' = live
           /\ Memory' = Overwritten(s, written, contents)
  <2>1. \A p \in written : contents[p] \in Value
    OBVIOUS
  <2>2. written \in SUBSET (Bound(s) \ Constants)
    BY <1>3
  <2> QED BY <1>1, <1>3, <2>1, <2>2, OverwriteRefines
<1> QED BY <1>1, <1>2, <1>3

LEMMA BranchRefines ==
    ASSUME IInv, NEW s \in State, NEW t \in State, Branch(s, t)
    PROVE  Private!Next
<1>1. Memory' = [Memory EXCEPT ![t] = Memory[s]]
  BY BranchKeeps
<1>2. s \in live /\ t \in State \ live /\ live' = live \cup {t}
  BY DEF Branch
<1> HIDE DEF Memory
<1>3. Private!Branch(s, t)
  BY <1>1, <1>2 DEF Private!Branch
<1> QED BY <1>3 DEF Private!Next

LEMMA StoreOneOfManyRefines ==
    ASSUME IInv, NEW s \in State, NEW t \in State, NEW b \in State, NEW o \in Object,
           NEW v \in Value, StoreOneOfMany(s, t, b, o, v)
    PROVE  Private!Next
<1>1. /\ o \in Private!Bound(s) \ Constants
      /\ Memory' = [u \in State |->
            IF u = b THEN [p \in Object |-> IF p = o THEN v ELSE Memory[s][p]]
            ELSE IF u = t THEN Memory[s] ELSE Memory[u]]
  BY StoreOneOfManyKeeps, MemoryTyped
<1>2. s \in live /\ t \in State \ live /\ b \in {s, t} /\ live' = live \cup {t}
  BY DEF StoreOneOfMany
<1> HIDE DEF Memory
<1>3. Private!BranchAssign(s, t, b, o, v)
  BY <1>1, <1>2 DEF Private!BranchAssign
<1> QED BY <1>3 DEF Private!Next

LEMMA MergeRefines ==
    ASSUME IInv, NEW a \in State, NEW b \in State, Merge(a, b)
    PROVE  Private!Next
<1>1. /\ Private!Bound(a) = Bound(a) /\ Private!Bound(b) = Bound(b)
      /\ Private!Empty = NoObjects
  BY MemoryTyped
<1>2. Memory' = [u \in State |->
            IF u = b THEN NoObjects
            ELSE IF u = a
            THEN [o \in Object |-> IF o \in Bound(a)
                                   THEN Select(Memory[a][o], Memory[b][o]) ELSE None]
            ELSE Memory[u]]
  BY MergeKeeps
<1>3. a \in live /\ b \in live \ {a} /\ Bound(a) = Bound(b) /\ live' = live \ {b}
  BY DEF Merge
<1> HIDE DEF Memory
<1>4. Private!Merge(a, b)
  BY <1>1, <1>2, <1>3 DEF Private!Merge
<1> QED BY <1>4 DEF Private!Next

-----------------------------------------------------------------------------
LEMMA InitRefines ==
    ASSUME Init
    PROVE  Private!Init
<1>1. FirstCell \in Cell /\ FirstCell # None
  BY ConstantsAssumption DEF FirstCell
<1>2. PICK contents \in [Globals -> Value] :
        heap = [o \in Object |-> [c \in Cell |->
                    IF o \in Globals /\ c = FirstCell
                    THEN [copyOnWriteOwner |-> 1, readOnly |-> o \in Constants,
                          value |-> contents[o]]
                    ELSE None]]
  BY DEF Init
<1>3. \A o \in Globals : heap[o][FirstCell].value = contents[o]
  <2> SUFFICES ASSUME NEW o \in Globals PROVE heap[o][FirstCell].value = contents[o]
    OBVIOUS
  <2> DEFINE ro == o \in Constants
  <2>1. heap[o][FirstCell] = [copyOnWriteOwner |-> 1, readOnly |-> ro, value |-> contents[o]]
    BY <1>1, <1>2, ConstantsAssumption, Zenon
  <2> HIDE DEF ro
  <2> QED BY <2>1
<1>4. \A s \in State, o \in Object :
        objects[s][o] = IF s = First /\ o \in Globals THEN FirstCell ELSE None
  BY DEF Init
<1>5. Memory = [s \in State |-> [o \in Object |->
                    IF s = First /\ o \in Globals THEN contents[o] ELSE None]]
  <2>1. \A s \in State, o \in Object :
            (IF objects[s][o] = None THEN None ELSE heap[o][objects[s][o]].value)
                = IF s = First /\ o \in Globals THEN contents[o] ELSE None
    BY <1>1, <1>3, <1>4
  <2> QED BY <2>1 DEF Memory, Os
<1>6. live = {First}
  BY DEF Init
<1> HIDE DEF Memory
<1> QED BY <1>5, <1>6 DEF Private!Init

LEMMA StepRefines ==
    ASSUME IInv, [Next]_vars
    PROVE  [Private!Next]_(Private!vars)
<1>1. CASE \E s \in State : Terminate(s)
  BY <1>1, TerminateRefines
<1>2. CASE \E s \in State, o \in Object, v \in Value, isLocal \in BOOLEAN :
            ExecuteAlloc(s, o, v, isLocal)
  BY <1>2, AllocRefines
<1>3. CASE \E s \in State, o, n \in Object : ExecuteRealloc(s, o, n)
  BY <1>3, ReallocRefines
<1>4. CASE \E s \in State, o \in Object : ExecuteFree(s, o)
  BY <1>4, FreeRefines
<1>5. CASE \E s \in State, frame \in SUBSET Object : PopFrame(s, frame)
  BY <1>5, PopFrameRefines
<1>6. CASE \E s \in State, o \in Object, v \in Value : ExecuteMakeSymbolic(s, o, v)
  BY <1>6, MakeSymbolicRefines
<1>7. CASE \E s \in State, o \in Object, v \in Value : ExecuteStore(s, o, v)
  BY <1>7, StoreRefines
<1>8. CASE \E s \in State, written \in SUBSET Object :
            \E contents \in [written -> Value] : CallExternal(s, written, contents)
  BY <1>8, CallExternalRefines
<1>9. CASE \E s, t \in State : Branch(s, t)
  BY <1>9, BranchRefines
<1>10. CASE \E s, t, b \in State, o \in Object, v \in Value : StoreOneOfMany(s, t, b, o, v)
  BY <1>10, StoreOneOfManyRefines
<1>11. CASE \E a, b \in State : Merge(a, b)
  BY <1>11, MergeRefines
<1>12. CASE UNCHANGED vars
  BY <1>12 DEF vars, Private!vars, Memory, Os
<1> QED
  BY <1>1, <1>2, <1>3, <1>4, <1>5, <1>6, <1>7, <1>8, <1>9, <1>10, <1>11, <1>12 DEF Next, Done

\* Copy-on-write is not seen, for any number of states, objects, cells and values:
\* whatever getWriteable shares or copies, a state reads what it would read from a
\* memory of its own (AddressSpace.cpp, with every operation of Executor and
\* ExecutionState that binds, unbinds, writes, copies or merges).
THEOREM SharingIsNotSeen == Spec => PrivateMemories
<1>1. Init => Private!Init /\ IInv
  BY InitRefines, InitHolds
<1>2. IInv /\ [Next]_vars => IInv'
  BY StepKeeps
<1>3. IInv /\ [Next]_vars => [Private!Next]_(Private!vars)
  BY StepRefines
<1> QED BY <1>1, <1>2, <1>3, PTL DEF Spec, PrivateMemories, Private!Spec
=============================================================================
