-------------------------- MODULE AddressSpaceSteps --------------------------
(***************************************************************************)
(* The operations of AddressSpace that bind new objects, write to objects  *)
(* and copy an address space: each keeps the invariant IInv, and what it   *)
(* changes in the memory that states read is stated with it.               *)
(***************************************************************************)
EXTENDS AddressSpaceLemmas

\* A new object in s, with the allocas of s it leaves and the ones it adds.
LEMMA AllocKeeps ==
    ASSUME IInv, NEW s \in State, NEW o \in Object, NEW v \in Value, NEW isLocal \in BOOLEAN,
           ExecuteAlloc(s, o, v, isLocal)
    PROVE  /\ IInv' /\ \A u \in State : objects[u][o] = None
           /\ Memory' = [Memory EXCEPT ![s] =
                            [p \in Object |-> IF p = o THEN v ELSE Memory[s][p]]]
<1> DEFINE h == Put(heap, o, Fresh(o), NewCell(cowKey[s], v))
<1>1. /\ \A u \in State : objects[u][o] = None
      /\ s \in live /\ HasRoom(o) /\ cowKey[s] \in Nat
  BY Facts, Unreferenced DEF ExecuteAlloc, FreeAddress
<1>2. o \notin Constants
  BY ConstantsAssumption DEF ExecuteAlloc, FreeAddress
<1>3. Fresh(o) \in Cell /\ heap[o][Fresh(o)] = None
  BY <1>1, FreshCell
<1>4. /\ objects' \in Maps /\ allocas' \in [State -> SUBSET Object]
      /\ symbolics' = symbolics /\ live' = live /\ cowKey' = cowKey /\ Release(h)
  BY <1>3, Facts DEF ExecuteAlloc, Bind, Maps
<1>5. /\ objects'[s][o] = Fresh(o)
      /\ \A p \in Object \ {o} : objects'[s][p] = objects[s][p]
      /\ \A u \in State \ {s} : objects'[u] = objects[u]
  BY <1>3, Facts DEF ExecuteAlloc, Bind, Maps
<1> HIDE DEF h
<1>6. /\ h \in Heaps /\ ReadOnlyAsAdded(h) /\ Local(s, cowKey[s], objects, objects', h)
      /\ h[o][Fresh(o)].value = v /\ \A p \in Object \ {o} : h[p] = heap[p]
  <2>1. Binds(s, cowKey[s], objects', o, v, h)
    BY <1>1, <1>2, <1>4, <1>5 DEF Binds, h
  <2>2. heap \in Heaps /\ ReadOnlyAsAdded(heap)
    BY Facts
  <2> QED BY <2>1, <2>2, BindIsLocal
<1>7. objects'[s][o] # None
  BY <1>3, <1>5, ConstantsAssumption
<1>8. Placed'
  <2>1. /\ live' \subseteq live /\ \A u \in State \ live : objects'[u] = objects[u]
        /\ \A u \in live \ live' : objects'[u] = NoObjects
        /\ \A u \in live', p \in Constants : objects'[u][p] \in {None, objects[u][p]}
    BY <1>1, <1>2, <1>4, <1>5, Facts, ConstantsAssumption
  <2> QED BY ONLY IInv, <2>1, PlacedKept, Zenon
<1>9. /\ IInv' /\ Memory'[s] = Contents(objects'[s], h)
      /\ \A u \in State \ {s} : Memory'[u] = Contents(objects'[u], heap)
  BY <1>4, <1>6, <1>8, Facts, LocalStep
<1>10. Contents(objects'[s], h) = [p \in Object |-> IF p = o THEN v ELSE Memory[s][p]]
  BY <1>5, <1>6, <1>7, MemoryFacts DEF Contents
<1> QED BY <1>1, <1>5, <1>9, <1>10, MemoryOf

LEMMA ReallocKeeps ==
    ASSUME IInv, NEW s \in State, NEW o \in Object, NEW n \in Object,
           ExecuteRealloc(s, o, n)
    PROVE  /\ IInv' /\ \A u \in State : objects[u][n] = None
           /\ Memory' = [Memory EXCEPT ![s] = [p \in Object |->
                CASE p = o -> None [] p = n -> Memory[s][o] [] OTHER -> Memory[s][p]]]
<1> DEFINE v == Os(s, o).value
           h == Put(heap, n, Fresh(n), NewCell(cowKey[s], v))
<1>1. /\ \A u \in State : objects[u][n] = None
      /\ s \in live /\ HasRoom(n) /\ cowKey[s] \in Nat
      /\ objects[s][o] # None
  BY Facts, Unreferenced DEF ExecuteRealloc, FreeAddress, Bound
<1>2. n \notin Constants
  BY ConstantsAssumption DEF ExecuteRealloc, FreeAddress
<1>3. v \in Value
  BY <1>1, Facts DEF KeyInv, ObjectState, Os
<1>4. Fresh(n) \in Cell /\ heap[n][Fresh(n)] = None
  BY <1>1, FreshCell
<1>5. /\ objects' \in Maps /\ allocas' = allocas
      /\ symbolics' = symbolics /\ live' = live /\ cowKey' = cowKey /\ Release(h)
  BY <1>4, Facts DEF ExecuteRealloc, Bind, UnbindAll, Maps
<1>6. /\ objects'[s][n] = Fresh(n) /\ objects'[s][o] = None
      /\ \A p \in Object \ {n, o} : objects'[s][p] = objects[s][p]
      /\ \A u \in State \ {s} : objects'[u] = objects[u]
  BY <1>1, <1>4, Facts DEF ExecuteRealloc, Bind, UnbindAll, Maps
<1> HIDE DEF h, v
<1>7. /\ h \in Heaps /\ ReadOnlyAsAdded(h) /\ Local(s, cowKey[s], objects, objects', h)
      /\ h[n][Fresh(n)].value = v /\ \A p \in Object \ {n} : h[p] = heap[p]
  <2>1. Binds(s, cowKey[s], objects', n, v, h)
    BY <1>1, <1>2, <1>3, <1>5, <1>6 DEF Binds, h
  <2>2. heap \in Heaps /\ ReadOnlyAsAdded(heap)
    BY Facts
  <2> QED BY <2>1, <2>2, BindIsLocal
<1>8. Placed'
  <2>1. /\ live' \subseteq live /\ \A u \in State \ live : objects'[u] = objects[u]
        /\ \A u \in live \ live' : objects'[u] = NoObjects
        /\ \A u \in live', p \in Constants : objects'[u][p] \in {None, objects[u][p]}
    BY <1>1, <1>2, <1>5, <1>6, Facts, ConstantsAssumption
  <2> QED BY ONLY IInv, <2>1, PlacedKept, Zenon
<1>9. /\ IInv' /\ Memory'[s] = Contents(objects'[s], h)
      /\ \A u \in State \ {s} : Memory'[u] = Contents(objects'[u], heap)
  BY <1>5, <1>7, <1>8, Facts, LocalStep
<1>10. Contents(objects'[s], h) = [p \in Object |->
            CASE p = o -> None [] p = n -> Memory[s][o] [] OTHER -> Memory[s][p]]
  <2>1. v = Memory[s][o] /\ objects'[s][n] # None /\ n # o
    BY <1>1, <1>4, <1>6, ConstantsAssumption DEF v, Memory
  <2>2. \A p \in Object \ {n, o} : Memory[s][p] = Contents(objects'[s], h)[p]
    BY <1>6, <1>7, MemoryFacts DEF Contents
  <2>3. Contents(objects'[s], h)[n] = v /\ Contents(objects'[s], h)[o] = None
    BY <1>6, <1>7, <2>1 DEF Contents
  <2>4. Contents(objects'[s], h) = [p \in Object |-> Contents(objects'[s], h)[p]]
    BY DEF Contents
  <2> HIDE DEF Memory
  <2> QED BY <2>1, <2>2, <2>3, <2>4
<1> QED BY <1>1, <1>6, <1>9, <1>10, MemoryOf

LEMMA MakeSymbolicKeeps ==
    ASSUME IInv, NEW s \in State, NEW o \in Object, NEW v \in Value,
           ExecuteMakeSymbolic(s, o, v)
    PROVE  /\ IInv'
           /\ \/ Terminate(s)
              \/ /\ s \in live /\ o \in Bound(s) \ Constants /\ live' = live
                 /\ Memory' = [Memory EXCEPT ![s] =
                        [p \in Object |-> IF p = o THEN v ELSE Memory[s][p]]]
<1> DEFINE h == Put(heap, o, Fresh(o), NewCell(cowKey[s], v))
<1>1. CASE Os(s, o).readOnly
  BY <1>1, TerminateKeeps DEF ExecuteMakeSymbolic
<1>2. CASE ~Os(s, o).readOnly
  <2>1. s \in live /\ o \in Bound(s) /\ HasRoom(o) /\ cowKey[s] \in Nat
    BY Facts DEF ExecuteMakeSymbolic
  <2>2. o \notin Constants
    BY <1>2, <2>1, ReadOnlyObjects
  <2>3. Fresh(o) \in Cell /\ Fresh(o) # None
    BY <2>1, FreshCell, ConstantsAssumption
  <2>4. /\ objects' \in Maps /\ symbolics' \in Symbolics
        /\ allocas' = allocas /\ live' = live /\ cowKey' = cowKey /\ Release(h)
    <3>1. /\ objects' = [objects EXCEPT ![s] = Bind(@, o)]
          /\ symbolics' = [symbolics EXCEPT ![s][o] = @ + 1]
          /\ symbolics[s][o] < MaxSymbolics
          /\ allocas' = allocas /\ live' = live /\ cowKey' = cowKey /\ Release(h)
      BY <1>2 DEF ExecuteMakeSymbolic
    <3>2. symbolics \in Symbolics
      BY Facts
    <3>3. symbolics[s][o] + 1 \in 0..MaxSymbolics
      BY ONLY <3>1, <3>2, ConstantsAssumption, s \in State, o \in Object DEF Symbolics
    <3>6. symbolics' \in Symbolics
      BY ONLY <3>1, <3>2, <3>3, s \in State, o \in Object DEF Symbolics
    <3> QED BY <2>3, <3>1, <3>6, Facts DEF Bind, Maps
  <2>5. /\ objects'[s][o] = Fresh(o)
        /\ \A p \in Object \ {o} : objects'[s][p] = objects[s][p]
        /\ \A u \in State \ {s} : objects'[u] = objects[u]
    BY <1>2, <2>3, Facts DEF ExecuteMakeSymbolic, Bind, Maps
  <2> HIDE DEF h
  <2>6. /\ h \in Heaps /\ ReadOnlyAsAdded(h) /\ Local(s, cowKey[s], objects, objects', h)
        /\ h[o][Fresh(o)].value = v /\ \A p \in Object \ {o} : h[p] = heap[p]
    <3>1. Binds(s, cowKey[s], objects', o, v, h)
      BY <2>1, <2>2, <2>4, <2>5 DEF Binds, h
    <3>2. heap \in Heaps /\ ReadOnlyAsAdded(heap)
      BY Facts
    <3> QED BY <3>1, <3>2, BindIsLocal
  <2>7. Placed'
    <3>1. /\ live' \subseteq live /\ \A u \in State \ live : objects'[u] = objects[u]
          /\ \A u \in live \ live' : objects'[u] = NoObjects
          /\ \A u \in live', p \in Constants : objects'[u][p] \in {None, objects[u][p]}
      BY <2>1, <2>2, <2>4, <2>5, Facts, ConstantsAssumption
    <3> QED BY ONLY IInv, <3>1, PlacedKept, Zenon
  <2>8. /\ IInv' /\ Memory'[s] = Contents(objects'[s], h)
        /\ \A u \in State \ {s} : Memory'[u] = Contents(objects'[u], heap)
    BY <2>4, <2>6, <2>7, Facts, LocalStep
  <2>9. Contents(objects'[s], h) = [p \in Object |-> IF p = o THEN v ELSE Memory[s][p]]
    BY <2>3, <2>5, <2>6, MemoryFacts DEF Contents
  <2>10. Memory' = [Memory EXCEPT ![s] = [p \in Object |-> IF p = o THEN v ELSE Memory[s][p]]]
    BY <2>5, <2>8, <2>9, MemoryOf
  <2> QED BY <2>1, <2>2, <2>4, <2>8, <2>10
<1> QED BY <1>1, <1>2

\* s alone sees new contents of the objects in written.
Overwritten(s, written, contents) ==
    [Memory EXCEPT ![s] = [o \in Object |->
        IF o \in written THEN contents[o] ELSE Memory[s][o]]]

\* maps and h are the maps and cells after s has written to objects it has.
AfterWrites(s, written, contents, maps, h) ==
    /\ maps \in Maps /\ \A u \in State \ {s} : maps[u] = objects[u]
    /\ written \subseteq Object \ Constants
    /\ Writes(s, cowKey[s], objects, maps, written, contents, h)

\* getWriteable of each object, and the write.
LEMMA WrittenFacts ==
    ASSUME IInv, NEW s \in live, NEW written \in SUBSET Bound(s), NEW contents,
           \A o \in written : /\ contents[o] \in Value /\ ~Os(s, o).readOnly
                              /\ CanWrite(cowKey[s], o, objects[s][o]),
           NEW maps, maps = [objects EXCEPT ![s] = WriteMap(cowKey[s], @, written)],
           NEW h, h = WriteHeap(cowKey[s], objects[s], written, contents)
    PROVE  AfterWrites(s, written, contents, maps, h)
<1>1. s \in State /\ cowKey[s] \in Nat /\ written \in SUBSET Object
  BY Facts DEF Bound
<1>2. \A o \in written : /\ contents[o] \in Value /\ objects[s][o] # None
                         /\ objects[s][o] \in Cell
                         /\ CanWrite(cowKey[s], o, objects[s][o]) /\ o \notin Constants
  BY <1>1, ReadOnlyObjects, Facts DEF Bound, Maps
<1>3. \A o \in written : Writeable(cowKey[s], o, objects[s][o]) \in Cell
  <2> SUFFICES ASSUME NEW o \in written
               PROVE  Writeable(cowKey[s], o, objects[s][o]) \in Cell
    OBVIOUS
  <2> QED BY <1>2, FreshCell, Zenon DEF Writeable, CanWrite
<1>4. WriteMap(cowKey[s], objects[s], written) \in [Object -> Cell \cup {None}]
  BY <1>1, <1>3, Facts DEF WriteMap, Maps
<1>5. /\ maps \in Maps /\ maps[s] = WriteMap(cowKey[s], objects[s], written)
      /\ \A u \in State \ {s} : maps[u] = objects[u]
  BY <1>1, <1>4, Facts DEF Maps
<1>6. Writes(s, cowKey[s], objects, maps, written, contents, h)
  BY <1>1, <1>2, <1>5, Facts, ZenonT(40) DEF Writes
<1>7. written \subseteq Object \ Constants
  BY <1>1, <1>2
<1> QED BY <1>5, <1>6, <1>7, Zenon DEF AfterWrites

LEMMA WriteKeeps ==
    ASSUME IInv, NEW s \in live, NEW written \in SUBSET Bound(s), NEW contents,
           \A o \in written : contents[o] \in Value /\ ~Os(s, o).readOnly,
           WriteObjects(s, written, contents)
    PROVE  /\ IInv' /\ written \subseteq Bound(s) \ Constants /\ live' = live
           /\ Memory' = Overwritten(s, written, contents)
<1> DEFINE h == WriteHeap(cowKey[s], objects[s], written, contents)
<1>1. s \in State /\ cowKey[s] \in Nat /\ written \in SUBSET Object
  BY Facts DEF Bound
<1>5. /\ symbolics' = symbolics
      /\ allocas' = allocas /\ live' = live /\ cowKey' = cowKey /\ Release(h)
      /\ objects' = [objects EXCEPT ![s] = WriteMap(cowKey[s], @, written)]
      /\ \A o \in written : CanWrite(cowKey[s], o, objects[s][o])
  BY DEF WriteObjects
<1> HIDE DEF h
<1>6. /\ objects' \in Maps /\ \A u \in State \ {s} : objects'[u] = objects[u]
      /\ written \subseteq Object \ Constants
      /\ Writes(s, cowKey[s], objects, objects', written, contents, h)
  <2>1. \A o \in written : /\ contents[o] \in Value /\ ~Os(s, o).readOnly
                           /\ CanWrite(cowKey[s], o, objects[s][o])
    BY <1>5, Zenon
  <2>2. h = WriteHeap(cowKey[s], objects[s], written, contents)
    BY DEF h
  <2>3. AfterWrites(s, written, contents, objects', h)
    BY ONLY IInv, <1>5, <2>1, <2>2, WrittenFacts, Zenon
  <2> QED BY ONLY <2>3, Zenon DEF AfterWrites
<1>7. /\ h \in Heaps /\ ReadOnlyAsAdded(h) /\ Local(s, cowKey[s], objects, objects', h)
      /\ \A o \in written : objects'[s][o] # None /\ h[o][objects'[s][o]].value = contents[o]
      /\ \A o \in Object \ written : objects'[s][o] = objects[s][o]
      /\ \A o \in Object \ written, c \in Cell : h[o][c] = heap[o][c]
  <2>1. heap \in Heaps /\ ReadOnlyAsAdded(heap)
    BY Facts
  <2>2. Wrote(s, cowKey[s], objects, objects', written, contents, h)
    BY ONLY <1>6, <2>1, WriteIsLocal, Zenon
  <2> QED BY ONLY <2>2, Zenon DEF Wrote
<1>8. Placed'
  <2>1. \A u \in State, o \in Constants : objects'[u][o] = objects[u][o]
    BY <1>6, <1>7, ConstantsAssumption
  <2>2. /\ live' \subseteq live /\ \A u \in State \ live : objects'[u] = objects[u]
        /\ \A u \in live \ live' : objects'[u] = NoObjects
        /\ \A u \in live', o \in Constants : objects'[u][o] \in {None, objects[u][o]}
    BY <1>5, <1>6, <2>1, Facts
  <2> QED BY ONLY IInv, <2>2, PlacedKept, Zenon
<1>9. /\ IInv' /\ Memory'[s] = Contents(objects'[s], h)
      /\ \A u \in State \ {s} : Memory'[u] = Contents(objects'[u], heap)
  <2>1. /\ objects \in Maps /\ cowKey' \in [State -> 1..MaxKey]
        /\ KeyInv(cowKey', objects, heap) /\ live' \subseteq State
        /\ allocas' \in [State -> SUBSET Object] /\ symbolics' \in Symbolics
    BY <1>5, Facts
  <2>2. Local(s, cowKey'[s], objects, objects', h)
    BY <1>5, <1>7
  <2> QED BY ONLY IInv, <1>1, <1>5, <1>6, <1>7, <1>8, <2>1, <2>2, LocalStep, ZenonT(60)
<1>10. Contents(objects'[s], h) =
            [o \in Object |-> IF o \in written THEN contents[o] ELSE Memory[s][o]]
  <2>1. \A o \in written : Contents(objects'[s], h)[o] = contents[o]
    BY <1>1, <1>7 DEF Contents
  <2>2. \A o \in Object \ written : Contents(objects'[s], h)[o] = Memory[s][o]
    <3> SUFFICES ASSUME NEW o \in Object \ written
                 PROVE  Contents(objects'[s], h)[o] = Contents(objects[s], heap)[o]
      BY <1>1, MemoryFacts
    <3>1. objects'[s][o] = objects[s][o] /\ objects[s][o] \in Cell \cup {None}
      BY <1>1, <1>7, Facts DEF Maps
    <3>2. \A c \in Cell : h[o][c] = heap[o][c]
      BY <1>7
    <3> QED BY ONLY <3>1, <3>2, o \in Object, SameContents, SMTT(60)
  <2>3. Contents(objects'[s], h) = [o \in Object |-> Contents(objects'[s], h)[o]]
    BY DEF Contents
  <2> HIDE DEF Memory
  <2> QED BY <2>1, <2>2, <2>3
<1>11. Memory' = Overwritten(s, written, contents)
  BY <1>1, <1>6, <1>9, <1>10, MemoryOf DEF Overwritten
<1> QED BY <1>5, <1>6, <1>9, <1>11

LEMMA StoreKeeps ==
    ASSUME IInv, NEW s \in State, NEW o \in Object, NEW v \in Value, ExecuteStore(s, o, v)
    PROVE  /\ IInv'
           /\ \/ Terminate(s)
              \/ /\ s \in live /\ {o} \subseteq Bound(s) \ Constants /\ live' = live
                 /\ Memory' = Overwritten(s, {o}, [p \in {o} |-> v])
<1> DEFINE contents == [p \in {o} |-> v]
<1>1. CASE Os(s, o).readOnly
  BY <1>1, TerminateKeeps DEF ExecuteStore
<1>2. CASE ~Os(s, o).readOnly
  <2>1. s \in live /\ {o} \in SUBSET Bound(s) /\ WriteObjects(s, {o}, contents)
    BY <1>2 DEF ExecuteStore
  <2>2. \A p \in {o} : contents[p] \in Value /\ ~Os(s, p).readOnly
    BY <1>2
  <2> HIDE DEF contents
  <2>3. /\ IInv' /\ {o} \subseteq Bound(s) \ Constants /\ live' = live
        /\ Memory' = Overwritten(s, {o}, contents)
    BY <2>1, <2>2, WriteKeeps
  <2> QED BY <2>1, <2>3 DEF contents
<1> QED BY <1>1, <1>2

\* An external call that wrote to a read-only object ends the state, and nobody
\* sees what was copied in before.
LEMMA CallExternalKeeps ==
    ASSUME IInv, NEW s \in State, NEW written \in SUBSET Object,
           NEW contents \in [written -> Value], CallExternal(s, written, contents)
    PROVE  /\ IInv' /\ s \in live
           /\ \/ live' = live \ {s} /\ Memory' = [Memory EXCEPT ![s] = NoObjects]
              \/ /\ written \subseteq Bound(s) \ Constants /\ live' = live
                 /\ Memory' = Overwritten(s, written, contents)
<1>0. s \in live /\ written \in SUBSET Bound(s)
  BY DEF CallExternal
<1>1. CASE \E o \in written : Os(s, o).readOnly
  <2>1. PICK copied \in SUBSET {o \in written : ~Os(s, o).readOnly} :
            /\ \A o \in copied : CanWrite(cowKey[s], o, objects[s][o])
            /\ EndWith(s, WriteHeap(cowKey[s], objects[s], copied, contents))
    BY <1>1 DEF CallExternal
  <2> DEFINE h == WriteHeap(cowKey[s], objects[s], copied, contents)
             maps == [objects EXCEPT ![s] = WriteMap(cowKey[s], @, copied)]
  <2>2. /\ copied \in SUBSET Bound(s)
        /\ \A o \in copied : /\ contents[o] \in Value /\ ~Os(s, o).readOnly
                              /\ CanWrite(cowKey[s], o, objects[s][o])
    BY <1>0, <2>1
  <2>3. EndWith(s, h) /\ live' = live \ {s}
    BY <2>1 DEF EndWith
  <2>4. Writes(s, cowKey[s], objects, maps, copied, contents, h)
    <3>1. maps = [objects EXCEPT ![s] = WriteMap(cowKey[s], @, copied)]
      OBVIOUS
    <3>2. h = WriteHeap(cowKey[s], objects[s], copied, contents)
      OBVIOUS
    <3> HIDE DEF h, maps
    <3>3. AfterWrites(s, copied, contents, maps, h)
      BY ONLY IInv, <1>0, <2>2, <3>1, <3>2, WrittenFacts, Zenon
    <3> QED BY ONLY <3>3, Zenon DEF AfterWrites
  <2> HIDE DEF h, maps
  <2>5. h \in Heaps /\ ReadOnlyAsAdded(h) /\ Local(s, cowKey[s], objects, maps, h)
    <3>1. heap \in Heaps /\ ReadOnlyAsAdded(heap)
      BY Facts
    <3>2. Wrote(s, cowKey[s], objects, maps, copied, contents, h)
      BY ONLY <2>4, <3>1, WriteIsLocal, Zenon
    <3> QED BY ONLY <3>2, Zenon DEF Wrote
  <2>6. IInv' /\ Memory' = [Memory EXCEPT ![s] = NoObjects]
    BY <2>3, <2>5, EndKeeps, Zenon
  <2> QED BY <1>0, <2>3, <2>6
<1>2. CASE ~\E o \in written : Os(s, o).readOnly
  <2>1. WriteObjects(s, written, contents)
    BY <1>2 DEF CallExternal
  <2>2. \A p \in written : contents[p] \in Value /\ ~Os(s, p).readOnly
    BY <1>2
  <2> QED BY <1>0, <2>1, <2>2, WriteKeeps
<1> QED BY <1>1, <1>2

CopiedKeys(s, t) == [cowKey EXCEPT ![s] = cowKey[s] + 1, ![t] = cowKey[s] + 1]

CopiedMaps(s, t) == [objects EXCEPT ![t] = objects[s]]

\* The address spaces after the copy constructor, before anything is written.
LEMMA CopiedFacts ==
    ASSUME IInv, NEW s \in live, NEW t \in State \ live, cowKey[s] < MaxKey
    PROVE  /\ CopiedMaps(s, t) \in Maps /\ CopiedKeys(s, t) \in [State -> 1..MaxKey]
           /\ KeyInv(CopiedKeys(s, t), CopiedMaps(s, t), heap)
           /\ CopiedMaps(s, t)[t] = objects[s]
           /\ \A u \in State \ {t} : CopiedMaps(s, t)[u] = objects[u]
           /\ CopiedKeys(s, t)[s] = cowKey[s] + 1 /\ CopiedKeys(s, t)[t] = cowKey[s] + 1
<1>1. /\ s \in State /\ s # t /\ objects[t] = NoObjects
      /\ cowKey[s] + 1 \in 1..MaxKey
  BY Facts, ConstantsAssumption DEF Placed
<1>2. KeyInv(CopiedKeys(s, t), CopiedMaps(s, t), heap)
  BY <1>1, Facts, CopyKeeps, Zenon DEF CopiedKeys, CopiedMaps
<1> QED BY <1>1, <1>2, Facts DEF Maps, CopiedKeys, CopiedMaps

\* The child takes over what its parent has.
LEMMA CopyPlaced ==
    ASSUME IInv, NEW s \in live, NEW t \in State \ live,
           objects' \in Maps, live' = live \cup {t},
           allocas' = [allocas EXCEPT ![t] = allocas[s]],
           symbolics' = [symbolics EXCEPT ![t] = symbolics[s]],
           \A u \in State \ {t}, o \in Constants : objects'[u][o] = objects[u][o],
           \A u \in State \ live' : objects'[u] = objects[u],
           \A o \in Constants : objects'[t][o] = objects[s][o]
    PROVE  /\ Placed' /\ live' \subseteq State
           /\ allocas' \in [State -> SUBSET Object] /\ symbolics' \in Symbolics
<1>1. /\ allocas' \in [State -> SUBSET Object] /\ symbolics' \in Symbolics
      /\ live' \subseteq State
  BY Facts DEF Symbolics
<1>2. Placed'
  <2>1. \A u \in State \ live' : objects'[u] = NoObjects
    BY Facts DEF Placed
  <2>2. ASSUME NEW u \in live', NEW w \in live', NEW o \in Constants,
               objects'[u][o] # None, objects'[w][o] # None
        PROVE  objects'[u][o] = objects'[w][o]
    <3> DEFINE source(x) == IF x = t THEN s ELSE x
    <3>1. /\ source(u) \in live /\ objects'[u][o] = objects[source(u)][o]
          /\ source(w) \in live /\ objects'[w][o] = objects[source(w)][o]
      BY Facts
    <3> QED BY <2>2, <3>1, Facts DEF Placed
  <2> QED BY <2>1, <2>2 DEF Placed
<1> QED BY <1>1, <1>2

LEMMA BranchKeeps ==
    ASSUME IInv, NEW s \in State, NEW t \in State, Branch(s, t)
    PROVE  IInv' /\ Memory' = [Memory EXCEPT ![t] = Memory[s]]
<1>1. /\ s \in live /\ t \in State \ live /\ s # t /\ cowKey[s] < MaxKey
      /\ cowKey' = CopiedKeys(s, t) /\ objects' = CopiedMaps(s, t)
      /\ live' = live \cup {t} /\ Release(heap)
      /\ allocas' = [allocas EXCEPT ![t] = allocas[s]]
      /\ symbolics' = [symbolics EXCEPT ![t] = symbolics[s]]
  BY DEF Branch, CopyKey, CopiedKeys, CopiedMaps
<1>2. /\ objects' \in Maps /\ cowKey' \in [State -> 1..MaxKey]
      /\ KeyInv(cowKey', objects', heap)
      /\ objects'[t] = objects[s] /\ \A u \in State \ {t} : objects'[u] = objects[u]
  BY <1>1, CopiedFacts
<1>3. Local(s, cowKey'[s], objects', objects', heap)
  BY DEF Local
<1>4. /\ Placed' /\ live' \subseteq State
      /\ allocas' \in [State -> SUBSET Object] /\ symbolics' \in Symbolics
  BY <1>1, <1>2, Facts, ConstantsAssumption, CopyPlaced, ZenonT(40)
<1>5. /\ IInv' /\ Memory'[s] = Contents(objects'[s], heap)
      /\ \A u \in State \ {s} : Memory'[u] = Contents(objects'[u], heap)
  BY <1>1, <1>2, <1>3, <1>4, Facts, LocalStep
<1>6. Memory'[t] = Memory[s] /\ \A u \in State \ {t} : Memory'[u] = Memory[u]
  BY <1>1, <1>2, <1>5, MemoryFacts
<1> HIDE DEF Memory
<1> QED BY <1>5, <1>6, MemoryFacts

\* The side of the fork that writes has a new key, so it writes to a copy.
LEMMA StoreOneOfManyKeeps ==
    ASSUME IInv, NEW s \in State, NEW t \in State, NEW b \in State, NEW o \in Object,
           NEW v \in Value, StoreOneOfMany(s, t, b, o, v)
    PROVE  /\ IInv' /\ o \in Bound(s) \ Constants
           /\ Memory' = [u \in State |->
                IF u = b THEN [p \in Object |-> IF p = o THEN v ELSE Memory[s][p]]
                ELSE IF u = t THEN Memory[s] ELSE Memory[u]]
<1> DEFINE maps == CopiedMaps(s, t)
           k == cowKey[s] + 1
           contents == [p \in {o} |-> v]
           h == WriteHeap(k, objects[s], {o}, contents)
<1>1. /\ s \in live /\ t \in State \ live /\ s # t /\ b \in {s, t} /\ cowKey[s] < MaxKey
      /\ cowKey' = CopiedKeys(s, t)
      /\ live' = live \cup {t} /\ Release(h)
      /\ allocas' = [allocas EXCEPT ![t] = allocas[s]]
      /\ symbolics' = [symbolics EXCEPT ![t] = symbolics[s]]
      /\ o \in Bound(s) /\ ~Os(s, o).readOnly /\ HasRoom(o)
  BY DEF StoreOneOfMany, CopyKey, CopiedKeys
<1>2. /\ maps \in Maps /\ cowKey' \in [State -> 1..MaxKey] /\ KeyInv(cowKey', maps, heap)
      /\ maps[t] = objects[s] /\ \A u \in State \ {t} : maps[u] = objects[u]
      /\ cowKey'[s] = k /\ cowKey'[t] = k
  BY <1>1, CopiedFacts
<1>3. /\ o \notin Constants /\ objects[s][o] \in Cell /\ objects[s][o] # None
      /\ k \in Nat /\ Fresh(o) \in Cell
  BY <1>1, ReadOnlyObjects, FreshCell, Facts DEF Bound, Maps
<1>4. WriteMap(k, objects[s], {o}) \in [Object -> Cell \cup {None}]
  BY <1>3, Facts DEF WriteMap, Writeable, Maps
<1>5. /\ objects' \in Maps
      /\ objects'[b] = WriteMap(k, maps[b], {o})
      /\ \A u \in State \ {b} : objects'[u] = maps[u]
  <2>1. CASE b = s
    <3>1. objects' = [objects EXCEPT ![s] = WriteMap(k, objects[s], {o}), ![t] = objects[s]]
      BY <2>1 DEF StoreOneOfMany, CopyKey
    <3> QED BY <2>1, <3>1, <1>1, <1>2, <1>4, Facts, Zenon DEF Maps
  <2>2. CASE b = t
    <3>1. objects' = [objects EXCEPT ![t] = WriteMap(k, objects[s], {o}), ![s] = objects[s]]
      BY <1>1, <2>2, Zenon DEF StoreOneOfMany, CopyKey
    <3> QED BY <2>2, <3>1, <1>1, <1>2, <1>4, Facts, Zenon DEF Maps
  <2> QED BY <1>1, <2>1, <2>2
<1>6. maps[b] = objects[s] /\ cowKey'[b] = k
  BY <1>1, <1>2
<1>7. Writes(b, k, maps, objects', {o}, contents, h)
  BY <1>1, <1>2, <1>3, <1>5, <1>6 DEF Writes, CanWrite
<1>a. contents[o] = v
  BY Zenon
<1> HIDE DEF maps, k, contents, h
<1>8. /\ h \in Heaps /\ ReadOnlyAsAdded(h) /\ Local(b, k, maps, objects', h)
      /\ objects'[b][o] # None /\ h[o][objects'[b][o]].value = contents[o]
      /\ \A p \in Object \ {o} : objects'[b][p] = maps[b][p]
      /\ \A p \in Object \ {o}, c \in Cell : h[p][c] = heap[p][c]
  <2>1. heap \in Heaps /\ ReadOnlyAsAdded(heap)
    BY Facts
  <2>2. Wrote(b, k, maps, objects', {o}, contents, h)
    BY ONLY <1>7, <2>1, WriteIsLocal, Zenon
  <2> QED BY ONLY <2>2, Zenon DEF Wrote
<1>9. /\ Placed' /\ live' \subseteq State
      /\ allocas' \in [State -> SUBSET Object] /\ symbolics' \in Symbolics
  <2>2. \A p \in Constants : objects'[b][p] = maps[b][p]
    BY <1>3, <1>8, ConstantsAssumption
  <2>3. \A u \in State, p \in Constants : objects'[u][p] = maps[u][p]
    BY <1>5, <2>2
  <2>4. \A u \in State \ live' : objects'[u] = objects[u]
    BY <1>1, <1>2, <1>5, SMTT(20)
  <2>5. \A u \in State \ {t}, p \in Constants : objects'[u][p] = objects[u][p]
    BY <1>2, <2>3, SMTT(20)
  <2>6. \A p \in Constants : objects'[t][p] = objects[s][p]
    BY <1>2, <2>3, Zenon
  <2> QED BY ONLY IInv, <1>1, <1>5, <2>4, <2>5, <2>6, CopyPlaced, ZenonT(60)
<1>10. /\ IInv' /\ Memory'[b] = Contents(objects'[b], h)
       /\ \A u \in State \ {b} : Memory'[u] = Contents(objects'[u], heap)
  <2>1. Local(b, cowKey'[b], maps, objects', h)
    BY <1>6, <1>8
  <2> QED BY ONLY IInv, <1>1, <1>2, <1>5, <1>8, <1>9, <2>1, LocalStep, ZenonT(60)
<1>11. Contents(objects'[b], h) = [p \in Object |-> IF p = o THEN v ELSE Memory[s][p]]
  <2>1. Contents(objects'[b], h)[o] = v
    BY <1>8, <1>a DEF Contents
  <2>2. \A p \in Object \ {o} : Contents(objects'[b], h)[p] = Memory[s][p]
    <3> SUFFICES ASSUME NEW p \in Object \ {o}
                 PROVE  Contents(objects'[b], h)[p] = Contents(objects[s], heap)[p]
      BY MemoryFacts
    <3>1. objects'[b][p] = objects[s][p] /\ objects[s][p] \in Cell \cup {None}
      BY <1>6, <1>8, Facts DEF Maps
    <3>2. \A c \in Cell : h[p][c] = heap[p][c]
      BY <1>8
    <3> QED BY ONLY <3>1, <3>2, p \in Object, SameContents, SMTT(60)
  <2>3. Contents(objects'[b], h) = [p \in Object |-> Contents(objects'[b], h)[p]]
    BY DEF Contents
  <2> HIDE DEF Memory
  <2> QED BY <2>1, <2>2, <2>3
<1>12. /\ t # b => Memory'[t] = Memory[s]
       /\ \A u \in State \ {b, t} : Memory'[u] = Memory[u]
  BY <1>1, <1>2, <1>5, <1>10, MemoryFacts
<1> HIDE DEF Memory
<1> QED BY <1>1, <1>3, <1>10, <1>11, <1>12, MemoryFacts
=============================================================================
