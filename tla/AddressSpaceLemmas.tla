------------------------- MODULE AddressSpaceLemmas -------------------------
(***************************************************************************)
(* Copy-on-write is not seen: AddressSpace implements PrivateMemory, for   *)
(* any numbers of states, objects and values.                              *)
(*                                                                         *)
(* The keys are the heart of the invariant: an ObjectState in two maps has *)
(* an owner below the keys of both (KeyInv).  A step either copies a map   *)
(* and raises both keys (CopyKeeps), or changes the map of one state and   *)
(* writes to new cells or to cells with its key (LocalKeeps); a store      *)
(* after a fork does the one and then the other.                           *)
(***************************************************************************)
EXTENDS AddressSpace, FiniteSetTheorems, TLAPS

Maps == [State -> [Object -> Cell \cup {None}]]

Heaps == [Object -> [Cell -> ObjectState \cup {None}]]

Symbolics == [State -> [Object -> 0..MaxSymbolics]]

KeyInv(key, maps, h) ==
    /\ \A s \in State, o \in Object :
        maps[s][o] # None =>
            h[o][maps[s][o]] \in ObjectState /\ h[o][maps[s][o]].copyOnWriteOwner <= key[s]
    /\ \A s, t \in State, o \in Object :
        s # t /\ maps[s][o] # None /\ maps[t][o] = maps[s][o]
            => h[o][maps[s][o]].copyOnWriteOwner < key[s]

\* Only s, whose key is k, gets new bindings, and only new cells and cells of s
\* are written to; other states may end.
Local(s, k, maps, maps2, h) ==
    /\ \A u \in State \ {s} : maps2[u] = maps[u] \/ maps2[u] = NoObjects
    /\ \A o \in Object :
        \/ maps2[s][o] \in {None, maps[s][o]}
        \/ heap[o][maps2[s][o]] = None /\ h[o][maps2[s][o]] # None
    /\ \A o \in Object, c \in Cell :
        \/ h[o][c] = heap[o][c]
        \/ /\ h[o][c] \in ObjectState /\ h[o][c].copyOnWriteOwner = k
           /\ \/ heap[o][c] = None
              \/ c = maps[s][o] /\ heap[o][c].copyOnWriteOwner = k

\* What is read through a map.
Contents(map, h) ==
    [o \in Object |-> IF map[o] = None THEN None ELSE h[o][map[o]].value]

ReadOnlyAsAdded(h) ==
    \A o \in Object, c \in Cell : h[o][c] # None => (h[o][c].readOnly <=> o \in Constants)

\* A state that does not exist has no map, and two that have a constant have it
\* in common.
Placed ==
    /\ \A s \in State \ live : objects[s] = NoObjects
    /\ \A s, t \in live, o \in Constants :
        objects[s][o] # None /\ objects[t][o] # None => objects[s][o] = objects[t][o]

IInv ==
    /\ TypeOK
    /\ KeyInv(cowKey, objects, heap)
    /\ ReadOnlyAsAdded(heap)
    /\ Placed
    /\ CountsReferences

-----------------------------------------------------------------------------
\* Held keeps the cells that a map has, and no others.
LEMMA HeldCells ==
    ASSUME NEW maps \in Maps, NEW h \in Heaps
    PROVE  /\ Held(maps, h) \in Heaps
           /\ \A s \in State, o \in Object :
                maps[s][o] # None => Held(maps, h)[o][maps[s][o]] = h[o][maps[s][o]]
           /\ \A o \in Object, c \in Cell :
                Held(maps, h)[o][c] # None => Held(maps, h)[o][c] = h[o][c]
  BY DEF Held, Maps, Heaps

\* What another state has in its map, s does not write to.
LEMMA OthersKept ==
    ASSUME NEW s \in State, NEW key \in [State -> Nat], NEW maps \in Maps,
           NEW maps2 \in Maps, NEW h \in Heaps, heap \in Heaps,
           KeyInv(key, maps, heap), Local(s, key[s], maps, maps2, h)
    PROVE  \A u \in State \ {s}, o \in Object : maps2[u][o] # None =>
                maps[u][o] = maps2[u][o] /\ h[o][maps2[u][o]] = heap[o][maps2[u][o]]
<1> SUFFICES ASSUME NEW u \in State \ {s}, NEW o \in Object, maps2[u][o] # None
             PROVE  maps[u][o] = maps2[u][o] /\ h[o][maps2[u][o]] = heap[o][maps2[u][o]]
  OBVIOUS
<1>1. maps2[u][o] \in Cell
  BY DEF Maps
<1>2. maps[u][o] = maps2[u][o]
  BY DEF Local, NoObjects
<1>3. heap[o][maps[u][o]] \in ObjectState /\ heap[o][maps[u][o]] # None
  BY <1>2, ConstantsAssumption DEF KeyInv
<1>4. heap[o][maps[u][o]].copyOnWriteOwner # key[s] \/ maps[u][o] # maps[s][o]
  BY <1>2, <1>3 DEF KeyInv, ObjectState
<1> QED BY <1>1, <1>2, <1>3, <1>4 DEF Local

\* A change of one state, in which it writes to nothing that it shares, keeps the
\* invariant on keys (getWriteable, bindObject, unbindObject, ~AddressSpace).
LEMMA LocalKeeps ==
    ASSUME NEW s \in State, NEW key \in [State -> Nat], NEW maps \in Maps,
           NEW maps2 \in Maps, NEW h \in Heaps, heap \in Heaps,
           KeyInv(key, maps, heap), Local(s, key[s], maps, maps2, h)
    PROVE  KeyInv(key, maps2, Held(maps2, h))
<1> DEFINE g == Held(maps2, h)
<1>1. \A u \in State, o \in Object : maps2[u][o] # None =>
        /\ maps2[u][o] \in Cell /\ g[o][maps2[u][o]] = h[o][maps2[u][o]]
  BY HeldCells DEF Maps
<1>2. \A u \in State, o \in Object : maps[u][o] # None =>
        heap[o][maps[u][o]] \in ObjectState /\ heap[o][maps[u][o]] # None
  BY ConstantsAssumption DEF KeyInv
<1>3. \A u \in State \ {s}, o \in Object : maps2[u][o] # None =>
        maps[u][o] = maps2[u][o] /\ h[o][maps2[u][o]] = heap[o][maps2[u][o]]
  BY OthersKept
<1>4. ASSUME NEW o \in Object, NEW u \in State \ {s}, maps2[s][o] # None,
             maps2[u][o] = maps2[s][o]
      PROVE  maps[s][o] = maps2[s][o]
  BY <1>2, <1>3, <1>4 DEF Local
<1>5. ASSUME NEW u \in State, NEW o \in Object, maps2[u][o] # None
      PROVE  /\ g[o][maps2[u][o]] \in ObjectState
             /\ g[o][maps2[u][o]].copyOnWriteOwner <= key[u]
  <2>1. CASE u # s
    BY <2>1, <1>1, <1>2, <1>3, <1>5 DEF KeyInv
  <2>2. CASE u = s /\ h[o][maps2[s][o]] = heap[o][maps2[s][o]]
    <3>1. maps2[s][o] = maps[s][o]
      BY <2>2, <1>1, <1>5 DEF Local
    <3> QED BY <3>1, <2>2, <1>1, <1>5 DEF KeyInv
  <2>3. CASE u = s /\ h[o][maps2[s][o]] # heap[o][maps2[s][o]]
    BY <2>3, <1>1, <1>5 DEF Local
  <2> QED BY <2>1, <2>2, <2>3
<1>6. ASSUME NEW u \in State, NEW t \in State, NEW o \in Object,
             u # t, maps2[u][o] # None, maps2[t][o] = maps2[u][o]
      PROVE  g[o][maps2[u][o]].copyOnWriteOwner < key[u]
  <2>1. h[o][maps2[u][o]] = heap[o][maps2[u][o]]
    BY <1>3, <1>6
  <2>2. maps[u][o] = maps2[u][o] /\ maps[t][o] = maps2[t][o]
    BY <1>3, <1>4, <1>6
  <2> QED BY <2>1, <2>2, <1>1, <1>6 DEF KeyInv
<1> QED BY <1>5, <1>6 DEF KeyInv

\* The copy constructor keeps it: both keys rise above every owner in the map.
LEMMA CopyKeeps ==
    ASSUME NEW s \in State, NEW t \in State, s # t,
           NEW key \in [State -> Nat], NEW maps \in Maps, NEW h \in Heaps,
           KeyInv(key, maps, h), maps[t] = NoObjects
    PROVE  KeyInv([key EXCEPT ![s] = key[s] + 1, ![t] = key[s] + 1],
                  [maps EXCEPT ![t] = maps[s]], h)
<1> DEFINE k == [key EXCEPT ![s] = key[s] + 1, ![t] = key[s] + 1]
           m == [maps EXCEPT ![t] = maps[s]]
<1>1. /\ k[s] = key[s] + 1 /\ k[t] = key[s] + 1
      /\ \A u \in State \ {s, t} : k[u] = key[u]
      /\ \A u \in State : key[u] \in Nat /\ k[u] \in Nat
  OBVIOUS
<1>2. m[t] = maps[s] /\ \A u \in State \ {t} : m[u] = maps[u]
  BY DEF Maps
<1>3. \A u \in State, o \in Object : maps[u][o] # None =>
        /\ h[o][maps[u][o]] \in ObjectState
        /\ h[o][maps[u][o]].copyOnWriteOwner \in Nat
        /\ h[o][maps[u][o]].copyOnWriteOwner <= key[u]
  BY DEF KeyInv, ObjectState
<1> HIDE DEF k, m
<1>4. ASSUME NEW u \in State, NEW o \in Object, m[u][o] # None
      PROVE  h[o][m[u][o]] \in ObjectState /\ h[o][m[u][o]].copyOnWriteOwner <= k[u]
  <2>1. CASE u = t
    BY <2>1, <1>1, <1>2, <1>3, <1>4
  <2>2. CASE u = s
    BY <2>2, <1>1, <1>2, <1>3, <1>4
  <2>3. CASE u \notin {s, t}
    BY <2>3, <1>1, <1>2, <1>3, <1>4
  <2> QED BY <2>1, <2>2, <2>3
<1>5. ASSUME NEW u \in State, NEW w \in State, NEW o \in Object,
             u # w, m[u][o] # None, m[w][o] = m[u][o]
      PROVE  h[o][m[u][o]].copyOnWriteOwner < k[u]
  <2>1. CASE u \in {s, t}
    <3>1. m[u][o] = maps[s][o] /\ k[u] = key[s] + 1
      BY <2>1, <1>1, <1>2
    <3> QED BY <3>1, <1>1, <1>3, <1>5
  <2>2. CASE u \notin {s, t} /\ w # t
    BY <2>2, <1>1, <1>2, <1>5 DEF KeyInv
  <2>3. CASE u \notin {s, t} /\ w = t
    <3>1. m[u] = maps[u] /\ maps[s][o] = maps[u][o] /\ k[u] = key[u]
      BY <2>3, <1>1, <1>2, <1>5
    <3> QED BY <3>1, <2>3, <1>5 DEF KeyInv
  <2> QED BY <2>1, <2>2, <2>3
<1>6. KeyInv(k, m, h)
  BY <1>4, <1>5 DEF KeyInv
<1> QED BY <1>6 DEF k, m

\* The counting in Release: what is added to a set and taken from it makes up the
\* difference.
LEMMA Counting ==
    ASSUME NEW S, NEW T, IsFiniteSet(S), IsFiniteSet(T)
    PROVE  /\ Cardinality(S) \in Nat /\ Cardinality(T) \in Nat
           /\ Cardinality(S \ T) \in Nat /\ Cardinality(T \ S) \in Nat
           /\ Cardinality(S) + Cardinality(T \ S) = Cardinality(T) + Cardinality(S \ T)
<1>1. IsFiniteSet(S \ T) /\ IsFiniteSet(T \ S) /\ IsFiniteSet(S \cap T)
  BY FS_Subset
<1>2. /\ Cardinality(S) \in Nat /\ Cardinality(T) \in Nat /\ Cardinality(S \cap T) \in Nat
      /\ Cardinality(S \ T) \in Nat /\ Cardinality(T \ S) \in Nat
  BY <1>1, FS_CardinalityType
<1>3. /\ Cardinality(S \ T) = Cardinality(S) - Cardinality(S \cap T)
      /\ Cardinality(T \ S) = Cardinality(T) - Cardinality(T \cap S)
  BY FS_Difference, Zenon
<1>4. T \cap S = S \cap T
  OBVIOUS
<1> QED BY <1>2, <1>3, <1>4

LEMMA SymbolicFinite ==
    ASSUME NEW syms \in Symbolics, NEW o \in Object
    PROVE  IsFiniteSet(SymbolicIn(syms, o))
<1>1. IsFiniteSet(State \X (1..MaxSymbolics))
  <2>1. IsFiniteSet(1..MaxSymbolics)
    BY FS_Interval, ConstantsAssumption
  <2> QED BY <2>1, FS_Product, ConstantsAssumption
<1>2. \A s \in State : {s} \X (1..syms[s][o]) \subseteq State \X (1..MaxSymbolics)
  <2> SUFFICES ASSUME NEW s \in State, NEW i \in 1..syms[s][o]
               PROVE  i \in 1..MaxSymbolics
    OBVIOUS
  <2>1. syms[s][o] \in 0..MaxSymbolics
    BY DEF Symbolics
  <2> QED BY <2>1, ConstantsAssumption
<1>3. SymbolicIn(syms, o) \subseteq State \X (1..MaxSymbolics)
  BY <1>2, Zenon DEF SymbolicIn
<1> QED BY <1>1, <1>3, FS_Subset

\* Release keeps the reference counts right, whatever an operation constructs.
LEMMA ReleaseCounts ==
    ASSUME TypeOK, CountsReferences, NEW h \in Heaps, objects' \in Maps,
           symbolics' \in Symbolics, Release(h),
           \A o \in Object, c \in Cell : heap[o][c] # None => h[o][c] # None
    PROVE  CountsReferences' /\ refCount' \in [Object -> Nat] /\ heap' \in Heaps
<1>1. heap' = Held(objects', h) /\ heap' \in Heaps
  BY HeldCells DEF Release
<1>2. ASSUME NEW o \in Object
      PROVE  /\ refCount'[o] = Cardinality(Existing(heap', o))
                             + Cardinality(SymbolicIn(symbolics', o))
             /\ refCount'[o] \in Nat
  <2>1. /\ Existing(heap, o) \subseteq Existing(h, o)
        /\ Existing(heap', o) \subseteq Existing(h, o)
    BY <1>1, HeldCells DEF Existing
  <2>2. /\ IsFiniteSet(Existing(h, o))
        /\ IsFiniteSet(SymbolicIn(symbolics, o)) /\ IsFiniteSet(SymbolicIn(symbolics', o))
    <3>1. Existing(h, o) \subseteq Cell
      BY DEF Existing
    <3>2. symbolics \in Symbolics
      BY DEF TypeOK, Symbolics
    <3> QED BY <3>1, <3>2, ConstantsAssumption, FS_Subset, SymbolicFinite
  <2>3. refCount[o] \in Int
        /\ refCount[o] = Cardinality(Existing(heap, o)) + Cardinality(SymbolicIn(symbolics, o))
    BY DEF TypeOK, CountsReferences
  <2>4. refCount'[o] =
            refCount[o] + Cardinality(Existing(h, o) \ Existing(heap, o))
                    + Cardinality(SymbolicIn(symbolics', o) \ SymbolicIn(symbolics, o))
                    - Cardinality(Existing(h, o) \ Existing(heap', o))
                    - Cardinality(SymbolicIn(symbolics, o) \ SymbolicIn(symbolics', o))
    BY DEF Release
  <2> DEFINE A == Existing(heap, o)
             B == Existing(h, o)
             C == Existing(heap', o)
             S == SymbolicIn(symbolics, o)
             T == SymbolicIn(symbolics', o)
  <2> HIDE DEF A, B, C, S, T
  <2>5. /\ IsFiniteSet(B) /\ A \subseteq B /\ C \subseteq B
        /\ IsFiniteSet(S) /\ IsFiniteSet(T)
        /\ refCount[o] \in Int /\ refCount[o] = Cardinality(A) + Cardinality(S)
    BY <2>1, <2>2, <2>3 DEF A, B, C, S, T
  <2>6. /\ Cardinality(S) + Cardinality(T \ S) = Cardinality(T) + Cardinality(S \ T)
        /\ Cardinality(S) \in Nat /\ Cardinality(T) \in Nat
        /\ Cardinality(S \ T) \in Nat /\ Cardinality(T \ S) \in Nat
    BY <2>5, Counting, Zenon
  <2>7. /\ Cardinality(A) + Cardinality(B \ A) = Cardinality(B)
        /\ Cardinality(C) + Cardinality(B \ C) = Cardinality(B)
        /\ Cardinality(A) \in Nat /\ Cardinality(B) \in Nat /\ Cardinality(C) \in Nat
        /\ Cardinality(B \ A) \in Nat /\ Cardinality(B \ C) \in Nat
    <3>1. IsFiniteSet(A) /\ IsFiniteSet(C)
      BY <2>5, FS_Subset
    <3>2. A \ B = {} /\ C \ B = {}
      BY <2>5
    <3>3. /\ Cardinality(A) + Cardinality(B \ A) = Cardinality(B) + Cardinality(A \ B)
          /\ Cardinality(C) + Cardinality(B \ C) = Cardinality(B) + Cardinality(C \ B)
          /\ Cardinality(A) \in Nat /\ Cardinality(B) \in Nat /\ Cardinality(C) \in Nat
          /\ Cardinality(B \ A) \in Nat /\ Cardinality(B \ C) \in Nat
      BY <2>5, <3>1, Counting, Zenon
    <3>4. Cardinality({}) = 0
      BY FS_EmptySet
    <3>5. Cardinality(A \ B) = 0 /\ Cardinality(C \ B) = 0
      BY <3>2, <3>4, Zenon
    <3> QED BY <3>3, <3>5
  <2>8. refCount'[o] = Cardinality(C) + Cardinality(T) /\ refCount'[o] \in Nat
    BY <2>4, <2>5, <2>6, <2>7 DEF A, B, C, S, T
  <2> QED BY <1>1, <2>8 DEF C, T
<1>3. refCount' \in [Object -> Nat]
  <2>1. DOMAIN refCount' = Object /\ refCount' = [o \in Object |-> refCount'[o]]
    BY DEF Release
  <2> QED BY <1>2, <2>1
<1>4. CountsReferences'
  BY <1>2 DEF CountsReferences, Existing, SymbolicIn
<1> QED BY <1>1, <1>3, <1>4

\* An object whose count is 0 is in no map: malloc can give its address away.
LEMMA Unreferenced ==
    ASSUME IInv, NEW o \in Object, refCount[o] = 0
    PROVE  /\ \A s \in State : objects[s][o] = None
           /\ \A c \in Cell : heap[o][c] = None
<1>1. IsFiniteSet(Existing(heap, o)) /\ IsFiniteSet(SymbolicIn(symbolics, o))
  <2>1. Existing(heap, o) \subseteq Cell
    BY DEF Existing
  <2>2. symbolics \in Symbolics
    BY DEF IInv, TypeOK, Symbolics
  <2> QED BY <2>1, <2>2, ConstantsAssumption, FS_Subset, SymbolicFinite
<1>2. Cardinality(Existing(heap, o)) = 0 /\ Cardinality(SymbolicIn(symbolics, o)) = 0
  <2>1. Cardinality(Existing(heap, o)) \in Nat /\ Cardinality(SymbolicIn(symbolics, o)) \in Nat
    BY <1>1, FS_CardinalityType
  <2> QED BY <2>1 DEF IInv, CountsReferences
<1>3. Existing(heap, o) = {}
  BY <1>1, <1>2, FS_EmptySet
<1>4. \A c \in Cell : heap[o][c] = None
  BY <1>3 DEF Existing
<1>5. \A s \in State : objects[s][o] = None
  <2>1. SUFFICES ASSUME NEW s \in State, objects[s][o] # None PROVE FALSE
    OBVIOUS
  <2>2. objects[s][o] \in Cell /\ heap[o][objects[s][o]] \in ObjectState
    BY <2>1 DEF IInv, TypeOK, KeyInv
  <2> QED BY <2>2, <1>4, ConstantsAssumption
<1> QED BY <1>4, <1>5

\* A step that is local to a state, after a copy or not, keeps the invariant, and
\* the other states read what they read before.
LEMMA LocalStep ==
    ASSUME IInv, NEW s \in State, NEW maps \in Maps, NEW h \in Heaps,
           cowKey' \in [State -> 1..MaxKey], KeyInv(cowKey', maps, heap),
           objects' \in Maps, Local(s, cowKey'[s], maps, objects', h), Release(h),
           ReadOnlyAsAdded(h), live' \subseteq State,
           allocas' \in [State -> SUBSET Object], symbolics' \in Symbolics,
           Placed'
    PROVE  /\ IInv'
           /\ Memory'[s] = Contents(objects'[s], h)
           /\ \A u \in State \ {s} : Memory'[u] = Contents(objects'[u], heap)
<1>1. TypeOK /\ CountsReferences /\ heap \in Heaps
  BY DEF IInv, TypeOK, Heaps
<1>2. cowKey' \in [State -> Nat]
  BY ConstantsAssumption
<1>3. \A o \in Object, c \in Cell : heap[o][c] # None => h[o][c] # None
  BY ConstantsAssumption DEF Local
<1>4. CountsReferences' /\ refCount' \in [Object -> Nat] /\ heap' \in Heaps
  BY <1>1, <1>3, ReleaseCounts
<1>5. heap' = Held(objects', h)
  BY DEF Release
<1>6. KeyInv(cowKey', objects', heap')
  BY <1>1, <1>2, <1>5, LocalKeeps
<1>7. ReadOnlyAsAdded(heap')
  BY <1>5, HeldCells DEF ReadOnlyAsAdded
<1>8. TypeOK'
  BY <1>4 DEF TypeOK, Maps, Heaps, Symbolics
<1>9. KeyInv(cowKey, objects, heap)'
  BY <1>6 DEF KeyInv
<1>10. ReadOnlyAsAdded(heap)'
  BY <1>7 DEF ReadOnlyAsAdded
<1>11. IInv'
  BY <1>4, <1>8, <1>9, <1>10 DEF IInv
<1>12. \A u \in State, o \in Object : objects'[u][o] # None =>
            heap'[o][objects'[u][o]] = h[o][objects'[u][o]]
  BY <1>5, HeldCells
<1>13. \A u \in State \ {s}, o \in Object : objects'[u][o] # None =>
            h[o][objects'[u][o]] = heap[o][objects'[u][o]]
  BY <1>1, <1>2, OthersKept
<1>14. \A u \in State : Memory'[u] = Contents(objects'[u], heap')
  BY DEF Memory, Os, Contents
<1>15. Contents(objects'[s], heap') = Contents(objects'[s], h)
  BY <1>12 DEF Contents
<1>16. \A u \in State \ {s} : Contents(objects'[u], heap') = Contents(objects'[u], heap)
  BY <1>12, <1>13 DEF Contents
<1> QED BY <1>11, <1>14, <1>15, <1>16

LEMMA MemoryFacts ==
    /\ \A u \in State : Memory[u] = Contents(objects[u], heap)
    /\ Memory = [u \in State |-> Memory[u]] /\ Memory' = [u \in State |-> Memory'[u]]
    /\ \A u \in State : /\ Memory[u] = [o \in Object |-> Memory[u][o]]
                        /\ Memory'[u] = [o \in Object |-> Memory'[u][o]]
  BY DEF Memory, Os, Contents

\* Only s sees a change.
LEMMA MemoryOf ==
    ASSUME NEW s \in State, NEW f, Memory'[s] = f,
           \A u \in State \ {s} : Memory'[u] = Contents(objects'[u], heap)
                                  /\ objects'[u] = objects[u]
    PROVE  Memory' = [Memory EXCEPT ![s] = f]
<1>1. \A u \in State \ {s} : Memory'[u] = Memory[u]
  BY MemoryFacts
<1> HIDE DEF Memory
<1> QED BY <1>1, MemoryFacts

LEMMA FreshCell ==
    ASSUME NEW o, HasRoom(o)
    PROVE  Fresh(o) \in Cell /\ heap[o][Fresh(o)] = None
  BY DEF HasRoom, Fresh

\* A new ObjectState has the key of the state it is made for.
LEMMA NewCells ==
    ASSUME NEW k \in Nat, NEW v \in Value
    PROVE  /\ NewCell(k, v) \in ObjectState
           /\ NewCell(k, v).copyOnWriteOwner = k /\ NewCell(k, v).value = v
           /\ NewCell(k, v).readOnly = FALSE
           /\ NewCell(k, v) # None
<1>1. NewCell(k, v) \in ObjectState
  BY DEF NewCell, ObjectState
<1>2. NewCell(k, v) # None
  BY <1>1, ConstantsAssumption
<1> QED BY <1>1, <1>2 DEF NewCell

\* s writes contents to objects it has, in the address spaces maps; other states
\* may end.
Writes(s, k, maps, maps2, written, contents, h) ==
    /\ s \in State /\ k \in Nat /\ maps \in Maps /\ maps2 \in Maps
    /\ written \subseteq Object
    /\ \A o \in written : /\ contents[o] \in Value /\ maps[s][o] # None
                          /\ CanWrite(k, o, maps[s][o]) /\ o \notin Constants
    /\ maps2[s] = WriteMap(k, maps[s], written)
    /\ \A u \in State \ {s} : maps2[u] = maps[u] \/ maps2[u] = NoObjects
    /\ h = WriteHeap(k, maps[s], written, contents)

Wrote(s, k, maps, maps2, written, contents, h) ==
    /\ h \in Heaps /\ ReadOnlyAsAdded(h) /\ Local(s, k, maps, maps2, h)
    /\ \A o \in written : maps2[s][o] # None /\ h[o][maps2[s][o]].value = contents[o]
    /\ \A o \in Object \ written : maps2[s][o] = maps[s][o]
    /\ \A o \in Object \ written, c \in Cell : h[o][c] = heap[o][c]

\* getWriteable writes to a cell of the state or to a copy.
LEMMA WriteIsLocal ==
    ASSUME NEW s, NEW k, NEW maps, NEW maps2, NEW written, NEW contents, NEW h,
           heap \in Heaps, ReadOnlyAsAdded(heap),
           Writes(s, k, maps, maps2, written, contents, h)
    PROVE  Wrote(s, k, maps, maps2, written, contents, h)
<1> DEFINE w(o) == Writeable(k, o, maps[s][o])
<1> USE DEF Writes
<1>1. \A o \in written : /\ NewCell(k, contents[o]) \in ObjectState
                         /\ NewCell(k, contents[o]).copyOnWriteOwner = k
                         /\ NewCell(k, contents[o]).value = contents[o]
                         /\ NewCell(k, contents[o]).readOnly = FALSE
                         /\ NewCell(k, contents[o]) # None
  <2> SUFFICES ASSUME NEW o \in written
               PROVE  /\ NewCell(k, contents[o]) \in ObjectState
                      /\ NewCell(k, contents[o]).copyOnWriteOwner = k
                      /\ NewCell(k, contents[o]).value = contents[o]
                      /\ NewCell(k, contents[o]).readOnly = FALSE
                      /\ NewCell(k, contents[o]) # None
    BY Zenon
  <2> DEFINE v == contents[o]
  <2>1. v \in Value
    OBVIOUS
  <2> HIDE DEF v
  <2>2. /\ NewCell(k, v) \in ObjectState
        /\ NewCell(k, v).copyOnWriteOwner = k /\ NewCell(k, v).value = v
        /\ NewCell(k, v).readOnly = FALSE
        /\ NewCell(k, v) # None
    BY <2>1, NewCells, Zenon
  <2> QED BY <2>2 DEF v
<1>2. \A o \in written : maps[s][o] \in Cell
  BY DEF Maps
<1>3. \A o \in written :
        /\ w(o) \in Cell
        /\ \/ heap[o][w(o)] = None
           \/ w(o) = maps[s][o] /\ heap[o][w(o)].copyOnWriteOwner = k
  <2> SUFFICES ASSUME NEW o \in written
               PROVE  /\ w(o) \in Cell
                      /\ \/ heap[o][w(o)] = None
                         \/ w(o) = maps[s][o] /\ heap[o][w(o)].copyOnWriteOwner = k
    OBVIOUS
  <2>1. CASE Owns(k, o, maps[s][o])
    <3>1. w(o) = maps[s][o]
      BY <2>1, Zenon DEF Writeable
    <3> QED BY <1>2, <2>1, <3>1, Zenon DEF Owns
  <2>2. CASE ~Owns(k, o, maps[s][o])
    <3>1. w(o) = Fresh(o) /\ HasRoom(o)
      BY <2>2, Zenon DEF Writeable, CanWrite
    <3> QED BY <3>1, FreshCell, Zenon
  <2> QED BY <2>1, <2>2
<1>4. /\ \A o \in written : maps2[s][o] = w(o)
      /\ \A o \in Object \ written : maps2[s][o] = maps[s][o]
  BY DEF WriteMap
<1>5. /\ \A o \in written : h[o][w(o)] = NewCell(k, contents[o])
      /\ \A o \in Object, c \in Cell :
            ~(o \in written /\ c = w(o)) => h[o][c] = heap[o][c]
  BY <1>3 DEF WriteHeap
<1>6. h = [o \in Object |-> [c \in Cell |-> h[o][c]]]
  BY DEF WriteHeap
<1> HIDE DEF w
<1>7. \A o \in Object, c \in Cell : h[o][c] \in ObjectState \cup {None}
  BY <1>1, <1>5 DEF Heaps
<1>8. h \in Heaps
  BY <1>6, <1>7 DEF Heaps
<1>9. ReadOnlyAsAdded(h)
  BY <1>1, <1>5 DEF ReadOnlyAsAdded
<1>10. Local(s, k, maps, maps2, h)
  <2>1. \A o \in Object : \/ maps2[s][o] \in {None, maps[s][o]}
                          \/ heap[o][maps2[s][o]] = None /\ h[o][maps2[s][o]] # None
    <3>1. \A o \in written : maps2[s][o] = w(o) /\ h[o][w(o)] # None
                            /\ (heap[o][w(o)] = None \/ w(o) = maps[s][o])
      BY ONLY <1>1, <1>3, <1>4, <1>5, Zenon
    <3> QED BY ONLY <1>4, <3>1
  <2>2. \A o \in Object, c \in Cell :
            \/ h[o][c] = heap[o][c]
            \/ /\ h[o][c] \in ObjectState /\ h[o][c].copyOnWriteOwner = k
               /\ \/ heap[o][c] = None
                  \/ c = maps[s][o] /\ heap[o][c].copyOnWriteOwner = k
    <3>1. \A o \in written :
            /\ h[o][w(o)] \in ObjectState /\ h[o][w(o)].copyOnWriteOwner = k
            /\ \/ heap[o][w(o)] = None
               \/ w(o) = maps[s][o] /\ heap[o][w(o)].copyOnWriteOwner = k
      <4> SUFFICES ASSUME NEW o \in written
                   PROVE  /\ h[o][w(o)] \in ObjectState
                          /\ h[o][w(o)].copyOnWriteOwner = k
                          /\ \/ heap[o][w(o)] = None
                             \/ w(o) = maps[s][o] /\ heap[o][w(o)].copyOnWriteOwner = k
        BY Zenon
      <4>1. h[o][w(o)] = NewCell(k, contents[o])
        BY ONLY o \in written, <1>5, Zenon
      <4>2. /\ NewCell(k, contents[o]) \in ObjectState
            /\ NewCell(k, contents[o]).copyOnWriteOwner = k
        BY ONLY o \in written, <1>1, Zenon
      <4>3. /\ h[o][w(o)] \in ObjectState
            /\ h[o][w(o)].copyOnWriteOwner = k
        BY ONLY <4>1, <4>2
      <4> QED BY ONLY o \in written, <1>3, <4>3, Zenon
    <3>2. \A o \in Object, c \in Cell :
            ~(o \in written /\ c = w(o)) => h[o][c] = heap[o][c]
      BY ONLY <1>5, Zenon
    <3> SUFFICES ASSUME NEW o \in Object, NEW c \in Cell, h[o][c] # heap[o][c]
                 PROVE  /\ h[o][c] \in ObjectState /\ h[o][c].copyOnWriteOwner = k
                        /\ \/ heap[o][c] = None
                           \/ c = maps[s][o] /\ heap[o][c].copyOnWriteOwner = k
      BY Zenon
    <3>3. o \in written /\ c = w(o)
      BY ONLY o \in Object, c \in Cell, h[o][c] # heap[o][c], <3>2, Zenon
    <3> QED BY ONLY <3>1, <3>3
  <2> QED BY <2>1, <2>2 DEF Local
<1>11. \A o \in written : maps2[s][o] # None /\ h[o][maps2[s][o]].value = contents[o]
  <2>1. None \notin Cell
    BY ConstantsAssumption
  <2> SUFFICES ASSUME NEW o \in written
               PROVE  maps2[s][o] # None /\ h[o][maps2[s][o]].value = contents[o]
    BY Zenon
  <2>2. maps2[s][o] = w(o) /\ w(o) \in Cell
    BY ONLY o \in written, <1>3, <1>4, Zenon
  <2>3. h[o][w(o)] = NewCell(k, contents[o]) /\ NewCell(k, contents[o]).value = contents[o]
    BY ONLY o \in written, <1>1, <1>5, Zenon
  <2> QED BY ONLY <2>1, <2>2, <2>3
<1>12. \A o \in Object \ written, c \in Cell : h[o][c] = heap[o][c]
  BY <1>5
<1> QED BY <1>4, <1>8, <1>9, <1>10, <1>11, <1>12, Zenon DEF Wrote

\* s binds n to a new ObjectState, and may unbind others.
Binds(s, k, maps2, n, v, h) ==
    /\ s \in State /\ k \in Nat /\ maps2 \in Maps /\ n \in Object \ Constants /\ v \in Value
    /\ HasRoom(n) /\ maps2[s][n] = Fresh(n)
    /\ \A o \in Object \ {n} : maps2[s][o] \in {None, objects[s][o]}
    /\ \A u \in State \ {s} : maps2[u] = objects[u]
    /\ h = Put(heap, n, Fresh(n), NewCell(k, v))

\* bindObject of a new ObjectState, and unbindObject of others.
LEMMA BindIsLocal ==
    ASSUME NEW s, NEW k, NEW maps2, NEW n, NEW v, NEW h,
           heap \in Heaps, ReadOnlyAsAdded(heap), Binds(s, k, maps2, n, v, h)
    PROVE  /\ h \in Heaps /\ ReadOnlyAsAdded(h) /\ Local(s, k, objects, maps2, h)
           /\ h[n][Fresh(n)].value = v
           /\ \A o \in Object \ {n} : h[o] = heap[o]
<1> USE DEF Binds
<1>1. Fresh(n) \in Cell /\ heap[n][Fresh(n)] = None
  BY FreshCell
<1> DEFINE new == NewCell(k, v)
<1>a. new \in ObjectState /\ new.copyOnWriteOwner = k /\ new.value = v
      /\ new.readOnly = FALSE /\ new # None
  BY NewCells, ZenonT(40)
<1> HIDE DEF new
<1>2. /\ h \in Heaps
      /\ h[n][Fresh(n)] = new
      /\ \A c \in Cell \ {Fresh(n)} : h[n][c] = heap[n][c]
      /\ \A o \in Object \ {n} : h[o] = heap[o]
  BY <1>1, <1>a DEF Put, Heaps, new
<1>3. ReadOnlyAsAdded(h)
  BY <1>1, <1>2, <1>a DEF ReadOnlyAsAdded, Heaps
<1>4. Local(s, k, objects, maps2, h)
  BY <1>1, <1>2, <1>a DEF Local
<1> QED BY <1>2, <1>3, <1>4, <1>a

\* Steps that only let go of ObjectStates.
LEMMA UnbindIsLocal ==
    ASSUME NEW s \in State, NEW k \in Nat, NEW maps \in Maps, NEW maps2 \in Maps,
           \A o \in Object : maps2[s][o] \in {None, maps[s][o]},
           \A u \in State \ {s} : maps2[u] = maps[u] \/ maps2[u] = NoObjects
    PROVE  Local(s, k, maps, maps2, heap)
  BY DEF Local

-----------------------------------------------------------------------------
\* The operations that end a state and unbind objects.

LEMMA Facts ==
    ASSUME IInv
    PROVE  /\ heap \in Heaps /\ objects \in Maps
           /\ cowKey \in [State -> 1..MaxKey] /\ cowKey \in [State -> Nat]
           /\ live \subseteq State
           /\ allocas \in [State -> SUBSET Object] /\ symbolics \in Symbolics
           /\ KeyInv(cowKey, objects, heap) /\ ReadOnlyAsAdded(heap) /\ Placed
  BY DEF IInv, TypeOK, Heaps, Maps, Symbolics

\* The constants stay where they are until they are unbound.
LEMMA PlacedKept ==
    ASSUME IInv, live' \subseteq live,
           \A u \in State \ live : objects'[u] = objects[u],
           \A u \in live \ live' : objects'[u] = NoObjects,
           \A u \in live', o \in Constants : objects'[u][o] \in {None, objects[u][o]}
    PROVE  Placed'
<1>1. Placed /\ live \subseteq State
  BY Facts
<1>2. \A u \in State \ live' : objects'[u] = NoObjects
  BY <1>1 DEF Placed
<1>3. ASSUME NEW u \in live', NEW w \in live', NEW o \in Constants,
             objects'[u][o] # None, objects'[w][o] # None
      PROVE  objects'[u][o] = objects'[w][o]
  BY <1>1, <1>3 DEF Placed
<1> QED BY <1>2, <1>3 DEF Placed

\* The same cells with the same contents are read.
LEMMA SameContents ==
    ASSUME NEW map, NEW map2, NEW h, NEW o \in Object, map2[o] = map[o],
           map[o] \in Cell \cup {None}, \A c \in Cell : h[o][c] = heap[o][c]
    PROVE  Contents(map2, h)[o] = Contents(map, heap)[o]
  BY DEF Contents

\* A state's read-only objects are the constants.
LEMMA ReadOnlyObjects ==
    ASSUME IInv, NEW s \in State, NEW o \in Bound(s)
    PROVE  Os(s, o).readOnly <=> o \in Constants
<1>1. o \in Object /\ objects[s][o] \in Cell /\ heap[o][objects[s][o]] # None
  BY Facts, ConstantsAssumption DEF Bound, KeyInv, Maps
<1> QED BY <1>1, Facts DEF ReadOnlyAsAdded, Os

\* A state ends, perhaps after it has written to what it does not share.
LEMMA EndKeeps ==
    ASSUME IInv, NEW s \in State, NEW h \in Heaps, ReadOnlyAsAdded(h), EndWith(s, h),
           NEW maps, Local(s, cowKey[s], objects, maps, h)
    PROVE  IInv' /\ Memory' = [Memory EXCEPT ![s] = NoObjects]
<1>1. /\ objects' \in Maps /\ allocas' \in [State -> SUBSET Object]
      /\ symbolics' \in Symbolics /\ live' \subseteq State
      /\ cowKey' = cowKey /\ Release(h)
  <2>1. NoSymbolics \in [Object -> 0..MaxSymbolics] /\ NoObjects \in [Object -> Cell \cup {None}]
    BY ConstantsAssumption DEF NoSymbolics, NoObjects
  <2> QED BY <2>1, Facts DEF EndWith, Maps, Symbolics
<1>2. /\ objects'[s] = NoObjects /\ live' = live \ {s}
      /\ \A u \in State \ {s} : objects'[u] = objects[u]
  BY Facts DEF EndWith, Maps
<1>3. Local(s, cowKey'[s], objects, objects', h)
  <2>1. \A o \in Object : objects'[s][o] = None
    BY <1>2 DEF NoObjects
  <2> QED BY <1>1, <1>2, <2>1 DEF Local
<1>4. Placed'
  <2>1. /\ live' \subseteq live /\ s \in live
        /\ \A u \in State \ live : objects'[u] = objects[u]
        /\ \A u \in live \ live' : objects'[u] = NoObjects
        /\ \A u \in live', o \in Constants : objects'[u][o] \in {None, objects[u][o]}
    BY <1>2, Facts DEF EndWith
  <2> QED BY ONLY IInv, <2>1, PlacedKept, Zenon
<1>5. /\ IInv' /\ Memory'[s] = Contents(objects'[s], h)
      /\ \A u \in State \ {s} : Memory'[u] = Contents(objects'[u], heap)
  BY <1>1, <1>3, <1>4, Facts, LocalStep
<1>6. Contents(NoObjects, h) = NoObjects
  BY DEF Contents, NoObjects
<1> QED BY <1>2, <1>5, <1>6, MemoryOf

LEMMA TerminateKeeps ==
    ASSUME IInv, NEW s \in State, Terminate(s)
    PROVE  IInv' /\ Memory' = [Memory EXCEPT ![s] = NoObjects]
<1>1. Local(s, cowKey[s], objects, objects, heap)
  BY Facts, UnbindIsLocal
<1>2. EndWith(s, heap) /\ heap \in Heaps /\ ReadOnlyAsAdded(heap)
  BY Facts DEF Terminate
<1> QED BY <1>1, <1>2, EndKeeps, Zenon

\* Heap objects and frames are unbound in the same way.
LEMMA UnbindKeeps ==
    ASSUME IInv, NEW s \in live, NEW gone \in SUBSET Object,
           objects' = [objects EXCEPT ![s] = UnbindAll(@, gone)],
           allocas' \in [State -> SUBSET Object],
           UNCHANGED <<live, cowKey, symbolics>>, Release(heap)
    PROVE  /\ IInv'
           /\ Memory' = [Memory EXCEPT ![s] =
                            [o \in Object |-> IF o \in gone THEN None ELSE Memory[s][o]]]
<1>1. s \in State /\ cowKey[s] \in Nat
  BY Facts
<1>2. /\ objects' \in Maps
      /\ \A o \in Object : objects'[s][o] = IF o \in gone THEN None ELSE objects[s][o]
      /\ \A u \in State \ {s} : objects'[u] = objects[u]
  BY <1>1, Facts DEF Maps, UnbindAll
<1>3. Local(s, cowKey[s], objects, objects', heap)
  BY <1>1, <1>2, Facts, UnbindIsLocal, ZenonT(40)
<1>4. Placed'
  <2>1. /\ live' \subseteq live /\ \A u \in State \ live : objects'[u] = objects[u]
        /\ \A u \in live \ live' : objects'[u] = NoObjects
        /\ \A u \in live', o \in Constants : objects'[u][o] \in {None, objects[u][o]}
    BY <1>2, Facts, ConstantsAssumption
  <2> QED BY ONLY IInv, <2>1, PlacedKept, Zenon
<1>5. /\ IInv' /\ Memory'[s] = Contents(objects'[s], heap)
      /\ \A u \in State \ {s} : Memory'[u] = Contents(objects'[u], heap)
  BY <1>1, <1>2, <1>3, <1>4, Facts, LocalStep, ZenonT(40)
<1>6. Contents(objects'[s], heap) =
            [o \in Object |-> IF o \in gone THEN None ELSE Memory[s][o]]
  BY <1>1, <1>2, MemoryFacts, SMTT(20) DEF Contents
<1> QED BY <1>1, <1>2, <1>5, <1>6, MemoryOf

LEMMA FreeKeeps ==
    ASSUME IInv, NEW s \in State, NEW o \in Object, ExecuteFree(s, o)
    PROVE  /\ IInv'
           /\ \/ Terminate(s)
              \/ /\ s \in live /\ o \in Bound(s) \ Globals /\ live' = live
                 /\ Memory' = [Memory EXCEPT ![s] =
                        [p \in Object |-> IF p \in {o} THEN None ELSE Memory[s][p]]]
<1>1. CASE o \in Globals \cup allocas[s]
  BY <1>1, TerminateKeeps DEF ExecuteFree
<1>2. CASE o \notin Globals \cup allocas[s]
  <2>1. /\ s \in live /\ {o} \in SUBSET Object /\ o \in Bound(s) \ Globals
        /\ objects' = [objects EXCEPT ![s] = UnbindAll(@, {o})]
        /\ UNCHANGED <<live, cowKey, symbolics>> /\ Release(heap)
        /\ allocas' = allocas /\ live' = live
    BY <1>2 DEF ExecuteFree
  <2>2. allocas' \in [State -> SUBSET Object]
    BY <2>1, Facts
  <2> QED BY <2>1, <2>2, UnbindKeeps, Zenon
<1> QED BY <1>1, <1>2

\* What popFrame unbinds, the objects of the frame or others in the place of deleted
\* ones, only the state itself loses.
LEMMA PopFrameKeeps ==
    ASSUME IInv, NEW s \in State, NEW frame \in SUBSET Object, PopFrame(s, frame)
    PROVE  /\ IInv'
           /\ \E gone \in SUBSET Object :
                Memory' = [Memory EXCEPT ![s] =
                            [o \in Object |-> IF o \in gone THEN None ELSE Memory[s][o]]]
<1> DEFINE deleted == {o \in frame : refCount[o] = 0}
<1>1. PICK read \in [deleted -> Object] :
        objects' = [objects EXCEPT ![s] =
                        UnbindAll(@, (frame \ deleted) \cup {read[o] : o \in deleted})]
  BY DEF PopFrame
<1> DEFINE gone == (frame \ deleted) \cup {read[o] : o \in deleted}
<1>2. gone \in SUBSET Object
  OBVIOUS
<1>3. objects' = [objects EXCEPT ![s] = UnbindAll(@, gone)]
  BY <1>1
<1> HIDE DEF gone
<1>4. s \in live /\ UNCHANGED <<live, cowKey, symbolics>> /\ Release(heap)
  BY DEF PopFrame
<1>5. allocas' \in [State -> SUBSET Object]
  BY Facts DEF PopFrame
<1>6. /\ IInv'
      /\ Memory' = [Memory EXCEPT ![s] =
                            [o \in Object |-> IF o \in gone THEN None ELSE Memory[s][o]]]
  BY <1>2, <1>3, <1>4, <1>5, UnbindKeeps, Zenon
<1> QED BY <1>2, <1>6, Zenon
=============================================================================
