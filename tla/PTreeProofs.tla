---------------------------- MODULE PTreeProofs ----------------------------
(***************************************************************************)
(* Lemmas about the process tree: the order of nodes on a path, and what   *)
(* PTree::split and PTree::remove preserve.                                *)
(***************************************************************************)
EXTENDS PTree, TLAPS

\* A node is on the path to itself, and paths compose.
LEMMA OnPathReflexive ==
    ASSUME NEW n \in Node
    PROVE  OnPath(n, n)
BY DEF OnPath, Node

LEMMA OnPathTransitive ==
    ASSUME NEW k \in Node, NEW m \in Node, NEW n \in Node, OnPath(k, m), OnPath(m, n)
    PROVE  OnPath(k, n)
BY DEF OnPath, Node

\* Two nodes of the same depth on one path are the same node.
LEMMA OnPathSameDepth ==
    ASSUME NEW m \in Node, NEW n \in Node, OnPath(m, n), Len(m) = Len(n)
    PROVE  m = n
BY DEF OnPath, Node

\* The children of a node are nodes, and differ from each other and from it.
LEMMA Children ==
    ASSUME NEW n \in Node
    PROVE  /\ LeftChild(n) \in Node /\ RightChild(n) \in Node
           /\ Len(LeftChild(n)) = Len(n) + 1 /\ Len(RightChild(n)) = Len(n) + 1
           /\ OnPath(n, LeftChild(n)) /\ OnPath(n, RightChild(n))
           /\ LeftChild(n) # RightChild(n)
           /\ n # LeftChild(n) /\ n # RightChild(n)
BY DEF OnPath, Node, LeftChild, RightChild

\* Children determine their parent.
LEMMA ChildInjective ==
    ASSUME NEW m \in Node, NEW n \in Node
    PROVE  /\ LeftChild(m) = LeftChild(n) => m = n
           /\ RightChild(m) = RightChild(n) => m = n
           /\ LeftChild(m) # RightChild(n)
BY DEF Node, LeftChild, RightChild

\* The node below m on the path to n is a child of m.
LEMMA NextOnPath ==
    ASSUME NEW m \in Node, NEW n \in Node, OnPath(m, n), Len(n) = Len(m) + 1
    PROVE  n = LeftChild(m) \/ n = RightChild(m)
<1>1. n[Len(n)] \in {0, 1}  BY DEF Node
<1>2. n = Append(m, n[Len(n)])  BY DEF OnPath, Node
<1> QED  BY <1>1, <1>2 DEF LeftChild, RightChild

\* The node just below m on the path to a descendant k exists.
LEMMA StepTowards ==
    ASSUME NEW tree, WellFormed(tree), NEW m \in Node, NEW k \in DOMAIN tree,
           OnPath(m, k), m # k
    PROVE  \E c \in DOMAIN tree : OnPath(c, k) /\ (c = LeftChild(m) \/ c = RightChild(m))
<1>1. k \in Node /\ Len(m) \in Nat /\ Len(k) \in Nat
  BY DEF WellFormed, Node
<1>2. Len(m) < Len(k)
  <2>1. Len(m) <= Len(k)  BY DEF OnPath
  <2>2. Len(m) # Len(k)  BY <1>1, OnPathSameDepth
  <2> QED  BY <1>1, <2>1, <2>2
<1>3. PICK c \in DOMAIN tree : Len(c) = Len(m) + 1 /\ OnPath(c, k)
  <2>1. Len(m) + 1 \in 0..Len(k)  BY <1>1, <1>2
  <2> QED  BY <2>1 DEF WellFormed
<1>4. c \in Node
  BY DEF WellFormed
<1>5. OnPath(m, c)
  BY <1>1, <1>3, <1>4 DEF OnPath, Node
<1> QED
  BY <1>3, <1>4, <1>5, NextOnPath

\* A node with data has nothing below it.
LEMMA NothingBelowLeaf ==
    ASSUME NEW tree, WellFormed(tree), NEW n \in DOMAIN tree, IsLeaf(tree, n),
           NEW k \in DOMAIN tree, OnPath(n, k)
    PROVE  n = k
BY StepTowards DEF WellFormed, IsLeaf

\* PTree::split of a leaf keeps the tree well formed.
LEMMA SplitWellFormed ==
    ASSUME NEW tree, WellFormed(tree), NEW n, CanSplit(tree, n),
           NEW a, NEW b, a # NoState, b # NoState
    PROVE  WellFormed(Split(tree, n, a, b))
<1> DEFINE l == LeftChild(n)
           r == RightChild(n)
           new == Split(tree, n, a, b)
<1>1. n \in Node /\ n \in DOMAIN tree /\ l \notin DOMAIN tree /\ r \notin DOMAIN tree
  BY DEF WellFormed, CanSplit, IsLeaf
<1>2. l \in Node /\ r \in Node /\ l # r /\ n # l /\ n # r
      /\ Len(l) = Len(n) + 1 /\ Len(r) = Len(n) + 1 /\ OnPath(n, l) /\ OnPath(n, r)
  BY <1>1, Children
<1>3. /\ DOMAIN new = DOMAIN tree \cup {l, r}
      /\ new[n] = NoState /\ new[l] = a /\ new[r] = b
      /\ \A m \in DOMAIN tree : m # n => new[m] = tree[m]
  BY <1>1, <1>2 DEF Split
<1>4. DOMAIN new \subseteq Node
  BY <1>2, <1>3 DEF WellFormed
<1>5. ASSUME NEW m \in DOMAIN new, NEW k \in 0..Len(m)
      PROVE  \E p \in DOMAIN new : Len(p) = k /\ OnPath(p, m)
  <2>1. CASE m \in DOMAIN tree
    BY <2>1, <1>3, <1>5 DEF WellFormed
  <2>2. CASE m \in {l, r}
    <3>1. CASE k = Len(m)
      BY <3>1, <1>4, OnPathReflexive
    <3>2. CASE k # Len(m)
      <4>1. k \in 0..Len(n)
        BY <3>2, <2>2, <1>1, <1>2 DEF Node
      <4>2. PICK p \in DOMAIN tree : Len(p) = k /\ OnPath(p, n)
        BY <4>1, <1>1 DEF WellFormed
      <4>3. p \in Node
        BY DEF WellFormed
      <4> QED
        BY <4>2, <4>3, <2>2, <1>1, <1>2, <1>3, OnPathTransitive
    <3> QED  BY <3>1, <3>2
  <2> QED  BY <2>1, <2>2, <1>3
<1>6. ASSUME NEW m \in DOMAIN new
      PROVE  new[m] # NoState <=> IsLeaf(new, m)
  <2>1. CASE m = n
    BY <2>1, <1>3 DEF IsLeaf
  <2>2. CASE m \in {l, r}
    <3>1. LeftChild(m) \notin DOMAIN tree /\ RightChild(m) \notin DOMAIN tree
      <4>1. ASSUME NEW c \in DOMAIN tree, OnPath(n, c)
            PROVE  c = n
        BY <4>1, <1>1, NothingBelowLeaf DEF CanSplit
      <4>2. OnPath(n, LeftChild(m)) /\ OnPath(n, RightChild(m))
        BY <2>2, <1>1, <1>2, Children, OnPathTransitive
      <4>3. LeftChild(m) # n /\ RightChild(m) # n
        <5>1. Len(n) \in Nat  BY <1>1 DEF Node
        <5>2. Len(LeftChild(m)) = Len(m) + 1 /\ Len(RightChild(m)) = Len(m) + 1
          BY <2>2, <1>2, Children
        <5>3. Len(m) = Len(n) + 1  BY <2>2, <1>2
        <5> QED  BY <5>1, <5>2, <5>3
      <4> QED  BY <4>1, <4>2, <4>3
    <3>2. LeftChild(m) \notin {l, r} /\ RightChild(m) \notin {l, r}
      BY <2>2, <1>1, <1>2, ChildInjective
    <3> QED  BY <3>1, <3>2, <2>2, <1>3 DEF IsLeaf
  <2>3. CASE m \in DOMAIN tree /\ m # n
    <3>1. LeftChild(m) \notin {l, r} /\ RightChild(m) \notin {l, r}
      BY <2>3, <1>1, <1>4, <1>3, ChildInjective
    <3> QED  BY <3>1, <2>3, <1>3 DEF IsLeaf, WellFormed
  <2> QED  BY <2>1, <2>2, <2>3, <1>3
<1> QED
  BY <1>4, <1>5, <1>6 DEF WellFormed

\* PTree::remove of a leaf deletes it and no other node that carries a state, and
\* keeps the tree well formed.
LEMMA RemoveWellFormed ==
    ASSUME NEW tree, WellFormed(tree), NEW n, CanRemove(tree, n)
    PROVE  LET new == Remove(tree, n)
           IN  /\ WellFormed(new)
               /\ DOMAIN new \subseteq DOMAIN tree
               /\ n \notin DOMAIN new
               /\ \A m \in DOMAIN new : new[m] = tree[m]
               /\ \A m \in DOMAIN tree : tree[m] # NoState /\ m # n => m \in DOMAIN new
<1> DEFINE dead(m) == /\ OnPath(m, n)
                      /\ \A k \in DOMAIN tree : OnPath(m, k) => OnPath(k, n)
           new == Remove(tree, n)
<1>1. n \in DOMAIN tree /\ n \in Node /\ IsLeaf(tree, n)
  BY DEF WellFormed, CanRemove
<1>2. /\ DOMAIN new = {k \in DOMAIN tree : ~dead(k)}
      /\ \A m \in DOMAIN new : new[m] = tree[m]
  BY DEF Remove
<1>3. DOMAIN new \subseteq Node
  BY <1>2 DEF WellFormed
<1>4. n \notin DOMAIN new
  BY <1>1, <1>2, NothingBelowLeaf, OnPathReflexive
<1>5. ASSUME NEW m \in DOMAIN tree, tree[m] # NoState, m # n
      PROVE  m \in DOMAIN new
  <2>1. m \in Node /\ IsLeaf(tree, m)
    BY <1>5 DEF WellFormed
  <2>2. ~OnPath(m, n)
    BY <1>1, <1>5, <2>1, NothingBelowLeaf
  <2> QED  BY <2>2, <1>2
<1>6. ASSUME NEW m \in DOMAIN new, NEW k \in 0..Len(m)
      PROVE  \E p \in DOMAIN new : Len(p) = k /\ OnPath(p, m)
  <2>1. m \in DOMAIN tree /\ ~dead(m) /\ m \in Node
    BY <1>2, <1>3
  <2>2. PICK p \in DOMAIN tree : Len(p) = k /\ OnPath(p, m)
    BY <2>1, <1>6 DEF WellFormed
  <2>3. p \in Node /\ DOMAIN tree \subseteq Node
    BY DEF WellFormed
  <2>4. ~dead(p)
    <3>1. SUFFICES ASSUME dead(p) PROVE dead(m)
      BY <2>1
    <3>2. OnPath(m, n)
      BY <3>1, <2>1, <2>2
    <3>3. ASSUME NEW j \in DOMAIN tree, OnPath(m, j) PROVE OnPath(j, n)
      BY <3>1, <3>3, <2>1, <2>2, <2>3, OnPathTransitive
    <3> QED  BY <3>2, <3>3
  <2> QED  BY <2>2, <2>4, <1>2
<1>7. ASSUME NEW m \in DOMAIN new
      PROVE  new[m] # NoState <=> IsLeaf(new, m)
  <2>1. m \in DOMAIN tree /\ ~dead(m) /\ m \in Node /\ new[m] = tree[m]
    BY <1>2, <1>3
  <2>2. IsLeaf(tree, m) => IsLeaf(new, m)
    BY <1>2 DEF IsLeaf
  <2>3. ASSUME ~IsLeaf(tree, m) PROVE ~IsLeaf(new, m)
    <3>1. PICK k \in DOMAIN tree : OnPath(m, k) /\ m # k /\ ~OnPath(k, n)
      <4>1. CASE OnPath(m, n)
        BY <4>1, <2>1
      <4>2. CASE ~OnPath(m, n)
        <5>1. PICK c \in DOMAIN tree : c = LeftChild(m) \/ c = RightChild(m)
          BY <2>3 DEF IsLeaf
        <5>2. OnPath(m, c) /\ m # c /\ c \in Node
          BY <5>1, <2>1, Children
        <5> QED  BY <5>1, <5>2, <4>2, <2>1, <1>1, OnPathTransitive
      <4> QED  BY <4>1, <4>2
    <3>2. PICK c \in DOMAIN tree :
            OnPath(c, k) /\ (c = LeftChild(m) \/ c = RightChild(m))
      BY <3>1, <2>1, StepTowards
    <3>3. c \in DOMAIN new
      BY <3>1, <3>2, <1>2
    <3> QED  BY <3>2, <3>3 DEF IsLeaf
  <2> QED  BY <2>1, <2>2, <2>3 DEF WellFormed
<1>8. WellFormed(new)
  BY <1>3, <1>6, <1>7 DEF WellFormed
<1> QED
  BY <1>2, <1>4, <1>5, <1>8

\* The walk of the searcher ends at a leaf of a well formed tree.
LEMMA WalkEndsAtState ==
    ASSUME NEW tree, WellFormed(tree), NEW n \in WalkEnds(tree)
    PROVE  n \in DOMAIN tree /\ tree[n] # NoState
BY DEF WalkEnds, WellFormed

=============================================================================
