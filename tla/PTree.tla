------------------------------- MODULE PTree -------------------------------
(***************************************************************************)
(* The process tree of lib/Core/PTree.cpp: a binary tree whose nodes carry *)
(* the execution state they stand for, or no state once they are split.   *)
(*                                                                         *)
(* A node is the path that leads to it from the root, a sequence of 0      *)
(* (left) and 1 (right); a node's parent pointer is therefore its path     *)
(* without the last element.  A tree is a function from the nodes that     *)
(* exist to their data.  The speculative children sLeft and sRight are     *)
(* never created (spSplitLeft and spSplitRight have no caller).            *)
(***************************************************************************)
EXTENDS Naturals, Sequences

CONSTANT NoState        \* the null data pointer of a split node

Node == Seq({0, 1})

LeftChild(n) == Append(n, 0)

RightChild(n) == Append(n, 1)

RootTree(s) == [n \in {<<>>} |-> s]

IsLeaf(tree, n) ==
    /\ LeftChild(n) \notin DOMAIN tree
    /\ RightChild(n) \notin DOMAIN tree

\* The node is on the path from the root to n (n itself included).
OnPath(m, n) ==
    /\ Len(m) <= Len(n)
    /\ \A i \in 1..Len(m) : m[i] = n[i]

\* The assertion of PTree::split.
CanSplit(tree, n) == n \in DOMAIN tree /\ IsLeaf(tree, n)

\* PTree::split, with the "ptreeNode->data = 0" every caller does before it.
Split(tree, n, leftData, rightData) ==
    [m \in DOMAIN tree \cup {LeftChild(n), RightChild(n)} |->
        CASE m = n -> NoState
          [] m = LeftChild(n) -> leftData
          [] m = RightChild(n) -> rightData
          [] OTHER -> tree[m]]

\* The assertion of PTree::remove (a freed node cannot be inspected either).
CanRemove(tree, n) == n \in DOMAIN tree /\ IsLeaf(tree, n)

RemoveLeafOnly(tree, n) == [m \in DOMAIN tree \ {n} |-> tree[m]]

\* PTree::remove deletes n and then each ancestor it leaves without children:
\* the nodes m above n whose whole subtree is the chain from m to n.
Remove(tree, n) ==
    LET dead(m) == /\ OnPath(m, n)
                   /\ \A k \in DOMAIN tree : OnPath(m, k) => OnPath(k, n)
    IN  [m \in {k \in DOMAIN tree : ~dead(k)} |-> tree[m]]

\* What Executor and PTree maintain together: with a node its ancestors exist, and
\* the nodes that carry a state are the leaves.
WellFormed(tree) ==
    /\ DOMAIN tree \subseteq Node
    /\ \A n \in DOMAIN tree : \A k \in 0..Len(n) :
        \E m \in DOMAIN tree : Len(m) = k /\ OnPath(m, n)
    /\ \A n \in DOMAIN tree : tree[n] # NoState <=> IsLeaf(tree, n)

\* Where the walk of RandomPathSPSearcher::selectState can end: it goes down
\* from the root, through the children that exist, until a node has data or
\* there is no child to go to.
WalkEnds(tree) ==
    {n \in DOMAIN tree :
        /\ tree[n] # NoState \/ IsLeaf(tree, n)
        /\ \A m \in DOMAIN tree : OnPath(m, n) /\ m # n => tree[m] = NoState}

=============================================================================
