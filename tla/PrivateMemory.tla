--------------------------- MODULE PrivateMemory ---------------------------
(***************************************************************************)
(* What AddressSpace promises the executor: every execution state has a    *)
(* memory of its own.  A state that branches gives its child a copy, and   *)
(* after that no operation of one state is seen by another.  Addresses are *)
(* shared by all states, so one is handed out only while no state uses it. *)
(***************************************************************************)
CONSTANTS
    State,          \* identities of execution states
    Object,         \* addresses at which a memory object can be
    Value,          \* contents of an object
    Constants,      \* the read-only objects
    Globals,        \* the objects bound at the start, Constants among them
    First,          \* the initial state
    Unbound,        \* the contents of an object that is not bound
    Select(_, _)    \* the contents SelectExpr gives a merged object

VARIABLES
    live,           \* the states that exist
    mem             \* what each of them has in its memory

vars == <<live, mem>>

Empty == [o \in Object |-> Unbound]

Bound(s) == {o \in Object : mem[s][o] # Unbound}

Init ==
    /\ live = {First}
    /\ \E contents \in [Globals -> Value] :
        mem = [s \in State |-> [o \in Object |->
                IF s = First /\ o \in Globals THEN contents[o] ELSE Unbound]]

\* The state alone sees new contents of some of the objects it has.
Assign(s) ==
    /\ s \in live /\ UNCHANGED live
    /\ mem' \in [State -> [Object -> Value \cup {Unbound}]]
    /\ \A t \in State \ {s} : mem'[t] = mem[t]
    /\ \A o \in Object :
        \/ mem'[s][o] = mem[s][o]
        \/ o \in Bound(s) \ Constants /\ mem'[s][o] \in Value

Bind(s, o, v) ==
    /\ s \in live /\ \A t \in State : mem[t][o] = Unbound
    /\ mem' = [mem EXCEPT ![s] = [p \in Object |-> IF p = o THEN v ELSE mem[s][p]]]
    /\ UNCHANGED live

Unbind(s, objs) ==
    /\ s \in live /\ objs \subseteq Bound(s)
    /\ mem' = [mem EXCEPT ![s] = [o \in Object |->
                IF o \in objs THEN Unbound ELSE mem[s][o]]]
    /\ UNCHANGED live

\* realloc: the contents move to another address.
Move(s, o, n) ==
    /\ s \in live /\ o \in Bound(s)
    /\ \A t \in State : mem[t][n] = Unbound
    /\ mem' = [mem EXCEPT ![s] = [p \in Object |->
                CASE p = o -> Unbound [] p = n -> mem[s][o] [] OTHER -> mem[s][p]]]
    /\ UNCHANGED live

Branch(s, t) ==
    /\ s \in live /\ t \in State \ live
    /\ mem' = [mem EXCEPT ![t] = mem[s]]
    /\ live' = live \cup {t}

\* A branch after which one of the two states, b, writes to object o.
BranchAssign(s, t, b, o, v) ==
    /\ s \in live /\ t \in State \ live /\ b \in {s, t}
    /\ o \in Bound(s) \ Constants
    /\ mem' = [u \in State |->
                IF u = b THEN [p \in Object |-> IF p = o THEN v ELSE mem[s][p]]
                ELSE IF u = t THEN mem[s] ELSE mem[u]]
    /\ live' = live \cup {t}

End(s) ==
    /\ s \in live
    /\ mem' = [mem EXCEPT ![s] = Empty]
    /\ live' = live \ {s}

\* State b is folded into a and ends.
Merge(a, b) ==
    /\ a \in live /\ b \in live \ {a} /\ Bound(a) = Bound(b)
    /\ mem' = [u \in State |->
                IF u = b THEN Empty
                ELSE IF u = a
                THEN [o \in Object |-> IF o \in Bound(a)
                                       THEN Select(mem[a][o], mem[b][o]) ELSE Unbound]
                ELSE mem[u]]
    /\ live' = live \ {b}

Next ==
    \/ \E s \in State : Assign(s)
    \/ \E s \in State, o \in Object, v \in Value : Bind(s, o, v)
    \/ \E s \in State, objs \in SUBSET Object : Unbind(s, objs)
    \/ \E s \in State, o, n \in Object : Move(s, o, n)
    \/ \E s, t \in State : Branch(s, t)
    \/ \E s, t, b \in State, o \in Object, v \in Value : BranchAssign(s, t, b, o, v)
    \/ \E s \in State : End(s)
    \/ \E a, b \in State : Merge(a, b)

Spec == Init /\ [][Next]_vars
=============================================================================
