---------------------------- MODULE SpecExecutor ----------------------------
(***************************************************************************)
(* How the executor creates, schedules and retires execution states when   *)
(* speculative paths are explored: Executor::run and the handlers it calls *)
(* (lib/Core/Executor.cpp), the speculative part of ExecutionState         *)
(* (lib/Core/ExecutionState.cpp), the process tree, and the searcher       *)
(* RandomPathSPSearcher (option --search=randomsp).                        *)
(*                                                                         *)
(* A normal state explores the program; every conditional branch it takes  *)
(* also forks a speculative state that follows the side NOT taken.         *)
(* Speculative states wait in the FIFO queue of the normal state that      *)
(* spawned them, and the searcher runs the head of the queue before the    *)
(* normal state itself.                                                    *)
(*                                                                         *)
(* The program under analysis, the solver and the clock are arbitrary:     *)
(* the next instruction, the solver's answer and the expiry of a timer are *)
(* nondeterministic.  What a run may meet is limited by constants:         *)
(* NormalInsts and SpecInsts are the classes of instructions met on normal *)
(* and on speculative paths, Options the command line options in force.    *)
(***************************************************************************)
EXTENDS Integers, Sequences, FiniteSets, PTree

CONSTANTS
    MaxTag,        \* bound: the largest tag of a normal state
    MaxSpTag,      \* bound: the largest tag of a speculative state
    MaxSEW,        \* --max-sew, the speculative execution window
    MaxDepth,      \* --max-depth, 0 when it is off
    Options,       \* the options in force, a subset of OptionNames
    NormalInsts,   \* instruction classes on normal paths
    SpecInsts      \* instruction classes on speculative paths

\* br      a conditional branch of user code
\* lib     a branch in the C library or the POSIX runtime
\* fork    internal forks: free, realloc, symbolic size or function pointer
\* switch  switch or indirectbr
\* exit    return from main, or any error that terminates the state
\* fence   a fence instruction
\* memerr  a memory access that is not proved in bounds of one object
\* invoke  an invoke of an external function that terminates the state
\* again   an instruction that goes on with a state it has terminated and may
\*         terminate it a second time: the stores of va_start, a call through
\*         a symbolic function pointer that can be invalid
\* plain   everything else
InstClasses == {"plain", "br", "lib", "fork", "switch", "exit", "fence", "memerr",
                "invoke", "again"}

OptionNames == {"enable-speculative", "enable-cachemodel", "max-time",
                "max-instruction-time", "max-memory", "max-solver-time",
                "only-detect-marked-secret", "dump-states-on-halt"}

Tags == 0..MaxTag \cup 0..MaxSpTag

ASSUME ConstantsAssumption ==
    /\ MaxTag \in Nat
    /\ MaxSpTag \in Nat
    /\ MaxSEW \in Nat
    /\ MaxDepth \in Nat
    /\ Options \subseteq OptionNames
    /\ NormalInsts \subseteq InstClasses
    /\ SpecInsts \subseteq InstClasses
    /\ NoState \notin Nat

\* Tags tell the two kinds of states apart: normal states have even tags and
\* speculative ones odd tags.
NextTagInOneSeries(tag) == tag + 1
NextTag(tag) == tag + 2

NormalTags == {t \in Tags : t % 2 = 0}

Speculating == "enable-speculative" \in Options
Caching == "enable-cachemodel" \in Options

VARIABLES
    st,             \* the ExecutionState objects, by tag
    count,          \* ExecutionState::count, the next tag of a normal state
    spCount,        \* ExecutionState::spCount, the next speculative tag
    processTree,
    states,         \* Executor::states
    addedStates,
    removedStates,
    current,        \* the state this iteration of Executor::run executes
    phase,          \* how far the iteration is
    haltExecution,
    spStates,       \* stats::spStates
    spStatesDone,   \* stats::spStatesDone
    error           \* the assertion that failed, or the invalid access made

vars == <<st, count, spCount, processTree, states, addedStates, removedStates,
          current, phase, haltExecution, spStates, spStatesDone, error>>

\* forks, branches, ends, again: inside an instruction that forks, or terminates
\* states, more than once.
Phases == {"select", "execute", "forks", "branches", "ends", "again", "timers",
           "memory", "update", "remove", "dump", "aborted"}

Errors == {"none", "not speculative", "not head of the queue", "split of inner node",
           "remove of inner node", "removed state unknown", "null node",
           "state freed", "parent uninitialised"}

\* "none": no object has this tag yet; "deleted": the object was freed.
StateType ==
    [kind: {"none", "normal", "spec", "deleted"},
     specInstCount: Int,
     depth: Nat,
     pPerentState: Tags \cup {NoState},     \* NoState: uninitialised
     specStates: Seq(Tags),
     finishedSpecStates: Seq(Tags),
     ptreeNode: Node,
     executed: Nat]     \* history: instructions run since the misprediction

\* The types of the executor's data; normal tags stay even, speculative tags odd.
TypeOK ==
    /\ st \in [Tags -> StateType]
    /\ count \in Nat /\ count % 2 = 0
    /\ spCount \in Nat /\ spCount % 2 = 1
    /\ DOMAIN processTree \subseteq Node
    /\ \A n \in DOMAIN processTree : processTree[n] \in Tags \cup {NoState}
    /\ states \subseteq Tags
    /\ addedStates \subseteq Tags
    /\ removedStates \in Seq(Tags)
    /\ current \in Tags
    /\ phase \in Phases
    /\ haltExecution \in BOOLEAN
    /\ spStates \in Nat
    /\ spStatesDone \in Nat
    /\ error \in Errors

-----------------------------------------------------------------------------
NoObject ==
    [kind |-> "none", specInstCount |-> 0, depth |-> 0, pPerentState |-> NoState,
     specStates |-> <<>>, finishedSpecStates |-> <<>>, ptreeNode |-> <<>>,
     executed |-> 0]

\* The object of a state after its destructor, which leaves the states that are
\* still in its queue alone.
Freed(src) ==
    [NoObject EXCEPT !.kind = "deleted", !.specStates = src.specStates,
                     !.finishedSpecStates = src.finishedSpecStates]

\* Executor::runFunctionAsMain and the head of Executor::run: one normal state,
\* the root of the process tree.
Init ==
    /\ st = [t \in Tags |-> IF t = 0 THEN [NoObject EXCEPT !.kind = "normal"]
                                     ELSE NoObject]
    /\ count = 2
    /\ spCount = 1
    /\ processTree = RootTree(0)
    /\ states = {0}
    /\ addedStates = {}
    /\ removedStates = <<>>
    /\ current = 0
    /\ phase = "select"
    /\ haltExecution = FALSE
    /\ spStates = 0
    /\ spStatesDone = 0
    /\ error = "none"

IsSpec(t) == st[t].kind = "spec"

SpecBranchFreshWindow(src, owner) ==
    [src EXCEPT !.kind = "spec", !.specInstCount = MaxSEW, !.pPerentState = owner,
                !.specStates = <<>>, !.finishedSpecStates = <<>>]

\* ExecutionState::specBranch: a speculative copy of src in the queue of owner.
\* The window is opened by a normal state and inherited by nested ones.
SpecBranch(src, owner) ==
    [src EXCEPT !.kind = "spec",
                !.specInstCount = IF src.kind = "spec" THEN @ ELSE MaxSEW,
                !.pPerentState = owner,
                !.specStates = <<>>,
                !.finishedSpecStates = <<>>]

\* The copy constructor behind ExecutionState::branch: the copy has no queue,
\* and its pPerentState is left uninitialised.
CopyOf(src) ==
    [src EXCEPT !.pPerentState = NoState, !.specStates = <<>>,
                !.finishedSpecStates = <<>>]

\* The normal state whose queue takes what state t forks.
Owner(t) == IF IsSpec(t) THEN st[t].pPerentState ELSE t

\* A failed assertion, or an access to an object that does not exist, ends the
\* process: nothing else changes and nothing follows.
Fail(e) ==
    /\ error' = e
    /\ phase' = "aborted"
    /\ UNCHANGED <<st, count, spCount, processTree, states, addedStates,
                   removedStates, spStates, spStatesDone>>

-----------------------------------------------------------------------------
(* Termination of a state *)

\* The assertions of Executor::terminateSpecState and of selectSpState, and the
\* pointers they follow.
SpecTerminationError(t) ==
    LET p == st[t].pPerentState
    IN  IF st[t].kind = "deleted" THEN "state freed"
        ELSE IF st[t].kind = "normal" THEN "not speculative"
        ELSE IF p = NoState THEN "parent uninitialised"
        ELSE IF st[p].kind = "deleted" THEN "state freed"
        ELSE IF st[p].specStates = <<>> THEN "not head of the queue"
        ELSE IF Head(st[p].specStates) # t THEN "not head of the queue"
        ELSE "none"

RemoveHeadStateLost(p) ==
    [st EXCEPT ![p].specStates = Tail(@), ![p].finishedSpecStates = <<>>]

\* ExecutionState::removeHeadState.  With the cache model the finished states
\* are kept until the queue is empty; mergeSpecCacheState then frees them all.
RemoveHeadState(p) ==
    LET rest == Tail(st[p].specStates)
        finished == Append(st[p].finishedSpecStates, Head(st[p].specStates))
        keep == Caching /\ rest # <<>>
    IN  [t \in Tags |->
            IF t = p
            THEN [st[p] EXCEPT !.specStates = rest,
                               !.finishedSpecStates = IF keep THEN finished ELSE <<>>]
            ELSE IF ~keep /\ \E i \in DOMAIN finished : finished[i] = t
                 THEN Freed(st[t])
                 ELSE st[t]]

\* Executor::terminateSpecState
TerminateSpecState(t, next) ==
    LET e == SpecTerminationError(t)
    IN  \/ e # "none" /\ Fail(e)
        \/ /\ e = "none"
           /\ st' = RemoveHeadState(st[t].pPerentState)
           /\ spStatesDone' = spStatesDone + 1
           /\ phase' = next
           /\ UNCHANGED <<count, spCount, processTree, states, addedStates,
                          removedStates, spStates, error>>

\* Executor::terminateState, and terminateStateEarly, OnExit and OnError, which
\* end in it.  A normal state the searcher knows is removed at the end of the
\* iteration; one that was just added is deleted at once.
TerminateState(t, next) ==
    LET n == st[t].ptreeNode
    IN  \/ st[t].kind # "normal" /\ TerminateSpecState(t, next)
        \/ /\ st[t].kind = "normal" /\ t \notin addedStates
           /\ removedStates' = Append(removedStates, t)
           /\ phase' = next
           /\ UNCHANGED <<st, count, spCount, processTree, states, addedStates,
                          spStates, spStatesDone, error>>
        \/ /\ st[t].kind = "normal" /\ t \in addedStates
           /\ ~CanRemove(processTree, n)
           /\ Fail("remove of inner node")
        \/ /\ st[t].kind = "normal" /\ t \in addedStates
           /\ CanRemove(processTree, n)
           /\ addedStates' = addedStates \ {t}
           /\ processTree' = Remove(processTree, n)
           /\ st' = [st EXCEPT ![t] = Freed(@)]
           /\ phase' = next
           /\ UNCHANGED <<count, spCount, states, removedStates, spStates,
                          spStatesDone, error>>

-----------------------------------------------------------------------------
(* The iteration of Executor::run *)

NextWithinParentFirst(p) == p

NextWithinLastFirst(p) ==
    IF st[p].specStates = <<>> THEN p ELSE st[p].specStates[Len(st[p].specStates)]

\* Which of the states kept in normal state p runs next: the head of its queue
\* (ExecutionState::selectSpState), or p itself.
NextWithin(p) == IF st[p].specStates = <<>> THEN p ELSE Head(st[p].specStates)

\* Searcher::selectState and Executor::stepInstruction: the walk down the
\* process tree ends at a state, and a speculative state pays for the
\* instruction before it is executed.
SelectState ==
    /\ phase = "select" /\ states # {} /\ ~haltExecution
    /\ \E n \in WalkEnds(processTree) :
        LET p == processTree[n]
            s == NextWithin(p)
        IN  \/ p = NoState /\ Fail("null node") /\ UNCHANGED current
            \/ /\ p # NoState /\ "deleted" \in {st[p].kind, st[s].kind}
               /\ Fail("state freed") /\ UNCHANGED current
            \/ /\ p # NoState /\ "deleted" \notin {st[p].kind, st[s].kind}
               /\ current' = s
               /\ st' = [st EXCEPT ![s].specInstCount = IF IsSpec(s) THEN @ - 1 ELSE @]
               /\ phase' = "execute"
               /\ UNCHANGED <<count, spCount, processTree, states, addedStates,
                              removedStates, spStates, spStatesDone, error>>
    /\ UNCHANGED haltExecution

\* The checks at the head of Executor::executeInstruction: the window closes
\* when the count reaches 0.
WindowClosed == IsSpec(current) /\ st[current].specInstCount <= 0

ExecuteClosedWindow ==
    /\ phase = "execute"
    /\ WindowClosed
    /\ TerminateSpecState(current, "timers")
    /\ UNCHANGED <<current, haltExecution>>

\* The current state is at an instruction of class i and may execute it.
At(i) ==
    /\ phase = "execute"
    /\ ~WindowClosed
    /\ i \in IF IsSpec(current) THEN SpecInsts ELSE NormalInsts
    /\ UNCHANGED <<current, haltExecution>>

\* The history of the current state after its instruction.
Stepped(t) == [st[t] EXCEPT !.executed = IF IsSpec(t) THEN @ + 1 ELSE 0]

\* The current state executes its instruction, which has forked and terminated
\* nothing so far.
StayAlive(next) ==
    /\ st' = [st EXCEPT ![current] = Stepped(current)]
    /\ phase' = next
    /\ UNCHANGED <<count, spCount, processTree, states, addedStates,
                   removedStates, spStates, spStatesDone, error>>

ExecutePlain == At("plain") /\ StayAlive("timers")

\* Return from main, unreachable code, a failed check of the program.
ExecuteExit == At("exit") /\ TerminateState(current, "timers")

\* Instruction::Fence calls terminateSpecState whatever the state is.
ExecuteFence == At("fence") /\ TerminateSpecState(current, "timers")

\* The current state is terminated and its stack looked at afterwards.  With the
\* cache model and others waiting, a speculative state outlives its end.
EndThenUse ==
    LET p == st[current].pPerentState
        freed == /\ SpecTerminationError(current) = "none"
                 /\ ~(Caching /\ Len(st[p].specStates) > 1)
    IN  \/ ~freed /\ TerminateState(current, "timers")
        \/ freed /\ Fail("state freed")

\* Executor::executeCall of an external function: callExternalFunction ends the
\* state, and transferToBasicBlock moves it to the normal destination.
ExecuteInvoke == At("invoke") /\ EndThenUse

\* Instructions that go on with a state they have terminated.
ExecuteAgain == At("again") /\ TerminateState(current, "again")

EndAgain ==
    /\ phase = "again"
    /\ UNCHANGED <<current, haltExecution>>
    /\ \/ st[current].kind = "deleted" /\ Fail("state freed")
       \/ st[current].kind # "deleted" /\ TerminateState(current, "timers")
       \/ /\ st[current].kind # "deleted"
          /\ phase' = "timers"
          /\ UNCHANGED <<st, count, spCount, processTree, states, addedStates,
                         removedStates, spStates, spStatesDone, error>>

-----------------------------------------------------------------------------
(* Executor::fork and Executor::branch *)

\* The bounds of the model: k more states get a tag.
TagsLeft(k) == count + 2 * (k - 1) <= MaxTag
SpTagsLeft(k) == spCount + 2 * (k - 1) <= MaxSpTag

DepthExceeded(depth) == MaxDepth # 0 /\ MaxDepth <= depth

\* One fork without speculation: the path of Executor::fork for internal forks
\* and library code, and (cut = FALSE) one round of Executor::branch, which does
\* not look at --max-depth.  The new state gets the left child even when it is
\* speculative.
ForkState(t, cut, next) ==
    LET f == IF IsSpec(t) THEN spCount ELSE count
        n == st[t].ptreeNode
        base == [st[t] EXCEPT !.depth = @ + 1]
        tree == Split(processTree, n, f, t)
        deep == cut /\ DepthExceeded(base.depth)
        added == t \in addedStates
    IN  /\ IF IsSpec(t) THEN SpTagsLeft(1) ELSE TagsLeft(1)
        /\ \/ ~CanSplit(processTree, n) /\ Fail("split of inner node")
           \/ \* terminateStateEarly of the new state
              /\ CanSplit(processTree, n) /\ deep /\ IsSpec(t)
              /\ Fail("parent uninitialised")
           \/ /\ CanSplit(processTree, n) /\ (deep => ~IsSpec(t))
              /\ st' = [st EXCEPT
                          ![t] = IF deep /\ added THEN Freed(base)
                                 ELSE [base EXCEPT !.ptreeNode = RightChild(n)],
                          ![f] = IF deep THEN Freed(CopyOf(base))
                                 ELSE [CopyOf(base) EXCEPT !.ptreeNode = LeftChild(n)]]
              /\ count' = IF IsSpec(t) THEN count ELSE NextTag(count)
              /\ spCount' = IF IsSpec(t) THEN NextTag(spCount) ELSE spCount
              /\ processTree' =
                    CASE ~deep -> tree
                      [] deep /\ ~added -> Remove(tree, LeftChild(n))
                      [] deep /\ added -> Remove(Remove(tree, RightChild(n)), LeftChild(n))
              /\ addedStates' = IF deep THEN addedStates \ {t} ELSE addedStates \cup {f}
              /\ removedStates' = IF deep /\ ~added THEN Append(removedStates, t)
                                  ELSE removedStates
              /\ phase' = next
              /\ UNCHANGED <<states, spStates, spStatesDone, error>>

\* The solver proves one side of a branch: one speculative state, on the other.
ForkKnown ==
    LET t == current
        s == spCount
        p == Owner(t)
    IN  /\ SpTagsLeft(1)
        /\ \/ p = NoState /\ Fail("parent uninitialised")
           \/ /\ p # NoState
              /\ st' = [st EXCEPT ![t] = Stepped(t),
                                  ![s] = SpecBranch(Stepped(t), p),
                                  ![p].specStates = Append(st[p].specStates, s)]
              /\ spCount' = NextTag(spCount)
              /\ spStates' = spStates + 1
              /\ phase' = "timers"
              /\ UNCHANGED <<count, processTree, states, addedStates,
                             removedStates, spStatesDone, error>>

\* Both sides are feasible in a normal state: it takes the true side, a new
\* normal state the false side, and each has a speculative state on the other.
\* Those are created before the tree is split: their node is the split one.
ForkBoth ==
    LET t == current
        f == count
        sT == spCount
        sF == NextTag(sT)
        n == st[t].ptreeNode
        base == [Stepped(t) EXCEPT !.depth = @ + 1]
        new == [CopyOf(base) EXCEPT !.ptreeNode = LeftChild(n), !.specStates = <<sF>>]
        tree == Split(processTree, n, f, t)
        deep == DepthExceeded(base.depth)
    IN  /\ ~IsSpec(t)
        /\ TagsLeft(1) /\ SpTagsLeft(2)
        /\ \/ ~CanSplit(processTree, n) /\ Fail("split of inner node")
           \/ /\ CanSplit(processTree, n)
              /\ st' = [st EXCEPT
                          ![t] = [base EXCEPT !.ptreeNode = RightChild(n),
                                              !.specStates = Append(st[t].specStates, sT)],
                          ![f] = IF deep THEN Freed(new) ELSE new,
                          ![sT] = SpecBranch(base, t),
                          ![sF] = SpecBranch(base, f)]
              /\ count' = NextTag(count)
              /\ spCount' = NextTag(sF)
              /\ spStates' = spStates + 2
              /\ processTree' = IF deep THEN Remove(tree, LeftChild(n)) ELSE tree
              /\ addedStates' = IF deep THEN addedStates ELSE addedStates \cup {f}
              /\ removedStates' = IF deep THEN Append(removedStates, t) ELSE removedStates
              /\ phase' = "timers"
              /\ UNCHANGED <<states, spStatesDone, error>>

\* Both sides are feasible in a speculative state: three more speculative
\* states join the queue of its normal state, the false side last.
ForkBothSpec ==
    LET t == current
        p == Owner(t)
        f == spCount
        sT == NextTag(f)
        sF == NextTag(sT)
        base == [Stepped(t) EXCEPT !.depth = @ + 1]
    IN  /\ IsSpec(t)
        /\ SpTagsLeft(3)
        /\ \/ p = NoState /\ Fail("parent uninitialised")
           \/ \* terminateStateEarly pops t, then finds another head than f
              /\ p # NoState /\ DepthExceeded(base.depth)
              /\ Fail("not head of the queue")
           \/ /\ p # NoState /\ ~DepthExceeded(base.depth)
              /\ st' = [st EXCEPT
                          ![t] = base,
                          ![f] = [CopyOf(base) EXCEPT !.pPerentState = p],
                          ![sT] = SpecBranch(base, p),
                          ![sF] = SpecBranch(base, p),
                          ![p].specStates = Append(Append(Append(st[p].specStates, sT), sF), f)]
              /\ spCount' = NextTag(sF)
              /\ spStates' = spStates + 3
              /\ phase' = "timers"
              /\ UNCHANGED <<count, processTree, states, addedStates,
                             removedStates, spStatesDone, error>>

\* The solver gives up on a branch: fork terminates the state and returns none.
\* --max-instruction-time also limits the solver.
SolverTimeouts == Options \cap {"max-solver-time", "max-instruction-time"} # {}

\* Instruction::Br, which looks at the stack of the state after a timeout.
ExecuteBranch ==
    /\ At("br")
    /\ \/ SolverTimeouts /\ EndThenUse
       \/ Speculating /\ (ForkKnown \/ ForkBoth \/ ForkBothSpec)
       \/ ~Speculating /\ (StayAlive("timers") \/ ForkState(current, TRUE, "timers"))

\* A branch in library code; a speculative state does not enter it.
ExecuteLibrary ==
    /\ At("lib")
    /\ \/ IsSpec(current) /\ TerminateSpecState(current, "timers")
       \/ /\ ~IsSpec(current)
          /\ \/ SolverTimeouts /\ EndThenUse
             \/ StayAlive("timers")
             \/ ForkState(current, TRUE, "timers")

\* Internal forks: executeFree, executeAlloc, realloc, resolveExact and calls
\* through a symbolic function pointer.
ExecuteInternalFork == At("fork") /\ StayAlive("forks")

\* Executor::executeMemoryOperation when the access is not proved in bounds of one
\* object.  A speculative one-byte read goes on with a secret value.  A normal
\* state forks once for each object the address can be in, and what is in none
\* of them is ended.  With --only-detect-marked-secret, a state that touched no
\* marked object is passed to terminateSpecState, and only a speculative state
\* can have touched one.
ExecuteMemoryError ==
    /\ At("memerr")
    /\ \/ /\ "only-detect-marked-secret" \in Options
          /\ TerminateSpecState(current, "timers")
       \/ IsSpec(current) /\ (StayAlive("timers") \/ TerminateState(current, "timers"))
       \/ ~IsSpec(current) /\ StayAlive("forks")

\* Instruction::Switch and IndirectBr.
ExecuteSwitch ==
    /\ At("switch")
    /\ \/ IsSpec(current) /\ TerminateSpecState(current, "timers")
       \/ ~IsSpec(current) /\ StayAlive("branches")

\* The states an instruction that forks works on, and the one it made last: the
\* state a loop of internal forks goes on with.
Working == {current} \cup addedStates
IsLast(t) == \A u \in Working : u <= t

Holds(q, s) == \E i \in DOMAIN q : q[i] = s

\* The instruction has terminated t.
Ended(t) ==
    \/ Holds(removedStates, t)
    \/ st[t].kind = "deleted"
    \/ IsSpec(t) /\ st[t].pPerentState # NoState
                 /\ ~Holds(st[st[t].pPerentState].specStates, t)

\* The loops around internal forks: the last state is forked again, or the solver
\* or --max-depth ends the loop ...
ForkAgain ==
    /\ phase = "forks"
    /\ UNCHANGED <<current, haltExecution>>
    /\ \E t \in Working :
        /\ IsLast(t)
        /\ \/ ForkState(t, TRUE, IF DepthExceeded(st[t].depth + 1) THEN "ends" ELSE "forks")
           \/ SolverTimeouts /\ TerminateState(t, "ends")

\* ... a state it is done with is ended by a failed check (free of a local
\* object, write to a read-only one, no object at all, an invalid target) ...
EndOne ==
    /\ phase \in {"forks", "ends"}
    /\ UNCHANGED <<current, haltExecution>>
    /\ \E t \in Working :
        /\ ~Ended(t)
        /\ phase = "forks" => ~IsLast(t)
        /\ TerminateState(t, phase)

\* ... and the instruction is over after the loop and what follows it.
EndForks ==
    /\ phase \in {"forks", "ends"}
    /\ phase' = IF phase = "forks" THEN "ends" ELSE "timers"
    /\ UNCHANGED <<st, count, spCount, processTree, states, addedStates,
                   removedStates, current, haltExecution, spStates,
                   spStatesDone, error>>

\* Executor::branch: each round splits any of the states there are.
BranchAgain ==
    /\ phase = "branches"
    /\ UNCHANGED <<current, haltExecution>>
    /\ \E t \in Working : ForkState(t, FALSE, "branches")

\* IndirectBr ends the last state when the address can be none of the targets.
EndBranches ==
    /\ phase = "branches"
    /\ UNCHANGED <<current, haltExecution>>
    /\ \/ \E t \in Working : IsLast(t) /\ TerminateState(t, "timers")
       \/ /\ phase' = "timers"
          /\ UNCHANGED <<st, count, spCount, processTree, states, addedStates,
                         removedStates, spStates, spStatesDone, error>>

-----------------------------------------------------------------------------
(* The end of the iteration *)

\* Executor::processTimers: the instruction took longer than allowed, and the
\* current state was not terminated through removedStates; the timers that are
\* due fire afterwards, in the same call.
ProcessTimers ==
    /\ phase = "timers"
    /\ UNCHANGED current
    /\ haltExecution' \in {haltExecution, haltExecution \/ "max-time" \in Options}
    /\ \/ /\ phase' = "memory"
          /\ UNCHANGED <<st, count, spCount, processTree, states, addedStates,
                         removedStates, spStates, spStatesDone, error>>
       \/ /\ "max-instruction-time" \in Options
          /\ \A i \in DOMAIN removedStates : removedStates[i] # current
          /\ TerminateState(current, "memory")

\* Executor::checkMemoryUsage over the memory cap, killing one state (bound).
CheckMemoryUsage ==
    /\ phase = "memory"
    /\ UNCHANGED <<current, haltExecution>>
    /\ \/ /\ phase' = "update"
          /\ UNCHANGED <<st, count, spCount, processTree, states, addedStates,
                         removedStates, spStates, spStatesDone, error>>
       \/ /\ "max-memory" \in Options
          /\ \E t \in states : TerminateState(t, "update")

\* Executor::updateStates: the added states become known...
UpdateAdded ==
    /\ phase = "update"
    /\ states' = states \cup addedStates
    /\ addedStates' = {}
    /\ phase' = "remove"
    /\ UNCHANGED <<st, count, spCount, processTree, removedStates, current,
                   haltExecution, spStates, spStatesDone, error>>

\* ... and the removed ones are erased and deleted, one after the other.
UpdateRemoved ==
    /\ phase = "remove" /\ removedStates # <<>>
    /\ LET t == Head(removedStates)
           n == st[t].ptreeNode
       IN  \/ t \notin states /\ Fail("removed state unknown")
           \/ /\ t \in states /\ ~IsSpec(t) /\ ~CanRemove(processTree, n)
              /\ Fail("remove of inner node")
           \/ /\ t \in states
              /\ IsSpec(t) \/ CanRemove(processTree, n)
              /\ states' = states \ {t}
              /\ processTree' = IF IsSpec(t) THEN processTree ELSE Remove(processTree, n)
              /\ st' = [st EXCEPT ![t] = Freed(@)]
              /\ removedStates' = Tail(removedStates)
              /\ UNCHANGED <<count, spCount, addedStates, phase, spStates,
                             spStatesDone, error>>
    /\ UNCHANGED <<current, haltExecution>>

EndIteration ==
    /\ phase = "remove" /\ removedStates = <<>>
    /\ phase' = "select"
    /\ UNCHANGED <<st, count, spCount, processTree, states, addedStates,
                   removedStates, current, haltExecution, spStates,
                   spStatesDone, error>>

DumpsOnHalt == "dump-states-on-halt" \in Options

\* Executor::doDumpStates after the loop: every state left is terminated early.
DumpState ==
    /\ phase \in {"select", "dump"} /\ haltExecution /\ DumpsOnHalt
    /\ \E t \in states :
        /\ \A i \in DOMAIN removedStates : removedStates[i] # t
        /\ TerminateState(t, "dump")
    /\ UNCHANGED <<current, haltExecution>>

DumpDone ==
    /\ phase = "dump"
    /\ states = {removedStates[i] : i \in DOMAIN removedStates}
    /\ phase' = "update"
    /\ UNCHANGED <<st, count, spCount, processTree, states, addedStates,
                   removedStates, current, haltExecution, spStates,
                   spStatesDone, error>>

\* Executor::run has returned.
Finished == phase = "select" /\ (states = {} \/ (haltExecution /\ ~DumpsOnHalt))

\* The process was aborted, or has ended.
Stopped == (phase = "aborted" \/ Finished) /\ UNCHANGED vars

Execute ==
    \/ ExecuteClosedWindow \/ ExecutePlain \/ ExecuteExit \/ ExecuteFence
    \/ ExecuteBranch \/ ExecuteLibrary \/ ExecuteInternalFork
    \/ ExecuteSwitch \/ ExecuteMemoryError \/ ExecuteInvoke \/ ExecuteAgain

\* The further steps of an instruction that takes several.
Continue ==
    ForkAgain \/ EndOne \/ EndForks \/ BranchAgain \/ EndBranches \/ EndAgain

Step ==
    \/ SelectState \/ Execute \/ Continue \/ ProcessTimers \/ CheckMemoryUsage
    \/ UpdateAdded \/ UpdateRemoved \/ EndIteration \/ DumpState \/ DumpDone

Next == Step \/ Stopped

Spec == Init /\ [][Next]_vars

\* Executor::run keeps iterating, and the searcher flips coins on its way down
\* the tree: a state that can be reached again and again is reached again.
PickedWithin(p) ==
    /\ SelectState
    /\ phase' = "execute"
    /\ current' = p \/ (IsSpec(current') /\ st[current'].pPerentState = p)

Fairness ==
    /\ WF_vars(Step)
    /\ \A p \in NormalTags : SF_vars(PickedWithin(p))

FairSpec == Spec /\ Fairness

-----------------------------------------------------------------------------
(* Properties *)

\* The options and instructions for which the bookkeeping of speculative states
\* is sound.  LowerAtomicPass takes the fences out of the program before it is
\* executed; dropping any other conjunct leads to a failed assertion or to the
\* use of a freed state.
SafeConfig ==
    /\ MaxDepth = 0
    /\ NormalInsts \cap {"fence", "again"} = {}
    /\ SpecInsts \cap {"fork", "invoke", "again"} = {}
    /\ Options \cap {"max-instruction-time", "max-memory", "max-solver-time",
                     "only-detect-marked-secret"} = {}

\* No assertion of fork, terminateSpecState, selectSpState, updateStates or PTree
\* fails, and no freed or uninitialised state is used: by the searcher, by the
\* terminate functions, through pPerentState, or by an instruction that goes on
\* with a state it has ended (Br after a timeout, invoke, va_start, a call through
\* a symbolic function pointer).
AssertionsHold == error = "none"

\* The assertions one by one, for the configurations outside SafeConfig.
\* terminateSpecState is called for speculative states only
\* ("assert(state.isSpeculative)").
OnlySpeculativeTerminated == error # "not speculative"

\* A speculative state that terminates is the head of its queue
\* ("assert(perentState->selectSpState().tag == state.tag)").
TerminatesQueueHead == error # "not head of the queue"

\* Only a leaf of the process tree is split ("assert(n && !n->left && !n->right)").
SplitsLeavesOnly == error # "split of inner node"

\* A state to be removed is one the executor still knows
\* ("assert(it2!=states.end())" in updateStates).
RemovesKnownStates == error # "removed state unknown"

\* The state being executed is the head of the queue it waits in, or a normal
\* state whose speculative states have all been explored: what terminateSpecState
\* asserts when it pops the queue, and what selectState is there to ensure.
RunsHeadFirst ==
    phase = "execute" =>
        LET p == Owner(current)
        IN  /\ p \in Tags /\ st[p].kind = "normal"
            /\ IF IsSpec(current)
               THEN st[p].specStates # <<>> /\ Head(st[p].specStates) = current
               ELSE st[p].specStates = <<>>

NoDuplicates(q) == \A i, j \in DOMAIN q : q[i] = q[j] => i = j

\* Every speculative state that has not been freed is held exactly once, by the
\* normal state it was forked for: in the queue, or among the finished states
\* that wait for mergeSpecCacheState.  None is lost, none is held twice.
HeldOnce ==
    /\ \A p \in Tags : /\ NoDuplicates(st[p].specStates)
                       /\ NoDuplicates(st[p].finishedSpecStates)
    /\ \A s \in Tags : IsSpec(s) =>
        LET p == st[s].pPerentState
        IN  /\ p \in Tags /\ st[p].kind \in {"normal", "deleted"}
            /\ Holds(st[p].specStates, s) <=> ~Holds(st[p].finishedSpecStates, s)
            /\ \A q \in Tags \ {p} : /\ ~Holds(st[q].specStates, s)
                                     /\ ~Holds(st[q].finishedSpecStates, s)

WithinWindow(r) ==
    r.kind = "spec" =>
        /\ r.executed > 0 => r.executed < MaxSEW
        /\ r.executed + r.specInstCount <= MaxSEW

\* However deep speculative forks nest, a path executes fewer than MaxSEW
\* instructions after the first misprediction: specBranch hands on what is left
\* of the window instead of opening a new one.
SpeculationBounded == \A s \in Tags : WithinWindow(st[s])

\* The process tree has one leaf for each state that the executor knows or is
\* about to know, that leaf is the state's node, and inner nodes hold no state:
\* RandomPathSPSearcher can reach every state and only live ones.
TreeMatchesStates ==
    phase # "aborted" =>
        /\ WellFormed(processTree)
        /\ \A n \in DOMAIN processTree : processTree[n] # NoState =>
            /\ processTree[n] \in states \cup addedStates
            /\ st[processTree[n]].ptreeNode = n
        /\ \A t \in states \cup addedStates :
            /\ st[t].kind = "normal"
            /\ st[t].ptreeNode \in DOMAIN processTree
            /\ processTree[st[t].ptreeNode] = t

\* A normal state that ends by its own instruction is handed to
\* verifyCacheSideChannel only after each of its speculative states was explored
\* and merged.
VerifiedAfterSpeculation ==
    phase = "timers" /\ (\E i \in DOMAIN removedStates : removedStates[i] = current) =>
        st[current].specStates = <<>> /\ st[current].finishedSpecStates = <<>>

\* A normal state with speculative states in its queue gets rid of them all, or
\* is itself ended: it never waits for ever on speculation.
QueuesDrain ==
    \A p \in NormalTags :
        (st[p].kind = "normal" /\ st[p].specStates # <<>>)
            ~> (st[p].specStates = <<>> \/ st[p].kind = "deleted")

-----------------------------------------------------------------------------
(* The inductive invariants behind the safety properties *)

\* stepInstruction has charged the window of a speculative state before its
\* instruction is executed.
WindowCharged ==
    phase = "execute" /\ IsSpec(current) =>
        st[current].executed + st[current].specInstCount < MaxSEW

\* Tags that have not been handed out name no object.
FreshTags ==
    \A t \in Tags :
        (t % 2 = 0 /\ t >= count) \/ (t % 2 = 1 /\ t >= spCount) => st[t] = NoObject

\* What a state holds are speculative states of its own, each of them once, and
\* it holds finished ones only while others wait.
Owns(g, p) ==
    LET q == g[p].specStates
        f == g[p].finishedSpecStates
    IN  /\ \A i \in DOMAIN q : g[q[i]].kind = "spec" /\ g[q[i]].pPerentState = p
        /\ \A i \in DOMAIN f : g[f[i]].kind = "spec" /\ g[f[i]].pPerentState = p
        /\ \A i \in DOMAIN q, j \in DOMAIN f : q[i] # f[j]
        /\ NoDuplicates(q) /\ NoDuplicates(f)
        /\ g[p].kind = "normal" /\ q = <<>> => f = <<>>
        /\ g[p].kind \in {"none", "spec"} => q = <<>> /\ f = <<>>

OwnsHeld(g) == \A p \in Tags : Owns(g, p)

\* Every speculative state is held by the normal state it was forked for.
HeldByParent(g) ==
    \A s \in Tags : g[s].kind = "spec" =>
        LET p == g[s].pPerentState
        IN  /\ p \in Tags
            /\ Holds(g[p].specStates, s) \/ Holds(g[p].finishedSpecStates, s)

\* What the iteration has done so far.
IterationInv ==
    /\ error = "none" /\ phase \notin {"aborted", "again"}
    /\ NoDuplicates(removedStates)
    /\ \A i \in DOMAIN removedStates : removedStates[i] \in states
    /\ phase \in {"select", "execute", "branches"} => removedStates = <<>>
    /\ phase \in {"select", "execute", "remove", "dump"} => addedStates = {}
    /\ states \cap addedStates = {}
    /\ phase = "execute" => Owner(current) \in states
    /\ phase \in {"forks", "branches", "ends"} =>
        current \in states /\ st[current].specStates = <<>>
    /\ \A s \in Tags : IsSpec(s) => Speculating

SafeInv ==
    /\ TypeOK
    /\ FreshTags
    /\ OwnsHeld(st)
    /\ HeldByParent(st)
    /\ IterationInv
    /\ RunsHeadFirst
    /\ TreeMatchesStates
    /\ VerifiedAfterSpeculation

=============================================================================
