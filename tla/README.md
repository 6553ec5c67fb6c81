# KLEESpectre: specifications and proofs

KLEESpectre (`src/klee`) is the symbolic executor KLEE extended with speculative
paths. At each conditional branch of user code it also follows the side a
mispredicting processor would take, for a bounded number of instructions, and
keeps a symbolic model of the data cache on both kinds of paths. This directory
holds TLA+ models of the program, TLC runs that check small instances of them
and TLAPS proofs that hold for every instance.

## 1. Inventory

| Part | Source (under `src/klee`) | State | Operations |
|---|---|---|---|
| Executor loop | `lib/Core/Executor.cpp` | `states`, `addedStates`, `removedStates`, `haltExecution`, process tree | `run`, `stepInstruction`, `executeInstruction`, `fork`, `branch`, `updateStates`, `checkMemoryUsage`, `doDumpStates`, `terminateState`, `terminateSpecState`, `terminateStateEarly/OnExit/OnError` |
| Execution states | `lib/Core/ExecutionState.cpp` | `isSpeculative`, `specInstCount`, `tag`, `pPerentState`, `specStates` (queue), `finishedSpecStates`, `depth`, `ptreeNode` | constructors, `branch`, `specBranch`, `addSpeState`, `selectSpState`, `removeHeadState`, `merge`, destructor |
| Process tree | `lib/Core/PTree.cpp` | binary tree, data pointers | `split`, `remove` |
| Searchers | `lib/Core/Searcher.cpp`, `UserSearcher.cpp` | their own lists or trees of states | `selectState`, `update`; `RandomPathSPSearcher` is the one for speculation |
| Timers and limits | `lib/Core/ExecutorTimers.cpp` | list of timers | `processTimers`, `HaltTimer` |
| Memory | `lib/Core/AddressSpace.cpp`, `Memory.cpp`, `MemoryManager.cpp` | map of objects, `cowKey`, owners | `bindObject`, `unbindObject`, `getWriteable`, `resolveOne`, `resolve`, `copyIn/OutConcretes` |
| Cache model | `lib/Core/CacheState.cpp`, `CacheUtil.cpp` | accesses, targets, constraints | `load`, `store`, `handleAccess`, `mergeSpecCacheState`, `verifyCacheSideChannel` |
| Spectre recorder | `lib/Core/SpectreRecorder.cpp` | tables of branches, reads, leaks | `recordBR`, `recordRS`, `recordLS`, `dump` |
| State merging | `lib/Core/MergeHandler.cpp` | open groups, paused states | open, close, release |
| Expressions and constraints | `lib/Expr` | hash-consed trees, sensitive flag | builders, `simplifyExpr`, `addConstraint` |
| Solver chain | `lib/Solver`, `lib/Core/TimingSolver.cpp` | query caches | `evaluate`, `computeValidity`, `computeTruth`, `computeValue` |
| Seeding | `lib/Core/SeedInfo.cpp` | `seedMap` | `patchSeed` |
| Special functions, external calls, statistics, module passes, POSIX runtime, printers, tools | `lib/Core`, `lib/Module`, `runtime`, `tools` | see `PROJECT.json` | |

How the parts interact. `Executor::run` asks the searcher for a state, charges it
for an instruction, executes it, lets the timers and the memory cap act, and
finally applies the additions and removals that piled up. `fork` is the meeting
point: it asks the solver, creates states, queues the speculative ones on their
normal parent, and splits the process tree on which the searcher will walk.
Ending a state has two forms. A normal state goes through `removedStates` and
leaves the tree in `updateStates`; a speculative state is popped from its
parent's queue at once.

What makes it hard. The program is sequential; the difficulty is in the long
chain of steps between the moment a state is created, queued, run, ended and
freed, and in the many places that end one. Options add further places (time and
memory limits, depth, error handling) that end a state at a point the queue
discipline did not foresee.

What must be true: the assertions in the code hold; the state that runs is the
head of its queue; no speculative state is lost, held twice or used after it is
freed; the tree and the set of states agree; speculation is bounded by the
window however it nests; a normal state is verified only after all its
speculative states were explored; every queue is eventually drained. Memory that
states share is never seen to be shared, and is freed when nothing refers to it.

## 2. Modules

| Module | Models |
|---|---|
| `PTree` | the process tree as a function from nodes (paths of 0 and 1) to data; `Split`, `Remove`, and where the searcher's walk can end |
| `SpecExecutor` | the executor loop, execution states and their queues, `RandomPathSPSearcher`, timers and limits; uses `PTree` |
| `MCSpecExecutor` | values of the constants for TLC |
| `PTreeProofs` | lemmas: splitting and removing keep a tree well formed, and the walk ends at a state |
| `SpecExecutorProofs` | type correctness and the bound on speculation, any configuration |
| `SpecSafetyProofs` | the inductive invariant `SafeInv` and its consequences, safe configurations |
| `AddressSpace` | copy-on-write address spaces, the reference counts of memory objects, and the operations of executor and state that allocate, free, write, copy and merge |
| `PrivateMemory` | what address spaces promise: every state has a memory of its own |
| `MCAddressSpace` | values of the constants for TLC |
| `AddressSpaceLemmas` | the inductive invariant `IInv`; lemmas on keys, maps and counts; the actions that unbind |
| `AddressSpaceSteps` | the actions that bind, write and branch keep `IInv` |
| `AddressSpaceProofs` | merging; the theorems; the refinement of `PrivateMemory` |

`SpecExecutor` and `AddressSpace` are not composed yet: the first abstracts what
states compute, the second in which order they run.

### Correspondence: SpecExecutor and PTree

State. `st` maps a tag to the `ExecutionState` object with that tag: `kind` is
`isSpeculative` together with whether the object exists or was freed, and the
other fields keep their names. `executed` is a history field: the instructions run
since the misprediction. `count` and `spCount` are the two static counters; normal
tags are even and speculative tags odd. `phase` is the position inside one
iteration of `Executor::run`, `current` the state of the iteration, and `error` the
assertion that failed or the invalid access that was made. A process that fails an
assertion stops (`phase = "aborted"`). An instruction that forks or ends states more
than once takes several steps, in the phases `forks`, `branches`, `ends` and `again`;
nothing else runs in between.

Environment. The program under analysis, the solver and the clock are arbitrary:
which class of instruction comes next, whether the solver proves a side of a
branch, and whether a timer has expired are nondeterministic choices. Instruction
classes: `br` (user-code branch), `lib` (branch in library code), `fork` (the
`isInternal` forks of `executeFree`, `executeAlloc`, `resolveExact`, symbolic function
pointers), `switch` (with `indirectbr`), `exit` (the state ends), `fence`, `memerr` (the
path of `executeMemoryOperation` without a single object in bounds), `invoke` (of an
external function that ends the state), `again` (goes on with a state it has ended:
the stores of `va_start`, a symbolic function pointer that can be invalid) and `plain`
(the rest). The constants `NormalInsts` and
`SpecInsts` say which classes occur on normal and on speculative paths, `Options`
which command-line options are on.

Actions, in the order of an iteration:

| Action | Code |
|---|---|
| `SelectState` | `RandomPathSPSearcher::selectState`, `stepInstruction` |
| `ExecuteClosedWindow` | the window check at the head of `executeInstruction` |
| `ExecutePlain`, `ExecuteExit`, `ExecuteFence` | instructions that go on, end the state, or are fences |
| `ExecuteBranch` (`ForkKnown`, `ForkBoth`, `ForkBothSpec`, `EndThenUse`, `ForkState`) | `Instruction::Br` with the paths of `fork`, the solver's timeout among them |
| `ExecuteLibrary` | a branch in library code: the plain path of `fork` |
| `ExecuteInternalFork`, then `ForkAgain`, `EndOne`, `EndForks` | the loops around internal forks: the state made last is forked again, states the loop is done with may be ended by a failed check |
| `ExecuteMemoryError`, then the same three | `executeMemoryOperation` over several objects, and its error path |
| `ExecuteSwitch`, then `BranchAgain`, `EndBranches` | `Switch` and `IndirectBr`: `Executor::branch` splits a random state in each round and does not look at `--max-depth` |
| `ExecuteInvoke`, `ExecuteAgain`, `EndAgain` | instructions that use a state they have ended |
| `ProcessTimers`, `CheckMemoryUsage` | time and memory limits |
| `UpdateAdded`, `UpdateRemoved`, `EndIteration` | `updateStates` |
| `DumpState`, `DumpDone` | `doDumpStates` after a halt |

### Correspondence: AddressSpace

State. A memory object is its address. Its `ObjectState`s are the cells
`heap[o][c]`, with `copyOnWriteOwner`, `readOnly` and the contents, abstracted to one
value. `objects[s]` is the `MemoryMap` of state `s`, `cowKey[s]` its key.
`allocas[s]` holds the objects on the allocas lists of all its frames, and
`symbolics[s]` says how often each object is on `ExecutionState::symbolics`.
`refCount` counts in each object; 0 means that the object is deleted and `malloc` may
return the address again. The nodes `ImmutableMap`s share are abstracted: an `ObjectState`
goes when no map has it.

| Action | Code |
|---|---|
| `ExecuteAlloc`, `ExecuteRealloc`, `ExecuteFree` | `executeAlloc`, `handleRealloc`, `executeFree`; freeing an alloca or a global ends the state, reallocating one does not |
| `PopFrame` | `ExecutionState::popFrame`; for an alloca that `realloc` has unbound and that was deleted, the address comes from freed memory and any object may be unbound |
| `ExecuteMakeSymbolic` | `handleMakeSymbolic`, `executeMakeSymbolic`, any number of times for an object |
| `ExecuteStore` | the store of `executeMemoryOperation` with one resolution |
| `StoreOneOfMany` | one round of its loop over several resolutions: the fork, and the write to the `ObjectState` resolved before it |
| `CallExternal` | `callExternalFunction`: objects the call changed are copied in; a change of a read-only one ends the state, with any of the others copied in before |
| `Branch` | the copy constructors under `branch` and `specBranch` |
| `Merge` | the memory half of `ExecutionState::merge`, after which `b` ends |
| `Terminate` | `~ExecutionState`, at the moment the state is given up |

Every action ends in `Release`: constructors, destructors and entries of
`symbolics` change the counts, and cells without a holder are destroyed.

## 3. What is checked

Passing runs:

| Run | Question | Bounds |
|---|---|---|
| `spec_safe` | does the bookkeeping hold together in a safe configuration with the cache model: types, assertions, head first, held once, tree, verification order | 3 normal and 4 speculative states, window 2 |
| `spec_nested` | is nested speculation bounded, and are no states lost, without the cache model | 2 normal and 5 speculative states, window 3 |
| `spec_all` | does the window bound speculation with every option and instruction class, failures included | 2 normal and 4 speculative states, window 2, depth limit 2 |
| `spec_live` | is every queue drained | 2 normal and 4 speculative states, window 2 |
| `spec_plain` | is the loop sound without speculation, with several forks in an instruction, solver timeouts, `--max-depth` and `--max-instruction-time` | 5 normal states, depth limit 3 |
| `memory_sharing` | do keys tell what is shared, and are counts right | 2 states, 2 objects, 3 cells each, keys up to 3, 2 entries of `symbolics` per object and state |
| `memory_private` | does copy-on-write implement a private memory per state, and does `merge` meet only writeable objects | 3 states, a global and a constant, 2 values, 3 cells each, keys up to 3, 1 entry of `symbolics` |

The bounds allow each fork path at least twice: two normal forks, so that a
speculative state can have an outdated tree node; a fork inside speculation, which
creates three states at once; and a window that closes before as well as after
another fork. `spec_plain` has room for an instruction that forks several times and
for another fork before or after it. For memory, `MaxKey` 3 allows two copies in a row,
so that a state can have the key of another while their objects come from either side
of a copy. In `memory_sharing` one cell more than there are states leaves room for the
copy made before the old cell is dropped; `memory_private` has as many cells as states,
and a write that needs a copy (`CanWrite`) waits while all three differ. Three states
see a write go to one of three sharers; two objects see an alloca and a heap object, or
a global and a constant in one external call. `FreeAddress` bounds what `malloc`
returns: not the address of a global, nor of an object still on a list of allocas.
`MCSymmetry` permutes all states and the objects that are not global; `First` is named
in `Init` only, which does not matter for what is reachable up to a permutation.

*Safe configurations.* `SafeConfig` says which options and instructions leave the
bookkeeping sound: no `--max-depth`, `--max-instruction-time`, `--max-memory`,
`--max-solver-time` or `--only-detect-marked-secret`; on speculative paths no internal
fork and no invoke of an external function that ends the state; on either kind of path
no instruction that ends its state twice; and on normal paths no fence
(`LowerAtomicPass` erases fences from every program before it runs). `--max-memory` is
2000 unless the command line says otherwise (`Executor.cpp:363`), so a safe
configuration needs `--max-memory=0`, and KLEE's defaults are not one. The violation
runs show, one by one, that conditions are needed:

| Run | Assertion that fails |
|---|---|
| `spec_max_depth` | `Executor.cpp:3442`, the terminated state is not the head of its queue |
| `spec_instruction_time` | the same, after `processTimers` ends a state a second time |
| `spec_internal_fork` | `PTree.cpp:30`, an inner node is split |
| `spec_max_memory` | `Executor.cpp:3046`, a state is removed twice |
| `spec_marked_secret` | `Executor.cpp:3429`, a normal state is ended as a speculative one |

`spec_plain` shows that the first two are effects of speculation only. The command
the repository's README recommends sets `--max-memory` and
`--max-instruction-time`, so these configurations are in use.
`--max-solver-time` is excluded because `Instruction::Br` reads `state.stack` after
`fork` has ended the state (`Executor.cpp:1956`), invokes on speculative paths because
`executeCall` moves the state to the next block after `callExternalFunction` may have
destroyed it (`Executor.cpp:1617`), and the class `again` because a state that enters
`removedStates` twice fails the assertion of `updateStates`. `spec_all` explores these
steps. "No freed state is used" in `AssertionsHold` means the uses the model has: by the
searcher, by the terminate functions, through `pPerentState`, and the three above.

*The window.* The count is charged before the instruction and checked for 0 before
the instruction is executed, so a path executes at most `MaxSEW - 1` instructions
after a misprediction; `SpeculationBounded` states exactly that.

*Fairness.* `WF_vars(Step)`: the loop of `Executor::run` goes on while it can.
`SF_vars(PickedWithin(p))`: `RandomPathSPSearcher` flips a coin at each inner node,
so a normal state that is in the tree again and again is reached again with
probability one. `QueuesDrain` needs both: each pick within `p` runs the head of its
queue, and the window ends every speculative path. The cap on tags also caps the
forks; the argument for unbounded programs is the window, each state of which forks
at most three others with a smaller window.

## 4. What is proved

For every value of the constants (any number of states, any window):

* `TypeCorrect`: `Spec => []TypeOK`.
* `WindowBounds`: `Spec => []SpeculationBounded`, in every configuration. The
  inductive invariant adds `WindowCharged`: while an instruction executes, its state
  has already paid for it.
* `SafeInvariant`: `SafeConfig` implies `Spec => []SafeInv`, and from it
  `AssertionsNeverFail`, `HeadFirst`, `AllHeldOnce`, `TreeMatches` and `VerifiedLast`.

`SafeInv` strengthens the properties in four ways. `OwnsHeld` and `HeldByParent` say
who holds which speculative state from both ends, so that popping and appending
can be followed; `OwnsHeld` also says that finished states are kept only while
others wait. `FreshTags` says that tags not yet handed out name no object, so
that a fork overwrites nothing. `IterationInv` says which sets can be non-empty in
which phase, and that no state is removed twice. `TreeMatchesStates` is inductive
together with the lemmas of `PTreeProofs`: splitting a leaf and removing a leaf
with its childless ancestors keep the tree well formed.
The proof has one lemma per action, and under it one step for the queues, one for
the tags and one for the tree. TLC confirmed `SafeInv` on the bounds of `spec_safe`
and `spec_nested`.

For address spaces, for any number of states, objects, cells and values:

* `Invariant`: `Spec => [](TypeOK /\ IInv)`, and from it `OwnersStayUpToKey` (the
  invariant documented in `AddressSpace.h`), `OwnersStayAlone`, `CountsStayRight`
  and `MergesStayWriteable`.
* `SharingIsNotSeen`: `Spec => PrivateMemories`, the refinement: the memory of a
  state is the contents of the cells its map names, and every action is one of
  `PrivateMemory` or leaves all memories as they are.

`OwnersAlone` is not inductive: a copy makes every object of a state shared, also
those the state owned, and only `OwnersUpToKey` says that the raised keys are above
their owners. `KeyInv` is the two together. A copy keeps it because it raises both
keys (`CopyKeeps`); every other action changes the map of one state, and binds
only fresh cells or writes only to cells it owns (`Local`, `LocalKeeps`).
`ReadOnlyAsAdded` says that the read-only objects are the constants, and `Placed`
that a state which does not exist has no map and that two live states with a constant
have the same `ObjectState` of it; they give `MergesWriteableOnly`.
`CountsReferences` is its own strengthening, by arithmetic on cardinalities
(`ReleaseCounts`). TLC confirmed `IInv` on the bounds of `memory_sharing`.

The assumptions on constants are `ConstantsAssumption` of each module (types and
finiteness), and `SelectAssumption`: merging two equal contents gives the same
contents. Liveness (`QueuesDrain`) is model-checked only: fairness is out of the prover's reach.

## 5. Not modelled

In `SpecExecutor`: seeding and replay; `pauseState` and `continueState` (merging);
`--exit-on-error-type`; the instruction limit (it halts like the timer); the options
`--max-forks` and `--max-static-*-pct`, which are off by default;
more than one state killed by the memory cap at a time; searchers other than `RandomPathSPSearcher`; the values that states compute.

In `AddressSpace`: the bytes of an `ObjectState` with their concrete, symbolic and
flushed masks; how an address is resolved to objects; the tests of `merge` on
program counter, stack and constraints; the exit of the process when `errno` cannot
be resolved after an external call; `klee_define_fixed_object`; `doImpliedValueConcretization`, which aborts at its
first line. Loads change no memory and have no action.

Parts of the program with no module are listed in `PROJECT.json` with the reason.

## 6. Plan

In this order:

1. `PTree`, `SpecExecutor`, their runs and proofs (done).
2. `AddressSpace` and `PrivateMemory`, their runs and proofs (done). Left of it:
   the byte masks of `ObjectState` against a plain array of bytes.
3. `SpectreRecorder` and `CacheState`: the tables and what is reported; the
   conflict constraints against an LRU cache, over all short access sequences.
4. `Searchers`: each searcher's `update` protocol against the set of states.
5. `MergeHandler`: merge groups with paused states; no state is left paused.
6. `Solver`: the caching solvers against one without a cache.
7. `Constraints` and sensitivity: propagation of the sensitive flag.
8. POSIX runtime: the table of file descriptors.
9. Composition: `SpecExecutor` with `AddressSpace` and the cache model, where a
   speculative state's accesses are merged into its parent; a short abstract
   specification of the speculation discipline that `SpecExecutor` implements.
