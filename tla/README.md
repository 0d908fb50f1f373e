# TLA+ models of Hetu's Python control layer

This directory holds TLA+ specifications of the Python layer of Hetu
(`src/python_refactor/hetu`) and the TLC configurations that check them.
The layer has three parts.

- The **context managers** of `hetu/__init__.py`. They push and pop
  process-wide context stacks of the native core `_hetu_core`: graph,
  merge-strategy, recompute, op, autocast, cpu-offload, profile and subgraph
  contexts.
- The **tensor-parallel modules** of `hetu/nn/modules/parallel_ds.py`:
  - `config2ds` turns a sharding config into a `DistributedStates`
    descriptor;
  - the column-parallel, row-parallel, vocabulary-parallel, embedding and
    layer-norm modules reshard their input to the layout they require, call
    a native operator, and reshard the output.
- The **binding code generator**'s `parse_args`
  (`hetu/_binding/codegen/args_bridge.py`). It turns an operator signature
  into positional getters.

The parts interact only through the native core: the layers build graph
nodes inside whatever graph, recompute and op contexts are open. Nothing
runs concurrently in this layer (spec §5). The hard behaviours are these:

- nesting of `with` blocks;
- `__enter__` methods that fail part-way;
- objects re-entered while open;
- the unfixed output order of native operators;
- arithmetic edge cases.

## Modules

| Module | Models | State / actions |
|---|---|---|
| `GraphContext` | `_GraphContext`, `_MergeStrategyContext` (`__init__.py` 14, 65-125, 165-191) | `cur_graph_contexts`, native `graphStack`, live graphs, each object's `graph` and `wrapped_context`, open `withStack`; one action per constructor, per `__enter__` branch, per `__exit__` branch, and `ExitMergeFails` for a native `merge_strategy` that raises after the pop and the remove |
| `RecomputeContext` | `_RecomputeContext` (`__init__.py` 15, 193-233) | `cur_recompute_contexts`, native `recomputeStack`, `multi_recompute`; `Construct`, `Enter`, `EnterFails` (an assertion fails after the append), `Exit`. The merge of lines 201-224 is `Merge`, with `RECURSIVE PipelineNum`, checked against the reference `Union` |
| `OpContexts` | `_OpContext`, `_AutocastContext`, `_CPUOffloadContext`, `_ProfileContex`, `_SubGraphContext` (`__init__.py` 17-63, 127-145, 235-276) | one native stack per op-context field and per other context kind; `Construct` (argument validation), `Enter`, `Exit` |
| `ParallelDS` | `config2ds`, `parallel_data_provider` (`parallel_ds.py` 13-55) and the native descriptor operations | constant operators: `Config2DS`, `Config2DSFails`, `LocalSlice` (the per-dimension slice of `parallel_data_provider`, from `ShardStart`/`ShardStop`, whose bound `ShardBound` is `int(k * (size / splits))` in floats), `DupGroupIndex`, `LinearOut`, `LookupOut`, `Comm` |
| `FloatArith` | the float arithmetic of `parallel_data_provider` (`parallel_ds.py` 21-22) | IEEE 754 binary64 for non-negative operands: a float is a 53-digit binary significand and an exponent; `FloatDiv` (int / int) and `FloatMulInt` (int * float) round the exact result to nearest, ties to even; `Trunc` is `int()` |
| `DataProvider` | `parallel_data_provider`, `get_device_index` (`parallel_ds.py` 13-33) | the batch's `ds` and `shape`, fixed in `Init`, and the slice `local` each rank holds; `Provide(r)`: rank r takes `GetDeviceIndex(r)` and cuts its slice, in any order across ranks |
| `ParallelLayers` | the five modules of `parallel_ds.py` (57-295) | built layers, each rank's `vocab_start_index`, the layout `act` of the activation the program holds, and a record `last` of the last forward; one constructor and one forward action per module class |
| `LayerContract` | what the layers promise about layouts | abstract `Build`, `Input`, `Apply`; `ParallelLayers` implements it (`ContractSpec`, via `INSTANCE ... WITH`) |
| `ArgsBridge` | `ArgType`, `parse_args`, `get_arg_getter_fn` (`args_bridge.py` 5-297) | `ArgTypeStrs` holds every `*_STR` tuple and `TypeTable` its inverse (`init_mapping`); `ParseArg` is one loop iteration (lines 126-172), `Loop` is `RECURSIVE`, `ParseArgs` is the whole call; one `Parse` step evaluates it on every bounded input |

`MC*.tla` modules give the constants. Each `.cfg` names one run.

### Abstractions

- A Python `with` block is modelled by `withStack`. The innermost block
  exits first. A block whose `__enter__` raised never opens and never
  exits. Every exit is the code's `__exit__`, exceptions included.
- Graph names, prefixes and `num_strategy` are reduced to graph identities:
  a fresh graph is named after its context, and an existing graph is the
  default graph. `str(graph)` equality is taken as identity.
- **Descriptors** (`ParallelDS`): a descriptor is a record of split
  factors, order and zero flag.
  - Factors of 1 are dropped, as `parallel_ds.py` 180-182 implies
    (dp=8, tp=1 "is" dup).
  - `check_equal` compares factors and order.
  - Native `linear` and `embedding_lookup` return every possible order of
    their output dimensions. The order is fixed in the native core, not in
    this repository.
  - `comm` returns its target layout.
  - These native operations are marked `spec_modelled` in `PROJECT.json`.
- **Signatures** (`ArgsBridge`): a signature is the sequence of
  (type, name, default) triples that `split(", ")` and `split(" ")`
  produce. The regular expressions are given as the sets of enumerated
  strings they match (`NameMatches`, ...).
- **Op contexts** (`OpContexts`): `push_op_ctx` is taken to push only the
  fields that are not None, since `pop_op_ctx(pop_x = x is not None)` can
  only balance that way. This is an assumption about the native core. No
  run checks whether the stacks balance, because under this assumption
  they balance by definition.

## Runs

| Run | Expect | Checks |
|---|---|---|
| `graph_scoped` | pass | `StackMirror`: the Python list and the native stack agree, and no deleted graph is on the stack. `ScopedExit` (action property): each exit restores the stack of its entry, also when `merge_strategy` raises (its mutant calls the merge before the pop) |
| `graph_tmpleak` | violation | `TmpGraphReclaimed`: a tmp graph nested in another graph block is never deleted (`__init__.py` 115) |
| `graph_merge_reenter` | violation | `StackMirror`: a merge context entered again inside itself, below a graph block, passes the wrap check, which reads only `cur_graph_contexts[0]` (`__init__.py` 176); its inner exit deletes the temporary graph the outer block still has pushed |
| `graph_reenter` | violation | `ScopedExit`: entering an open object again overwrites `wrapped_context`, so the outer exit does not pop (`__init__.py` 107) |
| `recompute` | pass | `MergeIsUnion`: every pushed setting is the stage-wise union of the listed contexts' settings |
| `recompute_phantom` | violation | `EffectiveIsOpenBlocks`: a context whose `__enter__` failed stays listed and its settings leak into later blocks (`__init__.py` 198) |
| `opctx` | pass | `TypeOK`: only objects that `_OpContext.__init__` accepts exist: bool and non-int stream indices and non-tensor extra deps raise (`__init__.py` 28-40) |
| `layers` | pass | `NoBiasOnPartial`, `PureDPNoComm`, `ActShardsTile` (every element of a 6 × 4 array fed in the activation's layout is held by exactly N / (split product) devices: the slice loop over the layout's order tiles it, 3 columns split 4 ways included; at these factors the float bounds lose nothing, see `data_float`). `TypeOK` also requires every `vocab_start_index` to be a row of the table, and the refinement `ContractSpec` |
| `layers_vocab` | violation | `VocabWindowsPartition`: spec §8 says the windows partition `[0, num_embeddings)`. The windows start at `num_embeddings // tp * dup_group_idx` and are `num_embeddings // tp` wide, so with 6 rows and tp = 4 rows 4 and 5 are in no window (`parallel_ds.py` 129) |
| `args` | pass | `ParsedIsPositional`: getters, `self_pos` and `out_pos` address the right positions. `OptionalsTrail`: required arguments never follow optional ones |
| `args_pattern` | violation | `AcceptedMatchesPattern`: the pattern check at `args_bridge.py` 120 is vacuous |
| `data_float` | violation | `BatchCovered`: once every rank has cut its slice, every row of the batch is held as often as the layout duplicates it. With 7 ranks and 61 rows, `int(7 * (61 / 7))` is 60, so row 60 goes to no rank (`parallel_ds.py` 23) |

Every property of a passing run has a mutant in `PROJECT.json`: a plausible
bug in the mapped definition, defined just before it, that TLC shows
violates the property.

## Bounds

- **Graph contexts:** two plain contexts and two merge contexts (each pair
  symmetric), one tmp context, and nesting depth 3. That is enough for a
  tmp or merge block inside a graph block, a merge inside a merge, a
  failed merge followed by re-entry, and re-entry after a tmp graph was
  deleted. Depth 3 is also the least that reaches a merge context entered
  twice below a graph block (`graph_merge_reenter`).
- **Recompute:** three contexts, and six settings covering:
  - one and two strategies;
  - single-entry and per-stage lists;
  - lengths 1, 2 and 3, so both assertions fail in some nest.

  The list bound is 4. The run sets `CHECK_DEADLOCK FALSE`: the only
  deadlocks are at that bound, and a program may stop anywhere.
- **Op contexts:** three objects, depth 3, stream indices `None`, 0, 1 and
  a bool.
- **Layers:** the passing run has 6 devices. The layers run at these
  degrees:
  - column: dp = 2, tp = 3 and dp = 6, tp = 1;
  - row: dp = 3, tp = 2 and dp = 1, tp = 6;
  - vocab: dp = 2, tp = 3 and dp = 6, tp = 1;
  - a layer norm.

  There are five input layouts, split 6, 3 or 2 ways. `NumEmbeddings` is
  12. A dimension of 4 columns split 3 ways gives the bound 4 / 3, which
  is not an exact binary fraction; that never happens on 4 devices. The
  vocab violation run keeps 4 devices, with every split of 4, and
  `NumEmbeddings` 6, so tp = 4 does not divide it.
- **Data provider:** a group of 7 ranks and one rank of another pipeline
  stage, a batch split 7 ways or duplicated, and every batch size from 1
  to 64. Among sizes below 100,000, 7 is the smallest split factor whose
  float bounds lose a row, and 61 is the smallest size that loses one. The run sets `CHECK_DEADLOCK FALSE`: the
  ranks stop once each has its slice.
- **Floats:** `FloatArith` gives the same `int(i * (n / s))` as CPython
  for all n ≤ 130, s ≤ 24 and 0 ≤ i ≤ s (42,444 cases, compared outside
  the project's runs). Over that range Python differs from exact
  `i * n // s` in 53 cases; TLC finds the same 53.
- **Signatures:** all signatures of up to three arguments over three types
  (one unknown), three names (`x`, `self`, `out`) and defaults
  {none, `None`, `0`}. That is 654,080 calls. The run sets
  `CHECK_DEADLOCK FALSE`, because `parse_args` is called once and
  returns.

## Fairness

None is assumed, and no liveness property is checked. Every operation of
the Python layer is one synchronous step that either completes or raises;
nothing waits, retries or runs in the background (spec §5). Whether a
with-block ever ends is up to the user program, not this code, so a
fairness condition on exits would assume the program rather than check
the code.

## Composition

The context modules are not composed into one specification. The graph,
recompute and op contexts keep separate Python lists and separate native
stacks, and no `__enter__` or `__exit__` reads another kind's state.
A program nesting blocks of several kinds is the interleaving of the
models, and each stack's properties hold on their own. The layers build
operators into whatever contexts are open through the native core only;
that link is outside this repository.

## Not modelled

- `run_level` (a pure lookup table).
- `nn/modules/__init__.py` (imports only).
- `examples/elastic/helper.py` (a print script).
- Numpy copying and `take` in `parallel_data_provider`: a slice is its
  index ranges. A rank outside the group gets index -1 from
  `get_device_index`. What `map_to_local_data` and the layers then do
  with -1 is decided in the native core, so such a rank holds no slice in
  `DataProvider`.
- `num_strategy` (graph and merge contexts) and `ori_model` parameter
  sharing (layers): both are decided in the native core.
- The project has the 12 runs its check allows. `data_float` took the
  place of a run showing that `parse_args` rejects every kernel returning
  `None` or a list (`args_bridge.py` 112-115), although its message
  blames only kernels that assign `out`. A unit test shows that at once;
  the lost row needs a split of 7 and a size such as 61. Likewise
  `graph_merge_reenter` took the place of a run showing that an empty
  signature, which `args_pattern` allows, is rejected because
  `"".split(", ")` yields one empty argument (`args_bridge.py` 126-129),
  which a codegen run of any argument-less operator shows at once. For
  the same reason the row layer's silent reshard (below) is not a run.
- Tensor values and parameter initialisation.
- The warning on resharding: `HtRowParallelLinear.forward` (line 287)
  reshards its input without the warning the other layers print, contrary
  to spec §4.2. It is a print statement a unit test observes directly.
- `autocast()` without arguments: the second definition of `autocast`
  (line 144) replaces the first, so the call raises `TypeError`. It is a
  plain Python error and a unit test shows it directly.

## Plan for later work

- `ArgsBridge` over more type strings per run, which the run budget
  allows (1.3M states in 13 s).
- The rank of another pipeline stage in `DataProvider`, once the native
  meaning of index -1 is known.
- A passing `DataProvider` run over power-of-two groups, if a run becomes
  free.
