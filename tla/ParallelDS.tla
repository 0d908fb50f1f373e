----------------------------- MODULE ParallelDS -----------------------------
(***************************************************************************)
(* Distributed-states descriptors and the config translator of            *)
(* hetu/nn/modules/parallel_ds.py, and the native descriptor operations   *)
(* the layers rely on (hetu.DistributedStates, check_equal,               *)
(* map_to_local_data, get_dup_group_index, linear, embedding_lookup,      *)
(* comm), which live in _hetu_core and are modelled from the spec.        *)
(*                                                                         *)
(* A descriptor maps tensor dimensions to split factors; Dup (-1) is the  *)
(* duplication factor and Partial (-2) the number of unreduced partial    *)
(* sums.  The order lists the dimensions from the outermost to the        *)
(* innermost device coordinate.                                            *)
(***************************************************************************)
EXTENDS Integers, Sequences, SequencesExt, FiniteSets, Functions, FloatArith

CONSTANTS
  N,      \* number of devices in a layer's device group
  Absent  \* a config key that is not present (model value)

Partial == -2
Dup == -1
Dims == {Partial, Dup, 0, 1}


\* A sharding config (the ds_parallel_config dict): split maps tensor
\* dimensions to factors, ndev is len(config['device_group']).
ConfigType == [type : {"placeholder", "variable", "other"},
               split : UNION {[D -> 1..N] : D \in SUBSET {0, 1}},
               dup : 1..N, ndev : 1..N, zero : BOOLEAN \cup {Absent}]

ProductOf(states) == FoldFunction(LAMBDA x, y : x * y, 1, states)

\* hetu.DistributedStates(num_devices, states, order, zero): the product of
\* the factors must be the device count (spec, DATA MODEL).  A factor of 1
\* is no split at all (parallel_ds.py lines 180-182: with dp=8, tp=1 the
\* weight ds_dup_split0 "is" ds_dup), so such entries are dropped.
DSValid(n, states) == ProductOf(states) = n

DistributedStates(states, order, zero) ==
  [states |-> RestrictValues(states, LAMBDA v : v > 1),
   order  |-> SelectSeq(order, LAMBDA d : states[d] > 1),
   zero   |-> zero]

\* check_equal: structural equality of the split factors and the order.
CheckEqual(a, b) == a.states = b.states /\ a.order = b.order

Factor(ds, d) == IF d \in DOMAIN ds.states THEN ds.states[d] ELSE 1

-----------------------------------------------------------------------------
(* config2ds (lines 36-55)                                                  *)

SortedKeys(split) == SetToSortSeq(DOMAIN split, <)

Config2DSStates(cfg) ==
  [d \in {Dup} \cup DOMAIN cfg.split |-> IF d = Dup THEN cfg.dup ELSE cfg.split[d]]

\* Placeholders order the split axes ascending then duplication last;
\* variables put duplication first.
Config2DSOrder(cfg) ==
  IF cfg.type = "placeholder" THEN SortedKeys(cfg.split) \o <<Dup>>
                              ELSE <<Dup>> \o SortedKeys(cfg.split)

\* RuntimeError for an unsupported type, AssertionError for a variable
\* without zero, and the DistributedStates product check.
Config2DSFails(cfg) ==
  \/ cfg.type = "other"
  \/ cfg.type = "variable" /\ cfg.zero = Absent
  \/ ~DSValid(cfg.ndev, Config2DSStates(cfg))

Config2DS(cfg) ==
  DistributedStates(Config2DSStates(cfg), Config2DSOrder(cfg),
                    cfg.type = "variable" /\ cfg.zero = TRUE)

-----------------------------------------------------------------------------
(* Device coordinates (native map_to_local_data, get_dup_group_index)       *)

\* The coordinate of device index d along dimension dim: the order is read
\* as a mixed-radix number whose last entry varies fastest.
StateIndex(ds, d, dim) ==
  LET p == SelectInSeq(ds.order, LAMBDA x : x = dim)
      inner == ProductOf([k \in (p + 1)..Len(ds.order) |-> ds.states[ds.order[k]]])
  IN IF p = 0 THEN 0 ELSE (d \div inner) % ds.states[dim]

\* The index of the group of devices holding the same shard: the split
\* coordinates read as a mixed-radix number, higher dimensions fastest.
DupGroupIndex(ds, d) ==
  LET splitDims == SetToSortSeq({x \in DOMAIN ds.states : x >= 0}, <)
      Step(acc, x) == acc * ds.states[x] + StateIndex(ds, d, x)
  IN FoldLeft(Step, 0, splitDims)

\* parallel_data_provider (lines 20-23): int(k * (size / splits)) in
\* Python floats, for the split coordinate k of the device.
ShardBound(k, size, splits) == Trunc(FloatMulInt(k, FloatDiv(size, splits)))

\* The first index along dim of the slice device d holds.
ShardStart(ds, d, dim, size) ==
  ShardBound(StateIndex(ds, d, dim), size, Factor(ds, dim))

\* Mutant: the stop of a slice is computed from split_index, not from
\* split_index + 1.
ShardStopSameIndex(ds, d, dim, size) ==
  LET stop == ShardBound(StateIndex(ds, d, dim), size, Factor(ds, dim))
  IN IF stop < size THEN stop ELSE size

\* The stop, clamped to the dimension by min().
ShardStop(ds, d, dim, size) ==
  LET stop == ShardBound(StateIndex(ds, d, dim) + 1, size, Factor(ds, dim))
  IN IF stop < size THEN stop ELSE size

\* parallel_data_provider (lines 13-25): the [start, stop) range device d
\* keeps along each dimension of a global array of the given shape.
\* Dimensions absent from the order (and the negative ones, which the loop
\* skips) are kept whole.
LocalSlice(ds, d, shape) ==
  [dim \in DOMAIN shape |->
     IF dim \in Range(ds.order)
     THEN <<ShardStart(ds, d, dim, shape[dim]), ShardStop(ds, d, dim, shape[dim])>>
     ELSE <<0, shape[dim]>>]

\* The elements of a global array of the given shape.
Elements(shape) ==
  {x \in [DOMAIN shape -> 0..(Max(Range(shape)) - 1)] :
     \A dim \in DOMAIN shape : x[dim] < shape[dim]}

\* The devices whose slices (a function from devices to LocalSlice
\* results) contain element x.
Holders(slices, x) ==
  {d \in DOMAIN slices : \A dim \in DOMAIN x :
     slices[d][dim][1] <= x[dim] /\ x[dim] < slices[d][dim][2]}

-----------------------------------------------------------------------------
(* Layouts produced by native operators.  Their order is not fixed by     *)
(* this repository, so every order of the split dimensions is possible.   *)

WithOrders(states, zero) ==
  LET st == RestrictValues(states, LAMBDA v : v > 1) IN
  {[states |-> st, order |-> o, zero |-> zero] : o \in SetToSeqs(DOMAIN st)}

\* hetu.linear(x, w, trans_b=True): rows of y follow x's dimension 0,
\* columns follow w's dimension 0, and a split of the contracted dimension
\* (x's 1, matched by w's 1) leaves partial sums.
LinearOut(x, w) ==
  LET st == [d \in {0, 1, Partial} |->
               CASE d = 0 -> Factor(x, 0) [] d = 1 -> Factor(w, 0)
                 [] OTHER -> Factor(x, 1)]
  IN WithOrders([d \in DOMAIN st \cup {Dup} |->
                   IF d = Dup THEN N \div ProductOf(st) ELSE st[d]], FALSE)

\* hetu.embedding_lookup(table, ids): the output follows the ids' split of
\* dimension 0, and a vocabulary split of the table leaves partial sums.
LookupOut(table, ids) ==
  LET st == [d \in {0, Partial} |-> IF d = 0 THEN Factor(ids, 0) ELSE Factor(table, 0)]
  IN WithOrders([d \in {0, Partial, Dup} |->
                   IF d = Dup THEN N \div ProductOf(st) ELSE st[d]], FALSE)

\* hetu.comm(x, target): the result has the target layout.
Comm(x, target) == target

=============================================================================
