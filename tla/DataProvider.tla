---------------------------- MODULE DataProvider ----------------------------
(***************************************************************************)
(* Feeding one global batch to the ranks of a layer's device group         *)
(* (hetu/nn/modules/parallel_ds.py lines 13-33).  Every rank finds its     *)
(* device index with get_device_index and keeps the slice                  *)
(* parallel_data_provider cuts for that index out of the same global       *)
(* array; the ranks run in separate processes, in any order.               *)
(***************************************************************************)
EXTENDS ParallelDS

CONSTANTS
  Ranks,      \* the processes of the job (model values)
  Group,      \* the layer's device group: a sequence of distinct ranks
  InputCfgs,  \* placeholder configs the batch may be laid out by
  Shapes,     \* shapes the global batch may have
  NotCalled   \* a rank that has not yet cut its slice (model value)

ASSUME /\ Group \in Seq(Ranks)
       /\ Len(Group) = N
       /\ \A i, j \in DOMAIN Group : Group[i] = Group[j] => i = j

VARIABLES
  ds,     \* the batch's DistributedStates (config2ds of its config)
  shape,  \* global_data.shape
  local   \* [Ranks -> slice | NotCalled]: the local_data each rank holds

vars == <<ds, shape, local>>

\* get_device_index (lines 27-33): the rank's position in the device
\* group, or -1 on a rank outside it (another pipeline stage).
GetDeviceIndex(r) ==
  IF \E i \in DOMAIN Group : Group[i] = r
  THEN (CHOOSE i \in DOMAIN Group : Group[i] = r) - 1
  ELSE -1

\* The batch and its layout are fixed before any rank cuts its slice.
Init ==
  /\ \E cfg \in InputCfgs : ~Config2DSFails(cfg) /\ ds = Config2DS(cfg)
  /\ shape \in Shapes
  /\ local = [r \in Ranks |-> NotCalled]

\* Rank r runs parallel_data_provider(global_data, ds,
\* get_device_index(group)).  What map_to_local_data does with index -1 is
\* decided in the native core, so a rank outside the group holds nothing.
Provide(r) ==
  /\ local[r] = NotCalled
  /\ GetDeviceIndex(r) >= 0
  /\ local' = [local EXCEPT ![r] = LocalSlice(ds, GetDeviceIndex(r), shape)]
  /\ UNCHANGED <<ds, shape>>

Next == \E r \in Ranks : Provide(r)

Spec == Init /\ [][Next]_vars

-----------------------------------------------------------------------------

TypeOK ==
  /\ ds.states \in [DOMAIN ds.states -> 2..N]
  /\ shape \in Shapes
  /\ \A r \in Ranks : local[r] = NotCalled \/ DOMAIN local[r] = DOMAIN shape

\* Once every rank of the group has cut its slice, every element of the
\* global batch is held by exactly as many ranks as the layout duplicates
\* it: the slices of parallel_data_provider, computed in Python floats,
\* lose no row and hand none out twice.
BatchCovered ==
  (\A i \in DOMAIN Group : local[Group[i]] # NotCalled)
    => LET slices == [i \in DOMAIN Group |-> local[Group[i]]]
       IN \A x \in Elements(shape) :
            Cardinality(Holders(slices, x)) * Factor(ds, 0) * Factor(ds, 1) = N

=============================================================================
