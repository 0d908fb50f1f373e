--------------------------- MODULE ParallelLayers ---------------------------
(***************************************************************************)
(* The tensor-parallel modules of hetu/nn/modules/parallel_ds.py applied  *)
(* by a program to one activation tensor: the program builds layers,      *)
(* feeds placeholder inputs, and applies built layers in any order.       *)
(* Each forward reshards its input to the layout the layer requires,      *)
(* runs the native operator and reshards the output.                      *)
(***************************************************************************)
EXTENDS ParallelDS

CONSTANTS
  Layers,         \* module objects (model values)
  LayerKind,      \* [Layers -> {"column", "row", "vocab", "embedding", "layernorm"}]
  LayerCfg,       \* [Layers -> ConfigType]: ds_parallel_config
  GatherOutput,   \* [Layers -> BOOLEAN]: gather_output of a column layer
  HasBias,        \* [Layers -> BOOLEAN]: bias of a column or row layer
  InputCfgs,      \* placeholder configs the program feeds inputs with
  NumEmbeddings,  \* num_embeddings of the vocabulary-parallel embedding
  DataShape,      \* [{0, 1} -> Nat]: shape of the global array a program feeds
  NoValue         \* no layer, no input, no bias

ASSUME /\ \A l \in Layers : LayerCfg[l] \in ConfigType
       /\ InputCfgs \subseteq ConfigType
       /\ NumEmbeddings \in Nat \ {0}

Devices == 0..(N - 1)

\* dp and tp as read by each constructor: the column layer takes its
\* tensor-parallel degree from split['1'], row and vocab from split['0'].
DP(l) == LayerCfg[l].dup
TP(l) == LET s == LayerCfg[l].split
             k == IF LayerKind[l] = "column" THEN 1 ELSE 0
         IN IF k \in DOMAIN s THEN s[k] ELSE 1

Zero(l) == LayerCfg[l].zero = TRUE

\* The ds_map entries built by the constructors (lines 124-126, 183-186,
\* 258-262).
Split0Dup(l) == DistributedStates([d \in {Dup, 0} |-> IF d = Dup THEN TP(l) ELSE DP(l)], <<0, Dup>>, FALSE)
Split01(l)   == DistributedStates([d \in {0, 1} |-> IF d = 0 THEN DP(l) ELSE TP(l)], <<0, 1>>, FALSE)
DupSplit0(l) == DistributedStates([d \in {Dup, 0} |-> IF d = Dup THEN DP(l) ELSE TP(l)], <<Dup, 0>>, Zero(l))
DupSplit1(l) == DistributedStates([d \in {Dup, 1} |-> IF d = Dup THEN DP(l) ELSE TP(l)], <<Dup, 1>>, Zero(l))

\* The descriptor of the vocabulary-parallel table is config2ds's result.
TableDS(l) == Config2DS(LayerCfg[l])

VARIABLES
  built,       \* module objects whose constructor returned
  vocab_start, \* [Layers -> [Devices -> Int]]: vocab_start_index on each rank
  act,         \* layout of the activation the program holds
  last         \* what the last forward did

vars == <<built, vocab_start, act, last>>

NoStep == [layer |-> NoValue, input |-> NoValue, inComm |-> FALSE,
           warned |-> FALSE, outComm |-> FALSE, biasOn |-> NoValue]

Step(l, in, inComm, warned, outComm, biasOn) ==
  last' = [layer |-> l, input |-> in, inComm |-> inComm, warned |-> warned,
           outComm |-> outComm, biasOn |-> biasOn]

-----------------------------------------------------------------------------
(* Constructors                                                             *)

\* The constructors that assert dp * tp == num_devices (lines 122, 178,
\* 255); every constructor goes through config2ds first.
ConstructOK(l) ==
  /\ ~Config2DSFails(LayerCfg[l])
  /\ LayerKind[l] \in {"column", "row", "vocab"} =>
        DP(l) * TP(l) = LayerCfg[l].ndev
  /\ LayerKind[l] \in {"column", "row"} => LayerCfg[l].zero # Absent

\* Mutant: vocab_start_index scaled by the rank's device index (computed
\* just above, line 122) instead of its duplication group index.
ConstructVocabByDevice(l) ==
  /\ LayerKind[l] = "vocab"
  /\ l \notin built
  /\ ConstructOK(l)
  /\ built' = built \cup {l}
  /\ vocab_start' = [vocab_start EXCEPT ![l] =
                       [d \in Devices |-> (NumEmbeddings \div TP(l)) * d]]
  /\ UNCHANGED <<act, last>>

\* HtVocabParallelEmbedding.__init__ (lines 112-138): every rank of the
\* group computes its vocab_start_index from its duplication group.
ConstructVocab(l) ==
  /\ LayerKind[l] = "vocab"
  /\ l \notin built
  /\ ConstructOK(l)
  /\ built' = built \cup {l}
  /\ vocab_start' = [vocab_start EXCEPT ![l] =
                       [d \in Devices |-> (NumEmbeddings \div TP(l)) * DupGroupIndex(TableDS(l), d)]]
  /\ UNCHANGED <<act, last>>

\* The constructors of HtParallelLayerNorm (58-82), HtParallelEmbedding
\* (88-106), HtColumnParallelLinear (162-204) and HtRowParallelLinear
\* (239-281): parameters are created by the native core.
Construct(l) ==
  /\ LayerKind[l] # "vocab"
  /\ l \notin built
  /\ ConstructOK(l)
  /\ built' = built \cup {l}
  /\ UNCHANGED <<vocab_start, act, last>>

\* A placeholder fed by the program, its layout given by config2ds.
NewInput ==
  /\ \E cfg \in InputCfgs :
       /\ ~Config2DSFails(cfg)
       /\ act' = Config2DS(cfg)
  /\ last' = NoStep
  /\ UNCHANGED <<built, vocab_start>>

-----------------------------------------------------------------------------
(* Forward passes                                                           *)

\* Mutant: the gather compares with, and communicates to, ds_map['dup']
\* instead of ds_map['split0_dup'].
ForwardColumnGatherToDup(l) ==
  LET inComm == ~CheckEqual(act, Split0Dup(l))
      x == IF inComm THEN Comm(act, Split0Dup(l)) ELSE act
      dup == DistributedStates(Dup :> N, <<Dup>>, Zero(l))
  IN /\ LayerKind[l] = "column"
     /\ l \in built
     /\ \E y \in LinearOut(x, DupSplit0(l)) :
          LET outComm == GatherOutput[l] /\ ~CheckEqual(y, dup) IN
          /\ act' = IF outComm THEN Comm(y, dup) ELSE y
          /\ Step(l, act, inComm, inComm, outComm, IF HasBias[l] THEN y ELSE NoValue)
     /\ UNCHANGED <<built, vocab_start>>

\* HtColumnParallelLinear.forward (lines 206-223).
ForwardColumn(l) ==
  LET inComm == ~CheckEqual(act, Split0Dup(l))
      x == IF inComm THEN Comm(act, Split0Dup(l)) ELSE act
  IN /\ LayerKind[l] = "column"
     /\ l \in built
     /\ \E y \in LinearOut(x, DupSplit0(l)) :
          LET outComm == GatherOutput[l] /\ ~CheckEqual(y, Split0Dup(l)) IN
          /\ act' = IF outComm THEN Comm(y, Split0Dup(l)) ELSE y
          /\ Step(l, act, inComm, inComm, outComm, IF HasBias[l] THEN y ELSE NoValue)
     /\ UNCHANGED <<built, vocab_start>>

\* Mutant: the bias is added to the partial result before the reduction.
ForwardRowBiasBeforeReduce(l) ==
  LET inComm == ~CheckEqual(act, Split01(l))
      x == IF inComm THEN Comm(act, Split01(l)) ELSE act
  IN /\ LayerKind[l] = "row"
     /\ l \in built
     /\ \E y \in LinearOut(x, DupSplit1(l)) :
          LET outComm == ~CheckEqual(y, Split0Dup(l))
              z == IF outComm THEN Comm(y, Split0Dup(l)) ELSE y
          IN /\ act' = z
             /\ Step(l, act, inComm, FALSE, outComm, IF HasBias[l] THEN y ELSE NoValue)
     /\ UNCHANGED <<built, vocab_start>>

\* HtRowParallelLinear.forward (lines 283-296): the partial result is
\* reduced to split0_dup before the bias is added.
ForwardRow(l) ==
  LET inComm == ~CheckEqual(act, Split01(l))
      x == IF inComm THEN Comm(act, Split01(l)) ELSE act
  IN /\ LayerKind[l] = "row"
     /\ l \in built
     /\ \E y \in LinearOut(x, DupSplit1(l)) :
          LET outComm == ~CheckEqual(y, Split0Dup(l))
              z == IF outComm THEN Comm(y, Split0Dup(l)) ELSE y
          IN /\ act' = z
             /\ Step(l, act, inComm, FALSE, outComm, IF HasBias[l] THEN z ELSE NoValue)
     /\ UNCHANGED <<built, vocab_start>>

\* Mutant: the lookup's partial sums are returned without the reduction.
ForwardVocabNoOutComm(l) ==
  LET inComm == ~CheckEqual(act, Split0Dup(l))
      x == IF inComm THEN Comm(act, Split0Dup(l)) ELSE act
  IN /\ LayerKind[l] = "vocab"
     /\ l \in built
     /\ \E y \in LookupOut(TableDS(l), x) :
          /\ act' = y
          /\ Step(l, act, inComm, inComm, FALSE, NoValue)
     /\ UNCHANGED <<built, vocab_start>>

\* HtVocabParallelEmbedding.forward (lines 140-154); subtracting
\* vocab_start_index keeps the layout.
ForwardVocab(l) ==
  LET inComm == ~CheckEqual(act, Split0Dup(l))
      x == IF inComm THEN Comm(act, Split0Dup(l)) ELSE act
  IN /\ LayerKind[l] = "vocab"
     /\ l \in built
     /\ \E y \in LookupOut(TableDS(l), x) :
          LET outComm == ~CheckEqual(y, Split0Dup(l)) IN
          /\ act' = IF outComm THEN Comm(y, Split0Dup(l)) ELSE y
          /\ Step(l, act, inComm, inComm, outComm, NoValue)
     /\ UNCHANGED <<built, vocab_start>>

\* HtParallelLayerNorm.forward (84-85) and HtParallelEmbedding.forward
\* (108-109): one native call on the input as it is, keeping its layout.
ForwardLocal(l) ==
  /\ LayerKind[l] \in {"layernorm", "embedding"}
  /\ l \in built
  /\ Step(l, act, FALSE, FALSE, FALSE, NoValue)
  /\ UNCHANGED <<built, vocab_start, act>>

-----------------------------------------------------------------------------

\* The program starts from its first placeholder.
Init ==
  /\ built = {}
  /\ vocab_start = [l \in Layers |-> [d \in Devices |-> 0]]
  /\ \E cfg \in InputCfgs : ~Config2DSFails(cfg) /\ act = Config2DS(cfg)
  /\ last = NoStep

Next ==
  \/ NewInput
  \/ \E l \in Layers :
       \/ ConstructVocab(l)
       \/ Construct(l)
       \/ ForwardColumn(l)
       \/ ForwardRow(l)
       \/ ForwardVocab(l)
       \/ ForwardLocal(l)

Spec == Init /\ [][Next]_vars

-----------------------------------------------------------------------------
(* Properties                                                               *)

DSType == [states : UNION {[D -> 2..N] : D \in SUBSET Dims},
           order : Seq(Dims), zero : BOOLEAN]

TypeOK ==
  /\ built \subseteq Layers
  /\ vocab_start \in [Layers -> [Devices -> 0..(NumEmbeddings - 1)]]
  /\ act \in DSType
  /\ last \in [layer : Layers \cup {NoValue}, input : DSType \cup {NoValue},
               inComm : BOOLEAN, warned : BOOLEAN, outComm : BOOLEAN,
               biasOn : DSType \cup {NoValue}]

\* A bias is only ever added to fully reduced data: the column layer's
\* linear adds it to a product whose contracted dimension is not split,
\* and the row layer adds it after reducing the partial sums
\* (spec, TESTABLE PROPERTIES).
NoBiasOnPartial ==
  last.biasOn # NoValue => Factor(last.biasOn, Partial) = 1

\* Pure data parallelism needs no communication: with tp = 1, a forward
\* whose input is split on the batch dimension over all devices neither
\* reshards its input nor its output (the "# pure dp" branches).
PureDPNoComm ==
  (/\ last.layer \in Layers
   /\ TP(last.layer) = 1
   /\ CheckEqual(last.input, DistributedStates(0 :> N, <<0>>, FALSE)))
    => ~last.inComm /\ ~last.outComm

\* Fed through parallel_data_provider, a global array of DataShape in the
\* activation's layout is tiled: every element is held by exactly as many
\* devices as the layout duplicates (or holds partial sums of) it, whatever
\* the order of the split, duplicated and partial dimensions in the
\* layout.  It checks the loop of lines 17-24 over the layout's order with
\* the split indices of map_to_local_data (line 15): that neighbouring
\* slices share their bounds.  At these shapes and factors the float bounds
\* lose no row; their rounding is checked by BatchCovered.
ActShardsTile ==
  LET slices == [d \in Devices |-> LocalSlice(act, d, DataShape)]
  IN \A x \in Elements(DataShape) :
       Cardinality(Holders(slices, x)) * Factor(act, 0) * Factor(act, 1) = N

\* Whatever layout its input has and whatever order the native operators
\* give their results, every forward returns the layout its layer
\* promises (LayerContract).
Contract == INSTANCE LayerContract
  WITH Kind <- LayerKind, Gather <- GatherOutput,
       Degree <- [l \in Layers |-> [dp |-> DP(l), tp |-> TP(l)]],
       Inputs <- {Config2DS(cfg) : cfg \in {c \in InputCfgs : ~Config2DSFails(c)}}

ContractSpec == Contract!Spec

\* The vocabulary windows partition the table (spec, TESTABLE PROPERTIES):
\* a rank's window starts at its vocab_start_index (line 129) and is
\* num_embeddings // tp rows wide; the windows of the tp duplication groups
\* are disjoint and together cover [0, num_embeddings).
VocabWindow(l, d) ==
  LET w == NumEmbeddings \div TP(l)
  IN vocab_start[l][d]..(vocab_start[l][d] + w - 1)

VocabWindowsPartition ==
  \A l \in built :
    LayerKind[l] = "vocab" =>
      /\ UNION {VocabWindow(l, d) : d \in Devices} = 0..(NumEmbeddings - 1)
      /\ \A d, e \in Devices :
           DupGroupIndex(TableDS(l), d) # DupGroupIndex(TableDS(l), e)
             => VocabWindow(l, d) \cap VocabWindow(l, e) = {}

=============================================================================
