--------------------------- MODULE LayerContract ---------------------------
(***************************************************************************)
(* What the parallel modules of parallel_ds.py promise a program about    *)
(* layouts, whatever layout their input has: a column layer without       *)
(* gather_output leaves rows split dp ways and columns tp ways; every     *)
(* other linear or vocabulary layer returns its "split0_dup" layout       *)
(* (batch split dp ways, duplicated tp ways), which is the layout the     *)
(* next such layer reads; layer norm and plain embedding keep the layout. *)
(***************************************************************************)
EXTENDS Integers, Sequences, SequencesExt, Functions

CONSTANTS
  Layers,  \* module objects
  Kind,    \* [Layers -> {"column", "row", "vocab", "embedding", "layernorm"}]
  Gather,  \* [Layers -> BOOLEAN]: gather_output
  Degree,  \* [Layers -> [dp : Nat, tp : Nat]]
  Inputs   \* layouts the program's placeholders may have

VARIABLES built, act

Normalized(st) == RestrictValues(st, LAMBDA v : v > 1)

\* Batch (dimension 0) split dp ways, duplicated (-1) tp ways.
BatchSplit(l) ==
  LET st == (0 :> Degree[l].dp) @@ (-1 :> Degree[l].tp) IN
  [states |-> Normalized(st), order |-> SelectSeq(<<0, -1>>, LAMBDA d : st[d] > 1),
   zero |-> FALSE]

\* Rows split dp ways, columns tp ways, in any device order.
RowsAndColumns(l) ==
  LET st == Normalized((0 :> Degree[l].dp) @@ (1 :> Degree[l].tp)) IN
  {[states |-> st, order |-> o, zero |-> FALSE] : o \in SetToSeqs(DOMAIN st)}

Out(l) ==
  CASE Kind[l] \in {"layernorm", "embedding"} -> {act}
    [] Kind[l] = "column" /\ ~Gather[l]      -> RowsAndColumns(l)
    [] OTHER                                 -> {BatchSplit(l)}

Build(l) == l \notin built /\ built' = built \cup {l} /\ UNCHANGED act

Input == act' \in Inputs /\ UNCHANGED built

Apply(l) == l \in built /\ act' \in Out(l) /\ UNCHANGED built

Init == built = {} /\ act \in Inputs

Next == Input \/ \E l \in Layers : Build(l) \/ Apply(l)

Spec == Init /\ [][Next]_<<built, act>>
=============================================================================
