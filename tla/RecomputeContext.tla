-------------------------- MODULE RecomputeContext --------------------------
(***************************************************************************)
(* hetu.recompute (hetu/__init__.py lines 15, 193-233).  Every open        *)
(* recompute block is kept in the Python list cur_recompute_contexts; on   *)
(* __enter__ the multi_recompute settings of all listed contexts are       *)
(* merged (a stage recomputes when any enclosing level says so) and the    *)
(* result is pushed on the native recompute stack.                         *)
(*                                                                         *)
(* multi_recompute is a list (one entry per strategy) of lists of booleans *)
(* (one per pipeline stage, or a single one for all stages).  Python list  *)
(* indices i, j are shifted by one.                                        *)
(***************************************************************************)
EXTENDS Naturals, Sequences, SequencesExt, FiniteSets

CONSTANTS
  Ctx,      \* _RecomputeContext objects (model values)
  Configs,  \* multi_recompute arguments the program may pass
  MaxList,  \* bound on the length of cur_recompute_contexts
  NoConfig  \* an object not yet constructed

ASSUME /\ Configs \subseteq Seq(Seq(BOOLEAN) \ {<<>>}) \ {<<>>}
       /\ MaxList \in Nat \ {0}

VARIABLES
  cur_recompute_contexts, \* Python list (line 15), innermost last
  recomputeStack,         \* native recompute-context stack, top last
  multi_recompute,        \* [Ctx -> Configs \cup {NoConfig}]
  withStack               \* open blocks: [ctx, list = contexts merged at entry]

vars == <<cur_recompute_contexts, recomputeStack, multi_recompute, withStack>>

FailPN == -1

\* The value of a per-stage list at stage j: a single entry holds for all.
Hit(row, j) == IF Len(row) = 1 THEN row[1] ELSE row[j]

-----------------------------------------------------------------------------
(* The merge computed by __enter__, over ms = the settings of the listed   *)
(* contexts in list order.                                                 *)

\* Mutant: pipeline_num is taken from the entering context alone.
PipelineNumOfSelf(ms, i, pn) == Len(Last(ms)[i])

\* Lines 206-212: pipeline_num for strategy i, or FailPN when the assert
\* "recompute state len should be 1 or equal to the pipeline num" fails.
RECURSIVE PipelineNum(_, _, _)
PipelineNum(ms, i, pn) ==
  IF ms = <<>> THEN pn
  ELSE LET l == Len(Head(ms)[i]) IN
       CASE pn = 1                -> PipelineNum(Tail(ms), i, l)
         [] l = 1 \/ l = pn       -> PipelineNum(Tail(ms), i, pn)
         [] OTHER                 -> FailPN

\* Lines 203-212: both assertions of __enter__ hold.  Line 204 compares
\* the new context's multi_len (the last entry) with every listed one.
EnterOK(ms) ==
  /\ \A k \in DOMAIN ms : Len(ms[k]) = Len(Last(ms))
  /\ \A i \in DOMAIN Last(ms) : PipelineNum(ms, i, 1) # FailPN

\* Lines 213-223 for strategy i: for each stage j the first listed context
\* that recomputes at j either sets every stage (a single-entry list) or
\* stage j alone, and the scan over contexts breaks.
MergeRow(ms, i, pn) ==
  LET Step(cur, j) ==
        LET k == SelectInSeq(ms, LAMBDA m : Hit(m[i], j)) IN
        CASE k = 0             -> cur
          [] Len(ms[k][i]) = 1 -> [x \in 1..pn |-> TRUE]
          [] OTHER             -> [cur EXCEPT ![j] = TRUE]
  IN FoldLeft(Step, [x \in 1..pn |-> FALSE], [j \in 1..pn |-> j])

\* Lines 201-224: cur_multi_recompute.
Merge(ms) ==
  [i \in DOMAIN Last(ms) |-> MergeRow(ms, i, PipelineNum(ms, i, 1))]

\* Reference: stage j of strategy i recomputes iff some listed context
\* recomputes it ("只要某一层的recompute是true那么最终就要recompute").
Union(ms) ==
  [i \in DOMAIN Last(ms) |->
     [j \in 1..Max({Len(ms[k][i]) : k \in DOMAIN ms}) |->
        \E k \in DOMAIN ms : Hit(ms[k][i], j)]]

-----------------------------------------------------------------------------

Settings(list) == [k \in DOMAIN list |-> multi_recompute[list[k]]]

OpenCtxs == {withStack[k].ctx : k \in DOMAIN withStack}

\* hetu.recompute(multi_recompute) (lines 194-195, 232-233).
Construct(c) ==
  /\ multi_recompute[c] = NoConfig
  /\ \E m \in Configs : multi_recompute' = [multi_recompute EXCEPT ![c] = m]
  /\ UNCHANGED <<cur_recompute_contexts, recomputeStack, withStack>>

\* Mutant: the Python list itself is handed to push_recompute_ctx.
EnterPushingList(c) ==
  LET list == Append(cur_recompute_contexts, c) IN
  /\ multi_recompute[c] # NoConfig
  /\ c \notin OpenCtxs
  /\ Len(cur_recompute_contexts) < MaxList
  /\ EnterOK(Settings(list))
  /\ cur_recompute_contexts' = list
  /\ recomputeStack' = Append(recomputeStack, list)
  /\ withStack' = Append(withStack, [ctx |-> c, list |-> list])
  /\ UNCHANGED multi_recompute

\* __enter__ (lines 197-226).  self is appended first; when both assertions
\* hold the merge is pushed and the block opens.
Enter(c) ==
  LET list == Append(cur_recompute_contexts, c) IN
  /\ multi_recompute[c] # NoConfig
  /\ c \notin OpenCtxs
  /\ Len(cur_recompute_contexts) < MaxList
  /\ EnterOK(Settings(list))
  /\ cur_recompute_contexts' = list
  /\ recomputeStack' = Append(recomputeStack, Merge(Settings(list)))
  /\ withStack' = Append(withStack, [ctx |-> c, list |-> list])
  /\ UNCHANGED multi_recompute

\* __enter__ whose assertion fails: the AssertionError leaves self in
\* cur_recompute_contexts (line 198 ran), nothing is pushed, and Python
\* never calls __exit__ for a block whose __enter__ raised.
EnterFails(c) ==
  LET list == Append(cur_recompute_contexts, c) IN
  /\ multi_recompute[c] # NoConfig
  /\ c \notin OpenCtxs
  /\ Len(cur_recompute_contexts) < MaxList
  /\ ~EnterOK(Settings(list))
  /\ cur_recompute_contexts' = list
  /\ UNCHANGED <<recomputeStack, multi_recompute, withStack>>

\* __exit__ (lines 228-230) of the innermost open block.
Exit(c) ==
  /\ withStack # <<>>
  /\ Last(withStack).ctx = c
  /\ recomputeStack' = Front(recomputeStack)
  /\ cur_recompute_contexts' = RemoveFirst(cur_recompute_contexts, c)
  /\ withStack' = Front(withStack)
  /\ UNCHANGED multi_recompute

Init ==
  /\ cur_recompute_contexts = <<>>
  /\ recomputeStack = <<>>
  /\ multi_recompute = [c \in Ctx |-> NoConfig]
  /\ withStack = <<>>

Next ==
  \E c \in Ctx :
    \/ Construct(c)
    \/ Enter(c)
    \/ EnterFails(c)
    \/ Exit(c)

Spec == Init /\ [][Next]_vars

-----------------------------------------------------------------------------
(* Properties                                                               *)

TypeOK ==
  /\ cur_recompute_contexts \in Seq(Ctx)
  /\ recomputeStack \in Seq(Seq(Seq(BOOLEAN)))
  /\ multi_recompute \in [Ctx -> Configs \cup {NoConfig}]
  /\ withStack \in Seq([ctx : Ctx, list : Seq(Ctx)])

\* Every native recompute entry pushed by __enter__ is the union of the
\* settings of the contexts listed when it was pushed, and the native
\* stack holds exactly one entry per open block.
MergeIsUnion ==
  /\ Len(recomputeStack) = Len(withStack)
  /\ \A k \in DOMAIN recomputeStack :
       recomputeStack[k] = Union(Settings(withStack[k].list))

\* The recompute state in force inside the innermost open block is the
\* union of the settings of the blocks that are open: a context whose
\* __enter__ failed has no say.
EffectiveIsOpenBlocks ==
  withStack # <<>> =>
    Last(recomputeStack) =
      Union([k \in DOMAIN withStack |-> multi_recompute[withStack[k].ctx]])

=============================================================================
