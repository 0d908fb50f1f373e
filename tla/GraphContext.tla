---------------------------- MODULE GraphContext ----------------------------
(***************************************************************************)
(* The graph contexts of hetu/__init__.py: _GraphContext (hetu.graph) and  *)
(* _MergeStrategyContext (hetu.merge_strategy).  Both keep a Python mirror *)
(* of the native graph-context stack in the module-level list             *)
(* cur_graph_contexts, and push / pop the native stack through            *)
(* _hetu_core._internal_context.push_graph_ctx / pop_graph_ctx.           *)
(*                                                                         *)
(* The user program is a nest of `with` blocks: withStack holds the open  *)
(* blocks, innermost last.  Python guarantees that __exit__ of the        *)
(* innermost open block runs before any outer one, and that a block whose *)
(* __enter__ raised is never entered and never exited.                    *)
(***************************************************************************)
EXTENDS Naturals, Sequences, SequencesExt, FiniteSets

CONSTANTS
  Ctx,          \* context objects the program constructs (model values)
  Kind,         \* [Ctx -> {"graph", "merge"}]
  CreateNew,    \* [Ctx -> BOOLEAN]: create_new argument of hetu.graph
  Tmp,          \* [Ctx -> BOOLEAN]: tmp argument of hetu.graph
  DefaultGraph, \* the native default graph, also the merge target
  NoGraph,      \* Python None stored in ctx.graph
  MaxDepth,     \* bound on the nesting of open with-blocks
  NestedReuse   \* may the program enter a context object that is still open?

\* hetu.graph(tmp=True) asserts create_new (line 68); a merge context takes
\* neither argument.  Objects whose constructor raised never exist.
ASSUME /\ \A c \in Ctx : Kind[c] \in {"graph", "merge"}
       /\ \A c \in Ctx : Tmp[c] => CreateNew[c]
       /\ \A c \in Ctx : Kind[c] = "merge" => ~CreateNew[c] /\ ~Tmp[c]
       /\ MaxDepth \in Nat \ {0}
       /\ NestedReuse \in BOOLEAN

\* A fresh native graph made by a constructor is named after its context.
Graphs == {DefaultGraph} \cup Ctx

VARIABLES
  cur_graph_contexts, \* Python list cur_graph_contexts (line 14)
  graphStack,         \* native graph-context stack, top last
  live,               \* native graphs that exist (not deleted)
  graph,              \* [Ctx -> Graphs \cup {NoGraph}]: attribute self.graph
  wrapped_context,    \* [Ctx -> BOOLEAN]: attribute self.wrapped_context
  constructed,        \* context objects whose __init__ has run
  merged,             \* <<target, source>> pairs passed to merge_strategy
  withStack,          \* open with-blocks: [ctx, saved native graph stack]
  exited              \* history: contexts whose with-block has exited

vars == <<cur_graph_contexts, graphStack, live, graph, wrapped_context,
          constructed, merged, withStack, exited>>

OpenCtxs == {withStack[i].ctx : i \in DOMAIN withStack}

\* The program may open a with-block on c.
CanOpen(c) ==
  /\ c \in constructed
  /\ Len(withStack) < MaxDepth
  /\ NestedReuse \/ c \notin OpenCtxs

OpenBlock(c) == withStack' = Append(withStack, [ctx |-> c, saved |-> graphStack])

\* The innermost open block is on c; closing it.
CloseBlock(c) ==
  /\ withStack # <<>>
  /\ Last(withStack).ctx = c
  /\ withStack' = Front(withStack)
  /\ exited' = exited \cup {c}

-----------------------------------------------------------------------------
(* Constructors                                                             *)

\* _GraphContext.__init__ (lines 66-100): create_new makes a new native
\* graph, otherwise the context refers to an existing one (the default
\* graph; a named or numbered graph is abstracted to it).  num_strategy is
\* abstracted away.
ConstructGraph(c) ==
  /\ Kind[c] = "graph"
  /\ c \notin constructed
  /\ constructed' = constructed \cup {c}
  /\ IF CreateNew[c]
       THEN /\ graph' = [graph EXCEPT ![c] = c]
            /\ live' = live \cup {c}
       ELSE /\ graph' = [graph EXCEPT ![c] = DefaultGraph]
            /\ UNCHANGED live
  /\ UNCHANGED <<cur_graph_contexts, graphStack, wrapped_context, merged,
                 withStack, exited>>

\* _MergeStrategyContext.__init__ (lines 166-172): a new temporary graph;
\* the target is the default graph.
ConstructMerge(c) ==
  /\ Kind[c] = "merge"
  /\ c \notin constructed
  /\ constructed' = constructed \cup {c}
  /\ graph' = [graph EXCEPT ![c] = c]
  /\ live' = live \cup {c}
  /\ UNCHANGED <<cur_graph_contexts, graphStack, wrapped_context, merged,
                 withStack, exited>>

-----------------------------------------------------------------------------
(* _GraphContext.__enter__ / __exit__ (lines 102-122)                       *)

\* Some graph context is already open: flag self as wrapped and hand back
\* cur_graph_contexts[0]; nothing is pushed.
EnterGraphWrapped(c) ==
  /\ Kind[c] = "graph"
  /\ CanOpen(c)
  /\ cur_graph_contexts # <<>>
  /\ wrapped_context' = [wrapped_context EXCEPT ![c] = TRUE]
  /\ OpenBlock(c)
  /\ UNCHANGED <<cur_graph_contexts, graphStack, live, graph, constructed,
                 merged, exited>>

\* No graph context is open: push self.graph.  An object whose graph is
\* None (a tmp context that already exited) raises on self.graph.id before
\* anything changes, so its block never opens.
EnterGraph(c) ==
  /\ Kind[c] = "graph"
  /\ CanOpen(c)
  /\ cur_graph_contexts = <<>>
  /\ graph[c] # NoGraph
  /\ wrapped_context' = [wrapped_context EXCEPT ![c] = FALSE]
  /\ graphStack' = Append(graphStack, graph[c])
  /\ cur_graph_contexts' = Append(cur_graph_contexts, c)
  /\ OpenBlock(c)
  /\ UNCHANGED <<live, graph, constructed, merged, exited>>

ExitGraphWrapped(c) ==
  /\ Kind[c] = "graph"
  /\ wrapped_context[c]
  /\ CloseBlock(c)
  /\ UNCHANGED <<cur_graph_contexts, graphStack, live, graph, wrapped_context,
                 constructed, merged>>

\* Mutant: cur_graph_contexts.remove(self) is missing.
ExitGraphKeepingEntry(c) ==
  /\ Kind[c] = "graph"
  /\ ~wrapped_context[c]
  /\ CloseBlock(c)
  /\ graphStack' = Front(graphStack)
  /\ IF Tmp[c]
       THEN /\ graph' = [graph EXCEPT ![c] = NoGraph]
            /\ live' = live \ {graph[c]}
       ELSE UNCHANGED <<graph, live>>
  /\ UNCHANGED <<cur_graph_contexts, wrapped_context, constructed, merged>>

\* Pop, remove self from the list, and delete the graph of a tmp context.
ExitGraph(c) ==
  /\ Kind[c] = "graph"
  /\ ~wrapped_context[c]
  /\ CloseBlock(c)
  /\ graphStack' = Front(graphStack)
  /\ cur_graph_contexts' = RemoveFirst(cur_graph_contexts, c)
  /\ IF Tmp[c]
       THEN /\ graph' = [graph EXCEPT ![c] = NoGraph]
            /\ live' = live \ {graph[c]}
       ELSE UNCHANGED <<graph, live>>
  /\ UNCHANGED <<wrapped_context, constructed, merged>>

-----------------------------------------------------------------------------
(* _MergeStrategyContext.__enter__ / __exit__ (lines 174-188)               *)

\* The assertion compares str() of the graphs, abstracted as identity; it
\* is evaluated before self.graph.id, which raises when graph is None.
EnterMerge(c) ==
  /\ Kind[c] = "merge"
  /\ CanOpen(c)
  /\ cur_graph_contexts # <<>> => graph[c] # graph[cur_graph_contexts[1]]
  /\ graph[c] # NoGraph
  /\ graphStack' = Append(graphStack, graph[c])
  /\ cur_graph_contexts' = Append(cur_graph_contexts, c)
  /\ OpenBlock(c)
  /\ UNCHANGED <<live, graph, wrapped_context, constructed, merged, exited>>

\* Mutant: the graph itself, not the pair with its target, is recorded
\* (merge_strategy handed self.graph instead of graph_id).
ExitMergeRecordingGraph(c) ==
  /\ Kind[c] = "merge"
  /\ CloseBlock(c)
  /\ graphStack' = Front(graphStack)
  /\ cur_graph_contexts' = RemoveFirst(cur_graph_contexts, c)
  /\ IF graph[c] # NoGraph
       THEN /\ merged' = merged \cup {graph[c]}
            /\ graph' = [graph EXCEPT ![c] = NoGraph]
            /\ live' = live \ {graph[c]}
       ELSE UNCHANGED <<merged, graph, live>>
  /\ UNCHANGED <<wrapped_context, constructed>>

\* Mutant: merge_strategy is called before the pop and the remove, so a
\* failing merge leaves the block's graph pushed and listed.
ExitMergeFailsMergingFirst(c) ==
  /\ Kind[c] = "merge"
  /\ CloseBlock(c)
  /\ graph[c] # NoGraph
  /\ UNCHANGED <<cur_graph_contexts, graphStack, live, graph, wrapped_context,
                 constructed, merged>>

\* merge_strategy (line 186) raises in the native core: the pop and the
\* remove have happened, the temporary graph is neither merged nor
\* deleted, and the exception leaves the with-block.
ExitMergeFails(c) ==
  /\ Kind[c] = "merge"
  /\ CloseBlock(c)
  /\ graph[c] # NoGraph
  /\ graphStack' = Front(graphStack)
  /\ cur_graph_contexts' = RemoveFirst(cur_graph_contexts, c)
  /\ UNCHANGED <<live, graph, wrapped_context, constructed, merged>>

\* Pop and remove self, then merge the strategies into the target and
\* delete the temporary graph.  When the graph is already None (the same
\* object was exited before) self.graph.id raises after pop and remove.
ExitMerge(c) ==
  /\ Kind[c] = "merge"
  /\ CloseBlock(c)
  /\ graphStack' = Front(graphStack)
  /\ cur_graph_contexts' = RemoveFirst(cur_graph_contexts, c)
  /\ IF graph[c] # NoGraph
       THEN /\ merged' = merged \cup {<<DefaultGraph, graph[c]>>}
            /\ graph' = [graph EXCEPT ![c] = NoGraph]
            /\ live' = live \ {graph[c]}
       ELSE UNCHANGED <<merged, graph, live>>
  /\ UNCHANGED <<wrapped_context, constructed>>

-----------------------------------------------------------------------------

Init ==
  /\ cur_graph_contexts = <<>>
  /\ graphStack = <<>>
  /\ live = {DefaultGraph}
  /\ graph = [c \in Ctx |-> NoGraph]
  /\ wrapped_context = [c \in Ctx |-> FALSE]
  /\ constructed = {}
  /\ merged = {}
  /\ withStack = <<>>
  /\ exited = {}

Next ==
  \E c \in Ctx :
    \/ ConstructGraph(c)
    \/ ConstructMerge(c)
    \/ EnterGraphWrapped(c)
    \/ EnterGraph(c)
    \/ ExitGraphWrapped(c)
    \/ ExitGraph(c)
    \/ EnterMerge(c)
    \/ ExitMerge(c)
    \/ ExitMergeFails(c)

Spec == Init /\ [][Next]_vars

-----------------------------------------------------------------------------
(* Properties                                                               *)

TypeOK ==
  /\ cur_graph_contexts \in Seq(Ctx)
  /\ graphStack \in Seq(Graphs)
  /\ live \subseteq Graphs
  /\ graph \in [Ctx -> Graphs \cup {NoGraph}]
  /\ wrapped_context \in [Ctx -> BOOLEAN]
  /\ constructed \subseteq Ctx
  /\ merged \subseteq Graphs \X Graphs
  /\ withStack \in Seq([ctx : Ctx, saved : Seq(Graphs)])
  /\ exited \subseteq Ctx

\* The Python list cur_graph_contexts mirrors the native graph stack entry
\* by entry, and no graph on the native stack has been deleted: ops built
\* inside any open block go to a graph that still exists.
StackMirror ==
  /\ graphStack = [i \in DOMAIN cur_graph_contexts |-> graph[cur_graph_contexts[i]]]
  /\ \A i \in DOMAIN graphStack : graphStack[i] \in live

\* Leaving a with-block (any __exit__ of _GraphContext or
\* _MergeStrategyContext) restores the native graph stack to what it was
\* when that block was entered.
ScopedExit ==
  [][Len(withStack') < Len(withStack) => graphStack' = Last(withStack).saved]_vars

\* A temporary graph (hetu.graph(..., tmp=True)) is deleted once its
\* with-block has exited and is not open again.
TmpGraphReclaimed ==
  \A c \in Ctx :
    (Tmp[c] /\ c \in exited /\ c \notin OpenCtxs) => c \notin live

=============================================================================
