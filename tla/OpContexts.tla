---------------------------- MODULE OpContexts ----------------------------
(***************************************************************************)
(* The scoped context managers of hetu/__init__.py that only push and pop *)
(* native context stacks: _OpContext (lines 17-63), _AutocastContext      *)
(* (127-145), _CPUOffloadContext (235-244), _ProfileContex (246-260) and  *)
(* _SubGraphContext (262-276).  An op context sets up to four fields      *)
(* (eager device, device-group hierarchy, stream index, extra deps); the  *)
(* native core keeps one stack per field and push_op_ctx pushes the       *)
(* fields given, so __exit__ must pop exactly the fields that were given. *)
(***************************************************************************)
EXTENDS Naturals, Sequences, SequencesExt

CONSTANTS
  Ctx,       \* context objects (model values)
  None,      \* Python None
  BoolArg,   \* a bool passed as stream index (model value)
  MaxDepth,  \* bound on the number of open with-blocks
  NoObj      \* an object not yet constructed

OpFields   == {"eager_device", "device_group_hierarchy", "stream_index", "extra_deps"}
Classes    == {"op", "autocast", "cpu_offload", "profile", "subgraph"}
StackNames == OpFields \cup (Classes \ {"op"})

\* Arguments a program may pass to hetu.context / control_dependencies.
StreamArgs == {None, 0, 1, BoolArg}
DepsArgs   == {None, "tensors", "empty", "non_tensor", "not_list"}

VARIABLES
  obj,       \* [Ctx -> constructed object or NoObj]
  stacks,    \* native context stacks: [StackNames -> Seq(Ctx)], top last
  withStack  \* open with-blocks, innermost last

vars == <<obj, stacks, withStack>>

-----------------------------------------------------------------------------

\* Mutant: the constructor does not validate its arguments.
OpObjectsUnchecked ==
  {[cls |-> "op", eager_device |-> e, device_group_hierarchy |-> h,
    stream_index |-> s, extra_deps |-> IF x = None THEN None ELSE "group"] :
     e \in {None, "device"}, h \in {None, "hierarchy"}, s \in StreamArgs,
     x \in DepsArgs}

\* _OpContext.__init__ (lines 18-40): a bool or non-int stream index and
\* extra deps that are not a list or tuple of tensors raise ValueError, so
\* no object exists; valid extra deps are wrapped as [group(extra_deps)].
OpObjects ==
  {[cls |-> "op", eager_device |-> e, device_group_hierarchy |-> h,
    stream_index |-> s, extra_deps |-> IF x = None THEN None ELSE "group"] :
     e \in {None, "device"}, h \in {None, "hierarchy"},
     s \in {a \in StreamArgs : a \in {None, 0, 1}},
     x \in {a \in DepsArgs : a \notin {"non_tensor", "not_list"}}}

OtherObjects ==
  {[cls |-> k, eager_device |-> None, device_group_hierarchy |-> None,
    stream_index |-> None, extra_deps |-> None] : k \in Classes \ {"op"}}

\* The native stacks push_*_ctx pushes: push_op_ctx pushes the fields that
\* are not None; the other contexts push their own stack.
Pushed(o) == IF o.cls = "op" THEN {f \in OpFields : o[f] # None} ELSE {o.cls}

\* The stacks __exit__ pops: pop_op_ctx(pop_x = (self.x is not None))
\* (lines 52-57); the other contexts pop their own stack.
Popped(o) == IF o.cls = "op" THEN {f \in OpFields : o[f] # None} ELSE {o.cls}

\* Construction through hetu.context, control_dependencies, autocast,
\* cpu_offload, profiler or subgraph.
Construct(c) ==
  /\ obj[c] = NoObj
  /\ \E o \in OpObjects \cup OtherObjects : obj' = [obj EXCEPT ![c] = o]
  /\ UNCHANGED <<stacks, withStack>>

\* __enter__: push the object's stacks.  An object may be entered again
\* while it is open.
Enter(c) ==
  /\ obj[c] # NoObj
  /\ Len(withStack) < MaxDepth
  /\ stacks' = [s \in StackNames |->
                  IF s \in Pushed(obj[c]) THEN Append(stacks[s], c) ELSE stacks[s]]
  /\ withStack' = Append(withStack, c)
  /\ UNCHANGED obj

\* __exit__ of the innermost open block.
Exit(c) ==
  /\ withStack # <<>>
  /\ Last(withStack) = c
  /\ stacks' = [s \in StackNames |->
                  IF s \in Popped(obj[c]) THEN Front(stacks[s]) ELSE stacks[s]]
  /\ withStack' = Front(withStack)
  /\ UNCHANGED obj

Init ==
  /\ obj = [c \in Ctx |-> NoObj]
  /\ stacks = [s \in StackNames |-> <<>>]
  /\ withStack = <<>>

Next == \E c \in Ctx : Construct(c) \/ Enter(c) \/ Exit(c)

Spec == Init /\ [][Next]_vars

-----------------------------------------------------------------------------
(* Properties                                                               *)

TypeOK ==
  /\ obj \in [Ctx -> {NoObj} \cup
              [cls : Classes, eager_device : {None, "device"},
               device_group_hierarchy : {None, "hierarchy"},
               stream_index : {None, 0, 1}, extra_deps : {None, "group"}]]
  /\ stacks \in [StackNames -> Seq(Ctx)]
  /\ withStack \in Seq(Ctx)

=============================================================================
