---------------------------- MODULE ArgsBridge ----------------------------
(***************************************************************************)
(* parse_args of hetu/_binding/codegen/args_bridge.py (lines 78-297): the *)
(* code generator reads an operator or kernel signature such as           *)
(* "NDArray x, int axis=0, NDArray out=None" and produces one getter per  *)
(* argument, reading parsed_args by position, plus the positions of the   *)
(* self and out arguments.                                                 *)
(*                                                                         *)
(* The signature text is abstracted to the sequence of its arguments as   *)
(* args.split(", ") and arg.split(" ") cut it: a type string, a name and  *)
(* an optional default.  The empty sequence is the empty string, which    *)
(* split(", ") turns into one empty argument.                              *)
(***************************************************************************)
EXTENDS Integers, Sequences, SequencesExt

CONSTANTS
  TypeStrs,    \* type strings that may appear in a signature
  Names,       \* argument names (identifiers and non-identifiers)
  Defaults,    \* default strings
  MaxArgs,     \* longest signature enumerated
  None,        \* Python None (model value)
  NoDefault,   \* an argument written without "="
  NameMatches, \* the names that match name_pattern (line 78)
  TypeMatches, \* the type strings that match type_name_pattern (line 79)
  DefaultMatches, \* the defaults that match [^(, )]+ (line 83)
  Pending,     \* parse_args not yet called
  Error        \* parse_args raised (AssertionError or Exception)

ArgText == [type : TypeStrs, name : Names, default : Defaults \cup {NoDefault}]

-----------------------------------------------------------------------------
(* ArgType (lines 5-76), over the type strings enumerated                   *)

\* The *_STR tuples of ArgType (lines 6-22).
ArgTypeStrs ==
  ("BOOL" :> {"bool"}) @@
  ("INT64" :> {"int", "int64_t", "int64"}) @@
  ("FLOAT64" :> {"float", "double", "float64"}) @@
  ("STRING" :> {"str", "std::string", "string", "OpName", "TensorName"}) @@
  ("INT64_LIST" :> {"List[int]", "IntList", "std::vector<int64_t>", "vector<int64_t>",
                    "HTShape", "HTStride", "HTAxes"}) @@
  ("FLOAT64_LIST" :> {"List[float]", "FloatList", "std::vector<double>", "vector<double>"}) @@
  ("STRING_LIST" :> {"List[string]", "List[str]", "StringList", "std::vector<std::string>",
                     "vector<string>"}) @@
  ("PY_ARRAY" :> {"numpy.array", "numpy.ndarray", "PyArray", "NumpyArray"}) @@
  ("PY_OBJECT" :> {"PyObject*", "py_object", "py_obj"}) @@
  ("DATA_TYPE" :> {"hetu.dtype", "dtype", "DataType"}) @@
  ("DEVICE" :> {"hetu.device", "device", "Device"}) @@
  ("DEVICE_GROUP" :> {"hetu.DeviceGroup", "DeviceGroup"}) @@
  ("STREAM" :> {"hetu.stream", "stream", "Stream"}) @@
  ("ND_ARRAY" :> {"hetu.NDArray", "NDArray", "hetu.ndarray", "ndarray"}) @@
  ("ND_ARRAY_LIST" :> {"List[hetu.NDArray]", "List[NDArray]", "List[hetu.ndarray]",
                       "List[ndarray]", "NDArrayList"}) @@
  ("TENSOR" :> {"hetu.Tensor", "Tensor", "hetu.tensor", "tensor"}) @@
  ("TENSOR_LIST" :> {"List[hetu.Tensor]", "List[Tensor]", "List[hetu.tensor]",
                     "List[tensor]", "TensorList"})

\* type_str_to_type_mapping, built by init_mapping (lines 31-54).
TypeTable ==
  [s \in UNION Range(ArgTypeStrs) |-> CHOOSE t \in DOMAIN ArgTypeStrs : s \in ArgTypeStrs[t]]

\* Types whose default may only be "None" (get_arg_getter_fn).
NoneDefaultOnly == {"STRING_LIST", "PY_ARRAY", "PY_OBJECT", "DATA_TYPE",
                    "DEVICE", "DEVICE_GROUP", "STREAM", "ND_ARRAY",
                    "ND_ARRAY_LIST", "TENSOR", "TENSOR_LIST"}

\* get_ret_type (lines 63-68): "None" or a known type, else Error.
RetType(s) == CASE s = "None"             -> "NONE"
                [] s \in DOMAIN TypeTable -> TypeTable[s]
                [] OTHER                  -> Error

\* get_arg_getter_fn (lines 192-297), the getter abstracted to the type
\* read and whether it falls back to a default.
Getter(t, hasDefault, default) ==
  IF hasDefault /\ t \in NoneDefaultOnly /\ default # "None" THEN Error
  ELSE [type |-> t, optional |-> hasDefault]

-----------------------------------------------------------------------------
(* The loop of lines 123-172, one argument per step                         *)

\* The loop state: getters so far, arg_pos, prev_has_default, self_pos,
\* out_pos, args_excluding_self.
InitState == [getters |-> <<>>, pos |-> 0, prevDefault |-> FALSE,
              self_pos |-> -1, out_pos |-> -1, excl |-> <<>>]

\* Mutant: the self argument advances arg_pos like any other.
ParseArgSelfCounted(st, a, selfName, retStr) ==
  LET hasDefault == a.default # NoDefault
      t == IF a.type \in DOMAIN TypeTable THEN TypeTable[a.type] ELSE Error
      g == Getter(t, hasDefault, a.default)
      s1 == [st EXCEPT !.prevDefault = st.prevDefault \/ hasDefault]
  IN CASE t = Error                                   -> Error
       [] ~hasDefault /\ st.prevDefault               -> Error
       [] selfName # None /\ a.name = selfName        ->
            IF a.name = "out" THEN Error
            ELSE [s1 EXCEPT !.self_pos = st.pos, !.pos = st.pos + 1]
       [] a.name = "out" /\ (retStr = None \/ t # RetType(retStr)
                             \/ a.default # "None")  -> Error
       [] g = Error                                   -> Error
       [] OTHER ->
            [s1 EXCEPT !.getters = Append(st.getters, g), !.pos = st.pos + 1,
                       !.out_pos = IF a.name = "out" THEN st.pos ELSE st.out_pos,
                       !.excl = IF selfName # None THEN Append(st.excl, a) ELSE st.excl]

\* Mutant: an argument with a default is not remembered when it is self.
ParseArgSelfForgetsDefault(st, a, selfName, retStr) ==
  LET hasDefault == a.default # NoDefault
      t == IF a.type \in DOMAIN TypeTable THEN TypeTable[a.type] ELSE Error
      g == Getter(t, hasDefault, a.default)
      s1 == [st EXCEPT !.prevDefault = st.prevDefault \/ hasDefault]
  IN CASE t = Error                                   -> Error
       [] ~hasDefault /\ st.prevDefault               -> Error
       [] selfName # None /\ a.name = selfName        ->
            IF a.name = "out" THEN Error ELSE [st EXCEPT !.self_pos = st.pos]
       [] a.name = "out" /\ (retStr = None \/ t # RetType(retStr)
                             \/ a.default # "None")  -> Error
       [] g = Error                                   -> Error
       [] OTHER ->
            [s1 EXCEPT !.getters = Append(st.getters, g), !.pos = st.pos + 1,
                       !.out_pos = IF a.name = "out" THEN st.pos ELSE st.out_pos,
                       !.excl = IF selfName # None THEN Append(st.excl, a) ELSE st.excl]

\* One iteration for argument a (lines 127-172), or Error.
ParseArg(st, a, selfName, retStr) ==
  LET hasDefault == a.default # NoDefault
      t == IF a.type \in DOMAIN TypeTable THEN TypeTable[a.type] ELSE Error
      g == Getter(t, hasDefault, a.default)
      s1 == [st EXCEPT !.prevDefault = st.prevDefault \/ hasDefault]
  IN CASE t = Error                                   -> Error
       [] ~hasDefault /\ st.prevDefault               -> Error
       [] selfName # None /\ a.name = selfName        ->
            IF a.name = "out" THEN Error ELSE [s1 EXCEPT !.self_pos = st.pos]
       [] a.name = "out" /\ (retStr = None \/ t # RetType(retStr)
                             \/ a.default # "None")  -> Error
       [] g = Error                                   -> Error
       [] OTHER ->
            [s1 EXCEPT !.getters = Append(st.getters, g), !.pos = st.pos + 1,
                       !.out_pos = IF a.name = "out" THEN st.pos ELSE st.out_pos,
                       !.excl = IF selfName # None THEN Append(st.excl, a) ELSE st.excl]

RECURSIVE Loop(_, _, _, _)
Loop(st, rest, selfName, retStr) ==
  IF rest = <<>> \/ st = Error THEN st
  ELSE Loop(ParseArg(st, Head(rest), selfName, retStr), Tail(rest), selfName, retStr)

\* Mutant: ret_type is recorded as the type string, not as its ArgType.
ParseArgsRawRet(args, kind, selfName, retStr) ==
  LET st == Loop(InitState, args, selfName, retStr) IN
  CASE retStr # None /\ kind # "kernel"                   -> Error
    [] retStr # None /\ RetType(retStr) # "ND_ARRAY"      -> Error
    [] args = <<>>                                        -> Error
    [] st = Error                                         -> Error
    [] selfName # None /\ st.self_pos = -1                -> Error
    [] retStr # None /\ st.out_pos < 0                    -> Error
    [] OTHER -> [arg_getters |-> st.getters,
                 self_pos |-> IF selfName = None THEN None ELSE st.self_pos,
                 args_excluding_self |-> IF selfName = None THEN None ELSE st.excl,
                 ret_type |-> retStr,
                 out_pos |-> IF retStr = None THEN None ELSE st.out_pos]

\* parse_args (lines 91-189).  The pattern check of lines 119-121 never
\* fails: args_pattern matches the empty prefix of any string, and
\* match_obj.string is args itself.
ParseArgs(args, kind, selfName, retStr) ==
  LET st == Loop(InitState, args, selfName, retStr) IN
  CASE retStr # None /\ kind # "kernel"                   -> Error
    [] retStr # None /\ RetType(retStr) # "ND_ARRAY"      -> Error
    [] args = <<>>                                        -> Error
    [] st = Error                                         -> Error
    [] selfName # None /\ st.self_pos = -1                -> Error
    [] retStr # None /\ st.out_pos < 0                    -> Error
    [] OTHER -> [arg_getters |-> st.getters,
                 self_pos |-> IF selfName = None THEN None ELSE st.self_pos,
                 args_excluding_self |-> IF selfName = None THEN None ELSE st.excl,
                 ret_type |-> IF retStr = None THEN None ELSE RetType(retStr),
                 out_pos |-> IF retStr = None THEN None ELSE st.out_pos]

-----------------------------------------------------------------------------
(* One call of parse_args by the generator, on every bounded input         *)

VARIABLES args, kind, self_arg_name, ret_type_str, result

vars == <<args, kind, self_arg_name, ret_type_str, result>>

Init ==
  /\ args \in UNION {[1..n -> ArgText] : n \in 0..MaxArgs}
  /\ kind \in {"kernel", "operator"}
  /\ self_arg_name \in {None} \cup Names
  /\ ret_type_str \in {None, "None", "NDArray", "List[NDArray]"}
  /\ result = Pending

Parse ==
  /\ result = Pending
  /\ result' = ParseArgs(args, kind, self_arg_name, ret_type_str)
  /\ UNCHANGED <<args, kind, self_arg_name, ret_type_str>>

Spec == Init /\ [][Parse]_vars

-----------------------------------------------------------------------------
(* Properties                                                               *)

Accepted == result \notin {Pending, Error}

TypeOK ==
  /\ args \in Seq(ArgText) /\ Len(args) <= MaxArgs
  /\ result \in {Pending, Error} \cup
       [arg_getters : Seq([type : Range(TypeTable), optional : BOOLEAN]),
        self_pos : Int \cup {None}, args_excluding_self : Seq(ArgText) \cup {None},
        ret_type : {"ND_ARRAY", None}, out_pos : Int \cup {None}]

\* The arguments the generated binding reads, in signature order.
NonSelf == SelectSeq(args, LAMBDA a : a.name # self_arg_name)

LastSelf == CHOOSE p \in DOMAIN args :
              args[p].name = self_arg_name /\ \A q \in (p + 1)..Len(args) : args[q].name # self_arg_name

\* An accepted signature yields one getter per non-self argument, reading
\* position k of parsed_args for the k-th of them with the right type and
\* optionality; self_pos counts the arguments before self, and out_pos is
\* the getter of the "out" argument: the skip of self must not shift the
\* positions of the arguments after it.
ParsedIsPositional ==
  Accepted =>
    /\ result.arg_getters =
         [k \in DOMAIN NonSelf |-> [type |-> TypeTable[NonSelf[k].type],
                                    optional |-> NonSelf[k].default # NoDefault]]
    /\ self_arg_name # None =>
         result.self_pos = Len(SelectSeq(SubSeq(args, 1, LastSelf - 1),
                                         LAMBDA a : a.name # self_arg_name))
    /\ ret_type_str # None => NonSelf[result.out_pos + 1].name = "out"

\* No argument without a default follows one with a default, self included,
\* so the generated Python signature is legal.
OptionalsTrail ==
  Accepted =>
    \A i, j \in DOMAIN args :
      i < j /\ args[i].default # NoDefault => args[j].default # NoDefault

\* Every accepted signature is in the language of args_pattern, which
\* lines 119-121 check ("Invalid args"): names are identifiers, types are
\* NAME or List[NAME], and defaults contain no '(', ',', ' ' or ')'.
AcceptedMatchesPattern ==
  Accepted =>
    \A k \in DOMAIN args :
      /\ args[k].name \in NameMatches
      /\ args[k].type \in TypeMatches
      /\ args[k].default \in DefaultMatches \cup {NoDefault}
=============================================================================
