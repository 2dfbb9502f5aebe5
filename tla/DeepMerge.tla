------------------------------ MODULE DeepMerge ------------------------------
(***************************************************************************)
(* deepMerge, all of it: what the Merge of a transform is.                 *)
(***************************************************************************)
EXTENDS Transforms

RECURSIVE DeepMerge(_, _)
DeepMerge(a, b) ==
  MergeLevel(a, b, [k \in Shared(a, b) |-> DeepMerge(a.fields[k], b.fields[k])])
=============================================================================
