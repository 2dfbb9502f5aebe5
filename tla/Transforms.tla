----------------------------- MODULE Transforms -----------------------------
(***************************************************************************)
(* executeTransform: the outputs of other steps go through a list of ops.  *)
(* Values are trees of objects and arrays over atoms; of an atom count its *)
(* number, if it is one, and its text, of which the order of texts is the  *)
(* place in Texts.  Filters and maps are two JMESPath expressions, "[?f]"  *)
(* and "results", and items are sorted and deduplicated by field "f".      *)
(* sort.SliceStable is an insertion sort up to 20 elements.  Merge stands  *)
(* for deepMerge, of which MergeLevel is one level (module DeepMerge).     *)
(***************************************************************************)
EXTENDS Integers, Sequences, FiniteSets, Functions, SequencesExt

CONSTANTS
  Texts,    \* the texts of atoms, in their order
  Inputs,   \* the inputs of the step: a set of sequences of outputs
  Others,   \* the outputs a merge may name
  MaxOps,   \* the number of ops
  Merge(_, _)  \* deepMerge

Rank(t) == CHOOSE i \in DOMAIN Texts : Texts[i] = t

Nil       == [kind |-> "nil", text |-> "<nil>"]
Num(n, t) == [kind |-> "num", n |-> n, text |-> t]
Text(t)   == [kind |-> "text", text |-> t]
List(s)   == [kind |-> "list", items |-> s]
Obj(f)    == [kind |-> "obj", fields |-> f]

\* An output that is merged is an object.
ASSUME TransformsAssumption ==
  /\ MaxOps \in Nat
  /\ Texts \in Seq(STRING) /\ IsInjective(Texts) /\ Nil.text \in Range(Texts)
  /\ \A o \in Others : o.kind = "obj"

VARIABLES
  data,    \* currentData
  op,      \* the op that made it
  before,  \* history: what op was applied to
  other,   \* the output that a merge names
  count    \* ops that were applied

transformVars == <<data, op, before, other, count>>

-----------------------------------------------------------------------------

Override(f, g) == [k \in DOMAIN f \cup DOMAIN g |-> IF k \in DOMAIN g THEN g[k] ELSE f[k]]

\* One input is taken as it is, several are merged flat: the last one wins.
CollectInputs(inputs) ==
  IF inputs = <<>> THEN Nil
  ELSE IF Len(inputs) = 1 THEN Head(inputs)
  ELSE FoldLeft(LAMBDA m, i : Obj(Override(m.fields, i.fields)), Obj(<<>>), inputs)

\* The keys that two objects share, for which deepMerge calls itself.
Shared(a, b) ==
  IF a.kind = "obj" /\ b.kind = "obj" THEN DOMAIN a.fields \cap DOMAIN b.fields ELSE {}

\* deepMerge: objects are merged key by key and arrays joined; otherwise b wins.
\* below has what the calls for shared keys return.
MergeLevel(a, b, below) ==
  IF a.kind = "obj" /\ b.kind = "obj"
    THEN Obj([k \in DOMAIN a.fields \cup DOMAIN b.fields |->
           IF k \in Shared(a, b) THEN below[k]
           ELSE IF k \in DOMAIN b.fields THEN b.fields[k] ELSE a.fields[k]])
  ELSE IF a.kind = "list" /\ b.kind = "list" THEN List(a.items \o b.items)
  ELSE b

\* A JMESPath field of an item; of anything but an object it is nil.
Field(v, f) ==
  IF v.kind = "obj" /\ f \in DOMAIN v.fields THEN v.fields[f] ELSE Nil

\* Mutant: nil is less than everything.
LessNilFirst(a, b) ==
  IF a.kind = "nil" THEN b.kind # "nil"
  ELSE IF b.kind = "nil" THEN FALSE
  ELSE IF a.kind = "num" /\ b.kind = "num" THEN a.n < b.n
  ELSE Rank(a.text) < Rank(b.text)

\* compareValues
Less(a, b) ==
  IF a.kind = "nil" THEN FALSE
  ELSE IF b.kind = "nil" THEN TRUE
  ELSE IF a.kind = "num" /\ b.kind = "num" THEN a.n < b.n
  ELSE Rank(a.text) < Rank(b.text)

\* The comparison of applySort: for "desc" its result is negated.
Precedes(a, b, order) ==
  LET less == Less(Field(a, "f"), Field(b, "f"))
  IN IF order = "desc" THEN ~less ELSE less

\* An item moves left past everything it precedes.
Insert(s, x, order) ==
  LET at == CHOOSE i \in 1..(Len(s) + 1) :
              /\ \A j \in i..Len(s) : Precedes(x, s[j], order)
              /\ i > 1 => ~Precedes(x, s[i - 1], order)
  IN InsertAt(s, at, x)

Sort(s, order) ==
  LET sorted[i \in 0..Len(s)] ==
        IF i = 0 THEN <<>> ELSE Insert(sorted[i - 1], s[i], order)
  IN sorted[Len(s)]

\* applyFlatten: one level.
Flatten(s) ==
  FlattenSeq([i \in DOMAIN s |-> IF s[i].kind = "list" THEN s[i].items ELSE <<s[i]>>])

\* applyDeduplicate: items are told apart by the text of the field.
KeyText(x) == Field(x, "f").text
Deduplicate(s) ==
  LET result[i \in 0..Len(s)] ==
        IF i = 0 THEN <<>>
        ELSE IF \E j \in DOMAIN result[i - 1] : KeyText(result[i - 1][j]) = KeyText(s[i])
          THEN result[i - 1]
        ELSE Append(result[i - 1], s[i])
  IN result[Len(s)]

\* applyFilter and applyMap take what is no array for an array of one item,
\* and nil for an empty one.
Items(v) == IF v.kind = "list" THEN v.items
            ELSE IF v.kind = "nil" THEN <<>> ELSE <<v>>

Filter(s)  ==
  FlattenSeq([i \in DOMAIN s |-> IF Field(s[i], "f").kind # "nil" THEN <<s[i]>> ELSE <<>>])
MapOver(s) == [i \in DOMAIN s |-> Field(s[i], "results")]

-----------------------------------------------------------------------------

TransformsInit ==
  /\ \E inputs \in Inputs : data = CollectInputs(inputs)
  /\ other \in Others
  /\ before = data
  /\ op = "inputs"
  /\ count = 0

\* applyOp; a sort of what is no array fails the step.
Apply(o, v) ==
  /\ op # "error" /\ count < MaxOps
  /\ before' = data /\ data' = v /\ op' = o
  /\ count' = count + 1
  /\ UNCHANGED other

MergeOp == Apply("merge", Merge(data, other))

SortOp(order) ==
  IF data.kind = "list" THEN Apply(order, List(Sort(data.items, order)))
                        ELSE Apply("error", data)

FilterOp == Apply("filter", List(Filter(Items(data))))

MapOp == Apply("map", List(MapOver(Items(data))))

FlattenOp ==
  Apply("flatten", IF data.kind = "list" THEN List(Flatten(data.items)) ELSE data)

DeduplicateOp ==
  Apply("deduplicate", IF data.kind = "list" THEN List(Deduplicate(data.items)) ELSE data)

TransformsNext ==
  \/ MergeOp \/ (\E o \in {"asc", "desc"} : SortOp(o)) \/ FilterOp \/ MapOp
  \/ FlattenOp \/ DeduplicateOp

TransformsSpec == TransformsInit /\ [][TransformsNext]_transformVars

-----------------------------------------------------------------------------

\* Where the documentation puts an item: by number, or by text, and nil last.
Place(v) ==
  LET f == Field(v, "f")
  IN CASE f.kind = "num" -> <<0, f.n>>
       [] f.kind = "nil" -> <<2, 0>>
       [] OTHER -> <<1, Rank(f.text)>>

Before(p, q) == p[1] < q[1] \/ (p[1] = q[1] /\ p[2] < q[2])

\* Numbers and texts together are not ordered: 9 < 10 < "5x" < "9".
Ordered(s) ==
  ~\E i, j \in DOMAIN s :
     Field(s[i], "f").kind = "num" /\ Field(s[j], "f").kind = "text"

StablySorted(s, t) ==
  /\ Len(s) = Len(t)
  /\ \E p \in Bijection(DOMAIN s, DOMAIN t) : \A i \in DOMAIN s :
       /\ s[i] = t[p[i]]
       /\ \A j \in DOMAIN s : i < j =>
            \/ Before(Place(s[i]), Place(s[j]))
            \/ Place(s[i]) = Place(s[j]) /\ p[i] < p[j]

\* An ascending sort is stable and puts nil last; a descending one is its
\* reverse, so that nil comes first and equal items are swapped.
SortAgrees ==
  op \in {"asc", "desc"} /\ Ordered(before.items) =>
    StablySorted(IF op = "asc" THEN data.items ELSE Reverse(data.items), before.items)

\* Where the first item of each text is.
Firsts(s) == {i \in DOMAIN s : \A j \in 1..(i - 1) : KeyText(s[j]) # KeyText(s[i])}

OnlyFirsts(s) ==
  [k \in 1..Cardinality(Firsts(s)) |->
     s[CHOOSE i \in Firsts(s) : Cardinality(Firsts(s) \cap 1..i) = k]]

\* Of the items of one text the first stays, and those that stay keep their order.
DeduplicateAgrees ==
  op = "deduplicate" /\ before.kind = "list" => data.items = OnlyFirsts(before.items)

\* What a and b give at a key is what each says of it: b for a value that b alone
\* has or that is no object and no array for both, and both arrays.
JoinedAt(a, b, c, k) ==
  /\ k \notin DOMAIN b => c[k] = a[k]
  /\ k \notin DOMAIN a => c[k] = b[k]
  /\ k \in DOMAIN a \cap DOMAIN b =>
       /\ {a[k].kind, b[k].kind} = {"list"} => c[k] = List(a[k].items \o b[k].items)
       /\ {a[k].kind, b[k].kind} \notin {{"list"}, {"obj"}} => c[k] = b[k]

Joined(a, b, c) ==
  /\ DOMAIN c = DOMAIN a \cup DOMAIN b
  /\ \A k \in DOMAIN c : JoinedAt(a, b, c, k)

\* What a merge names is there afterwards, two levels down, and of what was
\* there everything is that was not named.
MergeAgrees ==
  op = "merge" /\ before.kind = "obj" =>
    LET was   == before.fields
        named == other.fields
        now   == data.fields
    IN /\ Joined(was, named, now)
       /\ \A k \in DOMAIN was \cap DOMAIN named :
            {was[k].kind, named[k].kind} = {"obj"} =>
              Joined(was[k].fields, named[k].fields, now[k].fields)

\* The ops do what a reference definition of each says.
OpsAgree == SortAgrees /\ DeduplicateAgrees /\ MergeAgrees
=============================================================================
