----------------------------- MODULE Predicate -----------------------------
(***************************************************************************)
(* Conditions on an entry and the fields they need                         *)
(* (src/crates/globazog/src/predicate.rs). A leaf says in `is` what it     *)
(* tests; attributes are the set of the bits that are set.                 *)
(***************************************************************************)
EXTENDS Matcher

Times == {"mtime", "atime", "ctime", "btime"}
StatFields == Times \cup {"size", "attrs"}
Fields == StatFields \cup {"type", "reparse"}

-----------------------------------------------------------------------------
(* Leaves on the name *)

Literals(name) == [i \in DOMAIN name |-> Literal(name[i])]

NameGlob(tokens, case) == [is |-> "name", seg |-> tokens, case |-> case, negate |-> FALSE]
NameExact(name, case) == NameGlob(Literals(name), case)

\* Mutant: nothing may follow the needle.
NameEndsWith(needle, case) == NameGlob(<<Star>> \o Literals(needle), case)

NameContains(needle, case) == NameGlob(<<Star>> \o Literals(needle) \o <<Star>>, case)
NameExtension(dot, ext, case) == NameGlob(<<Star, Literal(dot)>> \o Literals(ext), case)
NameInSet(names, case) ==
    [is |-> "nameInSet", segs |-> {Literals(n) : n \in names}, case |-> case, negate |-> FALSE]

-----------------------------------------------------------------------------
(* Evaluation *)

Compare(op, a, b) ==
    CASE op = "lt" -> a < b [] op = "le" -> a <= b [] op = "eq" -> a = b
      [] op = "ne" -> a # b [] op = "ge" -> a >= b [] op = "gt" -> a > b

EvalLeaf(leaf, meta) ==
    CASE leaf.is = "name" -> MatchSegment(leaf.seg, meta.name, leaf.case) # leaf.negate
      [] leaf.is = "nameInSet" ->
             (\E seg \in leaf.segs : MatchSegment(seg, meta.name, leaf.case)) # leaf.negate
      [] leaf.is = "type" -> (meta.type = leaf.type) # leaf.negate
      [] leaf.is = "reparse" -> meta.reparse # leaf.negate
      [] leaf.is = "tag" -> (meta.tag = leaf.tag) # leaf.negate
      [] leaf.is = "allSet" -> leaf.mask \subseteq meta.attrs
      [] leaf.is = "allClear" -> leaf.mask \cap meta.attrs = {}
      [] OTHER -> Compare(leaf.op, meta[leaf.is], leaf.value)   \* the size, a time, the depth

EvalAll(leaves, meta) == \A leaf \in leaves : EvalLeaf(leaf, meta)

-----------------------------------------------------------------------------
(* The fields a query needs *)

LeafFields(leaf) ==
    CASE leaf.is \in {"name", "nameInSet", "depth"} -> {}
      [] leaf.is = "type" -> {"type"}
      [] leaf.is \in {"reparse", "tag"} -> {"reparse"}
      [] leaf.is \in {"allSet", "allClear"} -> {"attrs"}
      [] OTHER -> {leaf.is}

RequiredFields(leaves) == UNION {LeafFields(leaf) : leaf \in leaves}

\* Mutant: the conjunctions of the patterns are left out.
FetchMaskOfDescend(q) == q.shape \cup RequiredFields(q.descend)

FetchMask(q) ==
    q.shape \cup RequiredFields(q.descend) \cup UNION {RequiredFields(c) : c \in q.emit}
=============================================================================
