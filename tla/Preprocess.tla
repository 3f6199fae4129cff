----------------------------- MODULE Preprocess -----------------------------
(***************************************************************************)
(* The value preprocessor (src/parser/preprocess.go), which Merge runs on  *)
(* the service map of a file (merge.go 65-66) before the version merge.    *)
(*                                                                         *)
(* A YAML value is a tagged record: null, a bool, an int, a string, a      *)
(* sequence or a map (a function from indices or keys to values).         *)
(* preProcess rebuilds the tree and, for environment and labels, turns    *)
(* every non-nil leaf into the string fmt.Sprint gives it;                *)
(* tryConvertStringsToInts rebuilds it again and, for the fields          *)
(* getRancherConfigObjects finds (the struct, pointer and slice fields of *)
(* config.RancherConfig, a constant here), replaces every string          *)
(* strconv.Atoi accepts by its integer.  Both walks are pure, so they are *)
(* operators, checked against the leaf-wise description of spec section   *)
(* 4.4 over every tree of a bounded depth.                                *)
(***************************************************************************)
EXTENDS Integers, Sequences, TLC

CONSTANTS
    RancherFields,  \* the field names getRancherConfigObjects returns
    Atoi            \* the strings strconv.Atoi accepts, mapped to their integer

Null == [t |-> "null"]
YStr(s) == [t |-> "str", s |-> s]
YInt(n) == [t |-> "int", n |-> n]
YBool(b) == [t |-> "bool", b |-> b]
IsLeaf(x) == x.t \notin {"seq", "map"}
\* The children of a sequence or map, by index or key.
Kids(x) == IF x.t = "seq" THEN x.seq ELSE x.map

\* fmt.Sprint of a scalar, and of nil.
Sprint(x) ==
    CASE x.t = "bool" -> YStr(IF x.b THEN "true" ELSE "false")
      [] x.t = "int"  -> YStr(ToString(x.n))
      [] x.t = "null" -> YStr("<nil>")
      [] OTHER        -> x

\* The leaf case of preProcess, and a mutant that drops its nil check.
PreProcessLeafNoNilGuard(x, replaceTypes) == IF replaceTypes THEN Sprint(x) ELSE x
PreProcessLeaf(x, replaceTypes) == IF replaceTypes /\ x # Null THEN Sprint(x) ELSE x

\* preProcess, preprocess.go 33-55: the same map or sequence, rebuilt.
RECURSIVE PreProcess(_, _)
PreProcess(item, replaceTypes) ==
    CASE item.t = "map" -> [item EXCEPT !.map = [k \in DOMAIN @ |-> PreProcess(@[k], replaceTypes)]]
      [] item.t = "seq" -> [item EXCEPT !.seq = [i \in DOMAIN @ |-> PreProcess(@[i], replaceTypes)]]
      [] OTHER          -> PreProcessLeaf(item, replaceTypes)

\* tryConvertStringsToInts, preprocess.go 57-83.
RECURSIVE TryConvertStringsToInts(_, _)
TryConvertStringsToInts(item, replaceTypes) ==
    CASE item.t = "map" -> [item EXCEPT !.map = [k \in DOMAIN @ |-> TryConvertStringsToInts(@[k], replaceTypes)]]
      [] item.t = "seq" -> [item EXCEPT !.seq = [i \in DOMAIN @ |-> TryConvertStringsToInts(@[i], replaceTypes)]]
      [] item.t = "str" /\ replaceTypes /\ item.s \in DOMAIN Atoi -> YInt(Atoi[item.s])
      [] OTHER          -> item

\* The body of the loop of preProcessServiceMap, preprocess.go 17-27, for
\* the value v2 of field k2.
PreProcessField(k2, v2) ==
    TryConvertStringsToInts(PreProcess(v2, k2 \in {"environment", "labels"}),
                            k2 \in RancherFields)

\* preProcessServiceMap, preprocess.go 12-31.
PreProcessServiceMap(serviceMap) ==
    [k \in DOMAIN serviceMap |->
        [k2 \in DOMAIN serviceMap[k] |-> PreProcessField(k2, serviceMap[k][k2])]]

-----------------------------------------------------------------------------
(* Spec section 4.4, stated on the paths of a tree.                        *)

\* Trees of YAML values up to depth d over the given leaves, map keys and
\* sequence length.
RECURSIVE Trees(_, _, _, _)
Trees(d, leaves, keys, len) ==
    IF d = 0 THEN leaves
    ELSE LET sub == Trees(d - 1, leaves, keys, len)
         IN leaves
            \cup {[t |-> "seq", seq |-> s] : s \in UNION {[1..n -> sub] : n \in 0..len}}
            \cup {[t |-> "map", map |-> m] : m \in UNION {[D -> sub] : D \in SUBSET keys}}

\* The paths to the leaves of x, and the leaf at a path.
RECURSIVE LeafPaths(_)
LeafPaths(x) ==
    IF IsLeaf(x) THEN {<<>>}
    ELSE UNION {{<<k>> \o p : p \in LeafPaths(Kids(x)[k])} : k \in DOMAIN Kids(x)}

RECURSIVE At(_, _)
At(x, p) == IF p = <<>> THEN x ELSE At(Kids(x)[Head(p)], Tail(p))

\* The shape of x: the paths to its leaves and to its empty maps and
\* sequences, each index or key written as a string.
RECURSIVE Shape(_)
Shape(x) ==
    IF IsLeaf(x) THEN {<<"leaf">>}
    ELSE IF DOMAIN Kids(x) = {} THEN {<<x.t>>}
    ELSE UNION {{<<ToString(k)>> \o p : p \in Shape(Kids(x)[k])} : k \in DOMAIN Kids(x)}

\* The leaf the spec asks for in field f: the string form of a scalar of
\* environment or labels, the integer of an integer string in a Rancher
\* field, the leaf itself otherwise; a null node is absent and stays so.
SpecLeaf(f, l) ==
    CASE f \in {"environment", "labels"} /\ l # Null -> Sprint(l)
      [] f \in RancherFields /\ l.t = "str" /\ l.s \in DOMAIN Atoi -> YInt(Atoi[l.s])
      [] OTHER -> l

\* Spec section 4.4 for a service-map pipeline Pipeline: it keeps the
\* shape of every field's tree, turns each scalar leaf of environment and
\* labels into its string and each integer string under a Rancher field
\* into the integer, keeps nil nodes nil and leaves every other leaf alone.
ConformsTo44(Pipeline(_), fields, trees) ==
    \A x \in trees :
        LET serviceMap == [svc |-> [f \in fields |-> x]]
        IN \A f \in fields :
             LET out == Pipeline(serviceMap).svc[f]
             IN /\ Shape(out) = Shape(x)
                /\ \A p \in LeafPaths(x) : At(out, p) = SpecLeaf(f, At(x, p))

\* Spec section 4.4, for the values preProcessServiceMap meets.
PreprocessAsSpecified(fields, trees) == ConformsTo44(PreProcessServiceMap, fields, trees)

=============================================================================
