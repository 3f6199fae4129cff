----------------------------- MODULE HostConfig -----------------------------
(***************************************************************************)
(* The key conversion HostsCreate applies to the config of every hosts:    *)
(* entry (keysToCamelCase and toCamelCase, src/resources/host.go 36-80)    *)
(* before EnsureItExists copies it into each host it creates.             *)
(*                                                                         *)
(* Values are the tagged records of Preprocess: a map has a map field, a   *)
(* sequence a seq field, anything else is a leaf.  A key is a sequence of *)
(* one-character strings.  keysToCamelCase writes the converted entries   *)
(* into a new map in Go map order, so when two keys convert to the same   *)
(* camel-case key the value of either may win: the operator returns the   *)
(* set of possible results.                                                *)
(***************************************************************************)
EXTENDS Sequences, SequencesExt

\* strings.ToUpper on the letters keys are drawn from; "_" and upper-case
\* letters are left alone.
UpperOf == ("a" :> "A") @@ ("b" :> "B")
ToUpper(c) == IF c \in DOMAIN UpperOf THEN UpperOf[c] ELSE c

\* The buffer of toCamelCase: each character after an "_" upper-cased.
CamelBuffer(s) == [i \in 1..Len(s) |-> IF i > 1 /\ s[i-1] = "_" THEN ToUpper(s[i]) ELSE s[i]]

\* Mutant: the final strings.Replace is left out.
ToCamelCaseNoReplace(s) == CamelBuffer(s)
\* toCamelCase, host.go 70-80: the buffer with every "_" removed.
ToCamelCase(s) == Remove(CamelBuffer(s), "_")

\* keysToCamelCase, host.go 36-68: the possible results for item.  Both map
\* cases (string and interface keys) convert every key and recurse into
\* its value; a sequence is rebuilt element by element; a leaf is kept.
RECURSIVE KeysToCamelCase(_)
KeysToCamelCase(item) ==
    CASE item.t = "map" ->
           LET m == item.map
               C == {ToCamelCase(k) : k \in DOMAIN m}
               Outs == UNION {KeysToCamelCase(m[k]) : k \in DOMAIN m}
           IN {[t |-> "map", map |-> r] :
                 r \in {r \in [C -> Outs] :
                          \A c \in C : \E k \in DOMAIN m :
                              ToCamelCase(k) = c /\ r[c] \in KeysToCamelCase(m[k])}}
      [] item.t = "seq" ->
           LET q == item.seq
               Outs == UNION {KeysToCamelCase(q[i]) : i \in DOMAIN q}
           IN {[t |-> "seq", seq |-> r] :
                 r \in {r \in [DOMAIN q -> Outs] :
                          \A i \in DOMAIN q : r[i] \in KeysToCamelCase(q[i])}}
      [] OTHER -> {item}

-----------------------------------------------------------------------------
(* The conversion its comment names, "map keys from underscore separated  *)
(* to camel case", stated on words.                                        *)

\* The "_"-separated words of s.
RECURSIVE Words(_)
Words(s) ==
    LET i == SelectInSeq(s, LAMBDA c : c = "_")
    IN IF i = 0 THEN <<s>> ELSE <<SubSeq(s, 1, i - 1)>> \o Words(SubSeq(s, i + 1, Len(s)))

Capitalize(w) == IF w = <<>> THEN w ELSE <<ToUpper(Head(w))>> \o Tail(w)

\* The first word as it is, then every later word capitalized.
CamelOfWords(s) ==
    LET ws == Words(s)
    IN FlattenSeq(<<ws[1]>> \o [i \in 1..(Len(ws) - 1) |-> Capitalize(ws[i + 1])])

\* y is x with every map key, at any depth, replaced by its camel-case
\* form, and each converted key holding the converted value of one of the
\* keys that gave it.
RECURSIVE Renamed(_, _)
Renamed(x, y) ==
    CASE x.t = "map" ->
           /\ y.t = "map"
           /\ DOMAIN y.map = {CamelOfWords(k) : k \in DOMAIN x.map}
           /\ \A c \in DOMAIN y.map : \E k \in DOMAIN x.map :
                 CamelOfWords(k) = c /\ Renamed(x.map[k], y.map[c])
      [] x.t = "seq" ->
           /\ y.t = "seq"
           /\ DOMAIN y.seq = DOMAIN x.seq
           /\ \A i \in DOMAIN x.seq : Renamed(x.seq[i], y.seq[i])
      [] OTHER -> y = x

\* keysToCamelCase converts every key of the strings given as the comment
\* says, has a result for every tree, and every result it can give is the
\* tree with its keys renamed.
KeysToCamelCaseAsSpecified(strings, trees) ==
    /\ \A s \in strings : ToCamelCase(s) = CamelOfWords(s)
    /\ \A x \in trees : KeysToCamelCase(x) # {} /\ \A y \in KeysToCamelCase(x) : Renamed(x, y)

=============================================================================
