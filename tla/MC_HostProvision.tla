-------------------------- MODULE MC_HostProvision --------------------------
(* Two hosts: entries: a with count 2, b with count 0 (one host) and a     *)
(* host template.                                                          *)
EXTENDS HostProvision

CONSTANTS a, b, p1, p2

MC_HostSets == {a, b}
MC_Count == [h \in MC_HostSets |-> IF h = a THEN 2 ELSE 0]
MC_Template == [h \in MC_HostSets |-> h = b]

\* The trees of Preprocess, over two leaves and two keys that convert to
\* the same camel-case key "aB", to depth 2 with sequences of length 2.
PP == INSTANCE Preprocess WITH RancherFields <- {}, Atoi <- <<>>
HC == INSTANCE HostConfig
CamelKeys == {<<"a", "_", "b">>, <<"a", "B">>}
HCConforms ==
    HC!KeysToCamelCaseAsSpecified(
        HC!BoundedSeq({"a", "b", "B", "_"}, 4),
        PP!Trees(2, {PP!Null, PP!YStr("x")}, CamelKeys, 2))

\* The hostConfig every running EnsureItExists copies into the hosts it
\* creates is its entry's config with every key, at any depth, turned from
\* underscore separated into camel case (keysToCamelCase in HostsCreate),
\* whichever of two colliding keys Go's map order lets win.
HostConfigCamelCase == \A p \in Procs : pc[p] = "list" => HCConforms

=============================================================================
