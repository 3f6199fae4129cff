----------------------------- MODULE MC_Lookup -----------------------------
(* Two questions, Q1 and Q2, from the catalog: section of a version 2      *)
(* file whose .catalog service also asks Q1; two answer lines piped on     *)
(* stdin; an OS environment and an env file that set HOME, and an env-file *)
(* entry Q3 without '='.                                                   *)
EXTENDS Lookup

Q(v, d) == [variable |-> v, default |-> d]

MC_Keys == {"Q1", "Q2", "Q3", "HOME"}
MC_OsEnv == "HOME" :> "/root"
MC_EnvFile == <<[key |-> "HOME", eq |-> TRUE, val |-> "/srv"],
                [key |-> "Q3", eq |-> FALSE, val |-> ""]>>
MC_CatalogDoc ==
    [version |-> "2",
     service |-> [questions |-> <<Q("Q1", "d0")>>],
     catalog |-> [questions |-> <<Q("Q1", "d0"), Q("Q2", "d2"), Q("Q1", "d1")>>],
     dotCatalog |-> NoCatalog]
MC_Input == <<"yes", "no">>
=============================================================================
