--------------------------- MODULE MC_ContainerUp ---------------------------
(* web links db and, through external_links, the container ext of another *)
(* stack; db links nothing.                                                *)
EXTENDS ContainerUp

CONSTANTS web, db, ext

MC_Containers == {web, db}
MC_Foreign == {ext}
MC_Links == [c \in MC_Containers |-> IF c = web THEN {db} ELSE {}]
MC_ExternalLinks == [c \in MC_Containers |-> IF c = web THEN {ext} ELSE {}]
MC_Ids == 1..3
MC_InitialId == [n \in {web, db, ext} |-> CASE n = web -> 1 [] n = db -> 2 [] OTHER -> 3]
=============================================================================
