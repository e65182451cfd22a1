----------------------------- MODULE MCCubeJobs -----------------------------
(* Three cubes, a page each.  The default filter takes the most liked cube *)
(* and the described ones; the narrow one only those described, of the     *)
(* larger cubes, and one cube in all.  In the later catalogue the first    *)
(* cube has grown and got a description, and the second has overtaken it.  *)
EXTENDS CubeJobs

MCPages == <<{1}, {2}, {3}>>
Fact(cards, described, likes) ==
    [cards |-> cards, described |-> described, followed |-> FALSE, likes |-> likes]
Earlier == <<Fact(1, FALSE, 3), Fact(2, FALSE, 2), Fact(2, TRUE, 1)>>
Later == [Earlier EXCEPT ![1] = Fact(2, TRUE, 1)]
MCCatalogues == {Earlier, Later}
MCDefaultFilter == [cards |-> {1, 2}, described |-> FALSE, top |-> 1, cap |-> 0]
MCFilters == {MCDefaultFilter, [cards |-> {2}, described |-> TRUE, top |-> 1, cap |-> 1]}
=============================================================================
