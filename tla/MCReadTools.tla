----------------------------- MODULE MCReadTools -----------------------------
(* An instance of ReadTools: one client with every tool, and one that      *)
(* selects in between.                                                     *)
EXTENDS ReadTools, TLC

CONSTANTS c1, c2, listPrice, atId, year, count, fileName

\* No name, as many names as the limit, and more than it.
MCSamples == {<<>>, <<listPrice, count>>, <<atId, fileName, year>>}

\* Each name reads in two ways, and together they are of every kind.
MCStores == {listPrice :> "data" @@ count :> "raises" @@ atId :> "empty" @@ fileName :> "other" @@ year :> "data",
             listPrice :> "other" @@ count :> "data" @@ atId :> "data" @@ fileName :> "empty" @@ year :> "raises"}

MCTools == c1 :> Tools @@ c2 :> {"select"}
=============================================================================
