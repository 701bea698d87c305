----------------------------- MODULE MCListPage -----------------------------
(* Instances of ListPage for TLC. *)
EXTENDS ListPage

\* The second file is found by its type only once it has been overwritten.
MCItems == {"x.bak", "y.zip"}

MCKey == [Modified |-> [i \in MCItems |-> [v \in 1..2 |-> IF i = "x.bak" THEN 3 - v ELSE v]]]

MCAccepts == [t \in {"x"} |-> {<<"x.bak", 1>>, <<"x.bak", 2>>, <<"y.zip", 2>>}]
=============================================================================
