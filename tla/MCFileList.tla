----------------------------- MODULE MCFileList -----------------------------
(* Instances of FileList for TLC. *)
EXTENDS FileList

\* Two files of the same name in other letters, two of the same date when new,
\* and one that is found by its type only once it has been overwritten.
MCItems == {"x.bak", "X.bak", "y.zip"}

MCKey == [Filename   |-> [i \in MCItems |-> [v \in 1..2 |-> IF i = "y.zip" THEN 2 ELSE 1]],
          Modified   |-> [i \in MCItems |-> [v \in 1..2 |-> IF i = "X.bak" THEN 3 - v ELSE v]],
          Compressed |-> [i \in MCItems |-> [v \in 1..2 |-> IF i = "y.zip" THEN v - 1 ELSE 0]]]

MCAccepts == [t \in {"x"} |-> {<<"x.bak", 1>>, <<"x.bak", 2>>, <<"X.bak", 1>>, <<"X.bak", 2>>, <<"y.zip", 2>>}]
=============================================================================
