----------------------------- MODULE MCDatasets -----------------------------
(* Two files that claim one name with different extensions, a third that      *)
(* claims its path, and one whose name is no identifier.                      *)
EXTENDS Datasets, TLC

MCNameOf == ("a.csv" :> "a") @@ ("a.parquet" :> "a") @@ ("A!.csv" :> "a") @@ ("1.csv" :> "1")
MCExtOf == ("a.csv" :> "csv") @@ ("a.parquet" :> "parquet") @@ ("A!.csv" :> "csv")
           @@ ("1.csv" :> "csv")

Symmetry == Permutations(Session)
=============================================================================
