\* Four files over two names; two readable contents and a broken one; two sessions.
CONSTANTS
    File = {"a.csv", "a.parquet", "A!.csv", "1.csv"}
    NameOf <- MCNameOf
    ExtOf <- MCExtOf
    Content = {c1, c2, broken}
    Broken = {broken}
    Unusable = {"1"}
    Session = {s1, s2}
    None = none
SYMMETRY Symmetry
SPECIFICATION Spec
INVARIANTS TablesShowUploads
