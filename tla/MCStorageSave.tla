--------------------------- MODULE MCStorageSave ---------------------------
\* StorageSave on a volume of a few chains, with interchangeable contents.
EXTENDS StorageSave, TLC

Symmetry == Permutations(Values) \cup Permutations(Chains)

=============================================================================
