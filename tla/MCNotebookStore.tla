--------------------------- MODULE MCNotebookStore ---------------------------
EXTENDS NotebookStore, TLC

Symmetry == Permutations(Paths) \union Permutations(Tasks)
=============================================================================
