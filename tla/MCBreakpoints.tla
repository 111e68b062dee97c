--------------------------- MODULE MCBreakpoints ---------------------------
\* Breakpoints with a few words of RAM, one of ROM and one that aborts.
EXTENDS Breakpoints, TLC

Symmetry == Permutations(Ram)

=============================================================================
