--------------------------- MODULE MCTestBootstrap ---------------------------
EXTENDS TestBootstrap, TLC

MCSymmetry == Permutations(Tools)
=============================================================================
