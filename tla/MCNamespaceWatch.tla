--------------------------- MODULE MCNamespaceWatch ---------------------------
(* Small instances of NamespaceWatch for TLC. *)
EXTENDS NamespaceWatch, TLC

CONSTANTS w1, w2, k1, k2, k3, n1

MCWorkers == {w1, w2}
MCCaches == {k1, k2, k3}
MCNamespaces == {n1}

WatchSymmetry == Permutations(Workers) \cup Permutations(Caches)
===============================================================================
