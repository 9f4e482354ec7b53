--------------------------- MODULE MCSandboxPool ---------------------------
(* Small instances of SandboxPool.  Ids are drawn at random and tenants are *)
(* treated alike, so both are interchangeable.                              *)
EXTENDS SandboxPool, TLC

CONSTANTS i1, i2, i3, t1, t2

Pair  == {i1, i2}
Three == {i1, i2, i3}
Two   == {t1, t2}
Sym   == Permutations(Ids) \cup Permutations(Tenants)
============================================================================
