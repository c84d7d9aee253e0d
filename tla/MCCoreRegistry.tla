--------------------------- MODULE MCCoreRegistry ---------------------------
(***************************************************************************)
(* An instance of CoreRegistry for TLC: two reading tasks on three slots,  *)
(* where publish() can find every slot pinned.                             *)
(***************************************************************************)
EXTENDS CoreRegistry, TLC

CONSTANTS r1, r2, a, b

MCReaders == {r1, r2}
MCPayload == {a, b}
MCInitPayload == a

Symmetry == Permutations(MCReaders)
=============================================================================
