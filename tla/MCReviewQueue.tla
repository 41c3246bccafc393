--------------------------- MODULE MCReviewQueue ---------------------------
(***************************************************************************)
(* Instances of ReviewQueue.                                               *)
(***************************************************************************)
EXTENDS ReviewQueue, TLC

CONSTANTS save, delete, s1, s2, t1, w1

MCKeys == {save, delete}
MCOrder == <<delete, save>>
MCFilters == {{}, {"source_changed"}}
OneText == {t1}

MCSources == {s1, s2}
OnlyReady == {"translated"}

MCSymmetry == Permutations(MCSources)
=============================================================================
