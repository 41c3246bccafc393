-------------------------- MODULE MCSourceWorkflow --------------------------
(***************************************************************************)
(* Instances of SourceWorkflow.                                            *)
(***************************************************************************)
EXTENDS SourceWorkflow, TLC

CONSTANTS save, delete, s1, s2, c1, t1, t2, w1, w2

OneKey == {save}
TwoKeys == {save, delete}
OneContext == {NoContext}
TwoContexts == {NoContext, c1}
OneWorker == {w1}
TwoWorkers == {w1, w2}
MCSources == {s1, s2}
OneText == {t1}
TwoTexts == {t1, t2}
OnlyDrafts == {"needs_review"}
DraftOrReady == {"needs_review", "translated"}
WithStale == {"needs_review", "translated", "stale"}

MCSymmetry == Permutations(TwoWorkers) \cup Permutations(MCSources) \cup Permutations(TwoTexts)
=============================================================================
