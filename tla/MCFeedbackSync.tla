--------------------------- MODULE MCFeedbackSync ---------------------------
(* Small instances of FeedbackSync: taps and exchanges are model values.   *)
EXTENDS FeedbackSync, TLC

TapSymmetry == Permutations(Taps) \cup Permutations(Flushes)
=============================================================================
