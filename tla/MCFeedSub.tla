------------------------------ MODULE MCFeedSub ------------------------------
(* Model-checking instance of FeedSub: two Subs, two symbols, two events. *)
EXTENDS FeedSub, TLC

MCSymmetry == Permutations(Handles) \cup Permutations(Symbols)
=============================================================================
