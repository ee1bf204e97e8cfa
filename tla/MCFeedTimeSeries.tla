--------------------------- MODULE MCFeedTimeSeries ---------------------------
EXTENDS FeedTimeSeries, TLC

MCTimes == {1, 2}

MCSymmetry == Permutations(Handles)
=============================================================================
