---------------------------- MODULE MCFeedPoller ----------------------------
(* Model values for FeedPoller. *)
EXTENDS FeedPoller, TLC

CONSTANTS svn1, svn2, t1, t2, t3, chanA, chanB

OneId == {svn1}
TwoIds == {svn1, svn2}
ThreeThreads == {t1, t2, t3}
TwoChannels == {chanA, chanB}
BothChannels == {TwoChannels}

AllCommands == {"new", "stop", "reload", "channel"}
StartStop == {"new", "stop"}

Symmetry == Permutations(ThreeThreads)
=============================================================================
