---------------------------- MODULE MCClientTree ----------------------------
EXTENDS ClientTree, TLC

CONSTANTS D, E, F, v1, v2, v3

\* one PC changes a content a second after the initial ones, the other does not
MCSecond == [v \in Versions |-> IF v = v3 THEN 1 ELSE 0]

\* one file in step at the start
MCOneFile == D :> v1

\* what may happen in one run, besides the push, the pull and the watcher
MCScenarios ==
    {{"write", "other", "crash"}, {"write", "other", "fault"},
     {"movedir", "other"}, {"movedir", "fault"}, {"movedir", "write"},
     {"movedir", "oob"}, {"write", "unstable"}, {"exclude", "write", "delete"},
     {"exclude", "movedir"}, {"unmount", "write", "other"},
     {"write", "other", "resolve", "oserror"}, {"write", "other", "restore"},
     {"write", "other", "prune"}, {"write", "otherdel"}, {"relocate", "other"},
     {"move", "fault"}}
=============================================================================
