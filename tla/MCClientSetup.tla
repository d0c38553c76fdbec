---------------------------- MODULE MCClientSetup ----------------------------
EXTENDS ClientSetup, TLC

CONSTANTS p1, p2, r1, r2, s1, s2

\* what may happen in one run, besides the first setup and the workers
MCScenarios ==
    {{"exchange", "return", "detect", "crash"},
     {"exchange", "relocate", "crash"},
     {"exchange", "return", "unanswered"},
     {"unmount", "mount", "relocate", "detect"},
     {"lost", "detect", "crash"},
     {"daemon", "server", "halfscript"},
     {"publish", "crash", "second", "fault"},
     {"publish", "quit", "exchange"}}

\* the two shares are alike, so that one of them is there at first
MCInit == Init /\ nas.share = s1

MCSpec == MCInit /\ [][Next]_vars /\ Fairness

\* an update and nothing else
MCUpdate == {{"publish"}}
=============================================================================
