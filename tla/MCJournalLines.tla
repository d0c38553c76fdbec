--------------------------- MODULE MCJournalLines ---------------------------
EXTENDS JournalLines

CONSTANTS p1, p2, v1, v2

MCPaths == {p1, p2}
MCVersions == {v1, v2}

\* Three transactions that overlap on p1: an upload, a deletion of it with a
\* second upload (a rename), and a publish whose id is derived from its content.
MCEffectOf ==
    LET put    == (p1 :> v1 @@ p2 :> NoEntry)
        rename == (p1 :> Tomb @@ p2 :> v1)
        both   == (p1 :> v2 @@ p2 :> v2)
    IN  (<<1, NoEffect>> :> put) @@ (<<2, NoEffect>> :> rename) @@ (<<0, both>> :> both)
=============================================================================
