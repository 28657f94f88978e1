----------------------------- MODULE MCMatchLoop -----------------------------
EXTENDS MatchLoop

CONSTANTS k1

\* The three levels for our station, one level-less and one colour-less
\* context in between.
MCContexts ==
    {[self_id |-> 9, self_color |-> 2, jam_level |-> l] : l \in 0 .. 3}
    \cup {[self_id |-> 0, self_color |-> 1, jam_level |-> 3]}
MCKeys == {k1}
MCLevels == Levels
\* Our colour, or one that says nothing.
MCColors == {1, 2}
NoLimit == -1
=============================================================================
