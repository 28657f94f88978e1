---------------------------- MODULE MCController ----------------------------
(* Values for model-checking CompetitionController on its own.             *)
EXTENDS ControllerRefinement, RateLimit

CONSTANTS k1, k2

Context(id, color, level) ==
    [self_id |-> id, self_color |-> color, jam_level |-> level]

\* Every level for our own radar station; one context from the other side,
\* one whose colour must be inferred, one with no colour, and one above L3.
MCContexts ==
    {Context(9, 2, level) : level \in 0 .. 3}
    \cup {Context(109, 0, 2), Context(0, 0, 3), Context(0, 1, 3), Context(9, 2, 4)}

MCKeys == {k1, k2}
MCLevels == 0 .. 3
NoLimit == -1
=============================================================================
