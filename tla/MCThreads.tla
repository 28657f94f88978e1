------------------------------ MODULE MCThreads ------------------------------
EXTENDS WrapperThreads

Context(id, color, level) ==
    [self_id |-> id, self_color |-> color, jam_level |-> level]

\* Our own radar station at each level; in the lossy environment any context
\* may also arrive without an identity.
MCContexts == {Context(9, 2, l) : l \in 1 .. 3}
MCLossyContexts == MCContexts \cup {Context(0, 1, l) : l \in 1 .. 3}
MCKeys == 1 .. 3
MCLevels == 0 .. 3
NoLimit == -1
=============================================================================
