----------------------------- MODULE MCMatchNode -----------------------------
EXTENDS MatchNode

CONSTANT k1

MCKeys == {k1}
MCProfiles == Teams \X ProfileKeys
MCNone == {}
=============================================================================
