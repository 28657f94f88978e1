------------------------------- MODULE MCNode -------------------------------
(* Values for model-checking SdrReceiverNode on its own.                   *)
EXTENDS NodeRefinement

CONSTANTS k1, k2

MCKeys == {k1, k2}

\* A red station and an id nobody has; the colour field makes it blue.
MCSelfIds == {9, 0}
MCLevels  == 0 .. 4

\* All profiles but the INFO profile of one team.
MCProfiles == (Teams \X ProfileKeys) \ {<< "BLUE", "INFO_UNDER_L3" >>}

\* The documents' red station: the colour field is right, unset or unknown.
OurId == {9}
Red == {2}
AnyColor == {-1, 0, 2}
=============================================================================
