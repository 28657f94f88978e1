--------------------------- MODULE NodeRefinement ---------------------------
(* SdrReceiverNode, in competition mode, keeps the promises of JamHandshake *)
(* that CompetitionController keeps.                                        *)
EXTENDS SdrReceiverNode

SentLevels == {l \in Levels : key_record[l].count > 0}

WorkedOn ==
    IF phase = "WaitingContext" THEN 0
    ELSE IF phase = "JamDecode" THEN Broken(encrypt_lvl) ELSE submitted_key_level

PhaseOf(p) ==
    IF p = "WaitingContext" THEN "idle"
    ELSE IF p = "JamDecode" THEN "jam"
    ELSE IF p = "WaitLevelUpdate" THEN "wait" ELSE "info"

Handshake == INSTANCE JamHandshake WITH
    MaxLevel <- MaxJamBreakLevel,
    judge    <- WorkedOn,
    sent     <- SentLevels,
    phase    <- PhaseOf(phase)

\* Every update of the C++ node is a step of the contract's handshake or
\* leaves it alone, whatever contexts arrive on the three judge topics and
\* whichever profiles are missing.
RefinesHandshake == Handshake!HSpec
=============================================================================
