------------------------ MODULE ControllerRefinement ------------------------
(* CompetitionController keeps the promises of JamHandshake.               *)
EXTENDS CompetitionController

SentLevels == {l \in Levels : HasPublishedLevel(l)}

PhaseOf(s) ==
    IF s = "WAIT_CONTEXT" THEN "idle"
    ELSE IF s = "INFO" THEN "info"
    ELSE IF s \in JamStates THEN "jam" ELSE "wait"

Handshake == INSTANCE JamHandshake WITH
    MaxLevel <- MaxJamBreakLevel,
    judge    <- active_level,
    sent     <- SentLevels,
    phase    <- PhaseOf(state)

\* Every step of the controller is a step of the contract's handshake or
\* leaves it alone, whatever contexts and keys arrive.
RefinesHandshake == Handshake!HSpec
=============================================================================
