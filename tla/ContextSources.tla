--------------------------- MODULE ContextSources ---------------------------
(***************************************************************************)
(* The three topics receiver_node.py builds its contexts from.  The        *)
(* context topic says everything at once.  The fallback topics say it in   *)
(* pieces: /match_info who we are (or everything, if the message type has  *)
(* the fields), /judge/radar_info the level; each message is completed     *)
(* with what the other topic said last, however old that is.               *)
(***************************************************************************)
EXTENDS CompetitionController

CONSTANT FallbackParam  \* fallback_self_id, 0 for "take it from the topics"

ASSUME FallbackAssumption == FallbackParam \in Nat

VARIABLE fallback  \* what the fallback topics said last

RadarInfoToLevel(raw) == (raw \div 8) % 4

SourcesInit ==
    fallback = [self_id |-> 0, self_color |-> -1, raw |-> 0, jam_level |-> 0]

OnRadarContext(c) == UpdateContext(c) /\ UNCHANGED fallback

FallbackSelfId(f) ==
    IF FallbackParam > 0 THEN FallbackParam
    ELSE IF f.self_id > 0 THEN f.self_id
    ELSE IF f.self_color = 2 THEN 9
    ELSE IF f.self_color = 0 THEN 109 ELSE 0

FallbackContext(f) ==
    [self_id    |-> FallbackSelfId(f),
     self_color |-> f.self_color,
     jam_level  |-> IF f.jam_level # 0 THEN f.jam_level ELSE RadarInfoToLevel(f.raw)]

\* _publish_fallback_context_if_ready
PublishFallback(f) ==
    /\ fallback' = f
    /\ IF FallbackSelfId(f) = 0 /\ f.raw = 0
       THEN UNCHANGED vars
       ELSE UpdateContext(FallbackContext(f))

\* A MatchInfo of the plain type: colour, and the level heard last.
OnMatchInfo(color) ==
    PublishFallback([fallback EXCEPT !.self_id = 0, !.self_color = color])

\* A MatchInfo with context fields: the level is its own.
OnMatchInfoWithContext(id, color, raw) ==
    LET f == [self_id |-> id, self_color |-> color, raw |-> raw,
              jam_level |-> RadarInfoToLevel(raw)]
    IN  fallback' = f /\ UpdateContext(FallbackContext(f))

OnRadarInfo(raw) ==
    PublishFallback([fallback EXCEPT !.raw = raw, !.jam_level = RadarInfoToLevel(raw)])
=============================================================================
