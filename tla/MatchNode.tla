------------------------------ MODULE MatchNode ------------------------------
(***************************************************************************)
(* The C++ node in a match: a judge that raises the level for a key, a     *)
(* path on which JamCodes get lost, legacy topics that lag behind, and     *)
(* contexts that cannot be used.  None of these is in this repository.     *)
(*                                                                         *)
(* The node publishes a key at most KeyRetryLimit times, so it can only    *)
(* be expected to survive LossLimit losses per level; which team's label   *)
(* the opponent's waveform bears is left open here.                        *)
(***************************************************************************)
EXTENDS SdrReceiverNode

CONSTANT LossLimit

ASSUME LossAssumption == LossLimit \in Nat

VARIABLES
    judge_level,
    in_flight,  \* JamCodes of the judge's level on their way
    lost        \* JamCodes of the judge's level that got lost

matchVars == << vars, judge_level, in_flight, lost >>
match == << judge_level, in_flight, lost >>

OurStation == 9

JudgeContext == ContextCallback(OurStation, 2, judge_level) /\ UNCHANGED match

UnusableContext ==
    /\ ContextCallback(0, 2, judge_level) \/ ContextCallback(OurStation, 2, 0)
    /\ UNCHANGED match

\* /judge/radar_info may repeat a level the judge has left.
LaggingRadarInfo ==
    \E level \in 1 .. judge_level : RadarInfoCallback(level) /\ UNCHANGED match

Decides == ControlStep /\ UNCHANGED match

\* update() runs every 20 ms, contexts come at 5 to 10 Hz.
DecidesOnCurrentLevel == ctx.jam_level = judge_level /\ ContextUsable /\ Decides

\* Only the carrier of the judge's level bears a key.
DecodesKey ==
    /\ LevelOf(tune.target) = judge_level
    /\ \E key \in Keys :
          \/ /\ ReceiveKey(key) \/ ReceiveFinalKey(key)
             /\ in_flight' = in_flight + 1
             /\ UNCHANGED << judge_level, lost >>
          \/ ReceiveKeyAgain(key) /\ UNCHANGED match

Receives == ReceiveNothing /\ UNCHANGED match

DeliverJamCode ==
    /\ in_flight > 0
    /\ IF judge_level < 3
       THEN judge_level' = judge_level + 1 /\ in_flight' = 0 /\ lost' = 0
       ELSE in_flight' = in_flight - 1 /\ UNCHANGED << judge_level, lost >>
    /\ UNCHANGED vars

LoseJamCode ==
    /\ in_flight > 0 /\ lost < LossLimit
    /\ in_flight' = in_flight - 1 /\ lost' = lost + 1
    /\ UNCHANGED << vars, judge_level >>

Clock == Tick /\ UNCHANGED match

MatchInit == Init /\ judge_level = 1 /\ in_flight = 0 /\ lost = 0

MatchNext == JudgeContext \/ UnusableContext \/ LaggingRadarInfo \/ Decides
             \/ DecodesKey \/ Receives \/ DeliverJamCode \/ LoseJamCode \/ Clock

\* Contexts keep coming, updates keep running and now and then see the
\* current level, frames keep being decodable, JamCodes arrive or get lost.
MatchFairness ==
    /\ SF_matchVars(JudgeContext) /\ SF_matchVars(DecidesOnCurrentLevel)
    /\ WF_matchVars(Decides) /\ WF_matchVars(Receives)
    /\ SF_matchVars(DecodesKey)
    /\ WF_matchVars(DeliverJamCode) /\ WF_matchVars(Clock)

MatchSpec == MatchInit /\ [][MatchNext]_matchVars /\ MatchFairness

\* No lagging topic, unusable context and lost JamCode makes the node submit a
\* key of a level the judge has not reached, or prepare to receive on one, or
\* turn to INFO before the judge is at the highest level.
NeverAheadOfJudge ==
    /\ submitted_key_level <= judge_level /\ jam_code.level <= judge_level
    /\ ready =>
          /\ LevelOf(tune.target) <= judge_level
          /\ tune.target = "INFO" => MaxJamBreakLevel <= judge_level

ReceivesInfo == Receives /\ tune.target = "INFO" /\ final_key_submitted

\* With at most KeyRetryLimit - 1 losses on a level the ladder is climbed, and
\* then the node receives on INFO again and again, whatever unusable or
\* lagging contexts do in between.
InfoKeepsComingBack == []<><<ReceivesInfo>>_matchVars
=============================================================================
