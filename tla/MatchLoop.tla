------------------------------ MODULE MatchLoop ------------------------------
(***************************************************************************)
(* The competition controller closed with the match around it: the judge   *)
(* system that names the level, the opponent's radio that transmits keys,  *)
(* and the path a JamCode takes to the judge, which may lose it.  The      *)
(* judge follows the mock of this repository, which raises its level for   *)
(* a JamCode of that level and publishes it; radio and path are taken from *)
(* how receiver_node.py publishes and from the interface contract,         *)
(* section 6.  The level reaches the node on the context topic and, as     *)
(* radar_info, on a fallback topic; what the fallback remembers is sent    *)
(* again with every match_info and may lag behind the judge.               *)
(***************************************************************************)
EXTENDS ContextSources

CONSTANT MatchColors  \* the colours a match_info may name

ASSUME ColorAssumption == MatchColors \subseteq Int

VARIABLES
    judge_level,  \* the level of the opponent's encryption
    in_flight     \* levels of the JamCodes on their way to the judge

matchVars == << vars, fallback, judge_level, in_flight >>

\* The judge's contexts name the level it is at; some cannot be attributed
\* to a colour.
NamesLevel(c) ==
    /\ c.jam_level = judge_level
    /\ OwnTeamFromContext(c) # None

JudgeContext ==
    /\ \E c \in Contexts : NamesLevel(c) /\ OnRadarContext(c)
    /\ UNCHANGED << judge_level, in_flight >>

UnusableContext ==
    /\ \E c \in Contexts : /\ OnRadarContext(c)
                           /\ ContextWithoutTeam(c) \/ ContextWithInvalidLevel(c)
    /\ UNCHANGED << judge_level, in_flight >>

LevelToRadarInfo(level, mutable) == level * 8 + (IF mutable THEN 32 ELSE 0)

RadarInfo ==
    /\ OnRadarInfo(LevelToRadarInfo(judge_level, TRUE))
    /\ UNCHANGED << judge_level, in_flight >>

MatchInfo ==
    /\ \E color \in MatchColors :
          \/ OnMatchInfo(color)
          \/ OnMatchInfoWithContext(0, color, LevelToRadarInfo(judge_level, FALSE))
    /\ UNCHANGED << judge_level, in_flight >>

\* The opponent transmits the key of the current level; only a receiver on
\* that level's carrier decodes it.  The accepted key goes out as a JamCode.
DecodeKey ==
    /\ receiver.target = JamTarget[judge_level]
    /\ receiver.team = rx_team
    /\ \E key \in Keys : HandleJamKey(judge_level, key)
    /\ in_flight' = in_flight \cup {judge_level}
    /\ UNCHANGED << fallback, judge_level >>

\* The judge raises the level for a key of the level it is at.
DeliverJamCode ==
    \E l \in in_flight :
       /\ in_flight' = in_flight \ {l}
       /\ judge_level' = IF l = judge_level /\ l < 3 THEN l + 1 ELSE judge_level
       /\ UNCHANGED << vars, fallback >>

LoseJamCode ==
    \E l \in in_flight : /\ in_flight' = in_flight \ {l}
                         /\ UNCHANGED << vars, fallback, judge_level >>

Clock == Tick /\ UNCHANGED << fallback, judge_level, in_flight >>

MatchInit == Init /\ SourcesInit /\ judge_level = 1 /\ in_flight = {}

MatchNext ==
    \/ JudgeContext \/ UnusableContext
    \/ RadarInfo \/ MatchInfo
    \/ DecodeKey
    \/ DeliverJamCode \/ LoseJamCode
    \/ Clock

\* Contexts keep coming on their topic, and radar_info on its own; time
\* passes, the opponent keeps transmitting, and a JamCode sent over and over
\* gets through once.
MatchFairness ==
    /\ WF_matchVars(JudgeContext)
    /\ WF_matchVars(RadarInfo)
    /\ WF_matchVars(Clock)
    /\ WF_matchVars(DecodeKey)
    /\ SF_matchVars(DeliverJamCode)

MatchSpec == MatchInit /\ [][MatchNext]_matchVars /\ MatchFairness

\* The controller's level never runs ahead of the judge, although the
\* JamCodes it sends may be lost, repeated or late and the three topics
\* disagree about the level.
NeverAheadOfJudge == active_level <= judge_level

\* Each level's key is repeated until the judge has moved on, so the ladder
\* is climbed whatever is lost; and INFO, which one context without an
\* identity takes away, is always regained.
InfoKeepsComingBack == []<>(state = "INFO")

\* Once the judge has named a level above, its key is eventually out.
LevelUpIsAnswered ==
    \A l \in 2 .. MaxJamBreakLevel :
       (judge_level >= l) ~> HasPublishedLevel(l)
=============================================================================
