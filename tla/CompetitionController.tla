------------------------ MODULE CompetitionController ------------------------
(***************************************************************************)
(* The Python competition state machine (competition_controller.py) and    *)
(* the way receiver_node.py consumes its decisions: a judge context or a   *)
(* decoded jam key goes in, a JamCode may come out, and the receiver's     *)
(* RF team and target are moved by the DELTAS the decision carries.        *)
(*                                                                         *)
(* Handlers are atomic here.  WrapperThreads.tla splits them into the      *)
(* accesses of the two threads that really run them.                       *)
(*                                                                         *)
(* An operator whose comment begins with "Mutant" is a plausible mistake   *)
(* in the operator below it; nothing uses it unless it is put in its place *)
(* to see that a property notices.                                         *)
(***************************************************************************)
EXTENDS Integers

CONSTANTS
    MaxJamBreakLevel,       \* max_jam_break_level: 1, 2 or 3
    KeyPublishMinInterval,  \* key_publish_min_interval_sec, in clock ticks
    KeyRetryLimit,          \* key_retry_limit, negative for "no limit"
    CountCap,               \* a record's publication count saturates here
    Keys,                   \* the 6-byte keys that may be decoded
    NoKey,                  \* the key of a level nothing was published for
    Contexts,               \* the judge contexts that may arrive
    NoContext,              \* latest_context before the first one
    EventLevels             \* the levels a decoded key may be tagged with

None   == "NONE"
Levels == 1 .. 3
Teams  == {"RED", "BLUE"}

JamState   == << "JAM_L1", "JAM_L2", "JAM_L3" >>
JamTarget  == << "L1", "L2", "L3" >>
WaitStates == {"WAIT_LEVEL_L2", "WAIT_LEVEL_L3"}
JamStates  == {"JAM_L1", "JAM_L2", "JAM_L3"}
States     == {"WAIT_CONTEXT", "INFO"} \cup WaitStates \cup JamStates
Targets    == {"L1", "L2", "L3", "INFO"}

ASSUME MaxLevelAssumption == MaxJamBreakLevel \in Levels
ASSUME IntervalAssumption == KeyPublishMinInterval \in Nat \ {0}
ASSUME RetryAssumption    == KeyRetryLimit \in Int
ASSUME CountCapAssumption == /\ CountCap \in Nat \ {0}
                             /\ KeyRetryLimit <= CountCap
ASSUME KeyAssumption      == NoKey \notin Keys
ASSUME EventAssumption    == EventLevels \subseteq 0 .. 3
ASSUME ContextAssumption  ==
    /\ Contexts \subseteq [self_id : Int, self_color : Int, jam_level : Int]
    /\ NoContext \notin Contexts

VARIABLES
    state,           \* CompetitionState
    own_team,        \* our colour
    rx_team,         \* the opponent's colour: the waveform to receive
    active_level,    \* level of the last valid context, 0 before it
    completed_level, \* highest level a key was published for
    desired_target,  \* last target the controller asked for
    latest_context,
    published_keys,  \* level -> the record of the last key published there
    receiver         \* team and target the decisions left the receiver at

controllerVars == << state, own_team, rx_team, active_level, completed_level,
                     desired_target, latest_context, published_keys >>
vars == << controllerVars, receiver >>

(***************************************************************************)
(* Pure helpers                                                            *)
(***************************************************************************)
EmptyRecord == [key |-> NoKey, count |-> 0, age |-> 0]

Smaller(a, b) == IF a <= b THEN a ELSE b
\* Mutant: the last level instead of the highest.
Later(a, b)   == b
Larger(a, b)  == IF a >= b THEN a ELSE b

\* The robot id decides our colour; the colour field only stands in for an
\* id outside both ranges.
OwnTeamFromContext(c) ==
    IF c.self_id \in 1 .. 99 \/ (c.self_id \notin 101 .. 199 /\ c.self_color = 2)
    THEN "RED"
    ELSE IF c.self_id \in 101 .. 199 \/ c.self_color = 0 THEN "BLUE" ELSE None

\* Mutant: a lookup that lacks one colour.
OpponentOfRed(team) == IF team = "RED" THEN "BLUE" ELSE None
OpponentTeam(team) == IF team = "RED" THEN "BLUE" ELSE "RED"

HasPublishedLevel(level) == published_keys[level].count > 0

WaitStateForNextLevel(level) ==
    IF level = 1 THEN "WAIT_LEVEL_L2" ELSE "WAIT_LEVEL_L3"

(***************************************************************************)
(* receiver_node.py moves the receiver only by what a decision changed: a  *)
(* team or target equal to the controller's previous one is not sent.      *)
(***************************************************************************)
\* Mutants: only the first team, only the first target is sent.
SendFirstTeam(team)     == IF rx_team = None THEN team ELSE receiver.team
SendFirstTarget(target) == IF desired_target = None THEN target ELSE receiver.target

SendTeam(team)     == IF team # rx_team THEN team ELSE receiver.team
SendTarget(target) == IF target # desired_target THEN target ELSE receiver.target

(***************************************************************************)
(* update_context                                                          *)
(***************************************************************************)
ContextWithoutTeam(c) ==
    /\ OwnTeamFromContext(c) = None
    /\ latest_context' = c
    /\ state' = "WAIT_CONTEXT"
    /\ UNCHANGED << own_team, rx_team, active_level, completed_level,
                    desired_target, published_keys, receiver >>

\* What every context with a usable identity does.
AdoptTeam(c) ==
    /\ OwnTeamFromContext(c) # None
    /\ latest_context' = c
    /\ own_team' = OwnTeamFromContext(c)
    /\ rx_team' = OpponentTeam(OwnTeamFromContext(c))
    /\ UNCHANGED << completed_level, published_keys >>

ContextWithInvalidLevel(c) ==
    /\ AdoptTeam(c)
    /\ c.jam_level \notin Levels
    /\ desired_target' = IF state = "WAIT_CONTEXT" THEN None ELSE desired_target
    /\ receiver' = [receiver EXCEPT !.team = SendTeam(rx_team')]
    /\ UNCHANGED << state, active_level >>

ContextInInfo(c) ==
    /\ AdoptTeam(c)
    /\ c.jam_level \in Levels
    /\ state = "INFO" /\ completed_level >= MaxJamBreakLevel
    /\ desired_target' = "INFO"
    /\ receiver' = [team |-> SendTeam(rx_team'), target |-> SendTarget("INFO")]
    /\ UNCHANGED << state, active_level >>

\* Mutant: INFO is not sticky.
ContextLeavesInfo(c) ==
    LET level == Smaller(c.jam_level, MaxJamBreakLevel) IN
    /\ AdoptTeam(c)
    /\ c.jam_level \in Levels
    /\ active_level' = level
    /\ state' = IF HasPublishedLevel(level) /\ level < MaxJamBreakLevel
                THEN WaitStateForNextLevel(level)
                ELSE JamState[level]
    /\ desired_target' = JamTarget[level]
    /\ receiver' = [team   |-> SendTeam(rx_team'),
                    target |-> SendTarget(JamTarget[level])]

\* Mutant: whether the key has gone out is not asked.
ContextAlwaysJams(c) ==
    LET level == Smaller(c.jam_level, MaxJamBreakLevel) IN
    /\ AdoptTeam(c)
    /\ c.jam_level \in Levels
    /\ ~ (state = "INFO" /\ completed_level >= MaxJamBreakLevel)
    /\ active_level' = level
    /\ state' = JamState[level]
    /\ desired_target' = JamTarget[level]
    /\ receiver' = [team   |-> SendTeam(rx_team'),
                    target |-> SendTarget(JamTarget[level])]

ContextWithLevel(c) ==
    LET level == Smaller(c.jam_level, MaxJamBreakLevel) IN
    /\ AdoptTeam(c)
    /\ c.jam_level \in Levels
    /\ ~ (state = "INFO" /\ completed_level >= MaxJamBreakLevel)
    /\ active_level' = level
    /\ state' = IF HasPublishedLevel(level) /\ level < MaxJamBreakLevel
                THEN WaitStateForNextLevel(level)
                ELSE JamState[level]
    /\ desired_target' = JamTarget[level]
    /\ receiver' = [team   |-> SendTeam(rx_team'),
                    target |-> SendTarget(JamTarget[level])]

UpdateContext(c) ==
    \/ ContextWithoutTeam(c)
    \/ ContextWithInvalidLevel(c)
    \/ ContextInInfo(c)
    \/ ContextWithLevel(c)

(***************************************************************************)
(* handle_jam_key.  A key that is refused changes nothing, so only the     *)
(* accepting path is an action.                                            *)
(***************************************************************************)
EventLevel(lvl) == IF lvl \in Levels THEN lvl ELSE active_level

\* Mutants: no rate limit; a key is never sent twice.
RetryAnyTime(record) == ~ (KeyRetryLimit >= 0 /\ record.count >= KeyRetryLimit)
RetryNever(record) == FALSE

\* The same key as last time on this level: rate limit and retry limit.
RetryAllowed(record) ==
    /\ record.age >= KeyPublishMinInterval
    /\ ~ (KeyRetryLimit >= 0 /\ record.count >= KeyRetryLimit)

\* Mutant: the first publication of a key is not counted.
RecordUncounted(record, key) ==
    [key   |-> key,
     count |-> IF record.key = key THEN Smaller(record.count + 1, CountCap) ELSE 0,
     age   |-> 0]

RecordAfter(record, key) ==
    [key   |-> key,
     count |-> IF record.key = key THEN Smaller(record.count + 1, CountCap) ELSE 1,
     age   |-> 0]

\* Mutant: a key of any level is taken.
KeyOfAnyLevel(level, key) ==
    /\ rx_team # None /\ latest_context # NoContext
    /\ level # 0 /\ state # "INFO"
    /\ published_keys[level].key = key => RetryAllowed(published_keys[level])

\* Mutant: keys are still taken in INFO.
KeyEvenInInfo(level, key) ==
    /\ rx_team # None /\ latest_context # NoContext
    /\ level = active_level
    /\ published_keys[level].key = key => RetryAllowed(published_keys[level])

KeyAccepted(level, key) ==
    /\ rx_team # None /\ latest_context # NoContext
    /\ level = active_level
    /\ state # "INFO"
    /\ published_keys[level].key = key => RetryAllowed(published_keys[level])

\* Mutant: the next level is assumed before the judge names it.
AnticipateLevel(lvl, key) ==
    LET level == EventLevel(lvl) IN
    /\ KeyAccepted(level, key)
    /\ published_keys' =
         [published_keys EXCEPT ![level] = RecordAfter(published_keys[level], key)]
    /\ completed_level' = Larger(completed_level, level)
    /\ IF level >= MaxJamBreakLevel
       THEN /\ state' = "INFO"
            /\ desired_target' = "INFO"
            /\ receiver' = [receiver EXCEPT !.target = SendTarget("INFO")]
       ELSE /\ state' = WaitStateForNextLevel(level)
            /\ UNCHANGED << desired_target, receiver >>
    /\ active_level' = Smaller(level + 1, MaxJamBreakLevel)
    /\ UNCHANGED << own_team, rx_team, latest_context >>

HandleJamKey(lvl, key) ==
    LET level == EventLevel(lvl) IN
    /\ KeyAccepted(level, key)
    /\ published_keys' =
         [published_keys EXCEPT ![level] = RecordAfter(published_keys[level], key)]
    /\ completed_level' = Larger(completed_level, level)
    /\ IF level >= MaxJamBreakLevel
       THEN /\ state' = "INFO"
            /\ desired_target' = "INFO"
            /\ receiver' = [receiver EXCEPT !.target = SendTarget("INFO")]
       ELSE /\ state' = WaitStateForNextLevel(level)
            /\ UNCHANGED << desired_target, receiver >>
    /\ UNCHANGED << own_team, rx_team, active_level, latest_context >>

(***************************************************************************)
(* time.monotonic(): a record's age matters only up to the interval.       *)
(***************************************************************************)
Aged(record) ==
    [record EXCEPT !.age = IF record.count = 0 THEN 0
                           ELSE Smaller(record.age + 1, KeyPublishMinInterval)]

Tick ==
    /\ \E l \in Levels : published_keys[l].count > 0
                           /\ published_keys[l].age < KeyPublishMinInterval
    /\ published_keys' = [l \in 0 .. 3 |-> Aged(published_keys[l])]
    /\ UNCHANGED << state, own_team, rx_team, active_level, completed_level,
                    desired_target, latest_context, receiver >>

(***************************************************************************)
(* The core starts tuned to whatever initial_team and initial_target say.  *)
(***************************************************************************)
Init ==
    /\ state = "WAIT_CONTEXT"
    /\ own_team = None /\ rx_team = None
    /\ active_level = 0 /\ completed_level = 0
    /\ desired_target = None
    /\ latest_context = NoContext
    /\ published_keys = [l \in 0 .. 3 |-> EmptyRecord]
    /\ receiver \in [team : Teams, target : Targets]

\* A key is tagged with the level of the tuned target.  When the target has
\* stopped being a jam level before the event is built, the tag is the
\* encryption level last decoded, which may be 0; that takes a retune, which
\* the controller has not asked for while active_level is 0.
KeyCanArrive(lvl) == lvl \in Levels \/ active_level # 0

Next ==
    \/ \E c \in Contexts : UpdateContext(c)
    \/ \E lvl \in EventLevels, key \in Keys :
          KeyCanArrive(lvl) /\ HandleJamKey(lvl, key)
    \/ Tick

Spec == Init /\ [][Next]_vars

(***************************************************************************)
(* Properties                                                              *)
(***************************************************************************)

\* Every variable holds a value of its type; the state ERROR_HOLD the enum
\* declares is never entered.
TypeOK ==
    /\ state \in States
    /\ own_team \in Teams \cup {None} /\ rx_team \in Teams \cup {None}
    /\ active_level \in 0 .. 3 /\ completed_level \in 0 .. 3
    /\ desired_target \in Targets \cup {None}
    /\ latest_context \in Contexts \cup {NoContext}
    /\ published_keys \in [0 .. 3 -> [key : Keys \cup {NoKey}, count : 0 .. CountCap,
                                      age : 0 .. KeyPublishMinInterval]]
    /\ receiver \in [team : Teams, target : Targets]

\* INFO decoding starts only after the key of the highest level has been
\* published, and it is what the receiver is tuned to: the phase, the key
\* records and the delta protocol of the decisions agree.
InfoOnlyAfterFinalKey ==
    state = "INFO" =>
        /\ HasPublishedLevel(MaxJamBreakLevel)
        /\ completed_level = MaxJamBreakLevel
        /\ active_level = MaxJamBreakLevel
        /\ receiver.target = "INFO"

\* While a jam level is being received its key is still missing, unless it is
\* the highest level; while a level-up is awaited, the key of the level below
\* has gone out.  Context updates and key events may come in any order.
PhaseMatchesKeys ==
    /\ \A l \in Levels : state = JamState[l] =>
          /\ active_level = l
          /\ l < MaxJamBreakLevel => ~ HasPublishedLevel(l)
    /\ state \in WaitStates =>
          /\ active_level \in 1 .. (MaxJamBreakLevel - 1)
          /\ HasPublishedLevel(active_level)
          /\ state = WaitStateForNextLevel(active_level)

\* Only changes are sent to the receiver, yet it never drifts from what the
\* controller believes: same team, same target, whatever contexts and keys
\* came in between (desired_target may be forgotten, never wrong).
ReceiverInSync ==
    /\ rx_team # None => receiver.team = rx_team
    /\ desired_target # None => receiver.target = desired_target
    /\ state \in JamStates => receiver.target = JamTarget[active_level]

\* completed_level is exactly the highest level with a published key.
CompletedIsHighestPublished ==
    /\ \A l \in Levels : HasPublishedLevel(l) => l <= completed_level
    /\ completed_level # 0 => HasPublishedLevel(completed_level)

\* Keys of a level are recorded only if the judge's context named that level
\* (clipped to the maximum) at the time: the records of the other levels
\* never change together with it, and never when nothing is being received.
KeyOnlyForActiveLevel ==
    [][\A l \in 0 .. 3 : published_keys'[l].age < published_keys[l].age
                          \/ published_keys'[l].key # published_keys[l].key =>
          /\ l = active_level /\ l \in 1 .. MaxJamBreakLevel
          /\ state # "INFO" /\ rx_team # None
          /\ \A m \in 0 .. 3 \ {l} : published_keys'[m] = published_keys[m]]_vars

\* INFO is left only by a context nobody's colour can be read from; in
\* particular neither a key, nor a lower level, nor an invalid level does it.
InfoLeftOnlyByLostIdentity ==
    [][state = "INFO" /\ state' # "INFO" =>
          /\ state' = "WAIT_CONTEXT"
          /\ OwnTeamFromContext(latest_context') = None]_vars
=============================================================================
