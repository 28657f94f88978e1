--------------------------- MODULE ReceiverProcess ---------------------------
(***************************************************************************)
(* The life of a process that runs the v67 core in a thread of its own:    *)
(* receiver_node.py, wrapper_iq_replay.py and adaptive_profile_sweep.py.   *)
(* The main thread loads and patches the core's module, starts the thread, *)
(* waits, and shuts down; the core opens its source and loops over polling *)
(* the keyboard, receiving a block and demodulating it, which feeds the    *)
(* recorder.  The core looks a patched function up when it calls it, so    *)
(* taking the patches away reaches a core that still runs.                 *)
(***************************************************************************)
EXTENDS IqFileSource, IqRecorder

CONSTANTS
    Programs,   \* how the process may have been started
    MaxBlocks,  \* bound: the core receives no more blocks than this
    MaxKeys,    \* --max-keys of the replay
    BasePrefix  \* iq_record_prefix

ASSUME PrefixAssumption == BasePrefix \in FilePrefixes
ASSUME MaxKeysAssumption == MaxKeys \in Nat \ {0} /\ MaxBlocks \in Nat
ASSUME ProgramsAssumption ==
    /\ Programs \subseteq
         [name : {"node", "replay", "sweep"}, run_mode : {"debug", "competition"},
          source : {"file", "pluto"}, samples : Nat, loop : BOOLEAN, offset : Nat,
          rate : Nat \ {0}, mixed : BOOLEAN, script : BOOLEAN, adi : BOOLEAN,
          allow_stub : BOOLEAN, start : BOOLEAN, record : BOOLEAN,
          allow_no_key : BOOLEAN]
    /\ \A p \in Programs : p.name = "replay" => ~ p.record

VARIABLES
    program,
    main, core,  \* where the two threads are
    patched,     \* the core's functions are the wrapped ones
    stop_event,
    receiver_exception,
    timed_out,   \* the join was given up
    keys,        \* key events received, up to MaxKeys
    result,      \* what the process reports
    blocks,      \* blocks received
    second       \* the clock

mainVars == << program, main, stop_event, timed_out, result >>
coreVars == << core, keys, blocks, receiver_exception >>
vars == << mainVars, coreVars, patched, second, sourceVars, recorderVars >>

NoResult == -1
Success  == 0
NoKeyYet == 2
Failed   == 3

(***************************************************************************)
(* Loading                                                                 *)
(***************************************************************************)
FromFile == program.source = "file"

\* find_original_script_path: `script` says whether one of the places it
\* looks in holds the script.
ScriptFound == program.script

\* The stub for the radio's library is allowed when a file replaces it.
AllowAdiStub == program.allow_stub \/ FromFile

Loads == ScriptFound /\ (program.adi \/ AllowAdiStub)

ConfigureIqFileSource ==
    iq_source_config' = [samples |-> program.samples, loop |-> program.loop,
                         offset |-> program.offset, rate |-> program.rate,
                         mixed |-> program.mixed]

ApplyPatches == patched' = TRUE
RemovePatches == patched' = FALSE

StartCore == core' = IF program.start THEN "boot" ELSE "off"

\* __init__ of the node, and the first half of the programs' main(); nothing
\* was started when they fail.
Construct ==
    /\ main = "construct"
    /\ IF Loads
       THEN /\ main' = "run"
            /\ ApplyPatches /\ ConfigureIqFileSource /\ StartCore
       ELSE /\ main' = "failed"
            /\ UNCHANGED << patched, iq_source_config, core >>
    /\ UNCHANGED << program, stop_event, timed_out, result, keys, blocks,
                    receiver_exception, second, index, absolute_sample,
                    pending_offset, block, recorderVars >>

(***************************************************************************)
(* The core's thread                                                       *)
(***************************************************************************)
CoreTo(step) ==
    /\ core' = step
    /\ UNCHANGED << mainVars, patched, second >>

QuietCore == UNCHANGED << keys, blocks, receiver_exception >>

\* Before main()'s try block: only from here an exception gets out of it.
LogNotWritable ==
    /\ core = "boot" /\ CoreTo("done")
    /\ receiver_exception' = TRUE
    /\ UNCHANGED << keys, blocks, sourceVars, recorderVars >>

\* A file that is missing or empty, or a radio that is not there (the stub
\* never is): the exception ends in LAST_ERROR and main() returns as if it
\* had been told to.
OpenFails ==
    /\ core = "boot" /\ (FromFile => ~ SourceOpens)
    /\ CoreTo("fatal") /\ QuietCore
    /\ UNCHANGED << sourceVars, recorderVars >>

Open ==
    /\ core = "boot"
    /\ IF FromFile THEN SourceOpens /\ OpenSource
                   ELSE program.adi /\ UNCHANGED sourceVars
    /\ CoreTo("setup") /\ QuietCore
    /\ UNCHANGED recorderVars

Setup ==
    /\ core = "setup"
    /\ IF FromFile THEN SetSampleRate ELSE UNCHANGED sourceVars
    /\ CoreTo("poll") /\ QuietCore
    /\ UNCHANGED recorderVars

\* The wrapped handle_keyboard of competition mode looks at stop_event, the
\* core's own one at the keyboard only.
PollsStopEvent == patched /\ program.run_mode = "competition"

PollContinues ==
    /\ core = "poll" /\ (PollsStopEvent => ~ stop_event)
    /\ blocks < MaxBlocks
    /\ CoreTo("rx") /\ QuietCore
    /\ UNCHANGED << sourceVars, recorderVars >>

PollStops ==
    /\ core = "poll" /\ PollsStopEvent /\ stop_event
    /\ CoreTo("done") /\ QuietCore
    /\ UNCHANGED << sourceVars, recorderVars >>

KeyQ ==
    /\ core = "poll" /\ ~ PollsStopEvent /\ program.run_mode = "debug"
    /\ CoreTo("done") /\ QuietCore
    /\ UNCHANGED << sourceVars, recorderVars >>

\* A saturated block is neither demodulated nor, for that reason, recorded;
\* any block may be one.
Receive ==
    /\ core = "rx"
    /\ IF FromFile THEN Rx ELSE UNCHANGED sourceVars
    /\ blocks' = blocks + 1
    /\ \E saturated \in BOOLEAN : CoreTo(IF saturated THEN "poll" ELSE "demod")
    /\ UNCHANGED << keys, receiver_exception, recorderVars >>

ReceiveFails ==
    /\ core = "rx" /\ ~ FromFile
    /\ CoreTo("fatal") /\ QuietCore
    /\ UNCHANGED << sourceVars, recorderVars >>

\* In a match the file's name says who plays whom, once that is known; in
\* which order contexts and recordings come is left open.
RecordPrefixes ==
    IF program.name = "node" /\ program.run_mode = "competition"
    THEN FilePrefixes \ {BasePrefix} ELSE {BasePrefix}

\* The wrapped fast_demod hands the block to the recorder first.  Once it
\* has been called it does so, even if the patches go and the recorder is
\* closed before it gets the recorder's lock.
FastDemod ==
    /\ core = "demod"
    /\ CoreTo(IF patched /\ program.record THEN "hook" ELSE "parse") /\ QuietCore
    /\ UNCHANGED << sourceVars, recorderVars >>

Hook ==
    /\ core = "hook"
    /\ \E prefix \in RecordPrefixes : Write(prefix, second)
    /\ CoreTo("parse") /\ QuietCore
    /\ UNCHANGED sourceVars

ParseKey ==
    /\ core = "parse"
    /\ CoreTo("poll")
    /\ keys' = IF patched THEN Least(keys + 1, MaxKeys) ELSE keys
    /\ UNCHANGED << blocks, receiver_exception, sourceVars, recorderVars >>

ParseNothing ==
    /\ core = "parse"
    /\ CoreTo("poll") /\ QuietCore
    /\ UNCHANGED << sourceVars, recorderVars >>

\* The 1.5 seconds the error stays on the screen.
FatalShown ==
    /\ core = "fatal"
    /\ CoreTo("done") /\ QuietCore
    /\ UNCHANGED << sourceVars, recorderVars >>

(***************************************************************************)
(* Shutting down                                                           *)
(***************************************************************************)
MainTo(step) ==
    /\ main' = step
    /\ UNCHANGED << program, keys, blocks, receiver_exception, second, sourceVars >>

\* Mutant: the patches are taken away before the core is told to stop.
RestoreAndRequestStop ==
    /\ main = "run"
    /\ MainTo("joining") /\ stop_event' = TRUE /\ RemovePatches
    /\ UNCHANGED << timed_out, result, core, recorderVars >>

RequestStop ==
    /\ main = "run"
    /\ MainTo("joining") /\ stop_event' = TRUE
    /\ UNCHANGED << timed_out, result, core, patched, recorderVars >>

Interrupt == program.name = "node" /\ RequestStop

\* All candidates are measured, or the core's exception was noticed.
SweepIsOver == program.name = "sweep" /\ RequestStop

Deadline == program.name = "replay" /\ RequestStop

ReplayHasEnough ==
    /\ program.name = "replay" /\ (receiver_exception \/ keys >= MaxKeys)
    /\ RequestStop

CoreEnded == core \in {"off", "done"}

\* Mutant: the core is not waited for.
NotJoined ==
    /\ main = "joining"
    /\ MainTo("joined")
    /\ UNCHANGED << stop_event, timed_out, result, core, patched, recorderVars >>

Joined ==
    /\ main = "joining" /\ CoreEnded
    /\ MainTo("joined")
    /\ UNCHANGED << stop_event, timed_out, result, core, patched, recorderVars >>

\* A thread that replays a file in competition mode gets round to polling
\* well within the two or three seconds; one that waits for the hardware or
\* for a key may not.
MayTimeOut == ~ FromFile \/ program.run_mode = "debug"

JoinTimesOut ==
    /\ main = "joining" /\ ~ CoreEnded /\ MayTimeOut
    /\ MainTo("joined") /\ timed_out' = TRUE
    /\ UNCHANGED << stop_event, result, core, patched, recorderVars >>

\* A second interrupt breaks off the join and all that would follow.
InterruptAgain ==
    /\ main = "joining" /\ program.name # "replay"
    /\ MainTo("exited") /\ core' = "done"
    /\ UNCHANGED << stop_event, timed_out, result, patched, recorderVars >>

RestorePatches ==
    /\ main = "joined" /\ program.name # "replay"
    /\ MainTo("restored") /\ RemovePatches
    /\ UNCHANGED << stop_event, timed_out, result, core, recorderVars >>

StopRecording ==
    /\ main = "restored"
    /\ MainTo("closed")
    /\ IF program.record THEN CloseRecorder ELSE UNCHANGED recorderVars
    /\ UNCHANGED << stop_event, timed_out, result, core, patched >>

\* The replay leaves the patches in place and has nothing to close.
ReplayResult ==
    IF receiver_exception THEN Failed
    ELSE IF keys > 0 \/ program.allow_no_key THEN Success ELSE NoKeyYet

Report ==
    /\ main = "joined" /\ program.name = "replay"
    /\ MainTo("closed") /\ result' = ReplayResult
    /\ UNCHANGED << stop_event, timed_out, core, patched, recorderVars >>

\* The core is a daemon thread: it ends with the process.
Exit ==
    /\ main = "closed"
    /\ MainTo("exited") /\ core' = "done"
    /\ UNCHANGED << stop_event, timed_out, result, patched, recorderVars >>

Tick ==
    /\ main \notin {"exited", "failed"} /\ second < MaxSecond
    /\ second' = second + 1
    /\ UNCHANGED << mainVars, coreVars, patched, sourceVars, recorderVars >>

(***************************************************************************)
(* The specification                                                       *)
(***************************************************************************)
Init ==
    /\ program \in Programs
    /\ main = "construct" /\ core = "off"
    /\ patched = FALSE /\ stop_event = FALSE /\ receiver_exception = FALSE
    /\ timed_out = FALSE /\ keys = 0 /\ result = NoResult /\ blocks = 0 /\ second = 0
    /\ iq_source_config = [samples |-> 0, loop |-> FALSE, offset |-> 0, rate |-> 1,
                           mixed |-> FALSE]
    /\ SourceInit /\ RecorderInit

CoreStep ==
    \/ LogNotWritable \/ OpenFails \/ Open \/ Setup
    \/ PollContinues \/ PollStops
    \/ Receive \/ ReceiveFails
    \/ FastDemod \/ Hook \/ ParseKey \/ ParseNothing
    \/ FatalShown

ShutdownStep ==
    \/ Joined \/ JoinTimesOut \/ InterruptAgain
    \/ RestorePatches \/ StopRecording \/ Report \/ Exit

Next ==
    \/ Construct
    \/ CoreStep \/ KeyQ
    \/ Interrupt \/ SweepIsOver \/ Deadline \/ ReplayHasEnough
    \/ ShutdownStep
    \/ Tick

\* A core that replays a file keeps running, one that has hardware in hand
\* may wait for it for ever; the replay's deadline passes; a main thread that
\* shuts down goes on, its join included.
Fairness ==
    /\ WF_vars(CoreStep /\ FromFile)
    /\ WF_vars(Deadline)
    /\ WF_vars(ShutdownStep)

Spec == Init /\ [][Next]_vars /\ Fairness

(***************************************************************************)
(* Properties                                                              *)
(***************************************************************************)

\* Every variable holds a value of its type; in particular the recording is
\* never read outside its bounds.
TypeOK ==
    /\ program \in Programs
    /\ main \in {"construct", "failed", "run", "joining", "joined", "restored",
                 "closed", "exited"}
    /\ core \in {"off", "boot", "setup", "poll", "rx", "demod", "hook", "parse",
              "fatal", "done"}
    /\ patched \in BOOLEAN /\ stop_event \in BOOLEAN /\ timed_out \in BOOLEAN
    /\ receiver_exception \in BOOLEAN
    /\ keys \in 0 .. MaxKeys /\ result \in {NoResult, Success, NoKeyYet, Failed}
    /\ blocks \in 0 .. MaxBlocks /\ second \in 0 .. MaxSecond
    /\ index \in 0 .. SamplesTotal /\ absolute_sample \in Nat
    /\ pending_offset \in BOOLEAN
    /\ path \in Paths \cup {NoPath} /\ handle_open \in BOOLEAN /\ stopped \in BOOLEAN
    /\ start_wall \in 0 .. MaxSecond
    /\ chunks_seen \in 0 .. MaxBlocks /\ chunks_written \in 0 .. MaxBlocks
    /\ files \in [Paths -> 0 .. MaxBlocks]
    /\ DOMAIN meta = Paths

\* The core is given the recording from the start offset on, sample by
\* sample, around the end as often as it takes or followed by silence, in
\* full blocks; and the mixer's phase runs on without a jump across blocks
\* and across the end of the file.
ReplayFollowsRecording ==
    blocks > 0 /\ FromFile =>
        LET first == (blocks - 1) * BlockSize IN
        /\ block.samples = [i \in 1 .. BlockSize |-> Delivered(first + i - 1)]
        /\ block.phase = IF iq_source_config.mixed
                         THEN SeekSeconds(iq_source_config.rate) + first ELSE Unmixed

\* After an orderly shutdown the metadata beside the last recording agrees
\* with it, whichever limit was met and whoever closed the file; "orderly"
\* excludes a core that outlived its join.
MetadataMatchesFile ==
    main = "closed" /\ ~ timed_out /\ path # NoPath /\ program.record =>
        /\ meta[path].chunks_written = files[path]
        /\ meta[path].chunks_seen = chunks_seen

\* No recording exceeds iq_record_max_bytes, not even one that a late block
\* opens after the recorder was closed.
FilesWithinLimit ==
    MaxChunks > 0 => \A p \in Paths : files[p] <= MaxChunks

\* A process told to stop ends, and a replay ends in any case: nothing in the
\* order of stopping, joining and taking the patches away keeps the core from
\* seeing the request.
StopEndsProcess ==
    main = "joining" \/ (program.name = "replay" /\ main = "run")
        ~> main = "exited"
=============================================================================
