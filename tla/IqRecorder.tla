------------------------------ MODULE IqRecorder ------------------------------
(***************************************************************************)
(* IqRecorder of receiver_node.py (and SweepIqRecorder, its copy in        *)
(* adaptive_profile_sweep.py): blocks of IQ are appended to a file whose   *)
(* name holds the second it was opened in; closing writes the metadata     *)
(* beside it.  The receiver thread writes, another thread closes, each     *)
(* under the recorder's lock.  Blocks have one size, so limits and counts  *)
(* are in blocks.                                                          *)
(***************************************************************************)
EXTENDS Integers

CONSTANTS
    EveryN,       \* iq_record_every_n
    MaxChunks,    \* iq_record_max_bytes, 0 for "no limit"
    MaxSec,       \* iq_record_max_sec, 0 for "no limit"
    FilePrefixes, \* what prefix_provider may return
    MaxSecond,    \* bound of the clock
    NoPath

Paths == FilePrefixes \X (0 .. MaxSecond)
NoMetadata == [chunks_seen |-> -1, chunks_written |-> -1]

ASSUME RecorderAssumption ==
    /\ EveryN \in Nat \ {0} /\ MaxChunks \in Nat /\ MaxSec \in Nat
    /\ MaxSecond \in Nat /\ NoPath \notin Paths

VARIABLES
    path, handle_open, start_wall, chunks_seen, chunks_written, stopped,
    files,   \* blocks in each file
    meta     \* the metadata beside it

recorderVars == << path, handle_open, start_wall, chunks_seen, chunks_written,
                   stopped, files, meta >>

RecorderInit ==
    /\ path = NoPath /\ handle_open = FALSE /\ start_wall = 0
    /\ chunks_seen = 0 /\ chunks_written = 0 /\ stopped = FALSE
    /\ files = [p \in Paths |-> 0]
    /\ meta = [p \in Paths |-> NoMetadata]

Metadata == [chunks_seen |-> chunks_seen, chunks_written |-> chunks_written]

CloseRecorder ==
    /\ handle_open' = FALSE
    /\ meta' = IF path = NoPath THEN meta ELSE [meta EXCEPT ![path] = Metadata]
    /\ UNCHANGED << path, start_wall, chunks_seen, chunks_written, stopped, files >>

\* A file of the same prefix and second is truncated.
Opened(prefix, now) ==
    IF handle_open THEN [path |-> path, start |-> start_wall, size |-> files[path]]
    ELSE [path |-> << prefix, now >>, start |-> now, size |-> 0]

\* Mutant: compared before the block is added.
LimitAfter(file, now) ==
    \/ MaxSec > 0 /\ now - file.start >= MaxSec
    \/ MaxChunks > 0 /\ chunks_written > MaxChunks

LimitReached(file, now) ==
    \/ MaxSec > 0 /\ now - file.start >= MaxSec
    \/ MaxChunks > 0 /\ chunks_written + 1 > MaxChunks

AppendBlock(file) ==
    /\ handle_open' = TRUE
    /\ chunks_written' = chunks_written + 1
    /\ files' = [files EXCEPT ![file.path] = file.size + 1]
    /\ UNCHANGED << stopped, meta >>

StopAtLimit(file) ==
    /\ handle_open' = FALSE /\ stopped' = TRUE
    /\ files' = [files EXCEPT ![file.path] = file.size]
    /\ meta' = [meta EXCEPT ![file.path] =
                  [chunks_seen |-> chunks_seen + 1, chunks_written |-> chunks_written]]
    /\ UNCHANGED chunks_written

WriteBlock(prefix, now) ==
    LET file == Opened(prefix, now) IN
    /\ chunks_seen' = chunks_seen + 1
    /\ path' = file.path /\ start_wall' = file.start
    /\ IF LimitReached(file, now) THEN StopAtLimit(file) ELSE AppendBlock(file)

SkipBlock ==
    /\ chunks_seen' = chunks_seen + 1
    /\ UNCHANGED << path, handle_open, start_wall, chunks_written, stopped, files, meta >>

Write(prefix, now) ==
    \/ stopped /\ UNCHANGED recorderVars
    \/ ~ stopped /\ chunks_seen % EveryN # 0 /\ SkipBlock
    \/ ~ stopped /\ chunks_seen % EveryN = 0 /\ WriteBlock(prefix, now)
=============================================================================
