----------------------- MODULE ReceiverProcess_proofs -----------------------
(***************************************************************************)
(* Recording and replaying, for every program, limit, block size and       *)
(* length of the run.  No file exceeds the limit, and after an orderly     *)
(* shutdown the metadata agree with the file: only two steps touch the     *)
(* recorder, the hook on the core's thread and the closing on the main     *)
(* thread.  A file that is replayed reaches the core sample by sample in   *)
(* order: the loop that wraps around its end is solved in closed form, by  *)
(* induction on the samples it is asked for, and the position in the file  *)
(* is tied to the number of blocks received.                               *)
(***************************************************************************)
EXTENDS ReceiverProcess, SequenceLemmas, TLAPS

\* The counters bound every file, because opening a file resets none of them.
Bounded ==
    /\ second \in 0 .. MaxSecond
    /\ files \in [Paths -> Nat]
    /\ chunks_written \in Nat
    /\ path \in Paths \cup {NoPath}
    /\ handle_open => path \in Paths
    /\ \A p \in Paths : files[p] <= chunks_written
    /\ MaxChunks > 0 => chunks_written <= MaxChunks

\* IqRecorder._open: a file just opened holds no more than has been counted.
LEMMA OpenedBounded ==
    ASSUME Bounded, NEW prefix \in FilePrefixes
    PROVE  /\ Opened(prefix, second).path \in Paths
           /\ Opened(prefix, second).size \in Nat
           /\ Opened(prefix, second).size <= chunks_written
<1>1. CASE handle_open
  BY <1>1 DEF Bounded, Opened
<1>2. CASE ~ handle_open
  <2>1. << prefix, second >> \in Paths
    BY DEF Bounded, Paths
  <2> QED BY <1>2, <2>1 DEF Bounded, Opened
<1> QED BY <1>1, <1>2

\* The hook's write keeps the bound, whatever file it meets.
LEMMA WriteKeepsBound ==
    ASSUME Bounded, NEW prefix \in FilePrefixes, Write(prefix, second), second' = second
    PROVE  Bounded'
<1> DEFINE file == Opened(prefix, second)
<1>1. file.path \in Paths /\ file.size \in Nat /\ file.size <= chunks_written
  BY OpenedBounded
<1>2. CASE UNCHANGED recorderVars
  BY <1>2 DEF Bounded, recorderVars
<1>3. CASE SkipBlock
  BY <1>3 DEF Bounded, SkipBlock
<1>4. CASE WriteBlock(prefix, second)
  <2>1. path' = file.path
    BY <1>4 DEF WriteBlock
  <2> HIDE DEF file
  <2>2. CASE LimitReached(file, second)
    <3>1. /\ files' = [files EXCEPT ![file.path] = file.size]
          /\ chunks_written' = chunks_written /\ ~ handle_open'
      BY <1>4, <2>2 DEF WriteBlock, StopAtLimit, file
    <3> QED BY <1>1, <2>1, <3>1 DEF Bounded
  <2>3. CASE ~ LimitReached(file, second)
    <3>1. /\ files' = [files EXCEPT ![file.path] = file.size + 1]
          /\ chunks_written' = chunks_written + 1
      BY <1>4, <2>3 DEF WriteBlock, AppendBlock, file
    <3>2. MaxChunks > 0 => chunks_written + 1 <= MaxChunks
      BY <2>3, RecorderAssumption DEF LimitReached, Bounded
    <3> QED BY <1>1, <2>1, <3>1, <3>2 DEF Bounded
  <2> QED BY <2>2, <2>3
<1> QED BY <1>2, <1>3, <1>4 DEF Write

\* A step either leaves the recorder alone, or is the hook's, or closes.
LEMMA RecorderSteps ==
    ASSUME [Next]_vars
    PROVE  \/ UNCHANGED recorderVars
           \/ Hook
           \/ StopRecording
BY DEF Next, Construct, CoreStep, LogNotWritable, OpenFails, Open, Setup,
       PollContinues, PollStops, Receive, ReceiveFails, FastDemod, ParseKey,
       ParseNothing, FatalShown, KeyQ, Interrupt, SweepIsOver, Deadline, ReplayHasEnough,
       RequestStop, ShutdownStep, Joined, JoinTimesOut, InterruptAgain,
       RestorePatches, RemovePatches, Report, Exit, Tick, vars

\* Only the clock moves the second, up to its bound.
LEMMA ClockSteps ==
    ASSUME [Next]_vars, second \in 0 .. MaxSecond
    PROVE  second' \in 0 .. MaxSecond
<1>1. second' = second \/ Tick
  BY DEF Next, Construct, CoreStep, CoreTo, LogNotWritable, OpenFails, Open, Setup,
         PollContinues, PollStops, Receive, ReceiveFails, FastDemod, Hook, ParseKey,
         ParseNothing, FatalShown, KeyQ, Interrupt, SweepIsOver, Deadline, ReplayHasEnough,
         RequestStop, ShutdownStep, Joined, JoinTimesOut, InterruptAgain,
         RestorePatches, StopRecording, Report, Exit, MainTo, vars
<1> QED BY <1>1, RecorderAssumption DEF Tick

\* Every step keeps the files within the counter.
LEMMA BoundedInductive ==
    ASSUME Bounded, [Next]_vars
    PROVE  Bounded'
<1>1. second' \in 0 .. MaxSecond
  BY ClockSteps DEF Bounded
<1>2. CASE UNCHANGED recorderVars
  BY <1>1, <1>2 DEF Bounded, recorderVars
<1>3. CASE Hook
  <2>1. PICK prefix \in FilePrefixes : Write(prefix, second)
    BY <1>3, PrefixAssumption DEF Hook, RecordPrefixes
  <2>2. second' = second
    BY <1>3 DEF Hook, CoreTo
  <2> QED BY <2>1, <2>2, WriteKeepsBound
<1>4. CASE StopRecording
  BY <1>1, <1>4 DEF StopRecording, CloseRecorder, Bounded, recorderVars
<1> QED BY <1>2, <1>3, <1>4, RecorderSteps

\* No recording exceeds iq_record_max_bytes: the limit is compared with a
\* counter that a new file does not reset, and it holds for a file opened by
\* a late block as well.
THEOREM RecordingsWithinLimit == Spec => []FilesWithinLimit
<1>1. Init => Bounded
  BY RecorderAssumption DEF Init, RecorderInit, Bounded
<1>2. Bounded /\ [Next]_vars => Bounded'
  BY BoundedInductive
<1>3. Bounded => FilesWithinLimit
  BY RecorderAssumption DEF Bounded, FilesWithinLimit
<1> QED BY <1>1, <1>2, <1>3, PTL DEF Spec

\* Until the recorder is closed from outside, the last file has all counted
\* blocks: it is still open, or the limit has closed it for good.
AgreesSoFar ==
    IF path = NoPath THEN ~ handle_open /\ ~ stopped /\ chunks_written = 0
    ELSE files[path] = chunks_written /\ (handle_open \/ stopped)

\* IqRecorder.write keeps file and counter together.
LEMMA WriteAgrees ==
    ASSUME Bounded, AgreesSoFar, NEW prefix \in FilePrefixes, Write(prefix, second)
    PROVE  AgreesSoFar'
<1> DEFINE file == Opened(prefix, second)
<1>1. file.path \in Paths /\ file.size \in Nat
  BY OpenedBounded
<1>2. CASE UNCHANGED recorderVars
  BY <1>2 DEF AgreesSoFar, recorderVars
<1>3. CASE SkipBlock
  BY <1>3 DEF AgreesSoFar, SkipBlock
<1>4. CASE ~ stopped /\ WriteBlock(prefix, second)
  <2>1. path' = file.path /\ path' # NoPath
    BY <1>1, <1>4, RecorderAssumption DEF WriteBlock
  <2>2. file.size = chunks_written
    <3>1. CASE handle_open
      BY <3>1 DEF AgreesSoFar, Opened
    <3>2. CASE ~ handle_open
      BY <3>2, <1>4 DEF AgreesSoFar, Opened
    <3> QED BY <3>1, <3>2
  <2> HIDE DEF file
  <2>3. CASE LimitReached(file, second)
    <3>1. /\ files' = [files EXCEPT ![file.path] = file.size]
          /\ chunks_written' = chunks_written /\ stopped'
      BY <1>4, <2>3 DEF WriteBlock, StopAtLimit, file
    <3> QED BY <1>1, <2>1, <2>2, <3>1 DEF AgreesSoFar, Bounded
  <2>4. CASE ~ LimitReached(file, second)
    <3>1. /\ files' = [files EXCEPT ![file.path] = file.size + 1]
          /\ chunks_written' = chunks_written + 1 /\ handle_open'
      BY <1>4, <2>4 DEF WriteBlock, AppendBlock, file
    <3> QED BY <1>1, <2>1, <2>2, <3>1 DEF AgreesSoFar, Bounded
  <2> QED BY <2>3, <2>4
<1> QED BY <1>2, <1>3, <1>4 DEF Write

\* What a shutdown relies on: a core that was joined is over.
Orderly ==
    /\ Bounded
    /\ program \in Programs
    /\ DOMAIN meta = Paths
    /\ main = "construct" => core = "off"
    /\ main \in {"joined", "restored", "closed"} /\ ~ timed_out => CoreEnded
    /\ main \notin {"closed", "exited"} => AgreesSoFar
    /\ MetadataMatchesFile

\* A block written by the hook, before or after the recorder was closed.
LEMMA OrderlyAtHook ==
    ASSUME Orderly, Hook
    PROVE  Orderly'
<1>1. PICK prefix \in FilePrefixes : Write(prefix, second)
  BY PrefixAssumption DEF Hook, RecordPrefixes
<1>2. /\ core = "hook" /\ core' = "parse" /\ second' = second
      /\ program' = program /\ main' = main /\ timed_out' = timed_out
  BY DEF Hook, CoreTo, mainVars
<1>3. Bounded'
  BY <1>1, <1>2, WriteKeepsBound DEF Orderly
<1>4. DOMAIN meta' = Paths
  BY <1>1 DEF Write, WriteBlock, StopAtLimit, AppendBlock, SkipBlock, recorderVars, Orderly
<1>5. main \notin {"closed", "exited"} => AgreesSoFar'
  BY <1>1, WriteAgrees DEF Orderly
<1>6. ~ (main \in {"joined", "restored", "closed"} /\ ~ timed_out)
  BY <1>2 DEF Orderly, CoreEnded
<1>7. MetadataMatchesFile'
  BY <1>2, <1>6 DEF MetadataMatchesFile
<1> QED BY <1>2, <1>3, <1>4, <1>5, <1>6, <1>7 DEF Orderly

\* The main thread closes the recorder: the metadata is that of the last file.
LEMMA OrderlyAtClose ==
    ASSUME Orderly, StopRecording
    PROVE  Orderly'
<1>1. /\ main = "restored" /\ main' = "closed" /\ program' = program
      /\ core' = core /\ timed_out' = timed_out /\ second' = second
  BY DEF StopRecording, MainTo
<1>2. UNCHANGED << path, chunks_seen, chunks_written, files >>
  BY DEF StopRecording, CloseRecorder, recorderVars
<1>3. Bounded' /\ DOMAIN meta' = Paths
  BY <1>1, <1>2 DEF StopRecording, CloseRecorder, recorderVars, Orderly, Bounded
<1>4. MetadataMatchesFile'
  <2>1. SUFFICES ASSUME path # NoPath, program.record
                 PROVE  /\ meta'[path].chunks_written = files[path]
                        /\ meta'[path].chunks_seen = chunks_seen
    BY <1>1, <1>2 DEF MetadataMatchesFile
  <2>2. meta' = [meta EXCEPT ![path] = Metadata] /\ path \in Paths
    BY <2>1 DEF StopRecording, CloseRecorder, Orderly, Bounded
  <2>3. files[path] = chunks_written
    BY <1>1, <2>1 DEF Orderly, AgreesSoFar
  <2> QED BY <2>2, <2>3 DEF Metadata, Orderly
<1> QED BY <1>1, <1>3, <1>4 DEF Orderly, CoreEnded

\* The other steps move the two threads only.
LEMMA OrderlyElsewhere ==
    ASSUME Orderly, [Next]_vars, UNCHANGED recorderVars, ~ Hook, ~ StopRecording
    PROVE  Orderly'
<1>1. Bounded'
  BY BoundedInductive DEF Orderly
<1>2. AgreesSoFar => AgreesSoFar'
  BY DEF AgreesSoFar, recorderVars
<1>3. DOMAIN meta' = Paths
  BY DEF Orderly, recorderVars
<1>4. CASE Construct
  BY <1>1, <1>2, <1>3, <1>4
     DEF Construct, Orderly, MetadataMatchesFile
<1>5. CASE CoreStep \/ KeyQ
  <2>1. /\ program' = program /\ main' = main /\ timed_out' = timed_out
        /\ core \notin {"off", "done"}
    BY <1>5 DEF CoreStep, KeyQ, LogNotWritable, OpenFails, Open, Setup, PollContinues,
                PollStops, Receive, ReceiveFails, FastDemod, ParseKey, ParseNothing,
                FatalShown, CoreTo, mainVars
  <2>2. main # "construct" /\ ~ (main \in {"joined", "restored", "closed"} /\ ~ timed_out)
    BY <2>1 DEF Orderly, CoreEnded
  <2> QED BY <1>1, <1>2, <1>3, <2>1, <2>2 DEF Orderly, MetadataMatchesFile
<1>6. CASE RequestStop
  BY <1>1, <1>2, <1>3, <1>6 DEF RequestStop, MainTo, Orderly, MetadataMatchesFile
<1>7. CASE Joined
  BY <1>1, <1>2, <1>3, <1>7 DEF Joined, MainTo, Orderly, MetadataMatchesFile, CoreEnded
<1>8. CASE JoinTimesOut
  BY <1>1, <1>2, <1>3, <1>8 DEF JoinTimesOut, MainTo, Orderly, MetadataMatchesFile
<1>9. CASE InterruptAgain \/ Exit
  BY <1>1, <1>2, <1>3, <1>9 DEF InterruptAgain, Exit, MainTo, Orderly, MetadataMatchesFile
<1>10. CASE RestorePatches
  BY <1>1, <1>2, <1>3, <1>10
     DEF RestorePatches, MainTo, Orderly, MetadataMatchesFile, CoreEnded
<1>11. CASE Report
  <2>1. /\ program' = program /\ main = "joined" /\ main' = "closed"
        /\ core' = core /\ timed_out' = timed_out /\ ~ program.record
    BY <1>11, ProgramsAssumption DEF Report, MainTo, Orderly
  <2> QED BY <1>1, <1>2, <1>3, <2>1 DEF Orderly, MetadataMatchesFile, CoreEnded
<1>12. CASE Tick \/ UNCHANGED vars
  <2>1. UNCHANGED << program, main, core, timed_out, recorderVars >>
    BY <1>12 DEF Tick, mainVars, coreVars, vars
  <2> QED BY <1>1, <1>2, <1>3, <2>1
          DEF Orderly, MetadataMatchesFile, CoreEnded, recorderVars
<1> QED BY <1>4, <1>5, <1>6, <1>7, <1>8, <1>9, <1>10, <1>11, <1>12
        DEF Next, CoreStep, ShutdownStep, Interrupt, SweepIsOver, Deadline, ReplayHasEnough

\* Once the core was joined nothing is written any more, so what close()
\* writes down is final: the order stop, join, close is what it takes.
THEOREM MetadataCorrect == Spec => []MetadataMatchesFile
<1>1. Init => Orderly
  BY RecorderAssumption
     DEF Init, RecorderInit, Orderly, Bounded, AgreesSoFar, MetadataMatchesFile
<1>2. Orderly /\ [Next]_vars => Orderly'
  BY OrderlyAtHook, OrderlyAtClose, OrderlyElsewhere, RecorderSteps
<1>3. Orderly => MetadataMatchesFile
  BY DEF Orderly
<1> QED BY <1>1, <1>2, <1>3, PTL DEF Spec

\* A quotient and a remainder in range determine the remainder.
LEMMA ModUnique ==
    ASSUME NEW t \in Nat \ {0}, NEW a \in Nat, NEW r \in 0 .. t - 1, NEW q \in Int, a = t * q + r
    PROVE  a % t = r
OBVIOUS

\* Once around a loop of t samples changes no place in it.
LEMMA ModShift ==
    ASSUME NEW t \in Nat \ {0}, NEW a \in Nat
    PROVE  /\ a % t \in 0 .. t - 1
           /\ (a + t) % t = a % t
           /\ a < t => a % t = a
<1>1. PICK q \in Int : a = t * q + (a % t)
  <2>1. a = t * (a \div t) + (a % t) /\ a \div t \in Int
    OBVIOUS
  <2> QED BY <2>1
<1>2. a % t \in 0 .. t - 1
  OBVIOUS
<1>3. a + t = t * (q + 1) + (a % t)
  BY <1>1, <1>2
<1>4. (a + t) % t = a % t
  BY <1>2, <1>3, ModUnique
<1> QED BY <1>2, <1>4

\* The same place in the loop stays the same place when both read on.
LEMMA ModAdd ==
    ASSUME NEW t \in Nat \ {0}, NEW a \in Nat, NEW b \in Nat, NEW c \in Nat,
           a % t = b % t
    PROVE  (a + c) % t = (b + c) % t
<1>1. PICK q \in Int : a = t * q + (a % t)
  <2>1. a = t * (a \div t) + (a % t) /\ a \div t \in Int
    OBVIOUS
  <2> QED BY <2>1
<1>2. PICK p \in Int : b = t * p + (b % t)
  <2>1. b = t * (b \div t) + (b % t) /\ b \div t \in Int
    OBVIOUS
  <2> QED BY <2>1
<1>3. PICK s \in Int : b + c = t * s + ((b + c) % t)
  <2>1. b + c = t * ((b + c) \div t) + ((b + c) % t) /\ (b + c) \div t \in Int
    OBVIOUS
  <2> QED BY <2>1
<1> DEFINE r == (b + c) % t
<1>4. a % t = b % t /\ b % t \in Int /\ r \in 0 .. t - 1
  OBVIOUS
<1>5. t * (s + q - p) = t * s + t * q - t * p
  OBVIOUS
<1>6. a + c = t * (s + q - p) + r
  <2> HIDE DEF r
  <2>1. a - b = t * q - t * p
    BY <1>1, <1>2, <1>4
  <2>2. b + c = t * s + r
    BY <1>3 DEF r
  <2> QED BY <1>4, <1>5, <2>1, <2>2
<1>7. s + q - p \in Int /\ a + c \in Nat
  OBVIOUS
<1> HIDE DEF r
<1>8. (a + c) % t = r
  BY <1>4, <1>6, <1>7, ModUnique
<1> QED BY <1>8 DEF r

\* What the loop's result is, said without a loop: the recording over and over.
Around(t, n) == [samples |-> [i \in 1 .. n |-> (i - 1) % t],
                 index   |-> IF n = 0 THEN 0 ELSE ((n - 1) % t) + 1]

\* The right-hand side of FromStart's equation.
LoopBody(f, needed) ==
    IF needed <= SamplesTotal
    THEN [samples |-> Samples(0, needed), index |-> needed]
    ELSE LET later == f[needed - SamplesTotal]
         IN  [later EXCEPT !.samples = Samples(0, SamplesTotal) \o @]

\* One round of the loop, given that the later rounds read the recording over
\* and over, reads it over and over.
LEMMA AroundStep ==
    ASSUME SamplesTotal \in Nat \ {0}, NEW n \in Nat, NEW f,
           n > SamplesTotal => f[n - SamplesTotal] = Around(SamplesTotal, n - SamplesTotal)
    PROVE  LoopBody(f, n) = Around(SamplesTotal, n)
<1> DEFINE t == SamplesTotal
<1> HIDE DEF t
<1>0. t \in Nat \ {0}
  BY DEF t
<1>a. ASSUME NEW a \in Nat PROVE (a + t) % t = a % t /\ (a < t => a % t = a)
  BY <1>0, <1>a, ModShift
<1>1. CASE n <= t
  <2>1. \A i \in 1 .. n : (i - 1) % t = 0 + i - 1
    <3> SUFFICES ASSUME NEW i \in 1 .. n PROVE (i - 1) % t = i - 1
      OBVIOUS
    <3>1. i - 1 \in Nat /\ i - 1 < t
      BY <1>0, <1>1
    <3> QED BY <3>1, <1>a
  <2>2. n # 0 => ((n - 1) % t) + 1 = n
    <3> SUFFICES ASSUME n # 0 PROVE (n - 1) % t = n - 1
      BY <1>0
    <3>1. n - 1 \in Nat /\ n - 1 < t
      BY <1>0, <1>1
    <3> QED BY <3>1, <1>a
  <2>3. LoopBody(f, n) = [samples |-> Samples(0, n), index |-> n]
    BY <1>1 DEF LoopBody, t
  <2>4. Samples(0, n) = [i \in 1 .. n |-> (i - 1) % t]
    BY <2>1 DEF Samples
  <2> QED BY <2>2, <2>3, <2>4 DEF Around, t
<1>2. CASE n > t
  <2> DEFINE m == n - t
             rest == [i \in 1 .. m |-> (i - 1) % t]
  <2>1. m \in Nat \ {0} /\ n - 1 = (m - 1) + t
    BY <1>0, <1>2
  <2>2. f[m] = [samples |-> rest, index |-> ((m - 1) % t) + 1]
    BY <1>2, <2>1 DEF Around, t
  <2>3. LoopBody(f, n) = [samples |-> Samples(0, t) \o rest, index |-> ((m - 1) % t) + 1]
    <3>1. LoopBody(f, n) = [f[m] EXCEPT !.samples = Samples(0, t) \o @]
      BY <1>0, <1>2 DEF LoopBody, t
    <3> DEFINE k == ((m - 1) % t) + 1
               first == Samples(0, t)
    <3>2. f[m] = [samples |-> rest, index |-> k]
      BY <2>2
    <3>3. LoopBody(f, n) = [f[m] EXCEPT !.samples = first \o @]
      BY <3>1
    <3> HIDE DEF rest, m, k, first
    <3>4. LoopBody(f, n) = [samples |-> first \o rest, index |-> k]
      BY <3>2, <3>3
    <3> QED BY <3>4 DEF k, first
  <2>4. (n - 1) % t = (m - 1) % t
    <3>1. m - 1 \in Nat
      BY <2>1
    <3> QED BY <2>1, <3>1, <1>a
  <2>5. Samples(0, t) \o rest = [i \in 1 .. n |-> (i - 1) % t]
    <3>1. Samples(0, t) \in Seq(Int) /\ Len(Samples(0, t)) = t
      BY <1>0 DEF Samples
    <3>2. rest \in Seq(Int) /\ Len(rest) = m
      BY <1>0, <2>1, ModShift
    <3>3. \A i \in 1 .. t : Samples(0, t)[i] = (i - 1) % t
      <4> SUFFICES ASSUME NEW i \in 1 .. t PROVE i - 1 = (i - 1) % t
        BY <1>0 DEF Samples
      <4>1. i - 1 \in Nat /\ i - 1 < t
        BY <1>0
      <4> QED BY <4>1, <1>a
    <3>4. \A i \in t + 1 .. n : i - t \in 1 .. m /\ rest[i - t] = (i - 1) % t
      <4> SUFFICES ASSUME NEW i \in t + 1 .. n
                   PROVE  i - t \in 1 .. m /\ rest[i - t] = (i - 1) % t
        OBVIOUS
      <4>1. i - t \in 1 .. m /\ i - t - 1 \in Nat
        BY <1>0
      <4>2. (i - t - 1) + t = i - 1
        BY <1>0
      <4>3. (i - t - 1) % t = (i - 1) % t
        BY <1>0, <4>1, <4>2, ModShift
      <4> QED BY <4>1, <4>3
    <3> HIDE DEF rest
    <3>5. n = t + m
      BY <1>0, <1>2
    <3> HIDE DEF m
    <3> DEFINE all == Samples(0, t) \o rest
    <3>6. /\ all \in Seq(Int) /\ Len(all) = n
          /\ \A i \in 1 .. n : all[i] = IF i <= t THEN Samples(0, t)[i] ELSE rest[i - t]
      <4> HIDE DEF all
      <4>1. /\ all \in Seq(Int) /\ Len(all) = Len(Samples(0, t)) + Len(rest)
            /\ \A i \in 1 .. Len(Samples(0, t)) + Len(rest) :
                 all[i] = IF i <= Len(Samples(0, t)) THEN Samples(0, t)[i]
                                                     ELSE rest[i - Len(Samples(0, t))]
        BY <3>1, <3>2, ConcatAt DEF all
      <4> QED BY <3>1, <3>2, <3>5, <4>1
    <3> HIDE DEF all
    <3>7. \A i \in 1 .. n : all[i] = (i - 1) % t
      <4> SUFFICES ASSUME NEW i \in 1 .. n PROVE all[i] = (i - 1) % t
        OBVIOUS
      <4>1. i \in 1 .. t \/ i \in t + 1 .. n
        BY <1>0
      <4>2. CASE i \in 1 .. t
        <5>1. all[i] = Samples(0, t)[i]
          BY <1>0, <3>6, <4>2
        <5> QED BY <3>3, <4>2, <5>1
      <4>3. CASE i \in t + 1 .. n
        <5>1. all[i] = rest[i - t]
          BY <1>0, <3>6, <4>3
        <5> QED BY <3>4, <4>3, <5>1
      <4> QED BY <4>1, <4>2, <4>3
    <3>8. all = [i \in 1 .. n |-> all[i]]
      BY <3>6
    <3> QED BY <3>7, <3>8 DEF all
  <2>6. n # 0
    BY <1>0, <1>2
  <2> HIDE DEF rest, m
  <2> QED BY <2>3, <2>4, <2>5, <2>6 DEF Around, t
<1> QED BY <1>0, <1>1, <1>2

\* The recursive function exists: Around is a solution of its equation.
LEMMA FromStartEquation ==
    ASSUME SamplesTotal \in Nat \ {0}
    PROVE  FromStart = [n \in Nat |-> LoopBody(FromStart, n)]
<1> DEFINE g == [n \in Nat |-> Around(SamplesTotal, n)]
<1>1. \A n \in Nat : LoopBody(g, n) = Around(SamplesTotal, n)
  <2> SUFFICES ASSUME NEW n \in Nat PROVE LoopBody(g, n) = Around(SamplesTotal, n)
    OBVIOUS
  <2>1. n > SamplesTotal => g[n - SamplesTotal] = Around(SamplesTotal, n - SamplesTotal)
    <3>1. n > SamplesTotal => n - SamplesTotal \in Nat
      OBVIOUS
    <3> QED BY <3>1
  <2> HIDE DEF g
  <2> QED BY <2>1, AroundStep
<1>2. g = [n \in Nat |-> LoopBody(g, n)]
  BY <1>1
<1>3. FromStart = CHOOSE f : f = [n \in Nat |-> LoopBody(f, n)]
  BY Zenon DEF FromStart, LoopBody
<1> HIDE DEF g
<1> QED BY <1>2, <1>3, Zenon

\* The while loop of a read that wraps, for every number of samples: it
\* returns the recording over and over and leaves the index behind the last
\* sample it read, by induction on the samples asked for.
LEMMA FromStartIsAround ==
    ASSUME SamplesTotal \in Nat \ {0}
    PROVE  \A n \in Nat : FromStart[n] = Around(SamplesTotal, n)
<1> DEFINE Wrong == {n \in Nat : FromStart[n] # Around(SamplesTotal, n)}
<1>1. SUFFICES ASSUME Wrong # {} PROVE FALSE
  BY Zenon
<1>2. PICK n \in Wrong : \A m \in Wrong : n <= m
  BY <1>1, LeastNat
<1>3. n > SamplesTotal => FromStart[n - SamplesTotal] = Around(SamplesTotal, n - SamplesTotal)
  BY <1>2
<1>4. LoopBody(FromStart, n) = Around(SamplesTotal, n)
  BY <1>2, <1>3, AroundStep
<1>5. FromStart[n] = LoopBody(FromStart, n)
  BY <1>2, FromStartEquation
<1> QED BY <1>2, <1>4, <1>5

\* The configurations argument parsing lets through.
SourceConfigs == [samples : Nat, loop : BOOLEAN, offset : Nat, rate : Nat \ {0}, mixed : BOOLEAN]

\* A seek lands inside the recording, however far the offset lies behind it.
LEMMA SeekType ==
    ASSUME iq_source_config \in SourceConfigs, SamplesTotal > 0, NEW rate \in Nat
    PROVE  SamplesTotal \in Nat \ {0} /\ SeekSeconds(rate) \in 0 .. SamplesTotal - 1
<1>1. SamplesTotal \in Nat \ {0}
  BY DEF SourceConfigs, SamplesTotal
<1>2. iq_source_config.offset * rate \in Nat
  BY DEF SourceConfigs
<1> HIDE DEF SamplesTotal
<1> QED BY <1>1, <1>2 DEF SeekSeconds, Least

\* Where the index stands when so many samples have been delivered.
IndexAt(position) ==
    /\ index \in 0 .. SamplesTotal
    /\ IF iq_source_config.loop THEN index % SamplesTotal = position % SamplesTotal
                                ELSE index = Least(position, SamplesTotal)

\* A file that is played once delivers what is left of it and then silence.
LEMMA ReadBlockOnce ==
    ASSUME iq_source_config \in SourceConfigs, SamplesTotal > 0, ~ iq_source_config.loop,
           NEW d \in Nat, IndexAt(SeekSeconds(iq_source_config.rate) + d)
    PROVE  /\ ReadBlock.samples = [i \in 1 .. BlockSize |-> Delivered(d + i - 1)]
           /\ ReadBlock.index = Least(SeekSeconds(iq_source_config.rate) + d + BlockSize,
                                      SamplesTotal)
<1> DEFINE t == SamplesTotal
           s == SeekSeconds(iq_source_config.rate)
           b == BlockSize
           take == Least(b, t - index)
           needed == b - take
<1>1. t \in Nat \ {0} /\ s \in Nat /\ b \in Nat \ {0}
  BY SeekType, BlockAssumption DEF SourceConfigs
<1>2. index \in 0 .. t /\ index = Least(s + d, t)
  BY DEF IndexAt
<1>3. \A i \in 1 .. b : Delivered(d + i - 1) = IF s + d + i - 1 < t THEN s + d + i - 1 ELSE Silence
  <2>1. \A i \in 1 .. b : s + (d + i - 1) = s + d + i - 1
    BY <1>1
  <2> QED BY <2>1 DEF Delivered
<1>4. ReadBlock = IF needed = 0 THEN [samples |-> Samples(index, take), index |-> index + take]
                  ELSE [samples |-> Samples(index, take) \o Zeros(needed), index |-> index + take]
  BY DEF ReadBlock
<1> HIDE DEF t, s, b
<1>5. take \in Nat /\ needed \in Nat /\ take + needed = b
  BY <1>1, <1>2 DEF Least
<1>6. index + take = Least(s + d + b, t)
  BY <1>1, <1>2 DEF Least
<1>7. \A i \in 1 .. b : Delivered(d + i - 1) = IF i <= take THEN index + i - 1 ELSE Silence
  BY <1>1, <1>2, <1>3 DEF Least
<1> HIDE DEF take, needed
<1>8. CASE needed = 0
  <2>1. Samples(index, take) = [i \in 1 .. b |-> index + i - 1] /\ take = b
    BY <1>5, <1>8 DEF Samples
  <2>2. \A i \in 1 .. b : Delivered(d + i - 1) = index + i - 1
    BY <1>5, <1>7, <1>8
  <2> QED BY <1>4, <1>6, <1>8, <2>1, <2>2 DEF t, s, b
<1>9. CASE needed # 0
  <2> DEFINE first == Samples(index, take)
             zeros == Zeros(needed)
             all   == first \o zeros
  <2>1. first \in Seq(Int) /\ Len(first) = take /\ \A i \in 1 .. take : first[i] = index + i - 1
    BY <1>2, <1>5 DEF Samples
  <2>2. zeros \in Seq(Int) /\ Len(zeros) = needed /\ \A i \in 1 .. needed : zeros[i] = Silence
    BY <1>5 DEF Zeros, Silence
  <2> HIDE DEF first, zeros
  <2>3. /\ all \in Seq(Int) /\ Len(all) = b
        /\ \A i \in 1 .. b : all[i] = IF i <= take THEN first[i] ELSE zeros[i - take]
    <3> HIDE DEF all
    <3>1. /\ all \in Seq(Int) /\ Len(all) = Len(first) + Len(zeros)
          /\ \A i \in 1 .. Len(first) + Len(zeros) :
                all[i] = IF i <= Len(first) THEN first[i] ELSE zeros[i - Len(first)]
      BY <2>1, <2>2, ConcatAt DEF all
    <3> QED BY <1>5, <2>1, <2>2, <3>1
  <2>4. ReadBlock = [samples |-> all, index |-> index + take]
    BY <1>4, <1>9 DEF first, zeros
  <2> HIDE DEF all
  <2>5. \A i \in 1 .. b : all[i] = Delivered(d + i - 1)
    <3> SUFFICES ASSUME NEW i \in 1 .. b PROVE all[i] = Delivered(d + i - 1)
      OBVIOUS
    <3>1. CASE i <= take
      <4>1. i \in 1 .. take
        BY <1>5, <3>1
      <4> QED BY <1>7, <2>1, <2>3, <3>1, <4>1
    <3>2. CASE ~ (i <= take)
      <4>1. i - take \in 1 .. needed
        BY <1>1, <1>5, <3>2
      <4> QED BY <1>7, <2>2, <2>3, <3>2, <4>1
    <3> QED BY <3>1, <3>2
  <2>6. all = [i \in 1 .. b |-> all[i]]
    BY <1>1, <2>3
  <2> QED BY <1>6, <2>4, <2>5, <2>6 DEF t, s, b
<1> QED BY <1>8, <1>9

\* A file that is looped delivers the recording over and over, however often a
\* block wraps, and the index keeps pointing at the place it has reached.
LEMMA ReadBlockAround ==
    ASSUME iq_source_config \in SourceConfigs, SamplesTotal > 0, iq_source_config.loop,
           NEW d \in Nat, IndexAt(SeekSeconds(iq_source_config.rate) + d)
    PROVE  /\ ReadBlock.samples = [i \in 1 .. BlockSize |-> Delivered(d + i - 1)]
           /\ ReadBlock.index \in 0 .. SamplesTotal
           /\ ReadBlock.index % SamplesTotal
                 = (SeekSeconds(iq_source_config.rate) + d + BlockSize) % SamplesTotal
<1> DEFINE t == SamplesTotal
           p == SeekSeconds(iq_source_config.rate) + d
           b == BlockSize
           from == IF index >= t THEN 0 ELSE index
           take == Least(b, t - from)
           needed == b - take
<1>1. t \in Nat \ {0} /\ p \in Nat /\ b \in Nat \ {0}
  BY SeekType, BlockAssumption DEF SourceConfigs
<1>2. index \in 0 .. t /\ index % t = p % t
  BY DEF IndexAt
<1>3. \A i \in 1 .. b : Delivered(d + i - 1) = IF p + (i - 1) < t THEN p + (i - 1) ELSE (p + (i - 1)) % t
  <2>1. SeekSeconds(iq_source_config.rate) \in Nat
    BY SeekType DEF SourceConfigs
  <2>2. \A i \in 1 .. b : SeekSeconds(iq_source_config.rate) + (d + i - 1) = p + (i - 1)
    BY <2>1, <1>1
  <2> QED BY <2>2 DEF Delivered
<1>4. ReadBlock = IF needed = 0 THEN [samples |-> Samples(from, take), index |-> from + take]
                  ELSE [FromStart[needed] EXCEPT !.samples = Samples(from, take) \o @]
  BY DEF ReadBlock
<1>6. \A n \in Nat : FromStart[n] = Around(t, n)
  BY <1>1, FromStartIsAround
<1> HIDE DEF t, p, b
<1>a. ASSUME NEW a \in Nat PROVE a % t \in 0 .. t - 1 /\ (a + t) % t = a % t /\ (a < t => a % t = a)
  BY <1>1, <1>a, ModShift
<1>7. from \in 0 .. t - 1 /\ from % t = p % t
  <2>1. CASE index >= t
    <3>1. index = 0 + t /\ from = 0 /\ 0 \in Nat
      BY <1>1, <1>2, <2>1
    <3>2. (0 + t) % t = 0 % t
      BY <1>a, <3>1
    <3> QED BY <1>1, <1>2, <3>1, <3>2
  <2>2. CASE ~ (index >= t)
    BY <1>1, <1>2, <2>2
  <2> QED BY <2>1, <2>2
<1> HIDE DEF from
<1>8. take \in Nat /\ needed \in Nat /\ take + needed = b /\ from + take <= t
      /\ (needed # 0 => from + take = t)
  BY <1>1, <1>7 DEF Least
<1> HIDE DEF take, needed
<1>9. ASSUME NEW c \in Nat PROVE (from + c) % t = (p + c) % t
  <2>1. from \in Nat
    BY <1>1, <1>7
  <2> QED BY <1>1, <1>7, <2>1, ModAdd
<1>10. \A i \in 1 .. b : Delivered(d + i - 1) = IF i <= take THEN from + i - 1 ELSE (i - take - 1) % t
  <2> SUFFICES ASSUME NEW i \in 1 .. b
               PROVE  Delivered(d + i - 1) = IF i <= take THEN from + i - 1
                                                          ELSE (i - take - 1) % t
    OBVIOUS
  <2>1. i - 1 \in Nat /\ p + (i - 1) \in Nat
    BY <1>1
  <2>2. Delivered(d + i - 1) = (p + (i - 1)) % t
    BY <1>3, <1>a, <2>1
  <2>3. (p + (i - 1)) % t = (from + (i - 1)) % t
    BY <1>9, <2>1
  <2>4. CASE i <= take
    <3>1. from + (i - 1) \in Nat /\ from + (i - 1) < t /\ from + (i - 1) = from + i - 1
      BY <1>1, <1>7, <1>8, <2>4
    <3>2. (from + (i - 1)) % t = from + (i - 1)
      BY <1>a, <3>1
    <3> QED BY <2>2, <2>3, <2>4, <3>1, <3>2
  <2>5. CASE ~ (i <= take)
    <3>1. i - take - 1 \in Nat /\ from + (i - 1) = (i - take - 1) + t
      BY <1>1, <1>7, <1>8, <2>5
    <3>2. ((i - take - 1) + t) % t = (i - take - 1) % t
      BY <1>a, <3>1
    <3> QED BY <2>2, <2>3, <2>5, <3>1, <3>2
  <2> QED BY <2>4, <2>5
<1>11. CASE needed = 0
  <2>1. Samples(from, take) = [i \in 1 .. b |-> from + i - 1] /\ take = b
    BY <1>8, <1>11 DEF Samples
  <2>2. \A i \in 1 .. b : Delivered(d + i - 1) = from + i - 1
    BY <1>8, <1>10, <1>11
  <2>3. ReadBlock = [samples |-> Samples(from, take), index |-> from + b]
    BY <1>4, <1>11, <2>1
  <2>4. from + b \in 0 .. t /\ (from + b) % t = (p + b) % t
    BY <1>1, <1>7, <1>8, <1>9, <2>1
  <2> QED BY <2>1, <2>2, <2>3, <2>4 DEF t, p, b
<1>12. CASE needed # 0
  <2> DEFINE first == Samples(from, take)
             rest  == [i \in 1 .. needed |-> (i - 1) % t]
             k     == (needed - 1) % t
  <2>1. first \in Seq(Int) /\ Len(first) = take /\ \A i \in 1 .. take : first[i] = from + i - 1
    BY <1>7, <1>8 DEF Samples
  <2>2. \A i \in 1 .. needed : (i - 1) % t \in Int
    <3> SUFFICES ASSUME NEW i \in 1 .. needed PROVE (i - 1) % t \in Int
      OBVIOUS
    <3>1. i - 1 \in Nat
      BY <1>8
    <3> QED BY <3>1, <1>1, <1>a
  <2>3. rest \in Seq(Int) /\ Len(rest) = needed /\ \A i \in 1 .. needed : rest[i] = (i - 1) % t
    BY <1>8, <2>2
  <2>4. FromStart[needed] = [samples |-> rest, index |-> k + 1]
    BY <1>6, <1>8, <1>12 DEF Around
  <2>5. ReadBlock = [FromStart[needed] EXCEPT !.samples = first \o @]
    BY <1>4, <1>12
  <2>6. needed - 1 \in Nat /\ k \in 0 .. t - 1 /\ k \in Nat /\ k % t = k
    <3>1. needed - 1 \in Nat
      BY <1>8, <1>12
    <3>2. k \in 0 .. t - 1
      BY <1>a, <3>1
    <3>3. k \in Nat /\ k < t
      BY <1>1, <3>2
    <3> HIDE DEF k
    <3> QED BY <1>a, <3>1, <3>2, <3>3
  <2>7. k = (needed - 1) % t
    OBVIOUS
  <2> HIDE DEF first, rest, k
  <2>8. ReadBlock = [samples |-> first \o rest, index |-> k + 1]
    <3> DEFINE wrapped == FromStart[needed]
    <3>1. wrapped = [samples |-> rest, index |-> k + 1]
      BY <2>4
    <3>2. ReadBlock = [wrapped EXCEPT !.samples = first \o @]
      BY <2>5
    <3> HIDE DEF wrapped
    <3> QED BY <3>1, <3>2
  <2> DEFINE all == first \o rest
  <2>9. /\ all \in Seq(Int) /\ Len(all) = b
        /\ \A i \in 1 .. b : all[i] = IF i <= take THEN first[i] ELSE rest[i - take]
    <3> HIDE DEF all
    <3>1. /\ all \in Seq(Int) /\ Len(all) = Len(first) + Len(rest)
          /\ \A i \in 1 .. Len(first) + Len(rest) :
                all[i] = IF i <= Len(first) THEN first[i] ELSE rest[i - Len(first)]
      BY <2>1, <2>3, ConcatAt DEF all
    <3> QED BY <1>8, <2>1, <2>3, <3>1
  <2> HIDE DEF all
  <2>10. \A i \in 1 .. b : all[i] = Delivered(d + i - 1)
    <3> SUFFICES ASSUME NEW i \in 1 .. b PROVE all[i] = Delivered(d + i - 1)
      OBVIOUS
    <3>1. CASE i <= take
      <4>1. i \in 1 .. take
        BY <1>8, <3>1
      <4> QED BY <1>10, <2>1, <2>9, <3>1, <4>1
    <3>2. CASE ~ (i <= take)
      <4>1. i - take \in 1 .. needed
        BY <1>1, <1>8, <3>2
      <4> QED BY <1>10, <2>3, <2>9, <3>2, <4>1
    <3> QED BY <3>1, <3>2
  <2>11. all = [i \in 1 .. b |-> all[i]]
    BY <1>1, <2>9
  <2>12. (k + 1) % t = (p + b) % t
    <3>1. (k + 1) % t = ((needed - 1) + 1) % t
      BY <1>1, <2>6, <2>7, ModAdd
    <3>2. needed = (needed - 1) + 1 /\ from + b = needed + t
      BY <1>1, <1>7, <1>8, <1>12
    <3>3. (needed + t) % t = needed % t
      BY <1>8, <1>a
    <3>4. (from + b) % t = (p + b) % t
      BY <1>1, <1>9
    <3> QED BY <3>1, <3>2, <3>3, <3>4
  <2>13. k + 1 \in 0 .. t
    BY <1>1, <2>6
  <2>14. ReadBlock = [samples |-> all, index |-> k + 1]
    BY <2>8 DEF all
  <2> QED BY <2>10, <2>11, <2>12, <2>13, <2>14 DEF t, p, b
<1> QED BY <1>11, <1>12

\* One receive moves the position by a block and delivers the samples there.
LEMMA RxFollows ==
    ASSUME iq_source_config \in SourceConfigs, SamplesTotal > 0, NEW d \in Nat,
           absolute_sample = SeekSeconds(iq_source_config.rate) + d,
           IndexAt(SeekSeconds(iq_source_config.rate) + d), Rx
    PROVE  /\ block'.samples = [i \in 1 .. BlockSize |-> Delivered(d + i - 1)]
           /\ block'.phase = IF iq_source_config.mixed
                             THEN SeekSeconds(iq_source_config.rate) + d ELSE Unmixed
           /\ absolute_sample' = SeekSeconds(iq_source_config.rate) + d + BlockSize
           /\ index' \in 0 .. SamplesTotal
           /\ IF iq_source_config.loop
              THEN index' % SamplesTotal
                     = (SeekSeconds(iq_source_config.rate) + d + BlockSize) % SamplesTotal
              ELSE index' = Least(SeekSeconds(iq_source_config.rate) + d + BlockSize, SamplesTotal)
<1> DEFINE s == SeekSeconds(iq_source_config.rate)
<1>1. s \in Nat /\ BlockSize \in Nat \ {0} /\ SamplesTotal \in Nat \ {0}
  BY SeekType, BlockAssumption DEF SourceConfigs
<1>2. ReadBlock.samples = [i \in 1 .. BlockSize |-> Delivered(d + i - 1)]
  BY ReadBlockOnce, ReadBlockAround DEF SourceConfigs
<1>3. Len(ReadBlock.samples) = BlockSize
  BY <1>1, <1>2
<1>4. IF iq_source_config.loop
      THEN ReadBlock.index \in 0 .. SamplesTotal
           /\ ReadBlock.index % SamplesTotal = (s + d + BlockSize) % SamplesTotal
      ELSE ReadBlock.index = Least(s + d + BlockSize, SamplesTotal)
  BY ReadBlockOnce, ReadBlockAround DEF SourceConfigs
<1> HIDE DEF s
<1>5. /\ index' = ReadBlock.index /\ absolute_sample' = absolute_sample + BlockSize
      /\ block' = [samples |-> ReadBlock.samples, phase |-> Phase]
  BY <1>3 DEF Rx
<1>6. index' \in 0 .. SamplesTotal
  BY <1>1, <1>4, <1>5 DEF Least
<1> QED BY <1>1, <1>2, <1>4, <1>5, <1>6 DEF Phase, s

\* The core is between opening and the end of its loop.
Looping == core \in {"poll", "rx", "demod", "hook", "parse"}

\* The sample the next block starts with, counted from the file's start.
Position == SeekSeconds(iq_source_config.rate) + blocks * BlockSize

\* The types of what the two threads keep, apart from source and recorder.
ThreadTypes ==
    /\ program \in Programs
    /\ main \in {"construct", "failed", "run", "joining", "joined", "restored",
                 "closed", "exited"}
    /\ core \in {"off", "boot", "setup", "poll", "rx", "demod", "hook", "parse",
                 "fatal", "done"}
    /\ patched \in BOOLEAN /\ stop_event \in BOOLEAN /\ timed_out \in BOOLEAN
    /\ receiver_exception \in BOOLEAN
    /\ keys \in 0 .. MaxKeys /\ result \in {NoResult, Success, NoKeyYet, Failed}
    /\ blocks \in 0 .. MaxBlocks /\ second \in 0 .. MaxSecond
    /\ core = "rx" => blocks < MaxBlocks

\* The recording is open, and where in it the next block starts, whenever the
\* core is in its loop.
Sourced ==
    /\ iq_source_config \in SourceConfigs
    /\ index \in 0 .. SamplesTotal /\ absolute_sample \in Nat /\ pending_offset \in BOOLEAN
    /\ main = "construct" => core = "off"
    /\ core \in {"off", "boot"} => index = 0
    /\ core \in {"off", "boot", "setup"} => blocks = 0
    /\ FromFile /\ (core = "setup" \/ Looping) => SamplesTotal > 0
    /\ FromFile /\ Looping => absolute_sample = Position /\ IndexAt(Position)

\* A block is counted by the recorder at most once, and after it was received.
Recorded ==
    /\ Bounded
    /\ handle_open \in BOOLEAN /\ stopped \in BOOLEAN
    /\ start_wall \in 0 .. MaxSecond /\ DOMAIN meta = Paths
    /\ chunks_seen \in Nat /\ chunks_written <= chunks_seen /\ chunks_seen <= blocks
    /\ core \in {"demod", "hook"} => chunks_seen < blocks

\* The inductive invariant.
Replaying == ThreadTypes /\ Sourced /\ Recorded /\ ReplayFollowsRecording

\* What the strengthening adds to the types is only the bounds it derives.
LEMMA ReplayingTyped == Replaying => TypeOK
<1> SUFFICES ASSUME Replaying PROVE TypeOK
  OBVIOUS
<1>1. ThreadTypes /\ Sourced /\ Recorded
  BY DEF Replaying
<1>2. chunks_seen \in 0 .. MaxBlocks /\ chunks_written \in 0 .. MaxBlocks
  BY <1>1, MaxKeysAssumption DEF ThreadTypes, Recorded, Bounded
<1>3. files \in [Paths -> 0 .. MaxBlocks]
  <2>1. \A p \in Paths : files[p] \in 0 .. MaxBlocks
    BY <1>1, <1>2, MaxKeysAssumption DEF Recorded, Bounded
  <2> QED BY <1>1, <2>1 DEF Recorded, Bounded
<1> QED BY <1>1, <1>2, <1>3 DEF TypeOK, ThreadTypes, Sourced, Recorded, Bounded

\* Nothing is open, read or recorded before the program is constructed.
LEMMA InitReplaying == Init => Replaying
<1> SUFFICES ASSUME Init PROVE Replaying
  OBVIOUS
<1>1. ThreadTypes
  <2>1. patched \in BOOLEAN /\ stop_event \in BOOLEAN /\ timed_out \in BOOLEAN
        /\ receiver_exception \in BOOLEAN
    BY DEF Init
  <2> QED BY <2>1, MaxKeysAssumption, RecorderAssumption DEF Init, ThreadTypes, NoResult
<1>2. Sourced
  <2>1. iq_source_config \in SourceConfigs /\ SamplesTotal = 0
    BY DEF Init, SourceConfigs, SamplesTotal
  <2>2. index = 0 /\ absolute_sample = 0 /\ pending_offset \in BOOLEAN /\ core = "off" /\ blocks = 0
    BY DEF Init, SourceInit
  <2> QED BY <2>1, <2>2 DEF Sourced, Looping
<1>3. Recorded
  <2>1. Bounded
    BY RecorderAssumption DEF Init, RecorderInit, Bounded
  <2>2. chunks_seen = 0 /\ chunks_written = 0 /\ blocks = 0 /\ core = "off" /\ start_wall = 0
        /\ handle_open \in BOOLEAN /\ stopped \in BOOLEAN /\ DOMAIN meta = Paths
    BY DEF Init, RecorderInit
  <2> QED BY <2>1, <2>2, RecorderAssumption DEF Recorded
<1>4. ReplayFollowsRecording
  BY DEF Init, ReplayFollowsRecording
<1> QED BY <1>1, <1>2, <1>3, <1>4 DEF Replaying

\* What any step does that receives nothing and does not touch the source:
\* the position stays, as long as the core does not enter its loop.
\* A step that leaves the source alone and opens nothing keeps both.
LEMMA SourceKept ==
    ASSUME Sourced, ReplayFollowsRecording, UNCHANGED << program, blocks, sourceVars >>,
           main' = "construct" => main = "construct" /\ core' = core,
           core' \in {"off", "boot"} => core \in {"off", "boot"},
           core' = "setup" => core = "setup",
           Looping' => Looping
    PROVE  Sourced' /\ ReplayFollowsRecording'
<1>1. /\ Position' = Position /\ SamplesTotal' = SamplesTotal /\ FromFile' = FromFile
      /\ IndexAt(Position)' = IndexAt(Position)
  BY DEF Position, SamplesTotal, FromFile, IndexAt, SeekSeconds, sourceVars
<1>2. iq_source_config' = iq_source_config /\ index' = index /\ blocks' = blocks
      /\ absolute_sample' = absolute_sample /\ pending_offset' = pending_offset
  BY DEF sourceVars
<1>3. Sourced'
  BY <1>1, <1>2 DEF Sourced
<1>4. ReplayFollowsRecording'
  BY <1>1, <1>2 DEF ReplayFollowsRecording, sourceVars, Delivered, SeekSeconds, SamplesTotal
<1> QED BY <1>3, <1>4

\* No step of either thread leaves the types.
LEMMA ThreadsTyped ==
    ASSUME ThreadTypes, [Next]_vars
    PROVE  ThreadTypes'
<1>1. CASE Construct
  <2>1. patched' \in BOOLEAN
    BY <1>1 DEF Construct, ApplyPatches, ThreadTypes
  <2> QED BY <1>1, <2>1 DEF Construct, StartCore, ThreadTypes
<1>2. CASE CoreStep \/ KeyQ
  <2>1. UNCHANGED << program, main, stop_event, timed_out, result, patched, second >>
    BY <1>2 DEF CoreStep, KeyQ, LogNotWritable, OpenFails, Open, Setup, PollContinues,
                PollStops, Receive, ReceiveFails, FastDemod, Hook, ParseKey, ParseNothing,
                FatalShown, CoreTo, mainVars
  <2>2. receiver_exception' \in BOOLEAN
    BY <1>2 DEF CoreStep, KeyQ, LogNotWritable, OpenFails, Open, Setup, PollContinues,
                PollStops, Receive, ReceiveFails, FastDemod, Hook, ParseKey, ParseNothing,
                FatalShown, CoreTo, QuietCore, ThreadTypes
  <2>3. keys' \in 0 .. MaxKeys
    BY <1>2, MaxKeysAssumption
       DEF CoreStep, KeyQ, LogNotWritable, OpenFails, Open, Setup, PollContinues,
           PollStops, Receive, ReceiveFails, FastDemod, Hook, ParseKey, ParseNothing,
           FatalShown, QuietCore, ThreadTypes, Least
  <2>4. /\ core' \in {"setup", "poll", "rx", "demod", "hook", "parse", "fatal", "done"}
        /\ blocks' \in 0 .. MaxBlocks
        /\ core' = "rx" => blocks' < MaxBlocks
    BY <1>2, MaxKeysAssumption
       DEF CoreStep, KeyQ, LogNotWritable, OpenFails, Open, Setup, PollContinues,
           PollStops, Receive, ReceiveFails, FastDemod, Hook, ParseKey, ParseNothing,
           FatalShown, CoreTo, QuietCore, ThreadTypes
  <2> QED BY <2>1, <2>2, <2>3, <2>4 DEF ThreadTypes
<1>3. CASE RequestStop
  <2>1. stop_event' \in BOOLEAN
    BY <1>3 DEF RequestStop
  <2> QED BY <1>3, <2>1 DEF RequestStop, MainTo, ThreadTypes
<1>4. CASE Joined \/ InterruptAgain \/ StopRecording \/ Exit
  BY <1>4 DEF Joined, InterruptAgain, StopRecording, Exit, MainTo, ThreadTypes
<1>5. CASE JoinTimesOut
  <2>1. timed_out' \in BOOLEAN
    BY <1>5 DEF JoinTimesOut
  <2> QED BY <1>5, <2>1 DEF JoinTimesOut, MainTo, ThreadTypes
<1>6. CASE RestorePatches
  <2>1. patched' \in BOOLEAN
    BY <1>6 DEF RestorePatches, RemovePatches
  <2> QED BY <1>6, <2>1 DEF RestorePatches, MainTo, ThreadTypes
<1>7. CASE Report
  BY <1>7 DEF Report, ReplayResult, MainTo, ThreadTypes
<1>8. CASE Tick \/ UNCHANGED vars
  BY <1>8, RecorderAssumption DEF Tick, mainVars, coreVars, vars, ThreadTypes
<1> QED BY <1>1, <1>2, <1>3, <1>4, <1>5, <1>6, <1>7, <1>8
        DEF Next, ShutdownStep, Interrupt, SweepIsOver, Deadline, ReplayHasEnough

\* Opening seeks with the rate of the default, the first assignment of the
\* sample rate repeats that with the true one.
LEMMA SourceAtStart ==
    ASSUME ThreadTypes, Sourced, ReplayFollowsRecording, Construct \/ Open \/ Setup
    PROVE  Sourced' /\ ReplayFollowsRecording'
<1>1. CASE Construct
  <2>1. main = "construct" /\ core = "off" /\ index = 0 /\ blocks = 0
    BY <1>1 DEF Construct, Sourced
  <2>2. /\ UNCHANGED << program, blocks, index, absolute_sample, pending_offset, block >>
        /\ main' # "construct" /\ core' \in {"off", "boot"}
    BY <1>1, <2>1 DEF Construct, StartCore
  <2>3. iq_source_config' \in SourceConfigs
    <3>1. program.samples \in Nat /\ program.loop \in BOOLEAN /\ program.offset \in Nat
          /\ program.rate \in Nat \ {0} /\ program.mixed \in BOOLEAN
      BY ProgramsAssumption DEF ThreadTypes
    <3> QED BY <1>1, <3>1 DEF Construct, ConfigureIqFileSource, Sourced, SourceConfigs
  <2>4. SamplesTotal' \in Nat
    BY <2>3 DEF SourceConfigs, SamplesTotal
  <2>5. Sourced'
    BY <2>1, <2>2, <2>3, <2>4 DEF Sourced, Looping
  <2> QED BY <2>1, <2>2, <2>5 DEF ReplayFollowsRecording
<1>2. CASE Open
  <2>1. core = "boot" /\ core' = "setup" /\ blocks = 0 /\ main # "construct"
        /\ UNCHANGED << program, main, blocks, iq_source_config >>
    BY <1>2 DEF Open, CoreTo, QuietCore, mainVars, OpenSource, sourceVars, Sourced
  <2>2. FromFile' = FromFile /\ SamplesTotal' = SamplesTotal
    BY <2>1 DEF FromFile, SamplesTotal
  <2>3. CASE FromFile
    <3>1. SamplesTotal > 0 /\ OpenSource
      BY <1>2, <2>3 DEF Open, SourceOpens
    <3>2. SeekSeconds(DefaultRate) \in 0 .. SamplesTotal - 1 /\ SamplesTotal \in Nat
      BY <3>1, SeekType, BlockAssumption DEF Sourced
    <3>3. index' \in 0 .. SamplesTotal /\ absolute_sample' \in Nat /\ pending_offset' \in BOOLEAN
      BY <3>1, <3>2 DEF OpenSource
    <3> QED BY <2>1, <2>2, <3>1, <3>3 DEF Sourced, Looping, ReplayFollowsRecording
  <2>4. CASE ~ FromFile
    <3>1. UNCHANGED << index, absolute_sample, pending_offset >>
      BY <1>2, <2>4 DEF Open, sourceVars
    <3> QED BY <2>1, <2>2, <2>4, <3>1 DEF Sourced, ReplayFollowsRecording
  <2> QED BY <2>3, <2>4
<1>3. CASE Setup
  <2>1. core = "setup" /\ core' = "poll" /\ blocks = 0 /\ main # "construct"
        /\ UNCHANGED << program, main, blocks, iq_source_config >>
    BY <1>3 DEF Setup, CoreTo, QuietCore, mainVars, SetSampleRate, sourceVars, Sourced
  <2>2. FromFile' = FromFile /\ SamplesTotal' = SamplesTotal
    BY <2>1 DEF FromFile, SamplesTotal
  <2>3. CASE FromFile
    <3> DEFINE s == SeekSeconds(iq_source_config.rate)
    <3>1. SamplesTotal > 0 /\ SetSampleRate
      BY <1>3, <2>1, <2>3 DEF Setup, Sourced
    <3>2. s \in 0 .. SamplesTotal - 1 /\ SamplesTotal \in Nat
      BY <3>1, SeekType DEF Sourced, SourceConfigs
    <3>3. index' = s /\ absolute_sample' = s /\ pending_offset' \in BOOLEAN
      BY <3>1 DEF SetSampleRate
    <3>4. Position' = s
      <4>1. SeekSeconds(iq_source_config.rate)' = s
        BY <2>1 DEF SeekSeconds, SamplesTotal
      <4>2. blocks' * BlockSize = 0
        BY <2>1, BlockAssumption
      <4> HIDE DEF s
      <4> QED BY <3>2, <4>1, <4>2 DEF Position
    <3> HIDE DEF s
    <3>5. IndexAt(Position)'
      BY <2>1, <2>2, <3>2, <3>3, <3>4 DEF IndexAt, Least
    <3> QED BY <2>1, <2>2, <3>1, <3>2, <3>3, <3>4, <3>5 DEF Sourced, Looping, ReplayFollowsRecording
  <2>4. CASE ~ FromFile
    <3>1. UNCHANGED << index, absolute_sample, pending_offset >>
      BY <1>3, <2>4 DEF Setup, sourceVars
    <3> QED BY <2>1, <2>2, <2>4, <3>1 DEF Sourced, ReplayFollowsRecording
  <2> QED BY <2>3, <2>4
<1> QED BY <1>1, <1>2, <1>3

\* A received block is the recording's continuation: the position in the file
\* and the number of blocks stay in step.
LEMMA SourceAtReceive ==
    ASSUME ThreadTypes, Sourced, ReplayFollowsRecording, Receive
    PROVE  Sourced' /\ ReplayFollowsRecording'
<1>1. core = "rx" /\ core' \in {"poll", "demod"} /\ main # "construct" /\ blocks' = blocks + 1
      /\ UNCHANGED << program, main, iq_source_config >>
  BY DEF Receive, CoreTo, mainVars, Rx, sourceVars, Sourced
<1>2. FromFile' = FromFile /\ SamplesTotal' = SamplesTotal
  BY <1>1 DEF FromFile, SamplesTotal
<1>3. CASE FromFile
  <2> DEFINE s == SeekSeconds(iq_source_config.rate)
             d == blocks * BlockSize
  <2>1. /\ SamplesTotal > 0 /\ Rx /\ iq_source_config \in SourceConfigs
        /\ absolute_sample = s + d /\ IndexAt(s + d)
    BY <1>1, <1>3 DEF Receive, Sourced, Looping, Position
  <2>2. d \in Nat /\ s \in Nat /\ BlockSize \in Nat \ {0}
    BY <2>1, SeekType, BlockAssumption DEF ThreadTypes, SourceConfigs
  <2>3. blocks' * BlockSize = d + BlockSize /\ (blocks' - 1) * BlockSize = d
    BY <1>1, BlockAssumption DEF ThreadTypes
  <2>4. s' = s
    BY <1>1 DEF SeekSeconds, SamplesTotal
  <2> HIDE DEF d
  <2>5. /\ block'.samples = [i \in 1 .. BlockSize |-> Delivered(d + i - 1)]
        /\ block'.phase = IF iq_source_config.mixed THEN s + d ELSE Unmixed
        /\ absolute_sample' = s + d + BlockSize
        /\ index' \in 0 .. SamplesTotal
        /\ IF iq_source_config.loop
           THEN index' % SamplesTotal = (s + d + BlockSize) % SamplesTotal
           ELSE index' = Least(s + d + BlockSize, SamplesTotal)
    BY <2>1, <2>2, RxFollows
  <2>6. pending_offset' = pending_offset
    BY <2>1 DEF Rx
  <2> HIDE DEF s
  <2>7. Position' = s + d + BlockSize
    <3>1. SeekSeconds(iq_source_config.rate)' = s
      BY <2>4 DEF s
    <3> QED BY <2>2, <2>3, <3>1 DEF Position
  <2>8. IndexAt(Position)'
    BY <1>1, <1>2, <2>5, <2>7 DEF IndexAt
  <2>9. absolute_sample' \in Nat
    BY <2>2, <2>5
  <2>10. Sourced'
    BY <1>1, <1>2, <2>1, <2>5, <2>6, <2>7, <2>8, <2>9 DEF Sourced
  <2>11. ReplayFollowsRecording'
    <3>1. ASSUME NEW i \in 1 .. BlockSize
          PROVE  Delivered((blocks - 1) * BlockSize + i - 1)' = Delivered(d + i - 1)
      <4> DEFINE before == (blocks - 1) * BlockSize
      <4>1. before' = d /\ SeekSeconds(iq_source_config.rate)' = SeekSeconds(iq_source_config.rate)
        BY <2>3, <2>4 DEF s
      <4>2. Delivered(before + i - 1)' = Delivered(d + i - 1)
        <5> HIDE DEF before
        <5> QED BY <1>1, <1>2, <4>1 DEF Delivered
      <4> QED BY <4>2
    <3>2. block'.phase = IF iq_source_config'.mixed
                         THEN SeekSeconds(iq_source_config.rate)' + (blocks' - 1) * BlockSize
                         ELSE Unmixed
      BY <1>1, <2>3, <2>4, <2>5 DEF s
    <3> QED BY <2>5, <3>1, <3>2 DEF ReplayFollowsRecording
  <2> QED BY <2>10, <2>11
<1>4. CASE ~ FromFile
  <2>1. UNCHANGED << index, absolute_sample, pending_offset >>
    BY <1>4 DEF Receive, sourceVars
  <2> QED BY <1>1, <1>2, <1>4, <2>1 DEF Sourced, ReplayFollowsRecording
<1> QED BY <1>3, <1>4

\* Only opening, the first assignment of the rate and receiving touch the source.
LEMMA SourceInductive ==
    ASSUME ThreadTypes, Sourced, ReplayFollowsRecording, [Next]_vars
    PROVE  Sourced' /\ ReplayFollowsRecording'
<1>1. CASE LogNotWritable \/ OpenFails \/ PollContinues \/ PollStops \/ KeyQ \/ ReceiveFails
           \/ FastDemod \/ Hook \/ ParseKey \/ ParseNothing \/ FatalShown
  <2>1. /\ UNCHANGED << program, main, blocks, sourceVars >>
        /\ core' \notin {"off", "boot", "setup"}
        /\ Looping' => Looping
        /\ core # "off"
    BY <1>1 DEF LogNotWritable, OpenFails, PollContinues, PollStops, KeyQ, ReceiveFails, FastDemod,
                Hook, ParseKey, ParseNothing, FatalShown, CoreTo, QuietCore, mainVars, Looping
  <2>2. main # "construct"
    BY <2>1 DEF Sourced
  <2> QED BY <2>1, <2>2, SourceKept
<1>2. CASE RequestStop \/ ShutdownStep \/ Tick \/ UNCHANGED vars
  <2>1. /\ UNCHANGED << program, blocks, sourceVars >>
        /\ main' = "construct" => main = "construct" /\ core' = core
        /\ core' \in {core, "done"}
    BY <1>2 DEF RequestStop, ShutdownStep, Joined, JoinTimesOut, InterruptAgain, RestorePatches,
                StopRecording, Report, Exit, MainTo, Tick, mainVars, coreVars, vars
  <2> QED BY <2>1, SourceKept DEF Looping
<1> QED BY <1>1, <1>2, SourceAtStart, SourceAtReceive
        DEF Next, CoreStep, Interrupt, SweepIsOver, Deadline, ReplayHasEnough

\* The hook counts the block it was called with, and no other.
LEMMA WriteRecorded ==
    ASSUME Recorded, chunks_seen < blocks, blocks \in Nat, NEW prefix \in FilePrefixes, Write(prefix, second)
    PROVE  /\ handle_open' \in BOOLEAN /\ stopped' \in BOOLEAN
           /\ start_wall' \in 0 .. MaxSecond /\ DOMAIN meta' = Paths
           /\ chunks_seen' \in Nat /\ chunks_written' <= chunks_seen' /\ chunks_seen' <= blocks
<1> DEFINE file == Opened(prefix, second)
<1>1. chunks_seen \in Nat /\ chunks_written \in Nat /\ chunks_written <= chunks_seen
  BY DEF Recorded, Bounded
<1>2. CASE UNCHANGED recorderVars
  BY <1>2 DEF Recorded, recorderVars
<1>3. CASE SkipBlock
  BY <1>1, <1>3 DEF Recorded, SkipBlock
<1>4. CASE WriteBlock(prefix, second)
  <2>1. file.start \in 0 .. MaxSecond
    BY DEF Opened, Recorded, Bounded
  <2> HIDE DEF file
  <2>2. /\ chunks_seen' = chunks_seen + 1 /\ start_wall' = file.start
        /\ chunks_written' \in {chunks_written, chunks_written + 1}
    BY <1>4 DEF WriteBlock, StopAtLimit, AppendBlock, file
  <2>3. DOMAIN meta' = Paths
    BY <1>4 DEF WriteBlock, StopAtLimit, AppendBlock, Recorded
  <2>4. handle_open' \in BOOLEAN /\ stopped' \in BOOLEAN
    BY <1>4 DEF WriteBlock, StopAtLimit, AppendBlock, Recorded
  <2> QED BY <1>1, <2>1, <2>2, <2>3, <2>4
<1> QED BY <1>2, <1>3, <1>4 DEF Write

\* The recorder never counts more blocks than the core has received.
LEMMA RecordedInductive ==
    ASSUME ThreadTypes, Recorded, [Next]_vars
    PROVE  Recorded'
<1>1. Bounded'
  BY BoundedInductive DEF Recorded
<1>2. blocks \in Nat /\ blocks' \in Nat
  BY ThreadsTyped, MaxKeysAssumption DEF ThreadTypes
<1>3. CASE Hook
  <2>1. PICK prefix \in FilePrefixes : Write(prefix, second)
    BY <1>3, PrefixAssumption DEF Hook, RecordPrefixes
  <2>2. core = "hook" /\ core' = "parse" /\ blocks' = blocks
    BY <1>3 DEF Hook, CoreTo, QuietCore
  <2>3. chunks_seen < blocks
    BY <2>2 DEF Recorded
  <2> QED BY <1>1, <1>2, <2>1, <2>2, <2>3, WriteRecorded DEF Recorded
<1>4. CASE StopRecording
  <2>1. UNCHANGED << core, blocks, chunks_seen, chunks_written, start_wall, stopped >>
        /\ DOMAIN meta' = Paths
    BY <1>4 DEF StopRecording, MainTo, CloseRecorder, recorderVars, Recorded
  <2>2. handle_open' \in BOOLEAN
    BY <1>4 DEF StopRecording, CloseRecorder, recorderVars, Recorded
  <2> QED BY <1>1, <2>1, <2>2 DEF Recorded
<1>5. CASE UNCHANGED recorderVars /\ ~ Hook
  <2>1. \/ blocks' = blocks /\ (core' \in {"demod", "hook"} => core \in {"demod", "hook"})
        \/ blocks' = blocks + 1
    BY <1>5 DEF Next, Construct, StartCore, CoreStep, LogNotWritable, OpenFails, Open, Setup,
           PollContinues, PollStops, Receive, ReceiveFails, FastDemod, ParseKey, ParseNothing,
           FatalShown, KeyQ, CoreTo, QuietCore, Interrupt, SweepIsOver, Deadline,
           ReplayHasEnough, RequestStop, ShutdownStep, Joined, JoinTimesOut, InterruptAgain,
           RestorePatches, StopRecording, Report, Exit, MainTo, Tick, mainVars, coreVars, vars
  <2>2. chunks_seen \in Nat /\ chunks_seen <= blocks
    BY DEF Recorded
  <2>3. chunks_seen <= blocks' /\ (core' \in {"demod", "hook"} => chunks_seen < blocks')
    BY <1>2, <2>1, <2>2 DEF Recorded
  <2> QED BY <1>1, <1>5, <2>3 DEF Recorded, recorderVars
<1> QED BY <1>3, <1>4, <1>5, RecorderSteps

\* Every block the core receives from a file holds the samples that follow
\* those of the block before, from the seek offset on, over and over or with
\* silence behind the end, and its mixer phase is that of its first sample: for
\* every recording, offset, rate and block size.
THEOREM ReplayCorrect == Spec => []ReplayFollowsRecording
<1>1. Replaying /\ [Next]_vars => Replaying'
  BY ThreadsTyped, SourceInductive, RecordedInductive DEF Replaying
<1>2. Replaying => ReplayFollowsRecording
  BY DEF Replaying
<1> QED BY <1>1, <1>2, InitReplaying, PTL DEF Spec

\* No count of blocks, keys, chunks or seconds and no thread's state leaves
\* its type, whatever the program and the order of its threads.
THEOREM ProcessTyped == Spec => []TypeOK
<1>1. Replaying /\ [Next]_vars => Replaying'
  BY ThreadsTyped, SourceInductive, RecordedInductive DEF Replaying
<1> QED BY <1>1, InitReplaying, ReplayingTyped, PTL DEF Spec
=============================================================================
