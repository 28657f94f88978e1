----------------------------- MODULE IqFileSource -----------------------------
(***************************************************************************)
(* iq_file_source.py: an IQ recording that stands in for the Pluto.  Every *)
(* rx() returns a full block of samples, wrapping at the end of the file   *)
(* or followed by silence, and mixes it by a phase that counts samples.    *)
(* A sample is represented by its index in the recording.                  *)
(***************************************************************************)
EXTENDS Integers, Sequences

CONSTANTS
    BlockSize,    \* rx_buffer_size
    DefaultRate   \* samples per second before sample_rate is assigned

Silence  == -1  \* a sample of the zeros after the end
Unmixed  == -1  \* the phase of a block that is passed on unmixed

ASSUME BlockAssumption == BlockSize \in Nat \ {0} /\ DefaultRate \in Nat \ {0}

VARIABLES
    iq_source_config, \* samples in the file, loop, offset in seconds, rate, mixed
    index,
    absolute_sample,
    pending_offset,   \* the start offset is still to be sought in the true rate
    block             \* what rx() returned last: samples and phase of the first

sourceVars == << iq_source_config, index, absolute_sample, pending_offset, block >>

Least(a, b) == IF a <= b THEN a ELSE b

SamplesTotal == iq_source_config.samples
NoBlock      == [samples |-> << >>, phase |-> Unmixed]

SourceInit ==
    /\ index = 0 /\ absolute_sample = 0
    /\ pending_offset = FALSE
    /\ block = NoBlock

SeekSeconds(rate) == Least(iq_source_config.offset * rate, SamplesTotal - 1)

\* __init__, which refuses a file that is missing or empty.
SourceOpens == SamplesTotal > 0

OpenSource ==
    /\ index' = SeekSeconds(DefaultRate) /\ absolute_sample' = index'
    /\ pending_offset' = TRUE
    /\ UNCHANGED << iq_source_config, block >>

\* The first assignment of sample_rate repeats the seek.
SetSampleRate ==
    /\ pending_offset
    /\ index' = SeekSeconds(iq_source_config.rate) /\ absolute_sample' = index'
    /\ pending_offset' = FALSE
    /\ UNCHANGED << iq_source_config, block >>

Samples(from, n) == [i \in 1 .. n |-> from + i - 1]
Zeros(n)         == [i \in 1 .. n |-> Silence]

\* The while loop of _read_block: what is missing is read from the start, as
\* often as needed, and the index is left behind the last sample read.
FromStart[needed \in Nat] ==
    IF needed <= SamplesTotal
    THEN [samples |-> Samples(0, needed), index |-> needed]
    ELSE LET later == FromStart[needed - SamplesTotal]
         IN  [later EXCEPT !.samples = Samples(0, SamplesTotal) \o @]

\* Mutant: the index is set back to the start only.
ReadBlockRestart ==
    LET from   == IF index >= SamplesTotal /\ iq_source_config.loop THEN 0 ELSE index
        take   == Least(BlockSize, SamplesTotal - from)
        needed == BlockSize - take
    IN  IF needed = 0 THEN [samples |-> Samples(from, take), index |-> from + take]
        ELSE IF iq_source_config.loop
        THEN [samples |-> Samples(from, take) \o FromStart[needed].samples, index |-> 0]
        ELSE [samples |-> Samples(from, take) \o Zeros(needed), index |-> from + take]

\* Mutant: the index moves by the whole block.
ReadBlockOverrun == [ReadBlockRestart EXCEPT !.index = index + BlockSize]

ReadBlock ==
    LET from   == IF index >= SamplesTotal /\ iq_source_config.loop THEN 0 ELSE index
        take   == Least(BlockSize, SamplesTotal - from)
        needed == BlockSize - take
    IN  IF needed = 0 THEN [samples |-> Samples(from, take), index |-> from + take]
        ELSE IF iq_source_config.loop
        THEN [FromStart[needed] EXCEPT !.samples = Samples(from, take) \o @]
        ELSE [samples |-> Samples(from, take) \o Zeros(needed), index |-> from + take]

\* _apply_virtual_lo: the phase runs on with the samples delivered, whatever
\* the index does.
Phase == IF iq_source_config.mixed THEN absolute_sample ELSE Unmixed

Rx ==
    /\ index' = ReadBlock.index
    /\ absolute_sample' = absolute_sample + Len(ReadBlock.samples)
    /\ block' = [samples |-> ReadBlock.samples, phase |-> Phase]
    /\ UNCHANGED << iq_source_config, pending_offset >>

\* What the n-th sample delivered after the start should be.
Delivered(n) ==
    LET at == SeekSeconds(iq_source_config.rate) + n
    IN  IF at < SamplesTotal THEN at
        ELSE IF iq_source_config.loop THEN at % SamplesTotal ELSE Silence
=============================================================================
