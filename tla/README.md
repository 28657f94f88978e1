# A TLA+ model of the SDR receivers

This directory specifies the two radio receivers of this repository: the Python
wrapper around the v67 core (`sdr_receiver_py_wrapper/`) and the C++ ROS 2 node
(`sdr_receiver/`). In a match both do the same job. The judge system names the
encryption level of the opponent's radio (1 to 3); the receiver tunes to that
level's jamming carrier, decodes a 6-byte key, publishes it as a `JamCode`,
waits for the judge to raise the level, and after the key of the highest level
turns to the INFO carrier for the rest of the match.

Before a match the Python side may measure, on the bench, with which radio
settings INFO is received best, and hand the result to the node as a profile.
Recordings of the air replace the radio for tests.

What can go wrong is seldom in one function. It is in the order of contexts,
keys, retunes and losses, in state that two threads share, in settings that pass
through files and three programs, and in budgets and timers that run out. That
is what is modelled.

## Inventory

| Part | State it keeps | Operations | Hard part | What makes it correct |
|---|---|---|---|---|
| `competition_controller.py` | phase, teams, active and completed level, desired target, key record per level | `update_context`, `handle_jam_key` | contexts and keys in any order, from two threads; retries | phase, records and target agree; INFO only after the final key |
| `receiver_node.py` | what the fallback topics said last, target, team, statistics, recorder | judge callbacks, parse events, status timer, parameters | callbacks on two threads; only *changes* are passed on; three topics that disagree | the receiver never drifts from the controller |
| `original_receiver_adapter.py`, `patches.py` | the v67 module's globals, the core's thread, the patches | `set_team`, `set_target`, `set_radio_profile`, start, stop, join, restore; event hook | the core reads the globals without the adapter's lock; a join that times out leaves a core running | a key is attributed to the level it was received on; a stop ends the process |
| v67 core (`vendor/`) | tuning, gain, statistics, bit pools, frame sightings, calibration | main loop: configure, receive, demodulate, parse, fail over | takes up a configuration at a time of its own and resets its counters then; replaces rescue profiles | what is received was asked for; no frame counted for other settings |
| `iq_file_source.py`; `IqRecorder` in `receiver_node.py` and `adaptive_profile_sweep.py` | file and position, mixer phase; open file, counters | open, seek, `rx`; write, close | end of file, recordings shorter than a block, limits, write after close | no gap, no repeat, no short buffer; metadata and limit hold for every file |
| `adaptive_profile_sweep.py`, `weak_info_probe.py`, `wrapper_iq_replay.py` | candidates, rows, counters of the core | probe, suggest, measure, rank, write the best | counters reset on another thread; kHz and Hz; signs of offsets | the best row was measured in its own settings; suggestion and best profile survive the files |
| `profile_import.py` | - | read JSON or YAML of a sweep | zero, missing and default values | the match receives INFO as it was measured |
| `sdr_receiver_node.cpp` | judge context, phase, submitted level, key records, active profile | three judge callbacks, `update()` | three topics that disagree; missing profiles; a finite retry budget | as for the controller, and a matching profile on every reception |
| `sdr_controller.cpp`, `calibration.cpp`, `keyboard.cpp` | tuning, rescue chain, calibration queue, manual gain | keys, calibration steps, failover, `apply_sdr_config` | long sequences of legal keys; statistics of the wrong item | calibration restores what it changed; configuration is applied when changed |
| `demodulator.cpp` | byte pool, last air chunk | `scan_byte_pool` | frames split over two buffers, false preambles | each frame once |
| `profile_manager.cpp` | profile table | load, find | a line parser that carries fields over | an entry holds its own fields |
| judge system, opponent's radio, ROS 2 transport | - | - | losses, delays | external |

Interaction: the judge's topics call the node, which calls the controller (or
holds the phases itself, in C++); its decisions move the tuning; the tuning
decides which key can be decoded at all; a decoded key comes back as an event
and leaves as a `JamCode`, which moves the judge. In Python the decoding runs in
the core's own thread, which reads the module globals that the adapter sets, in
every turn of its loop, and calls the patched functions, which feed the
recorder. The sweep drives the same core, writes its best row to a file, and the
node reads that file when it starts and applies it whenever it enters INFO.

## Modules

| Module | Models | State ↔ code |
|---|---|---|
| `CompetitionController` | `competition_controller.py`, and the receiver's side of the decisions in `receiver_node._apply_controller_decision` | one variable per attribute (`state`, `own_team`, `rx_team`, `active_level`, `completed_level`, `desired_target`, `latest_context`, `published_keys`); `receiver` is what the adapter was last told. `UpdateContext` and `HandleJamKey` are the two methods, one disjunct per way out of them; `Tick` is the monotonic clock |
| `JamHandshake` | what section 3 of the interface contract promises of any competition receiver | judge's level, levels sent, phase |
| `ControllerRefinement`, `NodeRefinement` | the refinement mappings of the Python controller and the C++ node to `JamHandshake` | - |
| `RateLimit` | the controller with a history of each key's last publication | `since` is history only |
| `ContextSources` | the topics the node builds contexts from: `on_radar_context`, `on_match_info`, `on_radar_info` and `_publish_fallback_context_if_ready` | `fallback` is what the fallback topics said last |
| `MatchLoop` | controller + context topics + the judge of `mock_radar_context_publisher.py` + opponent + a path that loses JamCodes | `judge_level` is the mock's; `in_flight` is external |
| `WrapperThreads` | the controller's methods and the adapter's setters, split at every access to shared state, on the ROS thread and the receiver thread | `ros`, `rx`: program counters and locals |
| `SdrReceiverNode` | `sdr_receiver_node.cpp` with `auto_context_control`: three judge callbacks, `apply_context_control`, `apply_profile_for_target`, `handle_decoded_key`, `should_publish_key`, the device configuration | `ctx`, `tune`, `rescue`, `active_profile`, `phase`, `encrypt_lvl`, `submitted_key_level`, `final_key_submitted`, `key_record`; `ready` marks the place between decision and reception in `update()`, `device` and `jam_code` are the outputs |
| `MatchNode` | the C++ node + judge + opponent + lossy path + a lagging legacy topic | `judge_level`, `in_flight`, `lost` are external |
| `Calibration` | the C++ receiver in manual mode: every key of `keyboard.cpp` but `q`, `sdr_controller.cpp`, `calibration.cpp` | `at` is the step of `update()` to come; `cal` is `CalibrationState`; `stats.heard` is history only |
| `IqFileSource` | `iq_file_source.py`: open, seek, read, mix | `index`, `absolute_sample`, `pending_offset` as in the code; `block` is what `rx()` returned |
| `IqRecorder` | `IqRecorder` and its copy in the sweep: `write` with its limits, `close` with its metadata | one variable per attribute; `files`, `meta` are the directory |
| `ReceiverProcess` | the node, the replay tool and the sweep from construction to exit: the adapter's load, patch, start, join, restore; the core's main loop and every way out of it; interrupt, deadline, key | `main` and `core` are the two threads; `program` is how the process was started |
| `RadioConfig` | the v67 core's `get_effective_radio_params`, `apply_sdr_config`, `maybe_failover_cal_profile` and every setter of the adapter | `config` stands for the module globals, `key` for `LAST_SDR_CFG`, `radio` for the hardware |
| `ProfileSweep`, `WeakInfoProbe`, `ProfileImport` | operators: candidates, classes, ranks and files of the sweep; the probe's rows and the sweep it suggests; the import of a file | - |
| `SweepToMatch` | probe, sweep and match, one process after another, around the core of `RadioConfig` | `stage`, `measuring` say where the main thread is; `rows` is the sweep's table; `heard`, `failed_over`, `measured` are history only |
| `SequenceLemmas` | what the library's operators on sequences return, and induction over numbers without an operator as a parameter | - |
| `*_proofs` | theorems and their proofs | - |
| `MC*` | values for TLC | - |

Choices that decide what the models show:

- *Atomicity.* A handler is one action where the code runs on one thread: all
  of the C++ node (a single-threaded executor; callbacks only store the
  context), and the Python controller taken by itself. Where two Python
  threads meet without a common lock, `WrapperThreads` splits the same methods
  at each access. The C++ `update()` is split in two (`ControlStep`,
  `ReceiveStep`) or five (`Calibration`) steps which always follow one another;
  in `SdrReceiverNode` a callback between the two is told apart by `ready`.
- *Keys, profiles, scores* are model values, labels and small numbers: the code
  only compares them. Time is a counter per record that saturates at the
  interval compared with.
- *Deltas.* Python decisions carry only changed teams and targets, so `receiver`
  keeps what was sent last and drifts if one is forgotten.
- *Retry limits differ.* In Python −1 means unlimited
  (`competition_controller.py:212`); in C++ the count is compared as it stands,
  so −1 would publish nothing (`sdr_receiver_node.cpp:689`). `KeyRetryLimit`
  has the code's meaning in each module, and the theorems cover every integer.
- *A refused key* changes nothing the receiver acts on and has no action.
- *The level-up timeout* of the C++ node (`sdr_receiver_node.cpp:447`) writes a
  text and restarts its own timer; nothing else depends on it. The waiting
  state in itself already stays tuned to the level whose key went out.
- *A missing profile* in C++ leaves team, phase and level changed and target,
  rescue mode and device not: where `CanTune` is false the same `Control...`
  action changes the former only and leaves `ready` false.
- *Team labels.* Which team's label the opponent's waveform bears is not decided
  in this repository, so `MatchNode` lets a key be decoded with either.
- *Calibration.* `use_profiles_in_debug` is off (the default): no match profile
  overrides a trial. Results with equal scores keep their order, where
  `std::sort` may swap them. A preset and a queue item with the same settings
  have the same label, as in the code; failover compares labels.
- *Context sources.* A fallback message is completed with what the other topic
  said last, however old, and both kinds of `MatchInfo` are sent. The judge of
  `MatchLoop` is the repository's mock, which raises the level for a key of the
  level it is at.
- *Recordings.* A sample is its position in the file, silence after the end is
  one more value, a block is a tuple of samples with the mixer's phase. All
  blocks have one size, so the recorder's limits and counts are in blocks; the
  byte counter belongs to the recorder, not to the file, as in the code.
- *Two threads in `ReceiverProcess`.* The core's turn is split where the other
  thread can come between: poll, receive, demodulate, hook, parse. So a block may
  be in the hook when the recorder is closed, and then opens a file again. A
  receiver that waits for hardware, or for a key in debug mode, may outlive its
  join; one that replays a file gets round to polling within the two or three
  seconds the callers allow (`MayTimeOut`). A second interrupt leaves the
  process without restoring or closing anything. Whatever is raised in the core's
  loop is swallowed by its own `main`; only an event log that cannot be written
  is raised before that and reaches `receiver_exception`. The replay's
  `--expect-key` is left out: it only compares what was received.
- *Radio settings.* A frequency is an offset from the team's carrier. Ten units
  stand for a kilohertz, so that truncation to kilohertz shows. `apply_sdr_config`
  is split where it begins to read the settings, where it has read them and where
  it applies them (`StartRead`, `FinishRead`, `ApplyConfig`). It reads TARGET,
  TEAM, `CAL_PROFILE`, the rescue flags, gain and carrier one by one without the
  adapter's lock, so each may be the old one or the new if a setter comes in
  between (`Mixtures`), and what it reads twice may differ the second time; a jam
  target read makes it drop whatever profile is set by then. A setter is one
  action, which stands for its writes one after another as well: in the order of
  a torn read and of a torn write each field is the old one or the new. What
  this leaves out is a setter that takes longer than the core needs for a whole
  turn; setters only assign, a turn receives a block. The two exceptions are
  actions of their own: a decision's team and target are two calls
  (`TeamContext`, `JamContext`), and `set_radio_profile` raises half way on an
  unknown filter.
  `set_rx_gain_max_override` has no effect on this core, whose maximum is
  already the hardware's.
- *Arguments.* `PlansAssumption` says what the sweep and the probe work with once
  their arguments are parsed (`adaptive_profile_sweep.py:153-204` and `459-484`,
  `weak_info_probe.py:101-141` and `526-542`): lists of numbers, rescue modes and
  filters. A probe with an empty list has no rows and suggests nothing
  (`weak_info_probe.py:478`), and one with an unknown filter raises
  (`weak_info_probe.py:142`); such plans are left out. `UnknownFilters` are names
  that a sweep takes from its command line and the adapter refuses later.
- *Sweep and probe.* Scores that only break ties are left open. Settling and
  dwelling take seconds, so the core has taken up a candidate by the second
  snapshot (`EndSnapshot`'s guard), but not necessarily by the first. When the
  core fails over is nondeterministic; rows and matches in which it replaced the
  profile are excepted from what is claimed of that profile. A row with exactly
  one CRC16 is ranked by a class of its own on purpose and excepted from
  dominance. A BLUE offset other than 0 is excepted from what the probe suggests.

## Runs

| Run | Checks | Bounds, and why they suffice |
|---|---|---|
| `controller` | type, INFO only after the final key, phase ↔ records, no drift, completed level, keys of the active level only, INFO sticky, the contract's handshake, early repeats | all four levels and 9 contexts (own side, other side, colour inferred, none, level above L3), 2 keys, retry limit 2, interval 2 ticks. Records of different levels interact only through phase and `completed_level`; a third key acts like the second |
| `rate_limit_promise` | the documented rate, violated | as above |
| `match_loop` | safety and liveness of the ladder with losses and fallback topics | one key per level (the opponent's), all levels, contexts without level and without colour, fallback topics with both kinds of `MatchInfo` |
| `threads` | no level ahead of the judge, wrong keys replaced, INFO tuned while identified | one key per level, contexts with and without identity, every interleaving of the shared accesses |
| `threads_wrong_key`, `threads_stuck` | two consequences of the missing lock, violated | identity always there / sometimes lost |
| `node` | type, INFO only after the final key, waits, profiles, teams, levels, nothing after the final key, the handshake | ids and colours that disagree, levels 0 to 4, 2 keys, retry limit 2, one profile missing |
| `node_own_team` | the label of a JamCode, violated | a single station, so no disagreement about teams interferes |
| `match_node` | safety and liveness of the ladder: after the final key INFO is received again and again, contexts that cannot be used in between or not | limit 2 and at most 1 loss per level: one publication more than losses. With as many losses as publications the node stays on the level for good, so the bound is the exact one |
| `calibration` | type, results ↔ queue, results ↔ trials, second round takes the best, failover's choice, every calibration ends | queue of 2 L2 + 1 L3 items (1 + 1 in a full one), best 2 validated, 2 and 1 buffers of dwell. So a queue is longer than what is validated, trials last longer than one update, and a third result exists which failover must not reach |
| `receiver_process` | type, the replay is gapless, metadata and limits of recordings, a stop ends the process | 14 programs: node, replay and sweep, with recordings longer than a block, shorter, empty, looped and not, with hardware, without the script or the radio's library, in debug mode. Blocks of 4 samples and recordings of 3 and 7 give several passes in one block and a block that spans the end; every second block is recorded, files end at 2 blocks or 2 seconds, so both limits are met and a file is opened in a second of its own; at most 5 blocks (`MaxBlocks`), 3 seconds (`MaxSecond`), 1 key. Deadlock is not checked: a process ends, and hardware may block for good |
| `sweep_to_match` | rows count their own frames, the rank respects dominance, suggestion and best profile arrive | 12 plans: both teams, JSON and YAML, with and without a probe, normal, L2 and L3 profiles, filters of a list, by default and unknown, offsets of whole and broken kilohertz and of both signs, gains beyond either end, initial settings of every kind. At most 2 blocks of a sweep hold frames (`max_yields`), enough for one before the core takes a candidate up and one after. Deadlock is not checked: a sweep may fail and a receiver may stop |

Every property of a passing run is known to be breakable: `PROJECT.json` names
for each one a mutated definition under which TLC finds it violated. The mutants
are the definitions marked "Mutant:" in the modules; no specification uses them.

### Fairness

- `MatchLoop`: weak fairness of the judge's contexts and of `radar_info` (both
  published periodically), the clock and the decoding of what is on the air while the receiver stays
  tuned to it; strong fairness of delivery: a JamCode sent over and over gets
  through once. None for losses or unusable contexts.
- `WrapperThreads`: weak fairness of both threads; strong fairness of usable
  contexts (unusable ones may come in between) and of decoding (the thread is
  ready for it again and again, not continuously).
- `MatchNode`: weak fairness of updates, receptions and clock, strong fairness of contexts
  and of decoding for the same reason, and of an update that sees the judge's
  current level: the timer fires every 20 ms, contexts come at 5 to 10 Hz, so a
  lagging `radar_info` cannot be the latest word before every update.
- `ReceiverProcess`: weak fairness of the core while it replays a file, since
  nothing in such a turn waits, and none with hardware, whose driver may; of the
  replay's deadline; and of a main thread that shuts down, whose join has a
  timeout. Nobody is bound to press a key or to interrupt.
- `SweepToMatch`: none; what is claimed of it is safety.
- `Calibration`: weak fairness of the next step. The timer calls `update()`; no
  key is ever bound to be pressed.

## What the runs show

The ladder itself is right in both receivers: with contexts and keys in any
order, repeated, late or contradictory, neither publishes a key of a level the
judge has not named or turns to INFO early, and both keep the contract's
handshake. INFO is regained after every loss of the context, also where the
context comes in pieces from the fallback topics. Recordings are replayed without
a gap, and a recording closed after the core was joined agrees with its metadata.
What the bench finds best is what a match receives INFO with, to the kilohertz,
as long as the core's own failover stays out of it. Four statements of the
documents do not hold:

1. `rate_limit_promise`: a key is rated against the *last* key of its level only
   (`competition_controller.py:221`). Two keys in turn (a bit error that passes
   the CRC, or an opponent that changes its key) are published without limit.
   What holds instead is `EarlyRepeatOnlyAfterAnotherKey`.
2. `threads_wrong_key`: the level of a key is read off `TUNE_CFG` when the event
   is built (`patches.py:222`), later than the samples. If the context moved the
   target meanwhile, a key of L2 becomes the key of L3 and ends the ladder.
   Below the highest level this heals (`WrongKeyIsReplaced`); the final key is
   never looked at again.
3. `threads_stuck`: the context thread decides on a jam target, the final key
   sets INFO, and the context's target is written to the adapter last. The
   controller believes in INFO and sends no further change. It takes a
   context without a colour shortly before; with the identity held,
   `InfoTunedWhileIdentified` shows that INFO comes back.
4. `node_own_team`: the C++ node labels a JamCode with the team of the robot id,
   its own (`sdr_receiver_node.cpp:710`), the message definition wants the
   opponent's; the Python node does that.

Further behaviour met while modelling, not contradicted by any document: a wait
for level 2 survives a judge that falls back to level 1 (C++ only); the colour
field overrides the robot id although the id alone is documented in
`src/sdr_receiver/README.md:30`; after a cancelled or finished calibration the
rescue mode of the last trial stays, and a second calibration is limited to it
(`calibration.cpp:23`); a calibration started on a jam carrier skips every trial
and ends without a result; failover may leave the best profile in the very
update that finished the calibration, because the counters still belong to the
last trial; `[` and `]` drop the preset they are documented to refine
(`调试模式与比赛模式操作手册.md:146`) and step through the rescue table instead;
`validate_rounds` is set and never read in C++, where the v67 core runs that
many rounds.

Met in the Python tools and the core:

- The core's failover replaces a rescue profile the wrapper has set by one of its
  own table after three seconds without a CRC16, in a match as in the middle of a
  sweep's measurement, whose row still bears the candidate's name.
- The probe tunes to the carrier plus the offset, the core mirrors offsets for
  BLUE: for BLUE the suggested sweep measures the other side of the carrier
  (`weak_info_probe.py:410`).
- A bandwidth or offset that is no multiple of a kilohertz is truncated towards
  zero when it is written. A hand-written profile for `INFO_L2` without a filter
  is read as "normal", which `set_radio_profile` refuses after it has moved team
  and target.
- A core that dies of an error in its loop leaves no `receiver_exception`: a
  replay with `--allow-no-key` reports success, a sweep goes on measuring
  silence.
- After a join that timed out a block already in the hook opens a second file,
  which stays without metadata; the limit holds for it too, because the
  counters are not reset.
- Saturated blocks are not recorded: the core drops them before the hook.
- The differences a sweep takes counter by counter need not be nested (more
  CRC8 than SOF, say) if the core resets its counters between the snapshots, so
  a row with fewer AC hits than another is not bound to rank above it, however
  many more headers it counts; dominance includes both AC counts, raw and
  admitted, for that reason. Raw hits alone make a row AC_ONLY, so that it ranks
  above one that heard nothing even with failed checksums besides; how many there
  were only enters the score.

## Proofs

TLAPS checks these theorems for every value of the constants under the named
assumptions (`MaxJamBreakLevel` 1 to 3, a positive interval, any integer retry
limit, any set of keys and contexts; any recorder limits, block and file sizes;
any queue lengths, dwell times and scores; any sweep plans and counts). Every
invariant and every action property of a passing run is proved, with both
refinements.

`CompetitionController_proofs`, the controller alone and in its closed loop:

- `TypeCorrect`: the type invariant, by itself inductive.
- `Safe`: `IInv`, the conjunction of the type invariant, "levels are clipped",
  `InfoOnlyAfterFinalKey`, `PhaseMatchesKeys`, `ReceiverInSync` and
  `CompletedIsHighestPublished`. None of the four is inductive alone: that the
  target is INFO in phase INFO after a context needs that the target sent last
  is the one remembered (`ReceiverInSync`); that it needs no second final key
  comes from the records and `completed_level` agreeing; a wait phase needs the
  level the last context left. `InfoCorrect`, `PhaseCorrect`, `ReceiverCorrect`,
  `CompletedCorrect` follow.
- `InfoSticky`, `KeyActive`: the action properties, from `IInv`.
- `KeepsContract`: `Spec => RefinesHandshake`, the initial states map to initial
  ones and under `IInv` every step to a step or a stutter. A context is `Hear`,
  `Suspend` or a stutter, an accepted key is `Publish`.
- `EarlyRepeats`: what is true of the rate. `RateInv` adds `Dated` to `IInv`:
  the last key of a level is as old as its record, and a record is at least as
  recent as every key of its level published within the interval. So a key that
  comes again early was replaced in between. `OneKeyKeepsRate`: with one
  decodable key the documented rate holds; the violation of `rate_limit_promise`
  takes two.
- `LevelFollowsJudge`: the controller's level is at most the judge's only because
  what the fallback topics remember is (`MatchInv`): a stale level is a lower one,
  since the judge never goes back.

`WrapperThreads_proofs`: `ThreadsFollowJudge`, from `ThreadInv`, which says for
each program counter what the thread holding it still knows: its level is at most
the judge's although it may no longer be the active one, and its phase is written
after its record.

`SdrReceiverNode_proofs`, the C++ node alone and in its closed loop:

- `TypeCorrect`, in both run modes.
- `InfoCorrect`, `WaitCorrect`: in competition mode, from `IInv`, which adds to
  the two that a record counts only within a positive retry limit, and `Tuned`:
  between decision and reception the target is a jam carrier of a level at most
  the highest, or INFO exactly if the final key is out. Without `Tuned` a key
  received "on INFO" or on a level above the highest could not be excluded. In
  debug mode with `auto_context_control` the two do not hold as they stand,
  since reception goes on without a usable context, on whatever target is set.
- `NodeSafe`: `NodeInv`, which is `IInv` with `AtReception` (a node that is ready
  has the team and level of the latest context and the profile of its target).
  From it follow `ProfileCorrect`, `TeamCorrect`, the action properties
  `KeyNamed` and `FinalIsFinal`, and `NodeKeepsContract`: in competition mode the
  C++ node implements the same handshake.
- `NodeFollowsJudge`: in the closed loop, with losses and a lagging topic, neither
  the level submitted nor that of the JamCode nor the one the node is about to
  receive on is ahead of the judge, and it turns to INFO only when the judge has
  reached the highest level. The
  invariant adds `Behind` to `NodeInv`: the level of the latest context is one the
  judge has named, and after the final key the judge is at the last level. It
  holds because a reception works either on the latest context's level or on
  one whose key went out (`AtReception`), and the judge only ever rises.

`ReceiverProcess_proofs`:

- `RecordingsWithinLimit` from `Bounded`: no file holds more blocks than the
  counter, which opening a file does not reset. `MetadataCorrect` from `Orderly`:
  until someone closes it from outside, the last file holds all counted blocks
  and is open or closed by its limit (`AgreesSoFar`); a core that was joined
  writes no more. `ProcessTyped` is the type invariant of both threads.
- `ReplayCorrect`: every block a replay returns continues the one before it, for
  every block size, length of recording and seek offset. A file that loops is
  read by a recursive function, one pass after another; the proof gives it a
  closed form (`Around`: the i-th sample is i modulo the length), shows that this
  satisfies the function's equation and, by a least counterexample, that nothing
  else does. The rest is that places in the loop add modulo its length.

`Calibration_proofs`: from one invariant, `CInv`, that the results are those of
the first items of the queue (`Books`) and that the counters hold nothing but
the present trial's frames once the radio has been configured for it (`Radio`),
follow `CalibrationTyped`, `OneResultPerTrial`, `CountedInOwnTrial`,
`SecondRoundOfTheBest` and `OnlyTheBestTwo`. The last two rest on lemmas about
ranking by counting: a result's rank is the number of results that come before
it, so ranks are different, at most the length, and by the pigeonhole theorem of
the library all taken; the ranking is a permutation with falling scores for any
number of results.

`SequenceLemmas`: the library's induction theorems take an operator as a
parameter. Their place is taken by `LeastNat` (a set of numbers has a least one)
and `UpTo` (a set with zero and all successors holds all numbers up to n), which
take a set. With them: what `FlattenSeq`, `FoldLeft` and a sequence in order
return for inputs of any length (lemmas only, no results of their own).

`SweepCandidates_proofs`: the candidates of a sweep, five nested loops, and of a
probe, four. Each loop is one lemma, of the elements its body adds per item.
`CandidatesComplete`: without a limit the candidates are exactly the
combinations of profile, a filter of that profile, bandwidth, offset and gain
clamped to the hardware. `SuggestedCandidates`: whatever a probe's rows, the
sweep it suggests has a candidate with the gain, offset and bandwidth of its
best row, and only filters the core knows.

`SweepToMatch_proofs`:

- `RowsAreOwn` from `SweepInv`: while a candidate is measured only a failover
  changes the configuration, a configuration just set is never the one the core
  has applied, and once applied the counters grow only with what is heard in it;
  a mixture of two candidates that the core may have read and applied in between
  is not the candidate's own configuration, or is just that one.
- `BestIsUnbeaten`: more of every count and no more failures means no lower
  class, for every dwell time, and then a higher place; a row that heard anything
  at all, raw hits included, has a class above one that heard nothing
  (`HitsRank`).
- `SuggestionCovers` and `BestReaches`, the two ways by which a measurement gets
  to another program, from `SweepInv` and `MatchInv`. Its parts follow the
  programs: what was measured is what the profile calls for and nothing else
  (`MeasuresCandidate`), the core does not drop a profile for a jam target it
  began to read before (`ReadsInfo`), the i-th row is of the i-th candidate
  (`RowsOfCandidates`), what the receiver loaded is the candidate of the best
  row (`MatchOfBest`), in INFO only that profile decides (`InInfo`), however
  often INFO is left; for the probe, that each of its rows is of its own
  candidate (`Probing`) and that a suggested sweep tries the best, names no
  rescue profile and so cannot be failed over or refused (`AfterProbe`).
  `ConfigShape` and `Arguments` are the types these need. `CalledFor`, which
  `MeasuresCandidate` and `InInfo` share, includes that a frequency shift given
  in the initial settings is undone, without which the profile alone would not
  decide.

The assumptions these need, and why the code justifies them: `KHz` positive (a
kilohertz is 1000 Hz); `Absent` is no value a field can have (a missing key is
no value in Python either); `INFO` is among the targets of `RadarParams`, as it
is for both teams in the core's table of carriers; `PlansAssumption`, what is
left after the arguments are parsed (see above), with bandwidths of a kilohertz
or more: a row names whole kilohertz, and zero is what a missing bandwidth is
written as.

Two definitions have the form that a proof can use: `Ordered` (the sequence of a
set's elements in an order) stands where `SortSeq` could, and records are written
out where `@@` could join them, since the prover has no definition of either.

Only model-checked: liveness and everything else that needs fairness (`ENABLED`
is beyond the prover): `InfoKeepsComingBack` of both loops, `LevelUpIsAnswered`,
`WrongKeyIsReplaced`, `InfoTunedWhileIdentified`, `CalibrationEnds`,
`StopEndsProcess`; and the runs that show a violation. `RECURSIVE` operators are
out of the prover's reach too, so recursion is written as functions and folds.

## Not modelled

- *Signal processing, CRC and bit packing*: arithmetic on samples and bits, which
  examples test better than states.
- *The frame search* (`demodulator.cpp`, the core's bit pools): a search over
  bits. Every model takes its result as nondeterministic: a frame may be found or
  lost wherever the properties must survive it.
- *The two-sightings rule* of the core counts within a window of the wall clock,
  and no document says what a rejected sighting should cost.
- *The core's own calibration and keyboard*: neither the competition node nor the
  sweep and probe can press its keys. The C++ calibration is in `Calibration`.
- *The C++ profile parser* and *the wireless payload*: text and field offsets
  without state that outlives a call. The node's use of the profile table is
  modelled.
- *The Pluto driver*: its failures are exceptions, which `ReceiverProcess` lets
  happen when the core opens it and in every receive; the driver itself is
  library calls.
- *Status timers, diagnostics, terminal interfaces, topic monitor*: they show
  state and change none.
- *`rf_power_scan.py`, `rf_iq_diff_capture.py`*: they measure once and print;
  nothing the receivers read is written by them.
- *The manual mode's match profiles* (`use_profiles_in_debug`), off by default.
- *Launch files, C++ mock, smoke tests*: read for the inputs and parameters the
  models use.

What could be added next: the lifecycle of a second `start()` on an adapter whose
old core is still alive, which no program of this repository does; the core's
calibration against `Calibration`, should the node ever offer its keys; and the
frame search at the level of whole frames, were a document to say what it owes
after a false preamble.
