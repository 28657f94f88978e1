---------------------------- MODULE MCSweepToMatch ----------------------------
EXTENDS SweepToMatch

\* Ten Hz make a kilohertz here; the jam target's parameters only differ.
MCRadarParams == [INFO |-> [gain |-> 40, rf_bw |-> 540], L1 |-> [gain |-> 22, rf_bw |-> 1250]]
MCManualGains == [INFO |-> 24, L1 |-> 22]
MCRescueRadios == [L2 |-> [offset |-> 80, gain |-> 40, rf_bw |-> 660],
                   L3 |-> [offset |-> 80, gain |-> 24, rf_bw |-> 760]]

BuiltIn(rescue, offset, filter) ==
    [rescue |-> rescue, offset |-> offset, gain |-> 36, rf_bw |-> 660,
     filter |-> Plain(filter), label |-> Plain(filter)]
MCFallbackProfiles == [L2 |-> << BuiltIn("L2", 80, "hist248"), BuiltIn("L2", 200, "hist248") >>,
                       L3 |-> << BuiltIn("L3", 200, "l3tight") >>]

Loose == Plain("loose3")
Notched == [name |-> "tight_loose3", notch |-> TRUE]

Sweep == [profiles |-> << "" >>, gains |-> << 60 >>, rf_bws |-> << 300 >>,
          offsets |-> << 0, -85 >>, filters |-> << Plain("normal") >>,
          rescue_filters |-> [L2 |-> << >>, L3 |-> << Plain("l3tight"), Plain("l3cur") >>],
          gain_max |-> 73, limit |-> 0]

Probing == [gains |-> << 80, 73 >>, rf_bws |-> << 225 >>, offsets |-> << 0, 85 >>,
            filters |-> << Notched >>, limit |-> 0]

\* Nothing set, and everything that can be set at the start.
NoInitial == [team |-> "", target |-> "", gain |-> NoGain, rf_bw |-> NoBw, offset |-> 0,
              filter |-> Plain(""), rescue |-> ""]

Plan == [probing |-> FALSE, probe |-> Probing, team |-> "RED", args |-> Sweep, json |-> FALSE,
         max_yields |-> 2, rx_team |-> "RED", initial |-> NoInitial]

MCPlans ==
    {[Plan EXCEPT !.team = t, !.rx_team = "BLUE", !.json = j] : t \in {"RED", "BLUE"}, j \in BOOLEAN}
    \cup
    {[Plan EXCEPT !.probing = TRUE, !.team = t, !.max_yields = 1] : t \in {"RED", "BLUE"}}
    \cup
    {[Plan EXCEPT !.probing = TRUE, !.probe.offsets = << 85 >>,
                  !.probe.filters = << Loose, Notched >>],
     [Plan EXCEPT !.probing = TRUE, !.probe.gains = << >>, !.probe.limit = 1]}
    \cup
    {[Plan EXCEPT !.args.profiles = << "", "L2" >>, !.args.offsets = << 40 >>,
                  !.args.gains = << 90 >>,
                  !.initial = [NoInitial EXCEPT !.target = "INFO", !.offset = 30, !.gain = 2]],
     [Plan EXCEPT !.args.profiles = << "L3" >>, !.args.offsets = << 40 >>,
                  !.initial = [NoInitial EXCEPT !.offset = 30, !.team = "BLUE"]],
     [Plan EXCEPT !.args.filters = << Plain("hist248") >>, !.args.limit = 1],
     [Plan EXCEPT !.args.limit = 1,
                  !.initial = [NoInitial EXCEPT !.target = "INFO", !.rescue = "L3"]]}

MCProbeMetrics == [score : {1, 2}, errors : {0, 3, 8}]

Found(raw, ac, sof, crc8, crc16, fail) ==
    [ac_raw |-> raw, ac |-> ac, sof |-> sof, crc8 |-> crc8, crc16 |-> crc16, crc16_fail |-> fail]
MCYields == {Found(1, 0, 0, 0, 0, 0), Found(3, 1, 0, 0, 0, 1), Found(2, 2, 2, 2, 0, 1),
             Found(1, 1, 1, 1, 1, 0), Found(2, 2, 2, 2, 2, 0)}
=============================================================================
