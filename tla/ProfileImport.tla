---------------------------- MODULE ProfileImport ----------------------------
(***************************************************************************)
(* profile_import.py: reads what a sweep wrote, or a file written by hand, *)
(* into the profile the node applies when it enters INFO.  A file is a     *)
(* record of its fields, some Absent; a field is unreadable when it is     *)
(* missing and required.                                                   *)
(***************************************************************************)
EXTENDS ProfileSweep

NoConfig == [profile |-> "none"]  \* what _load_profile_config makes of an error

RescueOf(file) ==
    IF file.rescue \notin {Absent, "normal", "none"} THEN file.rescue
    ELSE IF file.profile \in {"INFO_L2", "INFO_L2_RESCUE"} THEN "L2"
    ELSE IF file.profile \in {"INFO_L3", "INFO_L3_RESCUE"} THEN "L3"
    ELSE ""

Supported(file) ==
    /\ file.profile \in {Absent, "INFO", "INFO_NORMAL", "INFO_L2", "INFO_L3",
                         "INFO_L2_RESCUE", "INFO_L3_RESCUE"}
    /\ RescueOf(file) \in {"", "L2", "L3"}
    /\ file.team \in {Absent, "RED", "BLUE"}

FromKHz(khz) == IF khz = Absent THEN Absent ELSE khz * KHz

\* `or`: a bandwidth of zero counts as missing.
RfBwOf(file) == IF file.rf_bw_hz \in {Absent, 0} THEN FromKHz(file.rf_bw_khz) ELSE file.rf_bw_hz

OffsetOf(file) ==
    IF file.freq_offset_hz = Absent THEN FromKHz(file.offset_khz) ELSE file.freq_offset_hz

Readable(file) == Absent \notin {file.gain, RfBwOf(file), OffsetOf(file)}

\* A rescue profile without a filter becomes one with the filter "normal".
LoadAdaptiveProfile(file) ==
    IF ~ (Supported(file) /\ Readable(file)) THEN NoConfig
    ELSE [profile |-> ProfileName(RescueOf(file)), team |-> file.team,
          rescue |-> RescueOf(file), gain |-> file.gain, rf_bw |-> RfBwOf(file),
          offset |-> OffsetOf(file),
          filter |-> IF file.filter = Absent THEN [name |-> "normal", notch |-> FALSE]
                     ELSE file.filter]
=============================================================================
