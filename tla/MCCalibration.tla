---------------------------- MODULE MCCalibration ----------------------------
(***************************************************************************)
(* Two L2 profiles and one L3 profile in a quick calibration, one of each  *)
(* in a full one; the second round keeps two.  The L2 preset is also a     *)
(* profile of the queue, as in the code.                                   *)
(***************************************************************************)
EXTENDS Calibration

TwoL2 == << "a", "b" >>
OneL2 == << "a" >>
OneL3 == << "c" >>
=============================================================================
