---------------------------- MODULE MCCalibration ----------------------------
(* Model values for Calibration are numbers; see MCCalibration.cfg. *)
EXTENDS Calibration
=============================================================================
