-------------------------- MODULE MCSpeedGovernor --------------------------
(* Model-checking instance of SpeedGovernor with two upload threads in     *)
(* the auto-shaper, which share dyn_upload_speed.                          *)
EXTENDS SpeedGovernor

CONSTANTS w1, w2

MCWriters == {w1, w2}
=============================================================================
