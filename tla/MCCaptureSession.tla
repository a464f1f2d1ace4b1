-------------------------- MODULE MCCaptureSession --------------------------
(* Small instances of CaptureSession for TLC.                              *)
EXTENDS CaptureSession, TLC

\* The tracks of a peer are interchangeable.
MCSymmetry == Permutations(Tracks)
=============================================================================
