---------------------------- MODULE MCCaptureQueue ----------------------------
(***************************************************************************)
(* An instance of CaptureQueue for TLC: one new capture, and one that a    *)
(* version without captureIds left in the queue.                           *)
(***************************************************************************)
EXTENDS CaptureQueue

===============================================================================
