---------------------------- MODULE MCHistogram ----------------------------
(***************************************************************************)
(* Instances of Histogram for TLC.                                         *)
(***************************************************************************)
EXTENDS HistogramProperties
=============================================================================
