----------------------------- MODULE MCLiveLog -----------------------------
(***************************************************************************)
(* Two processes and a log of two lines, one kill: the smallest instance   *)
(* in which a line is read in two pieces, a window is half written, and    *)
(* two manifests race for one temporary file.                              *)
(***************************************************************************)
EXTENDS LiveLog

CONSTANTS p, q
=============================================================================
