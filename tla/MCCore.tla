------------------------------- MODULE MCCore -------------------------------
(* Two groups in cascade and an event channel of one entry, so that emitters  *)
(* meet a full channel and race for the place they freed.                     *)
EXTENDS Core
=============================================================================
