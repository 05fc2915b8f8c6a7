----------------------------- MODULE MCRtpObfs -----------------------------
(* Two sealing goroutines, four sequence numbers and 84 timestamps in steps   *)
(* of 7: the timestamp wraps every 12 packets (in the code every 2^26) and,   *)
(* without the c >> 16 term, the nonce would repeat at the 13th.  The window  *)
(* spans one packet and holds two entries, the proportion of the code.        *)
EXTENDS RtpObfs, TLC

MCInitSeqs == {3}
\* 30: the timestamp wraps in mid-run; 75: just after the first packets
MCInitTss == {30, 75}
Symmetry == Permutations(Goroutines)
=============================================================================
