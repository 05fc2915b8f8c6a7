---------------------------- MODULE MCDispatcher ----------------------------
(* A small instance of Dispatcher for TLC: two slots, SendCh and PrioCh of    *)
(* one packet each and two buffers that circulate for ever, so that full      *)
(* channels, fallbacks, drops and floods all happen.                          *)
EXTENDS Dispatcher

\* 100: small, chunk of 1; 300: bulk, chunk of 3
MCSizes == {100, 300}
\* 0: back to back; 8: two of them exceed maxDwellMS; 11: a pause
MCGaps == {0, 8, 11}
=============================================================================
