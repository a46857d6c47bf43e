---------------------------- MODULE MCAutoConnect ----------------------------
(* Small instances of AutoConnect for TLC.                                  *)
EXTENDS AutoConnect

CONSTANTS a1, a2, s1, s2, k1, k2
=============================================================================
