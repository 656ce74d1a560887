------------------------------ MODULE MCResume ------------------------------
(* Small instances of Resume for TLC. *)
EXTENDS Resume

CONSTANTS c1, Receipt
=============================================================================
