----------------------------- MODULE MCSessions -----------------------------
(* Small instances of Sessions for TLC. *)
EXTENDS Sessions

CONSTANTS s1, s2, s3, d1, d2, i1, i2, l1
=============================================================================
