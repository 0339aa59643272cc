------------------------------ MODULE MCURPHost ------------------------------
(* Small instances of URPHost for TLC. *)
EXTENDS URPHost

CONSTANTS i1, i2, c1, g1

TwoStarts == {i1, i2}
OneGetter == {g1}
OneStop == {c1}
==============================================================================
