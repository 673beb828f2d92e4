--------------------------- MODULE MCWriterLease ---------------------------
(* Instances of WriterLease: three invocations, a term of one second, two   *)
(* milliseconds to the second, so that a take, a fence and a term read fall *)
(* on both sides of a second's boundary.                                    *)
EXTENDS WriterLease

CONSTANTS w1, w2, w3

ThreeWriters == {w1, w2, w3}
TwoPasses == {w1, w2}
=============================================================================
