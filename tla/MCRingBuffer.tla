---------------------------- MODULE MCRingBuffer ----------------------------
(* RingBuffer on a circle of a few cells, for TLC: a chunk can be larger     *)
(* than the room left, and both indices wrap.                                *)
EXTENDS RingBuffer
=============================================================================
