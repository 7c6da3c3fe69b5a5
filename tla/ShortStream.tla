---------------------------- MODULE ShortStream ----------------------------
(***************************************************************************)
(* The stream of NetworkStream when each packet is short enough for the    *)
(* length field of its header.  The code does not see to that: it is up to *)
(* the blocks that feed the sink.                                          *)
(***************************************************************************)
EXTENDS NetworkStream

\* Buffers are shorter than 2^16 bytes, and so are labels, of which each stands
\* for one unit here.
ASSUME ShortAssumption == 1 < LengthMod /\ MaxBuffer < LengthMod
=============================================================================
