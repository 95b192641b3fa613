----------------------------- MODULE MCRgaText -----------------------------
(* Values of the RgaText constants for TLC. *)
EXTENDS RgaText

MCAgents2 == 1 .. 2
=============================================================================
