----------------------------- MODULE MCExposure -----------------------------
(* Two endpoints, one space and one CIDR to expose them to.                   *)
EXTENDS Exposure, TLC

CONSTANTS a, b, s, c
=============================================================================
