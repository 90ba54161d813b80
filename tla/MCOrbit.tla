---- MODULE MCOrbit ----
(* Instances of Orbit for TLC. *)
EXTENDS Orbit
=============================================================================
