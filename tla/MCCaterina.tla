----------------------------- MODULE MCCaterina -----------------------------
(* Instances of Caterina for TLC. *)
EXTENDS Caterina

\* Stop exploring once a USB interrupt has disturbed an SPM sequence.
NoGlitch == ~glitch

=============================================================================
