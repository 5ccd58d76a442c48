---------------------------- MODULE RingDeviceMC ----------------------------
(* Small instances of RingDevice: rings of one to three bytes. *)
EXTENDS RingDevice, TLC

Symmetry == Permutations(Procs) \cup Permutations(Bytes)
=============================================================================
