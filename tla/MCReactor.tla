----------------------------- MODULE MCReactor -----------------------------
(* Small instances of Reactor for TLC. *)
EXTENDS Reactor, TLC

OneIoLoop == <<"io1">>
TwoIoLoops == <<"io1", "io2">>
NoIoLoop == <<>>

Symmetry == Permutations(Conns)
=============================================================================
