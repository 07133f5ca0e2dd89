------------------------------- MODULE MCCli -------------------------------
EXTENDS Cli

(* No symmetry: InterruptEnds is a liveness property.                      *)
=============================================================================
