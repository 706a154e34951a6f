------------------------------- MODULE MCErasure ------------------------------
(* The instance of Erasure that TLC checks: constants from MCErasure.cfg, and  *)
(* no symmetry, for a liveness property is checked on it.                      *)
EXTENDS Erasure, TLC
================================================================================
