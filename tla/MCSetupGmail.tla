------------------------------ MODULE MCSetupGmail ----------------------------
(* Small instances of SetupGmail for TLC.                                      *)
EXTENDS SetupGmail, TLC

CONSTANTS f1, f2

(* Two links whose clocks tie, one of them with a record that carries none.    *)
TiedMintTs == f1 :> None @@ f2 :> 0
TiedHashRank == f1 :> 1 @@ f2 :> 2

(* One link.                                                                   *)
OneMintTs == f1 :> 0
OneHashRank == f1 :> 1
================================================================================
