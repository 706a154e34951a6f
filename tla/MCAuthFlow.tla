------------------------------- MODULE MCAuthFlow ------------------------------
(* Small instances of AuthFlow for TLC.                                        *)
EXTENDS AuthFlow, TLC

CONSTANT f1

(* One link.                                                                   *)
OneMintTs == f1 :> None
OneHashRank == f1 :> 1
================================================================================
