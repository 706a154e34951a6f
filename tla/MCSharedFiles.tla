------------------------------ MODULE MCSharedFiles ----------------------------
(* A small instance for TLC of the files that processes share with nothing     *)
(* locked between them: the sent log of the plugin's servers, and the folder   *)
(* through which any plugins hand files over.  The two share no state, so a    *)
(* behaviour is about one of them, use, and the other rests.                   *)
EXTENDS MCSentLog, Handoff

VARIABLE use

sharedVars == <<vars, handoffVars, use>>

(* The producers are the plugin's servers.  Those of Mail are left out: every   *)
(* permutation costs time at every state.                                      *)
AllAlike == Permutations(Server) \cup Permutations(Request) \cup Permutations(Id)

SharedInit ==
  /\ use \in {"log", "folder"}
  /\ Init
  /\ HandoffInit /\ (use = "log" => home = "absent")

(* The sent log goes on for ever; the folder may have served all its           *)
(* publications.                                                               *)
SharedNext ==
  \/ use = "log" /\ Next /\ UNCHANGED <<handoffVars, use>>
  \/ use = "folder" /\ HandoffNext /\ UNCHANGED <<vars, use>>
  \/ use = "folder" /\ UNCHANGED sharedVars

SharedSpec == SharedInit /\ [][SharedNext]_sharedVars
================================================================================
