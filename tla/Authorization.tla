----------------------------- MODULE Authorization -----------------------------
(* What the sign-in flow promises the user, with no processes, locks, files or *)
(* spool in it: one connection and one candidate to replace it.  A consented   *)
(* grant becomes the candidate while there is none, unless a newer link's is   *)
(* connected; it is connected only if it is the configured inbox's; and either *)
(* is let go only for a reason the user would accept.                          *)
EXTENDS PluginTypes

VARIABLES
  connection,  \* the grant that outlives a restart, or None
  candidate,   \* a grant obtained and not yet connected or refused, or None
  ended,       \* grants that are over at Google
  ours         \* grants of the inbox that the server at work is configured for

authorizationVars == <<connection, candidate, ended, ours>>

AuthorizationInit ==
  /\ connection \in {None, Legacy}
  /\ candidate = None
  /\ ended = {} /\ ours = {}

(* Google and the servers' configuration move on their own.                    *)
World ==
  /\ ended' \in SUBSET Token /\ ended \subseteq ended'
  /\ ours' \in SUBSET Token

(* A v1 connection names no link, and any link's grant may replace it.         *)
Older(f) == connection \in Flow /\ Precedes(AttemptOrder(f), AttemptOrder(connection))

Obtain(f) ==
  /\ candidate = None /\ ~Older(f)
  /\ candidate' = f
  /\ World /\ UNCHANGED connection

Connect ==
  /\ candidate \in ours
  /\ connection' = candidate
  /\ World /\ UNCHANGED candidate

LetGo ==
  /\ candidate # None
  /\ candidate \in {connection} \cup ended \/ candidate \notin ours
  /\ candidate' = None
  /\ World /\ UNCHANGED connection

Disconnect ==
  /\ connection \in ended
  /\ connection' = None
  /\ World /\ UNCHANGED candidate

Elsewhere == World /\ UNCHANGED <<connection, candidate>>

AuthorizationNext ==
  (\E f \in Flow : Obtain(f)) \/ Connect \/ LetGo \/ Disconnect \/ Elsewhere

AuthorizationSpec == AuthorizationInit /\ [][AuthorizationNext]_authorizationVars
================================================================================
