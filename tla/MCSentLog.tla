-------------------------------- MODULE MCSentLog ------------------------------
(* Small instances of SentLog for TLC.                                         *)
EXTENDS SentLog, FiniteSets, TLC

Alike == Permutations(Server) \cup Permutations(Request) \cup Permutations(Mail)

(* Bound of MCSharedFiles: once two servers run together, one request_id.    *)
Sends == delivered \cup {call[p] : p \in {q \in Server : call[q] # None}}
Bounded == alone \/ Cardinality({s.request : s \in Sends}) <= 1
================================================================================
