------------------------------ MODULE PluginTypes ------------------------------
(* The vocabulary the modules of the Gmail plugin share.  A flow is one        *)
(* authorization link: the state minted for it, its hash (the key of every     *)
(* record in casa's spool) and the one refresh token its code can be exchanged *)
(* for are all named by the same value, so Token is Flow and one older token.  *)
EXTENDS Integers

CONSTANTS
  Proc,           \* server processes of this plugin
  Flow,           \* authorization links it may mint
  Account,        \* Gmail addresses a user may consent with
  Subject,        \* values GMAIL_USER_EMAIL may have, one per process lifetime
  Legacy,         \* the refresh token of a v1 token file: no flow, no account
  LegacyAccount,  \* the address that token authorizes
  Upgrade,        \* does the data directory start with that v1 file
  None,           \* JSON null, Python None, a missing file
  MintTs,         \* minted_ts of each flow's record, None for a null mint clock
  HashRank,       \* position of each flow's state hash in string order
  NoticeLimit     \* NOTICE_OFFER_LIMIT

Token == Flow \cup {Legacy}

(* attempt_order: a null mint clock sorts oldest, the state hash breaks ties.  *)
Stamp(f) == IF MintTs[f] = None THEN 0 ELSE MintTs[f]
AttemptOrder(f) == [generation |-> Stamp(f), flow |-> f]

Precedes(a, b) ==
  \/ a.generation < b.generation
  \/ a.generation = b.generation /\ HashRank[a.flow] < HashRank[b.flow]

ASSUME FlowAssumption ==
  /\ Legacy \notin Flow
  /\ LegacyAccount \in Account
  /\ Upgrade \in BOOLEAN
  /\ Subject \subseteq Account

ASSUME ClockAssumption ==
  /\ MintTs \in [Flow -> Nat \cup {None}]
  /\ HashRank \in [Flow -> Nat]
  /\ \A f, g \in Flow : HashRank[f] = HashRank[g] => f = g

ASSUME NoticeAssumption == NoticeLimit \in Nat \ {0}

ASSUME NoneAssumption ==
  /\ None \notin Proc \cup Account \cup Token
  /\ None \notin Nat
================================================================================
