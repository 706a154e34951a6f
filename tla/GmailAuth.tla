------------------------------- MODULE GmailAuth -------------------------------
(* server/auth.py: what the plugin concludes from each answer of Google's      *)
(* token endpoint, and Google's own record of the grants the answers are drawn *)
(* from.  google[t] is the state of the one grant that token t stands for:     *)
(*   none   nobody has consented yet                                           *)
(*   code   consent was given, its code is good and has not been exchanged     *)
(*   live   the code is spent and the refresh token works                      *)
(*   dead   the code expired or was burned, or the token is revoked            *)
EXTENDS PluginTypes

VARIABLE google

GrantState == {"none", "code", "live", "dead"}
GoogleTypeOK == google \in [Token -> GrantState]
GoogleInit ==
  google = [t \in Token |-> IF t = Legacy /\ Upgrade THEN "live" ELSE "none"]

--------------------------------------------------------------------------------
(* Only these error codes say that the grant itself is dead.                   *)
CredentialDeadCodes == {"invalid_grant", "invalid_token"}

(* Neither request got an answer about the grant: 5xx or 429, no connection.   *)
Transient == {"server_error", "transport"}

(* The client or the request was refused, or the body cannot be classified.    *)
ClientRefused == {"invalid_client", "no_code"}

RefreshReplies(t) ==
  Transient \cup ClientRefused \cup
    IF google[t] = "live" THEN {"granted"} ELSE {"invalid_grant"}

(* Mutant of RefreshVerdict: whatever is not transient is a revocation.        *)
RefreshVerdictHarsh(reply) ==
  CASE reply = "granted" -> "ok"
    [] reply \in Transient -> "retryable"
    [] OTHER -> "terminal"

RefreshVerdict(reply) ==
  CASE reply = "granted" -> "ok"
    [] reply \in Transient -> "retryable"
    [] reply \in CredentialDeadCodes -> "terminal"
    [] OTHER -> "config"

(* granted is an answer with both tokens in it, unusable a 2xx without them.   *)
(* The code is spent by either, and by a granted answer that never arrives.    *)
ExchangeReplies(f) ==
  Transient \cup ClientRefused \cup
    IF google[f] = "code" THEN {"granted", "unusable", "lost"} ELSE {"invalid_grant"}

(* Mutant of ExchangeVerdict: every 4xx says that the code is dead.            *)
ExchangeVerdictHarsh(reply) ==
  CASE reply = "granted" -> "ok"
    [] reply \in Transient \cup {"lost"} -> "retryable"
    [] OTHER -> "terminal"

ExchangeVerdict(reply) ==
  CASE reply = "granted" -> "ok"
    [] reply \in Transient \cup {"lost"} -> "retryable"
    [] reply \in CredentialDeadCodes \cup {"unusable"} -> "terminal"
    [] OTHER -> "config"

GoogleAfter(f, reply) ==
  [google EXCEPT ![f] = CASE reply \in {"granted", "lost"} -> "live"
                          [] reply = "unusable" -> "dead"
                          [] OTHER -> @]

(* What refresh_and_verify can come to for token t: a failed refresh's verdict,*)
(* or a refresh that works and a getProfile that answers with the address      *)
(* (verified) or does not (unverified).                                        *)
VerifyVerdicts(t) ==
  {RefreshVerdict(r) : r \in RefreshReplies(t) \ {"granted"}} \cup
    IF "granted" \in RefreshReplies(t) THEN {"verified", "unverified"} ELSE {}

--------------------------------------------------------------------------------
(* The user consents, and a code or a token stops being good.                  *)
Consent(f) == google' = [google EXCEPT ![f] = "code"]

Invalidate(t) ==
  /\ google[t] \in {"code", "live"}
  /\ google' = [google EXCEPT ![t] = "dead"]
================================================================================
