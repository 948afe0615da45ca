------------------------------- MODULE Tokens -------------------------------
(***************************************************************************)
(* The OAuth tokens of the browser extension (apps/server/src/oauth.ts)    *)
(* and the calls of the extension that use them (service-worker.ts: api,   *)
(* refresh, connect, disconnect).                                          *)
(*                                                                         *)
(* Transactions are READ COMMITTED: a refresh holds the row it consumes    *)
(* from its SELECT ... FOR UPDATE to its COMMIT; the UPDATE that revokes a *)
(* family sees the rows committed when it starts, waits for those another  *)
(* transaction holds, and does not see rows inserted since.                *)
(***************************************************************************)
EXTENDS Naturals, Sequences

CONSTANTS
    Calls,          \* calls of the extension in progress at the same time
    MaxPairs        \* bound of the pairs of tokens issued

ASSUME TokensAssumption == MaxPairs \in Nat

VARIABLES
    code,           \* the authorization code of the last connect
    pairs,          \* access and refresh tokens, issued in pairs
    call,           \* each call: where it is, its pair, the rows it revokes
    stored          \* storage.local "tokens": the pair, 0 for none

tokenVars == <<code, pairs, call, stored>>

CodeStatuses == {"none", "issued", "consumed", "expired"}
\* age 1: the access token has expired; age 2: the refresh token too
Pair == [family : 1..MaxPairs, consumed : BOOLEAN, revoked : BOOLEAN, age : 0..2]
CallSteps == {"idle", "refresh", "consume", "reuse", "answered", "refused",
              "revoke", "revoking", "clear"}
NoCall == [at |-> "idle", pair |-> 0, rows |-> {}]

TokensInit ==
    /\ code = "none"
    /\ pairs = <<>>
    /\ call = [c \in Calls |-> NoCall]
    /\ stored = 0

NewPair(family) == [family |-> family, consumed |-> FALSE, revoked |-> FALSE, age |-> 0]
Family(f) == {p \in DOMAIN pairs : pairs[p].family = f}
Unrevoked(f) == {p \in Family(f) : ~pairs[p].revoked}
Live(f) == {p \in Unrevoked(f) : ~pairs[p].consumed}

Step(c, place, p, rows) ==
    call' = [call EXCEPT ![c] = [at |-> place, pair |-> p, rows |-> rows]]
Returns(c) == call' = [call EXCEPT ![c] = NoCall]

(* The row locks of the transactions in progress.                           *)
NeverLocked(p, c) == FALSE                          \* mutant of Locked
Locked(p, c) ==
    \E d \in Calls \ {c} : call[d].at \in {"consume", "reuse"} /\ call[d].pair = p

-----------------------------------------------------------------------------
Authorize ==
    /\ stored = 0
    /\ code' = "issued"
    /\ UNCHANGED <<pairs, call, stored>>

CodeExpires ==
    /\ code = "issued" /\ code' = "expired"
    /\ UNCHANGED <<pairs, call, stored>>

(* The code is consumed and its family begins; the answer may be lost.      *)
ExchangeCode ==
    /\ code = "issued" /\ code' = "consumed"
    /\ Len(pairs) < MaxPairs
    /\ pairs' = Append(pairs, NewPair(Len(pairs) + 1))
    /\ stored' \in {Len(pairs) + 1, stored}
    /\ UNCHANGED call

TokensAge(p) ==
    /\ pairs[p].age < 2
    /\ pairs' = [pairs EXCEPT ![p].age = @ + 1]
    /\ UNCHANGED <<code, call, stored>>

(* authenticate                                                             *)
Accepted(p) == ~pairs[p].revoked /\ pairs[p].age = 0

(* api: 401, and the refresh token as this call has read it.                *)
Unauthorized(c) ==
    /\ call[c].at = "idle" /\ stored # 0 /\ ~Accepted(stored)
    /\ Step(c, "refresh", stored, {})
    /\ UNCHANGED <<code, pairs, stored>>

(* refresh, its SELECT ... FOR UPDATE: a consumed token revokes the family. *)
LockToken(c) ==
    /\ call[c].at = "refresh"
    /\ LET p == call[c].pair
           serves == ~pairs[p].revoked /\ pairs[p].age < 2 IN
        /\ ~Locked(p, c)
        /\ \/ ~serves /\ Step(c, "refused", p, {})
           \/ serves /\ pairs[p].consumed /\ Step(c, "reuse", p, Unrevoked(pairs[p].family))
           \/ serves /\ ~pairs[p].consumed /\ Step(c, "consume", p, {})
    /\ UNCHANGED <<code, pairs, stored>>

IssueTokens(c) ==
    /\ call[c].at = "consume"
    /\ Len(pairs) < MaxPairs
    /\ LET p == call[c].pair IN
        pairs' = Append([pairs EXCEPT ![p].consumed = TRUE], NewPair(pairs[p].family))
    /\ Step(c, "answered", Len(pairs) + 1, {})
    /\ UNCHANGED <<code, stored>>

(* disconnect: revoke looks the family up, then updates it.                 *)
Disconnect(c) ==
    /\ call[c].at = "idle" /\ stored # 0
    /\ Step(c, "revoke", stored, {})
    /\ UNCHANGED <<code, pairs, stored>>

Revoke(c) ==
    /\ call[c].at = "revoke"
    /\ Step(c, "revoking", call[c].pair, Unrevoked(pairs[call[c].pair].family))
    /\ UNCHANGED <<code, pairs, stored>>

RevokeFamily(c) ==
    /\ call[c].at \in {"reuse", "revoking"}
    /\ \A p \in call[c].rows : ~Locked(p, c)
    /\ pairs' = [p \in DOMAIN pairs |->
                    IF p \in call[c].rows THEN [pairs[p] EXCEPT !.revoked = TRUE]
                    ELSE pairs[p]]
    /\ Step(c, IF call[c].at = "reuse" THEN "refused" ELSE "clear", call[c].pair, {})
    /\ UNCHANGED <<code, stored>>

(* A transaction that fails, as two reuses that wait for each other do.     *)
RolledBack(c) ==
    /\ call[c].at \in {"consume", "reuse", "revoking"}
    /\ Step(c, IF call[c].at = "revoking" THEN "clear" ELSE "refused", call[c].pair, {})
    /\ UNCHANGED <<code, pairs, stored>>

(* refresh in the extension: the answer replaces what storage holds by now, *)
(* a refusal removes it; disconnect clears it.                              *)
StoreAnswer(c) ==
    /\ call[c].at \in {"answered", "refused", "clear"}
    /\ stored' = IF call[c].at = "answered" THEN call[c].pair ELSE 0
    /\ Returns(c)
    /\ UNCHANGED <<code, pairs>>

AnswerNeverComes(c) ==
    /\ call[c].at = "answered"
    /\ Returns(c)
    /\ UNCHANGED <<code, pairs, stored>>

TokensNext ==
    \/ Authorize \/ CodeExpires \/ ExchangeCode
    \/ \E p \in DOMAIN pairs : TokensAge(p)
    \/ \E c \in Calls :
        \/ Unauthorized(c) \/ LockToken(c) \/ IssueTokens(c)
        \/ Disconnect(c) \/ Revoke(c) \/ RevokeFamily(c) \/ RolledBack(c)
        \/ StoreAnswer(c) \/ AnswerNeverComes(c)

TokensSpec == TokensInit /\ [][TokensNext]_tokenVars

-----------------------------------------------------------------------------
TokensTypeOK ==
    /\ code \in CodeStatuses
    /\ pairs \in Seq(Pair) /\ Len(pairs) <= MaxPairs
    /\ call \in [Calls -> [at : CallSteps, pair : 0..MaxPairs, rows : SUBSET (1..MaxPairs)]]
    /\ stored \in 0..MaxPairs

(* A pair that is not the first of its family replaces the one live refresh *)
(* token of it: refreshes with one token, reuse and revocation, however     *)
(* they overlap, never leave two branches of a family and never revive one  *)
(* (oauth.ts:75-83).  A reuse may still leave the one branch alive, see     *)
(* ReuseRevokesFamily.                                                      *)
RotationReplaces ==
    [][\A p \in DOMAIN pairs' \ DOMAIN pairs :
        LET f == pairs'[p].family IN
        p = f \/ \E q \in DOMAIN pairs : Live(f) = {q} /\ pairs'[q].consumed]_tokenVars

(* README.md:347: "Refresh tokens rotate and reuse revokes the whole        *)
(* family."  When a reuse has revoked, its family has no token left.        *)
ReuseRevokesFamily ==
    [][\A c \in Calls :
        call[c].at = "reuse" /\ call'[c].at = "refused" /\ pairs' # pairs =>
            Unrevoked(pairs[call[c].pair].family)' = {}]_tokenVars
=============================================================================
