------------------------------ MODULE RowLocks ------------------------------
(***************************************************************************)
(* The transactions about one negotiated deal at the grain of their row    *)
(* locks (deals.ts, store.ts; transaction() of db/client.ts; the foreign   *)
(* keys and the unique keys of drizzle/0010_bounded_ai_dealmaker.sql).     *)
(*                                                                         *)
(* A transaction is READ COMMITTED: it holds every row it locked or        *)
(* changed until it ends, a statement sees what was committed when it ran, *)
(* and its own changes show at its COMMIT.  SELECT ... FOR UPDATE locks    *)
(* "update", an UPDATE "change", an INSERT "key" on each row its foreign   *)
(* keys name.  Rows only one transaction can reach are left out.  The row  *)
(* of the order is not told from its permit's: completeOrder,              *)
(* markReconciliation and markPaid change it first of all, when they hold  *)
(* nothing yet (store.ts:477, 490, 503), and nothing else waits for it.    *)
(***************************************************************************)
EXTENDS Naturals, Sequences

CONSTANTS
    Txns,           \* connections of the pool
    MaxPolicies,    \* bound of the policy versions when a change begins
    MaxEvents       \* bound of the events of an audit chain when one begins

VARIABLES
    policies,       \* merchant_deal_policies.active, by version
    dealRow,        \* the deal: its status, its policy version, its ten minutes over
    permitRow,      \* the status of its PurchasePermit, with the order's
    chain,          \* audit_events.sequence of each chain, in order of COMMIT
    txn             \* each connection: its transaction, statement, reads and locks

lockVars == <<policies, dealRow, permitRow, chain, txn>>

Kinds == {"start", "offer", "permit", "approve", "claim", "complete", "settle",
          "save", "disable"}
PolicyChanges == {"save", "disable"}
Open == {"negotiating", "accepted", "permit_created"}
Claimed == {"executing", "checkout_ready", "settled"}
PermitRows == Claimed \cup {"none", "pending_confirmation", "confirmed", "denied"}
Heads == {"intent_head", "deal_head", "merchant_head"}
Rows == Heads \cup {"product", "policy", "version", "deal", "permit"}
Modes == {"update", "change", "key"}

NoTxn == [kind |-> "none", at |-> 0, seen |-> 0, ok |-> FALSE, held |-> {},
          top |-> [h \in Heads |-> 0]]

RowLocksInit ==
    /\ policies = <<TRUE>>
    /\ dealRow = [status |-> "none", policy |-> 0, expired |-> FALSE]
    /\ permitRow = "none"
    /\ chain = [h \in Heads |-> <<>>]
    /\ txn = [t \in Txns |-> NoTxn]

-----------------------------------------------------------------------------
(* The statements of each transaction that take a lock or read the policy.  *)
Lock(row, mode) == [row |-> row, mode |-> mode]
Read == Lock("policy", "read")

SharedHead(h) == Lock(h, "key")                     \* mutant of ChainHead
ChainHead(h) == Lock(h, "update")

(* An INSERT that names the product and a policy.                           *)
NoKeys == <<>>                                      \* mutant of Keys
Keys == <<Lock("product", "key"), Lock("policy", "key")>>

(* The buyer's expired deal, the unique key of the active one, submitOffer. *)
StartStatements == <<Lock("deal", "change"), ChainHead("deal_head"), Read>> \o Keys \o <<Read>>
OfferStatements ==
    <<Lock("deal", "update"), Read, ChainHead("deal_head"), Lock("product", "key")>>
PermitStatements == <<Lock("deal", "update"), Read>> \o Keys \o <<ChainHead("deal_head")>>
HeadsFirst ==                                       \* mutant of ApproveStatements
    <<ChainHead("intent_head"), ChainHead("deal_head"), Lock("permit", "change"),
      Lock("product", "key")>>
ApproveStatements ==
    <<Lock("permit", "change"), ChainHead("intent_head"), ChainHead("deal_head"),
      Lock("product", "key")>>
ClaimStatements ==
    <<Lock("permit", "update"), Lock("deal", "update"), Read, ChainHead("intent_head"),
      ChainHead("deal_head"), Lock("product", "key")>>
CompleteStatements == <<Lock("permit", "change"), ChainHead("intent_head"), ChainHead("deal_head")>>
(* markPaid by the gateway, markReconciliation.                             *)
SettleStatements ==
    <<Lock("permit", "change"), ChainHead("intent_head"), Lock("deal", "change"),
      ChainHead("deal_head")>>
(* invalidateOpenDeals, then the merchant's event.                          *)
InvalidateStatements ==
    <<Lock("deal", "change"), Lock("permit", "change"), ChainHead("intent_head"),
      Lock("permit", "key"), ChainHead("deal_head"), ChainHead("merchant_head")>>
SaveStatements ==
    <<Lock("product", "update"), Read, Lock("version", "update")>> \o InvalidateStatements
DisableStatements ==
    <<Read, Lock("policy", "update"), Lock("version", "update"), Lock("product", "key")>>
    \o InvalidateStatements

Statements(kind) ==
    CASE kind = "start" -> StartStatements
      [] kind = "offer" -> OfferStatements
      [] kind = "permit" -> PermitStatements
      [] kind = "approve" -> ApproveStatements
      [] kind = "claim" -> ClaimStatements
      [] kind = "complete" -> CompleteStatements
      [] kind = "settle" -> SettleStatements
      [] kind = "save" -> SaveStatements
      [] kind = "disable" -> DisableStatements

InProgress(t) == txn[t].kind # "none"
AtEnd(t) == InProgress(t) /\ txn[t].at > Len(Statements(txn[t].kind))
Statement(t) == Statements(txn[t].kind)[txn[t].at]
AtLock(t) == InProgress(t) /\ ~AtEnd(t) /\ Statement(t).mode # "read"
Holds(t, row) == \E l \in txn[t].held : l.row = row
Expired == dealRow.status \in Open /\ dealRow.expired

(* "change" lets "key" pass, "key" stops at "update" only.                  *)
Conflict(m, n) == "update" \in {m, n} \/ (m = "change" /\ n = "change")
(* Statements whose WHERE matches no row, or that the code does not reach.  *)
Skipped(t) ==
    LET row == Statement(t).row IN
    \/ txn[t].kind = "start" /\ row = "deal" /\ ~Expired
    \/ /\ txn[t].kind \in PolicyChanges
       /\ \/ row = "deal" /\ dealRow.status \notin Open
          \/ row \in {"deal_head", "intent_head", "permit"} /\ ~Holds(t, "deal")
          \/ row \in {"intent_head", "permit"} /\ permitRow = "none"
          \/ /\ Statement(t) = Lock("permit", "change")
             /\ permitRow \notin {"pending_confirmation", "confirmed"}

(* A policy, or the version an INSERT claims, is the row of its number.     *)
Blocks(u, t) ==
    /\ u # t /\ AtLock(t) /\ ~Skipped(t) /\ InProgress(u)
    /\ \E l \in txn[u].held :
        /\ l.row = Statement(t).row /\ Conflict(l.mode, Statement(t).mode)
        /\ l.row \in {"policy", "version"} => txn[u].seen = txn[t].seen

(* What a transaction finds in the row it locks and returns or throws for.  *)
Stops(t) ==
    LET s == Statement(t) IN
    \/ txn[t].kind = "offer" /\ s.row = "deal"
       /\ (dealRow.status # "negotiating" \/ dealRow.expired)
    \/ txn[t].kind = "permit" /\ s.row = "deal"
       /\ (dealRow.status # "accepted" \/ dealRow.expired)
    \/ txn[t].kind = "approve" /\ s.row = "permit" /\ permitRow # "pending_confirmation"
    \/ txn[t].kind = "claim" /\ s.row = "permit" /\ permitRow \in Claimed
    \/ s.row = "version" /\ Len(policies) # txn[t].seen

-----------------------------------------------------------------------------
Ends(t) == txn' = [txn EXCEPT ![t] = NoTxn]
NoEffect == UNCHANGED <<policies, dealRow, permitRow, chain>>

(* BEGIN; what its first, plain reads already refuse never gets this far.   *)
Begin(t, kind) ==
    /\ ~InProgress(t)
    /\ \A h \in Heads : Len(chain[h]) < MaxEvents
    /\ CASE kind = "start" -> dealRow.status = "none" \/ Expired
         [] kind \in {"offer", "permit"} -> dealRow.status \in Open
         [] kind \in {"approve", "claim"} -> permitRow # "none"
         [] kind = "complete" -> permitRow = "executing"
         [] kind = "settle" -> permitRow \in Claimed
         [] OTHER -> Len(policies) < MaxPolicies
    /\ txn' = [txn EXCEPT ![t] = [NoTxn EXCEPT !.kind = kind, !.at = 1]]
    /\ NoEffect

Skip(t) ==
    /\ AtLock(t) /\ Skipped(t)
    /\ txn' = [txn EXCEPT ![t].at = @ + 1]
    /\ NoEffect

(* appendAudit reads the head it has locked.                                *)
TakeLock(t) ==
    /\ AtLock(t) /\ ~Skipped(t) /\ ~Stops(t)
    /\ \A u \in Txns : ~Blocks(u, t)
    /\ LET s == Statement(t) IN
        txn' = [txn EXCEPT
                    ![t].at = @ + 1,
                    ![t].held = @ \cup {s},
                    ![t].top = IF s.row \in Heads THEN [@ EXCEPT ![s.row] = Len(chain[s.row])]
                               ELSE @]
    /\ NoEffect

Stop(t) ==
    /\ AtLock(t) /\ ~Skipped(t) /\ Stops(t)
    /\ \A u \in Txns : ~Blocks(u, t)
    /\ Ends(t)
    /\ NoEffect

(* The latest policy; a start reads it for the deal and again for its offer.*)
PolicyServes(t) ==
    LET latest == Len(policies) IN
    /\ txn[t].kind = "start" /\ txn[t].seen = 0 =>
            policies[latest] /\ (dealRow.status = "none" \/ Holds(t, "deal"))
    /\ txn[t].kind = "start" /\ txn[t].seen # 0 => latest = txn[t].seen
    /\ txn[t].kind \in {"offer", "permit"} => latest = dealRow.policy

ReadPolicy(t) ==
    /\ InProgress(t) /\ ~AtEnd(t) /\ ~AtLock(t)
    /\ IF PolicyServes(t)
       THEN txn' = [txn EXCEPT
                ![t].at = @ + 1,
                ![t].seen = Len(policies),
                ![t].ok = /\ txn[t].kind = "claim" /\ permitRow = "confirmed"
                          /\ ~dealRow.expired /\ Len(policies) = dealRow.policy]
       ELSE Ends(t)
    /\ NoEffect

(* What COMMIT makes visible.  A policy change that has the deal's row, a   *)
(* start that has an expired one, and a payment close it.                   *)
Closes(t) == txn[t].kind \in PolicyChanges \cup {"start", "settle"} /\ Holds(t, "deal")
DealAfter(t) ==
    CASE Closes(t) -> {[dealRow EXCEPT !.status = "closed"]}
      [] txn[t].kind = "start" /\ ~Closes(t) /\ dealRow.status = "none" ->
            {[dealRow EXCEPT !.status = s, !.policy = txn[t].seen] :
                s \in {"negotiating", "accepted", "closed"}}
      [] txn[t].kind = "offer" ->
            {[dealRow EXCEPT !.status = s] : s \in {"negotiating", "accepted", "closed"}}
      [] txn[t].kind = "permit" -> {[dealRow EXCEPT !.status = "permit_created"]}
      [] OTHER -> {dealRow}

PermitAfter(t) ==
    CASE txn[t].kind = "permit" -> "pending_confirmation"
      [] txn[t].kind = "approve" -> "confirmed"
      [] txn[t].kind = "claim" -> IF txn[t].ok THEN "executing" ELSE "denied"
      [] txn[t].kind = "complete" -> "checkout_ready"
      [] txn[t].kind = "settle" -> "settled"
      [] txn[t].kind \in PolicyChanges /\ Lock("permit", "change") \in txn[t].held -> "denied"
      [] OTHER -> permitRow

PoliciesAfter(t) ==
    IF txn[t].kind \in PolicyChanges THEN Append(policies, txn[t].kind = "save")
    ELSE policies

Commit(t) ==
    /\ AtEnd(t)
    /\ policies' = PoliciesAfter(t)
    /\ dealRow' \in DealAfter(t)
    /\ permitRow' = PermitAfter(t)
    /\ chain' = [h \in Heads |-> IF Holds(t, h) THEN Append(chain[h], txn[t].top[h] + 1)
                                 ELSE chain[h]]
    /\ Ends(t)

(* transaction(): a statement fails, the victim of a deadlock included.     *)
Rollback(t) == InProgress(t) /\ Ends(t) /\ NoEffect

DealRunsOut ==
    /\ dealRow.status \in Open /\ ~dealRow.expired
    /\ dealRow' = [dealRow EXCEPT !.expired = TRUE]
    /\ UNCHANGED <<policies, permitRow, chain, txn>>

RowLocksNext ==
    \/ DealRunsOut
    \/ \E t \in Txns :
        \/ \E kind \in Kinds : Begin(t, kind)
        \/ Skip(t) \/ TakeLock(t) \/ Stop(t) \/ ReadPolicy(t) \/ Commit(t) \/ Rollback(t)

RowLocksSpec == RowLocksInit /\ [][RowLocksNext]_lockVars

-----------------------------------------------------------------------------
RowLocksTypeOK ==
    /\ policies \in Seq(BOOLEAN)
    /\ dealRow \in [status : Open \cup {"none", "closed"}, policy : Nat,
                    expired : BOOLEAN]
    /\ permitRow \in PermitRows
    /\ chain \in [Heads -> Seq(Nat)]
    /\ txn \in [Txns -> [kind : Kinds \cup {"none"}, at : Nat, seen : Nat,
                         ok : BOOLEAN, held : SUBSET [row : Rows, mode : Modes],
                         top : [Heads -> Nat]]]

(* Every event of an audit chain follows the one committed before it, as    *)
(* verifyAudit (store.ts:580) asks, whatever transactions append at once.   *)
ChainUnbroken == \A h \in Heads : \A i \in DOMAIN chain[h] : chain[h][i] = i

(* A COMMIT leaves an open deal, or a permit it claims, under the latest    *)
(* policy: the foreign keys make a policy change wait for a deal that       *)
(* starts, the deal's row for an offer, a permit or a claim (deals.ts:92).  *)
PolicyReadHolds ==
    [][dealRow'.status \in Open \/ (permitRow # "executing" /\ permitRow' = "executing")
        => dealRow'.policy = Len(policies')]_lockVars

(* No transactions deadlock without a policy change among them, and the     *)
(* COMMIT of a provider's order (store.ts:475) is in no deadlock: whoever   *)
(* waits for it holds nothing that a deadlock could need.                   *)
Stuck(group) == group # {} /\ \A t \in group : \E u \in group : Blocks(u, t)
DeadlocksNeedPolicyChange ==
    \A group \in SUBSET {t \in Txns : InProgress(t)} :
        Stuck(group) =>
            /\ \E t \in group : txn[t].kind \in PolicyChanges
            /\ Stuck({t \in group : txn[t].kind # "complete" /\ txn[t].held # {}})
=============================================================================
