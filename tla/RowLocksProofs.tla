--------------------------- MODULE RowLocksProofs ---------------------------
(***************************************************************************)
(* Proofs about RowLocks for any number of connections, policy versions    *)
(* and audit events.  The inductive invariant LocksInv says which locks a  *)
(* transaction holds where it is, that no two of them conflict, and that   *)
(* what it found in the rows it holds is still so.                         *)
(***************************************************************************)
EXTENDS RowLocks, SequenceTheorems, TLAPS

-----------------------------------------------------------------------------
(* Statements a transaction may pass without the lock they take.            *)
Skippable(kind, row) ==
    \/ kind = "start" /\ row = "deal"
    \/ kind \in PolicyChanges /\ row \in {"deal", "permit", "intent_head", "deal_head"}
(* Where a change asks for the deal, and where the policy is read (again at *)
(* the end of a start).                                                     *)
DealAt(kind) == IF kind = "save" THEN 4 ELSE 5
ReadAt(kind) ==
    IF kind \in {"start", "claim"} THEN 3 ELSE IF kind = "disable" THEN 1 ELSE 2
Undecided == {"pending_confirmation", "confirmed"}

(* A connection is where its transaction's statements put it.               *)
Placed ==
    \A t \in Txns :
        /\ ~InProgress(t) => txn[t] = NoTxn
        /\ InProgress(t) => txn[t].at \in 1..(Len(Statements(txn[t].kind)) + 1)

(* It holds locks of statements it has passed, and each it may not skip.    *)
HeldPassed ==
    \A t \in Txns : \A l \in txn[t].held :
        \E i \in 1..Len(Statements(txn[t].kind)) :
            i < txn[t].at /\ l = Statements(txn[t].kind)[i] /\ l.mode # "read"
PassedHeld ==
    \A t \in Txns : InProgress(t) =>
        \A i \in 1..Len(Statements(txn[t].kind)) :
            LET s == Statements(txn[t].kind)[i] IN
            i < txn[t].at /\ s.mode # "read" /\ ~Skippable(txn[t].kind, s.row)
                => s \in txn[t].held

(* No two transactions hold locks that conflict.                            *)
Exclusive ==
    \A t, u \in Txns : t # u =>
        \A l \in txn[t].held, m \in txn[u].held :
            l.row = m.row /\ Conflict(l.mode, m.mode) =>
                l.row \in {"policy", "version"} /\ txn[t].seen # txn[u].seen

(* Whoever holds the head of a chain has read how long the chain is.        *)
HeadsRead ==
    \A t \in Txns, h \in Heads : Holds(t, h) => txn[t].top[h] = Len(chain[h])

(* A start whose second read passed, and a change that has the version's    *)
(* row, have the latest policy.                                             *)
PoliciesSeen ==
    /\ policies # <<>>
    /\ \A t \in Txns :
        /\ txn[t].kind = "start" /\ txn[t].at <= 3 => txn[t].seen = 0
        /\ txn[t].kind = "start" /\ txn[t].at > 3 => txn[t].seen \in 1..Len(policies)
        /\ txn[t].kind = "start" /\ txn[t].at > 6 => txn[t].seen = Len(policies)
        /\ Holds(t, "version") => txn[t].seen = Len(policies)

(* What is committed about the deal and its permit fits together.           *)
RowsFit ==
    /\ dealRow.status \in Open => dealRow.policy = Len(policies)
    /\ dealRow.status \in {"none", "negotiating", "accepted"} => permitRow = "none"
    /\ permitRow \in Undecided /\ ~dealRow.expired => dealRow.status \in Open

(* What a transaction has found in the rows it holds is still so.           *)
StartFits(t) ==
    txn[t].kind = "start" =>
        /\ Holds(t, "deal") => Expired
        /\ txn[t].at > 3 /\ ~Holds(t, "deal") => dealRow.status = "none"
DealFits(t) ==
    /\ txn[t].kind = "offer" /\ txn[t].at > 1 => dealRow.status = "negotiating"
    /\ txn[t].kind = "permit" /\ txn[t].at > 1 => dealRow.status = "accepted"
PermitFits(t) ==
    /\ txn[t].kind = "approve" /\ txn[t].at > 1 => permitRow = "pending_confirmation"
    /\ txn[t].kind = "claim" => permitRow # "none"
    /\ txn[t].kind = "claim" /\ txn[t].at > 1 => permitRow \notin Claimed
    /\ txn[t].ok => /\ txn[t].kind = "claim" /\ txn[t].at > 3
                    /\ permitRow = "confirmed" /\ dealRow.status \in Open
    /\ txn[t].kind \in {"complete", "settle"} => permitRow \in Claimed
ChangeFits(t) ==
    txn[t].kind \in PolicyChanges =>
        /\ Holds(t, "deal") => dealRow.status \in Open
        /\ txn[t].at > DealAt(txn[t].kind) /\ ~Holds(t, "deal") => dealRow.status \notin Open
        /\ Lock("permit", "change") \in txn[t].held => permitRow \in Undecided
        /\ Holds(t, "deal") /\ txn[t].at > DealAt(txn[t].kind) + 1
           /\ Lock("permit", "change") \notin txn[t].held => permitRow \notin Undecided
        /\ \A row \in {"intent_head", "deal_head", "permit"} : Holds(t, row) => Holds(t, "deal")
TxnsFit == \A t \in Txns : StartFits(t) /\ DealFits(t) /\ PermitFits(t) /\ ChangeFits(t)

LocksInv ==
    /\ RowLocksTypeOK /\ Placed /\ HeldPassed /\ PassedHeld /\ Exclusive
    /\ HeadsRead /\ ChainUnbroken /\ PoliciesSeen /\ RowsFit /\ TxnsFit

-----------------------------------------------------------------------------
(* Two short sequences put end to end.                                      *)
LEMMA Append32 ==
    ASSUME NEW a1, NEW a2, NEW a3, NEW a4, NEW a5
    PROVE  <<a1, a2, a3>> \o <<a4, a5>> = <<a1, a2, a3, a4, a5>>
<1>. DEFINE S == {a1, a2, a3, a4, a5}
            x == <<a1, a2, a3>> \o <<a4, a5>>
<1>1. <<a1, a2, a3>> \in Seq(S) /\ <<a4, a5>> \in Seq(S) /\ <<a1, a2, a3, a4, a5>> \in Seq(S)
  OBVIOUS
<1>2. x \in Seq(S) /\ Len(x) = 5
  BY <1>1
<1>3. x[1] = a1 /\ x[2] = a2 /\ x[3] = a3 /\ x[4] = a4 /\ x[5] = a5
  BY <1>1
<1>. HIDE DEF x
<1>4. \A i \in 1..5 : x[i] = <<a1, a2, a3, a4, a5>>[i]
  BY <1>3
<1>5. x = <<a1, a2, a3, a4, a5>>
  BY <1>1, <1>2, <1>4, SeqEqual
<1>. QED
  BY <1>5 DEF x

(* Five and one.                                                            *)
LEMMA Append51 ==
    ASSUME NEW a1, NEW a2, NEW a3, NEW a4, NEW a5, NEW a6
    PROVE  <<a1, a2, a3, a4, a5>> \o <<a6>> = <<a1, a2, a3, a4, a5, a6>>
<1>. DEFINE S == {a1, a2, a3, a4, a5, a6}
            x == <<a1, a2, a3, a4, a5>> \o <<a6>>
<1>1. <<a1, a2, a3, a4, a5>> \in Seq(S) /\ <<a6>> \in Seq(S) /\ <<a1, a2, a3, a4, a5, a6>> \in Seq(S)
  OBVIOUS
<1>2. x \in Seq(S) /\ Len(x) = 6
  BY <1>1
<1>3. x[1] = a1 /\ x[2] = a2 /\ x[3] = a3 /\ x[4] = a4 /\ x[5] = a5 /\ x[6] = a6
  BY <1>1
<1>. HIDE DEF x
<1>4. \A i \in 1..6 : x[i] = <<a1, a2, a3, a4, a5, a6>>[i]
  BY <1>3
<1>5. x = <<a1, a2, a3, a4, a5, a6>>
  BY <1>1, <1>2, <1>4, SeqEqual
<1>. QED
  BY <1>5 DEF x

(* Two and two.                                                             *)
LEMMA Append22 ==
    ASSUME NEW a1, NEW a2, NEW a3, NEW a4
    PROVE  <<a1, a2>> \o <<a3, a4>> = <<a1, a2, a3, a4>>
<1>. DEFINE S == {a1, a2, a3, a4}
            x == <<a1, a2>> \o <<a3, a4>>
<1>1. <<a1, a2>> \in Seq(S) /\ <<a3, a4>> \in Seq(S) /\ <<a1, a2, a3, a4>> \in Seq(S)
  OBVIOUS
<1>2. x \in Seq(S) /\ Len(x) = 4
  BY <1>1
<1>3. x[1] = a1 /\ x[2] = a2 /\ x[3] = a3 /\ x[4] = a4
  BY <1>1
<1>. HIDE DEF x
<1>4. \A i \in 1..4 : x[i] = <<a1, a2, a3, a4>>[i]
  BY <1>3
<1>5. x = <<a1, a2, a3, a4>>
  BY <1>1, <1>2, <1>4, SeqEqual
<1>. QED
  BY <1>5 DEF x

(* Four and one.                                                            *)
LEMMA Append41 ==
    ASSUME NEW a1, NEW a2, NEW a3, NEW a4, NEW a5
    PROVE  <<a1, a2, a3, a4>> \o <<a5>> = <<a1, a2, a3, a4, a5>>
<1>. DEFINE S == {a1, a2, a3, a4, a5}
            x == <<a1, a2, a3, a4>> \o <<a5>>
<1>1. <<a1, a2, a3, a4>> \in Seq(S) /\ <<a5>> \in Seq(S) /\ <<a1, a2, a3, a4, a5>> \in Seq(S)
  OBVIOUS
<1>2. x \in Seq(S) /\ Len(x) = 5
  BY <1>1
<1>3. x[1] = a1 /\ x[2] = a2 /\ x[3] = a3 /\ x[4] = a4 /\ x[5] = a5
  BY <1>1
<1>. HIDE DEF x
<1>4. \A i \in 1..5 : x[i] = <<a1, a2, a3, a4, a5>>[i]
  BY <1>3
<1>5. x = <<a1, a2, a3, a4, a5>>
  BY <1>1, <1>2, <1>4, SeqEqual
<1>. QED
  BY <1>5 DEF x

(* Three and six.                                                           *)
LEMMA Append36 ==
    ASSUME NEW a1, NEW a2, NEW a3, NEW a4, NEW a5, NEW a6, NEW a7, NEW a8, NEW a9
    PROVE  <<a1, a2, a3>> \o <<a4, a5, a6, a7, a8, a9>> = <<a1, a2, a3, a4, a5, a6, a7, a8, a9>>
<1>. DEFINE S == {a1, a2, a3, a4, a5, a6, a7, a8, a9}
            x == <<a1, a2, a3>> \o <<a4, a5, a6, a7, a8, a9>>
<1>1. <<a1, a2, a3>> \in Seq(S) /\ <<a4, a5, a6, a7, a8, a9>> \in Seq(S) /\ <<a1, a2, a3, a4, a5, a6, a7, a8, a9>> \in Seq(S)
  OBVIOUS
<1>2. x \in Seq(S) /\ Len(x) = 9
  BY <1>1
<1>3. x[1] = a1 /\ x[2] = a2 /\ x[3] = a3 /\ x[4] = a4 /\ x[5] = a5 /\ x[6] = a6 /\
       x[7] = a7 /\ x[8] = a8 /\ x[9] = a9
  BY <1>1
<1>. HIDE DEF x
<1>4. \A i \in 1..9 : x[i] = <<a1, a2, a3, a4, a5, a6, a7, a8, a9>>[i]
  BY <1>3
<1>5. x = <<a1, a2, a3, a4, a5, a6, a7, a8, a9>>
  BY <1>1, <1>2, <1>4, SeqEqual
<1>. QED
  BY <1>5 DEF x

(* Four and six.                                                            *)
LEMMA Append46 ==
    ASSUME NEW a1, NEW a2, NEW a3, NEW a4, NEW a5, NEW a6, NEW a7, NEW a8, NEW a9, NEW a10
    PROVE  <<a1, a2, a3, a4>> \o <<a5, a6, a7, a8, a9, a10>> = <<a1, a2, a3, a4, a5, a6, a7, a8, a9, a10>>
<1>. DEFINE S == {a1, a2, a3, a4, a5, a6, a7, a8, a9, a10}
            x == <<a1, a2, a3, a4>> \o <<a5, a6, a7, a8, a9, a10>>
<1>1. <<a1, a2, a3, a4>> \in Seq(S) /\ <<a5, a6, a7, a8, a9, a10>> \in Seq(S) /\ <<a1, a2, a3, a4, a5, a6, a7, a8, a9, a10>> \in Seq(S)
  OBVIOUS
<1>2. x \in Seq(S) /\ Len(x) = 10
  BY <1>1
<1>3. x[1] = a1 /\ x[2] = a2 /\ x[3] = a3 /\ x[4] = a4 /\ x[5] = a5 /\ x[6] = a6 /\
       x[7] = a7 /\ x[8] = a8 /\ x[9] = a9 /\ x[10] = a10
  BY <1>1
<1>. HIDE DEF x
<1>4. \A i \in 1..10 : x[i] = <<a1, a2, a3, a4, a5, a6, a7, a8, a9, a10>>[i]
  BY <1>3
<1>5. x = <<a1, a2, a3, a4, a5, a6, a7, a8, a9, a10>>
  BY <1>1, <1>2, <1>4, SeqEqual
<1>. QED
  BY <1>5 DEF x

(* The statements of each transaction, written out.                         *)
LEMMA Tables ==
    /\ Statements("start") =
        <<Lock("deal", "change"), Lock("deal_head", "update"), Read, Lock("product", "key"),
          Lock("policy", "key"), Read>>
    /\ Statements("offer") =
        <<Lock("deal", "update"), Read, Lock("deal_head", "update"), Lock("product", "key")>>
    /\ Statements("permit") =
        <<Lock("deal", "update"), Read, Lock("product", "key"), Lock("policy", "key"),
          Lock("deal_head", "update")>>
    /\ Statements("approve") =
        <<Lock("permit", "change"), Lock("intent_head", "update"), Lock("deal_head", "update"),
          Lock("product", "key")>>
    /\ Statements("claim") =
        <<Lock("permit", "update"), Lock("deal", "update"), Read, Lock("intent_head", "update"),
          Lock("deal_head", "update"), Lock("product", "key")>>
    /\ Statements("complete") =
        <<Lock("permit", "change"), Lock("intent_head", "update"), Lock("deal_head", "update")>>
    /\ Statements("settle") =
        <<Lock("permit", "change"), Lock("intent_head", "update"), Lock("deal", "change"),
          Lock("deal_head", "update")>>
    /\ Statements("save") =
        <<Lock("product", "update"), Read, Lock("version", "update"), Lock("deal", "change"),
          Lock("permit", "change"), Lock("intent_head", "update"), Lock("permit", "key"),
          Lock("deal_head", "update"), Lock("merchant_head", "update")>>
    /\ Statements("disable") =
        <<Read, Lock("policy", "update"), Lock("version", "update"), Lock("product", "key"),
          Lock("deal", "change"), Lock("permit", "change"), Lock("intent_head", "update"),
          Lock("permit", "key"), Lock("deal_head", "update"), Lock("merchant_head", "update")>>
<1>1. Statements("start") = StartStatements
  BY DEF Statements
<1>2. Statements("offer") = OfferStatements
  BY DEF Statements
<1>3. Statements("permit") = PermitStatements
  BY DEF Statements
<1>4. Statements("approve") = ApproveStatements
  BY DEF Statements
<1>5. Statements("claim") = ClaimStatements
  BY DEF Statements
<1>6. Statements("complete") = CompleteStatements
  BY DEF Statements
<1>7. Statements("settle") = SettleStatements
  BY DEF Statements
<1>8. Statements("save") = SaveStatements
  BY DEF Statements
<1>9. Statements("disable") = DisableStatements
  BY DEF Statements
<1>10. StartStatements =
        <<Lock("deal", "change"), Lock("deal_head", "update"), Read, Lock("product", "key"),
          Lock("policy", "key"), Read>>
  <2>1. <<Lock("deal", "change"), Lock("deal_head", "update"), Read>> \o Keys =
        <<Lock("deal", "change"), Lock("deal_head", "update"), Read, Lock("product", "key"),
          Lock("policy", "key")>>
    BY Append32 DEF Keys
  <2>. QED
    BY <2>1, Append51 DEF StartStatements, ChainHead
<1>11. PermitStatements =
        <<Lock("deal", "update"), Read, Lock("product", "key"), Lock("policy", "key"),
          Lock("deal_head", "update")>>
  <2>1. <<Lock("deal", "update"), Read>> \o Keys =
        <<Lock("deal", "update"), Read, Lock("product", "key"), Lock("policy", "key")>>
    BY Append22 DEF Keys
  <2>. QED
    BY <2>1, Append41 DEF PermitStatements, ChainHead
<1>12. SaveStatements =
        <<Lock("product", "update"), Read, Lock("version", "update"), Lock("deal", "change"),
          Lock("permit", "change"), Lock("intent_head", "update"), Lock("permit", "key"),
          Lock("deal_head", "update"), Lock("merchant_head", "update")>>
  BY Append36 DEF SaveStatements, InvalidateStatements, ChainHead
<1>13. DisableStatements =
        <<Read, Lock("policy", "update"), Lock("version", "update"), Lock("product", "key"),
          Lock("deal", "change"), Lock("permit", "change"), Lock("intent_head", "update"),
          Lock("permit", "key"), Lock("deal_head", "update"), Lock("merchant_head", "update")>>
  BY Append46 DEF DisableStatements, InvalidateStatements, ChainHead
<1>. QED
  BY <1>1, <1>2, <1>3, <1>4, <1>5, <1>6, <1>7, <1>8, <1>9, <1>10, <1>11, <1>12, <1>13
  DEF OfferStatements, ApproveStatements, ClaimStatements, CompleteStatements,
      SettleStatements, ChainHead
(* What the properties need to know of the statements' order.               *)
LEMMA StatementFacts ==
    ASSUME NEW kind \in Kinds, NEW i \in 1..Len(Statements(kind)), NEW s,
           s = Statements(kind)[i]
    PROVE  /\ s \in [row : Rows, mode : Modes \cup {"read"}]
           /\ s.mode = "read" => s.row = "policy"
           /\ s.row \in Heads => s.mode = "update"
           /\ s.row = "deal" => s.mode \in {"update", "change"}
           /\ kind \in PolicyChanges =>
                /\ s.row = "deal" <=> i = DealAt(kind)
                /\ s = Lock("permit", "change") <=> i = DealAt(kind) + 1
                /\ s.row = "permit" /\ i # DealAt(kind) + 1 => s.mode = "key"
                /\ s.row \in Heads \cup {"permit"} => i > DealAt(kind)
                /\ s.row = "version" <=> i = 3
           /\ s.row = "version" => kind \in PolicyChanges /\ s.mode = "update"
           /\ s.mode = "read" => i = ReadAt(kind) \/ (kind = "start" /\ i = 6)
           /\ s.row \in {"policy", "version"} /\ s.mode # "read" => i > ReadAt(kind)
           /\ kind = "start" => /\ s.row = "deal" <=> i = 1
                                /\ s.mode = "read" <=> i \in {3, 6}
           /\ kind \in {"offer", "permit"} =>
                /\ s.row = "deal" <=> i = 1
                /\ s.mode = "read" <=> i = 2
           /\ kind \in {"approve", "claim", "complete", "settle"} =>
                s.row = "permit" <=> i = 1
           /\ kind = "claim" => s.mode = "read" <=> i = 3
<1>1. CASE kind = "start"
  <2>1. Statements(kind) =
        <<Lock("deal", "change"), Lock("deal_head", "update"), Read, Lock("product", "key"),
          Lock("policy", "key"), Read>>
    BY <1>1, Tables, Zenon
  <2>2. \/ i = 1 /\ s = Lock("deal", "change")
        \/ i = 2 /\ s = Lock("deal_head", "update")
        \/ i = 3 /\ s = Read
        \/ i = 4 /\ s = Lock("product", "key")
        \/ i = 5 /\ s = Lock("policy", "key")
        \/ i = 6 /\ s = Read
    BY <2>1
  <2>. QED
    BY <1>1, <2>2 DEF Lock, Read, Rows, Heads, Modes, PolicyChanges, DealAt, ReadAt
<1>2. CASE kind = "offer"
  <2>1. Statements(kind) =
        <<Lock("deal", "update"), Read, Lock("deal_head", "update"), Lock("product", "key")>>
    BY <1>2, Tables, Zenon
  <2>2. \/ i = 1 /\ s = Lock("deal", "update")
        \/ i = 2 /\ s = Read
        \/ i = 3 /\ s = Lock("deal_head", "update")
        \/ i = 4 /\ s = Lock("product", "key")
    BY <2>1
  <2>. QED
    BY <1>2, <2>2 DEF Lock, Read, Rows, Heads, Modes, PolicyChanges, DealAt, ReadAt
<1>3. CASE kind = "permit"
  <2>1. Statements(kind) =
        <<Lock("deal", "update"), Read, Lock("product", "key"), Lock("policy", "key"),
          Lock("deal_head", "update")>>
    BY <1>3, Tables, Zenon
  <2>2. \/ i = 1 /\ s = Lock("deal", "update")
        \/ i = 2 /\ s = Read
        \/ i = 3 /\ s = Lock("product", "key")
        \/ i = 4 /\ s = Lock("policy", "key")
        \/ i = 5 /\ s = Lock("deal_head", "update")
    BY <2>1
  <2>. QED
    BY <1>3, <2>2 DEF Lock, Read, Rows, Heads, Modes, PolicyChanges, DealAt, ReadAt
<1>4. CASE kind = "approve"
  <2>1. Statements(kind) =
        <<Lock("permit", "change"), Lock("intent_head", "update"), Lock("deal_head", "update"),
          Lock("product", "key")>>
    BY <1>4, Tables, Zenon
  <2>2. \/ i = 1 /\ s = Lock("permit", "change")
        \/ i = 2 /\ s = Lock("intent_head", "update")
        \/ i = 3 /\ s = Lock("deal_head", "update")
        \/ i = 4 /\ s = Lock("product", "key")
    BY <2>1
  <2>. QED
    BY <1>4, <2>2 DEF Lock, Read, Rows, Heads, Modes, PolicyChanges, DealAt, ReadAt
<1>5. CASE kind = "claim"
  <2>1. Statements(kind) =
        <<Lock("permit", "update"), Lock("deal", "update"), Read, Lock("intent_head", "update"),
          Lock("deal_head", "update"), Lock("product", "key")>>
    BY <1>5, Tables, Zenon
  <2>2. \/ i = 1 /\ s = Lock("permit", "update")
        \/ i = 2 /\ s = Lock("deal", "update")
        \/ i = 3 /\ s = Read
        \/ i = 4 /\ s = Lock("intent_head", "update")
        \/ i = 5 /\ s = Lock("deal_head", "update")
        \/ i = 6 /\ s = Lock("product", "key")
    BY <2>1
  <2>. QED
    BY <1>5, <2>2 DEF Lock, Read, Rows, Heads, Modes, PolicyChanges, DealAt, ReadAt
<1>6. CASE kind = "complete"
  <2>1. Statements(kind) =
        <<Lock("permit", "change"), Lock("intent_head", "update"), Lock("deal_head", "update")>>
    BY <1>6, Tables, Zenon
  <2>2. \/ i = 1 /\ s = Lock("permit", "change")
        \/ i = 2 /\ s = Lock("intent_head", "update")
        \/ i = 3 /\ s = Lock("deal_head", "update")
    BY <2>1
  <2>. QED
    BY <1>6, <2>2 DEF Lock, Read, Rows, Heads, Modes, PolicyChanges, DealAt, ReadAt
<1>7. CASE kind = "settle"
  <2>1. Statements(kind) =
        <<Lock("permit", "change"), Lock("intent_head", "update"), Lock("deal", "change"),
          Lock("deal_head", "update")>>
    BY <1>7, Tables, Zenon
  <2>2. \/ i = 1 /\ s = Lock("permit", "change")
        \/ i = 2 /\ s = Lock("intent_head", "update")
        \/ i = 3 /\ s = Lock("deal", "change")
        \/ i = 4 /\ s = Lock("deal_head", "update")
    BY <2>1
  <2>. QED
    BY <1>7, <2>2 DEF Lock, Read, Rows, Heads, Modes, PolicyChanges, DealAt, ReadAt
<1>8. CASE kind = "save"
  <2>1. Statements(kind) =
        <<Lock("product", "update"), Read, Lock("version", "update"), Lock("deal", "change"),
          Lock("permit", "change"), Lock("intent_head", "update"), Lock("permit", "key"),
          Lock("deal_head", "update"), Lock("merchant_head", "update")>>
    BY <1>8, Tables, Zenon
  <2>2. \/ i = 1 /\ s = Lock("product", "update")
        \/ i = 2 /\ s = Read
        \/ i = 3 /\ s = Lock("version", "update")
        \/ i = 4 /\ s = Lock("deal", "change")
        \/ i = 5 /\ s = Lock("permit", "change")
        \/ i = 6 /\ s = Lock("intent_head", "update")
        \/ i = 7 /\ s = Lock("permit", "key")
        \/ i = 8 /\ s = Lock("deal_head", "update")
        \/ i = 9 /\ s = Lock("merchant_head", "update")
    BY <2>1
  <2>. QED
    BY <1>8, <2>2 DEF Lock, Read, Rows, Heads, Modes, PolicyChanges, DealAt, ReadAt
<1>9. CASE kind = "disable"
  <2>1. Statements(kind) =
        <<Read, Lock("policy", "update"), Lock("version", "update"), Lock("product", "key"),
          Lock("deal", "change"), Lock("permit", "change"), Lock("intent_head", "update"),
          Lock("permit", "key"), Lock("deal_head", "update"), Lock("merchant_head", "update")>>
    BY <1>9, Tables, Zenon
  <2>2. \/ i = 1 /\ s = Read
        \/ i = 2 /\ s = Lock("policy", "update")
        \/ i = 3 /\ s = Lock("version", "update")
        \/ i = 4 /\ s = Lock("product", "key")
        \/ i = 5 /\ s = Lock("deal", "change")
        \/ i = 6 /\ s = Lock("permit", "change")
        \/ i = 7 /\ s = Lock("intent_head", "update")
        \/ i = 8 /\ s = Lock("permit", "key")
        \/ i = 9 /\ s = Lock("deal_head", "update")
        \/ i = 10 /\ s = Lock("merchant_head", "update")
    BY <2>1
  <2>. QED
    BY <1>9, <2>2 DEF Lock, Read, Rows, Heads, Modes, PolicyChanges, DealAt, ReadAt
<1>. QED
  BY <1>1, <1>2, <1>3, <1>4, <1>5, <1>6, <1>7, <1>8, <1>9 DEF Kinds

(* How many they are.                                                       *)
LEMMA Lengths ==
    ASSUME NEW kind \in Kinds
    PROVE  /\ Len(Statements(kind)) \in 3..10
           /\ kind = "start" => Len(Statements(kind)) = 6
           /\ kind = "offer" => Len(Statements(kind)) = 4
           /\ kind = "settle" => Len(Statements(kind)) = 4
           /\ kind = "approve" => Len(Statements(kind)) = 4
           /\ kind = "complete" => Len(Statements(kind)) = 3
           /\ kind = "permit" => Len(Statements(kind)) = 5
           /\ kind = "claim" => Len(Statements(kind)) = 6
           /\ kind = "save" => Len(Statements(kind)) = 9
           /\ kind = "disable" => Len(Statements(kind)) = 10
  BY Tables DEF Kinds
-----------------------------------------------------------------------------
(* What each step does to the transaction it is about.                      *)
TxnType == [kind : Kinds \cup {"none"}, at : Nat, seen : Nat, ok : BOOLEAN,
            held : SUBSET [row : Rows, mode : Modes], top : [Heads -> Nat]]

(* A transaction that is at a statement, and the statement.                 *)
LEMMA AtStatement ==
    ASSUME RowLocksTypeOK, Placed, NEW t \in Txns, InProgress(t), ~AtEnd(t)
    PROVE  /\ txn[t].kind \in Kinds
           /\ txn[t].at \in 1..Len(Statements(txn[t].kind))
           /\ Statement(t) = Statements(txn[t].kind)[txn[t].at]
           /\ Statement(t) \in [row : Rows, mode : Modes \cup {"read"}]
<1>1. txn[t] \in TxnType
  BY DEF RowLocksTypeOK, TxnType
<1>2. txn[t].kind \in Kinds
  BY <1>1 DEF InProgress, TxnType
<1>3. txn[t].at \in 1..Len(Statements(txn[t].kind))
  BY <1>2, Lengths DEF Placed, AtEnd
<1>. QED
  BY <1>2, <1>3, StatementFacts DEF Statement

(* A transaction that ends.                                                 *)
LEMMA EndsEffect ==
    ASSUME RowLocksTypeOK, NEW t \in Txns, Ends(t)
    PROVE  /\ txn'[t] = NoTxn /\ \A u \in Txns \ {t} : txn'[u] = txn[u]
           /\ txn' \in [Txns -> TxnType]
           /\ NoTxn \in TxnType
           /\ NoTxn.kind = "none" /\ NoTxn.held = {} /\ NoTxn.ok = FALSE
<1>1. NoTxn \in TxnType
  BY DEF NoTxn, TxnType
<1>2. txn \in [Txns -> TxnType]
  BY DEF RowLocksTypeOK, TxnType
<1>. QED
  BY <1>1, <1>2 DEF Ends, NoTxn

(* A transaction that begins.                                               *)
LEMMA BeginEffect ==
    ASSUME RowLocksTypeOK, NEW t \in Txns, NEW kind \in Kinds, Begin(t, kind)
    PROVE  /\ \A u \in Txns \ {t} : txn'[u] = txn[u]
           /\ txn' \in [Txns -> TxnType]
           /\ txn'[t].kind = kind /\ txn'[t].at = 1 /\ txn'[t].held = {} /\ ~txn'[t].ok
<1>1. [NoTxn EXCEPT !.kind = kind, !.at = 1] \in TxnType
  BY DEF NoTxn, TxnType
<1>2. txn \in [Txns -> TxnType]
  BY DEF RowLocksTypeOK, TxnType
<1>. QED
  BY <1>1, <1>2 DEF Begin, NoTxn

(* A transaction that passes a statement without a lock.                    *)
LEMMA SkipEffect ==
    ASSUME RowLocksTypeOK, Placed, NEW t \in Txns, Skip(t)
    PROVE  /\ \A u \in Txns \ {t} : txn'[u] = txn[u]
           /\ txn' \in [Txns -> TxnType]
           /\ txn'[t].kind = txn[t].kind /\ txn'[t].seen = txn[t].seen
           /\ txn'[t].ok = txn[t].ok /\ txn'[t].held = txn[t].held
           /\ txn'[t].top = txn[t].top /\ txn'[t].at = txn[t].at + 1
<1>1. txn \in [Txns -> TxnType]
  BY DEF RowLocksTypeOK, TxnType
<1>2. txn' = [txn EXCEPT ![t] = [txn[t] EXCEPT !.at = txn[t].at + 1]]
  BY DEF Skip
<1>. DEFINE next == [txn[t] EXCEPT !.at = txn[t].at + 1]
<1>3. next \in TxnType /\ next.kind = txn[t].kind /\ next.seen = txn[t].seen
      /\ next.ok = txn[t].ok /\ next.held = txn[t].held /\ next.top = txn[t].top
      /\ next.at = txn[t].at + 1
  BY <1>1 DEF TxnType
<1>4. txn' = [txn EXCEPT ![t] = next]
  BY <1>2
<1>. HIDE DEF next
<1>. QED
  BY <1>1, <1>3, <1>4

(* A transaction that takes the lock its statement asks for.                *)
LEMMA TakeLockEffect ==
    ASSUME RowLocksTypeOK, Placed, NEW t \in Txns, TakeLock(t)
    PROVE  /\ \A u \in Txns \ {t} : txn'[u] = txn[u]
           /\ txn' \in [Txns -> TxnType]
           /\ txn'[t].kind = txn[t].kind /\ txn'[t].seen = txn[t].seen
           /\ txn'[t].ok = txn[t].ok /\ txn'[t].held = txn[t].held \cup {Statement(t)}
           /\ txn'[t].at = txn[t].at + 1
           /\ \A h \in Heads : txn'[t].top[h] =
                IF h = Statement(t).row THEN Len(chain[h]) ELSE txn[t].top[h]
<1>. DEFINE s == Statement(t)
            tops == IF s.row \in Heads
                    THEN [txn[t].top EXCEPT ![s.row] = Len(chain[s.row])] ELSE txn[t].top
            next == [kind |-> txn[t].kind, at |-> txn[t].at + 1, seen |-> txn[t].seen,
                     ok |-> txn[t].ok, held |-> txn[t].held \cup {s}, top |-> tops]
<1>1. txn \in [Txns -> TxnType]
  BY DEF RowLocksTypeOK, TxnType
<1>2. txn' = [txn EXCEPT ![t].at = txn[t].at + 1, ![t].held = txn[t].held \cup {s},
                         ![t].top = tops]
  BY DEF TakeLock
<1>3. s \in [row : Rows, mode : Modes]
  BY AtStatement DEF TakeLock, AtLock
<1>4. tops \in [Heads -> Nat]
      /\ \A h \in Heads : tops[h] = IF h = s.row THEN Len(chain[h]) ELSE txn[t].top[h]
  <2>1. \A h \in Heads : Len(chain[h]) \in Nat
    BY DEF RowLocksTypeOK
  <2>2. txn[t].top \in [Heads -> Nat]
    BY <1>1 DEF TxnType
  <2>. HIDE DEF s
  <2>. QED
    BY <2>1, <2>2
<1>. HIDE DEF tops, s
<1>5. next \in TxnType
  <2>1. txn[t].held \cup {s} \in SUBSET [row : Rows, mode : Modes]
    BY <1>1, <1>3 DEF TxnType
  <2>. QED
    BY <2>1, <1>1, <1>4 DEF TxnType
<1>6. txn' = [txn EXCEPT ![t] = next]
  <2>1. txn[t] \in TxnType
    BY <1>1
  <2>2. PICK x \in TxnType : x = txn[t]
    BY <2>1
  <2>3. PICK a, b : a = x.at + 1 /\ b = x.held \cup {s}
    OBVIOUS
  <2>4. PICK y : y = [x EXCEPT !.at = a, !.held = b, !.top = tops]
    OBVIOUS
  <2>5. y = [kind |-> x.kind, at |-> a, seen |-> x.seen, ok |-> x.ok, held |-> b,
             top |-> tops]
    BY <2>2, <2>4, Zenon DEF TxnType
  <2>6. y = next
    BY <2>2, <2>3, <2>5
  <2>7. txn' = [txn EXCEPT ![t] = y]
    BY <1>2, <2>2, <2>3, <2>4, <1>1
  <2>. QED
    BY <2>6, <2>7
<1>. QED
  BY <1>1, <1>4, <1>5, <1>6 DEF s

(* A transaction that reads the policy and goes on.                         *)
LEMMA ReadEffect ==
    ASSUME RowLocksTypeOK, Placed, NEW t \in Txns, ReadPolicy(t), PolicyServes(t)
    PROVE  /\ \A u \in Txns \ {t} : txn'[u] = txn[u]
           /\ txn' \in [Txns -> TxnType]
           /\ txn'[t].kind = txn[t].kind /\ txn'[t].seen = Len(policies)
           /\ txn'[t].held = txn[t].held /\ txn'[t].top = txn[t].top
           /\ txn'[t].at = txn[t].at + 1
           /\ txn'[t].ok <=> txn[t].kind = "claim" /\ permitRow = "confirmed"
                             /\ ~dealRow.expired /\ Len(policies) = dealRow.policy
<1>. DEFINE fine == txn[t].kind = "claim" /\ permitRow = "confirmed"
                    /\ ~dealRow.expired /\ Len(policies) = dealRow.policy
            next == [kind |-> txn[t].kind, at |-> txn[t].at + 1, seen |-> Len(policies),
                     ok |-> fine, held |-> txn[t].held, top |-> txn[t].top]
<1>1. txn \in [Txns -> TxnType]
  BY DEF RowLocksTypeOK, TxnType
<1>2. txn' = [txn EXCEPT ![t].at = txn[t].at + 1, ![t].seen = Len(policies), ![t].ok = fine]
  BY DEF ReadPolicy
<1>3. fine \in BOOLEAN
  BY DEF RowLocksTypeOK
<1>4. Len(policies) \in Nat
  BY DEF RowLocksTypeOK
<1>. HIDE DEF fine
<1>5. next \in TxnType
  BY <1>1, <1>3, <1>4 DEF TxnType
<1>6. txn' = [txn EXCEPT ![t] = next]
  <2>1. txn[t] \in TxnType
    BY <1>1
  <2>2. PICK x \in TxnType : x = txn[t]
    BY <2>1
  <2>3. PICK a, b : a = x.at + 1 /\ b = Len(policies)
    OBVIOUS
  <2>4. PICK y : y = [x EXCEPT !.at = a, !.seen = b, !.ok = fine]
    OBVIOUS
  <2>5. y = [kind |-> x.kind, at |-> a, seen |-> b, ok |-> fine, held |-> x.held,
             top |-> x.top]
    BY <2>2, <2>4, Zenon DEF TxnType
  <2>6. y = next
    BY <2>2, <2>3, <2>5
  <2>7. txn' = [txn EXCEPT ![t] = y]
    BY <1>2, <2>2, <2>3, <2>4, <1>1
  <2>. QED
    BY <2>6, <2>7
<1>. QED
  BY <1>1, <1>5, <1>6 DEF fine
-----------------------------------------------------------------------------
(* Every step keeps the types.                                              *)
LEMMA DealAfterTyped ==
    ASSUME RowLocksTypeOK, NEW t \in Txns
    PROVE  /\ DealAfter(t) \subseteq [status : Open \cup {"none", "closed"}, policy : Nat,
                                      expired : BOOLEAN]
           /\ PermitAfter(t) \in PermitRows
           /\ PoliciesAfter(t) \in Seq(BOOLEAN)
<1>1. txn[t].seen \in Nat
  BY DEF RowLocksTypeOK
<1>2. PermitAfter(t) \in PermitRows
  BY DEF PermitAfter, PermitRows, Claimed, RowLocksTypeOK
<1>3. PoliciesAfter(t) \in Seq(BOOLEAN)
  <2>1. policies \in Seq(BOOLEAN)
    BY DEF RowLocksTypeOK
  <2>2. PICK saves \in BOOLEAN : saves = (txn[t].kind = "save")
    OBVIOUS
  <2>3. Append(policies, saves) \in Seq(BOOLEAN)
    BY <2>1
  <2>. QED
    BY <2>1, <2>2, <2>3, Zenon DEF PoliciesAfter
<1>4. dealRow \in [status : Open \cup {"none", "closed"}, policy : Nat, expired : BOOLEAN]
  BY DEF RowLocksTypeOK
<1>5. {"negotiating", "accepted", "permit_created"} \subseteq Open
  BY DEF Open
<1>6. \A s \in Open \cup {"none", "closed"} :
        /\ [dealRow EXCEPT !.status = s] \in
                [status : Open \cup {"none", "closed"}, policy : Nat, expired : BOOLEAN]
        /\ [dealRow EXCEPT !.status = s, !.policy = txn[t].seen] \in
                [status : Open \cup {"none", "closed"}, policy : Nat, expired : BOOLEAN]
  BY <1>1, <1>4
<1>7. \A x \in DealAfter(t) :
        \/ x = dealRow
        \/ \E s \in Open \cup {"none", "closed"} :
            \/ x = [dealRow EXCEPT !.status = s]
            \/ x = [dealRow EXCEPT !.status = s, !.policy = txn[t].seen]
  BY <1>5 DEF DealAfter
<1>8. \A x \in DealAfter(t) :
        x \in [status : Open \cup {"none", "closed"}, policy : Nat, expired : BOOLEAN]
  <2>1. SUFFICES ASSUME NEW x \in DealAfter(t), x # dealRow
                 PROVE  x \in [status : Open \cup {"none", "closed"}, policy : Nat,
                               expired : BOOLEAN]
    BY <1>4
  <2>2. PICK s \in Open \cup {"none", "closed"} :
            \/ x = [dealRow EXCEPT !.status = s]
            \/ x = [dealRow EXCEPT !.status = s, !.policy = txn[t].seen]
    BY <1>7, <2>1
  <2>. QED
    BY <1>6, <2>2
<1>. QED
  BY <1>2, <1>3, <1>8

(* Rows, locks and chains stay well typed.                                  *)
LEMMA TypeStep ==
    ASSUME RowLocksTypeOK, Placed, [RowLocksNext]_lockVars
    PROVE  RowLocksTypeOK'
<1>. USE DEF NoEffect
<1>1. ASSUME NEW t \in Txns, NEW kind \in Kinds, Begin(t, kind) PROVE RowLocksTypeOK'
  BY <1>1, BeginEffect DEF Begin, RowLocksTypeOK, TxnType
<1>2. ASSUME NEW t \in Txns, Skip(t) PROVE RowLocksTypeOK'
  BY <1>2, SkipEffect DEF Skip, RowLocksTypeOK, TxnType
<1>3. ASSUME NEW t \in Txns, TakeLock(t) PROVE RowLocksTypeOK'
  BY <1>3, TakeLockEffect DEF TakeLock, RowLocksTypeOK, TxnType
<1>4. ASSUME NEW t \in Txns, Ends(t), NoEffect PROVE RowLocksTypeOK'
  BY <1>4, EndsEffect DEF RowLocksTypeOK, TxnType
<1>5. ASSUME NEW t \in Txns, ReadPolicy(t) PROVE RowLocksTypeOK'
  <2>1. CASE PolicyServes(t)
    BY <1>5, <2>1, ReadEffect DEF ReadPolicy, RowLocksTypeOK, TxnType
  <2>2. CASE ~PolicyServes(t)
    BY <1>5, <2>2, <1>4 DEF ReadPolicy
  <2>. QED
    BY <2>1, <2>2
<1>6. ASSUME NEW t \in Txns, Commit(t) PROVE RowLocksTypeOK'
  <2>1. txn' \in [Txns -> TxnType]
    BY <1>6, EndsEffect DEF Commit
  <2>2. chain' \in [Heads -> Seq(Nat)]
    <3>1. \A h \in Heads : Append(chain[h], txn[t].top[h] + 1) \in Seq(Nat)
      BY DEF RowLocksTypeOK
    <3>. QED
      BY <1>6, <3>1 DEF Commit, RowLocksTypeOK
  <2>. QED
    BY <1>6, <2>1, <2>2, DealAfterTyped DEF Commit, RowLocksTypeOK, TxnType
<1>7. ASSUME DealRunsOut PROVE RowLocksTypeOK'
  BY <1>7 DEF DealRunsOut, RowLocksTypeOK
<1>8. ASSUME UNCHANGED lockVars PROVE RowLocksTypeOK'
  BY <1>8 DEF lockVars, RowLocksTypeOK
<1>. QED
  BY <1>1, <1>2, <1>3, <1>4, <1>5, <1>6, <1>7, <1>8 DEF RowLocksNext, Stop, Rollback
-----------------------------------------------------------------------------
(* The steps, with those that only end a transaction put together.          *)
LEMMA StepCases ==
    ASSUME [RowLocksNext]_lockVars
    PROVE  \/ \E t \in Txns, kind \in Kinds : Begin(t, kind)
           \/ \E t \in Txns : Skip(t) \/ TakeLock(t) \/ Commit(t)
           \/ \E t \in Txns : ReadPolicy(t) /\ PolicyServes(t)
           \/ \E t \in Txns : Ends(t) /\ NoEffect
           \/ DealRunsOut
           \/ UNCHANGED lockVars
<1>1. ASSUME NEW t \in Txns, Stop(t) \/ Rollback(t) PROVE Ends(t) /\ NoEffect
  BY <1>1 DEF Stop, Rollback
<1>2. ASSUME NEW t \in Txns, ReadPolicy(t), ~PolicyServes(t) PROVE Ends(t) /\ NoEffect
  BY <1>2 DEF ReadPolicy
<1>. QED
  BY <1>1, <1>2 DEF RowLocksNext

(* A step of one transaction leaves the others where they are.              *)
LEMMA PlacedStep ==
    ASSUME RowLocksTypeOK, Placed, [RowLocksNext]_lockVars
    PROVE  Placed'
<1>. USE DEF NoEffect
<1>1. ASSUME NEW t \in Txns, NEW kind \in Kinds, Begin(t, kind) PROVE Placed'
  <2>1. Len(Statements(kind)) \in Nat /\ kind # "none"
    BY Lengths DEF Kinds
  <2>. QED
    BY <1>1, <2>1, BeginEffect DEF Placed, InProgress
<1>2. ASSUME NEW t \in Txns, AtLock(t) \/ (InProgress(t) /\ ~AtEnd(t)),
             \A u \in Txns \ {t} : txn'[u] = txn[u],
             txn'[t].kind = txn[t].kind, txn'[t].at = txn[t].at + 1
      PROVE  Placed'
  <2>1. txn[t].kind \in Kinds /\ txn[t].at \in 1..Len(Statements(txn[t].kind))
    BY <1>2, AtStatement DEF AtLock
  <2>2. Len(Statements(txn[t].kind)) \in Nat
    BY <2>1, Lengths
  <2>3. InProgress(t) /\ InProgress(t)'
    BY <1>2 DEF InProgress, AtLock
  <2>4. txn'[t].at \in 1..(Len(Statements(txn[t].kind)) + 1)
    BY <1>2, <2>1, <2>2
  <2>. QED
    BY <1>2, <2>3, <2>4 DEF Placed, InProgress
<1>3. ASSUME NEW t \in Txns, Skip(t) PROVE Placed'
  BY <1>2, <1>3, SkipEffect DEF Skip
<1>4. ASSUME NEW t \in Txns, TakeLock(t) PROVE Placed'
  BY <1>2, <1>4, TakeLockEffect DEF TakeLock
<1>5. ASSUME NEW t \in Txns, Ends(t) PROVE Placed'
  <2>1. txn'[t] = NoTxn /\ txn'[t].kind = "none" /\ \A u \in Txns \ {t} : txn'[u] = txn[u]
    BY <1>5, EndsEffect
  <2>. QED
    BY <2>1 DEF Placed, InProgress
<1>6. ASSUME NEW t \in Txns, ReadPolicy(t), PolicyServes(t) PROVE Placed'
  BY <1>2, <1>6, ReadEffect DEF ReadPolicy
<1>7. ASSUME txn' = txn PROVE Placed'
  BY <1>7 DEF Placed, InProgress
<1>. QED
  BY <1>1, <1>3, <1>4, <1>5, <1>6, <1>7, StepCases DEF Commit, DealRunsOut, lockVars

(* Which locks a transaction holds follows from where it is.                *)
LEMMA HeldStep ==
    ASSUME RowLocksTypeOK, Placed, HeldPassed, PassedHeld, [RowLocksNext]_lockVars
    PROVE  HeldPassed' /\ PassedHeld'
<1>. USE DEF NoEffect
<1>1. ASSUME NEW t \in Txns, NEW kind \in Kinds, Begin(t, kind)
      PROVE  HeldPassed' /\ PassedHeld'
  <2>1. Len(Statements(kind)) \in Nat
    BY Lengths
  <2>. QED
    BY <1>1, <2>1, BeginEffect DEF HeldPassed, PassedHeld, InProgress
<1>2. ASSUME NEW t \in Txns, InProgress(t), ~AtEnd(t),
             \/ txn'[t].held = txn[t].held
             \/ /\ txn'[t].held = txn[t].held \cup {Statement(t)}
                /\ Statement(t).mode # "read",
             \A u \in Txns \ {t} : txn'[u] = txn[u],
             txn'[t].kind = txn[t].kind, txn'[t].at = txn[t].at + 1,
             \/ Statement(t) \in txn'[t].held
             \/ Statement(t).mode = "read"
             \/ Skippable(txn[t].kind, Statement(t).row)
      PROVE  HeldPassed' /\ PassedHeld'
  <2>. DEFINE kind == txn[t].kind
              all == Statements(kind)
              at == txn[t].at
  <2>1. kind \in Kinds /\ at \in 1..Len(all) /\ Statement(t) = all[at] /\ Len(all) \in Nat
    BY <1>2, AtStatement, Lengths
  <2>2. HeldPassed'
    <3>1. SUFFICES ASSUME NEW u \in Txns, NEW l \in txn'[u].held
                   PROVE  \E i \in 1..Len(Statements(txn'[u].kind)) :
                            /\ i < txn'[u].at
                            /\ l = Statements(txn'[u].kind)[i] /\ l.mode # "read"
      BY DEF HeldPassed
    <3>2. CASE u # t
      BY <3>1, <3>2, <1>2 DEF HeldPassed
    <3>3. CASE u = t /\ l \in txn[t].held
      <4>1. PICK i \in 1..Len(all) : i < at /\ l = all[i] /\ l.mode # "read"
        BY <3>3 DEF HeldPassed
      <4>. QED
        BY <4>1, <3>3, <1>2, <2>1
    <3>4. CASE u = t /\ l = Statement(t) /\ l.mode # "read"
      BY <3>4, <1>2, <2>1
    <3>. QED
      BY <3>1, <3>2, <3>3, <3>4, <1>2
  <2>3. PassedHeld'
    <3>1. SUFFICES ASSUME NEW u \in Txns, InProgress(u)',
                          NEW i \in 1..Len(Statements(txn'[u].kind)), i < txn'[u].at,
                          Statements(txn'[u].kind)[i].mode # "read",
                          ~Skippable(txn'[u].kind, Statements(txn'[u].kind)[i].row)
                   PROVE  Statements(txn'[u].kind)[i] \in txn'[u].held
      BY DEF PassedHeld
    <3>2. CASE u # t
      BY <3>1, <3>2, <1>2 DEF PassedHeld, InProgress
    <3>3. CASE u = t /\ i < at
      BY <3>1, <3>3, <1>2 DEF PassedHeld
    <3>4. CASE u = t /\ i = at
      BY <3>1, <3>4, <1>2, <2>1
    <3>. QED
      BY <3>1, <3>2, <3>3, <3>4, <1>2, <2>1
  <2>. QED
    BY <2>2, <2>3
<1>3. ASSUME NEW t \in Txns, Skip(t) PROVE HeldPassed' /\ PassedHeld'
  <2>1. Skippable(txn[t].kind, Statement(t).row) /\ InProgress(t) /\ ~AtEnd(t)
    BY <1>3 DEF Skip, Skipped, Skippable, AtLock, Lock
  <2>. QED
    BY <1>2, <1>3, <2>1, SkipEffect
<1>4. ASSUME NEW t \in Txns, TakeLock(t) PROVE HeldPassed' /\ PassedHeld'
  <2>1. InProgress(t) /\ ~AtEnd(t) /\ Statement(t).mode # "read"
    BY <1>4 DEF TakeLock, AtLock
  <2>. QED
    BY <1>2, <1>4, <2>1, TakeLockEffect
<1>5. ASSUME NEW t \in Txns, Ends(t) PROVE HeldPassed' /\ PassedHeld'
  <2>1. /\ txn'[t].held = {} /\ txn'[t].kind = "none"
        /\ \A u \in Txns \ {t} : txn'[u] = txn[u]
    BY <1>5, EndsEffect
  <2>. QED
    BY <2>1 DEF HeldPassed, PassedHeld, InProgress
<1>6. ASSUME NEW t \in Txns, ReadPolicy(t), PolicyServes(t) PROVE HeldPassed' /\ PassedHeld'
  <2>1. Statement(t).mode = "read" /\ InProgress(t) /\ ~AtEnd(t)
    BY <1>6 DEF ReadPolicy, AtLock
  <2>. QED
    BY <1>2, <1>6, <2>1, ReadEffect
<1>7. ASSUME txn' = txn PROVE HeldPassed' /\ PassedHeld'
  BY <1>7 DEF HeldPassed, PassedHeld, InProgress
<1>. QED
  BY <1>1, <1>3, <1>4, <1>5, <1>6, <1>7, StepCases DEF Commit, DealRunsOut, lockVars
-----------------------------------------------------------------------------
(* What is known of a lock that is held.                                    *)
LEMMA HeldFacts ==
    ASSUME RowLocksTypeOK, Placed, HeldPassed, NEW t \in Txns, NEW l \in txn[t].held
    PROVE  /\ InProgress(t) /\ txn[t].kind \in Kinds
           /\ l \in [row : Rows, mode : Modes]
           /\ l.row \in Heads => l.mode = "update"
           /\ l.row = "deal" => l.mode \in {"update", "change"}
           /\ l.row = "version" => l.mode = "update" /\ txn[t].kind \in PolicyChanges
           /\ l.row \in {"policy", "version"} => txn[t].at > ReadAt(txn[t].kind) + 1
<1>1. InProgress(t) /\ txn[t].kind \in Kinds
  <2>1. txn[t].held # {}
    OBVIOUS
  <2>2. NoTxn.held = {}
    BY DEF NoTxn
  <2>. QED
    BY <2>1, <2>2 DEF Placed, InProgress, RowLocksTypeOK
<1>2. l \in [row : Rows, mode : Modes]
  BY DEF RowLocksTypeOK
<1>3. PICK i \in 1..Len(Statements(txn[t].kind)) :
        i < txn[t].at /\ l = Statements(txn[t].kind)[i] /\ l.mode # "read"
  BY DEF HeldPassed
<1>4. txn[t].at \in Nat /\ ReadAt(txn[t].kind) \in Nat
  BY DEF RowLocksTypeOK, ReadAt
<1>5. Len(Statements(txn[t].kind)) \in Nat
  BY <1>1, Lengths
<1>. QED
  BY <1>1, <1>2, <1>3, <1>4, <1>5, StatementFacts

(* The head of a chain, and the deal, is never locked twice.                *)
LEMMA Alone ==
    ASSUME RowLocksTypeOK, Placed, HeldPassed, Exclusive, NEW t \in Txns, NEW u \in Txns,
           NEW row \in Heads \cup {"deal"}, Holds(t, row), Holds(u, row)
    PROVE  t = u
<1>1. PICK l \in txn[t].held : l.row = row
  BY DEF Holds
<1>2. PICK m \in txn[u].held : m.row = row
  BY DEF Holds
<1>3. Conflict(l.mode, m.mode)
  BY <1>1, <1>2, HeldFacts DEF Conflict, Heads
<1>4. row \notin {"policy", "version"}
  BY DEF Heads
<1>. QED
  BY <1>1, <1>2, <1>3, <1>4 DEF Exclusive

(* No step lets two transactions hold locks that conflict.                  *)
LEMMA ExclusiveStep ==
    ASSUME RowLocksTypeOK, Placed, HeldPassed, Exclusive, PoliciesSeen, [RowLocksNext]_lockVars
    PROVE  Exclusive'
<1>1. ASSUME NEW t \in Txns, NEW u \in Txns, TakeLock(t), u # t, NEW l \in txn[u].held,
             l.row = Statement(t).row,
             Conflict(l.mode, Statement(t).mode) \/ Conflict(Statement(t).mode, l.mode)
      PROVE  l.row \in {"policy", "version"} /\ txn[t].seen # txn[u].seen
  <2>1. AtLock(t) /\ ~Skipped(t) /\ ~Blocks(u, t)
    BY <1>1 DEF TakeLock
  <2>2. InProgress(u)
    BY HeldFacts
  <2>3. Conflict(l.mode, Statement(t).mode)
    BY <1>1 DEF Conflict
  <2>. QED
    BY <1>1, <2>1, <2>2, <2>3 DEF Blocks
<1>2. ASSUME NEW t \in Txns, \A u \in Txns \ {t} : txn'[u] = txn[u],
             \/ txn'[t].held = {}
             \/ txn'[t].held = txn[t].held /\ txn'[t].seen = txn[t].seen
             \/ /\ txn'[t].held = txn[t].held
                /\ \A l \in txn[t].held : l.row \notin {"policy", "version"}
      PROVE  Exclusive'
  BY <1>2 DEF Exclusive
<1>3. ASSUME NEW t \in Txns, TakeLock(t) PROVE Exclusive'
  <2>1. SUFFICES ASSUME NEW v \in Txns, NEW u \in Txns, v # u,
                        NEW l \in txn'[v].held, NEW m \in txn'[u].held,
                        l.row = m.row, Conflict(l.mode, m.mode)
                 PROVE  l.row \in {"policy", "version"} /\ txn'[v].seen # txn'[u].seen
    BY DEF Exclusive
  <2>2. /\ txn'[t].held = txn[t].held \cup {Statement(t)} /\ txn'[t].seen = txn[t].seen
        /\ \A w \in Txns \ {t} : txn'[w] = txn[w]
    BY <1>3, TakeLockEffect
  <2>3. txn'[v].seen = txn[v].seen /\ txn'[u].seen = txn[u].seen
    BY <2>2
  <2>4. CASE l \in txn[v].held /\ m \in txn[u].held
    BY <2>1, <2>3, <2>4 DEF Exclusive
  <2>5. CASE v = t /\ l = Statement(t)
    <3>1. m \in txn[u].held
      BY <2>1, <2>2, <2>5
    <3>. QED
      BY <1>1, <1>3, <2>1, <2>3, <2>5, <3>1
  <2>6. CASE u = t /\ m = Statement(t)
    <3>1. l \in txn[v].held
      BY <2>1, <2>2, <2>6
    <3>. QED
      BY <1>1, <1>3, <2>1, <2>3, <2>6, <3>1
  <2>. QED
    BY <2>2, <2>4, <2>5, <2>6
<1>4. ASSUME NEW t \in Txns, ReadPolicy(t), PolicyServes(t) PROVE Exclusive'
  <2>1. /\ txn'[t].held = txn[t].held /\ txn'[t].seen = Len(policies)
        /\ \A w \in Txns \ {t} : txn'[w] = txn[w]
    BY <1>4, ReadEffect
  <2>2. ASSUME NEW l \in txn[t].held, l.row \in {"policy", "version"}
        PROVE  txn[t].seen = Len(policies)
    <3>1. Statement(t).mode = "read" /\ InProgress(t) /\ ~AtEnd(t)
      BY <1>4 DEF ReadPolicy, AtLock
    <3>2. /\ txn[t].kind \in Kinds /\ txn[t].at \in 1..Len(Statements(txn[t].kind))
          /\ Statement(t) = Statements(txn[t].kind)[txn[t].at]
      BY <3>1, AtStatement
    <3>3. txn[t].at > ReadAt(txn[t].kind) + 1
      BY <2>2, HeldFacts
    <3>4. txn[t].kind = "start" /\ txn[t].at = 6
      <4>1. txn[t].at = ReadAt(txn[t].kind) \/ (txn[t].kind = "start" /\ txn[t].at = 6)
        BY <3>1, <3>2, StatementFacts
      <4>2. txn[t].at \in Nat /\ ReadAt(txn[t].kind) \in Nat
        BY DEF RowLocksTypeOK, ReadAt
      <4>. QED
        BY <3>3, <4>1, <4>2
    <3>5. txn[t].seen # 0
      <4>1. txn[t].seen \in 1..Len(policies)
        BY <3>4 DEF PoliciesSeen
      <4>. QED
        BY <4>1
    <3>. QED
      BY <1>4, <3>4, <3>5 DEF PolicyServes
  <2>. QED
    BY <1>2, <2>1, <2>2
<1>5. ASSUME NEW t \in Txns, Ends(t) PROVE Exclusive'
  <2>1. txn'[t].held = {} /\ \A u \in Txns \ {t} : txn'[u] = txn[u]
    BY <1>5, EndsEffect
  <2>. QED
    BY <1>2, <2>1
<1>6. ASSUME NEW t \in Txns, NEW kind \in Kinds, Begin(t, kind) PROVE Exclusive'
  <2>1. txn'[t].held = {} /\ \A u \in Txns \ {t} : txn'[u] = txn[u]
    BY <1>6, BeginEffect
  <2>. QED
    BY <1>2, <2>1
<1>7. ASSUME NEW t \in Txns, Skip(t) PROVE Exclusive'
  <2>1. /\ txn'[t].held = txn[t].held /\ txn'[t].seen = txn[t].seen
        /\ \A u \in Txns \ {t} : txn'[u] = txn[u]
    BY <1>7, SkipEffect
  <2>. QED
    BY <1>2, <2>1
<1>8. ASSUME txn' = txn PROVE Exclusive'
  BY <1>8 DEF Exclusive
<1>. QED
  BY <1>3, <1>4, <1>5, <1>6, <1>7, <1>8, StepCases DEF Commit, DealRunsOut, lockVars
-----------------------------------------------------------------------------
(* The audit chains: a transaction that holds a head knows its length, so   *)
(* that its event follows the last one.                                     *)
LEMMA HeadsStep ==
    ASSUME RowLocksTypeOK, Placed, HeldPassed, Exclusive, HeadsRead, ChainUnbroken,
           [RowLocksNext]_lockVars
    PROVE  HeadsRead' /\ ChainUnbroken'
<1>. USE DEF NoEffect
<1>1. ASSUME NEW t \in Txns, \A u \in Txns \ {t} : txn'[u] = txn[u], chain' = chain,
             \/ txn'[t].held = {}
             \/ txn'[t].held = txn[t].held /\ txn'[t].top = txn[t].top
      PROVE  HeadsRead' /\ ChainUnbroken'
  BY <1>1 DEF HeadsRead, ChainUnbroken, Holds
<1>2. ASSUME NEW t \in Txns, TakeLock(t) PROVE HeadsRead' /\ ChainUnbroken'
  <2>1. /\ txn'[t].held = txn[t].held \cup {Statement(t)}
        /\ \A u \in Txns \ {t} : txn'[u] = txn[u]
        /\ \A h \in Heads : txn'[t].top[h] =
                IF h = Statement(t).row THEN Len(chain[h]) ELSE txn[t].top[h]
    BY <1>2, TakeLockEffect
  <2>2. chain' = chain
    BY <1>2 DEF TakeLock
  <2>3. HeadsRead'
    <3>1. SUFFICES ASSUME NEW u \in Txns, NEW h \in Heads, Holds(u, h)'
                   PROVE  txn'[u].top[h] = Len(chain'[h])
      BY DEF HeadsRead
    <3>2. CASE u # t
      BY <3>1, <3>2, <2>1, <2>2 DEF HeadsRead, Holds
    <3>3. CASE u = t /\ h = Statement(t).row
      BY <3>3, <2>1, <2>2
    <3>4. CASE u = t /\ h # Statement(t).row
      BY <3>1, <3>4, <2>1, <2>2 DEF HeadsRead, Holds
    <3>. QED
      BY <3>2, <3>3, <3>4
  <2>. QED
    BY <2>2, <2>3 DEF ChainUnbroken
<1>3. ASSUME NEW t \in Txns, Commit(t) PROVE HeadsRead' /\ ChainUnbroken'
  <2>1. /\ txn'[t].held = {}
        /\ \A u \in Txns \ {t} : txn'[u] = txn[u]
    BY <1>3, EndsEffect DEF Commit
  <2>2. \A h \in Heads : chain'[h] = IF Holds(t, h) THEN Append(chain[h], txn[t].top[h] + 1)
                                     ELSE chain[h]
    BY <1>3 DEF Commit
  <2>3. HeadsRead'
    <3>1. SUFFICES ASSUME NEW u \in Txns, NEW h \in Heads, Holds(u, h)'
                   PROVE  txn'[u].top[h] = Len(chain'[h])
      BY DEF HeadsRead
    <3>2. u # t
      BY <3>1, <2>1 DEF Holds
    <3>3. Holds(u, h)
      BY <3>1, <3>2, <2>1 DEF Holds
    <3>4. ~Holds(t, h)
      BY <3>2, <3>3, Alone
    <3>. QED
      BY <3>2, <3>3, <3>4, <2>1, <2>2 DEF HeadsRead
  <2>4. ASSUME NEW h \in Heads, NEW i \in DOMAIN chain'[h] PROVE chain'[h][i] = i
    <3>1. chain[h] \in Seq(Nat) /\ Len(chain[h]) \in Nat
      BY DEF RowLocksTypeOK
    <3>2. CASE ~Holds(t, h)
      BY <3>2, <2>2, <2>4 DEF ChainUnbroken
    <3>3. CASE Holds(t, h)
      <4>1. txn[t].top[h] = Len(chain[h])
        BY <3>3 DEF HeadsRead
      <4>2. chain'[h] = Append(chain[h], Len(chain[h]) + 1)
        BY <3>3, <4>1, <2>2
      <4>3. i \in 1..(Len(chain[h]) + 1)
        BY <2>4, <3>1, <4>2
      <4>4. CASE i = Len(chain[h]) + 1
        BY <3>1, <4>2, <4>4
      <4>5. CASE i \in 1..Len(chain[h])
        <5>1. chain[h][i] = i
          BY <4>5, <3>1 DEF ChainUnbroken
        <5>. QED
          BY <3>1, <4>2, <4>5, <5>1
      <4>. QED
        BY <4>3, <4>4, <4>5, <3>1
    <3>. QED
      BY <3>2, <3>3
  <2>. QED
    BY <2>3, <2>4 DEF ChainUnbroken
<1>4. ASSUME NEW t \in Txns, ReadPolicy(t), PolicyServes(t) PROVE HeadsRead' /\ ChainUnbroken'
  <2>1. /\ txn'[t].held = txn[t].held /\ txn'[t].top = txn[t].top
        /\ \A u \in Txns \ {t} : txn'[u] = txn[u]
    BY <1>4, ReadEffect
  <2>. QED
    BY <1>1, <1>4, <2>1 DEF ReadPolicy
<1>5. ASSUME NEW t \in Txns, Ends(t), NoEffect PROVE HeadsRead' /\ ChainUnbroken'
  <2>1. txn'[t].held = {} /\ \A u \in Txns \ {t} : txn'[u] = txn[u]
    BY <1>5, EndsEffect
  <2>. QED
    BY <1>1, <1>5, <2>1
<1>6. ASSUME NEW t \in Txns, NEW kind \in Kinds, Begin(t, kind)
      PROVE  HeadsRead' /\ ChainUnbroken'
  <2>1. txn'[t].held = {} /\ \A u \in Txns \ {t} : txn'[u] = txn[u]
    BY <1>6, BeginEffect
  <2>. QED
    BY <1>1, <1>6, <2>1 DEF Begin
<1>7. ASSUME NEW t \in Txns, Skip(t) PROVE HeadsRead' /\ ChainUnbroken'
  <2>1. /\ txn'[t].held = txn[t].held /\ txn'[t].top = txn[t].top
        /\ \A u \in Txns \ {t} : txn'[u] = txn[u]
    BY <1>7, SkipEffect
  <2>. QED
    BY <1>1, <1>7, <2>1 DEF Skip
<1>8. ASSUME txn' = txn, chain' = chain PROVE HeadsRead' /\ ChainUnbroken'
  BY <1>8 DEF HeadsRead, ChainUnbroken, Holds
<1>. QED
  BY <1>2, <1>3, <1>4, <1>5, <1>6, <1>7, <1>8, StepCases DEF DealRunsOut, lockVars
-----------------------------------------------------------------------------
(* Locks a transaction holds once it is past their statement.               *)
LEMMA Holding ==
    ASSUME RowLocksTypeOK, Placed, PassedHeld, NEW t \in Txns
    PROVE  /\ txn[t].kind = "start" /\ txn[t].at > 2 => Lock("deal_head", "update") \in txn[t].held
           /\ txn[t].kind = "start" /\ txn[t].at > 4 => Lock("product", "key") \in txn[t].held
           /\ txn[t].kind = "start" /\ txn[t].at > 5 => Lock("policy", "key") \in txn[t].held
           /\ txn[t].kind = "offer" /\ txn[t].at > 1 => Lock("deal", "update") \in txn[t].held
           /\ txn[t].kind = "permit" /\ txn[t].at > 1 => Lock("deal", "update") \in txn[t].held
           /\ txn[t].kind = "approve" /\ txn[t].at > 1 => Lock("permit", "change") \in txn[t].held
           /\ txn[t].kind = "approve" /\ txn[t].at > 2 => Lock("intent_head", "update") \in txn[t].held
           /\ txn[t].kind = "approve" /\ txn[t].at > 3 => Lock("deal_head", "update") \in txn[t].held
           /\ txn[t].kind = "claim" /\ txn[t].at > 1 => Lock("permit", "update") \in txn[t].held
           /\ txn[t].kind = "claim" /\ txn[t].at > 2 => Lock("deal", "update") \in txn[t].held
           /\ txn[t].kind = "claim" /\ txn[t].at > 4 => Lock("intent_head", "update") \in txn[t].held
           /\ txn[t].kind = "claim" /\ txn[t].at > 5 => Lock("deal_head", "update") \in txn[t].held
           /\ txn[t].kind = "complete" /\ txn[t].at > 1 => Lock("permit", "change") \in txn[t].held
           /\ txn[t].kind = "complete" /\ txn[t].at > 2 => Lock("intent_head", "update") \in txn[t].held
           /\ txn[t].kind = "settle" /\ txn[t].at > 1 => Lock("permit", "change") \in txn[t].held
           /\ txn[t].kind = "settle" /\ txn[t].at > 2 => Lock("intent_head", "update") \in txn[t].held
           /\ txn[t].kind = "settle" /\ txn[t].at > 3 => Lock("deal", "change") \in txn[t].held
           /\ txn[t].kind = "save" /\ txn[t].at > 1 => Lock("product", "update") \in txn[t].held
           /\ txn[t].kind = "save" /\ txn[t].at > 3 => Lock("version", "update") \in txn[t].held
           /\ txn[t].kind = "disable" /\ txn[t].at > 2 => Lock("policy", "update") \in txn[t].held
           /\ txn[t].kind = "disable" /\ txn[t].at > 3 => Lock("version", "update") \in txn[t].held
<1>1. ASSUME InProgress(t), NEW i \in 1..Len(Statements(txn[t].kind)), i < txn[t].at,
             NEW s, s = Statements(txn[t].kind)[i], s.mode # "read",
             ~Skippable(txn[t].kind, s.row)
      PROVE  s \in txn[t].held
  BY <1>1 DEF PassedHeld
<1>2. txn[t].at \in Nat
  BY DEF RowLocksTypeOK
<1>3. CASE txn[t].kind = "start"
  <2>1. InProgress(t) /\ txn[t].kind \in Kinds
    BY <1>3 DEF InProgress, Kinds
  <2>2. Len(Statements(txn[t].kind)) = 6
    BY <1>3, <2>1, Lengths
  <2>3. /\ Statements(txn[t].kind)[2] = Lock("deal_head", "update")
        /\ Statements(txn[t].kind)[4] = Lock("product", "key")
        /\ Statements(txn[t].kind)[5] = Lock("policy", "key")
    BY <1>3, Tables
  <2>4. ASSUME txn[t].at > 2 PROVE Lock("deal_head", "update") \in txn[t].held
    BY <1>1, <1>2, <1>3, <2>1, <2>2, <2>3, <2>4 DEF Lock, Skippable, PolicyChanges
  <2>5. ASSUME txn[t].at > 4 PROVE Lock("product", "key") \in txn[t].held
    BY <1>1, <1>2, <1>3, <2>1, <2>2, <2>3, <2>5 DEF Lock, Skippable, PolicyChanges
  <2>6. ASSUME txn[t].at > 5 PROVE Lock("policy", "key") \in txn[t].held
    BY <1>1, <1>2, <1>3, <2>1, <2>2, <2>3, <2>6 DEF Lock, Skippable, PolicyChanges
  <2>. QED
    BY <1>3, <2>4, <2>5, <2>6
<1>4. CASE txn[t].kind = "offer"
  <2>1. InProgress(t) /\ txn[t].kind \in Kinds
    BY <1>4 DEF InProgress, Kinds
  <2>2. Len(Statements(txn[t].kind)) = 4
    BY <1>4, <2>1, Lengths
  <2>3. /\ Statements(txn[t].kind)[1] = Lock("deal", "update")
    BY <1>4, Tables
  <2>4. ASSUME txn[t].at > 1 PROVE Lock("deal", "update") \in txn[t].held
    BY <1>1, <1>2, <1>4, <2>1, <2>2, <2>3, <2>4 DEF Lock, Skippable, PolicyChanges
  <2>. QED
    BY <1>4, <2>4
<1>5. CASE txn[t].kind = "permit"
  <2>1. InProgress(t) /\ txn[t].kind \in Kinds
    BY <1>5 DEF InProgress, Kinds
  <2>2. Len(Statements(txn[t].kind)) = 5
    BY <1>5, <2>1, Lengths
  <2>3. /\ Statements(txn[t].kind)[1] = Lock("deal", "update")
    BY <1>5, Tables
  <2>4. ASSUME txn[t].at > 1 PROVE Lock("deal", "update") \in txn[t].held
    BY <1>1, <1>2, <1>5, <2>1, <2>2, <2>3, <2>4 DEF Lock, Skippable, PolicyChanges
  <2>. QED
    BY <1>5, <2>4
<1>6. CASE txn[t].kind = "approve"
  <2>1. InProgress(t) /\ txn[t].kind \in Kinds
    BY <1>6 DEF InProgress, Kinds
  <2>2. Len(Statements(txn[t].kind)) = 4
    BY <1>6, <2>1, Lengths
  <2>3. /\ Statements(txn[t].kind)[1] = Lock("permit", "change")
        /\ Statements(txn[t].kind)[2] = Lock("intent_head", "update")
        /\ Statements(txn[t].kind)[3] = Lock("deal_head", "update")
    BY <1>6, Tables
  <2>4. ASSUME txn[t].at > 1 PROVE Lock("permit", "change") \in txn[t].held
    BY <1>1, <1>2, <1>6, <2>1, <2>2, <2>3, <2>4 DEF Lock, Skippable, PolicyChanges
  <2>5. ASSUME txn[t].at > 2 PROVE Lock("intent_head", "update") \in txn[t].held
    BY <1>1, <1>2, <1>6, <2>1, <2>2, <2>3, <2>5 DEF Lock, Skippable, PolicyChanges
  <2>6. ASSUME txn[t].at > 3 PROVE Lock("deal_head", "update") \in txn[t].held
    BY <1>1, <1>2, <1>6, <2>1, <2>2, <2>3, <2>6 DEF Lock, Skippable, PolicyChanges
  <2>. QED
    BY <1>6, <2>4, <2>5, <2>6
<1>7. CASE txn[t].kind = "claim"
  <2>1. InProgress(t) /\ txn[t].kind \in Kinds
    BY <1>7 DEF InProgress, Kinds
  <2>2. Len(Statements(txn[t].kind)) = 6
    BY <1>7, <2>1, Lengths
  <2>3. /\ Statements(txn[t].kind)[1] = Lock("permit", "update")
        /\ Statements(txn[t].kind)[2] = Lock("deal", "update")
        /\ Statements(txn[t].kind)[4] = Lock("intent_head", "update")
        /\ Statements(txn[t].kind)[5] = Lock("deal_head", "update")
    BY <1>7, Tables
  <2>4. ASSUME txn[t].at > 1 PROVE Lock("permit", "update") \in txn[t].held
    BY <1>1, <1>2, <1>7, <2>1, <2>2, <2>3, <2>4 DEF Lock, Skippable, PolicyChanges
  <2>5. ASSUME txn[t].at > 2 PROVE Lock("deal", "update") \in txn[t].held
    BY <1>1, <1>2, <1>7, <2>1, <2>2, <2>3, <2>5 DEF Lock, Skippable, PolicyChanges
  <2>6. ASSUME txn[t].at > 4 PROVE Lock("intent_head", "update") \in txn[t].held
    BY <1>1, <1>2, <1>7, <2>1, <2>2, <2>3, <2>6 DEF Lock, Skippable, PolicyChanges
  <2>7. ASSUME txn[t].at > 5 PROVE Lock("deal_head", "update") \in txn[t].held
    BY <1>1, <1>2, <1>7, <2>1, <2>2, <2>3, <2>7 DEF Lock, Skippable, PolicyChanges
  <2>. QED
    BY <1>7, <2>4, <2>5, <2>6, <2>7
<1>8. CASE txn[t].kind = "complete"
  <2>1. InProgress(t) /\ txn[t].kind \in Kinds
    BY <1>8 DEF InProgress, Kinds
  <2>2. Len(Statements(txn[t].kind)) = 3
    BY <1>8, <2>1, Lengths
  <2>3. /\ Statements(txn[t].kind)[1] = Lock("permit", "change")
        /\ Statements(txn[t].kind)[2] = Lock("intent_head", "update")
    BY <1>8, Tables
  <2>4. ASSUME txn[t].at > 1 PROVE Lock("permit", "change") \in txn[t].held
    BY <1>1, <1>2, <1>8, <2>1, <2>2, <2>3, <2>4 DEF Lock, Skippable, PolicyChanges
  <2>5. ASSUME txn[t].at > 2 PROVE Lock("intent_head", "update") \in txn[t].held
    BY <1>1, <1>2, <1>8, <2>1, <2>2, <2>3, <2>5 DEF Lock, Skippable, PolicyChanges
  <2>. QED
    BY <1>8, <2>4, <2>5
<1>9. CASE txn[t].kind = "settle"
  <2>1. InProgress(t) /\ txn[t].kind \in Kinds
    BY <1>9 DEF InProgress, Kinds
  <2>2. Len(Statements(txn[t].kind)) = 4
    BY <1>9, <2>1, Lengths
  <2>3. /\ Statements(txn[t].kind)[1] = Lock("permit", "change")
        /\ Statements(txn[t].kind)[2] = Lock("intent_head", "update")
        /\ Statements(txn[t].kind)[3] = Lock("deal", "change")
    BY <1>9, Tables
  <2>4. ASSUME txn[t].at > 1 PROVE Lock("permit", "change") \in txn[t].held
    BY <1>1, <1>2, <1>9, <2>1, <2>2, <2>3, <2>4 DEF Lock, Skippable, PolicyChanges
  <2>5. ASSUME txn[t].at > 2 PROVE Lock("intent_head", "update") \in txn[t].held
    BY <1>1, <1>2, <1>9, <2>1, <2>2, <2>3, <2>5 DEF Lock, Skippable, PolicyChanges
  <2>6. ASSUME txn[t].at > 3 PROVE Lock("deal", "change") \in txn[t].held
    BY <1>1, <1>2, <1>9, <2>1, <2>2, <2>3, <2>6 DEF Lock, Skippable, PolicyChanges
  <2>. QED
    BY <1>9, <2>4, <2>5, <2>6
<1>10. CASE txn[t].kind = "save"
  <2>1. InProgress(t) /\ txn[t].kind \in Kinds
    BY <1>10 DEF InProgress, Kinds
  <2>2. Len(Statements(txn[t].kind)) = 9
    BY <1>10, <2>1, Lengths
  <2>3. /\ Statements(txn[t].kind)[1] = Lock("product", "update")
        /\ Statements(txn[t].kind)[3] = Lock("version", "update")
    BY <1>10, Tables
  <2>4. ASSUME txn[t].at > 1 PROVE Lock("product", "update") \in txn[t].held
    BY <1>1, <1>2, <1>10, <2>1, <2>2, <2>3, <2>4 DEF Lock, Skippable, PolicyChanges
  <2>5. ASSUME txn[t].at > 3 PROVE Lock("version", "update") \in txn[t].held
    BY <1>1, <1>2, <1>10, <2>1, <2>2, <2>3, <2>5 DEF Lock, Skippable, PolicyChanges
  <2>. QED
    BY <1>10, <2>4, <2>5
<1>11. CASE txn[t].kind = "disable"
  <2>1. InProgress(t) /\ txn[t].kind \in Kinds
    BY <1>11 DEF InProgress, Kinds
  <2>2. Len(Statements(txn[t].kind)) = 10
    BY <1>11, <2>1, Lengths
  <2>3. /\ Statements(txn[t].kind)[2] = Lock("policy", "update")
        /\ Statements(txn[t].kind)[3] = Lock("version", "update")
    BY <1>11, Tables
  <2>4. ASSUME txn[t].at > 2 PROVE Lock("policy", "update") \in txn[t].held
    BY <1>1, <1>2, <1>11, <2>1, <2>2, <2>3, <2>4 DEF Lock, Skippable, PolicyChanges
  <2>5. ASSUME txn[t].at > 3 PROVE Lock("version", "update") \in txn[t].held
    BY <1>1, <1>2, <1>11, <2>1, <2>2, <2>3, <2>5 DEF Lock, Skippable, PolicyChanges
  <2>. QED
    BY <1>11, <2>4, <2>5
<1>. QED
  BY <1>3, <1>4, <1>5, <1>6, <1>7, <1>8, <1>9, <1>10, <1>11
-----------------------------------------------------------------------------
(* A transaction at its end has passed every statement.                     *)
LEMMA EndAt ==
    ASSUME RowLocksTypeOK, NEW t \in Txns, AtEnd(t)
    PROVE  /\ txn[t].kind \in Kinds /\ txn[t].at > 3
           /\ txn[t].kind \in {"approve", "offer", "settle"} => txn[t].at > 4
           /\ txn[t].kind \in {"start", "claim"} => txn[t].at > 6
           /\ txn[t].kind \in PolicyChanges => txn[t].at > DealAt(txn[t].kind) + 1
<1>1. txn[t].kind \in Kinds /\ txn[t].at \in Nat
  BY DEF RowLocksTypeOK, AtEnd, InProgress
<1>2. txn[t].at > Len(Statements(txn[t].kind))
  BY DEF AtEnd
<1>. QED
  <2>1. Len(Statements(txn[t].kind)) \in 3..10
    BY <1>1, Lengths
  <2>2. txn[t].kind \in {"approve", "offer", "settle"} => Len(Statements(txn[t].kind)) = 4
    BY <1>1, Lengths
  <2>3. txn[t].kind \in {"start", "claim"} => Len(Statements(txn[t].kind)) = 6
    BY <1>1, Lengths
  <2>4. txn[t].kind = "save" => Len(Statements(txn[t].kind)) = 9
    BY <1>1, Lengths
  <2>5. txn[t].kind = "disable" => Len(Statements(txn[t].kind)) = 10
    BY <1>1, Lengths
  <2>. DEFINE last == Len(Statements(txn[t].kind))
              at == txn[t].at
  <2>6. at \in Nat /\ last \in 3..10 /\ at > last
    BY <1>1, <1>2, <2>1
  <2>. HIDE DEF last, at
  <2>7. at > 3 /\ (last = 4 => at > 4) /\ (last = 6 => at > 6) /\ (last = 9 => at > 5)
        /\ (last = 10 => at > 6)
    BY <2>6
  <2>8. /\ txn[t].kind = "save" => DealAt(txn[t].kind) + 1 = 5
        /\ txn[t].kind = "disable" => DealAt(txn[t].kind) + 1 = 6
    BY DEF DealAt
  <2>. QED
    BY <1>1, <2>2, <2>3, <2>4, <2>5, <2>7, <2>8 DEF PolicyChanges, last, at

(* A change past the version's row excludes a start whose second read has   *)
(* passed, and any other change.                                            *)
LEMMA ChangeExcludes ==
    ASSUME RowLocksTypeOK, Placed, PassedHeld, Exclusive, PoliciesSeen,
           NEW t \in Txns, NEW u \in Txns, txn[t].kind \in PolicyChanges, txn[t].at > 3, t # u
    PROVE  /\ ~Holds(u, "version")
           /\ ~(txn[u].kind = "start" /\ txn[u].at > 6)
           /\ Lock("version", "update") \in txn[t].held
<1>1. Lock("version", "update") \in txn[t].held
  BY Holding DEF PolicyChanges
<1>2. txn[t].seen = Len(policies)
  BY <1>1 DEF PoliciesSeen, Holds, Lock
<1>3. ASSUME Holds(u, "version") PROVE FALSE
  <2>1. PICK l \in txn[u].held : l.row = "version"
    BY <1>3 DEF Holds
  <2>2. txn[u].seen = Len(policies)
    BY <1>3 DEF PoliciesSeen
  <2>3. Lock("version", "update").row = "version" /\ Lock("version", "update").mode = "update"
    BY DEF Lock
  <2>4. Conflict("update", l.mode)
    BY DEF Conflict
  <2>. QED
    BY <1>1, <1>2, <2>1, <2>2, <2>3, <2>4 DEF Exclusive
<1>4. ASSUME txn[u].kind = "start", txn[u].at > 6 PROVE FALSE
  <2>1. txn[u].seen = Len(policies)
    BY <1>4 DEF PoliciesSeen
  <2>2. txn[u].at > 4 /\ txn[u].at > 5 /\ txn[t].at > 1 /\ txn[t].at > 2
    BY <1>4 DEF RowLocksTypeOK
  <2>3. Lock("product", "key") \in txn[u].held /\ Lock("policy", "key") \in txn[u].held
    BY <1>4, <2>2, Holding
  <2>4. Conflict("key", "update")
    BY DEF Conflict
  <2>5. CASE txn[t].kind = "save"
    <3>1. Lock("product", "update") \in txn[t].held
      BY <2>2, <2>5, Holding
    <3>. QED
      BY <2>3, <2>4, <3>1 DEF Exclusive, Lock
  <2>6. CASE txn[t].kind = "disable"
    <3>1. Lock("policy", "update") \in txn[t].held
      BY <2>2, <2>6, Holding
    <3>. QED
      BY <1>2, <2>1, <2>3, <2>4, <3>1 DEF Exclusive, Lock
  <2>. QED
    BY <2>5, <2>6 DEF PolicyChanges
<1>. QED
  BY <1>1, <1>3, <1>4

(* What a start and a change have read of the policies stays true.          *)
LEMMA PoliciesStep ==
    ASSUME RowLocksTypeOK, Placed, HeldPassed, PassedHeld, Exclusive, PoliciesSeen,
           [RowLocksNext]_lockVars
    PROVE  PoliciesSeen'
<1>. USE DEF NoEffect
<1>1. ASSUME NEW t \in Txns, \A u \in Txns \ {t} : txn'[u] = txn[u], policies' = policies,
             /\ txn'[t].kind = "start" /\ txn'[t].at <= 3 => txn'[t].seen = 0
             /\ txn'[t].kind = "start" /\ txn'[t].at > 3 => txn'[t].seen \in 1..Len(policies)
             /\ txn'[t].kind = "start" /\ txn'[t].at > 6 => txn'[t].seen = Len(policies)
             /\ Holds(t, "version")' => txn'[t].seen = Len(policies)
      PROVE  PoliciesSeen'
  BY <1>1 DEF PoliciesSeen, Holds
<1>2. ASSUME NEW t \in Txns, NEW kind \in Kinds, Begin(t, kind) PROVE PoliciesSeen'
  <2>1. txn'[t].at = 1 /\ txn'[t].held = {} /\ \A u \in Txns \ {t} : txn'[u] = txn[u]
    BY <1>2, BeginEffect
  <2>2. txn'[t].seen = 0
    BY <1>2 DEF Begin, NoTxn, RowLocksTypeOK
  <2>. QED
    BY <1>1, <1>2, <2>1, <2>2 DEF Begin, Holds
<1>3. ASSUME NEW t \in Txns, InProgress(t), ~AtEnd(t), Statement(t).mode # "read",
             txn[t].kind = "start"
      PROVE  txn[t].at \in Nat /\ txn[t].at # 3 /\ txn[t].at # 6 /\ txn[t].at \in 1..6
  <2>1. Len(Statements(txn[t].kind)) = 6 /\ txn[t].kind \in Kinds
    BY <1>3, Lengths, AtStatement
  <2>. QED
    BY <1>3, <2>1, AtStatement, StatementFacts
<1>4. ASSUME NEW t \in Txns, Skip(t) PROVE PoliciesSeen'
  <2>1. /\ txn'[t].kind = txn[t].kind /\ txn'[t].seen = txn[t].seen
        /\ txn'[t].held = txn[t].held /\ txn'[t].at = txn[t].at + 1
        /\ \A u \in Txns \ {t} : txn'[u] = txn[u]
    BY <1>4, SkipEffect
  <2>2. txn[t].kind = "start" => txn[t].at \in {1, 2, 4, 5}
    BY <1>3, <1>4 DEF Skip, AtLock
  <2>3. (Holds(t, "version")' <=> Holds(t, "version")) /\ policies' = policies
    BY <1>4, <2>1 DEF Holds, Skip
  <2>. QED
    BY <1>1, <2>1, <2>2, <2>3 DEF PoliciesSeen
<1>5. ASSUME NEW t \in Txns, TakeLock(t) PROVE PoliciesSeen'
  <2>1. /\ txn'[t].kind = txn[t].kind /\ txn'[t].seen = txn[t].seen
        /\ txn'[t].held = txn[t].held \cup {Statement(t)} /\ txn'[t].at = txn[t].at + 1
        /\ \A u \in Txns \ {t} : txn'[u] = txn[u]
    BY <1>5, TakeLockEffect
  <2>2. txn[t].kind = "start" => txn[t].at \in {1, 2, 4, 5}
    BY <1>3, <1>5 DEF TakeLock, AtLock
  <2>3. Holds(t, "version")' => txn[t].seen = Len(policies)
    <3>1. Statement(t).row = "version" => txn[t].seen = Len(policies)
      BY <1>5 DEF TakeLock, Stops
    <3>. QED
      BY <2>1, <3>1 DEF Holds, PoliciesSeen
  <2>4. policies' = policies
    BY <1>5 DEF TakeLock
  <2>. QED
    BY <1>1, <2>1, <2>2, <2>3, <2>4 DEF PoliciesSeen
<1>6. ASSUME NEW t \in Txns, ReadPolicy(t), PolicyServes(t) PROVE PoliciesSeen'
  <2>1. /\ txn'[t].kind = txn[t].kind /\ txn'[t].seen = Len(policies)
        /\ txn'[t].at = txn[t].at + 1 /\ \A u \in Txns \ {t} : txn'[u] = txn[u]
    BY <1>6, ReadEffect
  <2>2. Len(policies) \in Nat /\ Len(policies) # 0 /\ policies' = policies
    BY <1>6 DEF PoliciesSeen, RowLocksTypeOK, ReadPolicy
  <2>3. txn[t].kind = "start" => txn[t].at \in {3, 6}
    <3>1. Statement(t).mode = "read" /\ InProgress(t) /\ ~AtEnd(t)
      BY <1>6 DEF ReadPolicy, AtLock
    <3>. QED
      BY <3>1, AtStatement, StatementFacts
  <2>. QED
    BY <1>1, <2>1, <2>2, <2>3
<1>7. ASSUME NEW t \in Txns, Ends(t), NoEffect PROVE PoliciesSeen'
  <2>1. txn'[t].kind = "none" /\ txn'[t].held = {} /\ \A u \in Txns \ {t} : txn'[u] = txn[u]
    BY <1>7, EndsEffect
  <2>. QED
    BY <1>1, <1>7, <2>1 DEF Holds
<1>8. ASSUME NEW t \in Txns, Commit(t) PROVE PoliciesSeen'
  <2>1. txn'[t].kind = "none" /\ txn'[t].held = {} /\ \A u \in Txns \ {t} : txn'[u] = txn[u]
    BY <1>8, EndsEffect DEF Commit
  <2>2. CASE txn[t].kind \notin PolicyChanges
    <3>1. policies' = policies
      BY <1>8, <2>2 DEF Commit, PoliciesAfter
    <3>. QED
      BY <1>1, <2>1, <3>1 DEF Holds
  <2>3. CASE txn[t].kind \in PolicyChanges
    <3>1. policies' = Append(policies, txn[t].kind = "save")
      BY <1>8, <2>3 DEF Commit, PoliciesAfter
    <3>2. policies \in Seq(BOOLEAN) /\ Len(policies) \in Nat
      BY DEF RowLocksTypeOK
    <3>3. Len(policies') = Len(policies) + 1 /\ policies' # <<>>
      <4>1. PICK b \in BOOLEAN : b = (txn[t].kind = "save")
        OBVIOUS
      <4>2. policies' = Append(policies, b)
        BY <3>1, <4>1, Zenon
      <4>. QED
        BY <3>2, <4>2
    <3>4. \A u \in Txns \ {t} : ~Holds(u, "version") /\ ~(txn[u].kind = "start" /\ txn[u].at > 6)
      BY <1>8, <2>3, EndAt, ChangeExcludes DEF Commit
    <3>5. ASSUME NEW u \in Txns
          PROVE  /\ txn'[u].kind = "start" /\ txn'[u].at <= 3 => txn'[u].seen = 0
                 /\ txn'[u].kind = "start" /\ txn'[u].at > 3 =>
                        txn'[u].seen \in 1..Len(policies')
                 /\ txn'[u].kind = "start" /\ txn'[u].at > 6 => txn'[u].seen = Len(policies')
                 /\ Holds(u, "version")' => txn'[u].seen = Len(policies')
      <4>1. CASE u = t
        BY <2>1, <4>1 DEF Holds
      <4>2. CASE u # t
        <5>1. txn'[u] = txn[u] /\ ~Holds(u, "version")'
          BY <2>1, <3>4, <4>2 DEF Holds
        <5>2. txn[u].kind = "start" /\ txn[u].at > 3 => txn[u].seen \in 1..Len(policies)
          BY DEF PoliciesSeen
        <5>3. txn[u].kind = "start" /\ txn[u].at <= 3 => txn[u].seen = 0
          BY DEF PoliciesSeen
        <5>. QED
          BY <3>2, <3>3, <3>4, <4>2, <5>1, <5>2, <5>3
      <4>. QED
        BY <4>1, <4>2
    <3>. QED
      BY <3>3, <3>5 DEF PoliciesSeen
  <2>. QED
    BY <2>2, <2>3
<1>9. ASSUME txn' = txn, policies' = policies PROVE PoliciesSeen'
  BY <1>9 DEF PoliciesSeen, Holds
<1>. QED
  BY <1>2, <1>4, <1>5, <1>6, <1>7, <1>8, <1>9, StepCases DEF DealRunsOut, lockVars
-----------------------------------------------------------------------------
(* What a COMMIT does to the deal.                                          *)
LEMMA CommitDeal ==
    ASSUME RowLocksTypeOK, NEW t \in Txns, Commit(t)
    PROVE  /\ dealRow'.expired = dealRow.expired
           /\ \/ dealRow' = dealRow
              \/ /\ txn[t].kind \in PolicyChanges \cup {"start", "settle"} /\ Holds(t, "deal")
                 /\ dealRow'.status = "closed"
              \/ /\ txn[t].kind = "start" /\ dealRow.status = "none"
                 /\ dealRow'.policy = txn[t].seen
                 /\ dealRow'.status \in {"negotiating", "accepted", "closed"}
              \/ /\ txn[t].kind = "offer" /\ dealRow'.policy = dealRow.policy
                 /\ dealRow'.status \in {"negotiating", "accepted", "closed"}
              \/ /\ txn[t].kind = "permit" /\ dealRow'.policy = dealRow.policy
                 /\ dealRow'.status = "permit_created"
           /\ txn[t].kind = "permit" => dealRow'.status = "permit_created"
           /\ Closes(t) => dealRow'.status = "closed"
<1>1. dealRow \in [status : Open \cup {"none", "closed"}, policy : Nat, expired : BOOLEAN]
  BY DEF RowLocksTypeOK
<1>2. dealRow' \in DealAfter(t)
  BY DEF Commit
<1>3. CASE Closes(t)
  <2>1. txn[t].kind \notin {"offer", "permit"}
    BY <1>3 DEF Closes, PolicyChanges
  <2>2. DealAfter(t) = {[dealRow EXCEPT !.status = "closed"]}
    BY <1>3, <2>1 DEF DealAfter
  <2>3. dealRow' = [dealRow EXCEPT !.status = "closed"]
    BY <1>2, <2>2
  <2>. QED
    BY <1>1, <1>3, <2>1, <2>3 DEF Closes
<1>4. CASE ~Closes(t) /\ txn[t].kind = "start" /\ dealRow.status = "none"
  <2>1. PICK s \in {"negotiating", "accepted", "closed"} :
            dealRow' = [dealRow EXCEPT !.status = s, !.policy = txn[t].seen]
    BY <1>2, <1>4 DEF DealAfter
  <2>. QED
    BY <1>1, <1>4, <2>1
<1>5. CASE txn[t].kind = "offer"
  <2>1. ~Closes(t)
    BY <1>5 DEF Closes, PolicyChanges
  <2>2. PICK s \in {"negotiating", "accepted", "closed"} :
            dealRow' = [dealRow EXCEPT !.status = s]
    BY <1>2, <1>5, <2>1 DEF DealAfter
  <2>. QED
    BY <1>1, <1>5, <2>1, <2>2
<1>6. CASE txn[t].kind = "permit"
  <2>1. ~Closes(t)
    BY <1>6 DEF Closes, PolicyChanges
  <2>2. dealRow' = [dealRow EXCEPT !.status = "permit_created"]
    BY <1>2, <1>6, <2>1 DEF DealAfter
  <2>. QED
    BY <1>1, <1>6, <2>1, <2>2
<1>7. CASE /\ ~Closes(t) /\ txn[t].kind \notin {"offer", "permit"}
           /\ ~(txn[t].kind = "start" /\ dealRow.status = "none")
  <2>1. dealRow' = dealRow
    BY <1>2, <1>7 DEF DealAfter
  <2>. QED
    BY <1>7, <2>1
<1>. QED
  BY <1>3, <1>4, <1>5, <1>6, <1>7

(* A deal another transaction holds stays as it is.                         *)
LEMMA DealKept ==
    ASSUME RowLocksTypeOK, Placed, HeldPassed, PassedHeld, Exclusive,
           NEW t \in Txns, NEW u \in Txns, t # u, Commit(t), Holds(u, "deal"),
           dealRow.status # "none"
    PROVE  dealRow' = dealRow
<1>1. ~Holds(t, "deal")
  BY Alone
<1>2. txn[t].kind \notin {"offer", "permit"}
  <2>1. txn[t].at > 1
    BY EndAt DEF Commit, RowLocksTypeOK
  <2>2. txn[t].kind \in {"offer", "permit"} => Lock("deal", "update") \in txn[t].held
    BY <2>1, Holding
  <2>. QED
    BY <1>1, <2>2 DEF Holds, Lock
<1>. QED
  BY <1>1, <1>2, CommitDeal

(* A permit another transaction has locked stays as it is, or is created.   *)
LEMMA PermitKept ==
    ASSUME RowLocksTypeOK, Placed, PassedHeld, Exclusive,
           NEW t \in Txns, NEW u \in Txns, t # u, Commit(t), NEW l \in txn[u].held,
           l.row = "permit", l.mode \in {"update", "change"}
    PROVE  permitRow' = permitRow \/ txn[t].kind = "permit"
<1>1. \A m \in txn[t].held : m.row = "permit" => m.mode \notin {"update", "change"}
  BY DEF Exclusive, Conflict
<1>2. txn[t].at > 1
  BY EndAt DEF Commit, RowLocksTypeOK
<1>3. txn[t].kind \notin {"approve", "claim", "complete", "settle"}
  <2>1. /\ txn[t].kind = "approve" => Lock("permit", "change") \in txn[t].held
        /\ txn[t].kind = "claim" => Lock("permit", "update") \in txn[t].held
        /\ txn[t].kind = "complete" => Lock("permit", "change") \in txn[t].held
        /\ txn[t].kind = "settle" => Lock("permit", "change") \in txn[t].held
    BY <1>2, Holding
  <2>. QED
    BY <1>1, <2>1 DEF Lock
<1>4. Lock("permit", "change") \notin txn[t].held
  BY <1>1 DEF Lock
<1>. QED
  BY <1>3, <1>4 DEF Commit, PermitAfter

(* What a COMMIT leaves of the deal and its permit fits together.           *)
LEMMA CommitRows ==
    ASSUME LocksInv, NEW t \in Txns, Commit(t)
    PROVE  RowsFit'
<1>. USE DEF LocksInv
<1>1. AtEnd(t) /\ txn[t].at > 3 /\ txn[t].at > 1
  BY EndAt DEF Commit, RowLocksTypeOK
<1>2. StartFits(t) /\ DealFits(t) /\ PermitFits(t) /\ ChangeFits(t)
  BY DEF TxnsFit
<1>3. permitRow' = PermitAfter(t)
  BY DEF Commit
<1>4. dealRow'.status \in Open => dealRow'.policy = Len(policies')
  <2>1. CASE txn[t].kind \in PolicyChanges
    <3>1. txn[t].at > DealAt(txn[t].kind)
      <4>1. DealAt(txn[t].kind) \in Nat /\ txn[t].at \in Nat
        BY DEF DealAt, RowLocksTypeOK
      <4>. QED
        BY <1>1, <2>1, <4>1, EndAt
    <3>2. CASE Holds(t, "deal")
      BY <2>1, <3>2, CommitDeal DEF Closes, Open
    <3>3. CASE ~Holds(t, "deal")
      <4>1. dealRow' = dealRow
        BY <2>1, <3>3, CommitDeal DEF PolicyChanges
      <4>. QED
        BY <1>2, <2>1, <3>1, <3>3, <4>1 DEF ChangeFits
    <3>. QED
      BY <3>2, <3>3
  <2>2. CASE txn[t].kind \notin PolicyChanges
    <3>1. policies' = policies
      BY <2>2 DEF Commit, PoliciesAfter
    <3>2. txn[t].kind = "start" => txn[t].seen = Len(policies)
      BY <1>1, EndAt DEF PoliciesSeen
    <3>3. txn[t].kind \in {"offer", "permit"} => dealRow.policy = Len(policies)
      BY <1>1, <1>2 DEF DealFits, RowsFit, Open
    <3>4. "closed" \notin Open
      BY DEF Open
    <3>. QED
      BY <3>1, <3>2, <3>3, <3>4, CommitDeal DEF RowsFit
  <2>. QED
    BY <2>1, <2>2
<1>5. /\ txn[t].kind = "approve" => permitRow = "pending_confirmation"
      /\ txn[t].kind \in {"complete", "settle"} => permitRow \in Claimed
      /\ txn[t].kind = "claim" => permitRow \notin Claimed /\ permitRow # "none"
      /\ txn[t].kind \in PolicyChanges /\ Lock("permit", "change") \in txn[t].held =>
            permitRow \in Undecided
  BY <1>1, <1>2 DEF PermitFits, ChangeFits
<1>6. ASSUME dealRow'.status \in {"none", "negotiating", "accepted"} PROVE permitRow' = "none"
  <2>1. txn[t].kind # "permit"
    BY <1>6, CommitDeal
  <2>2. permitRow = "none"
    <3>1. \/ dealRow' = dealRow
          \/ dealRow.status = "none"
          \/ txn[t].kind = "offer"
      BY <1>6, <2>1, CommitDeal
    <3>2. txn[t].kind = "offer" => dealRow.status = "negotiating"
      BY <1>1, <1>2 DEF DealFits
    <3>. QED
      BY <1>6, <3>1, <3>2 DEF RowsFit
  <2>. QED
    BY <1>3, <1>5, <2>1, <2>2 DEF PermitAfter, Undecided, Claimed, PolicyChanges
<1>7. ASSUME permitRow' \in Undecided, ~dealRow'.expired PROVE dealRow'.status \in Open
  <2>1. ~dealRow.expired
    BY <1>7, CommitDeal
  <2>2. CASE txn[t].kind = "permit"
    BY <2>2, CommitDeal DEF Open
  <2>3. CASE txn[t].kind # "permit"
    <3>1. permitRow \in Undecided /\ txn[t].kind \notin {"claim", "complete", "settle"}
      BY <1>3, <1>5, <1>7, <2>3 DEF PermitAfter, Undecided
    <3>2. dealRow.status \in Open
      BY <2>1, <3>1 DEF RowsFit
    <3>3. permitRow # "none"
      BY <3>1 DEF Undecided
    <3>4. txn[t].kind # "offer"
      BY <1>1, <1>2, <3>3 DEF DealFits, RowsFit
    <3>5. ~Closes(t)
      <4>1. ASSUME txn[t].kind = "start", Holds(t, "deal") PROVE FALSE
        BY <1>2, <2>1, <4>1 DEF StartFits, Expired
      <4>2. ASSUME txn[t].kind \in PolicyChanges, Holds(t, "deal") PROVE FALSE
        <5>1. Lock("permit", "change") \notin txn[t].held
          BY <1>3, <1>7, <4>2 DEF PermitAfter, Undecided, PolicyChanges
        <5>2. txn[t].at > DealAt(txn[t].kind) + 1
          BY <1>1, <4>2, EndAt
        <5>. QED
          BY <1>2, <3>1, <4>2, <5>1, <5>2 DEF ChangeFits
      <4>. QED
        BY <3>1, <4>1, <4>2 DEF Closes
    <3>6. dealRow' = dealRow
      BY <2>3, <3>2, <3>4, <3>5, CommitDeal DEF Closes, Open
    <3>. QED
      BY <3>2, <3>6
  <2>. QED
    BY <2>2, <2>3
<1>. QED
  BY <1>4, <1>6, <1>7 DEF RowsFit
(* What another transaction has found is still so after a COMMIT.           *)
LEMMA CommitTxns ==
    ASSUME LocksInv, NEW t \in Txns, Commit(t), NEW u \in Txns, u # t, txn'[u] = txn[u]
    PROVE  StartFits(u)' /\ DealFits(u)' /\ PermitFits(u)' /\ ChangeFits(u)'
<1>. USE DEF LocksInv
<1>1. /\ AtEnd(t) /\ txn[t].at > 3 /\ txn[t].at > 1
      /\ txn[t].at \in Nat /\ txn[u].at \in Nat
      /\ txn[t].kind = "start" => txn[t].at > 6 /\ txn[t].at > 2
  BY EndAt DEF Commit, RowLocksTypeOK
<1>2. /\ StartFits(t) /\ DealFits(t) /\ PermitFits(t) /\ ChangeFits(t)
      /\ StartFits(u) /\ DealFits(u) /\ PermitFits(u) /\ ChangeFits(u)
  BY DEF TxnsFit
<1>3. permitRow' = PermitAfter(t)
  BY DEF Commit
<1>4. \A row \in Rows : Holds(u, row)' <=> Holds(u, row)
  BY DEF Holds
<1>5. Holds(u, "deal") /\ dealRow.status # "none" => dealRow' = dealRow
  BY DealKept
<1>6. "none" \notin Open /\ "closed" \notin Open /\ "deal" \in Rows
  BY DEF Open, Rows
<1>7. /\ txn[t].kind = "approve" => permitRow = "pending_confirmation"
      /\ txn[t].kind \in {"complete", "settle"} => permitRow \in Claimed
      /\ txn[t].kind = "claim" => permitRow \notin Claimed /\ permitRow # "none"
      /\ txn[t].kind \in PolicyChanges /\ Lock("permit", "change") \in txn[t].held =>
            permitRow \in Undecided
      /\ txn[t].kind \in {"offer", "permit"} =>
            dealRow.status \in {"negotiating", "accepted"} /\ permitRow = "none"
  BY <1>1, <1>2 DEF PermitFits, ChangeFits, DealFits, RowsFit
<1>8. Undecided \cap Claimed = {} /\ "none" \notin Undecided \cup Claimed
      /\ "denied" \notin Undecided \cup Claimed /\ {"executing", "checkout_ready", "settled"} = Claimed
      /\ Undecided = {"pending_confirmation", "confirmed"}
  BY DEF Undecided, Claimed
<1>9. StartFits(u)'
  <2>1. SUFFICES ASSUME txn[u].kind = "start"
                 PROVE  /\ Holds(u, "deal") => Expired'
                        /\ txn[u].at > 3 /\ ~Holds(u, "deal") => dealRow'.status = "none"
    BY <1>4, <1>6 DEF StartFits
  <2>2. ASSUME Holds(u, "deal") PROVE Expired'
    BY <1>2, <1>5, <1>6, <2>1, <2>2 DEF StartFits, Expired
  <2>3. ASSUME txn[u].at > 3, ~Holds(u, "deal") PROVE dealRow'.status = "none"
    <3>1. dealRow.status = "none" /\ permitRow = "none"
      BY <1>2, <2>1, <2>3 DEF StartFits, RowsFit
    <3>2. txn[t].kind # "start"
      <4>1. ASSUME txn[t].kind = "start" PROVE FALSE
        <5>1. txn[u].at > 2
          BY <1>1, <2>3
        <5>2. Lock("deal_head", "update") \in txn[t].held /\ Lock("deal_head", "update") \in txn[u].held
          BY <1>1, <2>1, <4>1, <5>1, Holding
        <5>3. Holds(t, "deal_head") /\ Holds(u, "deal_head") /\ "deal_head" \in Heads
          BY <5>2 DEF Holds, Lock, Heads
        <5>. QED
          BY <5>3, Alone
      <4>. QED
        BY <4>1
    <3>3. txn[t].kind \notin {"offer", "permit", "settle"}
      BY <1>7, <1>8, <3>1
    <3>4. ~Closes(t)
      BY <1>2, <1>6, <3>1, <3>2, <3>3 DEF Closes, ChangeFits
    <3>. QED
      BY <3>1, <3>2, <3>3, <3>4, CommitDeal DEF Closes
  <2>. QED
    BY <2>2, <2>3
<1>10. DealFits(u)'
  <2>1. ASSUME txn[u].kind \in {"offer", "permit"}, txn[u].at > 1
        PROVE  dealRow' = dealRow
    <3>1. Lock("deal", "update") \in txn[u].held
      BY <2>1, Holding
    <3>2. Holds(u, "deal")
      BY <3>1 DEF Holds, Lock
    <3>3. dealRow.status # "none"
      BY <1>2, <2>1 DEF DealFits
    <3>. QED
      BY <1>5, <3>2, <3>3
  <2>. QED
    BY <1>2, <2>1 DEF DealFits
<1>11. PermitFits(u)'
  <2>1. ASSUME txn[u].kind \in {"approve", "claim"}, txn[u].at > 1
        PROVE  permitRow' = permitRow \/ txn[t].kind = "permit"
    <3>1. PICK l \in txn[u].held : l.row = "permit" /\ l.mode \in {"update", "change"}
      <4>1. Lock("permit", "update") \in txn[u].held \/ Lock("permit", "change") \in txn[u].held
        BY <2>1, Holding
      <4>. QED
        BY <4>1 DEF Lock
    <3>. QED
      BY <3>1, PermitKept
  <2>2. ASSUME txn[t].kind = "permit" PROVE permitRow' = "pending_confirmation" /\ permitRow = "none"
    <3>1. permitRow' = "pending_confirmation"
      BY <1>3, <2>2 DEF PermitAfter, PolicyChanges
    <3>2. permitRow = "none"
      BY <1>7, <2>2
    <3>. QED
      BY <3>1, <3>2
  <2>3. ASSUME permitRow # "none" PROVE permitRow' # "none"
    BY <1>3, <2>3 DEF PermitAfter
  <2>4. ASSUME permitRow \in Claimed PROVE permitRow' \in Claimed
    BY <1>3, <1>7, <1>8, <2>4 DEF PermitAfter
  <2>5. ASSUME txn[u].ok PROVE permitRow' = "confirmed" /\ dealRow'.status \in Open
    <3>1. txn[u].kind = "claim" /\ txn[u].at > 3 /\ permitRow = "confirmed"
          /\ dealRow.status \in Open
      BY <1>2, <2>5 DEF PermitFits
    <3>2. txn[u].at > 1 /\ txn[u].at > 2
      BY <1>1, <3>1
    <3>3. permitRow' = permitRow
      BY <2>1, <2>2, <3>1, <3>2
    <3>4. Holds(u, "deal")
      <4>1. Lock("deal", "update") \in txn[u].held
        BY <3>1, <3>2, Holding
      <4>. QED
        BY <4>1 DEF Holds, Lock
    <3>. QED
      BY <1>5, <1>6, <3>1, <3>3, <3>4
  <2>6. txn[u].kind = "approve" /\ txn[u].at > 1 => permitRow' = "pending_confirmation"
    BY <1>2, <2>1, <2>2 DEF PermitFits
  <2>7. txn[u].kind = "claim" => permitRow' # "none"
    BY <1>2, <2>3 DEF PermitFits
  <2>8. txn[u].kind = "claim" /\ txn[u].at > 1 => permitRow' \notin Claimed
    BY <1>2, <1>8, <2>1, <2>2 DEF PermitFits
  <2>9. txn[u].kind \in {"complete", "settle"} => permitRow' \in Claimed
    BY <1>2, <2>4 DEF PermitFits
  <2>10. txn[u].ok => txn[u].kind = "claim" /\ txn[u].at > 3
    BY <1>2 DEF PermitFits
  <2>. QED
    BY <2>5, <2>6, <2>7, <2>8, <2>9, <2>10 DEF PermitFits
<1>12. ChangeFits(u)'
  <2>1. SUFFICES ASSUME txn[u].kind \in PolicyChanges PROVE ChangeFits(u)'
    BY DEF ChangeFits
  <2>2. ASSUME Holds(u, "deal") PROVE dealRow' = dealRow /\ dealRow.status \in Open
    BY <1>2, <1>5, <1>6, <2>1, <2>2 DEF ChangeFits
  <2>3. ASSUME txn[u].at > DealAt(txn[u].kind), ~Holds(u, "deal")
        PROVE  dealRow'.status \notin Open
    <3>1. dealRow.status \notin Open
      BY <1>2, <2>1, <2>3 DEF ChangeFits
    <3>2. txn[u].at > 3
      BY <1>1, <2>3 DEF DealAt
    <3>3. txn[t].kind # "start"
      BY <1>1, <2>1, <3>2, ChangeExcludes
    <3>4. txn[t].kind \notin {"offer", "permit"}
      BY <1>7, <3>1 DEF Open
    <3>. QED
      BY <1>6, <3>1, <3>3, <3>4, CommitDeal
  <2>4. ASSUME Lock("permit", "change") \in txn[u].held PROVE permitRow' \in Undecided
    <3>1. permitRow \in Undecided
      BY <1>2, <2>1, <2>4 DEF ChangeFits
    <3>2. permitRow' = permitRow \/ txn[t].kind = "permit"
      BY <2>4, PermitKept DEF Lock
    <3>. QED
      BY <1>7, <1>8, <3>1, <3>2
  <2>5. ASSUME Holds(u, "deal"), permitRow \notin Undecided PROVE permitRow' \notin Undecided
    <3>1. txn[t].kind # "permit"
      <4>1. ASSUME txn[t].kind = "permit" PROVE FALSE
        <5>1. Lock("deal", "update") \in txn[t].held
          BY <1>1, <4>1, Holding
        <5>2. Holds(t, "deal")
          BY <5>1 DEF Holds, Lock
        <5>. QED
          BY <2>5, <5>2, Alone
      <4>. QED
        BY <4>1
    <3>. QED
      BY <1>3, <1>7, <1>8, <2>5, <3>1 DEF PermitAfter
  <2>6. {"intent_head", "deal_head", "permit"} \subseteq Rows
    BY DEF Rows, Heads
  <2>. QED
    BY <1>2, <1>4, <1>6, <2>1, <2>2, <2>3, <2>4, <2>5, <2>6 DEF ChangeFits
<1>. QED
  BY <1>9, <1>10, <1>11, <1>12
(* What a transaction has found fits when it begins.                        *)
LEMMA BeginFits ==
    ASSUME LocksInv, NEW t \in Txns, NEW kind \in Kinds, Begin(t, kind)
    PROVE  StartFits(t)' /\ DealFits(t)' /\ PermitFits(t)' /\ ChangeFits(t)'
<1>1. /\ txn'[t].kind = kind /\ txn'[t].at = 1 /\ txn'[t].held = {} /\ ~txn'[t].ok
      /\ dealRow' = dealRow /\ permitRow' = permitRow
  BY BeginEffect DEF LocksInv, Begin, NoEffect
<1>2. /\ \A row : ~Holds(t, row)'
      /\ Lock("permit", "change") \notin txn'[t].held
  BY <1>1 DEF Holds
<1>3. kind \in {"claim"} => permitRow # "none"
  BY DEF Begin
<1>4. kind \in {"complete", "settle"} => permitRow \in Claimed
  <2>1. kind = "complete" => permitRow = "executing"
    BY DEF Begin, PolicyChanges
  <2>2. kind = "settle" => permitRow \in Claimed
    BY DEF Begin, PolicyChanges
  <2>. QED
    BY <2>1, <2>2 DEF Claimed
<1>5. ~(1 > 1) /\ ~(1 > 3) /\ ~(1 > DealAt(kind))
  BY DEF DealAt
<1>6. StartFits(t)'
  BY <1>1, <1>2, <1>5 DEF StartFits
<1>7. DealFits(t)'
  BY <1>1, <1>5 DEF DealFits
<1>8. PermitFits(t)'
  BY <1>1, <1>3, <1>4, <1>5 DEF PermitFits
<1>9. ChangeFits(t)'
  BY <1>1, <1>2, <1>5 DEF ChangeFits
<1>. QED
  BY <1>6, <1>7, <1>8, <1>9

(* What a transaction has found fits when it passes a statement by.         *)
LEMMA SkipFits ==
    ASSUME LocksInv, NEW t \in Txns, Skip(t)
    PROVE  StartFits(t)' /\ DealFits(t)' /\ PermitFits(t)' /\ ChangeFits(t)'
<1>. DEFINE kind == txn[t].kind
            i == txn[t].at
            s == Statement(t)
            d == DealAt(kind)
<1>1. /\ txn'[t].kind = kind /\ txn'[t].at = i + 1 /\ txn'[t].held = txn[t].held
      /\ txn'[t].ok = txn[t].ok /\ dealRow' = dealRow /\ permitRow' = permitRow
  BY SkipEffect DEF LocksInv, Skip, NoEffect
<1>2. kind \in Kinds /\ i \in 1..Len(Statements(kind)) /\ s = Statements(kind)[i]
      /\ s.mode # "read"
  BY AtStatement DEF LocksInv, Skip, AtLock
<1>3. i \in Nat /\ d \in Nat
  BY <1>2, Lengths DEF DealAt
<1>4. \A row : Holds(t, row)' <=> Holds(t, row)
  BY <1>1 DEF Holds
<1>5. StartFits(t) /\ DealFits(t) /\ PermitFits(t) /\ ChangeFits(t)
  BY DEF LocksInv, TxnsFit
<1>6. Skipped(t)
  BY DEF Skip
<1>7. kind = "start" => i = 1
  <2>1. ASSUME kind = "start" PROVE s.row = "deal"
    BY <1>6, <2>1 DEF Skipped, PolicyChanges
  <2>2. kind = "start" => (s.row = "deal" <=> i = 1)
    BY <1>2, StatementFacts
  <2>. QED
    BY <2>1, <2>2
<1>8. kind \notin {"offer", "permit", "approve", "claim", "complete", "settle"}
  BY <1>6 DEF Skipped, PolicyChanges
<1>9. kind \in PolicyChanges =>
        /\ s.row = "deal" <=> i = d
        /\ s = Lock("permit", "change") <=> i = d + 1
  BY <1>2, StatementFacts
<1>10. /\ kind \in PolicyChanges /\ i = d => dealRow.status \notin Open
       /\ kind \in PolicyChanges /\ i = d + 1 =>
            ~Holds(t, "deal") \/ permitRow \notin Undecided
  <2>1. ASSUME kind \in PolicyChanges, i = d PROVE dealRow.status \notin Open
    <3>1. s.row = "deal"
      BY <1>9, <2>1
    <3>. QED
      BY <1>6, <2>1, <3>1 DEF Skipped, Lock, PolicyChanges
  <2>2. ASSUME kind \in PolicyChanges, i = d + 1
        PROVE  ~Holds(t, "deal") \/ permitRow \notin Undecided
    <3>1. s.row = "permit"
      BY <1>9, <2>2 DEF Lock
    <3>. QED
      BY <1>6, <2>2, <3>1 DEF Skipped, Undecided, PolicyChanges
  <2>. QED
    BY <2>1, <2>2
<1>. HIDE DEF kind, i, s, d
<1>11. StartFits(t)'
  <2>1. kind = "start" => ~(txn'[t].at > 3)
    BY <1>1, <1>7
  <2>. QED
    BY <1>1, <1>4, <1>5, <2>1 DEF StartFits, Expired, kind
<1>12. DealFits(t)'
  BY <1>1, <1>8 DEF DealFits
<1>13. PermitFits(t)'
  BY <1>1, <1>5, <1>8 DEF PermitFits, kind
<1>14. ChangeFits(t)'
  <2>1. SUFFICES ASSUME kind \in PolicyChanges PROVE ChangeFits(t)'
    BY <1>1 DEF ChangeFits
  <2>2. i + 1 > d => i > d \/ i = d
    BY <1>3
  <2>3. i + 1 > d + 1 => i > d + 1 \/ i = d + 1
    BY <1>3
  <2>4. i + 1 > d /\ ~Holds(t, "deal") => dealRow.status \notin Open
    BY <1>5, <1>10, <2>1, <2>2 DEF ChangeFits, kind, i, d
  <2>5. Holds(t, "deal") /\ i + 1 > d + 1 /\ Lock("permit", "change") \notin txn[t].held =>
            permitRow \notin Undecided
    BY <1>5, <1>10, <2>1, <2>3 DEF ChangeFits, kind, i, d
  <2>. QED
    BY <1>1, <1>4, <1>5, <2>1, <2>4, <2>5 DEF ChangeFits, kind, d
<1>. QED
  BY <1>11, <1>12, <1>13, <1>14
(* What a transaction has found fits when it takes a lock.                  *)
LEMMA TakeFits ==
    ASSUME LocksInv, NEW t \in Txns, TakeLock(t)
    PROVE  StartFits(t)' /\ DealFits(t)' /\ PermitFits(t)' /\ ChangeFits(t)'
<1>. DEFINE kind == txn[t].kind
            i == txn[t].at
            s == Statement(t)
            d == DealAt(kind)
<1>1. /\ txn'[t].kind = kind /\ txn'[t].at = i + 1 /\ txn'[t].held = txn[t].held \cup {s}
      /\ txn'[t].ok = txn[t].ok /\ dealRow' = dealRow /\ permitRow' = permitRow
  BY TakeLockEffect DEF LocksInv, TakeLock, NoEffect
<1>2. kind \in Kinds /\ i \in 1..Len(Statements(kind)) /\ s = Statements(kind)[i]
      /\ s.mode # "read"
  BY AtStatement DEF LocksInv, TakeLock, AtLock
<1>3. i \in Nat /\ d \in Nat /\ i > 0
  BY <1>2, Lengths DEF DealAt
<1>4. \A row : Holds(t, row)' <=> Holds(t, row) \/ s.row = row
  BY <1>1 DEF Holds
<1>5. StartFits(t) /\ DealFits(t) /\ PermitFits(t) /\ ChangeFits(t)
  BY DEF LocksInv, TxnsFit
<1>6. ~Skipped(t) /\ ~Stops(t)
  BY DEF TakeLock
<1>7. /\ kind = "start" => (s.row = "deal" <=> i = 1) /\ i # 3
      /\ kind \in {"offer", "permit"} => (s.row = "deal" <=> i = 1)
      /\ kind \in {"approve", "claim", "complete", "settle"} => (s.row = "permit" <=> i = 1)
      /\ kind \in PolicyChanges =>
            /\ s.row = "deal" <=> i = d
            /\ s = Lock("permit", "change") <=> i = d + 1
  BY <1>2, StatementFacts
<1>8. /\ kind = "start" /\ s.row = "deal" => Expired
      /\ kind = "offer" /\ s.row = "deal" => dealRow.status = "negotiating"
      /\ kind = "permit" /\ s.row = "deal" => dealRow.status = "accepted"
      /\ kind = "approve" /\ s.row = "permit" => permitRow = "pending_confirmation"
      /\ kind = "claim" /\ s.row = "permit" => permitRow \notin Claimed
      /\ kind \in PolicyChanges /\ s.row = "deal" => dealRow.status \in Open
      /\ kind \in PolicyChanges /\ s.row \in {"deal_head", "intent_head", "permit"} =>
            Holds(t, "deal")
      /\ kind \in PolicyChanges /\ s = Lock("permit", "change") => permitRow \in Undecided
  BY <1>6 DEF Skipped, Stops, Undecided
<1>. HIDE DEF kind, i, s, d
<1>9. StartFits(t)'
  <2>1. SUFFICES ASSUME kind = "start" PROVE StartFits(t)'
    BY <1>1 DEF StartFits
  <2>2. i + 1 > 3 => i > 3
    BY <1>3, <1>7, <2>1
  <2>3. Holds(t, "deal") \/ s.row = "deal" => Expired
    BY <1>5, <1>8, <2>1 DEF StartFits, kind
  <2>4. i + 1 > 3 /\ ~Holds(t, "deal") => dealRow.status = "none"
    BY <1>5, <2>1, <2>2 DEF StartFits, kind, i
  <2>. QED
    BY <1>1, <1>4, <2>1, <2>3, <2>4 DEF StartFits, Expired
<1>10. DealFits(t)'
  <2>1. i + 1 > 1 => i > 1 \/ i = 1
    BY <1>3
  <2>. QED
    BY <1>1, <1>5, <1>7, <1>8, <2>1 DEF DealFits, kind, i
<1>11. PermitFits(t)'
  <2>1. i + 1 > 1 => i > 1 \/ i = 1
    BY <1>3
  <2>2. kind = "approve" /\ i + 1 > 1 => permitRow = "pending_confirmation"
    BY <1>5, <1>7, <1>8, <2>1 DEF PermitFits, kind, i
  <2>3. kind = "claim" /\ i + 1 > 1 => permitRow \notin Claimed
    BY <1>5, <1>7, <1>8, <2>1 DEF PermitFits, kind, i
  <2>4. i > 3 => i + 1 > 3
    BY <1>3
  <2>. QED
    BY <1>1, <1>5, <2>2, <2>3, <2>4 DEF PermitFits, kind, i
<1>12. ChangeFits(t)'
  <2>1. SUFFICES ASSUME kind \in PolicyChanges PROVE ChangeFits(t)'
    BY <1>1 DEF ChangeFits
  <2>2. i + 1 > d => i > d \/ i = d
    BY <1>3
  <2>3. i + 1 > d + 1 => (i > d + 1 \/ i = d + 1) /\ i # d
    BY <1>3
  <2>4. Holds(t, "deal")' => dealRow.status \in Open
    BY <1>4, <1>5, <1>8, <2>1 DEF ChangeFits, kind
  <2>5. i + 1 > d /\ ~Holds(t, "deal")' => dealRow.status \notin Open
    BY <1>4, <1>5, <1>7, <2>1, <2>2 DEF ChangeFits, kind, i, d
  <2>6. Lock("permit", "change") \in txn'[t].held => permitRow \in Undecided
    BY <1>1, <1>5, <1>8, <2>1 DEF ChangeFits, kind
  <2>7. Holds(t, "deal")' /\ i + 1 > d + 1 /\ Lock("permit", "change") \notin txn'[t].held =>
            permitRow \notin Undecided
    BY <1>1, <1>4, <1>5, <1>7, <2>1, <2>3 DEF ChangeFits, kind, i, d
  <2>8. \A row \in {"intent_head", "deal_head", "permit"} :
            Holds(t, row)' => Holds(t, "deal")'
    BY <1>4, <1>5, <1>8, <2>1 DEF ChangeFits, kind
  <2>. QED
    BY <1>1, <2>1, <2>4, <2>5, <2>6, <2>7, <2>8 DEF ChangeFits, kind, d
<1>. QED
  BY <1>9, <1>10, <1>11, <1>12

(* What a transaction has found fits when it reads the policy.              *)
LEMMA ReadFits ==
    ASSUME LocksInv, NEW t \in Txns, ReadPolicy(t), PolicyServes(t)
    PROVE  StartFits(t)' /\ DealFits(t)' /\ PermitFits(t)' /\ ChangeFits(t)'
<1>. DEFINE kind == txn[t].kind
            i == txn[t].at
            s == Statement(t)
            d == DealAt(kind)
<1>1. /\ txn'[t].kind = kind /\ txn'[t].at = i + 1 /\ txn'[t].held = txn[t].held
      /\ txn'[t].ok <=> kind = "claim" /\ permitRow = "confirmed"
                        /\ ~dealRow.expired /\ Len(policies) = dealRow.policy
      /\ dealRow' = dealRow /\ permitRow' = permitRow
  BY ReadEffect DEF LocksInv, ReadPolicy, NoEffect
<1>2. kind \in Kinds /\ i \in 1..Len(Statements(kind)) /\ s = Statements(kind)[i]
  BY AtStatement DEF LocksInv, ReadPolicy
<1>3. s.mode = "read" /\ s.row = "policy"
  <2>1. s.mode = "read"
    BY DEF ReadPolicy, AtLock
  <2>. QED
    BY <1>2, <2>1, StatementFacts
<1>4. i \in Nat /\ d \in Nat /\ i > 0
  BY <1>2, Lengths DEF DealAt
<1>5. \A row : Holds(t, row)' <=> Holds(t, row)
  BY <1>1 DEF Holds
<1>6. StartFits(t) /\ DealFits(t) /\ PermitFits(t) /\ ChangeFits(t)
  BY DEF LocksInv, TxnsFit
<1>7. /\ kind = "start" => i \in {3, 6}
      /\ kind \in {"offer", "permit"} => i = 2
      /\ kind = "claim" => i = 3
      /\ kind \in {"approve", "claim", "complete", "settle"} => i # 1
      /\ kind \in PolicyChanges => i = ReadAt(kind)
  <2>1. kind = "start" => i \in {3, 6}
    BY <1>2, <1>3, StatementFacts
  <2>2. kind \in {"offer", "permit"} => i = 2
    BY <1>2, <1>3, StatementFacts
  <2>3. kind = "claim" => i = 3
    BY <1>2, <1>3, StatementFacts
  <2>4. kind \in {"approve", "claim", "complete", "settle"} => (s.row = "permit" <=> i = 1)
    BY <1>2, StatementFacts
  <2>5. i = ReadAt(kind) \/ (kind = "start" /\ i = 6)
    BY <1>2, <1>3, StatementFacts
  <2>6. kind \in PolicyChanges => kind # "start"
    BY DEF PolicyChanges
  <2>. QED
    BY <1>3, <2>1, <2>2, <2>3, <2>4, <2>5, <2>6
<1>8. kind = "start" /\ i = 3 => dealRow.status = "none" \/ Holds(t, "deal")
  <2>1. kind = "start" /\ i <= 3 => txn[t].seen = 0
    BY DEF LocksInv, PoliciesSeen
  <2>2. kind = "start" /\ txn[t].seen = 0 => dealRow.status = "none" \/ Holds(t, "deal")
    BY DEF PolicyServes
  <2>. QED
    BY <1>4, <2>1, <2>2
<1>9. permitRow = "confirmed" /\ ~dealRow.expired => dealRow.status \in Open
  BY DEF LocksInv, RowsFit, Undecided
<1>. HIDE DEF kind, i, s, d
<1>10. StartFits(t)'
  <2>1. kind = "start" => i = 3 \/ i > 3
    BY <1>7
  <2>. QED
    BY <1>1, <1>5, <1>6, <1>8, <2>1 DEF StartFits, Expired, kind, i
<1>11. DealFits(t)'
  <2>1. kind \in {"offer", "permit"} => i > 1
    BY <1>7
  <2>. QED
    BY <1>1, <1>6, <2>1 DEF DealFits, kind, i
<1>12. PermitFits(t)'
  <2>1. kind \in {"approve", "claim"} => i > 1
    BY <1>4, <1>7
  <2>2. kind = "claim" => i + 1 > 3
    BY <1>7
  <2>. QED
    BY <1>1, <1>6, <1>9, <2>1, <2>2 DEF PermitFits, kind, i
<1>13. ChangeFits(t)'
  <2>1. kind \in PolicyChanges => ~(i + 1 > d) /\ ~(i + 1 > d + 1)
    BY <1>7 DEF ReadAt, DealAt, PolicyChanges, d
  <2>. QED
    BY <1>1, <1>5, <1>6, <2>1 DEF ChangeFits, kind, d
<1>. QED
  BY <1>10, <1>11, <1>12, <1>13
(* Every step keeps what is committed together, and what each transaction   *)
(* has found.                                                               *)
LEMMA FitsStep ==
    ASSUME LocksInv, [RowLocksNext]_lockVars
    PROVE  RowsFit' /\ TxnsFit'
<1>1. /\ RowLocksTypeOK /\ Placed /\ RowsFit
      /\ \A t \in Txns : StartFits(t) /\ DealFits(t) /\ PermitFits(t) /\ ChangeFits(t)
  BY DEF LocksInv, TxnsFit
<1>2. ASSUME NEW u \in Txns, txn'[u] = txn[u], NoEffect
      PROVE  StartFits(u)' /\ DealFits(u)' /\ PermitFits(u)' /\ ChangeFits(u)'
  <2>1. \A row : Holds(u, row)' <=> Holds(u, row)
    BY <1>2 DEF Holds
  <2>2. StartFits(u)'
    BY <1>1, <1>2, <2>1 DEF StartFits, Expired, NoEffect
  <2>3. DealFits(u)' /\ PermitFits(u)'
    BY <1>1, <1>2 DEF DealFits, PermitFits, NoEffect
  <2>4. ChangeFits(u)'
    BY <1>1, <1>2, <2>1 DEF ChangeFits, NoEffect
  <2>. QED
    BY <2>2, <2>3, <2>4
<1>3. NoEffect => RowsFit'
  BY <1>1 DEF RowsFit, NoEffect
<1>4. ASSUME NEW t \in Txns, txn'[t] = NoTxn
      PROVE  StartFits(t)' /\ DealFits(t)' /\ PermitFits(t)' /\ ChangeFits(t)'
  BY <1>4 DEF NoTxn, StartFits, DealFits, PermitFits, ChangeFits, PolicyChanges
<1>5. ASSUME NEW t \in Txns, NEW kind \in Kinds, Begin(t, kind) PROVE RowsFit' /\ TxnsFit'
  <2>1. NoEffect /\ \A u \in Txns \ {t} : txn'[u] = txn[u]
    BY <1>1, <1>5, BeginEffect DEF Begin
  <2>. QED
    BY <1>2, <1>3, <1>5, <2>1, BeginFits DEF TxnsFit
<1>6. ASSUME NEW t \in Txns, Skip(t) PROVE RowsFit' /\ TxnsFit'
  <2>1. NoEffect /\ \A u \in Txns \ {t} : txn'[u] = txn[u]
    BY <1>1, <1>6, SkipEffect DEF Skip
  <2>. QED
    BY <1>2, <1>3, <1>6, <2>1, SkipFits DEF TxnsFit
<1>7. ASSUME NEW t \in Txns, TakeLock(t) PROVE RowsFit' /\ TxnsFit'
  <2>1. NoEffect /\ \A u \in Txns \ {t} : txn'[u] = txn[u]
    BY <1>1, <1>7, TakeLockEffect DEF TakeLock
  <2>. QED
    BY <1>2, <1>3, <1>7, <2>1, TakeFits DEF TxnsFit
<1>8. ASSUME NEW t \in Txns, ReadPolicy(t), PolicyServes(t) PROVE RowsFit' /\ TxnsFit'
  <2>1. NoEffect /\ \A u \in Txns \ {t} : txn'[u] = txn[u]
    BY <1>1, <1>8, ReadEffect DEF ReadPolicy
  <2>. QED
    BY <1>2, <1>3, <1>8, <2>1, ReadFits DEF TxnsFit
<1>9. ASSUME NEW t \in Txns, Commit(t) PROVE RowsFit' /\ TxnsFit'
  <2>1. txn'[t] = NoTxn /\ \A u \in Txns \ {t} : txn'[u] = txn[u]
    BY <1>1, <1>9, EndsEffect DEF Commit
  <2>2. \A u \in Txns \ {t} : StartFits(u)' /\ DealFits(u)' /\ PermitFits(u)' /\ ChangeFits(u)'
    BY <1>9, <2>1, CommitTxns
  <2>. QED
    BY <1>4, <1>9, <2>1, <2>2, CommitRows DEF TxnsFit
<1>10. ASSUME NEW t \in Txns, Ends(t), NoEffect PROVE RowsFit' /\ TxnsFit'
  <2>1. txn'[t] = NoTxn /\ \A u \in Txns \ {t} : txn'[u] = txn[u]
    BY <1>1, <1>10, EndsEffect
  <2>. QED
    BY <1>2, <1>3, <1>4, <1>10, <2>1 DEF TxnsFit
<1>11. ASSUME DealRunsOut PROVE RowsFit' /\ TxnsFit'
  <2>1. /\ dealRow.status \in Open /\ ~dealRow.expired
        /\ UNCHANGED <<policies, permitRow, chain, txn>>
    BY <1>11 DEF DealRunsOut
  <2>2. dealRow'.status = dealRow.status /\ dealRow'.policy = dealRow.policy
        /\ dealRow'.expired
    BY <1>1, <1>11 DEF DealRunsOut, RowLocksTypeOK
  <2>3. RowsFit'
    BY <1>1, <2>1, <2>2 DEF RowsFit
  <2>4. ASSUME NEW u \in Txns
        PROVE  StartFits(u)' /\ DealFits(u)' /\ PermitFits(u)' /\ ChangeFits(u)'
    <3>1. \A row : Holds(u, row)' <=> Holds(u, row)
      BY <2>1 DEF Holds
    <3>2. StartFits(u)'
      BY <1>1, <2>1, <2>2, <3>1 DEF StartFits, Expired
    <3>3. DealFits(u)' /\ PermitFits(u)'
      BY <1>1, <2>1, <2>2 DEF DealFits, PermitFits
    <3>4. ChangeFits(u)'
      BY <1>1, <2>1, <2>2, <3>1 DEF ChangeFits
    <3>. QED
      BY <3>2, <3>3, <3>4
  <2>. QED
    BY <2>3, <2>4 DEF TxnsFit
<1>12. ASSUME UNCHANGED lockVars PROVE RowsFit' /\ TxnsFit'
  BY <1>2, <1>3, <1>12 DEF lockVars, TxnsFit, NoEffect
<1>. QED
  BY <1>5, <1>6, <1>7, <1>8, <1>9, <1>10, <1>11, <1>12, StepCases

(* The invariant holds at the start and every step keeps it.                *)
LEMMA LocksInvInit == RowLocksInit => LocksInv
<1>. SUFFICES ASSUME RowLocksInit PROVE LocksInv
  OBVIOUS
<1>1. /\ policies = <<TRUE>> /\ permitRow = "none"
      /\ dealRow = [status |-> "none", policy |-> 0, expired |-> FALSE]
      /\ chain = [h \in Heads |-> <<>>] /\ txn = [t \in Txns |-> NoTxn]
  BY DEF RowLocksInit
<1>2. \A t \in Txns : txn[t] = NoTxn /\ txn[t].kind = "none" /\ txn[t].held = {}
                      /\ txn[t].ok = FALSE /\ ~InProgress(t)
  BY <1>1 DEF NoTxn, InProgress
<1>3. \A t \in Txns : \A row : ~Holds(t, row)
  BY <1>2 DEF Holds
<1>4. RowLocksTypeOK
  <2>1. policies \in Seq(BOOLEAN)
    BY <1>1
  <2>2. NoTxn \in TxnType
    BY DEF NoTxn, TxnType
  <2>3. txn \in [Txns -> TxnType]
    BY <1>1, <2>2
  <2>4. permitRow \in PermitRows
    BY <1>1 DEF PermitRows
  <2>5. dealRow \in [status : Open \cup {"none", "closed"}, policy : Nat, expired : BOOLEAN]
    BY <1>1
  <2>6. chain \in [Heads -> Seq(Nat)]
    BY <1>1
  <2>. QED
    BY <2>1, <2>3, <2>4, <2>5, <2>6 DEF RowLocksTypeOK, TxnType
<1>5. Placed /\ HeldPassed /\ PassedHeld /\ Exclusive
  BY <1>2 DEF Placed, HeldPassed, PassedHeld, Exclusive
<1>6. HeadsRead
  BY <1>3 DEF HeadsRead
<1>7. ChainUnbroken
  BY <1>1 DEF ChainUnbroken
<1>8. PoliciesSeen
  <2>1. policies # <<>>
    BY <1>1
  <2>. QED
    BY <1>2, <1>3, <2>1 DEF PoliciesSeen
<1>9. RowsFit
  BY <1>1 DEF RowsFit, Open, Undecided
<1>10. TxnsFit
  BY <1>2, <1>3 DEF TxnsFit, StartFits, DealFits, PermitFits, ChangeFits, PolicyChanges
<1>. QED
  BY <1>4, <1>5, <1>6, <1>7, <1>8, <1>9, <1>10 DEF LocksInv

(* The same for a step.                                                     *)
LEMMA LocksInvStep == LocksInv /\ [RowLocksNext]_lockVars => LocksInv'
<1>. SUFFICES ASSUME LocksInv, [RowLocksNext]_lockVars PROVE LocksInv'
  OBVIOUS
<1>1. RowLocksTypeOK' /\ Placed' /\ HeldPassed' /\ PassedHeld'
  BY TypeStep, PlacedStep, HeldStep DEF LocksInv
<1>2. Exclusive' /\ HeadsRead' /\ ChainUnbroken' /\ PoliciesSeen'
  BY ExclusiveStep, HeadsStep, PoliciesStep DEF LocksInv
<1>3. RowsFit' /\ TxnsFit'
  BY FitsStep
<1>. QED
  BY <1>1, <1>2, <1>3 DEF LocksInv

(* In every reachable state the locks are held as LocksInv says, whatever   *)
(* transactions run at once on however many connections.                    *)
THEOREM LocksInvariant == RowLocksSpec => []LocksInv
<1>1. RowLocksInit => LocksInv
  BY LocksInvInit
<1>2. LocksInv /\ [RowLocksNext]_lockVars => LocksInv'
  BY LocksInvStep
<1>. QED
  BY <1>1, <1>2, PTL DEF RowLocksSpec

(* No two events of an audit chain get the same sequence number and none is *)
(* left out: appendAudit reads the head it has locked (store.ts), and a     *)
(* COMMIT writes what it read plus one.                                     *)
THEOREM AuditChainsUnbroken == RowLocksSpec => []ChainUnbroken
<1>1. LocksInv => ChainUnbroken
  BY DEF LocksInv
<1>. QED
  BY <1>1, LocksInvariant, PTL
(* A COMMIT that starts an order or leaves a deal open does so under the    *)
(* policy that is the latest once it shows.                                 *)
LEMMA PolicyStep ==
    ASSUME LocksInv, [RowLocksNext]_lockVars,
           dealRow'.status \in Open \/ (permitRow # "executing" /\ permitRow' = "executing")
    PROVE  dealRow'.policy = Len(policies')
<1>1. RowsFit'
  BY FitsStep
<1>2. SUFFICES ASSUME permitRow # "executing", permitRow' = "executing"
               PROVE  dealRow'.status \in Open
  BY <1>1 DEF RowsFit
<1>3. PICK t \in Txns : Commit(t)
  BY <1>2, StepCases DEF Begin, Skip, TakeLock, ReadPolicy, NoEffect, DealRunsOut, lockVars
<1>4. permitRow' = PermitAfter(t) /\ AtEnd(t)
  BY <1>3 DEF Commit
<1>5. txn[t].kind = "claim" /\ txn[t].ok
  BY <1>2, <1>4 DEF PermitAfter, PolicyChanges
<1>6. dealRow.status \in Open
  BY <1>5 DEF LocksInv, TxnsFit, PermitFits
<1>7. dealRow' = dealRow
  BY <1>3, <1>5, CommitDeal DEF LocksInv, PolicyChanges
<1>. QED
  BY <1>6, <1>7

(* The policy a transaction read is still the latest when its COMMIT leaves *)
(* a deal open or claims a permit: the lock it keeps on the policy it names *)
(* or on the deal makes a change of the policy wait (deals.ts).             *)
THEOREM PolicyReadsHold == RowLocksSpec => PolicyReadHolds
<1>1. LocksInv /\ [RowLocksNext]_lockVars =>
        [dealRow'.status \in Open \/ (permitRow # "executing" /\ permitRow' = "executing")
            => dealRow'.policy = Len(policies')]_lockVars
  BY PolicyStep
<1>. QED
  BY <1>1, LocksInvariant, PTL DEF RowLocksSpec, PolicyReadHolds

-----------------------------------------------------------------------------
(* In which order the statements take their locks.                          *)
LEMMA LockOrder ==
    ASSUME NEW kind \in Kinds \ PolicyChanges,
           NEW i \in 1..Len(Statements(kind)), NEW j \in 1..Len(Statements(kind)),
           NEW s, s = Statements(kind)[i], s.mode # "read", NEW r, r = Statements(kind)[j]
    PROVE  /\ s.row \in {"product", "policy"} => s.mode = "key"
           /\ s.row \in {"product", "policy", "deal", "permit", "intent_head", "deal_head"}
           /\ s.row = "permit" => i = 1
           /\ s.row = "intent_head" =>
                i > 1 /\ kind \in {"approve", "claim", "complete", "settle"}
           /\ j < i /\ r.row = "deal_head" => s.row \in {"product", "policy"}
           /\ j < i /\ r.row = "deal" => s.row \notin {"deal", "permit"}
<1>1. CASE kind = "start"
  <2>1. Statements(kind) =
        <<Lock("deal", "change"), Lock("deal_head", "update"), Read, Lock("product", "key"),
          Lock("policy", "key"), Read>>
    BY <1>1, Tables, Zenon
  <2>2. \/ i = 1 /\ s = Lock("deal", "change")
        \/ i = 2 /\ s = Lock("deal_head", "update")
        \/ i = 4 /\ s = Lock("product", "key")
        \/ i = 5 /\ s = Lock("policy", "key")
    BY <2>1 DEF Read, Lock
  <2>3. j > 1 => r.row # "deal"
    BY <2>1 DEF Read, Lock
  <2>4. j = 1 => r.row = "deal"
    BY <2>1 DEF Read, Lock
  <2>. QED
    BY <1>1, <2>2, <2>3, <2>4 DEF Lock
<1>2. CASE kind = "offer"
  <2>1. Statements(kind) =
        <<Lock("deal", "update"), Read, Lock("deal_head", "update"), Lock("product", "key")>>
    BY <1>2, Tables, Zenon
  <2>2. \/ i = 1 /\ s = Lock("deal", "update")
        \/ i = 3 /\ s = Lock("deal_head", "update")
        \/ i = 4 /\ s = Lock("product", "key")
    BY <2>1 DEF Read, Lock
  <2>3. j # 3 => r.row # "deal_head"
    BY <2>1 DEF Read, Lock
  <2>. QED
    BY <1>2, <2>2, <2>3 DEF Lock
<1>3. CASE kind = "permit"
  <2>1. Statements(kind) =
        <<Lock("deal", "update"), Read, Lock("product", "key"), Lock("policy", "key"),
          Lock("deal_head", "update")>>
    BY <1>3, Tables, Zenon
  <2>2. \/ i = 1 /\ s = Lock("deal", "update")
        \/ i = 3 /\ s = Lock("product", "key")
        \/ i = 4 /\ s = Lock("policy", "key")
        \/ i = 5 /\ s = Lock("deal_head", "update")
    BY <2>1 DEF Read, Lock
  <2>3. j # 5 => r.row # "deal_head"
    BY <2>1 DEF Read, Lock
  <2>. QED
    BY <1>3, <2>2, <2>3 DEF Lock
<1>4. CASE kind = "approve"
  <2>1. Statements(kind) =
        <<Lock("permit", "change"), Lock("intent_head", "update"), Lock("deal_head", "update"),
          Lock("product", "key")>>
    BY <1>4, Tables, Zenon
  <2>2. \/ i = 1 /\ s = Lock("permit", "change")
        \/ i = 2 /\ s = Lock("intent_head", "update")
        \/ i = 3 /\ s = Lock("deal_head", "update")
        \/ i = 4 /\ s = Lock("product", "key")
    BY <2>1 DEF Lock
  <2>3. (j # 3 => r.row # "deal_head") /\ r.row # "deal"
    BY <2>1 DEF Lock
  <2>. QED
    BY <1>4, <2>2, <2>3 DEF Lock
<1>5. CASE kind = "claim"
  <2>1. Statements(kind) =
        <<Lock("permit", "update"), Lock("deal", "update"), Read, Lock("intent_head", "update"),
          Lock("deal_head", "update"), Lock("product", "key")>>
    BY <1>5, Tables, Zenon
  <2>2. \/ i = 1 /\ s = Lock("permit", "update")
        \/ i = 2 /\ s = Lock("deal", "update")
        \/ i = 4 /\ s = Lock("intent_head", "update")
        \/ i = 5 /\ s = Lock("deal_head", "update")
        \/ i = 6 /\ s = Lock("product", "key")
    BY <2>1 DEF Read, Lock
  <2>3. (j # 5 => r.row # "deal_head") /\ (j # 2 => r.row # "deal")
    BY <2>1 DEF Read, Lock
  <2>. QED
    BY <1>5, <2>2, <2>3 DEF Lock
<1>6. CASE kind = "complete"
  <2>1. Statements(kind) =
        <<Lock("permit", "change"), Lock("intent_head", "update"), Lock("deal_head", "update")>>
    BY <1>6, Tables, Zenon
  <2>2. \/ i = 1 /\ s = Lock("permit", "change")
        \/ i = 2 /\ s = Lock("intent_head", "update")
        \/ i = 3 /\ s = Lock("deal_head", "update")
    BY <2>1 DEF Lock
  <2>3. (j # 3 => r.row # "deal_head") /\ r.row # "deal"
    BY <2>1 DEF Lock
  <2>. QED
    BY <1>6, <2>1, <2>2, <2>3 DEF Lock
<1>7. CASE kind = "settle"
  <2>1. Statements(kind) =
        <<Lock("permit", "change"), Lock("intent_head", "update"), Lock("deal", "change"),
          Lock("deal_head", "update")>>
    BY <1>7, Tables, Zenon
  <2>2. \/ i = 1 /\ s = Lock("permit", "change")
        \/ i = 2 /\ s = Lock("intent_head", "update")
        \/ i = 3 /\ s = Lock("deal", "change")
        \/ i = 4 /\ s = Lock("deal_head", "update")
    BY <2>1 DEF Lock
  <2>3. (j # 4 => r.row # "deal_head") /\ (j # 3 => r.row # "deal")
    BY <2>1 DEF Lock
  <2>. QED
    BY <1>7, <2>1, <2>2, <2>3 DEF Lock
<1>. QED
  BY <1>1, <1>2, <1>3, <1>4, <1>5, <1>6, <1>7 DEF Kinds, PolicyChanges
(* A transaction that waits, the lock it waits for, and the one in its way. *)
LEMMA Waits ==
    ASSUME LocksInv, NEW t \in Txns, NEW u \in Txns, Blocks(u, t)
    PROVE  /\ u # t /\ ~Skipped(t) /\ txn[t].kind \in Kinds /\ txn[u].kind \in Kinds
           /\ txn[t].at \in 1..Len(Statements(txn[t].kind))
           /\ Statement(t) = Statements(txn[t].kind)[txn[t].at] /\ Statement(t).mode # "read"
           /\ \E l \in txn[u].held :
                /\ l.row = Statement(t).row /\ Conflict(l.mode, Statement(t).mode)
                /\ \E j \in 1..Len(Statements(txn[u].kind)) :
                    j < txn[u].at /\ l = Statements(txn[u].kind)[j] /\ l.mode # "read"
<1>1. u # t /\ AtLock(t) /\ ~Skipped(t)
  BY DEF Blocks
<1>2. /\ txn[t].kind \in Kinds /\ txn[t].at \in 1..Len(Statements(txn[t].kind))
      /\ Statement(t) = Statements(txn[t].kind)[txn[t].at] /\ Statement(t).mode # "read"
  BY <1>1, AtStatement DEF LocksInv, AtLock
<1>3. PICK l \in txn[u].held :
        l.row = Statement(t).row /\ Conflict(l.mode, Statement(t).mode)
  BY DEF Blocks
<1>4. \E j \in 1..Len(Statements(txn[u].kind)) :
        j < txn[u].at /\ l = Statements(txn[u].kind)[j] /\ l.mode # "read"
  BY DEF LocksInv, HeldPassed
<1>5. txn[u].kind \in Kinds
  BY <1>3, HeldFacts DEF LocksInv
<1>. QED
  BY <1>1, <1>2, <1>3, <1>4, <1>5

(* Only one transaction has the permit's row to decide about it.            *)
LEMMA OnePermit ==
    ASSUME LocksInv, NEW t \in Txns, NEW u \in Txns, t # u,
           txn[t].kind \in {"approve", "claim", "complete", "settle"}, txn[t].at > 1,
           txn[u].kind \in {"approve", "claim", "complete", "settle"}, txn[u].at > 1
    PROVE  FALSE
<1>1. PICK l \in txn[t].held : l.row = "permit" /\ l.mode \in {"update", "change"}
  <2>1. Lock("permit", "update") \in txn[t].held \/ Lock("permit", "change") \in txn[t].held
    BY Holding DEF LocksInv
  <2>. QED
    BY <2>1 DEF Lock
<1>2. PICK m \in txn[u].held : m.row = "permit" /\ m.mode \in {"update", "change"}
  <2>1. Lock("permit", "update") \in txn[u].held \/ Lock("permit", "change") \in txn[u].held
    BY Holding DEF LocksInv
  <2>. QED
    BY <2>1 DEF Lock
<1>3. Conflict(l.mode, m.mode)
  BY <1>1, <1>2 DEF Conflict
<1>. QED
  BY <1>1, <1>2, <1>3 DEF LocksInv, Exclusive

(* Without a policy change every group of transactions has one that none of *)
(* the others makes wait: the catalogue and the policy are only referred    *)
(* to, the deal's chain is locked after all that can make one wait, the     *)
(* intent's only by who has the permit, and the permit before everything.   *)
LEMMA NoDeadlockOfOthers ==
    ASSUME LocksInv, NEW group \in SUBSET {t \in Txns : InProgress(t)}, Stuck(group),
           \A t \in group : txn[t].kind \notin PolicyChanges
    PROVE  FALSE
<1>1. \A t \in group : t \in Txns /\ \E u \in group : Blocks(u, t)
  BY DEF Stuck
<1>. DEFINE row(t) == Statement(t).row
<1>2. ASSUME NEW t \in group
      PROVE  /\ row(t) \in {"product", "policy", "deal", "permit", "intent_head", "deal_head"}
             /\ row(t) \in {"product", "policy"} => Statement(t).mode = "key"
             /\ row(t) = "permit" => txn[t].at = 1
             /\ row(t) = "intent_head" =>
                    txn[t].at > 1 /\ txn[t].kind \in {"approve", "claim", "complete", "settle"}
  <2>1. PICK u \in group : Blocks(u, t)
    BY <1>1
  <2>2. /\ txn[t].kind \in Kinds \ PolicyChanges
        /\ txn[t].at \in 1..Len(Statements(txn[t].kind))
        /\ Statement(t) = Statements(txn[t].kind)[txn[t].at] /\ Statement(t).mode # "read"
    BY <1>1, <2>1, Waits
  <2>. QED
    BY <2>2, LockOrder
<1>3. ASSUME NEW t \in group, NEW u \in group, Blocks(u, t)
      PROVE  /\ row(t) \notin {"product", "policy"}
             /\ row(t) = "deal_head" => row(u) \in {"product", "policy"}
             /\ row(t) = "deal" => row(u) \notin {"deal", "permit"}
             /\ row(t) = "permit" => row(u) # "permit"
             /\ row(t) # "intent_head"
  <2>1. PICK l \in txn[u].held :
            /\ l.row = row(t) /\ Conflict(l.mode, Statement(t).mode)
            /\ \E j \in 1..Len(Statements(txn[u].kind)) :
                j < txn[u].at /\ l = Statements(txn[u].kind)[j] /\ l.mode # "read"
    BY <1>1, <1>3, Waits
  <2>2. PICK j \in 1..Len(Statements(txn[u].kind)) :
            j < txn[u].at /\ l = Statements(txn[u].kind)[j] /\ l.mode # "read"
    BY <2>1
  <2>3. PICK v \in group : Blocks(v, u)
    BY <1>1
  <2>4. /\ txn[u].kind \in Kinds \ PolicyChanges
        /\ txn[u].at \in 1..Len(Statements(txn[u].kind))
        /\ Statement(u) = Statements(txn[u].kind)[txn[u].at] /\ Statement(u).mode # "read"
    BY <1>1, <2>3, Waits
  <2>5. /\ l.row \in {"product", "policy"} => l.mode = "key"
        /\ l.row = "intent_head" =>
            j > 1 /\ txn[u].kind \in {"approve", "claim", "complete", "settle"}
    BY <2>2, <2>4, LockOrder
  <2>6. /\ l.row = "deal_head" => row(u) \in {"product", "policy"}
        /\ l.row = "deal" => row(u) \notin {"deal", "permit"}
    BY <2>2, <2>4, LockOrder
  <2>7. txn[u].at > 1
    <3>1. txn[u].at \in Nat /\ j \in Nat /\ j > 0 /\ j < txn[u].at
      BY <2>2, <2>4, Lengths
    <3>. QED
      BY <3>1
  <2>8. row(t) \notin {"product", "policy"}
    <3>1. ASSUME row(t) \in {"product", "policy"} PROVE FALSE
      <4>1. l.mode = "key" /\ Statement(t).mode = "key"
        BY <1>2, <2>1, <2>5, <3>1
      <4>. QED
        BY <2>1, <4>1 DEF Conflict
    <3>. QED
      BY <3>1
  <2>9. row(u) # "permit"
    <3>1. row(u) = "permit" => txn[u].at = 1
      BY <1>2
    <3>. QED
      BY <2>7, <3>1
  <2>10. row(t) # "intent_head"
    <3>1. ASSUME row(t) = "intent_head" PROVE FALSE
      <4>1. txn[t].at > 1 /\ txn[t].kind \in {"approve", "claim", "complete", "settle"}
        BY <1>2, <3>1
      <4>2. txn[u].kind \in {"approve", "claim", "complete", "settle"}
        BY <2>1, <2>5, <3>1
      <4>3. t # u
        BY <1>3 DEF Blocks
      <4>. QED
        BY <1>1, <2>7, <4>1, <4>2, <4>3, OnePermit
    <3>. QED
      BY <3>1
  <2>. QED
    BY <2>1, <2>6, <2>8, <2>9, <2>10
<1>. HIDE DEF row
<1>4. ASSUME NEW t \in group PROVE row(t) \notin {"product", "policy", "intent_head"}
  BY <1>1, <1>3
<1>5. ASSUME NEW t \in group PROVE row(t) # "deal_head"
  BY <1>1, <1>3, <1>4
<1>6. ASSUME NEW t \in group PROVE row(t) # "deal"
  <2>1. PICK u \in group : Blocks(u, t)
    BY <1>1
  <2>2. row(u) = "deal" \/ row(u) = "permit"
    BY <1>2, <1>4, <1>5
  <2>. QED
    BY <1>3, <2>1, <2>2
<1>7. ASSUME NEW t \in group PROVE FALSE
  <2>1. PICK u \in group : Blocks(u, t)
    BY <1>1
  <2>2. row(t) = "permit" /\ row(u) = "permit"
    BY <1>2, <1>4, <1>5, <1>6
  <2>. QED
    BY <1>3, <2>1, <2>2
<1>. QED
  BY <1>7 DEF Stuck
(* The statements of a provider's order.                                    *)
LEMMA CompleteOrder ==
    ASSUME NEW i \in 1..Len(Statements("complete"))
    PROVE  /\ i = 1 => Statements("complete")[i] = Lock("permit", "change")
           /\ i = 2 => Statements("complete")[i] = Lock("intent_head", "update")
           /\ i = 3 => Statements("complete")[i] = Lock("deal_head", "update")
           /\ i \in {1, 2, 3}
<1>1. Statements("complete") =
        <<Lock("permit", "change"), Lock("intent_head", "update"), Lock("deal_head", "update")>>
  BY Tables, Zenon
<1>2. PICK a, b, c : a = Lock("permit", "change") /\ b = Lock("intent_head", "update")
                     /\ c = Lock("deal_head", "update")
  OBVIOUS
<1>3. Statements("complete") = <<a, b, c>>
  BY <1>1, <1>2
<1>4. /\ Len(Statements("complete")) = 3 /\ Statements("complete")[1] = a
      /\ Statements("complete")[2] = b /\ Statements("complete")[3] = c
  BY <1>3
<1>. QED
  BY <1>2, <1>4

(* The same for the heads a policy change locks.                            *)
LEMMA ChangeOrder ==
    ASSUME NEW kind \in PolicyChanges, NEW i \in 1..Len(Statements(kind)),
           NEW s, s = Statements(kind)[i]
    PROVE  /\ s.row = "intent_head" => i = DealAt(kind) + 2
           /\ s.row = "deal_head" => i = DealAt(kind) + 4
<1>1. CASE kind = "save"
  <2>1. Statements(kind) =
        <<Lock("product", "update"), Read, Lock("version", "update"), Lock("deal", "change"),
          Lock("permit", "change"), Lock("intent_head", "update"), Lock("permit", "key"),
          Lock("deal_head", "update"), Lock("merchant_head", "update")>>
    BY <1>1, Tables, Zenon
  <2>2. (i # 6 => s.row # "intent_head") /\ (i # 8 => s.row # "deal_head")
    BY <2>1 DEF Lock, Read
  <2>. QED
    BY <1>1, <2>2 DEF DealAt
<1>2. CASE kind = "disable"
  <2>1. Statements(kind) =
        <<Read, Lock("policy", "update"), Lock("version", "update"), Lock("product", "key"),
          Lock("deal", "change"), Lock("permit", "change"), Lock("intent_head", "update"),
          Lock("permit", "key"), Lock("deal_head", "update"), Lock("merchant_head", "update")>>
    BY <1>2, Tables, Zenon
  <2>2. (i # 7 => s.row # "intent_head") /\ (i # 9 => s.row # "deal_head")
    BY <2>1 DEF Lock, Read
  <2>. QED
    BY <1>2, <2>2 DEF DealAt
<1>. QED
  BY <1>1, <1>2 DEF PolicyChanges

(* An order's COMMIT that waits has the permit, and what it waits for is    *)
(* the head of one of its two chains.                                       *)
LEMMA CompleteWaits ==
    ASSUME LocksInv, NEW t \in Txns, NEW u \in Txns, Blocks(u, t), txn[t].kind = "complete",
           txn[t].held # {}
    PROVE  /\ txn[t].at > 1 /\ permitRow \in Claimed
           /\ \/ txn[t].at = 2 /\ Statement(t).row = "intent_head"
              \/ txn[t].at = 3 /\ Statement(t).row = "deal_head"
           /\ \A l \in txn[t].held :
                \/ l = Lock("permit", "change")
                \/ l = Lock("intent_head", "update") /\ txn[t].at = 3
           /\ txn[u].kind # "complete"
<1>1. /\ u # t /\ txn[t].at \in 1..Len(Statements("complete"))
      /\ Statement(t) = Statements("complete")[txn[t].at]
  BY Waits
<1>2. \A l \in txn[t].held : \E j \in 1..Len(Statements("complete")) :
        j < txn[t].at /\ l = Statements("complete")[j]
  BY DEF LocksInv, HeldPassed
<1>3. txn[t].at \in {1, 2, 3}
  BY <1>1, CompleteOrder
<1>4. txn[t].at \in {2, 3}
  <2>1. PICK l \in txn[t].held : TRUE
    OBVIOUS
  <2>2. PICK j \in 1..Len(Statements("complete")) : j < txn[t].at
    BY <1>2, <2>1
  <2>3. j \in {1, 2, 3}
    BY CompleteOrder
  <2>. QED
    BY <1>3, <2>2, <2>3
<1>5. permitRow \in Claimed
  BY DEF LocksInv, TxnsFit, PermitFits
<1>6. \/ txn[t].at = 2 /\ Statement(t).row = "intent_head"
      \/ txn[t].at = 3 /\ Statement(t).row = "deal_head"
  BY <1>1, <1>4, CompleteOrder DEF Lock
<1>7. ASSUME NEW l \in txn[t].held
      PROVE  \/ l = Lock("permit", "change")
             \/ l = Lock("intent_head", "update") /\ txn[t].at = 3
  <2>1. PICK j \in 1..Len(Statements("complete")) :
            j < txn[t].at /\ l = Statements("complete")[j]
    BY <1>2
  <2>2. j \in {1, 2, 3}
    BY CompleteOrder
  <2>3. j = 1 \/ (j = 2 /\ txn[t].at = 3)
    BY <1>4, <2>1, <2>2
  <2>. QED
    BY <2>1, <2>3, CompleteOrder
<1>8. ASSUME txn[u].kind = "complete" PROVE FALSE
  <2>1. PICK l \in txn[u].held : l.row = Statement(t).row /\
            \E j \in 1..Len(Statements(txn[u].kind)) :
                j < txn[u].at /\ l = Statements(txn[u].kind)[j] /\ l.mode # "read"
    BY Waits
  <2>2. PICK j \in 1..Len(Statements("complete")) :
            j < txn[u].at /\ l = Statements("complete")[j]
    BY <1>8, <2>1
  <2>3. j \in Nat /\ j > 0 /\ txn[u].at \in Nat
    BY <2>2 DEF LocksInv, RowLocksTypeOK
  <2>4. txn[u].at > 1 /\ txn[t].at > 1
    BY <1>4, <2>2, <2>3
  <2>. QED
    BY <1>1, <1>8, <2>4, OnePermit
<1>9. txn[t].at > 1
  BY <1>4
<1>. QED
  BY <1>5, <1>6, <1>7, <1>8, <1>9

(* Whoever waits for an order's COMMIT while that waits in turn holds       *)
(* nothing.                                                                 *)
LEMMA CompleteHoldsUpNoHolder ==
    ASSUME LocksInv, NEW t \in Txns, NEW u \in Txns, NEW v \in Txns, NEW w \in Txns,
           Blocks(u, t), txn[u].kind = "complete", Blocks(v, u), Blocks(w, v),
           txn[t].kind # "complete"
    PROVE  txn[t].held = {}
<1>. SUFFICES ASSUME txn[t].held # {} PROVE FALSE
  OBVIOUS
<1>1. /\ u # t /\ ~Skipped(t) /\ txn[t].kind \in Kinds
      /\ txn[t].at \in 1..Len(Statements(txn[t].kind))
      /\ Statement(t) = Statements(txn[t].kind)[txn[t].at] /\ Statement(t).mode # "read"
  BY Waits
<1>2. PICK l \in txn[u].held :
        l.row = Statement(t).row /\ Conflict(l.mode, Statement(t).mode)
  BY Waits
<1>3. /\ txn[u].at > 1 /\ permitRow \in Claimed
      /\ \/ txn[u].at = 2 /\ Statement(u).row = "intent_head"
         \/ txn[u].at = 3 /\ Statement(u).row = "deal_head"
      /\ \/ l = Lock("permit", "change")
         \/ l = Lock("intent_head", "update") /\ txn[u].at = 3
  BY <1>2, CompleteWaits
<1>4. txn[t].at > 1
  <2>1. PICK m \in txn[t].held : TRUE
    OBVIOUS
  <2>2. PICK j \in 1..Len(Statements(txn[t].kind)) : j < txn[t].at
    BY <2>1 DEF LocksInv, HeldPassed
  <2>3. j \in Nat /\ j > 0 /\ txn[t].at \in Nat
    BY <2>2 DEF LocksInv, RowLocksTypeOK
  <2>. QED
    BY <2>2, <2>3
<1>5. txn[t].kind \notin {"approve", "claim", "complete", "settle"}
  BY <1>1, <1>3, <1>4, OnePermit
<1>6. l # Lock("permit", "change")
  <2>1. SUFFICES ASSUME l = Lock("permit", "change") PROVE FALSE
    OBVIOUS
  <2>2. Statement(t).row = "permit" /\ Statement(t).mode # "key"
    BY <1>2, <2>1 DEF Lock, Conflict
  <2>3. txn[t].kind \in PolicyChanges
    <3>1. ASSUME txn[t].kind \notin PolicyChanges PROVE FALSE
      <4>1. txn[t].at = 1
        BY <1>1, <2>2, <3>1, LockOrder
      <4>. QED
        BY <1>4, <4>1
    <3>. QED
      BY <3>1
  <2>4. Statement(t) = Lock("permit", "change")
    BY <1>1, <2>2, <2>3, StatementFacts
  <2>5. permitRow \in {"pending_confirmation", "confirmed"}
    BY <1>1, <2>2, <2>3, <2>4 DEF Skipped
  <2>. QED
    BY <1>3, <2>5 DEF Claimed
<1>7. Statement(t).row = "intent_head" /\ txn[u].at = 3 /\ Statement(u).row = "deal_head"
  BY <1>2, <1>3, <1>6 DEF Lock
<1>8. txn[t].kind \in PolicyChanges
  BY <1>1, <1>5, <1>7, LockOrder
<1>9. Holds(t, "deal") /\ txn[t].at = DealAt(txn[t].kind) + 2
  <2>1. Holds(t, "deal")
    BY <1>1, <1>7, <1>8 DEF Skipped
  <2>2. txn[t].at = DealAt(txn[t].kind) + 2
    BY <1>1, <1>7, <1>8, ChangeOrder
  <2>. QED
    BY <2>1, <2>2
<1>10. /\ v # u /\ txn[v].kind \in Kinds
       /\ Statement(v) = Statements(txn[v].kind)[txn[v].at] /\ Statement(v).mode # "read"
       /\ txn[v].at \in 1..Len(Statements(txn[v].kind))
  BY Waits
<1>11. PICK m \in txn[v].held :
        /\ m.row = "deal_head"
        /\ \E j \in 1..Len(Statements(txn[v].kind)) :
            j < txn[v].at /\ m = Statements(txn[v].kind)[j] /\ m.mode # "read"
  BY <1>7, Waits
<1>12. PICK j \in 1..Len(Statements(txn[v].kind)) :
        j < txn[v].at /\ m = Statements(txn[v].kind)[j] /\ m.mode # "read"
  BY <1>11
<1>13. j \in Nat /\ j > 0 /\ txn[v].at \in Nat /\ txn[v].at > 1
  <2>1. j \in Nat /\ j > 0 /\ txn[v].at \in Nat
    BY <1>12 DEF LocksInv, RowLocksTypeOK
  <2>. QED
    BY <1>12, <2>1
<1>14. txn[v].kind \notin {"approve", "claim", "complete", "settle"}
  BY <1>3, <1>10, <1>13, OnePermit
<1>15. v # t
  <2>1. SUFFICES ASSUME v = t PROVE FALSE
    OBVIOUS
  <2>2. j = DealAt(txn[t].kind) + 4
    BY <1>8, <1>11, <1>12, <2>1, ChangeOrder
  <2>3. j < DealAt(txn[t].kind) + 2
    BY <1>9, <1>12, <2>1
  <2>4. DealAt(txn[t].kind) \in Nat
    BY DEF DealAt
  <2>. QED
    BY <2>2, <2>3, <2>4
<1>16. ~Holds(v, "deal")
  BY <1>9, <1>15, Alone DEF LocksInv
<1>17. txn[v].kind \notin PolicyChanges
  <2>1. Holds(v, "deal_head")
    BY <1>11 DEF Holds
  <2>. QED
    BY <1>16, <2>1 DEF LocksInv, TxnsFit, ChangeFits
<1>18. txn[v].kind \notin {"offer", "permit"}
  <2>1. ASSUME txn[v].kind \in {"offer", "permit"} PROVE FALSE
    <3>1. Lock("deal", "update") \in txn[v].held
      BY <1>13, <2>1, Holding DEF LocksInv
    <3>. QED
      BY <1>16, <3>1 DEF Holds, Lock
  <2>. QED
    BY <2>1
<1>19. txn[v].kind = "start"
  BY <1>10, <1>14, <1>17, <1>18 DEF Kinds, PolicyChanges
<1>20. txn[v].at > 3
  <2>1. Statement(v).row \in {"product", "policy"}
    BY <1>10, <1>11, <1>12, <1>17, LockOrder
  <2>2. /\ txn[v].at # 1 /\ txn[v].at # 3
    <3>1. Statement(v).mode = "read" <=> txn[v].at \in {3, 6}
      BY <1>10, <1>19, StatementFacts
    <3>. QED
      BY <1>10, <1>13, <3>1
  <2>3. j = 2
    <3>1. Statements("start") =
            <<Lock("deal", "change"), Lock("deal_head", "update"), Read, Lock("product", "key"),
              Lock("policy", "key"), Read>>
      BY Tables, Zenon
    <3>2. j \in {1, 2, 3, 4, 5, 6}
      BY <1>12, <1>19, <3>1
    <3>. QED
      BY <1>11, <1>12, <1>19, <3>1, <3>2 DEF Lock, Read
  <2>. QED
    BY <1>12, <1>13, <2>2, <2>3
<1>21. permitRow = "none"
  BY <1>16, <1>19, <1>20 DEF LocksInv, TxnsFit, StartFits, RowsFit
<1>. QED
  BY <1>3, <1>21 DEF Claimed

(* The two halves of what is said of deadlocks.                             *)
LEMMA DeadlockFacts == LocksInv => DeadlocksNeedPolicyChange
<1>. SUFFICES ASSUME LocksInv, NEW group \in SUBSET {t \in Txns : InProgress(t)}, Stuck(group)
              PROVE  /\ \E t \in group : txn[t].kind \in PolicyChanges
                     /\ Stuck({t \in group : txn[t].kind # "complete" /\ txn[t].held # {}})
  BY DEF DeadlocksNeedPolicyChange
<1>1. \E t \in group : txn[t].kind \in PolicyChanges
  BY NoDeadlockOfOthers
<1>2. \A t \in group : t \in Txns /\ \E u \in group : Blocks(u, t)
  BY DEF Stuck
<1>3. \A t, u \in group : Blocks(u, t) => txn[u].held # {}
  BY DEF Blocks
<1>. DEFINE core == {t \in group : txn[t].kind # "complete" /\ txn[t].held # {}}
<1>4. core # {}
  <2>1. PICK t \in group : TRUE
    BY DEF Stuck
  <2>2. PICK u \in group : Blocks(u, t)
    BY <1>2
  <2>3. PICK v \in group : Blocks(v, u)
    BY <1>2
  <2>4. txn[u].held # {} /\ txn[v].held # {}
    BY <1>3, <2>2, <2>3
  <2>5. txn[u].kind = "complete" => txn[v].kind # "complete"
    BY <1>2, <2>3, <2>4, CompleteWaits
  <2>. QED
    BY <2>4, <2>5
<1>5. ASSUME NEW t \in core PROVE \E u \in core : Blocks(u, t)
  <2>1. PICK u \in group : Blocks(u, t)
    BY <1>2
  <2>2. PICK v \in group : Blocks(v, u)
    BY <1>2
  <2>3. PICK w \in group : Blocks(w, v)
    BY <1>2
  <2>4. txn[u].kind # "complete"
    BY <1>2, <1>5, <2>1, <2>2, <2>3, CompleteHoldsUpNoHolder
  <2>5. txn[u].held # {}
    BY <1>3, <2>1
  <2>. QED
    BY <2>1, <2>4, <2>5
<1>6. Stuck(core)
  BY <1>4, <1>5 DEF Stuck
<1>. QED
  BY <1>1, <1>6

(* Transactions about one deal deadlock only when a change of the policy is *)
(* among them (invalidateOpenDeals locks the deal before its permit, an     *)
(* approval and a claim the permit first), and never over the COMMIT of a   *)
(* provider's order, for however many connections.                          *)
THEOREM DeadlockNeedsPolicyChange == RowLocksSpec => []DeadlocksNeedPolicyChange
<1>1. LocksInv => DeadlocksNeedPolicyChange
  BY DeadlockFacts
<1>. QED
  BY <1>1, LocksInvariant, PTL
=============================================================================
