--------------------------- MODULE PlatformProofs ---------------------------
(***************************************************************************)
(* Proofs about the extension's tokens, the members of a merchant and the  *)
(* catalogue, for any number of calls, users, synchronisations, requests   *)
(* and tabs, and about the four components of MCPlatform together.         *)
(***************************************************************************)
EXTENDS MCPlatform, RowLocksProofs, FiniteSetTheorems

-----------------------------------------------------------------------------
(* A family is numbered by its first pair; a refresh under way has locked   *)
(* the one row it consumes, and no family has two pairs that live.          *)
LivePair(p) == ~pairs[p].revoked /\ ~pairs[p].consumed
TokensHeld ==
    /\ stored <= Len(pairs)
    /\ \A p \in DOMAIN pairs : pairs[p].family <= p
    /\ \A c \in Calls :
        /\ call[c].rows \subseteq DOMAIN pairs
        /\ call[c].at # "idle" => call[c].pair \in DOMAIN pairs
        /\ call[c].at = "consume" => LivePair(call[c].pair)
    /\ \A c, d \in Calls :
        c # d /\ call[c].at \in {"consume", "reuse"} /\ call[d].at \in {"consume", "reuse"}
            => call[c].pair # call[d].pair
    /\ \A p, q \in DOMAIN pairs :
        pairs[p].family = pairs[q].family /\ LivePair(p) /\ LivePair(q) => p = q
TokensInv == TokensTypeOK /\ TokensHeld

(* What the product, the requests and the permit hold of each other.        *)
ProductMirrors ==
    IF Synchronised
    THEN product # NoProduct =>
            /\ product.mirrors \in 1..Len(shop)
            /\ product.active => shop[product.mirrors] = [price |-> product.price, on |-> TRUE]
    ELSE product.mirrors = 0
Observations ==
    /\ Len(shop) \in 1..MaxShop
    /\ \A y \in Syncs : fetched[y] <= Len(shop) /\ (fetched[y] # 0 => Synchronised)
    /\ \A r \in Requests :
        /\ request[r].seen <= Len(shop) /\ (request[r].seen # 0 => Synchronised)
        /\ request[r].at = "fetch" => Synchronised
        /\ request[r].at = "refresh" => request[r].seen # 0
    /\ Ordered /\ Synchronised => order.mirrors \in 1..Len(shop)
(* A request that nothing raced has the newest observation still to store.  *)
NotOvertaken ==
    \A r \in Requests : request[r].at \in {"refresh", "claim"} /\ ~request[r].raced =>
        /\ \A y \in Syncs : fetched[y] # 0 => fetched[y] >= request[r].seen
        /\ \A o \in Requests : request[o].at = "refresh" => request[o].seen >= request[r].seen
        /\ request[r].at = "claim" => product.mirrors >= request[r].seen
PermitStands ==
    /\ permit.status # "none" => Exists
    /\ \A r \in Requests : request[r].at # "idle" => permit.status # "none"
    /\ permit.confirmed => approval.session = "used" /\ permit.status # "none"
    /\ permit.status = "none" => approval.session = "none" /\ ~Ordered
    /\ approval.link = "unused" => approval.session = "none"
CatalogInv ==
    CatalogTypeOK /\ ProductMirrors /\ Observations /\ NotOvertaken /\ PermitStands
    /\ OrderHonoursMandate
-----------------------------------------------------------------------------
(* What the types say of the pairs and the calls.                           *)
CallType == [at : CallSteps, pair : 0..MaxPairs, rows : SUBSET (1..MaxPairs)]
(* The types of the rows, one by one.                                       *)
LEMMA TokenRows ==
    ASSUME TokensInv
    PROVE  /\ Len(pairs) \in Nat /\ Len(pairs) <= MaxPairs /\ MaxPairs \in Nat
           /\ DOMAIN pairs = 1..Len(pairs) /\ DOMAIN pairs \subseteq 1..MaxPairs
           /\ \A p \in DOMAIN pairs : pairs[p] \in Pair
           /\ call \in [Calls -> CallType]
           /\ stored \in 0..Len(pairs)
<1>1. pairs \in Seq(Pair) /\ Len(pairs) <= MaxPairs /\ stored \in 0..MaxPairs
  BY DEF TokensInv, TokensTypeOK
<1>2. Len(pairs) \in Nat /\ DOMAIN pairs = 1..Len(pairs) /\ MaxPairs \in Nat
  BY <1>1, TokensAssumption
<1>3. \A p \in DOMAIN pairs : pairs[p] \in Pair
  BY <1>1, <1>2, ElementOfSeq
<1>4. call \in [Calls -> CallType]
  BY DEF TokensInv, TokensTypeOK, CallType
<1>5. stored \in 0..Len(pairs)
  BY <1>1, <1>2 DEF TokensInv, TokensHeld
<1>. QED
  BY <1>1, <1>2, <1>3, <1>4, <1>5

(* A step of a call that leaves the pairs alone.                            *)
LEMMA CallMoves ==
    ASSUME TokensInv, NEW c \in Calls, NEW place \in CallSteps, NEW p \in 0..MaxPairs,
           NEW rows \in SUBSET DOMAIN pairs, Step(c, place, p, rows),
           UNCHANGED <<code, pairs>>, stored' \in 0..Len(pairs),
           place # "idle" => p \in DOMAIN pairs,
           place = "consume" => LivePair(p),
           place \in {"consume", "reuse"} =>
                \A d \in Calls \ {c} : call[d].at \in {"consume", "reuse"} => call[d].pair # p
    PROVE  TokensInv'
<1>. DEFINE next == [at |-> place, pair |-> p, rows |-> rows]
<1>1. next \in CallType
  BY TokenRows DEF CallType
<1>2. /\ call' \in [Calls -> CallType] /\ call'[c] = next
      /\ \A d \in Calls \ {c} : call'[d] = call[d]
  BY <1>1, TokenRows DEF Step
<1>3. TokensTypeOK'
  <2>1. stored' \in 0..MaxPairs
    BY TokenRows
  <2>. QED
    BY <1>2, <2>1 DEF TokensInv, TokensTypeOK, CallType
<1>4. call'[c].at = place /\ call'[c].pair = p /\ call'[c].rows = rows
  BY <1>2
<1>5. \A q : LivePair(q)' <=> LivePair(q)
  BY DEF LivePair
<1>6. ASSUME NEW d \in Calls
      PROVE  /\ call'[d].rows \subseteq DOMAIN pairs
             /\ call'[d].at # "idle" => call'[d].pair \in DOMAIN pairs
             /\ call'[d].at = "consume" => LivePair(call'[d].pair)
  <2>1. CASE d = c
    BY <1>4, <2>1
  <2>2. CASE d # c
    BY <1>2, <2>2 DEF TokensInv, TokensHeld
  <2>. QED
    BY <2>1, <2>2
<1>7. ASSUME NEW d \in Calls, NEW e \in Calls, d # e, call'[d].at \in {"consume", "reuse"},
             call'[e].at \in {"consume", "reuse"}
      PROVE  call'[d].pair # call'[e].pair
  <2>1. CASE d = c
    BY <1>2, <1>4, <1>7, <2>1
  <2>2. CASE e = c
    BY <1>2, <1>4, <1>7, <2>2
  <2>3. CASE d # c /\ e # c
    BY <1>2, <1>7, <2>3 DEF TokensInv, TokensHeld
  <2>. QED
    BY <2>1, <2>2, <2>3
<1>8. TokensHeld'
  <2>1. stored' <= Len(pairs)
    BY TokenRows
  <2>. QED
    BY <1>5, <1>6, <1>7, <2>1 DEF TokensInv, TokensHeld
<1>. QED
  BY <1>3, <1>8 DEF TokensInv

(* A step that changes rows of tokens and no call's place in a refresh.     *)
LEMMA RowsAge ==
    ASSUME TokensInv, pairs' \in Seq(Pair), Len(pairs') = Len(pairs),
           \A q \in DOMAIN pairs : pairs'[q].family = pairs[q].family
                                   /\ (LivePair(q)' => LivePair(q)),
           code' = code, stored' = stored, call' \in [Calls -> CallType],
           \A d \in Calls :
                /\ call'[d].rows \subseteq call[d].rows
                /\ call'[d].at # "idle" => call[d].at # "idle" /\ call'[d].pair = call[d].pair
                /\ call'[d].at \in {"consume", "reuse"} => call'[d].at = call[d].at
                /\ call'[d].at = "consume" => LivePair(call[d].pair)'
    PROVE  TokensInv'
<1>1. DOMAIN pairs' = DOMAIN pairs /\ DOMAIN pairs = 1..Len(pairs)
  BY TokenRows
<1>2. TokensTypeOK'
  BY DEF TokensInv, TokensTypeOK, CallType
<1>3. TokensHeld'
  <2>1. \A d \in Calls :
            /\ call[d].rows \subseteq DOMAIN pairs
            /\ call[d].at # "idle" => call[d].pair \in DOMAIN pairs
    BY DEF TokensInv, TokensHeld
  <2>2. \A d \in Calls :
            /\ call'[d].rows \subseteq DOMAIN pairs'
            /\ call'[d].at # "idle" => call'[d].pair \in DOMAIN pairs'
    BY <1>1, <2>1
  <2>3. \A d \in Calls : call'[d].at = "consume" => LivePair(call[d].pair)' /\ call'[d].pair = call[d].pair
    OBVIOUS
  <2>4. ASSUME NEW d \in Calls, call'[d].at = "consume"
        PROVE  ~pairs'[call'[d].pair].revoked /\ ~pairs'[call'[d].pair].consumed
    BY <2>3, <2>4 DEF LivePair
  <2>5. ASSUME NEW d \in Calls, NEW e \in Calls, d # e, call'[d].at \in {"consume", "reuse"},
               call'[e].at \in {"consume", "reuse"}
        PROVE  call'[d].pair # call'[e].pair
    BY <2>5 DEF TokensInv, TokensHeld
  <2>6. ASSUME NEW p \in DOMAIN pairs, NEW q \in DOMAIN pairs,
               pairs'[p].family = pairs'[q].family, LivePair(p)', LivePair(q)'
        PROVE  p = q
    BY <2>6 DEF TokensInv, TokensHeld
  <2>7. \A p \in DOMAIN pairs : pairs'[p].family <= p
    BY DEF TokensInv, TokensHeld
  <2>8. stored' <= Len(pairs')
    BY DEF TokensInv, TokensHeld
  <2>. QED
    BY <1>1, <2>2, <2>4, <2>5, <2>6, <2>7, <2>8 DEF TokensHeld, LivePair
<1>. QED
  BY <1>2, <1>3 DEF TokensInv
(* The code's exchange begins a family no pair has.                         *)
LEMMA ExchangeCodeStep ==
    ASSUME TokensInv, ExchangeCode
    PROVE  TokensInv' /\ Len(pairs') = Len(pairs) + 1 /\ pairs'[Len(pairs) + 1].family = Len(pairs) + 1
<1>. DEFINE n == Len(pairs)
            new == NewPair(n + 1)
<1>1. /\ n \in Nat /\ n < MaxPairs /\ MaxPairs \in Nat /\ pairs \in Seq(Pair)
      /\ DOMAIN pairs = 1..n /\ \A p \in 1..n : pairs[p] \in Pair
      /\ pairs' = Append(pairs, new) /\ call' = call /\ stored' \in {n + 1, stored}
      /\ code' \in CodeStatuses
  BY TokenRows DEF ExchangeCode, TokensInv, TokensTypeOK, CodeStatuses
<1>2. new \in Pair /\ new.family = n + 1
  BY <1>1 DEF Pair, NewPair
<1>. HIDE DEF n, new
<1>3. /\ pairs' \in Seq(Pair) /\ Len(pairs') = n + 1 /\ pairs'[n + 1] = new
      /\ \A p \in 1..n : pairs'[p] = pairs[p]
  BY <1>1, <1>2 DEF n
<1>4. DOMAIN pairs' = 1..(n + 1)
  BY <1>3
<1>5. TokensTypeOK'
  <2>1. stored' \in 0..MaxPairs
    BY <1>1 DEF TokensInv, TokensTypeOK
  <2>. QED
    BY <1>1, <1>3, <2>1 DEF TokensInv, TokensTypeOK
<1>6. \A p \in 1..n : p \in 1..(n + 1) /\ p # n + 1 /\ p <= n
  BY <1>1
<1>7. \A p \in 1..(n + 1) : p \in 1..n \/ p = n + 1
  BY <1>1
<1>8. \A p \in 1..n : pairs[p].family <= p /\ pairs[p].family \in Nat
  BY <1>1 DEF TokensInv, TokensHeld, Pair
<1>9. \A p \in 1..n : pairs[p].family # n + 1
  BY <1>1, <1>8
<1>10. TokensHeld'
  <2>1. stored' <= Len(pairs')
    BY <1>1, <1>3, TokenRows DEF n
  <2>2. \A p \in DOMAIN pairs' : pairs'[p].family <= p
    BY <1>1, <1>2, <1>3, <1>4, <1>7, <1>8
  <2>3. ASSUME NEW c \in Calls
        PROVE  /\ call'[c].rows \subseteq DOMAIN pairs'
               /\ call'[c].at # "idle" => call'[c].pair \in DOMAIN pairs'
               /\ call'[c].at = "consume" => LivePair(call[c].pair)'
    <3>1. /\ call[c].rows \subseteq 1..n
          /\ call[c].at # "idle" => call[c].pair \in 1..n
          /\ call[c].at = "consume" => call[c].pair \in 1..n /\ LivePair(call[c].pair)
      BY <1>1 DEF TokensInv, TokensHeld
    <3>. QED
      BY <1>1, <1>3, <1>4, <1>6, <3>1 DEF LivePair
  <2>4. \A c, d \in Calls :
            c # d /\ call'[c].at \in {"consume", "reuse"} /\ call'[d].at \in {"consume", "reuse"}
                => call'[c].pair # call'[d].pair
    BY <1>1 DEF TokensInv, TokensHeld
  <2>5. ASSUME NEW p \in 1..(n + 1), NEW q \in 1..(n + 1), pairs'[p].family = pairs'[q].family,
               LivePair(p)', LivePair(q)'
        PROVE  p = q
    <3>1. CASE p \in 1..n /\ q \in 1..n
      BY <1>1, <1>3, <2>5, <3>1 DEF TokensInv, TokensHeld, LivePair
    <3>2. CASE p = n + 1 \/ q = n + 1
      BY <1>2, <1>3, <1>7, <1>9, <2>5, <3>2
    <3>. QED
      BY <1>7, <3>1, <3>2
  <2>6. \A c \in Calls : call'[c].at = "consume" =>
            ~pairs'[call'[c].pair].revoked /\ ~pairs'[call'[c].pair].consumed
    BY <1>1, <2>3 DEF LivePair
  <2>. QED
    BY <1>4, <2>1, <2>2, <2>3, <2>4, <2>5, <2>6 DEF TokensHeld, LivePair
<1>. QED
  BY <1>2, <1>3, <1>5, <1>10 DEF TokensInv, n

(* A refresh puts a pair in the place of the one it consumes, which was the *)
(* only one of its family that lived.                                       *)
LEMMA IssueTokensStep ==
    ASSUME TokensInv, NEW c \in Calls, IssueTokens(c)
    PROVE  /\ TokensInv' /\ Len(pairs') = Len(pairs) + 1
           /\ pairs'[Len(pairs) + 1].family = pairs[call[c].pair].family
           /\ call[c].pair \in DOMAIN pairs /\ Live(pairs[call[c].pair].family) = {call[c].pair}
           /\ pairs'[call[c].pair].consumed
<1>. DEFINE n == Len(pairs)
            old == call[c].pair
            spent == [pairs[old] EXCEPT !.consumed = TRUE]
            new == NewPair(pairs[old].family)
<1>1. /\ n \in Nat /\ n < MaxPairs /\ MaxPairs \in Nat /\ pairs \in Seq(Pair)
      /\ DOMAIN pairs = 1..n /\ \A p \in 1..n : pairs[p] \in Pair
      /\ code' = code /\ stored' = stored /\ call[c].at = "consume"
      /\ Step(c, "answered", n + 1, {})
  BY TokenRows DEF IssueTokens, TokensInv, TokensTypeOK
<1>2. pairs' = Append([pairs EXCEPT ![old] = spent], new)
  BY DEF IssueTokens
<1>3. old \in 1..n /\ LivePair(old)
  BY <1>1 DEF TokensInv, TokensHeld
<1>4. pairs[old] \in Pair
  BY <1>1, <1>3
<1>5. /\ spent \in Pair /\ spent.family = pairs[old].family /\ spent.consumed
      /\ new \in Pair /\ new.family = pairs[old].family
  <2>1. PICK x \in Pair : x = pairs[old]
    BY <1>4
  <2>2. spent = [x EXCEPT !.consumed = TRUE]
    BY <2>1
  <2>3. spent \in Pair /\ spent.family = x.family /\ spent.consumed
    BY <2>2 DEF Pair
  <2>4. new \in Pair /\ new.family = x.family
    BY <2>1 DEF Pair, NewPair
  <2>. QED
    BY <2>1, <2>3, <2>4
<1>. HIDE DEF n, old, spent, new
<1>6. PICK rest \in Seq(Pair) :
        /\ rest = [pairs EXCEPT ![old] = spent] /\ Len(rest) = n
        /\ \A p \in 1..n : rest[p] = IF p = old THEN spent ELSE pairs[p]
  <2>1. old \in 1..Len(pairs)
    BY <1>3 DEF n
  <2>2. /\ [pairs EXCEPT ![old] = spent] \in Seq(Pair)
        /\ Len([pairs EXCEPT ![old] = spent]) = Len(pairs)
        /\ \A p \in 1..Len(pairs) :
            [pairs EXCEPT ![old] = spent][p] = IF p = old THEN spent ELSE pairs[p]
    BY <1>1, <1>5, <2>1, ExceptSeq
  <2>. QED
    BY <2>2 DEF n
<1>7. /\ pairs' \in Seq(Pair) /\ Len(pairs') = n + 1 /\ pairs'[n + 1] = new
      /\ \A p \in 1..n : pairs'[p] = IF p = old THEN spent ELSE pairs[p]
  <2>1. pairs' = Append(rest, new)
    BY <1>2, <1>6
  <2>2. /\ pairs' \in Seq(Pair) /\ Len(pairs') = n + 1 /\ pairs'[n + 1] = new
        /\ \A p \in 1..n : pairs'[p] = rest[p]
    BY <1>1, <1>5, <1>6, <2>1
  <2>. QED
    BY <1>6, <2>2
<1>8. DOMAIN pairs' = 1..(n + 1)
  BY <1>7
<1>9. \A p \in 1..n : p \in 1..(n + 1) /\ p # n + 1 /\ p <= n
  BY <1>1
<1>10. \A p \in 1..(n + 1) : p \in 1..n \/ p = n + 1
  BY <1>1
<1>11. \A p \in 1..n : pairs[p].family <= p /\ pairs[p].family \in Nat
  <2>1. \A p \in 1..n : pairs[p].family <= p
    BY <1>1 DEF TokensInv, TokensHeld
  <2>2. \A p \in 1..n : pairs[p].family \in Nat
    BY <1>1 DEF Pair
  <2>. QED
    BY <2>1, <2>2
<1>12. \A p \in 1..n : pairs'[p].family = pairs[p].family
  BY <1>5, <1>7
<1>13. /\ call' \in [Calls -> CallType]
       /\ call'[c].at = "answered" /\ call'[c].pair = n + 1 /\ call'[c].rows = {}
       /\ \A d \in Calls \ {c} : call'[d] = call[d]
  <2>1. [at |-> "answered", pair |-> n + 1, rows |-> {}] \in CallType
    BY <1>1 DEF CallType, CallSteps
  <2>. QED
    BY <1>1, <2>1, TokenRows DEF Step
<1>14. TokensTypeOK'
  BY <1>1, <1>7, <1>13 DEF TokensInv, TokensTypeOK, CallType
<1>15. \A p \in 1..n : pairs[p].family = pairs[old].family /\ LivePair(p) => p = old
  BY <1>1, <1>3 DEF TokensInv, TokensHeld
<1>16. TokensHeld'
  <2>1. stored' <= Len(pairs')
    BY <1>1, <1>7, TokenRows DEF n
  <2>2. \A p \in DOMAIN pairs' : pairs'[p].family <= p
    <3>1. pairs[old].family <= n + 1
      BY <1>1, <1>3, <1>11
    <3>. QED
      BY <1>5, <1>7, <1>8, <1>10, <1>11, <1>12, <3>1
  <2>3. ASSUME NEW d \in Calls
        PROVE  /\ call'[d].rows \subseteq DOMAIN pairs'
               /\ call'[d].at # "idle" => call'[d].pair \in DOMAIN pairs'
               /\ call'[d].at = "consume" =>
                    ~pairs'[call'[d].pair].revoked /\ ~pairs'[call'[d].pair].consumed
    <3>1. CASE d = c
      BY <1>1, <1>8, <1>13, <3>1
    <3>2. CASE d # c
      <4>1. /\ call[d].rows \subseteq 1..n
            /\ call[d].at # "idle" => call[d].pair \in 1..n
            /\ call[d].at = "consume" =>
                call[d].pair \in 1..n /\ LivePair(call[d].pair) /\ call[d].pair # old
        BY <1>1, <3>2 DEF TokensInv, TokensHeld, old
      <4>2. call'[d] = call[d]
        BY <1>13, <3>2
      <4>3. call[d].at = "consume" => pairs'[call[d].pair] = pairs[call[d].pair]
        BY <1>7, <4>1
      <4>. QED
        BY <1>8, <1>9, <4>1, <4>2, <4>3 DEF LivePair
    <3>. QED
      BY <3>1, <3>2
  <2>4. ASSUME NEW d \in Calls, NEW e \in Calls, d # e, call'[d].at \in {"consume", "reuse"},
               call'[e].at \in {"consume", "reuse"}
        PROVE  call'[d].pair # call'[e].pair
    <3>1. d # c /\ e # c
      BY <1>13, <2>4
    <3>2. call'[d] = call[d] /\ call'[e] = call[e]
      BY <1>13, <3>1
    <3>. QED
      BY <2>4, <3>2 DEF TokensInv, TokensHeld
  <2>5. ASSUME NEW p \in 1..(n + 1), NEW q \in 1..(n + 1), pairs'[p].family = pairs'[q].family,
               LivePair(p)', LivePair(q)'
        PROVE  p = q
    <3>1. \A x \in 1..n : LivePair(x)' => x # old /\ LivePair(x)
      BY <1>5, <1>7 DEF LivePair
    <3>2. CASE p \in 1..n /\ q \in 1..n
      BY <1>1, <1>12, <2>5, <3>1, <3>2 DEF TokensInv, TokensHeld
    <3>3. CASE p = n + 1
      BY <1>5, <1>7, <1>10, <1>12, <1>15, <2>5, <3>1, <3>3
    <3>4. CASE q = n + 1
      BY <1>5, <1>7, <1>10, <1>12, <1>15, <2>5, <3>1, <3>4
    <3>. QED
      BY <1>10, <3>2, <3>3, <3>4
  <2>. QED
    BY <1>8, <2>1, <2>2, <2>3, <2>4, <2>5 DEF TokensHeld, LivePair
<1>17. Live(pairs[old].family) = {old}
  BY <1>1, <1>3, <1>15 DEF Live, Unrevoked, Family, LivePair
<1>. QED
  BY <1>1, <1>3, <1>5, <1>7, <1>14, <1>16, <1>17 DEF TokensInv, n, old
(* A token that ages.                                                       *)
LEMMA TokensAgeStep ==
    ASSUME TokensInv, NEW p \in DOMAIN pairs, TokensAge(p)
    PROVE  TokensInv' /\ DOMAIN pairs' = DOMAIN pairs
<1>1. /\ pairs \in Seq(Pair) /\ DOMAIN pairs = 1..Len(pairs) /\ pairs[p] \in Pair
      /\ UNCHANGED <<code, call, stored>> /\ pairs[p].age < 2
  BY TokenRows DEF TokensAge, TokensInv, TokensTypeOK
<1>2. PICK x \in Pair : x = pairs[p]
  BY <1>1
<1>3. PICK y : y = [x EXCEPT !.age = x.age + 1]
  OBVIOUS
<1>4. y \in Pair /\ y.family = x.family /\ y.revoked = x.revoked /\ y.consumed = x.consumed
  BY <1>1, <1>2, <1>3 DEF Pair
<1>5. pairs' = [pairs EXCEPT ![p] = y]
  BY <1>2, <1>3 DEF TokensAge
<1>6. /\ pairs' \in Seq(Pair) /\ Len(pairs') = Len(pairs)
      /\ \A q \in 1..Len(pairs) : pairs'[q] = IF q = p THEN y ELSE pairs[q]
  <2>1. p \in 1..Len(pairs)
    BY <1>1
  <2>2. /\ [pairs EXCEPT ![p] = y] \in Seq(Pair)
        /\ Len([pairs EXCEPT ![p] = y]) = Len(pairs)
        /\ \A q \in 1..Len(pairs) : [pairs EXCEPT ![p] = y][q] = IF q = p THEN y ELSE pairs[q]
    BY <1>1, <1>4, <2>1, ExceptSeq
  <2>. QED
    BY <1>5, <2>2
<1>7. \A q \in DOMAIN pairs :
        /\ pairs'[q].family = pairs[q].family /\ pairs'[q].revoked = pairs[q].revoked
        /\ pairs'[q].consumed = pairs[q].consumed
  BY <1>1, <1>2, <1>4, <1>6
<1>8. \A q \in DOMAIN pairs : LivePair(q)' <=> LivePair(q)
  BY <1>7 DEF LivePair
<1>9. \A d \in Calls : call'[d].at = "consume" => LivePair(call[d].pair)'
  <2>1. \A d \in Calls : call[d].at = "consume" =>
            call[d].pair \in DOMAIN pairs /\ LivePair(call[d].pair)
    BY DEF TokensInv, TokensHeld
  <2>. QED
    BY <1>1, <1>8, <2>1
<1>10. call' \in [Calls -> CallType]
  BY <1>1, TokenRows
<1>11. TokensInv'
  BY <1>1, <1>6, <1>7, <1>8, <1>9, <1>10, RowsAge
<1>. QED
  BY <1>1, <1>6, <1>11

(* A family that is revoked: no row a refresh holds is among those changed. *)
LEMMA RevokeFamilyStep ==
    ASSUME TokensInv, NEW c \in Calls, RevokeFamily(c)
    PROVE  TokensInv' /\ DOMAIN pairs' = DOMAIN pairs
<1>. DEFINE place == IF call[c].at = "reuse" THEN "refused" ELSE "clear"
            next == [at |-> place, pair |-> call[c].pair, rows |-> {}]
<1>1. /\ pairs \in Seq(Pair) /\ DOMAIN pairs = 1..Len(pairs) /\ Len(pairs) \in Nat
      /\ \A q \in DOMAIN pairs : pairs[q] \in Pair
      /\ call[c].at \in {"reuse", "revoking"}
      /\ \A p \in call[c].rows : ~Locked(p, c)
      /\ UNCHANGED <<code, stored>>
      /\ call' = [call EXCEPT ![c] = next]
  BY TokenRows DEF RevokeFamily, TokensInv, TokensTypeOK, Step
<1>2. pairs' = [p \in DOMAIN pairs |->
                    IF p \in call[c].rows THEN [pairs[p] EXCEPT !.revoked = TRUE] ELSE pairs[p]]
  BY DEF RevokeFamily
<1>3. ASSUME NEW q \in DOMAIN pairs
      PROVE  /\ pairs'[q] \in Pair /\ pairs'[q].family = pairs[q].family
             /\ pairs'[q].consumed = pairs[q].consumed
             /\ pairs[q].revoked => pairs'[q].revoked
             /\ q \notin call[c].rows => pairs'[q] = pairs[q]
  <2>1. PICK x \in Pair : x = pairs[q]
    BY <1>1
  <2>2. PICK y : y = [x EXCEPT !.revoked = TRUE]
    OBVIOUS
  <2>3. y \in Pair /\ y.family = x.family /\ y.revoked /\ y.consumed = x.consumed
    BY <2>2 DEF Pair
  <2>4. pairs'[q] = IF q \in call[c].rows THEN y ELSE pairs[q]
    BY <1>2, <2>1, <2>2
  <2>. QED
    BY <2>1, <2>3, <2>4
<1>4. pairs' \in Seq(Pair) /\ Len(pairs') = Len(pairs)
  <2>1. DOMAIN pairs' = 1..Len(pairs)
    BY <1>1, <1>2
  <2>2. pairs' \in [1..Len(pairs) -> Pair]
    BY <1>1, <1>2, <1>3, <2>1
  <2>3. pairs' \in Seq(Pair)
    BY <1>1, <2>2, SeqDef
  <2>4. DOMAIN pairs' = 1..Len(pairs') /\ Len(pairs') \in Nat
    BY <2>3, LenProperties
  <2>. QED
    BY <1>1, <2>1, <2>3, <2>4
<1>5. \A q \in DOMAIN pairs :
        pairs'[q].family = pairs[q].family /\ (LivePair(q)' => LivePair(q))
  BY <1>3 DEF LivePair
<1>6. /\ call' \in [Calls -> CallType]
      /\ call'[c].at = place /\ call'[c].pair = call[c].pair /\ call'[c].rows = {}
      /\ \A d \in Calls \ {c} : call'[d] = call[d]
  <2>1. call[c] \in CallType
    BY TokenRows
  <2>2. next \in CallType
    BY <2>1 DEF CallType, CallSteps
  <2>. QED
    BY <1>1, <2>2, TokenRows
<1>7. place \in {"refused", "clear"}
  OBVIOUS
<1>. HIDE DEF place, next
<1>8. ASSUME NEW d \in Calls
      PROVE  /\ call'[d].rows \subseteq call[d].rows
             /\ call'[d].at # "idle" => call[d].at # "idle" /\ call'[d].pair = call[d].pair
             /\ call'[d].at \in {"consume", "reuse"} => call'[d].at = call[d].at
             /\ call'[d].at = "consume" => LivePair(call[d].pair)'
  <2>1. CASE d = c
    BY <1>1, <1>6, <1>7, <2>1
  <2>2. CASE d # c
    <3>1. call'[d] = call[d]
      BY <1>6, <2>2
    <3>2. ASSUME call[d].at = "consume" PROVE LivePair(call[d].pair)'
      <4>1. call[d].pair \in DOMAIN pairs /\ LivePair(call[d].pair)
        BY <3>2 DEF TokensInv, TokensHeld
      <4>2. call[d].pair \notin call[c].rows
        BY <1>1, <2>2, <3>2 DEF Locked
      <4>3. pairs'[call[d].pair] = pairs[call[d].pair]
        BY <1>3, <4>1, <4>2
      <4>. QED
        BY <3>1, <4>1, <4>3 DEF LivePair
    <3>. QED
      BY <3>1, <3>2
  <2>. QED
    BY <2>1, <2>2
<1>9. TokensInv'
  BY <1>1, <1>4, <1>5, <1>6, <1>8, RowsAge
<1>10. DOMAIN pairs' = DOMAIN pairs
  BY <1>2
<1>. QED
  BY <1>9, <1>10

(* The steps of a call that leave the pairs alone.                          *)
LEMMA LockTokenStep ==
    ASSUME TokensInv, NEW c \in Calls, LockToken(c)
    PROVE  TokensInv' /\ pairs' = pairs
<1>. DEFINE p == call[c].pair
<1>1. /\ call[c].at = "refresh" /\ p \in DOMAIN pairs /\ p \in 0..MaxPairs
      /\ UNCHANGED <<code, pairs, stored>> /\ stored' \in 0..Len(pairs) /\ ~Locked(p, c)
  <2>1. call[c].at = "refresh" /\ UNCHANGED <<code, pairs, stored>> /\ ~Locked(p, c)
    BY DEF LockToken
  <2>2. p \in DOMAIN pairs
    BY <2>1 DEF TokensInv, TokensHeld
  <2>. QED
    BY <2>1, <2>2, TokenRows
<1>2. \A d \in Calls \ {c} : call[d].at \in {"consume", "reuse"} => call[d].pair # p
  BY <1>1 DEF Locked
<1>3. Unrevoked(pairs[p].family) \in SUBSET DOMAIN pairs /\ {} \in SUBSET DOMAIN pairs
  BY DEF Unrevoked, Family
<1>4. \/ Step(c, "refused", p, {})
      \/ Step(c, "reuse", p, Unrevoked(pairs[p].family))
      \/ Step(c, "consume", p, {}) /\ LivePair(p)
  BY DEF LockToken, LivePair
<1>. HIDE DEF p
<1>5. {"refused", "reuse", "consume"} \subseteq CallSteps
  BY DEF CallSteps
<1>6. CASE Step(c, "refused", p, {})
  BY <1>1, <1>3, <1>5, <1>6, CallMoves
<1>7. CASE Step(c, "reuse", p, Unrevoked(pairs[p].family))
  BY <1>1, <1>2, <1>3, <1>5, <1>7, CallMoves
<1>8. CASE Step(c, "consume", p, {}) /\ LivePair(p)
  BY <1>1, <1>2, <1>3, <1>5, <1>8, CallMoves
<1>. QED
  BY <1>4, <1>6, <1>7, <1>8

(* Every other step of a call writes no row of the table.                   *)
LEMMA QuietStep ==
    ASSUME TokensInv, NEW c \in Calls,
           \/ Unauthorized(c) \/ Disconnect(c) \/ Revoke(c) \/ RolledBack(c)
           \/ StoreAnswer(c) \/ AnswerNeverComes(c)
    PROVE  TokensInv' /\ pairs' = pairs
<1>1. /\ call[c].at # "idle" => call[c].pair \in DOMAIN pairs
      /\ call[c].pair \in 0..MaxPairs /\ stored \in 0..Len(pairs)
      /\ DOMAIN pairs = 1..Len(pairs) /\ DOMAIN pairs \subseteq 0..MaxPairs
      /\ 0 \in 0..MaxPairs /\ 0 \in 0..Len(pairs) /\ Len(pairs) \in Nat
      /\ {} \in SUBSET DOMAIN pairs
  <2>1. call[c].at # "idle" => call[c].pair \in DOMAIN pairs
    BY DEF TokensInv, TokensHeld
  <2>2. call[c].pair \in 0..MaxPairs
    BY TokenRows DEF CallType
  <2>3. /\ Len(pairs) \in Nat /\ MaxPairs \in Nat /\ DOMAIN pairs = 1..Len(pairs)
        /\ Len(pairs) <= MaxPairs /\ stored \in 0..Len(pairs)
    BY TokenRows
  <2>. QED
    BY <2>1, <2>2, <2>3
<1>2. {"idle", "refresh", "revoke", "revoking", "clear", "refused"} \subseteq CallSteps
  BY DEF CallSteps
<1>3. CASE Unauthorized(c) \/ Disconnect(c)
  <2>1. /\ stored # 0 /\ UNCHANGED <<code, pairs, stored>>
        /\ Step(c, "refresh", stored, {}) \/ Step(c, "revoke", stored, {})
    BY <1>3 DEF Unauthorized, Disconnect
  <2>2. stored \in DOMAIN pairs /\ stored \in 0..MaxPairs /\ stored' \in 0..Len(pairs)
    BY <1>1, <2>1
  <2>. QED
    BY <1>1, <1>2, <2>1, <2>2, CallMoves
<1>4. CASE Revoke(c)
  <2>1. /\ call[c].at = "revoke" /\ UNCHANGED <<code, pairs, stored>>
        /\ Step(c, "revoking", call[c].pair, Unrevoked(pairs[call[c].pair].family))
    BY <1>4 DEF Revoke
  <2>2. Unrevoked(pairs[call[c].pair].family) \in SUBSET DOMAIN pairs
    BY DEF Unrevoked, Family
  <2>. QED
    BY <1>1, <1>2, <2>1, <2>2, CallMoves
<1>5. CASE RolledBack(c)
  <2>1. /\ call[c].at # "idle" /\ UNCHANGED <<code, pairs, stored>>
        /\ Step(c, "clear", call[c].pair, {}) \/ Step(c, "refused", call[c].pair, {})
    BY <1>5 DEF RolledBack
  <2>. QED
    BY <1>1, <1>2, <2>1, CallMoves
<1>6. CASE StoreAnswer(c) \/ AnswerNeverComes(c)
  <2>1. call[c].at # "idle" /\ Returns(c) /\ UNCHANGED <<code, pairs>>
        /\ stored' \in {0, call[c].pair, stored}
    BY <1>6 DEF StoreAnswer, AnswerNeverComes
  <2>2. Step(c, "idle", 0, {})
    BY <2>1 DEF Returns, Step, NoCall
  <2>3. stored' \in 0..Len(pairs)
    BY <1>1, <2>1
  <2>. QED
    BY <1>1, <1>2, <2>1, <2>2, <2>3, CallMoves
<1>. QED
  BY <1>3, <1>4, <1>5, <1>6

(* A step that leaves the pairs and the calls alone.                        *)
LEMMA CodeStep ==
    ASSUME TokensInv, UNCHANGED <<pairs, call, stored>>, code' \in CodeStatuses
    PROVE  TokensInv'
<1>1. TokensTypeOK'
  BY DEF TokensInv, TokensTypeOK
<1>2. TokensHeld'
  BY DEF TokensInv, TokensHeld, LivePair
<1>. QED
  BY <1>1, <1>2 DEF TokensInv

(* Every step keeps the invariant, and adds at most one pair, as said.      *)
LEMMA TokensStep ==
    ASSUME TokensInv, [TokensNext]_tokenVars
    PROVE  /\ TokensInv'
           /\ \A p \in DOMAIN pairs' \ DOMAIN pairs :
                LET f == pairs'[p].family IN
                p = f \/ \E q \in DOMAIN pairs : Live(f) = {q} /\ pairs'[q].consumed
<1>1. CASE Authorize \/ CodeExpires
  BY <1>1, CodeStep DEF Authorize, CodeExpires, CodeStatuses
<1>2. CASE ExchangeCode
  <2>1. /\ TokensInv' /\ Len(pairs') = Len(pairs) + 1
        /\ pairs'[Len(pairs) + 1].family = Len(pairs) + 1
    BY <1>2, ExchangeCodeStep
  <2>2. DOMAIN pairs' = 1..Len(pairs') /\ Len(pairs) \in Nat /\ DOMAIN pairs = 1..Len(pairs)
    BY <2>1, TokenRows DEF TokensInv, TokensTypeOK
  <2>3. \A p \in DOMAIN pairs' \ DOMAIN pairs : p = Len(pairs) + 1
    BY <2>1, <2>2
  <2>. QED
    BY <2>1, <2>3
<1>3. CASE \E p \in DOMAIN pairs : TokensAge(p)
  BY <1>3, TokensAgeStep
<1>4. CASE \E c \in Calls : IssueTokens(c)
  <2>1. PICK c \in Calls : IssueTokens(c)
    BY <1>4
  <2>2. /\ TokensInv' /\ Len(pairs') = Len(pairs) + 1
        /\ pairs'[Len(pairs) + 1].family = pairs[call[c].pair].family
        /\ call[c].pair \in DOMAIN pairs
        /\ Live(pairs[call[c].pair].family) = {call[c].pair}
        /\ pairs'[call[c].pair].consumed
    BY <2>1, IssueTokensStep
  <2>3. DOMAIN pairs' = 1..Len(pairs') /\ Len(pairs) \in Nat /\ DOMAIN pairs = 1..Len(pairs)
    BY <2>2, TokenRows DEF TokensInv, TokensTypeOK
  <2>4. \A p \in DOMAIN pairs' \ DOMAIN pairs : p = Len(pairs) + 1
    BY <2>2, <2>3
  <2>. QED
    BY <2>2, <2>4
<1>5. CASE \E c \in Calls : RevokeFamily(c)
  BY <1>5, RevokeFamilyStep
<1>6. CASE \E c \in Calls : LockToken(c)
  BY <1>6, LockTokenStep
<1>7. CASE \E c \in Calls : \/ Unauthorized(c) \/ Disconnect(c) \/ Revoke(c) \/ RolledBack(c)
                            \/ StoreAnswer(c) \/ AnswerNeverComes(c)
  BY <1>7, QuietStep
<1>8. CASE UNCHANGED tokenVars
  BY <1>8, CodeStep DEF tokenVars, TokensInv, TokensTypeOK
<1>. QED
  BY <1>1, <1>2, <1>3, <1>4, <1>5, <1>6, <1>7, <1>8 DEF TokensNext

(* Before the first token there is nothing to violate.                      *)
LEMMA TokensStart == TokensInit => TokensInv
<1>. SUFFICES ASSUME TokensInit PROVE TokensInv
  OBVIOUS
<1>1. code = "none" /\ pairs = <<>> /\ call = [c \in Calls |-> NoCall] /\ stored = 0
  BY DEF TokensInit
<1>2. pairs \in Seq(Pair) /\ Len(pairs) = 0 /\ DOMAIN pairs = {}
  BY <1>1
<1>3. \A c \in Calls : call[c].at = "idle" /\ call[c].rows = {}
  BY <1>1 DEF NoCall
<1>4. TokensTypeOK
  BY <1>1, <1>2, TokensAssumption DEF TokensTypeOK, CodeStatuses, NoCall, CallSteps
<1>5. TokensHeld
  BY <1>1, <1>2, <1>3 DEF TokensHeld
<1>. QED
  BY <1>4, <1>5 DEF TokensInv

(* The tokens' invariant holds of every behaviour.                          *)
LEMMA TokensInvariant == TokensSpec => []TokensInv
  BY TokensStart, TokensStep, PTL DEF TokensSpec

(* A family of tokens never has two branches and is never revived: whatever *)
(* refreshes, reuses and revocations overlap, a new pair that does not      *)
(* begin a family takes the place of the only live one (oauth.ts refresh).  *)
THEOREM RotationHolds == TokensSpec => RotationReplaces
<1>1. TokensInv /\ [TokensNext]_tokenVars =>
        [\A p \in DOMAIN pairs' \ DOMAIN pairs :
            LET f == pairs'[p].family IN
            p = f \/ \E q \in DOMAIN pairs : Live(f) = {q} /\ pairs'[q].consumed]_tokenVars
  BY TokensStep
<1>. QED
  BY <1>1, TokensInvariant, PTL DEF TokensSpec, RotationReplaces
-----------------------------------------------------------------------------
(* The members and the changes of role keep their types.                    *)
LEMMA MembersInvariant == MembersSpec => []MembersTypeOK
<1>. DEFINE ChangeType == [at : {"idle", "asked", "locked"}, target : Users, role : Roles]
<1>1. NoChange \in ChangeType
  BY MembersAssumption DEF NoChange, Roles
<1>2. MembersInit => MembersTypeOK
  BY <1>1 DEF MembersInit, MembersTypeOK, Roles
<1>3. ASSUME MembersTypeOK, [MembersNext]_memberVars
      PROVE  MembersTypeOK'
  <2>1. /\ role \in [Users -> Roles \cup {"none"}] /\ change \in [Changes -> ChangeType]
        /\ invited \in [Users -> SUBSET InvitedRoles] /\ InvitedRoles \subseteq Roles
    BY <1>3 DEF MembersTypeOK, Roles
  <2>2. CASE \E actor, u \in Users, r \in InvitedRoles : CreateInvitation(actor, u, r)
    BY <2>1, <2>2 DEF CreateInvitation, MembersTypeOK
  <2>3. CASE \E u \in Users, r \in InvitedRoles : InvitationExpires(u, r)
    BY <2>1, <2>3 DEF InvitationExpires, MembersTypeOK
  <2>4. CASE \E u \in Users, r \in InvitedRoles : AcceptInvitation(u, r)
    BY <2>1, <2>4 DEF AcceptInvitation, MembersTypeOK
  <2>5. ASSUME NEW c \in Changes, NEW next \in ChangeType,
               change' = [change EXCEPT ![c] = next], UNCHANGED <<role, invited>>
        PROVE  MembersTypeOK'
    BY <2>1, <2>5 DEF MembersTypeOK
  <2>6. CASE \E c \in Changes, actor, u \in Users, r \in Roles : RequestChange(c, actor, u, r)
    <3>1. PICK c \in Changes, actor \in Users, u \in Users, r \in Roles :
              RequestChange(c, actor, u, r)
      BY <2>6
    <3>2. [NoChange EXCEPT !.at = "asked", !.target = u, !.role = r] \in ChangeType
      BY <1>1
    <3>3. QED
      BY <2>5, <3>1, <3>2 DEF RequestChange
  <2>7. CASE \E c \in Changes : LockTarget(c)
    <3>1. PICK c \in Changes : LockTarget(c)
      BY <2>7
    <3>2. [change[c] EXCEPT !.at = "locked"] \in ChangeType
      BY <2>1
    <3>3. \/ change' = [change EXCEPT ![c] = NoChange]
          \/ change' = [change EXCEPT ![c] = [change[c] EXCEPT !.at = "locked"]]
      BY <3>1 DEF LockTarget
    <3>. HIDE DEF ChangeType
    <3>4. UNCHANGED <<role, invited>>
      BY <3>1 DEF LockTarget
    <3>5. QED
      BY <1>1, <2>5, <3>2, <3>3, <3>4
  <2>8. CASE \E c \in Changes : UpdateMembershipRole(c)
    BY <1>1, <2>1, <2>8 DEF UpdateMembershipRole, MembersTypeOK
  <2>9. CASE UNCHANGED memberVars
    BY <2>1, <2>9 DEF memberVars, MembersTypeOK
  <2>. QED
    BY <1>3, <2>2, <2>3, <2>4, <2>6, <2>7, <2>8, <2>9 DEF MembersNext
<1>. QED
  BY <1>2, <1>3, PTL DEF MembersSpec
-----------------------------------------------------------------------------
(* What the types say of the variant's states, the product and the reads.   *)
Variant == [price : Prices \cup {0}, on : BOOLEAN]
ProductType == [price : Prices, active : BOOLEAN, mirrors : 0..MaxShop]
RequestType == [at : {"idle", "fetch", "refresh", "claim"}, seen : 0..MaxShop, raced : BOOLEAN]
(* What the invariant says of the types of every row.                       *)
LEMMA CatalogFacts ==
    ASSUME CatalogInv
    PROVE  /\ shop \in Seq(Variant) /\ Len(shop) \in 1..MaxShop /\ Len(shop) \in Nat
           /\ MaxShop \in Nat /\ 0 \in 0..MaxShop /\ Len(shop) \in 0..MaxShop
           /\ \A i \in 1..Len(shop) : shop[i] \in Variant
           /\ \A y \in Syncs : fetched[y] \in 0..Len(shop)
           /\ fetched \in [Syncs -> 0..MaxShop]
           /\ \A r \in Requests : request[r] \in RequestType /\ request[r].seen \in 0..Len(shop)
           /\ request \in [Requests -> RequestType]
           /\ product # NoProduct => product \in ProductType
           /\ product = NoProduct => ~product.active
           /\ product.mirrors \in 0..MaxShop /\ NoProduct \notin ProductType
           /\ 0 \notin Prices /\ Prices \subseteq Nat
<1>1. /\ shop \in Seq(Variant) /\ fetched \in [Syncs -> 0..MaxShop]
      /\ request \in [Requests -> RequestType] /\ product \in {NoProduct} \cup ProductType
  BY DEF CatalogInv, CatalogTypeOK, Variant, RequestType, ProductType
<1>2. MaxShop \in Nat /\ 0 \notin Prices /\ Prices \subseteq Nat
  BY CatalogAssumption
<1>3. Len(shop) \in 1..MaxShop
  BY DEF CatalogInv, Observations
<1>4. \A i \in 1..Len(shop) : shop[i] \in Variant
  BY <1>1, ElementOfSeq
<1>5. Len(shop) \in Nat /\ Len(shop) \in 0..MaxShop /\ 0 \in 0..MaxShop
  BY <1>2, <1>3
<1>6. \A y \in Syncs : fetched[y] \in 0..Len(shop)
  BY <1>1, <1>2, <1>5 DEF CatalogInv, Observations
<1>7. \A r \in Requests : request[r] \in RequestType /\ request[r].seen \in 0..Len(shop)
  <2>1. \A r \in Requests : request[r] \in RequestType /\ request[r].seen \in 0..MaxShop
    BY <1>1 DEF RequestType
  <2>2. \A r \in Requests : request[r].seen <= Len(shop)
    BY DEF CatalogInv, Observations
  <2>. QED
    BY <1>2, <1>5, <2>1, <2>2
<1>8. NoProduct \notin ProductType /\ ~NoProduct.active /\ NoProduct.mirrors = 0
  BY <1>2 DEF NoProduct, ProductType
<1>9. product.mirrors \in 0..MaxShop
  BY <1>1, <1>5, <1>8 DEF ProductType
<1>. QED
  BY <1>1, <1>2, <1>3, <1>4, <1>5, <1>6, <1>7, <1>8, <1>9

(* What storing an observation makes of the product: it mirrors the state   *)
(* observed, and is on sale only at that state's price and if that was.     *)
LEMMA ObservedFacts ==
    ASSUME CatalogInv, NEW s \in 1..Len(shop), product # NoProduct \/ shop[s].price # 0
    PROVE  /\ Observed(s) \in ProductType /\ Observed(s).mirrors = s
           /\ Observed(s).active => shop[s] = [price |-> Observed(s).price, on |-> TRUE]
<1>. DEFINE item == shop[s]
<1>1. /\ item \in Variant /\ s \in 0..MaxShop
      /\ product # NoProduct => product \in ProductType
      /\ product \in [price : Nat, active : BOOLEAN, mirrors : 0..MaxShop]
  <2>1. /\ shop[s] \in Variant /\ s \in Nat /\ Len(shop) \in Nat /\ MaxShop \in Nat
        /\ Len(shop) <= MaxShop
    BY CatalogFacts
  <2>2. product # NoProduct => product \in ProductType
    BY CatalogFacts
  <2>3. ProductType \subseteq [price : Nat, active : BOOLEAN, mirrors : 0..MaxShop]
    BY CatalogFacts DEF ProductType
  <2>4. NoProduct \in [price : Nat, active : BOOLEAN, mirrors : 0..MaxShop]
    BY CatalogFacts DEF NoProduct
  <2>. QED
    BY <2>1, <2>2, <2>3, <2>4
<1>2. PICK x : x = product
  OBVIOUS
<1>3. PICK i \in Variant : i = item
  BY <1>1
<1>4. \/ i.price = 0 /\ Observed(s) = [[x EXCEPT !.active = FALSE] EXCEPT !.mirrors = s]
      \/ /\ i.price # 0 /\ Changed(item)
         /\ Observed(s) = [[x EXCEPT !.price = i.price, !.active = i.on] EXCEPT !.mirrors = s]
      \/ i.price # 0 /\ ~Changed(item) /\ Observed(s) = [x EXCEPT !.mirrors = s]
  BY <1>2, <1>3, Zenon DEF Observed
<1>5. PICK o : o = Observed(s)
  OBVIOUS
<1>. HIDE DEF item
<1>6. CASE i.price = 0 /\ o = [[x EXCEPT !.active = FALSE] EXCEPT !.mirrors = s]
  <2>1. x \in ProductType
    BY <1>1, <1>2, <1>3, <1>6 DEF item
  <2>2. o \in ProductType /\ o.mirrors = s /\ ~o.active
    BY <1>1, <1>6, <2>1 DEF ProductType
  <2>. QED
    BY <1>5, <2>2
<1>7. CASE /\ i.price # 0
           /\ o = [[x EXCEPT !.price = i.price, !.active = i.on] EXCEPT !.mirrors = s]
  <2>1. i.price \in Prices /\ i.on \in BOOLEAN /\ i = [price |-> i.price, on |-> i.on]
    BY <1>7 DEF Variant
  <2>2. o \in ProductType /\ o.mirrors = s /\ o.price = i.price /\ o.active = i.on
    BY <1>1, <1>2, <1>7, <2>1 DEF ProductType
  <2>3. o.active => i = [price |-> o.price, on |-> TRUE]
    BY <2>1, <2>2
  <2>. QED
    BY <1>3, <1>5, <2>2, <2>3 DEF item
<1>8. CASE i.price # 0 /\ ~Changed(item) /\ o = [x EXCEPT !.mirrors = s]
  <2>1. i.price \in Prices /\ i.on \in BOOLEAN /\ i = [price |-> i.price, on |-> i.on]
    BY <1>8 DEF Variant
  <2>2. x.price = i.price /\ x.active = i.on
    BY <1>1, <1>2, <1>3, <1>8, <2>1 DEF Changed
  <2>3. o \in ProductType /\ o.mirrors = s /\ o.price = i.price /\ o.active = i.on
    BY <1>1, <1>2, <1>8, <2>1, <2>2 DEF ProductType
  <2>4. o.active => i = [price |-> o.price, on |-> TRUE]
    BY <2>1, <2>3
  <2>. QED
    BY <1>3, <1>5, <2>3, <2>4 DEF item
<1>. QED
  BY <1>4, <1>5, <1>6, <1>7, <1>8

(* A step that stores a product, reads and requests under way being older.  *)
LEMMA ProductMoves ==
    ASSUME CatalogInv, UNCHANGED <<source, shop, permit, approval, order>>,
           product' \in ProductType,
           IF Synchronised
           THEN /\ product'.mirrors \in 1..Len(shop)
                /\ product'.active =>
                    shop[product'.mirrors] = [price |-> product'.price, on |-> TRUE]
           ELSE product'.mirrors = 0,
           fetched' \in [Syncs -> 0..MaxShop], request' \in [Requests -> RequestType],
           \A y \in Syncs : fetched'[y] \in {0, fetched[y]},
           \A r \in Requests :
                /\ request'[r].seen = request[r].seen /\ request'[r].raced = request[r].raced
                /\ \/ request'[r].at = request[r].at
                   \/ /\ request[r].at = "refresh" /\ request'[r].at = "claim"
                      /\ product'.mirrors = request[r].seen,
           \A r \in Requests : request[r].at = "claim" /\ ~request[r].raced =>
                product'.mirrors >= request[r].seen
    PROVE  CatalogInv'
<1>1. Synchronised' = Synchronised /\ Ordered' = Ordered
  BY DEF Synchronised, Ordered
<1>2. product' # NoProduct /\ Exists'
  BY CatalogFacts DEF Exists
<1>3. CatalogTypeOK'
  <2>1. product' \in {NoProduct} \cup ProductType
    OBVIOUS
  <2>. QED
    BY <2>1 DEF CatalogInv, CatalogTypeOK, ProductType, RequestType
<1>4. ProductMirrors'
  BY <1>1 DEF ProductMirrors
<1>5. Observations'
  <2>1. \A y \in Syncs : fetched'[y] <= Len(shop) /\ (fetched'[y] # 0 => Synchronised)
    BY CatalogFacts DEF CatalogInv, Observations
  <2>2. ASSUME NEW r \in Requests
        PROVE  /\ request'[r].seen <= Len(shop) /\ (request'[r].seen # 0 => Synchronised)
               /\ request'[r].at = "fetch" => Synchronised
               /\ request'[r].at = "refresh" => request'[r].seen # 0
    <3>1. /\ request[r].seen <= Len(shop) /\ (request[r].seen # 0 => Synchronised)
          /\ request[r].at = "fetch" => Synchronised
          /\ request[r].at = "refresh" => request[r].seen # 0
      BY DEF CatalogInv, Observations
    <3>. QED
      BY <3>1
  <2>. QED
    BY <1>1, <2>1, <2>2 DEF CatalogInv, Observations
<1>6. NotOvertaken'
  <2>1. SUFFICES ASSUME NEW r \in Requests, request'[r].at \in {"refresh", "claim"},
                        ~request'[r].raced
                 PROVE  /\ \A y \in Syncs : fetched'[y] # 0 => fetched'[y] >= request'[r].seen
                        /\ \A o \in Requests : request'[o].at = "refresh" =>
                                request'[o].seen >= request'[r].seen
                        /\ request'[r].at = "claim" => product'.mirrors >= request'[r].seen
    BY DEF NotOvertaken
  <2>2. request[r].at \in {"refresh", "claim"} /\ ~request[r].raced
        /\ request'[r].seen = request[r].seen
    BY <2>1
  <2>3. /\ \A y \in Syncs : fetched[y] # 0 => fetched[y] >= request[r].seen
        /\ \A o \in Requests : request[o].at = "refresh" => request[o].seen >= request[r].seen
    BY <2>2 DEF CatalogInv, NotOvertaken
  <2>4. \A y \in Syncs : fetched'[y] # 0 => fetched'[y] >= request'[r].seen
    BY <2>2, <2>3
  <2>5. \A o \in Requests : request'[o].at = "refresh" => request'[o].seen >= request'[r].seen
    BY <2>2, <2>3
  <2>6. request'[r].at = "claim" => product'.mirrors >= request'[r].seen
    <3>1. request[r].seen \in Nat
      BY CatalogFacts
    <3>. QED
      BY <2>2, <3>1
  <2>. QED
    BY <2>4, <2>5, <2>6
<1>7. PermitStands'
  <2>1. \A r \in Requests : request'[r].at # "idle" => request[r].at # "idle"
    OBVIOUS
  <2>. QED
    BY <1>1, <1>2, <2>1 DEF CatalogInv, PermitStands
<1>8. OrderHonoursMandate'
  BY <1>1 DEF CatalogInv, OrderHonoursMandate
<1>. QED
  BY <1>3, <1>4, <1>5, <1>6, <1>7, <1>8 DEF CatalogInv
(* A step of the reads under way, the product and the permit left alone.    *)
LEMMA ReadsMove ==
    ASSUME CatalogInv, UNCHANGED <<source, shop, product, permit, approval, order>>,
           fetched' \in [Syncs -> 0..MaxShop], request' \in [Requests -> RequestType],
           \A y \in Syncs : \/ fetched'[y] \in {0, fetched[y]}
                            \/ fetched'[y] = Len(shop) /\ Synchronised,
           \A r \in Requests :
                \/ request'[r] = request[r]
                \/ /\ request'[r].seen = 0 /\ request'[r].at # "refresh"
                   /\ request'[r].at # "idle" => permit.status # "none"
                   /\ request'[r].at = "fetch" => Synchronised
                \/ /\ request'[r].at = "refresh" /\ request'[r].seen = Len(shop)
                   /\ Synchronised /\ permit.status # "none"
                   /\ ~request'[r].raced =>
                        /\ \A y \in Syncs : fetched'[y] = 0
                        /\ \A o \in Requests \ {r} : request'[o].at # "refresh"
    PROVE  CatalogInv'
<1>1. Synchronised' = Synchronised /\ Ordered' = Ordered /\ Exists' = Exists
  BY DEF Synchronised, Ordered, Exists
<1>2. Len(shop) \in Nat /\ Len(shop) > 0
  BY CatalogFacts
<1>3. CatalogTypeOK'
  BY DEF CatalogInv, CatalogTypeOK, RequestType
<1>4. ProductMirrors'
  BY <1>1 DEF CatalogInv, ProductMirrors
<1>5. Observations'
  <2>1. \A y \in Syncs : fetched'[y] <= Len(shop) /\ (fetched'[y] # 0 => Synchronised)
    BY <1>2, CatalogFacts DEF CatalogInv, Observations
  <2>2. ASSUME NEW r \in Requests
        PROVE  /\ request'[r].seen <= Len(shop) /\ (request'[r].seen # 0 => Synchronised)
               /\ request'[r].at = "fetch" => Synchronised
               /\ request'[r].at = "refresh" => request'[r].seen # 0
    <3>1. /\ request[r].seen <= Len(shop) /\ (request[r].seen # 0 => Synchronised)
          /\ request[r].at = "fetch" => Synchronised
          /\ request[r].at = "refresh" => request[r].seen # 0
      BY DEF CatalogInv, Observations
    <3>. QED
      BY <1>2, <3>1
  <2>. QED
    BY <1>1, <2>1, <2>2 DEF CatalogInv, Observations
<1>6. NotOvertaken'
  <2>1. SUFFICES ASSUME NEW r \in Requests, request'[r].at \in {"refresh", "claim"},
                        ~request'[r].raced
                 PROVE  /\ \A y \in Syncs : fetched'[y] # 0 => fetched'[y] >= request'[r].seen
                        /\ \A o \in Requests : request'[o].at = "refresh" =>
                                request'[o].seen >= request'[r].seen
                        /\ request'[r].at = "claim" => product'.mirrors >= request'[r].seen
    BY DEF NotOvertaken
  <2>2. /\ \A y \in Syncs : fetched[y] \in 0..Len(shop) /\ fetched'[y] \in 0..Len(shop)
        /\ \A o \in Requests : request[o].seen \in 0..Len(shop) /\ request'[o].seen \in 0..Len(shop)
        /\ product.mirrors \in Nat
    <3>1. \A y \in Syncs : fetched[y] \in 0..Len(shop)
      BY CatalogFacts
    <3>2. \A y \in Syncs : fetched'[y] \in 0..Len(shop)
      BY <1>2, <3>1
    <3>3. \A o \in Requests : request[o].seen \in 0..Len(shop)
      BY CatalogFacts
    <3>4. \A o \in Requests : request'[o].seen \in 0..Len(shop)
      BY <1>2, <3>3
    <3>5. product.mirrors \in Nat
      BY CatalogFacts
    <3>. QED
      BY <3>1, <3>2, <3>3, <3>4, <3>5
  <2>3. CASE request'[r] = request[r]
    <3>1. /\ \A y \in Syncs : fetched[y] # 0 => fetched[y] >= request[r].seen
          /\ \A o \in Requests : request[o].at = "refresh" => request[o].seen >= request[r].seen
          /\ request[r].at = "claim" => product.mirrors >= request[r].seen
      BY <2>1, <2>3 DEF CatalogInv, NotOvertaken
    <3>2. \A y \in Syncs : fetched'[y] # 0 => fetched'[y] >= request[r].seen
      BY <1>2, <2>2, <3>1
    <3>3. \A o \in Requests : request'[o].at = "refresh" => request'[o].seen >= request[r].seen
      BY <1>2, <2>2, <3>1
    <3>. QED
      BY <2>3, <3>1, <3>2, <3>3
  <2>4. CASE request'[r].seen = 0
    BY <2>2, <2>4
  <2>5. CASE /\ request'[r].at = "refresh" /\ request'[r].seen = Len(shop)
             /\ ~request'[r].raced =>
                    /\ \A y \in Syncs : fetched'[y] = 0
                    /\ \A o \in Requests \ {r} : request'[o].at # "refresh"
    <3>1. /\ \A y \in Syncs : fetched'[y] = 0
          /\ \A o \in Requests : request'[o].at = "refresh" => o = r
      BY <2>1, <2>5
    <3>. QED
      BY <1>2, <2>5, <3>1
  <2>. QED
    BY <2>3, <2>4, <2>5
<1>7. PermitStands'
  BY <1>1 DEF CatalogInv, PermitStands
<1>8. OrderHonoursMandate'
  BY <1>1 DEF CatalogInv, OrderHonoursMandate
<1>. QED
  BY <1>3, <1>4, <1>5, <1>6, <1>7, <1>8 DEF CatalogInv

(* A step of the permit and its approval before there is an order, or one   *)
(* that changes neither what the order refers to.                           *)
PermitType == [status : {"none", "pending_confirmation", "confirmed", "executing",
                         "denied", "expired"},
               price : Prices \cup {0}, max : Prices \cup {0}, rule : Rules,
               confirmed : BOOLEAN, over : BOOLEAN]
ApprovalType == [link : {"unused", "exchanged"}, session : {"none", "open", "used", "expired"},
                 tab : [Tabs -> {"idle", "challenged", "verified"}]]
(* A step on the permit and its approval alone: it may not unmake a permit, a *)
(* confirmation or a used session, and it keeps the terms of the permit.    *)
LEMMA ApprovalMoves ==
    ASSUME CatalogInv, UNCHANGED <<source, shop, product, fetched, request, order>>,
           permit' \in PermitType, approval' \in ApprovalType,
           permit.status # "none" => permit'.status # "none",
           permit'.status # "none" => Exists,
           permit'.status = "none" => approval'.session = "none",
           permit'.confirmed => approval'.session = "used" /\ permit'.status # "none",
           permit.confirmed => permit'.confirmed,
           permit.status # "none" =>
                permit'.price = permit.price /\ permit'.max = permit.max
                /\ permit'.rule = permit.rule,
           approval'.link = "unused" => approval'.session = "none",
           approval.session = "used" => approval'.session = "used"
    PROVE  CatalogInv'
<1>1. Synchronised' = Synchronised /\ Ordered' = Ordered /\ Exists' = Exists
  BY DEF Synchronised, Ordered, Exists
<1>2. CatalogTypeOK'
  BY DEF CatalogInv, CatalogTypeOK, PermitType, ApprovalType
<1>3. ProductMirrors' /\ Observations' /\ NotOvertaken'
  BY <1>1 DEF CatalogInv, ProductMirrors, Observations, NotOvertaken
<1>4. PermitStands'
  BY <1>1 DEF CatalogInv, PermitStands
<1>5. OrderHonoursMandate'
  <2>1. Ordered => permit.status # "none"
    BY DEF CatalogInv, PermitStands
  <2>. QED
    BY <1>1, <2>1 DEF CatalogInv, OrderHonoursMandate
<1>. QED
  BY <1>2, <1>3, <1>4, <1>5 DEF CatalogInv
(* What happens at Shopify.                                                 *)
LEMMA ShopStep ==
    ASSUME CatalogInv, ShopChanges
    PROVE  CatalogInv'
<1>1. /\ Synchronised /\ Len(shop) < MaxShop
      /\ UNCHANGED <<source, product, fetched, permit, approval, request, order>>
  BY DEF ShopChanges
<1>2. PICK state \in Variant : shop' = Append(shop, state)
  BY DEF ShopChanges, Variant
<1>3. /\ shop \in Seq(Variant) /\ Len(shop) \in Nat /\ Len(shop) > 0 /\ MaxShop \in Nat
  BY CatalogFacts
<1>4. /\ shop' \in Seq(Variant) /\ Len(shop') = Len(shop) + 1
      /\ \A i \in 1..Len(shop) : shop'[i] = shop[i]
  BY <1>2, <1>3
<1>5. \A i \in 1..Len(shop) : i \in 1..Len(shop')
  BY <1>3, <1>4
<1>6. Synchronised' = Synchronised /\ Ordered' = Ordered /\ Exists' = Exists
  BY <1>1 DEF Synchronised, Ordered, Exists
<1>7. CatalogTypeOK'
  BY <1>1, <1>4 DEF CatalogInv, CatalogTypeOK, Variant
<1>8. ProductMirrors'
  BY <1>1, <1>4, <1>5, <1>6 DEF CatalogInv, ProductMirrors
<1>9. Observations'
  <2>1. /\ \A y \in Syncs : fetched[y] <= Len(shop')
        /\ \A r \in Requests : request[r].seen <= Len(shop')
    <3>1. \A y \in Syncs : fetched[y] \in 0..Len(shop)
      BY CatalogFacts
    <3>2. \A r \in Requests : request[r].seen \in 0..Len(shop)
      BY CatalogFacts
    <3>. QED
      BY <1>3, <1>4, <3>1, <3>2
  <2>2. Len(shop') \in 1..MaxShop
    BY <1>1, <1>3, <1>4
  <2>. QED
    BY <1>1, <1>5, <1>6, <2>1, <2>2 DEF CatalogInv, Observations
<1>10. NotOvertaken' /\ PermitStands'
  BY <1>1, <1>6 DEF CatalogInv, NotOvertaken, PermitStands
<1>11. OrderHonoursMandate'
  <2>1. Ordered => order.mirrors \in 1..Len(shop)
    BY <1>1 DEF CatalogInv, Observations
  <2>. QED
    BY <1>1, <1>4, <1>6, <2>1 DEF CatalogInv, OrderHonoursMandate
<1>. QED
  BY <1>7, <1>8, <1>9, <1>10, <1>11 DEF CatalogInv

(* The synchroniser and the merchant's own form.                            *)
LEMMA SyncStep ==
    ASSUME CatalogInv, NEW y \in Syncs, SyncFetch(y) \/ SyncShopifyProducts(y) \/ SyncFails(y)
    PROVE  CatalogInv'
<1>1. /\ fetched \in [Syncs -> 0..MaxShop] /\ request \in [Requests -> RequestType]
      /\ Len(shop) \in 0..MaxShop /\ 0 \in 0..MaxShop /\ Len(shop) \in Nat
      /\ fetched[y] \in 0..Len(shop)
  BY CatalogFacts
<1>2. CASE SyncFetch(y)
  <2>1. /\ Synchronised /\ fetched' = [fetched EXCEPT ![y] = Len(shop)]
        /\ UNCHANGED <<source, shop, product, permit, approval, request, order>>
    BY <1>2 DEF SyncFetch
  <2>2. fetched' \in [Syncs -> 0..MaxShop]
        /\ \A z \in Syncs : fetched'[z] = fetched[z] \/ fetched'[z] = Len(shop)
    BY <1>1, <2>1
  <2>. QED
    BY <1>1, <2>1, <2>2, ReadsMove
<1>3. ASSUME fetched' = [fetched EXCEPT ![y] = 0]
      PROVE  fetched' \in [Syncs -> 0..MaxShop] /\ \A z \in Syncs : fetched'[z] \in {0, fetched[z]}
  BY <1>1, <1>3
<1>4. CASE SyncFails(y)
  <2>1. /\ fetched' = [fetched EXCEPT ![y] = 0]
        /\ UNCHANGED <<source, shop, product, permit, approval, request, order>>
    BY <1>4 DEF SyncFails, unlessProduct
  <2>. QED
    BY <1>1, <1>3, <2>1, ReadsMove
<1>5. CASE SyncShopifyProducts(y)
  <2>. DEFINE s == fetched[y]
  <2>1. /\ s # 0 /\ fetched' = [fetched EXCEPT ![y] = 0]
        /\ UNCHANGED <<source, shop, permit, approval, request, order>>
        /\ product' = IF ~Exists /\ shop[s].price = 0 THEN product ELSE Observed(s)
    BY <1>5 DEF SyncShopifyProducts, unlessProduct
  <2>2. s \in 1..Len(shop) /\ Synchronised
    BY <1>1, <2>1 DEF CatalogInv, Observations
  <2>. HIDE DEF s
  <2>3. CASE ~Exists /\ shop[s].price = 0
    <3>1. UNCHANGED <<source, shop, product, permit, approval, request, order>>
      BY <2>1, <2>3
    <3>. QED
      BY <1>1, <1>3, <2>1, <3>1, ReadsMove
  <2>4. CASE Exists \/ shop[s].price # 0
    <3>1. product' = Observed(s)
      BY <2>1, <2>4
    <3>2. /\ Observed(s) \in ProductType /\ Observed(s).mirrors = s
          /\ Observed(s).active => shop[s] = [price |-> Observed(s).price, on |-> TRUE]
      BY <2>2, <2>4, ObservedFacts DEF Exists
    <3>3. \A r \in Requests : request[r].at = "claim" /\ ~request[r].raced => s >= request[r].seen
      BY <2>1 DEF CatalogInv, NotOvertaken, s
    <3>. QED
      BY <1>1, <1>3, <2>1, <2>2, <3>1, <3>2, <3>3, ProductMoves
  <2>. QED
    BY <2>3, <2>4
<1>. QED
  BY <1>2, <1>4, <1>5

(* The merchant's form: no observation is involved.                         *)
LEMMA SaveStep ==
    ASSUME CatalogInv, SaveProduct
    PROVE  CatalogInv'
<1>1. ~Synchronised /\ UNCHANGED <<source, shop, fetched, permit, approval, request, order>>
  BY DEF SaveProduct, unlessProduct
<1>2. PICK p \in Prices, on \in BOOLEAN :
        product' = [NoProduct EXCEPT !.price = p, !.active = on]
  BY DEF SaveProduct
<1>3. product' = [price |-> p, active |-> on, mirrors |-> 0]
  BY <1>2 DEF NoProduct
<1>4. product' \in ProductType /\ product'.mirrors = 0
  BY <1>3, CatalogFacts DEF ProductType
<1>5. \A r \in Requests : request[r].seen = 0
  BY <1>1 DEF CatalogInv, Observations
<1>6. fetched' \in [Syncs -> 0..MaxShop] /\ request' \in [Requests -> RequestType]
  BY <1>1, CatalogFacts
<1>. QED
  BY <1>1, <1>4, <1>5, <1>6, ProductMoves

(* The permit and its approval.                                             *)
LEMMA ApprovalStepKeeps ==
    ASSUME CatalogInv,
           \/ ReadProduct \/ CreateIntent \/ PermitExpires \/ ExchangeApprovalToken \/ SessionExpires
           \/ \E b \in Tabs : ApprovalOptions(b) \/ Approve(b) \/ CompleteApproval(b)
    PROVE  CatalogInv'
<1>1. /\ permit \in PermitType /\ approval \in ApprovalType
      /\ permit.status # "none" => Exists
      /\ permit.confirmed => approval.session = "used" /\ permit.status # "none"
      /\ permit.status = "none" => approval.session = "none"
      /\ approval.link = "unused" => approval.session = "none"
  BY DEF CatalogInv, CatalogTypeOK, PermitType, ApprovalType, PermitStands
<1>2. PICK p \in PermitType : p = permit
  BY <1>1
<1>3. PICK a \in ApprovalType : a = approval
  BY <1>1
<1>0. CASE ReadProduct
  <2>1. /\ permit.status = "none" /\ Exists
        /\ UNCHANGED <<source, shop, product, fetched, approval, request, order>>
        /\ permit' = [p EXCEPT !.price = product.price]
    BY <1>0, <1>2 DEF ReadProduct
  <2>2. product.price \in Prices
    BY <2>1, CatalogFacts DEF Exists, ProductType
  <2>3. permit' \in PermitType /\ permit'.status = p.status /\ permit'.confirmed = p.confirmed
    BY <2>1, <2>2 DEF PermitType
  <2>. QED
    BY <1>1, <1>2, <2>1, <2>3, ApprovalMoves
<1>4. CASE CreateIntent
  <2>1. /\ permit.status = "none" /\ Exists
        /\ UNCHANGED <<source, shop, product, fetched, approval, request, order>>
    BY <1>4 DEF CreateIntent
  <2>2. PICK max \in Prices, rule \in Rules :
            permit' = [p EXCEPT !.status = "pending_confirmation", !.max = max, !.rule = rule]
    BY <1>2, <1>4 DEF CreateIntent
  <2>3. permit' \in PermitType /\ permit'.status # "none" /\ permit'.confirmed = p.confirmed
    BY <2>2 DEF PermitType
  <2>. QED
    BY <1>1, <1>2, <2>1, <2>3, ApprovalMoves
<1>5. CASE PermitExpires
  <2>1. UNCHANGED <<source, shop, product, fetched, approval, request, order>>
        /\ permit' = [p EXCEPT !.over = TRUE]
    BY <1>2, <1>5 DEF PermitExpires
  <2>2. /\ permit' \in PermitType /\ permit'.status = p.status /\ permit'.price = p.price
        /\ permit'.confirmed = p.confirmed /\ permit'.max = p.max /\ permit'.rule = p.rule
    BY <2>1 DEF PermitType
  <2>. QED
    BY <1>1, <1>2, <2>1, <2>2, ApprovalMoves
<1>6. CASE ExchangeApprovalToken
  <2>1. /\ permit.status = "pending_confirmation" /\ approval.link = "unused" /\ permit' = permit
        /\ UNCHANGED <<source, shop, product, fetched, request, order>>
        /\ approval' = [a EXCEPT !.link = "exchanged", !.session = "open"]
    BY <1>3, <1>6 DEF ExchangeApprovalToken, ApprovalStep, Pending
  <2>2. approval' \in ApprovalType /\ approval'.link = "exchanged"
    BY <2>1 DEF ApprovalType
  <2>. QED
    BY <1>1, <2>1, <2>2, ApprovalMoves
<1>7. CASE SessionExpires
  <2>1. /\ approval.session = "open" /\ permit' = permit
        /\ UNCHANGED <<source, shop, product, fetched, request, order>>
        /\ approval' = [a EXCEPT !.session = "expired"]
    BY <1>3, <1>7 DEF SessionExpires, ApprovalStep
  <2>2. approval' \in ApprovalType /\ approval'.link = a.link
    BY <2>1 DEF ApprovalType
  <2>. QED
    BY <1>1, <1>3, <2>1, <2>2, ApprovalMoves
<1>8. ASSUME NEW tabs \in [Tabs -> {"idle", "challenged", "verified"}],
             NEW session \in {"none", "open", "used", "expired"}
      PROVE  /\ [a EXCEPT !.tab = tabs] \in ApprovalType
             /\ [a EXCEPT !.tab = tabs].link = a.link /\ [a EXCEPT !.tab = tabs].session = a.session
             /\ [a EXCEPT !.tab = tabs, !.session = session] \in ApprovalType
             /\ [a EXCEPT !.tab = tabs, !.session = session].link = a.link
             /\ [a EXCEPT !.tab = tabs, !.session = session].session = session
  BY DEF ApprovalType
<1>9. ASSUME NEW b \in Tabs, NEW place \in {"idle", "challenged", "verified"}
      PROVE  [a.tab EXCEPT ![b] = place] \in [Tabs -> {"idle", "challenged", "verified"}]
  BY DEF ApprovalType
<1>10. ASSUME NEW b \in Tabs, ApprovalOptions(b) \/ Approve(b) PROVE CatalogInv'
  <2>1. PICK place \in {"idle", "challenged", "verified"} :
            approval' = [approval EXCEPT !.tab[b] = place]
    BY <1>10 DEF ApprovalOptions, Approve, ApprovalStep
  <2>2. PICK tabs \in [Tabs -> {"idle", "challenged", "verified"}] : tabs = [a.tab EXCEPT ![b] = place]
    BY <1>9
  <2>3. approval' = [a EXCEPT !.tab = tabs]
    BY <1>3, <2>1, <2>2
  <2>4. permit' = permit /\ UNCHANGED <<source, shop, product, fetched, request, order>>
    BY <1>10 DEF ApprovalOptions, Approve, ApprovalStep
  <2>5. approval' \in ApprovalType /\ approval'.link = a.link /\ approval'.session = a.session
    BY <1>8, <2>3
  <2>. QED
    BY <1>1, <1>3, <2>4, <2>5, ApprovalMoves
<1>11. ASSUME NEW b \in Tabs, CompleteApproval(b) PROVE CatalogInv'
  <2>1. PICK session \in {"none", "open", "used", "expired"} :
            session = IF a.session = "open" THEN "used" ELSE a.session
    BY DEF ApprovalType
  <2>2. approval' = [approval EXCEPT !.tab[b] = "idle", !.session = session]
    BY <1>3, <1>11, <2>1 DEF CompleteApproval, ApprovalStep
  <2>3. PICK tabs \in [Tabs -> {"idle", "challenged", "verified"}] : tabs = [a.tab EXCEPT ![b] = "idle"]
    BY <1>9
  <2>4. approval' = [a EXCEPT !.tab = tabs, !.session = session]
    BY <1>3, <2>2, <2>3
  <2>5. approval' \in ApprovalType /\ approval'.link = a.link /\ approval'.session = session
    BY <1>8, <2>4
  <2>6. UNCHANGED <<source, shop, product, fetched, request, order>>
    BY <1>11 DEF CompleteApproval, ApprovalStep
  <2>7. CASE approval.session = "open" /\ permit.status = "pending_confirmation"
    <3>1. permit' = [p EXCEPT !.status = "confirmed", !.confirmed = TRUE]
      BY <1>2, <1>11, <2>7 DEF CompleteApproval
    <3>2. /\ permit' \in PermitType /\ permit'.status = "confirmed" /\ permit'.confirmed
          /\ permit'.price = p.price /\ permit'.max = p.max /\ permit'.rule = p.rule
      BY <3>1 DEF PermitType
    <3>3. session = "used"
      BY <1>3, <2>1, <2>7
    <3>. QED
      BY <1>1, <1>2, <1>3, <2>5, <2>6, <2>7, <3>2, <3>3, ApprovalMoves
  <2>8. CASE ~(approval.session = "open" /\ permit.status = "pending_confirmation")
    <3>1. permit' = permit
      BY <1>11, <2>8 DEF CompleteApproval
    <3>2. /\ session = "none" <=> approval.session = "none"
          /\ approval.session = "used" => session = "used"
      BY <1>3, <2>1
    <3>. QED
      BY <1>1, <1>3, <2>5, <2>6, <3>1, <3>2, ApprovalMoves
  <2>. QED
    BY <2>7, <2>8
<1>. QED
  BY <1>0, <1>4, <1>5, <1>6, <1>7, <1>10, <1>11
(* A prepareCheckout until it has the product to decide about.              *)
LEMMA RequestReads ==
    ASSUME CatalogInv, NEW r \in Requests,
           BeginCheckout(r) \/ ProductVariant(r) \/ CheckoutPaused(r)
    PROVE  CatalogInv'
<1>1. /\ request \in [Requests -> RequestType] /\ fetched \in [Syncs -> 0..MaxShop]
      /\ 0 \in 0..MaxShop /\ Len(shop) \in 0..MaxShop /\ request[r] \in RequestType
      /\ \A y \in Syncs : fetched[y] \in 0..Len(shop)
  BY CatalogFacts
<1>2. request[r].at # "idle" => permit.status # "none"
  BY DEF CatalogInv, PermitStands
<1>3. UNCHANGED <<source, shop, product, fetched, permit, approval, order>>
  BY DEF BeginCheckout, ProductVariant, CheckoutPaused, RequestStep
<1>4. ASSUME NEW next \in RequestType, request' = [request EXCEPT ![r] = next],
             \/ /\ next.seen = 0 /\ next.at # "refresh"
                /\ next.at # "idle" => permit.status # "none"
                /\ next.at = "fetch" => Synchronised
             \/ /\ next.at = "refresh" /\ next.seen = Len(shop)
                /\ Synchronised /\ permit.status # "none"
                /\ ~next.raced =>
                    /\ \A y \in Syncs : fetched[y] = 0
                    /\ \A o \in Requests \ {r} : request[o].at # "refresh"
      PROVE  CatalogInv'
  <2>1. /\ request' \in [Requests -> RequestType] /\ request'[r] = next
        /\ \A o \in Requests \ {r} : request'[o] = request[o]
    BY <1>1, <1>4
  <2>2. fetched' \in [Syncs -> 0..MaxShop] /\ \A y \in Syncs : fetched'[y] = fetched[y]
    BY <1>1, <1>3
  <2>3. ASSUME NEW q \in Requests
        PROVE   \/ request'[q] = request[q]
                \/ /\ request'[q].seen = 0 /\ request'[q].at # "refresh"
                   /\ request'[q].at # "idle" => permit.status # "none"
                   /\ request'[q].at = "fetch" => Synchronised
                \/ /\ request'[q].at = "refresh" /\ request'[q].seen = Len(shop)
                   /\ Synchronised /\ permit.status # "none"
                   /\ ~request'[q].raced =>
                        /\ \A y \in Syncs : fetched'[y] = 0
                        /\ \A o \in Requests \ {q} : request'[o].at # "refresh"
    <3>1. CASE q # r
      BY <2>1, <3>1
    <3>2. CASE q = r
      BY <1>4, <2>1, <2>2, <3>2
    <3>. QED
      BY <3>1, <3>2
  <2>. QED
    BY <1>3, <2>1, <2>2, <2>3, ReadsMove
<1>5. /\ NoRequest \in RequestType /\ NoRequest.seen = 0 /\ NoRequest.at = "idle"
      /\ NoRequest = [at |-> "idle", seen |-> 0, raced |-> FALSE]
  BY <1>1 DEF NoRequest, RequestType
<1>6. CASE BeginCheckout(r)
  <2>1. PICK place \in {"fetch", "claim"} :
            /\ place = "fetch" => Synchronised
            /\ request' = [request EXCEPT ![r] = [NoRequest EXCEPT !.at = place]]
    BY <1>6 DEF BeginCheckout, RequestStep
  <2>2. PICK next : next = [NoRequest EXCEPT !.at = place]
    OBVIOUS
  <2>3. next \in RequestType /\ next.seen = 0 /\ next.at = place
    BY <1>1, <2>2 DEF NoRequest, RequestType
  <2>4. permit.status # "none"
    BY <1>6 DEF BeginCheckout
  <2>. QED
    BY <1>4, <2>1, <2>2, <2>3, <2>4
<1>7. CASE ProductVariant(r)
  <2>. DEFINE late == \/ \E y \in Syncs : fetched[y] # 0
                      \/ \E o \in Requests \ {r} : request[o].at = "refresh"
              next == [at |-> "refresh", seen |-> Len(shop), raced |-> late]
  <2>1. request' = [request EXCEPT ![r] = next] /\ request[r].at = "fetch"
    BY <1>7 DEF ProductVariant, RequestStep
  <2>2. Synchronised
    BY <2>1 DEF CatalogInv, Observations
  <2>3. late \in BOOLEAN
    OBVIOUS
  <2>4. ~late => /\ \A y \in Syncs : fetched[y] = 0
                 /\ \A o \in Requests \ {r} : request[o].at # "refresh"
    OBVIOUS
  <2>. HIDE DEF late
  <2>5. next \in RequestType
    BY <1>1, <2>3 DEF RequestType
  <2>6. next.at = "refresh" /\ next.seen = Len(shop) /\ next.raced = late
    OBVIOUS
  <2>. HIDE DEF next
  <2>. QED
    BY <1>2, <1>4, <2>1, <2>2, <2>4, <2>5, <2>6
<1>8. CASE CheckoutPaused(r)
  <2>1. request' = [request EXCEPT ![r] = NoRequest]
    BY <1>8 DEF CheckoutPaused, RequestStep
  <2>. QED
    BY <1>4, <1>5, <2>1
<1>. QED
  BY <1>6, <1>7, <1>8

(* It stores what it observed.                                              *)
LEMMA RequestRefreshes ==
    ASSUME CatalogInv, NEW r \in Requests, RefreshShopifyProductForPolicy(r)
    PROVE  CatalogInv'
<1>. DEFINE s == request[r].seen
<1>1. /\ request[r].at = "refresh" /\ product' = Observed(s)
      /\ UNCHANGED <<source, shop, fetched, approval, permit, order>>
      /\ request' = [request EXCEPT ![r] = [request[r] EXCEPT !.at = "claim"]]
  BY DEF RefreshShopifyProductForPolicy, RequestStep
<1>2. /\ request \in [Requests -> RequestType] /\ fetched \in [Syncs -> 0..MaxShop]
      /\ request[r] \in RequestType /\ s \in 0..Len(shop) /\ Len(shop) \in Nat
  BY CatalogFacts
<1>3. s \in 1..Len(shop) /\ Synchronised
  BY <1>1, <1>2 DEF CatalogInv, Observations
<1>4. product # NoProduct
  BY <1>1 DEF CatalogInv, PermitStands, Exists
<1>5. PICK x \in RequestType : x = request[r]
  BY <1>2
<1>6. PICK next : next = [x EXCEPT !.at = "claim"]
  OBVIOUS
<1>7. /\ next \in RequestType /\ next.at = "claim" /\ next.seen = s /\ next.raced = x.raced
  BY <1>5, <1>6 DEF RequestType
<1>8. request' = [request EXCEPT ![r] = next]
  BY <1>1, <1>5, <1>6
<1>. HIDE DEF s
<1>9. /\ request' \in [Requests -> RequestType] /\ request'[r] = next
      /\ \A o \in Requests \ {r} : request'[o] = request[o]
  BY <1>2, <1>7, <1>8
<1>10. /\ Observed(s) \in ProductType /\ Observed(s).mirrors = s
       /\ Observed(s).active => shop[s] = [price |-> Observed(s).price, on |-> TRUE]
  BY <1>3, <1>4, ObservedFacts
<1>11. \A q \in Requests : request[q].at = "claim" /\ ~request[q].raced => s >= request[q].seen
  BY <1>1 DEF CatalogInv, NotOvertaken, s
<1>12. ASSUME NEW q \in Requests
       PROVE  /\ request'[q].seen = request[q].seen /\ request'[q].raced = request[q].raced
              /\ \/ request'[q].at = request[q].at
                 \/ /\ request[q].at = "refresh" /\ request'[q].at = "claim"
                    /\ s = request[q].seen
  <2>1. CASE q = r
    BY <1>1, <1>5, <1>7, <1>9, <2>1 DEF s
  <2>2. CASE q # r
    BY <1>9, <2>2
  <2>. QED
    BY <2>1, <2>2
<1>13. fetched' \in [Syncs -> 0..MaxShop] /\ \A y \in Syncs : fetched'[y] \in {0, fetched[y]}
  BY <1>1, <1>2
<1>. QED
  BY <1>1, <1>3, <1>9, <1>10, <1>11, <1>12, <1>13, ProductMoves

(* It decides under the product as it is by then, and orders only what the  *)
(* confirmed permit allows.                                                 *)
LEMMA RequestClaims ==
    ASSUME CatalogInv, NEW r \in Requests, PrepareOrderClaim(r)
    PROVE  CatalogInv'
<1>1. /\ request[r].at = "claim" /\ request' = [request EXCEPT ![r] = NoRequest]
      /\ UNCHANGED <<source, shop, fetched, approval, product>>
  BY DEF PrepareOrderClaim, RequestStep
<1>2. /\ request \in [Requests -> RequestType] /\ request[r] \in RequestType
      /\ 0 \in 0..MaxShop /\ product.mirrors \in 0..MaxShop /\ 0 \notin Prices
  BY CatalogFacts
<1>3. /\ NoRequest \in RequestType /\ NoRequest.seen = 0 /\ NoRequest.at = "idle"
  BY <1>2 DEF NoRequest, RequestType
<1>4. /\ request' \in [Requests -> RequestType] /\ request'[r] = NoRequest
      /\ \A o \in Requests \ {r} : request'[o] = request[o]
  BY <1>1, <1>2, <1>3
<1>5. permit.status # "none" /\ Exists
  BY <1>1 DEF CatalogInv, PermitStands
<1>6. permit \in PermitType
  BY DEF CatalogInv, CatalogTypeOK, PermitType
<1>7. PICK p \in PermitType : p = permit
  BY <1>6
<1>8. Synchronised' = Synchronised /\ Exists' = Exists
  BY <1>1 DEF Synchronised, Exists
<1>9. \/ permit' = permit /\ order' = order
      \/ \E s \in {"expired", "denied"} : permit' = [p EXCEPT !.status = s] /\ order' = order
      \/ /\ ~Ordered /\ Allowed /\ permit' = [p EXCEPT !.status = "executing"]
         /\ order' = [price |-> product.price, mirrors |-> product.mirrors,
                      seen |-> request[r].seen, raced |-> request[r].raced]
  BY <1>7 DEF PrepareOrderClaim
<1>10. /\ permit' \in PermitType /\ permit'.status # "none" /\ permit'.price = permit.price
       /\ permit'.max = permit.max /\ permit'.rule = permit.rule
       /\ permit'.confirmed = permit.confirmed
  <2>1. ASSUME NEW s \in {"expired", "denied", "executing"}, permit' = [p EXCEPT !.status = s]
        PROVE  /\ permit' \in PermitType /\ permit'.status = s /\ permit'.price = p.price
               /\ permit'.max = p.max /\ permit'.rule = p.rule /\ permit'.confirmed = p.confirmed
    BY <2>1 DEF PermitType
  <2>2. \/ permit' = permit
        \/ \E s \in {"expired", "denied", "executing"} : permit' = [p EXCEPT !.status = s]
    BY <1>9
  <2>. QED
    BY <1>5, <1>6, <1>7, <2>1, <2>2
<1>11. ProductMirrors'
  BY <1>1, <1>8 DEF CatalogInv, ProductMirrors
<1>12. NotOvertaken'
  <2>1. \A o \in Requests : request'[o].at \in {"refresh", "claim"} =>
            o # r /\ request'[o] = request[o]
    BY <1>3, <1>4
  <2>. QED
    BY <1>1, <2>1 DEF CatalogInv, NotOvertaken
<1>13. ASSUME NEW q \in Requests
       PROVE  /\ request'[q].seen <= Len(shop) /\ (request'[q].seen # 0 => Synchronised)
              /\ request'[q].at = "fetch" => Synchronised
              /\ request'[q].at = "refresh" => request'[q].seen # 0
  <2>1. CASE q = r
    <3>1. Len(shop) \in Nat
      BY CatalogFacts
    <3>. QED
      BY <1>3, <1>4, <2>1, <3>1
  <2>2. CASE q # r
    BY <1>4, <2>2 DEF CatalogInv, Observations
  <2>. QED
    BY <2>1, <2>2
<1>14. \A o \in Requests : request'[o].at # "idle" => permit'.status # "none"
  BY <1>10
<1>15. CASE order' = order
  <2>1. Ordered' = Ordered
    BY <1>15 DEF Ordered
  <2>2. CatalogTypeOK'
    BY <1>1, <1>4, <1>10, <1>15 DEF CatalogInv, CatalogTypeOK, PermitType, RequestType
  <2>3. Observations'
    BY <1>1, <1>8, <1>13, <1>15, <2>1 DEF CatalogInv, Observations
  <2>4. PermitStands'
    BY <1>1, <1>5, <1>8, <1>10, <1>14, <2>1 DEF CatalogInv, PermitStands
  <2>5. OrderHonoursMandate'
    BY <1>1, <1>8, <1>10, <1>15, <2>1 DEF CatalogInv, OrderHonoursMandate
  <2>. QED
    BY <1>11, <1>12, <2>2, <2>3, <2>4, <2>5 DEF CatalogInv
<1>16. CASE /\ ~Ordered /\ Allowed
            /\ order' = [price |-> product.price, mirrors |-> product.mirrors,
                         seen |-> request[r].seen, raced |-> request[r].raced]
  <2>1. /\ permit.confirmed /\ product.active /\ product.price <= permit.max
        /\ permit.rule = "none" => product.price = permit.price
        /\ permit.rule = "decrease_only" => product.price <= permit.price
    BY <1>16 DEF Allowed
  <2>2. product \in ProductType
    BY <1>5, CatalogFacts DEF Exists
  <2>3. /\ product.price \in Prices /\ request[r].seen \in 0..MaxShop
        /\ request[r].raced \in BOOLEAN
    BY <1>2, <2>2 DEF ProductType, RequestType
  <2>4. /\ order'.price = product.price /\ order'.mirrors = product.mirrors
        /\ order'.seen = request[r].seen /\ order'.raced = request[r].raced
        /\ order' \in [price : Prices \cup {0}, mirrors : 0..MaxShop, seen : 0..MaxShop,
                       raced : BOOLEAN]
    BY <1>2, <1>16, <2>3
  <2>5. approval.session = "used"
    BY <2>1 DEF CatalogInv, PermitStands
  <2>6. Synchronised => /\ product.mirrors \in 1..Len(shop)
                        /\ shop[product.mirrors] = [price |-> product.price, on |-> TRUE]
    BY <1>5, <2>1 DEF CatalogInv, ProductMirrors, Exists
  <2>7. product.mirrors >= request[r].seen \/ request[r].raced
    BY <1>1 DEF CatalogInv, NotOvertaken
  <2>8. CatalogTypeOK'
    BY <1>1, <1>4, <1>10, <2>4 DEF CatalogInv, CatalogTypeOK, PermitType, RequestType
  <2>9. Observations'
    BY <1>1, <1>8, <1>13, <2>4, <2>6 DEF CatalogInv, Observations
  <2>10. PermitStands'
    BY <1>1, <1>5, <1>8, <1>10, <1>14 DEF CatalogInv, PermitStands
  <2>11. OrderHonoursMandate'
    BY <1>1, <1>8, <1>10, <2>1, <2>4, <2>5, <2>6, <2>7 DEF OrderHonoursMandate
  <2>. QED
    BY <1>11, <1>12, <2>8, <2>9, <2>10, <2>11 DEF CatalogInv
<1>. QED
  BY <1>9, <1>15, <1>16

(* Every step keeps the invariant.                                          *)
LEMMA CatalogStep == CatalogInv /\ [CatalogNext]_catalogVars => CatalogInv'
<1>. SUFFICES ASSUME CatalogInv, [CatalogNext]_catalogVars PROVE CatalogInv'
  OBVIOUS
<1>1. CASE ShopChanges \/ SaveProduct
  BY <1>1, ShopStep, SaveStep
<1>2. CASE \/ ReadProduct \/ CreateIntent \/ PermitExpires \/ ExchangeApprovalToken \/ SessionExpires
           \/ \E b \in Tabs : ApprovalOptions(b) \/ Approve(b) \/ CompleteApproval(b)
  BY <1>2, ApprovalStepKeeps
<1>3. CASE \E y \in Syncs : SyncFetch(y) \/ SyncShopifyProducts(y) \/ SyncFails(y)
  BY <1>3, SyncStep
<1>4. CASE \E r \in Requests : BeginCheckout(r) \/ ProductVariant(r) \/ CheckoutPaused(r)
  BY <1>4, RequestReads
<1>5. CASE \E r \in Requests : RefreshShopifyProductForPolicy(r) \/ PrepareOrderClaim(r)
  BY <1>5, RequestRefreshes, RequestClaims
<1>6. CASE UNCHANGED catalogVars
  <2>1. UNCHANGED <<source, shop, product, fetched, permit, approval, request, order>>
    BY <1>6 DEF catalogVars
  <2>. QED
    BY <2>1 DEF CatalogInv, CatalogTypeOK, ProductMirrors, Observations, NotOvertaken,
                PermitStands, OrderHonoursMandate, Synchronised, Exists, Ordered
<1>. QED
  BY <1>1, <1>2, <1>3, <1>4, <1>5, <1>6 DEF CatalogNext

(* A catalogue without a product, a permit or an order.                     *)
LEMMA CatalogStart == CatalogInit => CatalogInv
<1>. SUFFICES ASSUME CatalogInit PROVE CatalogInv
  OBVIOUS
<1>1. PICK p \in Prices : shop = <<[price |-> p, on |-> TRUE]>>
  BY DEF CatalogInit
<1>2. /\ product = NoProduct /\ fetched = [y \in Syncs |-> 0]
      /\ permit = [status |-> "none", price |-> 0, max |-> 0, rule |-> "none",
                   confirmed |-> FALSE, over |-> FALSE]
      /\ approval = [link |-> "unused", session |-> "none", tab |-> [b \in Tabs |-> "idle"]]
      /\ request = [r \in Requests |-> NoRequest] /\ order = NoOrder
  BY DEF CatalogInit
<1>3. MaxShop \in Nat /\ MaxShop > 0
  BY CatalogAssumption
<1>4. shop \in Seq(Variant) /\ Len(shop) = 1
  <2>1. [price |-> p, on |-> TRUE] \in Variant
    BY DEF Variant
  <2>. QED
    BY <1>1, <2>1
<1>5. \A r \in Requests : request[r].at = "idle" /\ request[r].seen = 0
  BY <1>2 DEF NoRequest
<1>6. ~Ordered /\ product.mirrors = 0
  BY <1>2 DEF Ordered, NoProduct
<1>7. CatalogTypeOK
  <2>1. NoRequest \in RequestType
    BY <1>3 DEF NoRequest, RequestType
  <2>2. request \in [Requests -> RequestType] /\ fetched \in [Syncs -> 0..MaxShop]
    BY <1>2, <1>3, <2>1
  <2>3. order \in [price : Prices \cup {0}, mirrors : 0..MaxShop, seen : 0..MaxShop,
                   raced : BOOLEAN]
    BY <1>2, <1>3 DEF NoOrder
  <2>4. permit \in PermitType /\ approval \in ApprovalType
    BY <1>2 DEF PermitType, ApprovalType, Rules
  <2>. QED
    BY <1>2, <1>4, <2>2, <2>3, <2>4
    DEF CatalogTypeOK, Variant, RequestType, PermitType, ApprovalType
<1>8. ProductMirrors
  BY <1>2, <1>6 DEF ProductMirrors
<1>9. Observations
  BY <1>2, <1>3, <1>4, <1>5, <1>6 DEF Observations
<1>10. NotOvertaken
  BY <1>5 DEF NotOvertaken
<1>11. PermitStands
  BY <1>2, <1>5, <1>6 DEF PermitStands
<1>12. OrderHonoursMandate
  BY <1>6 DEF OrderHonoursMandate
<1>. QED
  BY <1>7, <1>8, <1>9, <1>10, <1>11, <1>12 DEF CatalogInv

(* The catalogue's invariant holds of every behaviour.                      *)
LEMMA CatalogInvariant == CatalogSpec => []CatalogInv
<1>1. CatalogInit => CatalogInv
  BY CatalogStart
<1>2. CatalogInv /\ [CatalogNext]_catalogVars => CatalogInv'
  BY CatalogStep
<1>. QED
  BY <1>1, <1>2, PTL DEF CatalogSpec

(* An order has a price the buyer's permit allows, one Shopify had for a    *)
(* variant on sale, and never an older one than its own request observed    *)
(* unless another observation was under way: prepareCheckout fetches the    *)
(* variant again and decides under what is stored (service.ts, store.ts).   *)
THEOREM OrdersHonourMandates == CatalogSpec => []OrderHonoursMandate
<1>1. CatalogInv => OrderHonoursMandate
  BY DEF CatalogInv
<1>. QED
  BY <1>1, CatalogInvariant, PTL

-----------------------------------------------------------------------------
(* A behaviour of the four components together is one of each of them.      *)
LEMMA PlatformParts == Spec => TokensSpec /\ MembersSpec /\ CatalogSpec /\ RowLocksSpec
<1>1. Init => TokensInit /\ MembersInit /\ CatalogInit /\ RowLocksInit
  BY DEF Init
<1>2. [Next]_platformVars => /\ [TokensNext]_tokenVars /\ [MembersNext]_memberVars
                             /\ [CatalogNext]_catalogVars /\ [RowLocksNext]_lockVars
  BY DEF Next, Only, platformVars
<1>. QED
  BY <1>1, <1>2, PTL DEF Spec, TokensSpec, MembersSpec, CatalogSpec, RowLocksSpec

(* Every variable of the server's four small components has its type, for   *)
(* any number of connections, calls, users, requests and tabs.              *)
THEOREM PlatformTypeCorrect == Spec => []PlatformTypeOK
<1>1. TokensInv /\ MembersTypeOK /\ CatalogInv /\ LocksInv => PlatformTypeOK
  BY DEF TokensInv, CatalogInv, LocksInv, PlatformTypeOK
<1>. QED
  BY <1>1, PlatformParts, TokensInvariant, MembersInvariant, CatalogInvariant, LocksInvariant, PTL
=============================================================================
