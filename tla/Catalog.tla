------------------------------- MODULE Catalog -------------------------------
(***************************************************************************)
(* One catalogue product of one merchant and one PurchasePermit for it,    *)
(* without negotiation: from Shopify or from the merchant's own form to    *)
(* the order (store.ts, service.ts, shopify.ts; core policy.ts), and the   *)
(* approval of the permit with a passkey (webauthn.ts).  Each transaction  *)
(* is one step, each request to Shopify another: what it observed may be   *)
(* old by the time it is stored.  The refund terms, which the synchroniser *)
(* and the policy treat like the price, are left out.                      *)
(***************************************************************************)
EXTENDS Naturals, Sequences

CONSTANTS
    Prices,         \* prices the product may have, positive
    Syncs,          \* catalogue synchronisations in progress
    Requests,       \* prepareCheckout requests in progress
    Tabs,           \* tabs of the approval page
    MaxShop         \* bound of the states Shopify's variant goes through

ASSUME CatalogAssumption == Prices \subseteq Nat \ {0} /\ MaxShop \in Nat \ {0}

VARIABLES
    source,         \* catalog_source of the product
    shop,           \* the states of the variant at Shopify; price 0 once it is gone
    product,        \* the product's current revision, and the shop state it mirrors
    fetched,        \* each synchronisation's observation, 0 without one
    permit,         \* the PurchasePermit; before its INSERT, the price read for it
    approval,       \* its link and session, the challenge of each tab
    request,        \* each prepareCheckout: where it is, what it observed
    order           \* the order's price, the shop state behind it and the one asked for

catalogVars == <<source, shop, product, fetched, permit, approval, request, order>>
unlessProduct == <<source, shop, permit, approval, request, order>>

Rules == {"none", "decrease_only", "within_cap"}    \* priceChangePolicy
NoProduct == [price |-> 0, active |-> FALSE, mirrors |-> 0]
NoRequest == [at |-> "idle", seen |-> 0, raced |-> FALSE]
NoOrder == [price |-> 0, mirrors |-> 0, seen |-> 0, raced |-> FALSE]

CatalogInit ==
    /\ source \in {"shopify_admin_graphql", "agentrail_server"}
    /\ shop \in {<<[price |-> p, on |-> TRUE]>> : p \in Prices}
    /\ product = NoProduct
    /\ fetched = [y \in Syncs |-> 0]
    /\ permit = [status |-> "none", price |-> 0, max |-> 0, rule |-> "none",
                 confirmed |-> FALSE, over |-> FALSE]
    /\ approval = [link |-> "unused", session |-> "none", tab |-> [b \in Tabs |-> "idle"]]
    /\ request = [r \in Requests |-> NoRequest]
    /\ order = NoOrder

Synchronised == source = "shopify_admin_graphql"
Exists == product # NoProduct
Ordered == order # NoOrder

-----------------------------------------------------------------------------
ShopChanges ==                                      \* at Shopify
    /\ Synchronised /\ Len(shop) < MaxShop /\ shop[Len(shop)].price # 0
    /\ \E p \in Prices \cup {0}, on \in BOOLEAN :
        /\ p = 0 => ~on
        /\ shop' = Append(shop, [price |-> p, on |-> on])
    /\ UNCHANGED <<source, product, fetched, permit, approval, request, order>>

PriceOnly(item) == item.price # product.price       \* mutant of Changed
Changed(item) == item.price # product.price \/ item.on # product.active

AsItIs(s) ==                                        \* mutant of Observed
    [price |-> shop[s].price, active |-> shop[s].on, mirrors |-> s]

(* The product after the observation s is stored: a variant that is gone    *)
(* leaves it archived, an unchanged one touches no revision.                *)
Observed(s) ==
    LET item == shop[s] IN
    [IF item.price = 0 THEN [product EXCEPT !.active = FALSE]
     ELSE IF Changed(item) THEN [product EXCEPT !.price = item.price, !.active = item.on]
     ELSE product
        EXCEPT !.mirrors = s]

(* configureShopify and syncShopify: products(), then syncShopifyProducts.  *)
SyncFetch(y) ==
    /\ Synchronised /\ fetched[y] = 0
    /\ fetched' = [fetched EXCEPT ![y] = Len(shop)]
    /\ UNCHANGED <<source, shop, product, permit, approval, request, order>>

SyncShopifyProducts(y) ==
    /\ fetched[y] # 0
    /\ product' = IF ~Exists /\ shop[fetched[y]].price = 0 THEN product
                  ELSE Observed(fetched[y])
    /\ fetched' = [fetched EXCEPT ![y] = 0]
    /\ UNCHANGED unlessProduct

SyncFails(y) ==
    /\ fetched[y] # 0
    /\ fetched' = [fetched EXCEPT ![y] = 0]
    /\ UNCHANGED <<product, unlessProduct>>

(* createProduct; updateProduct refuses a Shopify product, and a version    *)
(* other than the current one.                                              *)
SaveProduct ==
    /\ ~Synchronised
    /\ \E p \in Prices, on \in BOOLEAN :
        product' = [NoProduct EXCEPT !.price = p, !.active = on]
    /\ UNCHANGED <<fetched, unlessProduct>>

-----------------------------------------------------------------------------
(* createIntent reads the product in a query of its own; the row it inserts *)
(* carries the price of then.                                               *)
ReadProduct ==
    /\ permit.status = "none" /\ Exists /\ product.active
    /\ permit' = [permit EXCEPT !.price = product.price]
    /\ UNCHANGED <<source, shop, product, fetched, approval, request, order>>

CreateIntent ==
    /\ permit.status = "none" /\ Exists /\ permit.price # 0
    /\ \E max \in Prices, rule \in Rules :
        permit' = [permit EXCEPT !.status = "pending_confirmation",
                                 !.max = max, !.rule = rule]
    /\ UNCHANGED <<source, shop, product, fetched, approval, request, order>>

PermitExpires ==
    /\ permit.status # "none" /\ ~permit.over
    /\ permit' = [permit EXCEPT !.over = TRUE]
    /\ UNCHANGED <<source, shop, product, fetched, approval, request, order>>

ApprovalStep(next) ==
    /\ approval' = next
    /\ UNCHANGED <<source, shop, product, fetched, request, order>>

Pending == permit.status = "pending_confirmation" /\ ~permit.over

ExchangeApprovalToken ==
    /\ Pending /\ approval.link = "unused"
    /\ ApprovalStep([approval EXCEPT !.link = "exchanged", !.session = "open"])
    /\ UNCHANGED permit

SessionExpires ==
    /\ approval.session = "open"
    /\ ApprovalStep([approval EXCEPT !.session = "expired"])
    /\ UNCHANGED permit

ApprovalOptions(b) ==
    /\ Pending /\ approval.session = "open" /\ approval.tab[b] = "idle"
    /\ ApprovalStep([approval EXCEPT !.tab[b] = "challenged"])
    /\ UNCHANGED permit

(* The challenge is consumed before the assertion is verified.              *)
Approve(b) ==
    /\ approval.tab[b] = "challenged"
    /\ \E place \in {"verified", "idle"} :
        ApprovalStep([approval EXCEPT !.tab[b] = place])
    /\ UNCHANGED permit

(* The session is used up even when the permit is no longer pending.        *)
CompleteApproval(b) ==
    /\ approval.tab[b] = "verified"
    /\ ApprovalStep([approval EXCEPT !.tab[b] = "idle",
                                     !.session = IF @ = "open" THEN "used" ELSE @])
    /\ permit' = IF approval.session = "open" /\ permit.status = "pending_confirmation"
                 THEN [permit EXCEPT !.status = "confirmed", !.confirmed = TRUE]
                 ELSE permit

-----------------------------------------------------------------------------
(* prepareCheckout                                                          *)
RequestStep(r, next) ==
    /\ request' = [request EXCEPT ![r] = next]
    /\ UNCHANGED <<source, shop, fetched, approval>>

BeginCheckout(r) ==
    /\ request[r].at = "idle" /\ permit.status # "none"
    /\ RequestStep(r, [NoRequest EXCEPT
            !.at = IF Synchronised /\ ~Ordered THEN "fetch" ELSE "claim"])
    /\ UNCHANGED <<product, permit, order>>

(* productVariant; raced: another observation is on its way to the store.   *)
ProductVariant(r) ==
    /\ request[r].at = "fetch"
    /\ RequestStep(r, [at |-> "refresh", seen |-> Len(shop),
                       raced |-> \/ \E y \in Syncs : fetched[y] # 0
                                 \/ \E o \in Requests \ {r} : request[o].at = "refresh"])
    /\ UNCHANGED <<product, permit, order>>

(* CATALOG_REFRESH_FAILED or PAYMENT_CONFIG_MISSING: the permit stays.      *)
CheckoutPaused(r) ==
    /\ request[r].at \in {"fetch", "refresh", "claim"}
    /\ RequestStep(r, NoRequest)
    /\ UNCHANGED <<product, permit, order>>

RefreshShopifyProductForPolicy(r) ==
    /\ request[r].at = "refresh"
    /\ product' = Observed(request[r].seen)
    /\ RequestStep(r, [request[r] EXCEPT !.at = "claim"])
    /\ UNCHANGED <<permit, order>>

(* evaluatePurchasePermit: a permit denied before is not refused for it.    *)
Allowed ==
    /\ ~permit.over /\ permit.confirmed
    /\ product.active /\ product.price <= permit.max
    /\ permit.rule = "none" => product.price = permit.price
    /\ permit.rule = "decrease_only" => product.price <= permit.price

PrepareOrderClaim(r) ==
    /\ request[r].at = "claim"
    /\ IF Ordered THEN UNCHANGED <<permit, order>>
       ELSE IF Allowed
       THEN /\ order' = [price |-> product.price, mirrors |-> product.mirrors,
                         seen |-> request[r].seen, raced |-> request[r].raced]
            /\ permit' = [permit EXCEPT !.status = "executing"]
       ELSE /\ permit' = [permit EXCEPT !.status = IF permit.over THEN "expired" ELSE "denied"]
            /\ UNCHANGED order
    /\ RequestStep(r, NoRequest)
    /\ UNCHANGED product

CatalogNext ==
    \/ ShopChanges \/ SaveProduct \/ ReadProduct \/ CreateIntent \/ PermitExpires
    \/ ExchangeApprovalToken \/ SessionExpires
    \/ \E y \in Syncs : SyncFetch(y) \/ SyncShopifyProducts(y) \/ SyncFails(y)
    \/ \E b \in Tabs : ApprovalOptions(b) \/ Approve(b) \/ CompleteApproval(b)
    \/ \E r \in Requests :
        \/ BeginCheckout(r) \/ ProductVariant(r) \/ CheckoutPaused(r)
        \/ RefreshShopifyProductForPolicy(r) \/ PrepareOrderClaim(r)

CatalogSpec == CatalogInit /\ [][CatalogNext]_catalogVars

-----------------------------------------------------------------------------
CatalogTypeOK ==
    /\ shop \in Seq([price : Prices \cup {0}, on : BOOLEAN])
    /\ product \in {NoProduct} \cup [price : Prices, active : BOOLEAN, mirrors : 0..MaxShop]
    /\ fetched \in [Syncs -> 0..MaxShop]
    /\ permit \in [status : {"none", "pending_confirmation", "confirmed", "executing",
                             "denied", "expired"},
                   price : Prices \cup {0}, max : Prices \cup {0}, rule : Rules,
                   confirmed : BOOLEAN, over : BOOLEAN]
    /\ approval \in [link : {"unused", "exchanged"},
                     session : {"none", "open", "used", "expired"},
                     tab : [Tabs -> {"idle", "challenged", "verified"}]]
    /\ request \in [Requests -> [at : {"idle", "fetch", "refresh", "claim"},
                                 seen : 0..MaxShop, raced : BOOLEAN]]
    /\ order \in [price : Prices \cup {0}, mirrors : 0..MaxShop, seen : 0..MaxShop,
                  raced : BOOLEAN]

(* An order carries a price the buyer confirmed, one Shopify really had for *)
(* a variant on sale, and never an older one than its own request observed, *)
(* unless another observation was under way meanwhile (README.md:227        *)
(* "SpendSeal automatically re-fetches that exact Shopify variant").        *)
OrderHonoursMandate ==
    Ordered =>
        /\ approval.session = "used" /\ permit.confirmed
        /\ order.price <= permit.max
        /\ permit.rule = "none" => order.price = permit.price
        /\ permit.rule = "decrease_only" => order.price <= permit.price
        /\ Synchronised =>
            /\ shop[order.mirrors] = [price |-> order.price, on |-> TRUE]
            /\ order.mirrors >= order.seen \/ order.raced
=============================================================================
