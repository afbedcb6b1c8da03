---------------------------- MODULE StripeCatalog ----------------------------
(***************************************************************************)
(* The Stripe provider: documents that keep products and prices in one     *)
(* account that they share with each other and with people at the          *)
(* dashboard.                                                              *)
(*                                                                         *)
(* A run inspects the account page by page, compares what carries the      *)
(* document's owner tag with what the document declares, inspects it once  *)
(* more to see that nothing moved, and sends its writes, each under an     *)
(* idempotency key.  A request may be lost, may arrive after the run has   *)
(* stopped waiting for it, and may be sent again.  Keys are chosen by the  *)
(* clients, so that two runs may use one.                                  *)
(*                                                                         *)
(* Stripe itself is modelled after the stub the provider is tested with.   *)
(* Ids are numbers in the order the listings use; the description and the  *)
(* metadata of the user are left out: they are written like the name.      *)
(***************************************************************************)
EXTENDS Integers, Sequences, FiniteSets

CONSTANTS
    Products,       \* ids of products, chosen by the documents
    LookupKeys,
    Runs,           \* plan-and-apply runs, each by one client
    OwnerOf,        \* run -> namespace/name of its document
    KeyOf,          \* run -> the Idempotency-Key of its apply
    Declares,       \* run -> [products, prices] its document declares
    Found,          \* [products, prices] in the account before any run
    PageSize,       \* options.pageSize
    MaxPages,       \* pages #listAll reads, 20 in the code
    MaxAttempts,    \* attempts at a change, 3 in the code
    MaxBegun        \* bound: runs that begin

\* Of the references between the specs: a price belongs to a product of its
\* own document.
validate(declared) ==
    \A l \in DOMAIN declared.prices : declared.prices[l].product \in DOMAIN declared.products

\* nickname "none" is null.
Product == [name : STRING, active : BOOLEAN, owner : STRING]
Price   == [lookupKey : LookupKeys, product : Products, amount : Nat,
            active : BOOLEAN, nickname : STRING, owner : STRING]

ASSUME StripeAssumption ==
    /\ Products \subseteq Nat \ {0}
    /\ PageSize \in Nat \ {0} /\ MaxPages \in Nat \ {0} /\ MaxAttempts \in Nat \ {0}
    /\ OwnerOf \in [Runs -> STRING]
ASSUME DeclaresAssumption ==
    \A r \in Runs :
        /\ validate(Declares[r])
        /\ \A i \in DOMAIN Declares[r].products :
             /\ i \in Products
             /\ Declares[r].products[i] \in [name : STRING, active : BOOLEAN]
        /\ \A l \in DOMAIN Declares[r].prices :
             /\ l \in LookupKeys
             /\ Declares[r].prices[l] \in [product : Products, amount : Nat,
                                          active : BOOLEAN, nickname : STRING]
ASSUME FoundAssumption ==
    /\ DOMAIN Found.products \subseteq Products
    /\ \A i \in DOMAIN Found.products : Found.products[i] \in Product
    /\ Found.prices \in Seq(Price)

VARIABLES
    products,       \* Stripe: id -> product
    prices,         \* Stripe: id -> price, ids given in order of creation
    replies,        \* Stripe: the keys whose first response it replays
    network,        \* requests under way
    run,            \* what each run is at
    landed          \* history: run, change -> requests of it Stripe executed

stripe == <<products, prices, replies>>
vars   == <<products, prices, replies, network, run, landed>>

Change == {<<"product", i>> : i \in Products} \cup {<<"price", l>> : l \in LookupKeys}

Idle == [at |-> "idle"]

Init ==
    /\ products = Found.products
    /\ prices = Found.prices
    /\ replies = {}
    /\ network = {}
    /\ run = [r \in Runs |-> Idle]
    /\ landed = [rc \in Runs \X Change |-> 0]

-----------------------------------------------------------------------------
(***************************************************************************)
(* inspect: the pages of both lists, cut down to what the document owns    *)
(***************************************************************************)
later(ids, cursor) == {i \in ids : i > cursor}

\* The page after cursor: the PageSize first.
page(ids, cursor) ==
    {i \in later(ids, cursor) : Cardinality({j \in later(ids, cursor) : j <= i}) <= PageSize}

hasMore(ids, cursor) == page(ids, cursor) # later(ids, cursor)

owned(objects, o) == {i \in DOMAIN objects : objects[i].owner = o}

keep(objects, ids) == [i \in ids |-> objects[i]]

\* All of it at one instant.
inspection(r) ==
    [products |-> keep(products, owned(products, OwnerOf[r])),
     prices   |-> keep(prices, owned(prices, OwnerOf[r]))]

nothing == [products |-> <<>>, prices |-> <<>>]

with(seen, objects, ids) ==
    [i \in DOMAIN seen \cup ids |-> IF i \in ids THEN objects[i] ELSE seen[i]]

\* The runs that are over and have no request under way.
over == {q \in Runs : /\ run[q].at \in {"ended", "failed"}
                      /\ \A m \in network : m.run # q}

\* "there" and "before" are history: what the document owned when the
\* inspection began, and the runs that were over when this one began.
Begin(r) ==
    /\ run[r].at = "idle"
    /\ Cardinality({q \in Runs : run[q].at # "idle"}) < MaxBegun
    /\ run' = [run EXCEPT ![r] =
         [at |-> "products", pass |-> "plan", cursor |-> 0, pages |-> 0,
          seen |-> nothing, planned |-> nothing, mine |-> {},
          there |-> inspection(r), before |-> over,
          results |-> <<>>, change |-> <<>>, attempt |-> 0]]
    /\ UNCHANGED <<products, prices, replies, network, landed>>

afterPage_partial(at, more, pages) ==
    IF more /\ pages < MaxPages THEN at ELSE IF at = "products" THEN "prices" ELSE "inspected"

\* Where a run is when it has read a page.
afterPage(at, more, pages) ==
    IF more THEN IF pages = MaxPages THEN "failed" ELSE at
    ELSE IF at = "products" THEN "prices" ELSE "inspected"

\* The cursor after a page.
last(ids) == CHOOSE i \in ids : \A j \in ids : j <= i

\* Reads a page of the listing r is at.
ReadPage(r, list, objects) ==
    LET ids  == page(DOMAIN objects, run[r].cursor)
        more == hasMore(DOMAIN objects, run[r].cursor)
        next == afterPage(list, more, run[r].pages + 1)
    IN  /\ run[r].at = list
        /\ run' = [run EXCEPT
             ![r].at = next,
             ![r].cursor = IF next = list THEN last(ids) ELSE 0,
             ![r].pages = IF next = list THEN @ + 1 ELSE 0,
             ![r].seen[list] = with(@, objects, ids \cap owned(objects, OwnerOf[r]))]
        /\ UNCHANGED <<products, prices, replies, network, landed>>

ReadFails(r) ==
    /\ run[r].at \in {"products", "prices"}
    /\ run' = [run EXCEPT ![r].at = "failed"]
    /\ UNCHANGED <<products, prices, replies, network, landed>>

-----------------------------------------------------------------------------
(***************************************************************************)
(* What the document asks of each resource (projectSpec, projectState and  *)
(* the diff between them)                                                  *)
(***************************************************************************)
pricesFor(seen, l) == {i \in DOMAIN seen.prices : seen.prices[i].lookupKey = l}

productAction(r, i) ==
    LET want == Declares[r].products
        seen == run[r].seen.products
    IN  CASE i \notin DOMAIN want -> IF i \in DOMAIN seen THEN "blocked" ELSE "none"
          [] OTHER ->
               IF i \notin DOMAIN seen THEN "create"
               ELSE IF <<want[i].name, want[i].active>> = <<seen[i].name, seen[i].active>>
                    THEN "noop" ELSE "update"

mutableParts_activeOnly(price) == <<price.active>>

mutableParts(price) == <<price.active, price.nickname>>

fixedParts(price) == <<price.product, price.amount>>

\* A price that would have to be replaced is blocked, as is one to delete.
priceAction(r, l) ==
    LET want == Declares[r].prices
        seen == run[r].seen
    IN  CASE l \notin DOMAIN want -> IF pricesFor(seen, l) # {} THEN "blocked" ELSE "none"
          [] OTHER ->
               IF pricesFor(seen, l) = {} THEN "create"
               ELSE LET is == seen.prices[CHOOSE i \in pricesFor(seen, l) : TRUE]
                    IN  IF fixedParts(is) # fixedParts(want[l]) THEN "blocked"
                        ELSE IF mutableParts(is) = mutableParts(want[l])
                             THEN "noop" ELSE "update"

actionOf(r, change) ==
    IF change[1] = "product" THEN productAction(r, change[2]) ELSE priceAction(r, change[2])

\* Two prices under one lookup key are one resource key twice: no plan.
Duplicated(r) == \E l \in LookupKeys : Cardinality(pricesFor(run[r].seen, l)) > 1

\* The plan is made; assertNoDrift reads the account once more, from its first
\* page.
Plan(r) ==
    /\ run[r].at = "inspected" /\ run[r].pass = "plan"
    /\ run' = IF Duplicated(r)
              THEN [run EXCEPT ![r].at = "failed"]
              ELSE [run EXCEPT ![r].at = "products", ![r].pass = "apply",
                               ![r].planned = run[r].seen, ![r].seen = nothing,
                               ![r].there = inspection(r)]
    /\ UNCHANGED <<products, prices, replies, network, landed>>

\* assertNoDrift: what was read twice is the same.
Start(r) ==
    /\ run[r].at = "inspected" /\ run[r].pass = "apply"
    /\ run' = [run EXCEPT
         ![r].at = IF run[r].seen # run[r].planned THEN "failed" ELSE "apply",
         ![r].results = [c \in {d \in Change : actionOf(r, d) # "none"} |->
                           CASE actionOf(r, c) = "noop"    -> "skipped"
                             [] actionOf(r, c) = "blocked" -> "blocked"
                             [] OTHER -> "none"]]
    /\ UNCHANGED <<products, prices, replies, network, landed>>

-----------------------------------------------------------------------------
(***************************************************************************)
(* applyChange                                                             *)
(***************************************************************************)
dependencies(r, change) ==
    IF change[1] = "price" THEN {<<"product", Declares[r].prices[change[2]].product>>} ELSE {}

\* An update of a price looks its id up first.
attemptFrom(r, change) ==
    IF change[1] = "price" /\ actionOf(r, change) = "update" THEN "lookup" ELSE "send"

\* The n-th attempt at a change begins.
attempted(r, change, n) ==
    [run EXCEPT ![r].at = attemptFrom(r, change), ![r].change = change, ![r].attempt = n,
                ![r].cursor = 0, ![r].pages = 0, ![r].mine = {}]

\* The next change is sent, or passed over because its product is not there.
Take(r, change) ==
    /\ run[r].at = "apply"
    /\ change \in DOMAIN run[r].results
    /\ run[r].results[change] = "none"
    /\ \A d \in dependencies(r, change) : run[r].results[d] # "none"
    /\ run' = IF \A d \in dependencies(r, change) : run[r].results[d] \in {"succeeded", "skipped"}
              THEN attempted(r, change, 1)
              ELSE [run EXCEPT ![r].results[change] = "unmet"]
    /\ UNCHANGED <<products, prices, replies, network, landed>>

requestKey_perAttempt(r, change, attempt) == <<KeyOf[r], change, actionOf(r, change), attempt>>

\* `${context.idempotencyKey}:${change.id}`
requestKey(r, change, attempt) == <<KeyOf[r], change, actionOf(r, change)>>

request(r, id) ==
    [run |-> r, change |-> run[r].change, id |-> id,
     key |-> requestKey(r, run[r].change, run[r].attempt)]

settle(r, result) == [run EXCEPT ![r].at = "apply", ![r].results[run[r].change] = result]

\* executeChange gives up or tries again.
Retry(r) ==
    run' = IF run[r].attempt = MaxAttempts THEN settle(r, "failed")
           ELSE attempted(r, run[r].change, run[r].attempt + 1)

ownedPrice_anyOwner(r, l) == {i \in DOMAIN prices : prices[i].lookupKey = l}

ownedPrice(r, l) ==
    {i \in DOMAIN prices : prices[i].lookupKey = l /\ prices[i].owner = OwnerOf[r]}

\* #priceIdForLookupKey: a page of the prices under the lookup key is read; the
\* whole list is, and the first of them the document owns is written to.
LookUp(r) ==
    LET l    == run[r].change[2]
        list == {i \in DOMAIN prices : prices[i].lookupKey = l}
        ids  == page(list, run[r].cursor)
        more == hasMore(list, run[r].cursor)
        mine == run[r].mine \cup (ids \cap ownedPrice(r, l))
    IN  /\ run[r].at = "lookup"
        /\ \/ /\ more /\ run[r].pages + 1 < MaxPages
              /\ run' = [run EXCEPT ![r].cursor = last(ids), ![r].pages = @ + 1, ![r].mine = mine]
              /\ UNCHANGED network
           \/ /\ IF more THEN run[r].pages + 1 >= MaxPages ELSE mine = {}
              /\ run' = settle(r, "failed")
              /\ UNCHANGED network
           \/ /\ ~more /\ mine # {}
              /\ run' = [run EXCEPT ![r].at = "waiting"]
              /\ network' = network \cup {request(r, CHOOSE i \in mine : \A j \in mine : i <= j)}
        /\ UNCHANGED <<products, prices, replies, landed>>

Send(r) ==
    /\ run[r].at = "send"
    /\ run' = [run EXCEPT ![r].at = "waiting"]
    /\ network' = network \cup {request(r, run[r].change[2])}
    /\ UNCHANGED <<products, prices, replies, landed>>

\* The connection breaks, the time is up, Stripe answers 409, 429 or 5xx: the
\* request may still be on its way, and so may those of earlier attempts.
NoAnswer(r) ==
    /\ run[r].at \in {"lookup", "waiting"}
    /\ Retry(r)
    /\ UNCHANGED <<products, prices, replies, network, landed>>

-----------------------------------------------------------------------------
(***************************************************************************)
(* Stripe                                                                  *)
(***************************************************************************)
put(objects, id, object) ==
    [i \in DOMAIN objects \cup {id} |-> IF i = id THEN object ELSE objects[i]]

productFrom_found(r, i) ==
    [name   |-> Declares[r].products[i].name,
     active |-> Declares[r].products[i].active]

productFrom(r, i) ==
    [name   |-> Declares[r].products[i].name,
     active |-> Declares[r].products[i].active,
     owner  |-> OwnerOf[r]]

priceFrom(r, l) ==
    [lookupKey |-> l,
     product   |-> Declares[r].prices[l].product,
     amount    |-> Declares[r].prices[l].amount,
     active    |-> Declares[r].prices[l].active,
     nickname  |-> Declares[r].prices[l].nickname,
     owner     |-> OwnerOf[r]]

\* A nickname that is null is not sent, and what is not sent stays.
updatedPrice(price, r, l) ==
    [price EXCEPT !.active = Declares[r].prices[l].active,
                  !.nickname = IF Declares[r].prices[l].nickname = "none" THEN @
                               ELSE Declares[r].prices[l].nickname,
                  !.owner = OwnerOf[r]]

Rejects(m) ==
    LET creates == actionOf(m.run, m.change) = "create"
    IN  IF m.change[1] = "product" THEN creates /\ m.id \in DOMAIN products
        ELSE creates /\ \/ \E i \in DOMAIN prices : prices[i].lookupKey = m.id /\ prices[i].active
                        \/ Declares[m.run].prices[m.id].product \notin DOMAIN products

Executes(m) ==
    LET r == m.run
    IN  IF m.change[1] = "product"
        THEN /\ products' = put(products, m.id, productFrom(r, m.id))
             /\ UNCHANGED prices
        ELSE /\ prices' = IF actionOf(r, m.change) = "create"
                          THEN put(prices, Cardinality(DOMAIN prices) + 1, priceFrom(r, m.id))
                          ELSE put(prices, m.id, updatedPrice(prices[m.id], r, m.change[2]))
             /\ UNCHANGED products

\* Is the run still waiting for an answer to m?
Awaits(m) == run[m.run].at = "waiting" /\ request(m.run, m.id) = m

\* The answer to m reaches the run, or not.
Answer(m, result) ==
    \/ UNCHANGED run
    \/ Awaits(m) /\ run' = settle(m.run, result)

Execute(m) ==
    /\ m \in network
    /\ m.key \notin replies
    /\ ~Rejects(m)
    /\ Executes(m)
    /\ replies' = replies \cup {m.key}
    /\ network' = network \ {m}
    /\ landed' = [landed EXCEPT ![<<m.run, m.change>>] = @ + 1]
    /\ Answer(m, "succeeded")

Replay(m) ==
    /\ m \in network
    /\ m.key \in replies
    /\ network' = network \ {m}
    /\ Answer(m, "succeeded")
    /\ UNCHANGED <<products, prices, replies, landed>>

Reject(m) ==
    /\ m \in network
    /\ m.key \notin replies
    /\ Rejects(m)
    /\ network' = network \ {m}
    /\ Answer(m, "failed")
    /\ UNCHANGED <<products, prices, replies, landed>>

\* A request is lost on its way.
Lose(m) ==
    /\ m \in network
    /\ network' = network \ {m}
    /\ UNCHANGED <<products, prices, replies, run, landed>>

-----------------------------------------------------------------------------
Settled(r) == \A c \in DOMAIN run[r].results : run[r].results[c] # "none"

End(r) ==
    /\ run[r].at = "apply"
    /\ Settled(r)
    /\ run' = [run EXCEPT ![r].at = "ended"]
    /\ UNCHANGED <<products, prices, replies, network, landed>>

Steps(r) ==
    \/ ReadPage(r, "products", products) \/ ReadPage(r, "prices", prices) \/ ReadFails(r)
    \/ Plan(r) \/ Start(r)
    \/ \E change \in Change : Take(r, change)
    \/ LookUp(r) \/ Send(r) \/ NoAnswer(r)
    \/ End(r)

Done == /\ \A r \in Runs : run[r].at \in {"idle", "ended", "failed"}
        /\ network = {}
        /\ UNCHANGED vars

Next ==
    \/ \E r \in Runs : Begin(r) \/ Steps(r)
    \/ \E m \in network : Execute(m) \/ Replay(m) \/ Reject(m) \/ Lose(m)
    \/ Done

Spec == Init /\ [][Next]_vars

-----------------------------------------------------------------------------
(***************************************************************************)
(* Properties                                                              *)
(***************************************************************************)
Stages == {"idle", "products", "prices", "inspected", "apply", "lookup", "send",
           "waiting", "ended", "failed"}

\* The shape of the state.
TypeOK ==
    /\ DOMAIN products \subseteq Products
    /\ \A i \in DOMAIN products : products[i] \in Product
    /\ DOMAIN prices = 1..Cardinality(DOMAIN prices)
    /\ \A i \in DOMAIN prices : prices[i] \in Price
    /\ \A r \in Runs : run[r].at \in Stages
    /\ \A m \in network : m.run \in Runs /\ m.change \in Change
    /\ landed \in [Runs \X Change -> Nat]

\* What an inspection reports is all that the document owned when it began,
\* however many pages it took and whatever was created between two of them,
\* for the plan and for the check before the apply (inspect, #listAll).
InspectionIsComplete ==
    \A r \in Runs :
        run[r].at = "inspected" =>
            \A list \in {"products", "prices"} :
                DOMAIN run[r].there[list] \subseteq DOMAIN run[r].seen[list]

\* Do q and r send the change under one key?
sameRequest(q, r, change) == KeyOf[q] = KeyOf[r] /\ actionOf(q, change) = actionOf(r, change)

\* However often a change is sent, and whoever else sends one under its key,
\* Stripe makes one write ("a retried attempt reuses the key and Stripe
\* deduplicates the write rather than creating a second object"); a change is
\* recorded as succeeded only when its own write was made, or one under the same
\* key was, which is then the answer to it.
SuccessIsOneWrite ==
    \A r \in Runs, c \in Change :
        /\ landed[<<r, c>>] <= 1
        /\ \A q \in Runs :
             landed[<<q, c>>] > 0 /\ landed[<<r, c>>] > 0 /\ sameRequest(q, r, c) => q = r
        /\ run[r].at # "idle" /\ c \in DOMAIN run[r].results =>
             (run[r].results[c] = "succeeded" =>
                \E q \in Runs : landed[<<q, c>>] = 1 /\ sameRequest(q, r, c))

\* No run takes an object from its owner, late requests and shared lookup keys
\* included (inspect, #priceIdForLookupKey).
OwnersKeepTheirs ==
    [][/\ \A i \in DOMAIN products : products'[i].owner = products[i].owner
       /\ \A i \in DOMAIN prices : prices'[i].owner = prices[i].owner]_vars

\* Nobody else has worked for the document of r since r began.
Alone(r) ==
    \A q \in Runs \ {r} :
        OwnerOf[q] = OwnerOf[r] => run[q].at = "idle" \/ q \in run[r].before

\* The object of the change is as the document declares it, but for a nickname
\* it no longer has.
InPlace(r, change) ==
    IF change[1] = "product"
    THEN change[2] \in DOMAIN products /\ products[change[2]] = productFrom(r, change[2])
    ELSE LET want == Declares[r].prices[change[2]]
         IN  \E i \in ownedPrice(r, change[2]) :
                 /\ fixedParts(prices[i]) = fixedParts(want)
                 /\ prices[i].active = want.active
                 /\ prices[i].nickname = want.nickname \/ want.nickname = "none"

\* Another run has made its write under the key of this change.
AnsweredByAnother(r, change) ==
    \E q \in Runs \ {r} : landed[<<q, change>>] = 1 /\ sameRequest(q, r, change)

\* When a run has ended, nobody else having worked for the same document
\* meanwhile, whatever it skipped as unchanged or recorded as succeeded is in the
\* account as the document declares it, but for the changes whose key another
\* run has used, before it or for another document (applyChange, projection.ts).
AccountIsAsDeclared ==
    \A r \in Runs :
        run[r].at = "ended" /\ Alone(r) =>
            \A c \in DOMAIN run[r].results :
                /\ run[r].results[c] = "skipped" => InPlace(r, c)
                /\ run[r].results[c] = "succeeded" => InPlace(r, c) \/ AnsweredByAnother(r, c)

=============================================================================
