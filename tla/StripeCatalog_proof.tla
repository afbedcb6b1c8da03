------------------------- MODULE StripeCatalog_proof -------------------------
(***************************************************************************)
(* Theorems about StripeCatalog, for any documents, account and number of  *)
(* runs, and for any loss, delay and repetition of requests.               *)
(***************************************************************************)
EXTENDS StripeCatalog, FiniteSetTheorems, SequenceTheorems, TLAPS

Fields   == {"at", "pass", "cursor", "pages", "seen", "planned", "mine", "there", "before",
             "results", "change", "attempt"}
Applying == {"apply", "lookup", "send", "waiting", "ended"}
Working  == {"lookup", "send", "waiting"}
Writes   == {"create", "update"}

\* Every attempt of a change has one key.
keyOf(r, c) == <<KeyOf[r], c, actionOf(r, c)>>

RunOK(r) ==
    /\ run[r].at \in Stages
    /\ run[r].at # "idle" =>
         /\ DOMAIN run[r] = Fields
         /\ DOMAIN run[r].seen = {"products", "prices"}
         /\ DOMAIN run[r].results \subseteq Change

\* What is not settled is to be written, and what is under way is not settled.
ResultsOK(r) ==
    /\ run[r].at \in Applying =>
         \A c \in DOMAIN run[r].results : run[r].results[c] = "none" => actionOf(r, c) \in Writes
    /\ run[r].at \in Working =>
         run[r].change \in DOMAIN run[r].results /\ run[r].results[run[r].change] = "none"
    /\ run[r].at = "lookup" => attemptFrom(r, run[r].change) = "lookup"
    /\ run[r].at = "send" => attemptFrom(r, run[r].change) = "send"

\* What an inspection has read of products is still there and still owned, and so
\* is what a lookup has found.
SeenOK(r) ==
    run[r].at # "idle" =>
        /\ \A i \in DOMAIN run[r].seen.products :
             i \in DOMAIN products /\ products[i].owner = OwnerOf[r]
        /\ run[r].at = "lookup" => run[r].mine \subseteq ownedPrice(r, run[r].change[2])

RunsInv == DOMAIN run = Runs /\ \A r \in Runs : RunOK(r) /\ ResultsOK(r)

\* A request is for a write of its run, and names a price of the run's document
\* under the lookup key it is about if it is to change one.
MessageOK(m) ==
    /\ m.run \in Runs /\ m.change \in Change
    /\ run[m.run].at \in Applying
    /\ actionOf(m.run, m.change) \in Writes
    /\ m.key = keyOf(m.run, m.change)
    /\ attemptFrom(m.run, m.change) = "send" => m.id = m.change[2]
    /\ attemptFrom(m.run, m.change) = "lookup" => m.id \in ownedPrice(m.run, m.change[2])

NetInv == \A m \in network : MessageOK(m)

AccountInv ==
    /\ DOMAIN products \subseteq Products
    /\ \A i \in DOMAIN products : products[i] \in Product
    /\ \E n \in Nat : DOMAIN prices = 1..n
    /\ \A i \in DOMAIN prices : prices[i] \in Price

CatalogInv == RunsInv /\ (\A r \in Runs : SeenOK(r)) /\ NetInv /\ AccountInv

LEMMA InitCatalog == Init => CatalogInv
<1> SUFFICES ASSUME Init PROVE CatalogInv
  OBVIOUS
<1>1. \A r \in Runs : run[r].at = "idle"
  BY DEF Init, Idle
<1>2. RunsInv
  BY <1>1 DEF Init, RunsInv, RunOK, ResultsOK, Stages, Applying, Working
<1>3. AccountInv
  <2>1. \E n \in Nat : DOMAIN prices = 1..n
    BY FoundAssumption, LenProperties DEF Init
  <2>2. \A i \in DOMAIN prices : prices[i] \in Price
    BY FoundAssumption, LenProperties, ElementOfSeq DEF Init
  <2> QED BY <2>1, <2>2, FoundAssumption DEF Init, AccountInv
<1> QED BY <1>1, <1>2, <1>3 DEF Init, CatalogInv, SeenOK, NetInv

-----------------------------------------------------------------------------
(***************************************************************************)
(* The account                                                             *)
(***************************************************************************)
\* What is there stays there, its owner's and under its lookup key.
OwnersStay ==
    /\ DOMAIN products \subseteq DOMAIN products'
    /\ \A i \in DOMAIN products : products'[i].owner = products[i].owner
    /\ DOMAIN prices \subseteq DOMAIN prices'
    /\ \A i \in DOMAIN prices :
         prices'[i].owner = prices[i].owner /\ prices'[i].lookupKey = prices[i].lookupKey

LEMMA OwnedPricesStay ==
    ASSUME OwnersStay, NEW r, NEW l PROVE ownedPrice(r, l) \subseteq ownedPrice(r, l)'
BY DEF OwnersStay, ownedPrice

LEMMA NoPriceAfterTheLast ==
    ASSUME AccountInv
    PROVE  \E n \in Nat : DOMAIN prices = 1..n /\ Cardinality(DOMAIN prices) + 1 = n + 1
<1>1. PICK n \in Nat : DOMAIN prices = 1..n
  BY DEF AccountInv
<1>2. Cardinality(1..n) = n
  <2>1. Cardinality(1..n) = IF 1 > n THEN 0 ELSE n - 1 + 1
    BY FS_Interval
  <2> QED BY <2>1
<1> QED BY <1>1, <1>2

\* What a write is about is declared.
LEMMA WritesAreDeclared ==
    ASSUME NEW r \in Runs, NEW c \in Change, actionOf(r, c) \in Writes
    PROVE  /\ c[1] = "product" => /\ c[2] \in DOMAIN Declares[r].products
                                  /\ actionOf(r, c) = "create" <=>
                                       c[2] \notin DOMAIN run[r].seen.products
           /\ c[1] # "product" => c[1] = "price" /\ c[2] \in DOMAIN Declares[r].prices
<1>1. c[1] = "product" \/ c[1] = "price"
  BY DEF Change
<1>2. CASE c[1] = "product"
  BY <1>2 DEF actionOf, productAction, Writes
<1>3. CASE c[1] # "product"
  BY <1>1, <1>3 DEF actionOf, priceAction, Writes
<1> QED BY <1>2, <1>3

\* A write of a run leaves every object with its owner, and the account in order.
LEMMA ExecutesKeeps ==
    ASSUME CatalogInv, NEW m \in network, ~Rejects(m), Executes(m)
    PROVE  OwnersStay /\ AccountInv'
<1> DEFINE r == m.run
           c == m.change
<1>1. MessageOK(m) /\ r \in Runs /\ c \in Change /\ actionOf(r, c) \in Writes
  BY DEF CatalogInv, NetInv, MessageOK
<1>2. run[r].at # "idle" /\ SeenOK(r)
  BY <1>1 DEF MessageOK, Applying, CatalogInv
<1>3. CASE c[1] = "product"
  <2>1. attemptFrom(r, c) = "send" /\ m.id = c[2]
    BY <1>1, <1>3 DEF attemptFrom, MessageOK
  <2>2. /\ c[2] \in DOMAIN Declares[r].products
        /\ actionOf(r, c) = "create" <=> c[2] \notin DOMAIN run[r].seen.products
    BY <1>1, <1>3, WritesAreDeclared
  <2>3. products' = put(products, m.id, productFrom(r, m.id)) /\ prices' = prices
    BY <1>3 DEF Executes
  <2>4. productFrom(r, m.id) \in Product /\ productFrom(r, m.id).owner = OwnerOf[r]
    BY <1>1, <2>1, <2>2, DeclaresAssumption, StripeAssumption DEF productFrom, Product
  <2>5. m.id \in Products
    BY <1>1, <2>1, <2>2, DeclaresAssumption
  <2>6. m.id \in DOMAIN products => products[m.id].owner = OwnerOf[r]
    <3>1. CASE actionOf(r, c) = "create"
      BY <1>3, <3>1 DEF Rejects
    <3>2. CASE actionOf(r, c) # "create"
      BY <1>2, <2>1, <2>2, <3>2 DEF SeenOK
    <3> QED BY <3>1, <3>2
  <2>7. /\ DOMAIN products' = DOMAIN products \cup {m.id}
        /\ products'[m.id] = productFrom(r, m.id)
        /\ \A i \in DOMAIN products \ {m.id} : products'[i] = products[i]
    BY <2>3 DEF put
  <2>8. OwnersStay
    BY <2>3, <2>4, <2>6, <2>7 DEF OwnersStay
  <2>9. AccountInv'
    BY <2>3, <2>4, <2>5, <2>7 DEF CatalogInv, AccountInv
  <2> QED BY <2>8, <2>9
<1>4. CASE c[1] # "product"
  <2>1. c[1] = "price" /\ c[2] \in DOMAIN Declares[r].prices
    BY <1>1, <1>4, WritesAreDeclared
  <2>2. /\ c[2] \in LookupKeys
        /\ Declares[r].prices[c[2]] \in [product : Products, amount : Nat,
                                         active : BOOLEAN, nickname : STRING]
    BY <1>1, <2>1, DeclaresAssumption
  <2>3. products' = products
    BY <1>4 DEF Executes
  <2>4. CASE actionOf(r, c) = "create"
    <3>1. attemptFrom(r, c) = "send" /\ m.id = c[2]
      BY <1>1, <2>4 DEF attemptFrom, MessageOK
    <3>2. PICK n \in Nat : DOMAIN prices = 1..n /\ Cardinality(DOMAIN prices) + 1 = n + 1
      BY NoPriceAfterTheLast DEF CatalogInv
    <3>3. prices' = put(prices, n + 1, priceFrom(r, m.id))
      BY <1>4, <2>4, <3>2 DEF Executes
    <3>4. priceFrom(r, m.id) \in Price
      BY <1>1, <2>2, <3>1, StripeAssumption DEF priceFrom, Price
    <3>5. /\ DOMAIN prices' = 1..(n + 1)
          /\ prices'[n + 1] = priceFrom(r, m.id)
          /\ \A i \in 1..n : prices'[i] = prices[i]
      <4>1. 1..n \cup {n + 1} = 1..(n + 1) /\ 1..n \ {n + 1} = 1..n
        OBVIOUS
      <4> HIDE DEF r
      <4> QED BY <3>2, <3>3, <4>1 DEF put
    <3>6. OwnersStay
      BY <2>3, <3>2, <3>5 DEF OwnersStay
    <3>7. \A i \in 1..(n + 1) : i \in 1..n \/ i = n + 1
      OBVIOUS
    <3>8. \A i \in DOMAIN prices' : prices'[i] \in Price
      BY <3>2, <3>4, <3>5, <3>7 DEF CatalogInv, AccountInv
    <3>9. \E k \in Nat : DOMAIN prices' = 1..k
      BY <3>5
    <3> QED BY <2>3, <3>6, <3>8, <3>9 DEF CatalogInv, AccountInv
  <2>5. CASE actionOf(r, c) # "create"
    <3>1. attemptFrom(r, c) = "lookup"
      BY <1>1, <2>1, <2>5 DEF attemptFrom, Writes
    <3>2. m.id \in DOMAIN prices /\ prices[m.id].owner = OwnerOf[r] /\ prices[m.id] \in Price
      BY <1>1, <3>1 DEF MessageOK, ownedPrice, CatalogInv, AccountInv
    <3>3. prices' = put(prices, m.id, updatedPrice(prices[m.id], r, c[2]))
      BY <1>4, <2>5 DEF Executes
    <3>4. /\ updatedPrice(prices[m.id], r, c[2]) \in Price
          /\ updatedPrice(prices[m.id], r, c[2]).owner = OwnerOf[r]
          /\ updatedPrice(prices[m.id], r, c[2]).lookupKey = prices[m.id].lookupKey
      BY <1>1, <2>2, <3>2, StripeAssumption DEF updatedPrice, Price
    <3>5. /\ DOMAIN prices' = DOMAIN prices
          /\ prices'[m.id] = updatedPrice(prices[m.id], r, c[2])
          /\ \A i \in DOMAIN prices \ {m.id} : prices'[i] = prices[i]
      BY <3>2, <3>3 DEF put
    <3>6. OwnersStay
      BY <2>3, <3>2, <3>4, <3>5 DEF OwnersStay
    <3>7. AccountInv'
      BY <2>3, <3>4, <3>5 DEF CatalogInv, AccountInv
    <3> QED BY <3>6, <3>7
  <2> QED BY <2>4, <2>5
<1> QED BY <1>3, <1>4

-----------------------------------------------------------------------------
(***************************************************************************)
(* The runs                                                                *)
(***************************************************************************)
\* What a run is to do depends on what it has seen only.
LEMMA ActionStays ==
    ASSUME NEW r, run'[r].seen = run[r].seen, NEW c
    PROVE  /\ actionOf(r, c)' = actionOf(r, c)
           /\ attemptFrom(r, c)' = attemptFrom(r, c)
           /\ keyOf(r, c)' = keyOf(r, c)
<1>1. actionOf(r, c)' = actionOf(r, c)
  BY DEF actionOf, productAction, priceAction, pricesFor
<1> QED BY <1>1 DEF attemptFrom, keyOf

LEMMA ActionKinds ==
    ASSUME NEW r, NEW c
    PROVE  actionOf(r, c) \in {"none", "noop", "blocked"} \cup Writes
BY DEF actionOf, productAction, priceAction, Writes

\* Only run r moves, and once it has begun to write it goes on with what it saw.
Moves(r) ==
    /\ DOMAIN run' = Runs
    /\ \A q \in Runs \ {r} : run'[q] = run[q]
    /\ run[r].at \in Applying => run'[r].at \in Applying /\ run'[r].seen = run[r].seen

LEMMA MoveKeeps ==
    ASSUME CatalogInv, NEW r \in Runs, Moves(r), OwnersStay, AccountInv',
           (RunOK(r) /\ ResultsOK(r) /\ SeenOK(r))',
           \A m \in network' \ network : MessageOK(m)'
    PROVE  CatalogInv'
<1>1. ASSUME NEW q \in Runs \ {r} PROVE (RunOK(q) /\ ResultsOK(q) /\ SeenOK(q))'
  <2>1. run'[q] = run[q]
    BY DEF Moves
  <2>2. RunOK(q) /\ ResultsOK(q) /\ SeenOK(q)
    BY DEF CatalogInv, RunsInv
  <2>3. \A c : actionOf(q, c)' = actionOf(q, c) /\ attemptFrom(q, c)' = attemptFrom(q, c)
    BY <2>1, ActionStays
  <2>4. RunOK(q)' /\ ResultsOK(q)'
    BY <2>1, <2>2, <2>3 DEF RunOK, ResultsOK
  <2>5. SeenOK(q)'
    BY <2>1, <2>2, OwnedPricesStay DEF SeenOK, OwnersStay
  <2> QED BY <2>4, <2>5
<1>2. ASSUME NEW m \in network' PROVE MessageOK(m)'
  <2>1. CASE m \in network
    <3>1. MessageOK(m) /\ m.run \in Runs
      BY <2>1 DEF CatalogInv, NetInv, MessageOK
    <3>2. run'[m.run].at \in Applying /\ run'[m.run].seen = run[m.run].seen
      BY <3>1 DEF Moves, MessageOK
    <3>3. /\ actionOf(m.run, m.change)' = actionOf(m.run, m.change)
          /\ attemptFrom(m.run, m.change)' = attemptFrom(m.run, m.change)
          /\ keyOf(m.run, m.change)' = keyOf(m.run, m.change)
      BY <3>2, ActionStays
    <3> QED BY <3>1, <3>2, <3>3, OwnedPricesStay DEF MessageOK
  <2>2. CASE m \notin network
    BY <2>2
  <2> QED BY <2>1, <2>2
<1> QED BY <1>1, <1>2 DEF CatalogInv, RunsInv, NetInv, Moves

\* r goes to a place, and everything it has seen and settled stays.
Goes(r, to) ==
    /\ run'[r].at = to
    /\ DOMAIN run'[r] = Fields
    /\ run'[r].seen = run[r].seen /\ run'[r].results = run[r].results
    /\ run'[r].change = run[r].change

LEMMA GoesTo ==
    ASSUME CatalogInv, NEW r \in Runs, run[r].at # "idle", NEW to,
           run' = [run EXCEPT ![r].at = to]
    PROVE  Goes(r, to) /\ DOMAIN run' = Runs /\ \A q \in Runs \ {r} : run'[q] = run[q]
<1>1. DOMAIN run = Runs /\ DOMAIN run[r] = Fields
  BY DEF CatalogInv, RunsInv, RunOK
<1> QED BY <1>1 DEF Goes, Fields

\* r begins an attempt.
Attempts(r, c) ==
    /\ run'[r].at = attemptFrom(r, c) /\ run'[r].at \in {"lookup", "send"}
    /\ DOMAIN run'[r] = Fields
    /\ run'[r].seen = run[r].seen /\ run'[r].results = run[r].results
    /\ run'[r].change = c /\ run'[r].mine = {} /\ run'[r].before = run[r].before

LEMMA AttemptBegins ==
    ASSUME CatalogInv, NEW r \in Runs, run[r].at # "idle", NEW c, NEW n,
           run' = attempted(r, c, n)
    PROVE  Attempts(r, c) /\ DOMAIN run' = Runs /\ \A q \in Runs \ {r} : run'[q] = run[q]
<1> DEFINE to == attemptFrom(r, c)
<1>1. DOMAIN run = Runs /\ DOMAIN run[r] = Fields
  BY DEF CatalogInv, RunsInv, RunOK
<1>2. to \in {"lookup", "send"}
  BY DEF attemptFrom
<1>3. run' = [run EXCEPT ![r].at = to, ![r].change = c, ![r].attempt = n,
                         ![r].cursor = 0, ![r].pages = 0, ![r].mine = {}]
  BY DEF attempted
<1> HIDE DEF to
<1>4. /\ run'[r].at = to /\ DOMAIN run'[r] = Fields
      /\ run'[r].seen = run[r].seen /\ run'[r].results = run[r].results
      /\ run'[r].change = c /\ run'[r].mine = {} /\ run'[r].before = run[r].before
      /\ DOMAIN run' = Runs /\ \A q \in Runs \ {r} : run'[q] = run[q]
  BY <1>1, <1>3 DEF Fields
<1> QED BY <1>2, <1>4 DEF Attempts, to

LEMMA AttemptKeeps ==
    ASSUME CatalogInv, NEW r \in Runs, run[r].at \in Applying, NEW c \in DOMAIN run[r].results,
           run[r].results[c] = "none", NEW n, run' = attempted(r, c, n),
           OwnersStay, AccountInv', network' = network
    PROVE  CatalogInv'
<1>1. run[r].at # "idle" /\ RunOK(r) /\ ResultsOK(r) /\ SeenOK(r)
  BY DEF Applying, CatalogInv, RunsInv
<1>2. Attempts(r, c) /\ DOMAIN run' = Runs /\ \A q \in Runs \ {r} : run'[q] = run[q]
  BY <1>1, AttemptBegins
<1>3. \A d : actionOf(r, d)' = actionOf(r, d) /\ attemptFrom(r, d)' = attemptFrom(r, d)
  BY <1>2, ActionStays DEF Attempts
<1>4. Moves(r)
  BY <1>2 DEF Moves, Attempts, Applying
<1>5. RunOK(r)'
  BY <1>1, <1>2 DEF RunOK, Attempts, Stages
<1>6. ResultsOK(r)'
  BY <1>1, <1>2, <1>3 DEF ResultsOK, Attempts, Applying
<1>7. SeenOK(r)'
  BY <1>1, <1>2 DEF SeenOK, Attempts, OwnersStay
<1> QED BY <1>4, <1>5, <1>6, <1>7, MoveKeeps

\* r settles its change and takes the next.
SettlesWith(r, result) ==
    /\ run'[r].at = "apply"
    /\ DOMAIN run'[r] = Fields
    /\ run'[r].seen = run[r].seen
    /\ run'[r].results = [run[r].results EXCEPT ![run[r].change] = result]

LEMMA SettleGoes ==
    ASSUME CatalogInv, NEW r \in Runs, run[r].at # "idle", NEW result,
           run' = settle(r, result)
    PROVE  SettlesWith(r, result) /\ DOMAIN run' = Runs /\ \A q \in Runs \ {r} : run'[q] = run[q]
<1>1. DOMAIN run = Runs /\ DOMAIN run[r] = Fields
  BY DEF CatalogInv, RunsInv, RunOK
<1> QED BY <1>1 DEF settle, SettlesWith, Fields

LEMMA SettleKeeps ==
    ASSUME CatalogInv, NEW r \in Runs, run[r].at \in Working, NEW result, result # "none",
           run' = settle(r, result), OwnersStay, AccountInv', network' \subseteq network
    PROVE  CatalogInv'
<1>1. SettlesWith(r, result) /\ Moves(r)
  BY SettleGoes DEF Working, Moves, SettlesWith, Applying
<1>2. RunOK(r) /\ ResultsOK(r) /\ SeenOK(r)
  BY DEF CatalogInv, RunsInv
<1>3. \A c : actionOf(r, c)' = actionOf(r, c)
  BY <1>1, ActionStays DEF SettlesWith
<1>4. /\ DOMAIN run'[r].results = DOMAIN run[r].results
      /\ \A c \in DOMAIN run[r].results :
           run'[r].results[c] = "none" => run[r].results[c] = "none"
  BY <1>1 DEF SettlesWith
<1>5. RunOK(r)'
  BY <1>1, <1>2, <1>4 DEF RunOK, SettlesWith, Stages, Working
<1>6. ResultsOK(r)'
  <2>1. run[r].at \in Applying /\ run'[r].at = "apply"
    BY <1>1 DEF Applying, Working, SettlesWith
  <2> QED BY <1>2, <1>3, <1>4, <2>1 DEF ResultsOK, Working
<1>7. SeenOK(r)'
  BY <1>1, <1>2 DEF SeenOK, SettlesWith, Working, OwnersStay
<1> QED BY <1>1, <1>5, <1>6, <1>7, MoveKeeps

LEMMA GoesKeeps ==
    ASSUME CatalogInv, NEW r \in Runs, run[r].at # "idle",
           NEW to \in Stages \ {"idle", "lookup", "send"},
           Goes(r, to), Moves(r), OwnersStay, AccountInv',
           to \in Applying => run[r].at \in Applying,
           to \in Working => run[r].at \in Working,
           \A m \in network' \ network : MessageOK(m)'
    PROVE  CatalogInv'
<1>1. RunOK(r) /\ ResultsOK(r) /\ SeenOK(r)
  BY DEF CatalogInv, RunsInv
<1>2. \A c : actionOf(r, c)' = actionOf(r, c) /\ attemptFrom(r, c)' = attemptFrom(r, c)
  BY ActionStays DEF Goes
<1>3. RunOK(r)'
  BY <1>1 DEF RunOK, Goes
<1>4. ResultsOK(r)'
  BY <1>1, <1>2 DEF ResultsOK, Goes
<1>5. SeenOK(r)'
  BY <1>1 DEF SeenOK, Goes, OwnersStay
<1> QED BY <1>3, <1>4, <1>5, MoveKeeps

LEMMA QuietAccount ==
    ASSUME CatalogInv, UNCHANGED <<products, prices>> PROVE OwnersStay /\ AccountInv'
BY DEF OwnersStay, CatalogInv, AccountInv

\* Some numbers have a least one.
LEMMA LeastOfSome ==
    ASSUME NEW ids, ids \subseteq Nat, ids # {}
    PROVE  \E i \in ids : \A j \in ids : i <= j
<1> DEFINE Less == {ss \in Nat \X Nat : ss[1] < ss[2]}
<1>1. OpToRel(<, Nat) = Less
  BY DEF OpToRel
<1>2. IsWellFoundedOn(Less, Nat)
  BY <1>1, NatLessThanWellFounded
<1>3. PICK i \in ids : \A j \in ids : ~(<<j, i>> \in Less)
  BY <1>2, WFMin
<1>4. \A j \in ids : ~(j < i)
  <2>1. \A j \in ids : <<j, i>> \in Nat \X Nat
    OBVIOUS
  <2> QED BY <1>3, <2>1
<1>5. \A j \in ids : i <= j
  BY <1>4
<1> QED BY <1>5

LEMMA PricesHaveALeast ==
    ASSUME CatalogInv, NEW ids, ids \subseteq DOMAIN prices, ids # {}
    PROVE  (CHOOSE i \in ids : \A j \in ids : i <= j) \in ids
<1>1. PICK n \in Nat : DOMAIN prices = 1..n
  BY DEF CatalogInv, AccountInv
<1>2. ids \subseteq Nat
  BY <1>1
<1>3. \E i \in ids : \A j \in ids : i <= j
  BY <1>2, LeastOfSome
<1> QED BY <1>3

-----------------------------------------------------------------------------
(***************************************************************************)
(* The steps of a run                                                      *)
(***************************************************************************)
LEMMA OwnedFacts ==
    ASSUME NEW o
    PROVE  \A i \in owned(products, o) : i \in DOMAIN products /\ products[i].owner = o
BY DEF owned

LEMMA BeginKeeps ==
    ASSUME CatalogInv, NEW r \in Runs, Begin(r) PROVE CatalogInv'
<1>1. DOMAIN run = Runs
  BY DEF CatalogInv, RunsInv
<1>2. /\ run'[r] = [at |-> "products", pass |-> "plan", cursor |-> 0, pages |-> 0,
                    seen |-> nothing, planned |-> nothing, mine |-> {},
                    there |-> inspection(r), before |-> over,
                    results |-> <<>>, change |-> <<>>, attempt |-> 0]
      /\ Moves(r)
  BY <1>1 DEF Begin, Moves, Applying
<1>3. run'[r].at = "products" /\ DOMAIN run'[r] = Fields
  BY <1>2 DEF Fields
<1>4. run'[r].results = <<>> /\ run'[r].seen = nothing
  BY <1>2
<1>5. DOMAIN nothing = {"products", "prices"} /\ DOMAIN nothing.products = {}
  BY DEF nothing
<1>6. DOMAIN run'[r].results = {}
  BY <1>4
<1>7. RunOK(r)'
  BY <1>3, <1>4, <1>5, <1>6 DEF RunOK, Stages
<1>8. ResultsOK(r)'
  BY <1>3 DEF ResultsOK, Applying, Working
<1>9. SeenOK(r)'
  BY <1>3, <1>4, <1>5 DEF SeenOK
<1>10. OwnersStay /\ AccountInv' /\ network' = network
  BY QuietAccount DEF Begin
<1> QED BY <1>2, <1>7, <1>8, <1>9, <1>10, MoveKeeps

LEMMA ReadPageKeeps ==
    ASSUME CatalogInv, NEW r \in Runs,
           ReadPage(r, "products", products) \/ ReadPage(r, "prices", prices)
    PROVE  CatalogInv'
<1>1. /\ DOMAIN run = Runs /\ run[r].at \in {"products", "prices"}
      /\ RunOK(r) /\ SeenOK(r)
      /\ UNCHANGED <<products, prices, network>>
  BY DEF CatalogInv, RunsInv, ReadPage
<1>2. DOMAIN run[r] = Fields /\ DOMAIN run[r].seen = {"products", "prices"}
  BY <1>1 DEF RunOK
<1>3. ASSUME NEW list \in {"products", "prices"}, NEW more, NEW pages
      PROVE  afterPage(list, more, pages) \in {"products", "prices", "inspected", "failed"}
  BY DEF afterPage
<1>4. CASE ReadPage(r, "products", products)
  <2> DEFINE ids  == page(DOMAIN products, run[r].cursor)
             next == afterPage("products", hasMore(DOMAIN products, run[r].cursor),
                               run[r].pages + 1)
             read == with(run[r].seen.products, products, ids \cap owned(products, OwnerOf[r]))
  <2>1. run' = [run EXCEPT
             ![r].at = next,
             ![r].cursor = IF next = "products" THEN last(ids) ELSE 0,
             ![r].pages = IF next = "products" THEN @ + 1 ELSE 0,
             ![r].seen["products"] = read]
    BY <1>4 DEF ReadPage
  <2>2. next \in {"products", "prices", "inspected", "failed"}
    BY <1>3
  <2>3. \A i \in DOMAIN read : i \in DOMAIN products /\ products[i].owner = OwnerOf[r]
    BY <1>1, OwnedFacts DEF with, SeenOK
  <2> HIDE DEF next, read
  <2>4. /\ DOMAIN run' = Runs /\ \A q \in Runs \ {r} : run'[q] = run[q]
        /\ run'[r].at = next /\ DOMAIN run'[r] = Fields
        /\ run'[r].seen = [run[r].seen EXCEPT !["products"] = read]
        /\ run'[r].results = run[r].results
    BY <1>1, <1>2, <2>1 DEF Fields
  <2>5. DOMAIN run'[r].seen = {"products", "prices"} /\ run'[r].seen.products = read
    BY <1>2, <2>4
  <2>6. Moves(r)
    BY <1>1, <2>4 DEF Moves, Applying
  <2>7. RunOK(r)'
    BY <1>1, <2>2, <2>4, <2>5 DEF RunOK, Stages
  <2>8. ResultsOK(r)'
    BY <2>2, <2>4 DEF ResultsOK, Applying, Working
  <2>9. SeenOK(r)'
    BY <1>1, <2>2, <2>3, <2>4, <2>5 DEF SeenOK
  <2> QED BY <1>1, <2>6, <2>7, <2>8, <2>9, QuietAccount, MoveKeeps
<1>5. CASE ReadPage(r, "prices", prices)
  <2> DEFINE ids  == page(DOMAIN prices, run[r].cursor)
             next == afterPage("prices", hasMore(DOMAIN prices, run[r].cursor), run[r].pages + 1)
             read == with(run[r].seen["prices"], prices, ids \cap owned(prices, OwnerOf[r]))
  <2>1. run' = [run EXCEPT
             ![r].at = next,
             ![r].cursor = IF next = "prices" THEN last(ids) ELSE 0,
             ![r].pages = IF next = "prices" THEN @ + 1 ELSE 0,
             ![r].seen["prices"] = read]
    BY <1>5 DEF ReadPage
  <2>2. next \in {"products", "prices", "inspected", "failed"}
    BY <1>3
  <2> HIDE DEF next, read
  <2>3. /\ DOMAIN run' = Runs /\ \A q \in Runs \ {r} : run'[q] = run[q]
        /\ run'[r].at = next /\ DOMAIN run'[r] = Fields
        /\ run'[r].seen = [run[r].seen EXCEPT !["prices"] = read]
        /\ run'[r].results = run[r].results
    BY <1>1, <1>2, <2>1 DEF Fields
  <2>4. /\ DOMAIN run'[r].seen = {"products", "prices"}
        /\ run'[r].seen.products = run[r].seen.products
    BY <1>2, <2>3
  <2>5. Moves(r)
    BY <1>1, <2>3 DEF Moves, Applying
  <2>6. RunOK(r)'
    BY <1>1, <2>2, <2>3, <2>4 DEF RunOK, Stages
  <2>7. ResultsOK(r)'
    BY <2>2, <2>3 DEF ResultsOK, Applying, Working
  <2>8. SeenOK(r)'
    BY <1>1, <2>2, <2>3, <2>4 DEF SeenOK
  <2> QED BY <1>1, <2>5, <2>6, <2>7, <2>8, QuietAccount, MoveKeeps
<1> QED BY <1>4, <1>5

LEMMA PlanKeeps ==
    ASSUME CatalogInv, NEW r \in Runs, Plan(r) PROVE CatalogInv'
<1>1. /\ DOMAIN run = Runs /\ run[r].at = "inspected"
      /\ RunOK(r) /\ SeenOK(r) /\ DOMAIN run[r] = Fields
      /\ UNCHANGED <<products, prices, network>>
  BY DEF CatalogInv, RunsInv, RunOK, Plan
<1>2. /\ DOMAIN run' = Runs /\ \A q \in Runs \ {r} : run'[q] = run[q]
      /\ DOMAIN run'[r] = Fields /\ run'[r].results = run[r].results
      /\ \/ run'[r].at = "failed" /\ run'[r].seen = run[r].seen
         \/ run'[r].at = "products" /\ run'[r].seen = nothing
  BY <1>1 DEF Plan, Fields
<1>3. DOMAIN nothing = {"products", "prices"} /\ DOMAIN nothing.products = {}
  BY DEF nothing
<1>4. Moves(r)
  BY <1>1, <1>2 DEF Moves, Applying
<1>5. RunOK(r)'
  BY <1>1, <1>2, <1>3 DEF RunOK, Stages
<1>6. ResultsOK(r)'
  BY <1>2 DEF ResultsOK, Applying, Working
<1>7. SeenOK(r)'
  BY <1>1, <1>2, <1>3 DEF SeenOK
<1> QED BY <1>1, <1>4, <1>5, <1>6, <1>7, QuietAccount, MoveKeeps

\* What is left to do when a run starts is to write.
LEMMA StartKeeps ==
    ASSUME CatalogInv, NEW r \in Runs, Start(r) PROVE CatalogInv'
<1> DEFINE to == IF run[r].seen # run[r].planned THEN "failed" ELSE "apply"
           settled == [c \in {d \in Change : actionOf(r, d) # "none"} |->
                         CASE actionOf(r, c) = "noop"    -> "skipped"
                           [] actionOf(r, c) = "blocked" -> "blocked"
                           [] OTHER -> "none"]
<1>1. /\ DOMAIN run = Runs /\ run[r].at = "inspected"
      /\ RunOK(r) /\ SeenOK(r)
      /\ UNCHANGED <<products, prices, network>>
  BY DEF CatalogInv, RunsInv, Start
<1>2. DOMAIN run[r] = Fields
  BY <1>1 DEF RunOK
<1>3. run' = [run EXCEPT ![r].at = to, ![r].results = settled]
  BY DEF Start
<1>4. /\ DOMAIN settled \subseteq Change
      /\ \A c \in DOMAIN settled : settled[c] = "none" => actionOf(r, c) \in Writes
  <2>1. \A c \in DOMAIN settled :
          /\ c \in Change /\ actionOf(r, c) # "none"
          /\ settled[c] = "none" => actionOf(r, c) \notin {"noop", "blocked"}
    OBVIOUS
  <2> HIDE DEF settled
  <2> QED BY <2>1, ActionKinds
<1>5. to \in {"failed", "apply"}
  OBVIOUS
<1> HIDE DEF to, settled
<1>6. /\ \A q \in Runs \ {r} : run'[q] = run[q] /\ DOMAIN run' = Runs
      /\ run'[r].at = to /\ DOMAIN run'[r] = Fields
      /\ run'[r].seen = run[r].seen /\ run'[r].results = settled
  BY <1>1, <1>2, <1>3 DEF Fields
<1>7. \A c : actionOf(r, c)' = actionOf(r, c)
  BY <1>6, ActionStays
<1>8. Moves(r)
  BY <1>1, <1>3, <1>6 DEF Moves, Applying
<1>9. RunOK(r)'
  BY <1>1, <1>4, <1>5, <1>6 DEF RunOK, Stages
<1>10. ResultsOK(r)'
  BY <1>4, <1>5, <1>6, <1>7 DEF ResultsOK, Working
<1>11. SeenOK(r)'
  BY <1>1, <1>5, <1>6 DEF SeenOK
<1> QED BY <1>1, <1>8, <1>9, <1>10, <1>11, QuietAccount, MoveKeeps

LEMMA TakeKeeps ==
    ASSUME CatalogInv, NEW r \in Runs, NEW c \in Change, Take(r, c) PROVE CatalogInv'
<1>1. /\ DOMAIN run = Runs /\ run[r].at = "apply"
      /\ RunOK(r) /\ ResultsOK(r) /\ SeenOK(r)
      /\ c \in DOMAIN run[r].results /\ run[r].results[c] = "none"
      /\ UNCHANGED <<products, prices, network>>
  BY DEF CatalogInv, RunsInv, Take
<1>2. DOMAIN run[r] = Fields
  BY <1>1 DEF RunOK
<1>3. CASE run' = attempted(r, c, 1)
  BY <1>1, <1>3, QuietAccount, AttemptKeeps DEF Applying
<1>4. CASE run' = [run EXCEPT ![r].results[c] = "unmet"]
  <2>1. /\ DOMAIN run' = Runs /\ \A q \in Runs \ {r} : run'[q] = run[q]
        /\ run'[r].at = "apply" /\ DOMAIN run'[r] = Fields
        /\ run'[r].seen = run[r].seen
        /\ run'[r].results = [run[r].results EXCEPT ![c] = "unmet"]
    BY <1>1, <1>2, <1>4 DEF Fields
  <2>2. \A d : actionOf(r, d)' = actionOf(r, d)
    BY <2>1, ActionStays
  <2>3. /\ DOMAIN run'[r].results = DOMAIN run[r].results
        /\ \A d \in DOMAIN run[r].results :
             run'[r].results[d] = "none" => run[r].results[d] = "none"
    BY <2>1
  <2>4. Moves(r)
    BY <2>1 DEF Moves, Applying
  <2>5. RunOK(r)'
    BY <1>1, <2>1, <2>3 DEF RunOK, Stages
  <2>6. ResultsOK(r)'
    BY <1>1, <2>1, <2>2, <2>3 DEF ResultsOK, Working, Applying
  <2>7. SeenOK(r)'
    BY <1>1, <2>1 DEF SeenOK
  <2> QED BY <1>1, <2>4, <2>5, <2>6, <2>7, QuietAccount, MoveKeeps
<1> QED BY <1>3, <1>4 DEF Take

\* Another page of the prices under the lookup key has been read.
LEMMA LookKeeps ==
    ASSUME CatalogInv, NEW r \in Runs, run[r].at = "lookup", NEW cursor, NEW pages, NEW more,
           run' = [run EXCEPT ![r].cursor = cursor, ![r].pages = pages,
                              ![r].mine = run[r].mine \cup more],
           more \subseteq ownedPrice(r, run[r].change[2]),
           UNCHANGED <<products, prices, network>>
    PROVE  CatalogInv'
<1>1. /\ DOMAIN run = Runs /\ RunOK(r) /\ ResultsOK(r) /\ SeenOK(r) /\ DOMAIN run[r] = Fields
  BY DEF CatalogInv, RunsInv, RunOK
<1>2. /\ Goes(r, "lookup") /\ run'[r].mine = run[r].mine \cup more
      /\ DOMAIN run' = Runs /\ \A q \in Runs \ {r} : run'[q] = run[q]
  BY <1>1 DEF Goes, Fields
<1>3. \A c : actionOf(r, c)' = actionOf(r, c) /\ attemptFrom(r, c)' = attemptFrom(r, c)
  BY <1>2, ActionStays DEF Goes
<1>4. Moves(r)
  BY <1>2 DEF Moves, Goes, Applying
<1>5. RunOK(r)'
  BY <1>1, <1>2 DEF RunOK, Goes
<1>6. ResultsOK(r)'
  BY <1>1, <1>2, <1>3 DEF ResultsOK, Goes
<1>7. SeenOK(r)'
  <2>1. ownedPrice(r, run[r].change[2])' = ownedPrice(r, run[r].change[2])
    BY <1>2 DEF ownedPrice, Goes
  <2> QED BY <1>1, <1>2, <2>1 DEF SeenOK, Goes
<1> QED BY <1>4, <1>5, <1>6, <1>7, QuietAccount, MoveKeeps

\* What a lookup does: it reads on, gives up, or sends the request.
LooksOn(r) ==
    \E cursor, pages, more :
        /\ more \subseteq ownedPrice(r, run[r].change[2])
        /\ run' = [run EXCEPT ![r].cursor = cursor, ![r].pages = pages,
                              ![r].mine = run[r].mine \cup more]
        /\ UNCHANGED network

Finds(r) ==
    \E id \in ownedPrice(r, run[r].change[2]) :
        /\ run' = [run EXCEPT ![r].at = "waiting"]
        /\ network' = network \cup {request(r, id)}

LEMMA LookUpCases ==
    ASSUME CatalogInv, NEW r \in Runs, LookUp(r)
    PROVE  /\ run[r].at = "lookup" /\ UNCHANGED <<products, prices>>
           /\ LooksOn(r) \/ (run' = settle(r, "failed") /\ UNCHANGED network) \/ Finds(r)
<1> DEFINE l    == run[r].change[2]
           list == {i \in DOMAIN prices : prices[i].lookupKey = l}
           ids  == page(list, run[r].cursor)
           got  == ids \cap ownedPrice(r, l)
           mine == run[r].mine \cup got
           id   == CHOOSE i \in mine : \A j \in mine : i <= j
<1>1. /\ run[r].at = "lookup" /\ UNCHANGED <<products, prices>>
      /\ \/ /\ run' = [run EXCEPT ![r].cursor = last(ids), ![r].pages = @ + 1, ![r].mine = mine]
            /\ UNCHANGED network
         \/ run' = settle(r, "failed") /\ UNCHANGED network
         \/ /\ mine # {}
            /\ run' = [run EXCEPT ![r].at = "waiting"]
            /\ network' = network \cup {request(r, id)}
  BY DEF LookUp
<1>2. mine \subseteq ownedPrice(r, l) /\ got \subseteq ownedPrice(r, l)
  BY <1>1 DEF CatalogInv, SeenOK
<1>3. ASSUME mine # {} PROVE id \in ownedPrice(r, l)
  <2>1. mine \subseteq DOMAIN prices
    BY <1>2 DEF ownedPrice
  <2> HIDE DEF mine
  <2>2. id \in mine
    BY <1>3, <2>1, PricesHaveALeast
  <2> QED BY <1>2, <2>2
<1>4. ASSUME run' = [run EXCEPT ![r].cursor = last(ids), ![r].pages = @ + 1, ![r].mine = mine],
             UNCHANGED network
      PROVE  LooksOn(r)
  <2> HIDE DEF got, ids
  <2>1. run' = [run EXCEPT ![r].cursor = last(ids), ![r].pages = run[r].pages + 1,
                           ![r].mine = run[r].mine \cup got]
    BY <1>4
  <2> QED BY <1>2, <1>4, <2>1 DEF LooksOn
<1> HIDE DEF id, mine
<1> QED BY <1>1, <1>3, <1>4 DEF Finds

\* A run that waits has sent a request for its change.
LEMMA SendKeeps ==
    ASSUME CatalogInv, NEW r \in Runs, run[r].at \in {"lookup", "send"}, NEW id,
           run' = [run EXCEPT ![r].at = "waiting"],
           network' = network \cup {request(r, id)}, UNCHANGED <<products, prices>>,
           run[r].at = "send" => id = run[r].change[2],
           run[r].at = "lookup" => id \in ownedPrice(r, run[r].change[2])
    PROVE  CatalogInv'
<1>1. RunOK(r) /\ ResultsOK(r)
  BY DEF CatalogInv, RunsInv
<1>2. /\ Goes(r, "waiting") /\ DOMAIN run' = Runs
      /\ \A q \in Runs \ {r} : run'[q] = run[q]
  BY GoesTo
<1>3. Moves(r)
  BY <1>2 DEF Moves, Goes, Applying
<1>4. /\ run[r].change \in Change /\ actionOf(r, run[r].change) \in Writes
      /\ attemptFrom(r, run[r].change) = run[r].at
  BY <1>1 DEF RunOK, ResultsOK, Applying, Working
<1>5. ASSUME NEW m \in network' \ network PROVE MessageOK(m)'
  <2>1. /\ m.run = r /\ m.change = run[r].change /\ m.id = id
        /\ m.key = keyOf(r, run[r].change)
    BY <1>5 DEF request, requestKey, keyOf
  <2>2. \A c : /\ actionOf(r, c)' = actionOf(r, c) /\ attemptFrom(r, c)' = attemptFrom(r, c)
               /\ keyOf(r, c)' = keyOf(r, c)
    BY <1>2, ActionStays DEF Goes
  <2>3. run'[r].at \in Applying
    BY <1>2 DEF Goes, Applying
  <2>4. \A l : ownedPrice(r, l)' = ownedPrice(r, l)
    BY DEF ownedPrice
  <2> QED BY <1>4, <2>1, <2>2, <2>3, <2>4 DEF MessageOK
<1>6. run[r].at \in Applying /\ run[r].at \in Working /\ run[r].at # "idle"
  BY DEF Applying, Working
<1>7. "waiting" \in Stages \ {"idle", "lookup", "send"}
  BY DEF Stages
<1>8. OwnersStay /\ AccountInv'
  BY QuietAccount
<1> QED BY <1>2, <1>3, <1>5, <1>6, <1>7, <1>8, GoesKeeps

LEMMA StepsKeep ==
    ASSUME CatalogInv, NEW r \in Runs, Steps(r) PROVE CatalogInv'
<1>1. ASSUME NEW to \in Stages \ {"idle", "lookup", "send"}, run[r].at # "idle",
             run' = [run EXCEPT ![r].at = to], UNCHANGED <<products, prices, network>>,
             to \in Applying <=> run[r].at \in Applying, to \notin Working
      PROVE  CatalogInv'
  <2>1. /\ Goes(r, to) /\ DOMAIN run' = Runs
        /\ \A q \in Runs \ {r} : run'[q] = run[q]
    BY <1>1, GoesTo
  <2>2. Moves(r)
    BY <1>1, <2>1 DEF Moves, Goes
  <2> QED BY <1>1, <2>1, <2>2, QuietAccount, GoesKeeps
<1>2. CASE ReadPage(r, "products", products) \/ ReadPage(r, "prices", prices)
  BY <1>2, ReadPageKeeps
<1>3. CASE ReadFails(r)
  <2>1. run' = [run EXCEPT ![r].at = "failed"] /\ UNCHANGED <<products, prices, network>>
    BY <1>3 DEF ReadFails
  <2>2. /\ run[r].at # "idle" /\ run[r].at \notin Applying
        /\ "failed" \notin Applying /\ "failed" \notin Working
        /\ "failed" \in Stages \ {"idle", "lookup", "send"}
    BY <1>3 DEF ReadFails, Stages, Applying, Working
  <2> QED BY <1>1, <2>1, <2>2
<1>4. CASE Plan(r) \/ Start(r)
  BY <1>4, PlanKeeps, StartKeeps
<1>5. ASSUME NEW c \in Change, Take(r, c) PROVE CatalogInv'
  BY <1>5, TakeKeeps
<1>6. CASE LookUp(r)
  <2>1. run[r].at = "lookup" /\ UNCHANGED <<products, prices>>
    BY <1>6, LookUpCases
  <2>2. CASE LooksOn(r)
    BY <2>1, <2>2, LookKeeps DEF LooksOn
  <2>3. CASE run' = settle(r, "failed") /\ UNCHANGED network
    BY <2>1, <2>3, QuietAccount, SettleKeeps DEF Working
  <2>4. CASE Finds(r)
    BY <2>1, <2>4, SendKeeps DEF Finds
  <2> QED BY <1>6, <2>2, <2>3, <2>4, LookUpCases
<1>7. CASE Send(r)
  <2>1. /\ run[r].at = "send" /\ UNCHANGED <<products, prices>>
        /\ run' = [run EXCEPT ![r].at = "waiting"]
        /\ network' = network \cup {request(r, run[r].change[2])}
    BY <1>7 DEF Send
  <2> QED BY <2>1, SendKeeps
<1>8. CASE NoAnswer(r)
  <2>1. run[r].at \in Working /\ UNCHANGED <<products, prices, network>> /\ Retry(r)
    BY <1>8 DEF NoAnswer, Working
  <2>2. CASE run' = settle(r, "failed")
    BY <2>1, <2>2, QuietAccount, SettleKeeps
  <2>3. CASE run' # settle(r, "failed")
    <3>1. run' = attempted(r, run[r].change, run[r].attempt + 1)
      BY <2>1, <2>3 DEF Retry
    <3>2. run[r].change \in DOMAIN run[r].results /\ run[r].results[run[r].change] = "none"
      BY <2>1 DEF CatalogInv, RunsInv, ResultsOK
    <3> QED BY <2>1, <3>1, <3>2, QuietAccount, AttemptKeeps DEF Working, Applying
  <2> QED BY <2>2, <2>3
<1>9. CASE End(r)
  <2>1. run' = [run EXCEPT ![r].at = "ended"] /\ UNCHANGED <<products, prices, network>>
    BY <1>9 DEF End
  <2>2. /\ run[r].at # "idle" /\ run[r].at \in Applying
        /\ "ended" \in Applying /\ "ended" \notin Working
        /\ "ended" \in Stages \ {"idle", "lookup", "send"}
    BY <1>9 DEF End, Stages, Applying, Working
  <2> QED BY <1>1, <2>1, <2>2
<1> QED BY <1>2, <1>3, <1>4, <1>5, <1>6, <1>7, <1>8, <1>9 DEF Steps

\* A request that leaves the network, answered or not.
LEMMA AnswerKeeps ==
    ASSUME CatalogInv, NEW m \in network, NEW result, result # "none", Answer(m, result),
           OwnersStay, AccountInv', network' = network \ {m}
    PROVE  CatalogInv'
<1> DEFINE r == m.run
<1>1. r \in Runs
  BY DEF CatalogInv, NetInv, MessageOK
<1>2. CASE UNCHANGED run
  <2>1. Moves(r)
    BY <1>1, <1>2 DEF Moves, CatalogInv, RunsInv
  <2>2. RunOK(r) /\ ResultsOK(r) /\ SeenOK(r)
    BY <1>1 DEF CatalogInv, RunsInv
  <2>3. \A c : actionOf(r, c)' = actionOf(r, c) /\ attemptFrom(r, c)' = attemptFrom(r, c)
    BY <1>2, ActionStays
  <2>4. RunOK(r)' /\ ResultsOK(r)'
    BY <1>2, <2>2, <2>3 DEF RunOK, ResultsOK
  <2>5. SeenOK(r)'
    BY <1>2, <2>2, OwnedPricesStay DEF SeenOK, OwnersStay
  <2>6. \A n \in network' \ network : MessageOK(n)'
    OBVIOUS
  <2> HIDE DEF r
  <2> QED BY <1>1, <2>1, <2>4, <2>5, <2>6, MoveKeeps
<1>3. CASE Awaits(m) /\ run' = settle(r, result)
  <2>1. run[r].at \in Working /\ network' \subseteq network
    BY <1>3 DEF Awaits, Working
  <2> HIDE DEF r
  <2> QED BY <1>1, <1>3, <2>1, SettleKeeps
<1> QED BY <1>2, <1>3 DEF Answer

LEMMA NextCatalog ==
    ASSUME CatalogInv, [Next]_vars PROVE CatalogInv' /\ OwnersStay
<1>1. ASSUME NEW r \in Runs, Begin(r) PROVE CatalogInv' /\ OwnersStay
  BY <1>1, BeginKeeps, QuietAccount DEF Begin
<1>2. ASSUME NEW r \in Runs, Steps(r) PROVE CatalogInv' /\ OwnersStay
  <2>1. UNCHANGED <<products, prices>>
    BY <1>2 DEF Steps, ReadPage, ReadFails, Plan, Start, Take, LookUp, Send, NoAnswer, End
  <2> QED BY <1>2, <2>1, StepsKeep, QuietAccount
<1>3. ASSUME NEW m \in network, Execute(m) PROVE CatalogInv' /\ OwnersStay
  <2>1. OwnersStay /\ AccountInv'
    BY <1>3, ExecutesKeeps DEF Execute
  <2>2. network' = network \ {m} /\ Answer(m, "succeeded")
    BY <1>3 DEF Execute
  <2> QED BY <2>1, <2>2, AnswerKeeps
<1>4. ASSUME NEW m \in network, Replay(m) PROVE CatalogInv' /\ OwnersStay
  <2>1. OwnersStay /\ AccountInv'
    BY <1>4, QuietAccount DEF Replay
  <2>2. network' = network \ {m} /\ Answer(m, "succeeded")
    BY <1>4 DEF Replay
  <2> QED BY <2>1, <2>2, AnswerKeeps
<1>5. ASSUME NEW m \in network, Reject(m) PROVE CatalogInv' /\ OwnersStay
  <2>1. OwnersStay /\ AccountInv'
    BY <1>5, QuietAccount DEF Reject
  <2>2. network' = network \ {m} /\ Answer(m, "failed")
    BY <1>5 DEF Reject
  <2> QED BY <2>1, <2>2, AnswerKeeps
<1>6. ASSUME NEW m \in network, Lose(m) PROVE CatalogInv' /\ OwnersStay
  <2>1. OwnersStay /\ AccountInv'
    BY <1>6, QuietAccount DEF Lose
  <2>2. network' = network \ {m} /\ UNCHANGED run
    BY <1>6 DEF Lose
  <2>3. Answer(m, "failed")
    BY <2>2 DEF Answer
  <2> QED BY <2>1, <2>2, <2>3, AnswerKeeps
<1>7. CASE UNCHANGED vars
  <2>1. OwnersStay /\ AccountInv'
    BY <1>7, QuietAccount DEF vars
  <2>2. UNCHANGED <<products, prices, run, network>>
    BY <1>7 DEF vars
  <2>3. \A r, c : /\ actionOf(r, c)' = actionOf(r, c) /\ attemptFrom(r, c)' = attemptFrom(r, c)
                  /\ keyOf(r, c)' = keyOf(r, c)
    BY <2>2, ActionStays
  <2>4. RunsInv'
    BY <2>2, <2>3 DEF CatalogInv, RunsInv, RunOK, ResultsOK
  <2>5. \A r \in Runs : SeenOK(r)'
    BY <2>2 DEF CatalogInv, SeenOK, ownedPrice
  <2>6. NetInv'
    BY <2>2, <2>3 DEF CatalogInv, NetInv, MessageOK, ownedPrice
  <2> QED BY <2>1, <2>4, <2>5, <2>6 DEF CatalogInv
<1> QED BY <1>1, <1>2, <1>3, <1>4, <1>5, <1>6, <1>7 DEF Next, Done

-----------------------------------------------------------------------------
(***************************************************************************)
(* The theorems                                                            *)
(***************************************************************************)
LEMMA CatalogAlways == Spec => []CatalogInv
<1>1. Init => CatalogInv
  BY InitCatalog
<1>2. CatalogInv /\ [Next]_vars => CatalogInv'
  BY NextCatalog
<1> QED BY <1>1, <1>2, PTL DEF Spec

\* No run takes an object from its owner, whatever is late and whatever lookup
\* keys the documents share (inspect, #priceIdForLookupKey, applyChange).
THEOREM OwnersKeepTheirsAlways == Spec => OwnersKeepTheirs
<1>1. CatalogInv /\ [Next]_vars =>
        [/\ \A i \in DOMAIN products : products'[i].owner = products[i].owner
         /\ \A i \in DOMAIN prices : prices'[i].owner = prices[i].owner]_vars
  BY NextCatalog DEF OwnersStay
<1> QED BY <1>1, CatalogAlways, PTL DEF Spec, OwnersKeepTheirs

\* The shape of the state.
LEMMA NextLanded ==
    ASSUME CatalogInv, landed \in [Runs \X Change -> Nat], [Next]_vars
    PROVE  landed' \in [Runs \X Change -> Nat]
<1>1. ASSUME NEW m \in network, Execute(m) PROVE landed' \in [Runs \X Change -> Nat]
  <2>1. landed' = [landed EXCEPT ![<<m.run, m.change>>] = @ + 1]
    BY <1>1 DEF Execute
  <2>2. <<m.run, m.change>> \in Runs \X Change
    BY DEF CatalogInv, NetInv, MessageOK
  <2> QED BY <2>1, <2>2
<1>2. ASSUME UNCHANGED landed PROVE landed' \in [Runs \X Change -> Nat]
  BY <1>2
<1>3. ASSUME NEW r \in Runs, Begin(r) \/ Steps(r) PROVE UNCHANGED landed
  BY <1>3 DEF Begin, Steps, ReadPage, ReadFails, Plan, Start, Take, LookUp, Send, NoAnswer, End
<1>4. ASSUME NEW m \in network, Replay(m) \/ Reject(m) \/ Lose(m) PROVE UNCHANGED landed
  BY <1>4 DEF Replay, Reject, Lose
<1>5. CASE UNCHANGED vars
  BY <1>2, <1>5 DEF vars
<1> QED BY <1>1, <1>2, <1>3, <1>4, <1>5 DEF Next, Done

LEMMA CatalogTyped ==
    ASSUME CatalogInv, landed \in [Runs \X Change -> Nat] PROVE TypeOK
<1>1. DOMAIN prices = 1..Cardinality(DOMAIN prices)
  <2>1. PICK n \in Nat : DOMAIN prices = 1..n /\ Cardinality(DOMAIN prices) + 1 = n + 1
    BY NoPriceAfterTheLast DEF CatalogInv
  <2>2. Cardinality(1..n) = n
    <3>1. Cardinality(1..n) = IF 1 > n THEN 0 ELSE n - 1 + 1
      BY FS_Interval
    <3> QED BY <3>1
  <2> QED BY <2>1, <2>2
<1>2. \A r \in Runs : run[r].at \in Stages
  BY DEF CatalogInv, RunsInv, RunOK
<1>3. \A m \in network : m.run \in Runs /\ m.change \in Change
  BY DEF CatalogInv, NetInv, MessageOK
<1> QED BY <1>1, <1>2, <1>3 DEF TypeOK, CatalogInv, AccountInv

\* The account and the runs over it are well formed, and the ids of prices are the
\* first numbers, whatever is written to it (applyChange, #listAll).
THEOREM TypeCorrect == Spec => []TypeOK
<1> DEFINE Inv == CatalogInv /\ landed \in [Runs \X Change -> Nat]
<1>1. Init => Inv
  BY InitCatalog DEF Init
<1>2. Inv /\ [Next]_vars => Inv'
  BY NextCatalog, NextLanded
<1>3. Inv => TypeOK
  BY CatalogTyped
<1> QED BY <1>1, <1>2, <1>3, PTL DEF Spec

-----------------------------------------------------------------------------
(***************************************************************************)
(* One write of a change                                                   *)
(***************************************************************************)
\* What Stripe executed it knows the key of, and it has executed nothing else under
\* that key.
LandedOK(r, c) ==
    /\ landed[<<r, c>>] <= 1
    /\ landed[<<r, c>>] # 0 =>
         /\ run[r].at \in Applying
         /\ actionOf(r, c) \in Writes
         /\ keyOf(r, c) \in replies

OneEach(q, r, c) ==
    landed[<<q, c>>] # 0 /\ landed[<<r, c>>] # 0 /\ keyOf(q, c) = keyOf(r, c) => q = r

LandedInv ==
    \A r \in Runs, c \in Change : LandedOK(r, c) /\ \A q \in Runs : OneEach(q, r, c)

\* And it knows no other keys.
RepliesInv ==
    \A k \in replies : \E r \in Runs, c \in Change :
        k = keyOf(r, c) /\ landed[<<r, c>>] = 1 /\ run[r].at \in Applying

Succeeded(r) == {c \in DOMAIN run[r].results : run[r].results[c] = "succeeded"}

\* The write made under the key that r has for c.
Answered(r, c) == \E q \in Runs : landed[<<q, c>>] = 1 /\ keyOf(q, c) = keyOf(r, c)

SucceededInv ==
    \A r \in Runs : run[r].at # "idle" =>
        \A c \in Succeeded(r) : c \in Change /\ run[r].at \in Applying /\ Answered(r, c)

WriteInv == landed \in [Runs \X Change -> Nat] /\ LandedInv /\ RepliesInv /\ SucceededInv

\* r goes on with what it has seen, and of its changes at most those in more
\* have newly succeeded.
Proceeds(r, more) ==
    /\ run[r].at \in Applying => run'[r].at \in Applying /\ run'[r].seen = run[r].seen
    /\ run'[r].at # "idle" =>
         \A c \in DOMAIN run'[r].results : run'[r].results[c] = "succeeded" =>
            (run[r].at # "idle" /\ c \in Succeeded(r)) \/ c \in more

LEMMA KeysStay ==
    ASSUME NEW r, NEW more, Proceeds(r, more), run[r].at \in Applying, NEW c
    PROVE  /\ run'[r].at \in Applying
           /\ keyOf(r, c)' = keyOf(r, c) /\ actionOf(r, c)' = actionOf(r, c)
BY ActionStays DEF Proceeds

\* What Stripe has executed keeps its key.
LEMMA LandedStays ==
    ASSUME LandedInv, UNCHANGED <<replies, landed>>,
           \A r \in Runs : run[r].at \in Applying =>
              /\ run'[r].at \in Applying
              /\ \A c : keyOf(r, c)' = keyOf(r, c) /\ actionOf(r, c)' = actionOf(r, c)
    PROVE  LandedInv'
<1>1. ASSUME NEW r \in Runs, NEW c \in Change PROVE LandedOK(r, c)'
  BY <1>1 DEF LandedInv, LandedOK
<1>2. ASSUME NEW r \in Runs, NEW c \in Change, NEW q \in Runs PROVE OneEach(q, r, c)'
  BY <1>2 DEF LandedInv, LandedOK, OneEach
<1> QED BY <1>1, <1>2 DEF LandedInv

LEMMA AnsweredStays ==
    ASSUME LandedInv, NEW r \in Runs, NEW c \in Change, run[r].at \in Applying, Answered(r, c),
           \A q \in Runs : landed[<<q, c>>] = 1 => landed'[<<q, c>>] = 1,
           \A q \in Runs : run[q].at \in Applying => keyOf(q, c)' = keyOf(q, c)
    PROVE  Answered(r, c)'
<1>1. PICK q \in Runs : landed[<<q, c>>] = 1 /\ keyOf(q, c) = keyOf(r, c)
  BY DEF Answered
<1>2. run[q].at \in Applying
  BY <1>1 DEF LandedInv, LandedOK
<1>3. landed'[<<q, c>>] = 1 /\ keyOf(q, c)' = keyOf(r, c)'
  BY <1>1, <1>2
<1> QED BY <1>3 DEF Answered

LEMMA QuietWrites ==
    ASSUME WriteInv, UNCHANGED <<replies, landed>>, \A r \in Runs : Proceeds(r, {})
    PROVE  WriteInv'
<1>1. \A r \in Runs : run[r].at \in Applying =>
        /\ run'[r].at \in Applying
        /\ \A c : keyOf(r, c)' = keyOf(r, c) /\ actionOf(r, c)' = actionOf(r, c)
  BY KeysStay
<1>2. LandedInv'
  BY <1>1, LandedStays DEF WriteInv
<1>3. RepliesInv'
  BY <1>1 DEF WriteInv, RepliesInv
<1>4. SucceededInv'
  <2> SUFFICES ASSUME NEW r \in Runs, run'[r].at # "idle", NEW c \in DOMAIN run'[r].results,
                      run'[r].results[c] = "succeeded"
               PROVE  c \in Change /\ run'[r].at \in Applying /\ Answered(r, c)'
    BY DEF SucceededInv, Succeeded
  <2>1. run[r].at # "idle" /\ c \in Succeeded(r)
    BY DEF Proceeds
  <2>2. c \in Change /\ run[r].at \in Applying /\ Answered(r, c)
    BY <2>1 DEF WriteInv, SucceededInv
  <2>3. Answered(r, c)'
    BY <1>1, <2>2, AnsweredStays DEF WriteInv
  <2> QED BY <1>1, <2>2, <2>3
<1> QED BY <1>2, <1>3, <1>4 DEF WriteInv

LEMMA StandingStill ==
    ASSUME NEW r, run'[r] = run[r] PROVE Proceeds(r, {})
BY DEF Proceeds, Succeeded

LEMMA GoingProceeds ==
    ASSUME NEW r, NEW to, Goes(r, to), run[r].at # "idle", run[r].at \in Applying => to \in Applying
    PROVE  Proceeds(r, {})
BY DEF Goes, Proceeds, Succeeded

LEMMA AttemptProceeds ==
    ASSUME NEW r, NEW c, Attempts(r, c), run[r].at # "idle" PROVE Proceeds(r, {})
BY DEF Attempts, Proceeds, Succeeded, Applying

LEMMA SettlingProceeds ==
    ASSUME NEW r, NEW result, SettlesWith(r, result), run[r].at # "idle"
    PROVE  /\ Proceeds(r, {run[r].change})
           /\ result # "succeeded" => Proceeds(r, {})
BY DEF SettlesWith, Proceeds, Succeeded, Applying

LEMMA BeginProceeds ==
    ASSUME CatalogInv, NEW r \in Runs, Begin(r) PROVE \A q \in Runs : Proceeds(q, {})
<1>1. DOMAIN run = Runs
  BY DEF CatalogInv, RunsInv
<1>2. /\ run'[r] = [at |-> "products", pass |-> "plan", cursor |-> 0, pages |-> 0,
                    seen |-> nothing, planned |-> nothing, mine |-> {},
                    there |-> inspection(r), before |-> over,
                    results |-> <<>>, change |-> <<>>, attempt |-> 0]
      /\ \A q \in Runs \ {r} : run'[q] = run[q]
  BY <1>1 DEF Begin
<1>3. run'[r].results = <<>> /\ run[r].at \notin Applying
  BY <1>2 DEF Begin, Applying
<1>4. DOMAIN run'[r].results = {}
  BY <1>3
<1>5. Proceeds(r, {})
  BY <1>3, <1>4 DEF Proceeds
<1> QED BY <1>2, <1>5, StandingStill

LEMMA StepsProceed ==
    ASSUME CatalogInv, NEW r \in Runs, Steps(r) PROVE \A q \in Runs : Proceeds(q, {})
<1>1. /\ DOMAIN run = Runs /\ RunOK(r) /\ (run[r].at # "idle" => DOMAIN run[r] = Fields)
  BY DEF CatalogInv, RunsInv, RunOK
<1>2. \A q \in Runs \ {r} : run'[q] = run[q]
  BY <1>1 DEF Steps, ReadPage, ReadFails, Plan, Start, Take, LookUp, Send, NoAnswer, Retry,
              attempted, settle, End
<1>3. ASSUME NEW to, run[r].at # "idle", run' = [run EXCEPT ![r].at = to],
             run[r].at \in Applying => to \in Applying
      PROVE  Proceeds(r, {})
  BY <1>3, GoesTo, GoingProceeds
<1>4. ASSUME run[r].at \in Working, run' = settle(r, "failed") PROVE Proceeds(r, {})
  <2>1. run[r].at # "idle"
    BY <1>4 DEF Working
  <2>2. SettlesWith(r, "failed")
    BY <1>4, <2>1, SettleGoes
  <2>3. "failed" # "succeeded"
    OBVIOUS
  <2> QED BY <2>1, <2>2, <2>3, SettlingProceeds
<1>5. ASSUME ReadPage(r, "products", products) \/ ReadPage(r, "prices", prices)
      PROVE  Proceeds(r, {})
  <2>1. run[r].at \in {"products", "prices"}
    BY <1>5 DEF ReadPage
  <2>2. ASSUME NEW list, NEW objects, ReadPage(r, list, objects)
        PROVE  run'[r].results = run[r].results
    <3> DEFINE ids  == page(DOMAIN objects, run[r].cursor)
               next == afterPage(list, hasMore(DOMAIN objects, run[r].cursor), run[r].pages + 1)
               read == with(run[r].seen[list], objects, ids \cap owned(objects, OwnerOf[r]))
    <3>1. run' = [run EXCEPT
             ![r].at = next,
             ![r].cursor = IF next = list THEN last(ids) ELSE 0,
             ![r].pages = IF next = list THEN @ + 1 ELSE 0,
             ![r].seen[list] = read]
      BY <2>2 DEF ReadPage
    <3> HIDE DEF next, read
    <3> QED BY <1>1, <2>1, <3>1 DEF Fields
  <2>3. run'[r].results = run[r].results
    BY <1>5, <2>2
  <2> QED BY <2>1, <2>3 DEF Proceeds, Succeeded, Applying
<1>6. ASSUME ReadFails(r) PROVE Proceeds(r, {})
  <2>1. run[r].at # "idle" /\ run[r].at \notin Applying /\ run' = [run EXCEPT ![r].at = "failed"]
    BY <1>6 DEF ReadFails, Applying
  <2> QED BY <1>3, <2>1
<1>14. ASSUME Plan(r) PROVE Proceeds(r, {})
  <2>1. run[r].at = "inspected" /\ run'[r].results = run[r].results
    BY <1>1, <1>14 DEF Plan, Fields
  <2> QED BY <2>1 DEF Proceeds, Succeeded, Applying
<1>7. ASSUME Start(r) PROVE Proceeds(r, {})
  <2>1. run[r].at = "inspected"
    BY <1>7 DEF Start
  <2>2. \A c \in DOMAIN run'[r].results : run'[r].results[c] # "succeeded"
    <3> DEFINE settled == [c \in {d \in Change : actionOf(r, d) # "none"} |->
                             CASE actionOf(r, c) = "noop"    -> "skipped"
                               [] actionOf(r, c) = "blocked" -> "blocked"
                               [] OTHER -> "none"]
    <3>1. \A c \in DOMAIN settled : settled[c] # "succeeded"
      OBVIOUS
    <3>2. run'[r].results = settled
      BY <1>1, <1>7, <2>1 DEF Start, Fields
    <3> HIDE DEF settled
    <3> QED BY <3>1, <3>2
  <2> QED BY <2>1, <2>2 DEF Proceeds, Applying
<1>8. ASSUME NEW c \in Change, Take(r, c) PROVE Proceeds(r, {})
  <2>1. run[r].at = "apply"
    BY <1>8 DEF Take
  <2>2. CASE run' = attempted(r, c, 1)
    BY <2>1, <2>2, AttemptBegins, AttemptProceeds
  <2>3. CASE run' = [run EXCEPT ![r].results[c] = "unmet"]
    <3>1. /\ run'[r].at = "apply" /\ run'[r].seen = run[r].seen
          /\ run'[r].results = [run[r].results EXCEPT ![c] = "unmet"]
      BY <1>1, <2>1, <2>3 DEF Fields
    <3> QED BY <2>1, <3>1 DEF Proceeds, Succeeded, Applying
  <2> QED BY <1>8, <2>2, <2>3 DEF Take
<1>9. ASSUME LookUp(r) PROVE Proceeds(r, {})
  <2>1. run[r].at = "lookup"
    BY <1>9 DEF LookUp
  <2>2. CASE LooksOn(r)
    <3>1. /\ run'[r].at = "lookup" /\ run'[r].seen = run[r].seen
          /\ run'[r].results = run[r].results
      BY <1>1, <2>1, <2>2 DEF LooksOn, Fields
    <3> QED BY <2>1, <3>1 DEF Proceeds, Succeeded, Applying
  <2>3. CASE run' = settle(r, "failed")
    BY <1>4, <2>1, <2>3 DEF Working
  <2>4. CASE Finds(r)
    <3>1. run' = [run EXCEPT ![r].at = "waiting"]
      BY <2>4 DEF Finds
    <3> QED BY <1>3, <2>1, <3>1 DEF Applying
  <2> QED BY <1>9, <2>2, <2>3, <2>4, LookUpCases
<1>10. ASSUME Send(r) PROVE Proceeds(r, {})
  <2>1. run[r].at # "idle" /\ run' = [run EXCEPT ![r].at = "waiting"] /\ "waiting" \in Applying
    BY <1>10 DEF Send, Applying
  <2> QED BY <1>3, <2>1
<1>11. ASSUME NoAnswer(r) PROVE Proceeds(r, {})
  <2>1. run[r].at \in Working /\ run[r].at # "idle" /\ Retry(r)
    BY <1>11 DEF NoAnswer, Working
  <2>2. CASE run' = settle(r, "failed")
    BY <1>4, <2>1, <2>2
  <2>3. CASE run' # settle(r, "failed")
    <3>1. run' = attempted(r, run[r].change, run[r].attempt + 1)
      BY <2>1, <2>3 DEF Retry
    <3> QED BY <2>1, <3>1, AttemptBegins, AttemptProceeds
  <2> QED BY <2>2, <2>3
<1>12. ASSUME End(r) PROVE Proceeds(r, {})
  <2>1. run[r].at # "idle" /\ run' = [run EXCEPT ![r].at = "ended"] /\ "ended" \in Applying
    BY <1>12 DEF End, Applying
  <2> QED BY <1>3, <2>1
<1>13. Proceeds(r, {})
  BY <1>5, <1>6, <1>7, <1>8, <1>9, <1>10, <1>11, <1>12, <1>14 DEF Steps
<1> QED BY <1>2, <1>13, StandingStill

\* The answer to a request that Stripe has executed, then or before.
LEMMA AnswerWrites ==
    ASSUME CatalogInv, NEW m \in network, NEW result, Answer(m, result),
           landed' \in [Runs \X Change -> Nat], LandedInv, LandedInv', RepliesInv',
           SucceededInv, \A r \in Runs, c \in Change :
                            landed[<<r, c>>] = 1 => landed'[<<r, c>>] = 1,
           \A r \in Runs : run[r].at \in Applying =>
              run'[r].at \in Applying /\ \A c : keyOf(r, c)' = keyOf(r, c),
           result = "succeeded" => Answered(m.run, m.change)'
    PROVE  WriteInv'
<1>1. ASSUME NEW r \in Runs, run'[r].at # "idle", NEW c \in DOMAIN run'[r].results,
             run'[r].results[c] = "succeeded"
      PROVE  c \in Change /\ run'[r].at \in Applying /\ Answered(r, c)'
  <2>1. ASSUME run[r].at # "idle", c \in Succeeded(r)
        PROVE  c \in Change /\ run'[r].at \in Applying /\ Answered(r, c)'
    <3>1. c \in Change /\ run[r].at \in Applying /\ Answered(r, c)
      BY <2>1 DEF SucceededInv
    <3> QED BY <3>1, AnsweredStays
  <2>2. CASE UNCHANGED run
    BY <1>1, <2>1, <2>2 DEF Succeeded
  <2>3. CASE Awaits(m) /\ run' = settle(m.run, result)
    <3>1. m.run \in Runs /\ m.change \in Change /\ run[m.run].at \in Applying
      BY DEF CatalogInv, NetInv, MessageOK
    <3>2. /\ SettlesWith(m.run, result)
          /\ \A q \in Runs \ {m.run} : run'[q] = run[q]
      BY <2>3, <3>1, SettleGoes DEF Applying
    <3>3. m.change = run[m.run].change
      <4>1. request(m.run, m.id) = m
        BY <2>3 DEF Awaits
      <4>2. request(m.run, m.id).change = run[m.run].change
        BY DEF request
      <4> QED BY <4>1, <4>2
    <3>4. CASE r # m.run
      BY <1>1, <2>1, <3>2, <3>4 DEF Succeeded
    <3>5. CASE r = m.run /\ c = m.change
      <4>1. c \in DOMAIN run[r].results
        BY <1>1, <3>2, <3>5 DEF SettlesWith
      <4>2. run'[r].results[c] = result
        BY <3>2, <3>3, <3>5, <4>1 DEF SettlesWith
      <4> QED BY <1>1, <3>1, <3>5, <4>2
    <3>6. CASE r = m.run /\ c # m.change
      <4>1. c \in DOMAIN run[r].results /\ run'[r].results[c] = run[r].results[c]
        BY <1>1, <3>2, <3>3, <3>6 DEF SettlesWith
      <4> QED BY <1>1, <2>1, <3>1, <3>6, <4>1 DEF Succeeded, Applying
    <3> QED BY <3>4, <3>5, <3>6
  <2> QED BY <2>2, <2>3 DEF Answer
<1>2. SucceededInv'
  BY <1>1 DEF SucceededInv, Succeeded
<1> QED BY <1>2 DEF WriteInv

\* Everyone goes on with what he has seen.
LEMMA AnswerLeavesKeys ==
    ASSUME CatalogInv, NEW m \in network, NEW result, Answer(m, result),
           NEW r \in Runs, run[r].at \in Applying
    PROVE  /\ run'[r].at \in Applying
           /\ \A c : keyOf(r, c)' = keyOf(r, c) /\ actionOf(r, c)' = actionOf(r, c)
<1>1. run'[r].at \in Applying /\ run'[r].seen = run[r].seen
  <2>1. CASE UNCHANGED run
    BY <2>1
  <2>2. CASE Awaits(m) /\ run' = settle(m.run, result)
    <3>1. m.run \in Runs /\ run[m.run].at # "idle"
      BY <2>2 DEF Awaits, CatalogInv, NetInv, MessageOK
    <3>2. /\ SettlesWith(m.run, result)
          /\ \A q \in Runs \ {m.run} : run'[q] = run[q]
      BY <2>2, <3>1, SettleGoes
    <3> QED BY <3>2 DEF SettlesWith, Applying
  <2> QED BY <2>1, <2>2 DEF Answer
<1> QED BY <1>1, ActionStays

LEMMA ExecuteWrites ==
    ASSUME CatalogInv, WriteInv, NEW m \in network, Execute(m) PROVE WriteInv'
<1> DEFINE at == <<m.run, m.change>>
<1>1. /\ m.run \in Runs /\ m.change \in Change /\ run[m.run].at \in Applying
      /\ m.key = keyOf(m.run, m.change) /\ actionOf(m.run, m.change) \in Writes
  BY DEF CatalogInv, NetInv, MessageOK
<1>2. /\ m.key \notin replies /\ replies' = replies \cup {m.key}
      /\ landed' = [landed EXCEPT ![<<m.run, m.change>>] = @ + 1]
      /\ Answer(m, "succeeded")
  BY DEF Execute
<1>3. landed[at] = 0
  BY <1>1, <1>2 DEF WriteInv, LandedInv, LandedOK
<1>4. /\ landed' \in [Runs \X Change -> Nat]
      /\ landed'[at] = 1
      /\ \A p \in Runs \X Change : p # at => landed'[p] = landed[p]
  <2>1. at \in Runs \X Change
    BY <1>1
  <2> QED BY <1>2, <1>3, <2>1 DEF WriteInv
<1> HIDE DEF at
<1>5. \A r \in Runs : run[r].at \in Applying =>
        /\ run'[r].at \in Applying
        /\ \A c : keyOf(r, c)' = keyOf(r, c) /\ actionOf(r, c)' = actionOf(r, c)
  BY <1>2, AnswerLeavesKeys
<1>6. \A r \in Runs, c \in Change :
        \/ r = m.run /\ c = m.change
        \/ landed'[<<r, c>>] = landed[<<r, c>>]
  BY <1>4 DEF at
<1>7. ASSUME NEW r \in Runs, NEW c \in Change PROVE LandedOK(r, c)'
  <2>1. CASE r = m.run /\ c = m.change
    BY <1>1, <1>2, <1>4, <1>5, <2>1 DEF LandedOK, at
  <2>2. CASE landed'[<<r, c>>] = landed[<<r, c>>]
    BY <1>2, <1>5, <2>2 DEF WriteInv, LandedInv, LandedOK
  <2> QED BY <1>6, <2>1, <2>2
<1>8. ASSUME NEW q \in Runs, q # m.run, landed'[<<q, m.change>>] # 0
      PROVE  keyOf(q, m.change)' # keyOf(m.run, m.change)'
  <2>1. landed[<<q, m.change>>] # 0
    BY <1>1, <1>6, <1>8
  <2>2. run[q].at \in Applying /\ keyOf(q, m.change) \in replies
    BY <1>1, <2>1 DEF WriteInv, LandedInv, LandedOK
  <2> QED BY <1>1, <1>2, <1>5, <2>2
<1>9. ASSUME NEW r \in Runs, NEW c \in Change, NEW q \in Runs PROVE OneEach(q, r, c)'
  <2>1. CASE c = m.change /\ (q = m.run \/ r = m.run)
    BY <1>8, <2>1 DEF OneEach
  <2>2. CASE ~(c = m.change /\ (q = m.run \/ r = m.run))
    <3>1. landed'[<<r, c>>] = landed[<<r, c>>] /\ landed'[<<q, c>>] = landed[<<q, c>>]
      BY <1>6, <2>2
    <3>2. OneEach(q, r, c) /\ LandedOK(q, c) /\ LandedOK(r, c)
      BY DEF WriteInv, LandedInv
    <3> QED BY <1>5, <3>1, <3>2 DEF OneEach, LandedOK
  <2> QED BY <2>1, <2>2
<1>10. LandedInv'
  BY <1>7, <1>9 DEF LandedInv
<1>11. RepliesInv'
  <2> SUFFICES ASSUME NEW k \in replies'
               PROVE  \E r \in Runs, c \in Change :
                         k = keyOf(r, c)' /\ landed'[<<r, c>>] = 1 /\ run'[r].at \in Applying
    BY DEF RepliesInv
  <2>1. CASE k = m.key
    <3>1. landed'[<<m.run, m.change>>] = 1
      BY <1>4 DEF at
    <3>2. k = keyOf(m.run, m.change)' /\ run'[m.run].at \in Applying
      BY <1>1, <1>5, <2>1
    <3> QED BY <1>1, <3>1, <3>2
  <2>2. CASE k \in replies
    <3>1. PICK r \in Runs, c \in Change :
            k = keyOf(r, c) /\ landed[<<r, c>>] = 1 /\ run[r].at \in Applying
      BY <2>2 DEF WriteInv, RepliesInv
    <3>2. landed'[<<r, c>>] = 1
      BY <1>3, <1>6, <3>1 DEF at
    <3> QED BY <1>5, <3>1, <3>2
  <2> QED BY <1>2, <2>1, <2>2
<1>12. \A r \in Runs, c \in Change : landed[<<r, c>>] = 1 => landed'[<<r, c>>] = 1
  BY <1>3, <1>6 DEF at
<1>13. Answered(m.run, m.change)'
  BY <1>1, <1>4 DEF Answered, at
<1>14. \A r \in Runs : run[r].at \in Applying =>
         run'[r].at \in Applying /\ \A c : keyOf(r, c)' = keyOf(r, c)
  BY <1>5
<1> QED BY <1>2, <1>4, <1>10, <1>11, <1>12, <1>13, <1>14, AnswerWrites DEF WriteInv

\* What leaves the network without being executed.
LEMMA OthersWrite ==
    ASSUME CatalogInv, WriteInv, NEW m \in network, NEW result, Answer(m, result),
           UNCHANGED <<replies, landed>>,
           result = "succeeded" => Answered(m.run, m.change)
    PROVE  WriteInv'
<1>1. \A r \in Runs : run[r].at \in Applying =>
        /\ run'[r].at \in Applying
        /\ \A c : keyOf(r, c)' = keyOf(r, c) /\ actionOf(r, c)' = actionOf(r, c)
  BY AnswerLeavesKeys
<1>2. LandedInv'
  BY <1>1, LandedStays DEF WriteInv
<1>3. RepliesInv'
  BY <1>1 DEF WriteInv, RepliesInv
<1>4. m.run \in Runs /\ m.change \in Change /\ run[m.run].at \in Applying
  BY DEF CatalogInv, NetInv, MessageOK
<1>5. result = "succeeded" => Answered(m.run, m.change)'
  BY <1>1, <1>4, AnsweredStays DEF WriteInv
<1>6. \A r \in Runs : run[r].at \in Applying =>
        run'[r].at \in Applying /\ \A c : keyOf(r, c)' = keyOf(r, c)
  BY <1>1
<1> QED BY <1>2, <1>3, <1>5, <1>6, AnswerWrites DEF WriteInv

LEMMA ReplayedIsAnswered ==
    ASSUME CatalogInv, WriteInv, NEW m \in network, m.key \in replies
    PROVE  Answered(m.run, m.change)
<1>1. m.run \in Runs /\ m.key = keyOf(m.run, m.change)
  BY DEF CatalogInv, NetInv, MessageOK
<1>2. PICK q \in Runs, c \in Change : m.key = keyOf(q, c) /\ landed[<<q, c>>] = 1
  BY DEF WriteInv, RepliesInv
<1>3. m.change = c
  BY <1>1, <1>2 DEF keyOf
<1> QED BY <1>1, <1>2, <1>3 DEF Answered

LEMMA NextWrites ==
    ASSUME CatalogInv, WriteInv, [Next]_vars PROVE WriteInv'
<1>1. ASSUME NEW r \in Runs, Begin(r) \/ Steps(r) PROVE WriteInv'
  <2>1. UNCHANGED <<replies, landed>>
    BY <1>1 DEF Begin, Steps, ReadPage, ReadFails, Plan, Start, Take, LookUp, Send, NoAnswer, End
  <2> QED BY <1>1, <2>1, BeginProceeds, StepsProceed, QuietWrites
<1>2. ASSUME NEW m \in network, Execute(m) PROVE WriteInv'
  BY <1>2, ExecuteWrites
<1>3. ASSUME NEW m \in network, Replay(m) PROVE WriteInv'
  <2>1. /\ m.key \in replies /\ Answer(m, "succeeded")
        /\ UNCHANGED <<replies, landed>>
    BY <1>3 DEF Replay
  <2> QED BY <2>1, ReplayedIsAnswered, OthersWrite
<1>4. ASSUME NEW m \in network, Reject(m) PROVE WriteInv'
  <2>1. Answer(m, "failed") /\ UNCHANGED <<replies, landed>> /\ "failed" # "succeeded"
    BY <1>4 DEF Reject
  <2> QED BY <2>1, OthersWrite
<1>5. ASSUME NEW m \in network, Lose(m) PROVE WriteInv'
  <2>1. Answer(m, "failed") /\ UNCHANGED <<replies, landed>> /\ "failed" # "succeeded"
    BY <1>5 DEF Lose, Answer
  <2> QED BY <2>1, OthersWrite
<1>6. CASE UNCHANGED vars
  <2>1. UNCHANGED <<replies, landed>> /\ \A r \in Runs : run'[r] = run[r]
    BY <1>6 DEF vars
  <2> QED BY <2>1, StandingStill, QuietWrites
<1> QED BY <1>1, <1>2, <1>3, <1>4, <1>5, <1>6 DEF Next, Done

LEMMA InitWrites == Init => WriteInv
BY DEF Init, Idle, WriteInv, LandedInv, LandedOK, OneEach, RepliesInv, SucceededInv

\* Two runs send a change under one key when their keys for it are the same.
LEMMA SameKeys ==
    ASSUME NEW q, NEW r, NEW c PROVE sameRequest(q, r, c) <=> keyOf(q, c) = keyOf(r, c)
BY DEF sameRequest, keyOf

\* Whatever is lost, late or sent again, and whoever shares an Idempotency-Key,
\* Stripe makes one write under a key, and a change that a run calls succeeded is
\* the one write under its key (requestKey, applyChange).
THEOREM SuccessIsOneWriteAlways == Spec => []SuccessIsOneWrite
<1>1. Init => WriteInv
  BY InitWrites
<1>2. CatalogInv /\ WriteInv /\ [Next]_vars => WriteInv'
  BY NextWrites
<1>3. WriteInv => SuccessIsOneWrite
  <2> SUFFICES ASSUME WriteInv, NEW r \in Runs, NEW c \in Change
               PROVE  /\ landed[<<r, c>>] <= 1
                      /\ \A q \in Runs :
                           landed[<<q, c>>] > 0 /\ landed[<<r, c>>] > 0 /\ sameRequest(q, r, c)
                             => q = r
                      /\ run[r].at # "idle" /\ c \in Succeeded(r) =>
                           \E q \in Runs : landed[<<q, c>>] = 1 /\ sameRequest(q, r, c)
    BY DEF SuccessIsOneWrite, Succeeded
  <2>1. landed[<<r, c>>] <= 1
    BY DEF WriteInv, LandedInv, LandedOK
  <2>2. ASSUME NEW q \in Runs, landed[<<q, c>>] > 0, landed[<<r, c>>] > 0, sameRequest(q, r, c)
        PROVE  q = r
    <3>1. OneEach(q, r, c)
      BY DEF WriteInv, LandedInv
    <3> QED BY <2>2, <3>1, SameKeys DEF OneEach
  <2>3. ASSUME run[r].at # "idle", c \in Succeeded(r)
        PROVE  \E q \in Runs : landed[<<q, c>>] = 1 /\ sameRequest(q, r, c)
    <3>1. Answered(r, c)
      BY <2>3 DEF WriteInv, SucceededInv
    <3> QED BY <3>1, SameKeys DEF Answered
  <2> QED BY <2>1, <2>2, <2>3
<1> QED BY <1>1, <1>2, <1>3, CatalogAlways, PTL DEF Spec

-----------------------------------------------------------------------------
(***************************************************************************)
(* Inspection                                                              *)
(***************************************************************************)
\* The place of i among the ids.
rank(ids, i) == Cardinality({j \in ids : j <= i})

LEMMA RanksGrow ==
    ASSUME NEW ids, ids \subseteq Nat, NEW i \in ids, NEW j \in ids, i < j
    PROVE  rank(ids, i) \in Nat /\ rank(ids, j) \in Nat /\ rank(ids, i) < rank(ids, j)
<1> DEFINE low == {k \in ids : k <= i}
           all == {k \in ids : k <= j}
<1>1. IsFiniteSet(all)
  <2>1. all \in SUBSET Nat /\ j \in Nat /\ \A k \in all : k <= j
    OBVIOUS
  <2> HIDE DEF all
  <2> QED BY <2>1, FS_BoundedSetOfNaturals
<1>2. low \in SUBSET all /\ j \in all /\ j \notin low
  <2>1. i \in Nat /\ j \in Nat /\ \A k \in ids : k \in Nat
    OBVIOUS
  <2>2. \A k \in ids : k <= i => k <= j
    BY <2>1
  <2>3. ~(j <= i) /\ j <= j
    BY <2>1
  <2> QED BY <2>2, <2>3
<1> HIDE DEF low, all
<1>3. /\ IsFiniteSet(low) /\ Cardinality(low) <= Cardinality(all)
      /\ Cardinality(low) # Cardinality(all)
  BY <1>1, <1>2, FS_Subset
<1>4. Cardinality(low) \in Nat /\ Cardinality(all) \in Nat
  BY <1>1, <1>3, FS_CardinalityType
<1> QED BY <1>3, <1>4 DEF rank, low, all

\* A page has everything between its cursor and any of its ids.
LEMMA PageIsWhole ==
    ASSUME NEW ids, ids \subseteq Nat, NEW cursor, NEW c \in page(ids, cursor),
           NEW i \in later(ids, cursor), i <= c
    PROVE  i \in page(ids, cursor)
<1>1. /\ page(ids, cursor) \subseteq later(ids, cursor) /\ later(ids, cursor) \subseteq Nat
      /\ rank(later(ids, cursor), c) <= PageSize
  BY DEF page, later, rank
<1>2. CASE i = c
  BY <1>2
<1>3. CASE i < c
  <2>1. /\ rank(later(ids, cursor), i) \in Nat /\ rank(later(ids, cursor), c) \in Nat
        /\ rank(later(ids, cursor), i) < rank(later(ids, cursor), c)
    BY <1>1, <1>3, RanksGrow
  <2>2. rank(later(ids, cursor), i) <= PageSize
    BY <1>1, <2>1, StripeAssumption
  <2> QED BY <2>2 DEF page, rank
<1> QED BY <1>1, <1>2, <1>3

\* A page that is not the last has a last id.
LEMMA PageHasALast ==
    ASSUME NEW ids, ids \subseteq Nat, NEW cursor, hasMore(ids, cursor)
    PROVE  \E c \in page(ids, cursor) : \A j \in page(ids, cursor) : j <= c
<1> DEFINE rest  == later(ids, cursor)
           these == page(ids, cursor)
           left(i) == PageSize - rank(rest, i)
           lefts == {left(i) : i \in these}
<1>1. these \subseteq rest /\ rest \subseteq Nat /\ rest # {}
  BY DEF hasMore, page, later
<1>2. \A i \in these : rank(rest, i) \in Nat /\ rank(rest, i) <= PageSize
  <2> SUFFICES ASSUME NEW i \in these PROVE rank(rest, i) \in Nat /\ rank(rest, i) <= PageSize
    OBVIOUS
  <2>1. rank(rest, i) <= PageSize
    BY DEF page, rank
  <2>2. {j \in rest : j <= i} \in SUBSET Nat /\ i \in Nat
    BY <1>1
  <2>3. IsFiniteSet({j \in rest : j <= i})
    BY <2>2, FS_BoundedSetOfNaturals
  <2> QED BY <2>1, <2>3, FS_CardinalityType DEF rank
<1>3. these # {}
  <2>1. PICK i \in rest : \A j \in rest : i <= j
    BY <1>1, LeastOfSome
  <2>2. {j \in rest : j <= i} = {i}
    BY <1>1, <2>1
  <2>3. rank(rest, i) = 1
    BY <2>2, FS_Singleton DEF rank
  <2>4. i \in these
    BY <2>1, <2>3, StripeAssumption DEF page, rank
  <2> QED BY <2>4
<1>4. lefts \subseteq Nat /\ lefts # {}
  BY <1>2, <1>3, StripeAssumption
<1>5. PICK least \in lefts : \A n \in lefts : least <= n
  BY <1>4, LeastOfSome
<1>6. PICK c \in these : least = left(c)
  BY <1>5
<1>7. \A j \in these : ~(c < j)
  <2> SUFFICES ASSUME NEW j \in these, c < j PROVE FALSE
    OBVIOUS
  <2>1. rank(rest, c) < rank(rest, j)
    BY <1>1, <1>6, RanksGrow
  <2>2. left(c) <= left(j)
    BY <1>5, <1>6
  <2> QED BY <1>2, <1>6, <2>1, <2>2, StripeAssumption
<1>8. \A j \in these : j <= c
  BY <1>1, <1>7
<1> QED BY <1>8

\* Reading a page: what was there is read up to the end of the page, or to the end
\* of the list.
LEMMA PageGoesOn ==
    ASSUME NEW ids, ids \subseteq Nat, NEW cursor \in Nat, NEW there, there \subseteq ids,
           NEW seen, NEW more, \A i \in there : i <= cursor => i \in seen,
           there \cap page(ids, cursor) \subseteq more,
           NEW c, hasMore(ids, cursor) => c \in page(ids, cursor)
    PROVE  /\ hasMore(ids, cursor) =>
                c \in Nat /\ \A i \in there : i <= c => i \in seen \cup more
           /\ ~hasMore(ids, cursor) => there \subseteq seen \cup more
<1>1. \A i \in there : i \in seen \/ i \in later(ids, cursor)
  BY DEF later
<1>2. ASSUME ~hasMore(ids, cursor) PROVE there \subseteq seen \cup more
  BY <1>1, <1>2 DEF hasMore
<1>3. ASSUME hasMore(ids, cursor)
      PROVE  c \in Nat /\ \A i \in there : i <= c => i \in seen \cup more
  <2>1. c \in page(ids, cursor)
    BY <1>3
  <2>2. c \in Nat
    BY <2>1 DEF page, later
  <2>3. ASSUME NEW i \in there, i <= c PROVE i \in seen \cup more
    <3>1. CASE i \in later(ids, cursor)
      BY <2>1, <2>3, <3>1, PageIsWhole
    <3> QED BY <1>1, <3>1
  <2> QED BY <2>2, <2>3
<1> QED BY <1>2, <1>3

Inspecting == {"products", "prices", "inspected"}

\* What was there when r began is there, and is read where r has read.
IsThere(r, list, objects) ==
    \A i \in DOMAIN run[r].there[list] : i \in DOMAIN objects /\ objects[i].owner = OwnerOf[r]

ReadSoFar(r, list) ==
    /\ run[r].cursor \in Nat
    /\ \A i \in DOMAIN run[r].there[list] :
         i <= run[r].cursor => i \in DOMAIN run[r].seen[list]

ReadAll(r, list) == DOMAIN run[r].there[list] \subseteq DOMAIN run[r].seen[list]

InspectOK(r) ==
    run[r].at \in Inspecting =>
        /\ IsThere(r, "products", products) /\ IsThere(r, "prices", prices)
        /\ run[r].at = "products" => ReadSoFar(r, "products")
        /\ run[r].at = "prices" => ReadAll(r, "products") /\ ReadSoFar(r, "prices")
        /\ run[r].at = "inspected" =>
             ReadAll(r, "products") /\ ReadAll(r, "prices") /\ run[r].cursor = 0

InspectInv == \A r \in Runs : InspectOK(r)

\* A run stands still or is not inspecting any more.
Passes(r) == run'[r] = run[r] \/ run'[r].at \notin Inspecting

LEMMA PassingKeeps ==
    ASSUME NEW r \in Runs, InspectOK(r), OwnersStay, Passes(r) PROVE InspectOK(r)'
<1>1. CASE run'[r] = run[r]
  BY <1>1 DEF InspectOK, IsThere, ReadSoFar, ReadAll, OwnersStay
<1>2. CASE run'[r].at \notin Inspecting
  BY <1>2 DEF InspectOK
<1> QED BY <1>1, <1>2 DEF Passes

LEMMA AnswersPass ==
    ASSUME CatalogInv, NEW m \in network, NEW result, Answer(m, result)
    PROVE  \A r \in Runs : Passes(r)
<1>1. CASE UNCHANGED run
  BY <1>1 DEF Passes
<1>2. CASE Awaits(m) /\ run' = settle(m.run, result)
  <2>1. m.run \in Runs /\ run[m.run].at # "idle"
    BY <1>2 DEF Awaits, CatalogInv, NetInv, MessageOK
  <2>2. /\ SettlesWith(m.run, result)
        /\ \A q \in Runs \ {m.run} : run'[q] = run[q]
    BY <1>2, <2>1, SettleGoes
  <2> QED BY <2>2 DEF SettlesWith, Passes, Inspecting
<1> QED BY <1>1, <1>2 DEF Answer

LEMMA OtherStepsPass ==
    ASSUME CatalogInv, NEW r \in Runs,
           \/ ReadFails(r) \/ Start(r) \/ \E c \in Change : Take(r, c)
           \/ LookUp(r) \/ Send(r) \/ NoAnswer(r) \/ End(r)
    PROVE  \A q \in Runs : Passes(q)
<1> DEFINE past == run'[r].at \notin Inspecting /\ \A q \in Runs \ {r} : run'[q] = run[q]
<1>1. DOMAIN run = Runs /\ (run[r].at # "idle" => DOMAIN run[r] = Fields)
  BY DEF CatalogInv, RunsInv, RunOK
<1>2. ASSUME ReadFails(r) \/ Send(r) \/ End(r) PROVE past
  BY <1>1, <1>2 DEF ReadFails, Send, End, Fields, Inspecting
<1>3. ASSUME Start(r) PROVE past
  BY <1>1, <1>3 DEF Start, Fields, Inspecting
<1>4. ASSUME NEW c \in Change, Take(r, c) PROVE past
  <2>1. run[r].at = "apply"
    BY <1>4 DEF Take
  <2>2. CASE run' = attempted(r, c, 1)
    BY <2>1, <2>2, AttemptBegins DEF Attempts, Inspecting
  <2>3. CASE run' = [run EXCEPT ![r].results[c] = "unmet"]
    BY <1>1, <2>1, <2>3 DEF Fields, Inspecting
  <2> QED BY <1>4, <2>2, <2>3 DEF Take
<1>5. ASSUME NEW result, run[r].at # "idle", run' = settle(r, result) PROVE past
  BY <1>1, <1>5 DEF settle, Fields, Inspecting
<1>6. ASSUME LookUp(r) PROVE past
  <2>1. run[r].at # "idle"
    BY <1>6 DEF LookUp
  <2>2. CASE run' = settle(r, "failed")
    BY <1>5, <2>1, <2>2
  <2>3. CASE Finds(r)
    BY <1>1, <2>1, <2>3 DEF Finds, Fields, Inspecting
  <2>4. CASE LooksOn(r)
    <3>1. run[r].at = "lookup"
      BY <1>6 DEF LookUp
    <3> QED BY <1>1, <2>4, <3>1 DEF LooksOn, Fields, Inspecting
  <2> QED BY <1>6, <2>2, <2>3, <2>4, LookUpCases
<1>7. ASSUME NoAnswer(r) PROVE past
  <2>1. run[r].at # "idle" /\ Retry(r)
    BY <1>7 DEF NoAnswer
  <2>2. CASE run' = settle(r, "failed")
    BY <1>5, <2>1, <2>2
  <2>3. CASE run' # settle(r, "failed")
    <3>1. run' = attempted(r, run[r].change, run[r].attempt + 1)
      BY <2>1, <2>3 DEF Retry
    <3> QED BY <2>1, <3>1, AttemptBegins DEF Attempts, Inspecting
  <2> QED BY <2>2, <2>3
<1> HIDE DEF past
<1>8. past
  BY <1>2, <1>3, <1>4, <1>6, <1>7
<1> QED BY <1>8 DEF past, Passes

LEMMA NothingReadYet ==
    ASSUME CatalogInv, NEW r \in Runs, run'[r].at = "products", run'[r].cursor = 0,
           run'[r].there = inspection(r), UNCHANGED <<products, prices>>
    PROVE  InspectOK(r)'
<1>1. /\ DOMAIN inspection(r).products = owned(products, OwnerOf[r])
      /\ DOMAIN inspection(r).prices = owned(prices, OwnerOf[r])
  BY DEF inspection, keep
<1>2. IsThere(r, "products", products)' /\ IsThere(r, "prices", prices)'
  BY <1>1 DEF IsThere, owned
<1>3. \A i \in DOMAIN inspection(r).products : ~(i <= 0)
  <2>1. \A i \in owned(products, OwnerOf[r]) : i \in Nat \ {0}
    BY StripeAssumption DEF owned, CatalogInv, AccountInv
  <2>2. \A i \in Nat \ {0} : ~(i <= 0)
    OBVIOUS
  <2> QED BY <1>1, <2>1, <2>2
<1>4. ReadSoFar(r, "products")'
  BY <1>3 DEF ReadSoFar
<1> QED BY <1>2, <1>4 DEF InspectOK

\* The cursor is where the last reading left it when a plan is made: at the start.
LEMMA PlanInspects ==
    ASSUME CatalogInv, NEW r \in Runs, InspectOK(r), Plan(r) PROVE InspectOK(r)'
<1>1. /\ DOMAIN run = Runs /\ DOMAIN run[r] = Fields /\ run[r].at = "inspected"
      /\ run[r].cursor = 0 /\ UNCHANGED <<products, prices>>
  BY DEF CatalogInv, RunsInv, RunOK, Plan, InspectOK, Inspecting
<1>2. CASE run' = [run EXCEPT ![r].at = "failed"]
  BY <1>1, <1>2 DEF Fields, InspectOK, Inspecting
<1>3. CASE run' # [run EXCEPT ![r].at = "failed"]
  <2>1. run'[r].at = "products" /\ run'[r].cursor = 0 /\ run'[r].there = inspection(r)
    BY <1>1, <1>3 DEF Plan, Fields
  <2> QED BY <1>1, <2>1, NothingReadYet
<1> QED BY <1>2, <1>3

LEMMA BeginInspects ==
    ASSUME CatalogInv, NEW r \in Runs, Begin(r) PROVE InspectOK(r)'
<1>1. DOMAIN run = Runs /\ UNCHANGED <<products, prices>>
  BY DEF CatalogInv, RunsInv, Begin
<1>2. run'[r].at = "products" /\ run'[r].cursor = 0 /\ run'[r].there = inspection(r)
  BY <1>1 DEF Begin
<1> QED BY <1>1, <1>2, NothingReadYet

\* Once r has read a page of products.
LEMMA ProductsAreRead ==
    ASSUME CatalogInv, NEW r \in Runs, InspectOK(r), ReadPage(r, "products", products)
    PROVE  InspectOK(r)' /\ \A q \in Runs \ {r} : run'[q] = run[q]
<1> DEFINE ids  == page(DOMAIN products, run[r].cursor)
           more == hasMore(DOMAIN products, run[r].cursor)
           next == afterPage("products", more, run[r].pages + 1)
           end  == last(ids)
           got  == ids \cap owned(products, OwnerOf[r])
           read == with(run[r].seen.products, products, got)
<1>1. /\ DOMAIN run = Runs /\ run[r].at = "products"
      /\ DOMAIN run[r] = Fields /\ DOMAIN run[r].seen = {"products", "prices"}
      /\ UNCHANGED <<products, prices>>
  BY DEF CatalogInv, RunsInv, RunOK, ReadPage
<1>2. /\ IsThere(r, "products", products) /\ IsThere(r, "prices", prices)
      /\ ReadSoFar(r, "products")
  BY <1>1 DEF InspectOK, Inspecting
<1>3. /\ hasMore(DOMAIN products, run[r].cursor) =>
            /\ end \in Nat
            /\ \A i \in DOMAIN run[r].there.products :
                 i <= end => i \in DOMAIN run[r].seen.products \cup got
      /\ ~hasMore(DOMAIN products, run[r].cursor) =>
            DOMAIN run[r].there.products \subseteq DOMAIN run[r].seen.products \cup got
  <2>1. DOMAIN products \subseteq Nat
    BY StripeAssumption DEF CatalogInv, AccountInv
  <2>2. DOMAIN run[r].there.products \subseteq owned(products, OwnerOf[r])
    BY <1>2 DEF IsThere, owned
  <2>3. DOMAIN run[r].there.products \subseteq DOMAIN products
    BY <2>2 DEF owned
  <2>4. DOMAIN run[r].there.products \cap ids \subseteq got
    BY <2>2
  <2>5. /\ run[r].cursor \in Nat
        /\ \A i \in DOMAIN run[r].there.products :
             i <= run[r].cursor => i \in DOMAIN run[r].seen.products
    BY <1>2 DEF ReadSoFar
  <2> DEFINE objects == DOMAIN products
             there   == DOMAIN run[r].there.products
             seen    == DOMAIN run[r].seen.products
             cursor  == run[r].cursor
  <2>6. hasMore(objects, cursor) => end \in page(objects, cursor)
    BY <2>1, PageHasALast DEF last
  <2>7. /\ objects \subseteq Nat /\ cursor \in Nat /\ there \subseteq objects
        /\ \A i \in there : i <= cursor => i \in seen
        /\ there \cap page(objects, cursor) \subseteq got
    BY <2>1, <2>3, <2>4, <2>5
  <2> HIDE DEF end, got, objects, there, seen, cursor
  <2>8. /\ hasMore(objects, cursor) =>
              end \in Nat /\ \A i \in there : i <= end => i \in seen \cup got
        /\ ~hasMore(objects, cursor) => there \subseteq seen \cup got
    BY <2>6, <2>7, PageGoesOn
  <2> QED BY <2>8 DEF objects, there, seen, cursor
<1>4. DOMAIN read = DOMAIN run[r].seen.products \cup got
  BY DEF with
<1>5. run' = [run EXCEPT
           ![r].at = next,
           ![r].cursor = IF next = "products" THEN end ELSE 0,
           ![r].pages = IF next = "products" THEN @ + 1 ELSE 0,
           ![r].seen["products"] = read]
  BY DEF ReadPage
<1>6. next = IF more THEN IF run[r].pages + 1 = MaxPages THEN "failed" ELSE "products"
             ELSE "prices"
  BY DEF afterPage
<1> HIDE DEF next, read, end, got, more
<1>7. /\ \A q \in Runs \ {r} : run'[q] = run[q]
      /\ run'[r].at = next /\ run'[r].there = run[r].there
      /\ run'[r].cursor = IF next = "products" THEN end ELSE 0
      /\ run'[r].seen = [run[r].seen EXCEPT !["products"] = read]
  BY <1>1, <1>5 DEF Fields
<1>8. run'[r].seen.products = read
  BY <1>1, <1>7
<1>9. IsThere(r, "products", products)' /\ IsThere(r, "prices", prices)'
  BY <1>1, <1>2, <1>7 DEF IsThere
<1>10. CASE next = "products"
  <2>1. more
    BY <1>6, <1>10
  <2>2. ReadSoFar(r, "products")'
    BY <1>3, <1>4, <1>7, <1>8, <1>10, <2>1 DEF ReadSoFar, more
  <2> QED BY <1>7, <1>9, <1>10, <2>2 DEF InspectOK
<1>11. CASE next = "prices"
  <2>1. ~more
    BY <1>6, <1>11
  <2>2. ReadAll(r, "products")'
    BY <1>3, <1>4, <1>7, <1>8, <2>1 DEF ReadAll, more
  <2>3. ReadSoFar(r, "prices")'
    <3>1. \A i \in DOMAIN prices : ~(i <= 0)
      BY DEF CatalogInv, AccountInv
    <3> QED BY <1>2, <1>7, <1>11, <3>1 DEF ReadSoFar, IsThere
  <2> QED BY <1>7, <1>9, <1>11, <2>2, <2>3 DEF InspectOK
<1>12. CASE next = "failed"
  BY <1>7, <1>12 DEF InspectOK, Inspecting
<1> QED BY <1>6, <1>7, <1>10, <1>11, <1>12

\* And of prices.
LEMMA PricesAreRead ==
    ASSUME CatalogInv, NEW r \in Runs, InspectOK(r), ReadPage(r, "prices", prices)
    PROVE  InspectOK(r)' /\ \A q \in Runs \ {r} : run'[q] = run[q]
<1> DEFINE ids  == page(DOMAIN prices, run[r].cursor)
           more == hasMore(DOMAIN prices, run[r].cursor)
           next == afterPage("prices", more, run[r].pages + 1)
           end  == last(ids)
           got  == ids \cap owned(prices, OwnerOf[r])
           read == with(run[r].seen.prices, prices, got)
<1>1. /\ DOMAIN run = Runs /\ run[r].at = "prices"
      /\ DOMAIN run[r] = Fields /\ DOMAIN run[r].seen = {"products", "prices"}
      /\ UNCHANGED <<products, prices>>
  BY DEF CatalogInv, RunsInv, RunOK, ReadPage
<1>2. /\ IsThere(r, "products", products) /\ IsThere(r, "prices", prices)
      /\ ReadAll(r, "products") /\ ReadSoFar(r, "prices")
  BY <1>1 DEF InspectOK, Inspecting
<1>3. /\ hasMore(DOMAIN prices, run[r].cursor) =>
            /\ end \in Nat
            /\ \A i \in DOMAIN run[r].there.prices :
                 i <= end => i \in DOMAIN run[r].seen.prices \cup got
      /\ ~hasMore(DOMAIN prices, run[r].cursor) =>
            DOMAIN run[r].there.prices \subseteq DOMAIN run[r].seen.prices \cup got
  <2>1. DOMAIN prices \subseteq Nat
    BY DEF CatalogInv, AccountInv
  <2>2. DOMAIN run[r].there.prices \subseteq owned(prices, OwnerOf[r])
    BY <1>2 DEF IsThere, owned
  <2>3. DOMAIN run[r].there.prices \subseteq DOMAIN prices
    BY <2>2 DEF owned
  <2>4. DOMAIN run[r].there.prices \cap ids \subseteq got
    BY <2>2
  <2>5. /\ run[r].cursor \in Nat
        /\ \A i \in DOMAIN run[r].there.prices :
             i <= run[r].cursor => i \in DOMAIN run[r].seen.prices
    BY <1>2 DEF ReadSoFar
  <2> DEFINE objects == DOMAIN prices
             there   == DOMAIN run[r].there.prices
             seen    == DOMAIN run[r].seen.prices
             cursor  == run[r].cursor
  <2>6. hasMore(objects, cursor) => end \in page(objects, cursor)
    BY <2>1, PageHasALast DEF last
  <2>7. /\ objects \subseteq Nat /\ cursor \in Nat /\ there \subseteq objects
        /\ \A i \in there : i <= cursor => i \in seen
        /\ there \cap page(objects, cursor) \subseteq got
    BY <2>1, <2>3, <2>4, <2>5
  <2> HIDE DEF end, got, objects, there, seen, cursor
  <2>8. /\ hasMore(objects, cursor) =>
              end \in Nat /\ \A i \in there : i <= end => i \in seen \cup got
        /\ ~hasMore(objects, cursor) => there \subseteq seen \cup got
    BY <2>6, <2>7, PageGoesOn
  <2> QED BY <2>8 DEF objects, there, seen, cursor
<1>4. DOMAIN read = DOMAIN run[r].seen.prices \cup got
  BY DEF with
<1>5. run' = [run EXCEPT
           ![r].at = next,
           ![r].cursor = IF next = "prices" THEN end ELSE 0,
           ![r].pages = IF next = "prices" THEN @ + 1 ELSE 0,
           ![r].seen["prices"] = read]
  BY DEF ReadPage
<1>6. next = IF more THEN IF run[r].pages + 1 = MaxPages THEN "failed" ELSE "prices"
             ELSE "inspected"
  BY DEF afterPage
<1> HIDE DEF next, read, end, got, more
<1>7. /\ \A q \in Runs \ {r} : run'[q] = run[q]
      /\ run'[r].at = next /\ run'[r].there = run[r].there
      /\ run'[r].cursor = IF next = "prices" THEN end ELSE 0
      /\ run'[r].seen = [run[r].seen EXCEPT !["prices"] = read]
  BY <1>1, <1>5 DEF Fields
<1>8. run'[r].seen.prices = read /\ run'[r].seen.products = run[r].seen.products
  BY <1>1, <1>7
<1>9. IsThere(r, "products", products)' /\ IsThere(r, "prices", prices)'
  BY <1>1, <1>2, <1>7 DEF IsThere
<1>10. ReadAll(r, "products")'
  BY <1>2, <1>7, <1>8 DEF ReadAll
<1>11. CASE next = "prices"
  <2>1. more
    BY <1>6, <1>11
  <2>2. ReadSoFar(r, "prices")'
    BY <1>3, <1>4, <1>7, <1>8, <1>11, <2>1 DEF ReadSoFar, more
  <2> QED BY <1>7, <1>9, <1>10, <1>11, <2>2 DEF InspectOK
<1>12. CASE next = "inspected"
  <2>1. ~more
    BY <1>6, <1>12
  <2>2. ReadAll(r, "prices")'
    BY <1>3, <1>4, <1>7, <1>8, <2>1 DEF ReadAll, more
  <2> QED BY <1>7, <1>9, <1>10, <1>12, <2>2 DEF InspectOK
<1>13. CASE next = "failed"
  BY <1>7, <1>13 DEF InspectOK, Inspecting
<1> QED BY <1>6, <1>7, <1>11, <1>12, <1>13

LEMMA NextInspects ==
    ASSUME CatalogInv, InspectInv, [Next]_vars PROVE InspectInv'
<1>1. OwnersStay
  BY NextCatalog
<1>2. ASSUME \A r \in Runs : Passes(r) PROVE InspectInv'
  BY <1>1, <1>2, PassingKeeps DEF InspectInv
<1>3. ASSUME NEW r \in Runs, InspectOK(r)', \A q \in Runs \ {r} : run'[q] = run[q]
      PROVE  InspectInv'
  BY <1>1, <1>3, PassingKeeps DEF InspectInv, Passes
<1>4. ASSUME NEW r \in Runs, Begin(r) PROVE InspectInv'
  <2>1. \A q \in Runs \ {r} : run'[q] = run[q]
    BY <1>4 DEF Begin, CatalogInv, RunsInv
  <2> QED BY <1>3, <1>4, <2>1, BeginInspects
<1>5. ASSUME NEW r \in Runs, Steps(r) PROVE InspectInv'
  <2>1. CASE ReadPage(r, "products", products)
    BY <1>3, <2>1, ProductsAreRead DEF InspectInv
  <2>2. CASE ReadPage(r, "prices", prices)
    BY <1>3, <2>2, PricesAreRead DEF InspectInv
  <2>3. CASE Plan(r)
    <3>1. \A q \in Runs \ {r} : run'[q] = run[q]
      BY <2>3 DEF Plan, CatalogInv, RunsInv
    <3> QED BY <1>3, <2>3, <3>1, PlanInspects DEF InspectInv
  <2> QED BY <1>2, <1>5, <2>1, <2>2, <2>3, OtherStepsPass DEF Steps
<1>6. ASSUME NEW m \in network, Execute(m) \/ Replay(m) \/ Reject(m) \/ Lose(m)
      PROVE  InspectInv'
  <2>1. \E result : Answer(m, result)
    BY <1>6 DEF Execute, Replay, Reject, Lose, Answer
  <2> QED BY <1>2, <2>1, AnswersPass
<1>7. CASE UNCHANGED vars
  BY <1>2, <1>7 DEF vars, Passes
<1> QED BY <1>4, <1>5, <1>6, <1>7 DEF Next, Done

\* An inspection reports all that the document owned when it began, for any page
\* size and account, and whatever is created between two pages (inspect, #listAll).
THEOREM InspectionIsCompleteAlways == Spec => []InspectionIsComplete
<1>1. Init => InspectInv
  BY DEF Init, Idle, InspectInv, InspectOK, Inspecting
<1>2. CatalogInv /\ InspectInv /\ [Next]_vars => InspectInv'
  BY NextInspects
<1>3. InspectInv => InspectionIsComplete
  BY DEF InspectInv, InspectOK, Inspecting, ReadAll, InspectionIsComplete
<1> QED BY <1>1, <1>2, <1>3, CatalogAlways, PTL DEF Spec

-----------------------------------------------------------------------------
(***************************************************************************)
(* Who works for a document                                                *)
(***************************************************************************)
\* A run that has begun goes on and remembers who was before it; one that is over
\* rests.
Onward(r) ==
    /\ run[r].at = "idle" => run'[r] = run[r] \/ run'[r].before = over
    /\ run[r].at # "idle" => run'[r].at # "idle" /\ run'[r].before = run[r].before
    /\ run[r].at \in {"ended", "failed"} => run'[r] = run[r]

LEMMA RestingIsOnward == ASSUME NEW r, run'[r] = run[r] PROVE Onward(r)
BY DEF Onward

\* What a page changes in a run.
LEMMA ReadPageFacts ==
    ASSUME CatalogInv, NEW r \in Runs, NEW list \in {"products", "prices"}, NEW objects,
           ReadPage(r, list, objects)
    PROVE  /\ run[r].at = list /\ \A q \in Runs \ {r} : run'[q] = run[q]
           /\ run'[r].at \in {"products", "prices", "inspected", "failed"}
           /\ run'[r].pass = run[r].pass /\ run'[r].planned = run[r].planned
           /\ run'[r].there = run[r].there /\ run'[r].before = run[r].before
           /\ run'[r].seen = [run[r].seen EXCEPT ![list] =
                with(run[r].seen[list], objects,
                     page(DOMAIN objects, run[r].cursor) \cap owned(objects, OwnerOf[r]))]
<1> DEFINE ids  == page(DOMAIN objects, run[r].cursor)
           next == afterPage(list, hasMore(DOMAIN objects, run[r].cursor), run[r].pages + 1)
           end  == last(ids)
           read == with(run[r].seen[list], objects, ids \cap owned(objects, OwnerOf[r]))
<1>1. DOMAIN run = Runs /\ run[r].at = list /\ DOMAIN run[r] = Fields
  BY DEF CatalogInv, RunsInv, RunOK, ReadPage
<1>2. run' = [run EXCEPT
         ![r].at = next,
         ![r].cursor = IF next = list THEN end ELSE 0,
         ![r].pages = IF next = list THEN @ + 1 ELSE 0,
         ![r].seen[list] = read]
  BY DEF ReadPage
<1>3. next \in {"products", "prices", "inspected", "failed"}
  BY DEF afterPage
<1> HIDE DEF next, end, read
<1>4. /\ \A q \in Runs \ {r} : run'[q] = run[q]
      /\ run'[r].at = next
      /\ run'[r].pass = run[r].pass /\ run'[r].planned = run[r].planned
      /\ run'[r].there = run[r].there /\ run'[r].before = run[r].before
      /\ run'[r].seen = [run[r].seen EXCEPT ![list] = read]
  BY <1>1, <1>2 DEF Fields
<1> QED BY <1>1, <1>3, <1>4 DEF read, ids

LEMMA SettlingIsOnward ==
    ASSUME CatalogInv, NEW r \in Runs, run[r].at \in Working, NEW result,
           run' = settle(r, result)
    PROVE  \A q \in Runs : Onward(q)
<1>1. DOMAIN run = Runs /\ DOMAIN run[r] = Fields
  BY DEF CatalogInv, RunsInv, RunOK, Working
<1>2. /\ \A q \in Runs \ {r} : run'[q] = run[q]
      /\ run'[r].at = "apply" /\ run'[r].before = run[r].before
  BY <1>1 DEF settle, Fields
<1>3. Onward(r)
  BY <1>2 DEF Onward, Working
<1> QED BY <1>2, <1>3, RestingIsOnward

LEMMA StepsOnward ==
    ASSUME CatalogInv, NEW r \in Runs, Begin(r) \/ Steps(r) PROVE \A q \in Runs : Onward(q)
<1>1. DOMAIN run = Runs /\ (run[r].at # "idle" => DOMAIN run[r] = Fields)
  BY DEF CatalogInv, RunsInv, RunOK
<1>2. ASSUME run[r].at \notin {"idle", "ended", "failed"}, run'[r].at # "idle",
             run'[r].before = run[r].before, \A q \in Runs \ {r} : run'[q] = run[q]
      PROVE  \A q \in Runs : Onward(q)
  <2>1. Onward(r)
    BY <1>2 DEF Onward
  <2> QED BY <1>2, <2>1, RestingIsOnward
<1>3. CASE Begin(r)
  <2>1. /\ run[r].at = "idle" /\ run'[r].before = over
        /\ \A q \in Runs \ {r} : run'[q] = run[q]
    BY <1>1, <1>3 DEF Begin
  <2>2. Onward(r)
    BY <2>1 DEF Onward
  <2> QED BY <2>1, <2>2, RestingIsOnward
<1>4. CASE ReadPage(r, "products", products)
  BY <1>2, <1>4, ReadPageFacts
<1>5. CASE ReadPage(r, "prices", prices)
  BY <1>2, <1>5, ReadPageFacts
<1>6. ASSUME NEW to, to # "idle", run[r].at \notin {"idle", "ended", "failed"},
             run' = [run EXCEPT ![r].at = to]
      PROVE  \A q \in Runs : Onward(q)
  <2>1. /\ run'[r].at = to /\ run'[r].before = run[r].before
        /\ \A q \in Runs \ {r} : run'[q] = run[q]
    BY <1>1, <1>6 DEF Fields
  <2> QED BY <1>2, <1>6, <2>1
<1>7. CASE ReadFails(r) \/ Send(r) \/ End(r)
  BY <1>6, <1>7 DEF ReadFails, Send, End
<1>8. CASE Plan(r) \/ Start(r)
  <2>1. /\ run[r].at = "inspected" /\ run'[r].at # "idle" /\ run'[r].before = run[r].before
        /\ \A q \in Runs \ {r} : run'[q] = run[q]
    BY <1>1, <1>8 DEF Plan, Start, Fields
  <2> QED BY <1>2, <2>1
<1>9. ASSUME NEW c, NEW n, run[r].at \in Applying \ {"ended"}, run' = attempted(r, c, n)
      PROVE  \A q \in Runs : Onward(q)
  BY <1>2, <1>9, AttemptBegins DEF Attempts, Applying
<1>10. ASSUME NEW c \in Change, Take(r, c) PROVE \A q \in Runs : Onward(q)
  <2>1. run[r].at = "apply"
    BY <1>10 DEF Take
  <2>2. CASE run' = attempted(r, c, 1)
    BY <1>9, <2>1, <2>2 DEF Applying
  <2>3. CASE run' = [run EXCEPT ![r].results[c] = "unmet"]
    <3>1. /\ run'[r].at = "apply" /\ run'[r].before = run[r].before
          /\ \A q \in Runs \ {r} : run'[q] = run[q]
      BY <1>1, <2>1, <2>3 DEF Fields
    <3> QED BY <1>2, <2>1, <3>1
  <2> QED BY <1>10, <2>2, <2>3 DEF Take
<1>11. CASE LookUp(r)
  <2>1. run[r].at = "lookup"
    BY <1>11 DEF LookUp
  <2>2. CASE LooksOn(r)
    <3>1. /\ run'[r].at = "lookup" /\ run'[r].before = run[r].before
          /\ \A q \in Runs \ {r} : run'[q] = run[q]
      BY <1>1, <2>1, <2>2 DEF LooksOn, Fields
    <3> QED BY <1>2, <2>1, <3>1
  <2>3. CASE run' = settle(r, "failed")
    BY <2>1, <2>3, SettlingIsOnward DEF Working
  <2>4. CASE Finds(r)
    BY <1>6, <2>1, <2>4 DEF Finds
  <2> QED BY <1>11, <2>2, <2>3, <2>4, LookUpCases
<1>12. CASE NoAnswer(r)
  <2>1. run[r].at \in Working /\ Retry(r)
    BY <1>12 DEF NoAnswer, Working
  <2>2. CASE run' = settle(r, "failed")
    BY <2>1, <2>2, SettlingIsOnward
  <2>3. CASE run' # settle(r, "failed")
    <3>1. run' = attempted(r, run[r].change, run[r].attempt + 1)
      BY <2>1, <2>3 DEF Retry
    <3> QED BY <1>9, <2>1, <3>1 DEF Working, Applying
  <2> QED BY <2>2, <2>3
<1> QED BY <1>3, <1>4, <1>5, <1>7, <1>8, <1>10, <1>11, <1>12 DEF Steps

LEMMA NextOnward ==
    ASSUME CatalogInv, [Next]_vars PROVE \A q \in Runs : Onward(q)
<1>1. ASSUME NEW m \in network, NEW result, Answer(m, result) PROVE \A q \in Runs : Onward(q)
  <2>1. CASE UNCHANGED run
    BY <2>1, RestingIsOnward
  <2>2. CASE Awaits(m) /\ run' = settle(m.run, result)
    <3>1. m.run \in Runs /\ run[m.run].at \in Working
      BY <2>2 DEF Awaits, CatalogInv, NetInv, MessageOK, Working
    <3> QED BY <2>2, <3>1, SettlingIsOnward
  <2> QED BY <1>1, <2>1, <2>2 DEF Answer
<1>2. ASSUME NEW m \in network, Execute(m) \/ Replay(m) \/ Reject(m) \/ Lose(m)
      PROVE  \A q \in Runs : Onward(q)
  <2>1. \E result : Answer(m, result)
    BY <1>2 DEF Execute, Replay, Reject, Lose, Answer
  <2> QED BY <1>1, <2>1
<1>3. CASE UNCHANGED vars
  BY <1>3, RestingIsOnward DEF vars
<1> QED BY <1>2, <1>3, StepsOnward DEF Next, Done

\* Only a run that has a change in hand sends a request.
LEMMA NewRequests ==
    ASSUME CatalogInv, [Next]_vars, NEW m \in network' \ network
    PROVE  m.run \in Runs /\ run[m.run].at \in {"lookup", "send"}
<1>1. ASSUME NEW r \in Runs, NEW id, run[r].at \in {"lookup", "send"},
             network' = network \cup {request(r, id)}
      PROVE  m.run \in Runs /\ run[m.run].at \in {"lookup", "send"}
  BY <1>1 DEF request
<1>2. ASSUME NEW r \in Runs, LookUp(r), network' # network
      PROVE  run[r].at = "lookup" /\ \E id : network' = network \cup {request(r, id)}
  BY <1>2 DEF LookUp
<1>3. ASSUME NEW r \in Runs, Begin(r) \/ Steps(r)
      PROVE  m.run \in Runs /\ run[m.run].at \in {"lookup", "send"}
  <2>1. CASE LookUp(r)
    <3>1. PICK id : network' = network \cup {request(r, id)}
      BY <1>2, <2>1
    <3>2. run[r].at = "lookup"
      BY <1>2, <2>1
    <3> QED BY <1>1, <3>1, <3>2
  <2>2. CASE Send(r)
    BY <1>1, <2>2 DEF Send
  <2>3. CASE ~LookUp(r) /\ ~Send(r)
    BY <1>3, <2>3 DEF Begin, Steps, ReadPage, ReadFails, Plan, Start, Take, NoAnswer, End
  <2> QED BY <2>1, <2>2, <2>3
<1>4. ASSUME NEW n \in network, Execute(n) \/ Replay(n) \/ Reject(n) \/ Lose(n) PROVE FALSE
  BY <1>4 DEF Execute, Replay, Reject, Lose
<1>5. CASE UNCHANGED vars
  BY <1>5 DEF vars
<1> QED BY <1>3, <1>4, <1>5 DEF Next, Done

\* The runs that were over when a run began are.
BeforeInv == \A r \in Runs : run[r].at # "idle" => run[r].before \subseteq over

LEMMA NextBefore ==
    ASSUME CatalogInv, BeforeInv, [Next]_vars PROVE BeforeInv'
<1>1. over \subseteq over'
  <2> SUFFICES ASSUME NEW q \in over PROVE q \in over'
    OBVIOUS
  <2>1. q \in Runs /\ run[q].at \in {"ended", "failed"} /\ \A m \in network : m.run # q
    BY DEF over
  <2>2. run'[q] = run[q]
    BY <2>1, NextOnward DEF Onward
  <2>3. \A m \in network' : m.run # q
    BY <2>1, NewRequests
  <2> QED BY <2>1, <2>2, <2>3 DEF over
<1>2. ASSUME NEW r \in Runs, run'[r].at # "idle" PROVE run'[r].before \subseteq over'
  <2>1. CASE run[r].at # "idle"
    BY <1>1, <2>1, NextOnward DEF BeforeInv, Onward
  <2>2. CASE run[r].at = "idle"
    BY <1>1, <1>2, <2>2, NextOnward DEF Onward
  <2> QED BY <2>1, <2>2
<1> QED BY <1>2 DEF BeforeInv

\* Who is alone was.
LEMMA AloneBefore ==
    ASSUME CatalogInv, [Next]_vars, NEW r \in Runs, run[r].at # "idle", Alone(r)'
    PROVE  Alone(r)
BY NextOnward DEF Alone, Onward

LEMMA RequestsWhenAlone ==
    ASSUME CatalogInv, BeforeInv, NEW r \in Runs, run[r].at # "idle", Alone(r),
           NEW m \in network, OwnerOf[m.run] = OwnerOf[r]
    PROVE  m.run = r
<1>1. m.run \in Runs /\ run[m.run].at # "idle"
  BY DEF CatalogInv, NetInv, MessageOK, Applying
<1>2. m.run \notin run[r].before
  BY DEF BeforeInv, over
<1> QED BY <1>1, <1>2 DEF Alone

-----------------------------------------------------------------------------
(***************************************************************************)
(* The account of a document nobody else works for                         *)
(***************************************************************************)
\* What a request changes in the account is its run's own afterwards.
LEMMA WritesOwn ==
    ASSUME CatalogInv, NEW m \in network, ~Rejects(m), Executes(m)
    PROVE  /\ \A i \in DOMAIN products' :
                \/ i \in DOMAIN products /\ products'[i] = products[i]
                \/ products'[i].owner = OwnerOf[m.run]
           /\ \A i \in DOMAIN prices' :
                \/ i \in DOMAIN prices /\ prices'[i] = prices[i]
                \/ prices'[i].owner = OwnerOf[m.run]
<1> DEFINE r == m.run
           c == m.change
<1>1. MessageOK(m) /\ r \in Runs /\ c \in Change /\ actionOf(r, c) \in Writes
  BY DEF CatalogInv, NetInv, MessageOK
<1>2. CASE c[1] = "product"
  <2>1. products' = put(products, m.id, productFrom(r, m.id)) /\ prices' = prices
    BY <1>2 DEF Executes
  <2>2. productFrom(r, m.id).owner = OwnerOf[r]
    BY DEF productFrom
  <2>3. /\ DOMAIN products' = DOMAIN products \cup {m.id}
        /\ products'[m.id] = productFrom(r, m.id)
        /\ \A i \in DOMAIN products \ {m.id} : products'[i] = products[i]
    BY <2>1 DEF put
  <2> QED BY <2>1, <2>2, <2>3
<1>3. CASE c[1] # "product" /\ actionOf(r, c) = "create"
  <2>1. PICK n \in Nat : DOMAIN prices = 1..n /\ Cardinality(DOMAIN prices) + 1 = n + 1
    BY NoPriceAfterTheLast DEF CatalogInv
  <2>2. products' = products /\ prices' = put(prices, n + 1, priceFrom(r, m.id))
    BY <1>3, <2>1 DEF Executes
  <2>3. priceFrom(r, m.id).owner = OwnerOf[r]
    BY DEF priceFrom
  <2>4. /\ DOMAIN prices' = DOMAIN prices \cup {n + 1}
        /\ prices'[n + 1] = priceFrom(r, m.id)
        /\ \A i \in DOMAIN prices \ {n + 1} : prices'[i] = prices[i]
    BY <2>2 DEF put
  <2> QED BY <2>2, <2>3, <2>4
<1>4. CASE c[1] # "product" /\ actionOf(r, c) # "create"
  <2>1. c[1] = "price"
    BY <1>1, <1>4, WritesAreDeclared
  <2>2. attemptFrom(r, c) = "lookup"
    BY <1>1, <1>4, <2>1 DEF attemptFrom, Writes
  <2>3. m.id \in DOMAIN prices /\ prices[m.id] \in Price
    BY <1>1, <2>2 DEF MessageOK, ownedPrice, CatalogInv, AccountInv
  <2>4. /\ products' = products
        /\ prices' = put(prices, m.id, updatedPrice(prices[m.id], r, c[2]))
    BY <1>4 DEF Executes
  <2>5. updatedPrice(prices[m.id], r, c[2]).owner = OwnerOf[r]
    BY <2>3 DEF updatedPrice, Price
  <2>6. /\ DOMAIN prices' = DOMAIN prices
        /\ prices'[m.id] = updatedPrice(prices[m.id], r, c[2])
        /\ \A i \in DOMAIN prices \ {m.id} : prices'[i] = prices[i]
    BY <2>3, <2>4 DEF put
  <2> QED BY <2>4, <2>5, <2>6
<1> QED BY <1>2, <1>3, <1>4

\* What is r's own in the account, and what Stripe did for r, stays as it is.
SameFor(r) ==
    /\ owned(products, OwnerOf[r])' = owned(products, OwnerOf[r])
    /\ \A i \in owned(products, OwnerOf[r]) : products'[i] = products[i]
    /\ owned(prices, OwnerOf[r])' = owned(prices, OwnerOf[r])
    /\ \A i \in owned(prices, OwnerOf[r]) : prices'[i] = prices[i]
    /\ \A c \in Change : landed'[<<r, c>>] = landed[<<r, c>>]

LEMMA SameAccount == ASSUME NEW r, UNCHANGED <<products, prices, landed>> PROVE SameFor(r)
BY DEF SameFor, owned

\* What another document's run writes.
LEMMA ForeignWrite ==
    ASSUME CatalogInv, NEW m \in network, ~Rejects(m), Executes(m),
           landed \in [Runs \X Change -> Nat],
           landed' = [landed EXCEPT ![<<m.run, m.change>>] = @ + 1],
           NEW r \in Runs, OwnerOf[r] # OwnerOf[m.run]
    PROVE  SameFor(r)
<1>1. OwnersStay
  BY ExecutesKeeps
<1>2. \A i \in owned(products, OwnerOf[r]) :
        i \in owned(products, OwnerOf[r])' /\ products'[i] = products[i]
  BY <1>1, WritesOwn DEF OwnersStay, owned
<1>3. \A i \in owned(products, OwnerOf[r])' : i \in owned(products, OwnerOf[r])
  BY WritesOwn DEF owned
<1>4. \A i \in owned(prices, OwnerOf[r]) :
        i \in owned(prices, OwnerOf[r])' /\ prices'[i] = prices[i]
  BY <1>1, WritesOwn DEF OwnersStay, owned
<1>5. \A i \in owned(prices, OwnerOf[r])' : i \in owned(prices, OwnerOf[r])
  BY WritesOwn DEF owned
<1>6. \A c \in Change : landed'[<<r, c>>] = landed[<<r, c>>]
  OBVIOUS
<1>7. owned(products, OwnerOf[r])' = owned(products, OwnerOf[r])
  BY <1>2, <1>3
<1>8. owned(prices, OwnerOf[r])' = owned(prices, OwnerOf[r])
  BY <1>4, <1>5
<1> QED BY <1>2, <1>4, <1>6, <1>7, <1>8 DEF SameFor

\* Only r changes what is the document's while it is alone.
LEMMA OthersLeaveIt ==
    ASSUME CatalogInv, BeforeInv, landed \in [Runs \X Change -> Nat], [Next]_vars,
           NEW r \in Runs, run[r].at # "idle", run[r].at \notin Applying, Alone(r)
    PROVE  SameFor(r)
<1>1. ASSUME NEW m \in network, Execute(m) PROVE SameFor(r)
  <2>1. /\ ~Rejects(m) /\ Executes(m)
        /\ landed' = [landed EXCEPT ![<<m.run, m.change>>] = @ + 1]
    BY <1>1 DEF Execute
  <2>2. m.run # r
    BY DEF CatalogInv, NetInv, MessageOK
  <2> QED BY <2>1, <2>2, RequestsWhenAlone, ForeignWrite
<1>2. ASSUME UNCHANGED <<products, prices, landed>> PROVE SameFor(r)
  BY <1>2, SameAccount
<1>3. ASSUME NEW q \in Runs, Begin(q) \/ Steps(q) PROVE UNCHANGED <<products, prices, landed>>
  BY <1>3 DEF Begin, Steps, ReadPage, ReadFails, Plan, Start, Take, LookUp, Send, NoAnswer, End
<1>4. ASSUME NEW m \in network, Replay(m) \/ Reject(m) \/ Lose(m)
      PROVE  UNCHANGED <<products, prices, landed>>
  BY <1>4 DEF Replay, Reject, Lose
<1>5. CASE UNCHANGED vars
  BY <1>2, <1>5 DEF vars
<1> QED BY <1>1, <1>2, <1>3, <1>4, <1>5 DEF Next, Done

\* The document has nothing that r did not find when it began to read, and what r
\* has read is as it read it.
Unmoved(r, list, objects) ==
    /\ owned(objects, OwnerOf[r]) \subseteq DOMAIN run[r].there[list]
    /\ \A i \in DOMAIN run[r].seen[list] :
         i \in owned(objects, OwnerOf[r]) /\ run[r].seen[list][i] = objects[i]

UnmovedOK(r) ==
    run[r].at \in Inspecting /\ Alone(r) =>
        Unmoved(r, "products", products) /\ Unmoved(r, "prices", prices)

\* What has been planned from names nothing twice.
PlannedOK(r) ==
    run[r].at \in Inspecting /\ run[r].pass = "apply" =>
        \A l \in LookupKeys : ~(Cardinality(pricesFor(run[r].planned, l)) > 1)

PlanInv == \A r \in Runs : UnmovedOK(r) /\ PlannedOK(r)

LEMMA UnmovedStays ==
    ASSUME NEW r, SameFor(r), run'[r].there = run[r].there, run'[r].seen = run[r].seen
    PROVE  /\ Unmoved(r, "products", products) => Unmoved(r, "products", products)'
           /\ Unmoved(r, "prices", prices) => Unmoved(r, "prices", prices)'
BY DEF SameFor, Unmoved

LEMMA PassingPlans ==
    ASSUME CatalogInv, BeforeInv, landed \in [Runs \X Change -> Nat], [Next]_vars,
           NEW r \in Runs, UnmovedOK(r), PlannedOK(r), Passes(r)
    PROVE  (UnmovedOK(r) /\ PlannedOK(r))'
<1>1. CASE run'[r].at \notin Inspecting
  BY <1>1 DEF UnmovedOK, PlannedOK
<1>2. CASE run'[r] = run[r] /\ run[r].at \in Inspecting
  <2>1. PlannedOK(r)'
    BY <1>2 DEF PlannedOK, pricesFor
  <2>2. UnmovedOK(r)'
    <3> SUFFICES ASSUME Alone(r)'
                 PROVE  Unmoved(r, "products", products)' /\ Unmoved(r, "prices", prices)'
      BY DEF UnmovedOK
    <3>1. run[r].at # "idle" /\ run[r].at \notin Applying
      BY <1>2 DEF Inspecting, Applying
    <3>2. Alone(r)
      BY <3>1, AloneBefore
    <3>3. SameFor(r)
      BY <3>1, <3>2, OthersLeaveIt
    <3> QED BY <1>2, <3>2, <3>3, UnmovedStays DEF UnmovedOK
  <2> QED BY <2>1, <2>2
<1> QED BY <1>1, <1>2 DEF Passes

\* Reading from the start.
LEMMA FreshPlans ==
    ASSUME NEW r \in Runs, run'[r].there = inspection(r), run'[r].seen = nothing,
           UNCHANGED <<products, prices>>
    PROVE  UnmovedOK(r)'
<1>1. /\ DOMAIN inspection(r).products = owned(products, OwnerOf[r])
      /\ DOMAIN inspection(r).prices = owned(prices, OwnerOf[r])
  BY DEF inspection, keep
<1>2. DOMAIN nothing.products = {} /\ DOMAIN nothing.prices = {}
  BY DEF nothing
<1>3. Unmoved(r, "products", products)' /\ Unmoved(r, "prices", prices)'
  BY <1>1, <1>2 DEF Unmoved, owned
<1> QED BY <1>3 DEF UnmovedOK

LEMMA PlanPlans ==
    ASSUME CatalogInv, NEW r \in Runs, Plan(r) PROVE (UnmovedOK(r) /\ PlannedOK(r))'
<1>1. DOMAIN run = Runs /\ DOMAIN run[r] = Fields /\ UNCHANGED <<products, prices>>
  BY DEF CatalogInv, RunsInv, RunOK, Plan
<1>2. CASE Duplicated(r)
  <2>1. run'[r].at = "failed"
    BY <1>1, <1>2 DEF Plan, Fields
  <2> QED BY <2>1 DEF UnmovedOK, PlannedOK, Inspecting
<1>3. CASE ~Duplicated(r)
  <2>1. /\ run'[r].planned = run[r].seen /\ run'[r].seen = nothing
        /\ run'[r].there = inspection(r)
    BY <1>1, <1>3 DEF Plan, Fields
  <2>2. PlannedOK(r)'
    BY <1>3, <2>1 DEF PlannedOK, Duplicated, pricesFor
  <2> QED BY <1>1, <2>1, <2>2, FreshPlans
<1> QED BY <1>2, <1>3

LEMMA BeginPlans ==
    ASSUME CatalogInv, NEW r \in Runs, Begin(r) PROVE (UnmovedOK(r) /\ PlannedOK(r))'
<1>1. DOMAIN run = Runs /\ UNCHANGED <<products, prices>>
  BY DEF CatalogInv, RunsInv, Begin
<1>2. run'[r].there = inspection(r) /\ run'[r].seen = nothing /\ run'[r].pass = "plan"
  BY <1>1 DEF Begin
<1> QED BY <1>1, <1>2, FreshPlans DEF PlannedOK

LEMMA ReadingPlans ==
    ASSUME CatalogInv, [Next]_vars, NEW r \in Runs, UnmovedOK(r), PlannedOK(r),
           ReadPage(r, "products", products) \/ ReadPage(r, "prices", prices)
    PROVE  (UnmovedOK(r) /\ PlannedOK(r))'
<1>1. /\ run[r].at # "idle" /\ run[r].at \in Inspecting
      /\ DOMAIN run[r].seen = {"products", "prices"}
      /\ UNCHANGED <<products, prices>>
  BY DEF CatalogInv, RunsInv, RunOK, ReadPage, Inspecting
<1>2. /\ run'[r].pass = run[r].pass /\ run'[r].planned = run[r].planned
      /\ run'[r].there = run[r].there
  BY ReadPageFacts
<1>3. PlannedOK(r)'
  BY <1>1, <1>2 DEF PlannedOK, pricesFor
<1>4. ASSUME Alone(r)'
      PROVE  Unmoved(r, "products", products)' /\ Unmoved(r, "prices", prices)'
  <2>1. Unmoved(r, "products", products) /\ Unmoved(r, "prices", prices)
    BY <1>1, <1>4, AloneBefore DEF UnmovedOK
  <2>2. CASE ReadPage(r, "products", products)
    <3> DEFINE ids  == page(DOMAIN products, run[r].cursor)
               read == with(run[r].seen.products, products, ids \cap owned(products, OwnerOf[r]))
    <3>1. run'[r].seen = [run[r].seen EXCEPT !["products"] = read]
      BY <2>2, ReadPageFacts
    <3>2. \A i \in DOMAIN read : i \in owned(products, OwnerOf[r]) /\ read[i] = products[i]
      <4> DEFINE seen == run[r].seen["products"]
      <4>1. \A i \in DOMAIN seen : i \in owned(products, OwnerOf[r]) /\ seen[i] = products[i]
        BY <2>1 DEF Unmoved
      <4>2. read = with(seen, products, ids \cap owned(products, OwnerOf[r]))
        OBVIOUS
      <4> HIDE DEF seen, ids, read
      <4> QED BY <4>1, <4>2 DEF with
    <3> HIDE DEF read
    <3>3. run'[r].seen["products"] = read /\ run'[r].seen["prices"] = run[r].seen["prices"]
      BY <1>1, <3>1
    <3> QED BY <1>1, <1>2, <2>1, <3>2, <3>3 DEF Unmoved, owned
  <2>3. CASE ReadPage(r, "prices", prices)
    <3> DEFINE ids  == page(DOMAIN prices, run[r].cursor)
               read == with(run[r].seen.prices, prices, ids \cap owned(prices, OwnerOf[r]))
    <3>1. run'[r].seen = [run[r].seen EXCEPT !["prices"] = read]
      BY <2>3, ReadPageFacts
    <3>2. \A i \in DOMAIN read : i \in owned(prices, OwnerOf[r]) /\ read[i] = prices[i]
      <4> DEFINE seen == run[r].seen["prices"]
      <4>1. \A i \in DOMAIN seen : i \in owned(prices, OwnerOf[r]) /\ seen[i] = prices[i]
        BY <2>1 DEF Unmoved
      <4>2. read = with(seen, prices, ids \cap owned(prices, OwnerOf[r]))
        OBVIOUS
      <4> HIDE DEF seen, ids, read
      <4> QED BY <4>1, <4>2 DEF with
    <3> HIDE DEF read
    <3>3. run'[r].seen["prices"] = read /\ run'[r].seen["products"] = run[r].seen["products"]
      BY <1>1, <3>1
    <3> QED BY <1>1, <1>2, <2>1, <3>2, <3>3 DEF Unmoved, owned
  <2> QED BY <2>2, <2>3
<1> QED BY <1>3, <1>4 DEF UnmovedOK

LEMMA NextPlans ==
    ASSUME CatalogInv, BeforeInv, landed \in [Runs \X Change -> Nat], PlanInv, [Next]_vars
    PROVE  PlanInv'
<1>1. ASSUME \A r \in Runs : Passes(r) PROVE PlanInv'
  BY <1>1, PassingPlans DEF PlanInv
<1>2. ASSUME NEW r \in Runs, (UnmovedOK(r) /\ PlannedOK(r))', \A q \in Runs \ {r} : run'[q] = run[q]
      PROVE  PlanInv'
  BY <1>2, PassingPlans DEF PlanInv, Passes
<1>3. ASSUME NEW r \in Runs, Begin(r) PROVE PlanInv'
  <2>1. \A q \in Runs \ {r} : run'[q] = run[q]
    BY <1>3 DEF Begin, CatalogInv, RunsInv
  <2> QED BY <1>2, <1>3, <2>1, BeginPlans
<1>4. ASSUME NEW r \in Runs, Plan(r) PROVE PlanInv'
  <2>1. \A q \in Runs \ {r} : run'[q] = run[q]
    BY <1>4 DEF Plan, CatalogInv, RunsInv
  <2> QED BY <1>2, <1>4, <2>1, PlanPlans
<1>5. ASSUME NEW r \in Runs, ReadPage(r, "products", products) \/ ReadPage(r, "prices", prices)
      PROVE  PlanInv'
  <2>1. \A q \in Runs \ {r} : run'[q] = run[q]
    BY <1>5, ReadPageFacts
  <2>2. (UnmovedOK(r) /\ PlannedOK(r))'
    BY <1>5, ReadingPlans DEF PlanInv
  <2> QED BY <1>2, <2>1, <2>2
<1>6. ASSUME NEW r \in Runs, Steps(r) PROVE PlanInv'
  BY <1>1, <1>4, <1>5, <1>6, OtherStepsPass DEF Steps
<1>7. ASSUME NEW m \in network, Execute(m) \/ Replay(m) \/ Reject(m) \/ Lose(m) PROVE PlanInv'
  <2>1. \E result : Answer(m, result)
    BY <1>7 DEF Execute, Replay, Reject, Lose, Answer
  <2> QED BY <1>1, <2>1, AnswersPass
<1>8. CASE UNCHANGED vars
  BY <1>1, <1>8 DEF vars, Passes
<1> QED BY <1>3, <1>6, <1>7, <1>8 DEF Next, Done

-----------------------------------------------------------------------------
(***************************************************************************)
(* Convergence                                                             *)
(***************************************************************************)
\* What became of a change follows from what was asked of it.
OutcomeOK(r) ==
    run[r].at \in Applying =>
        /\ DOMAIN run[r].results = {c \in Change : actionOf(r, c) # "none"}
        /\ \A c \in DOMAIN run[r].results :
             run[r].results[c] = "skipped" => actionOf(r, c) = "noop"

ProductInPlace(r, i) == i \in DOMAIN products /\ products[i] = productFrom(r, i)

PriceInPlace(r, l, i) ==
    /\ fixedParts(prices[i]) = fixedParts(Declares[r].prices[l])
    /\ prices[i].active = Declares[r].prices[l].active
    /\ prices[i].nickname = Declares[r].prices[l].nickname
       \/ Declares[r].prices[l].nickname = "none"

ProductOK(r, i) ==
    actionOf(r, <<"product", i>>) = "noop" \/ landed[<<r, <<"product", i>>>>] # 0
        => ProductInPlace(r, i)

\* All that the document owns under a lookup key agrees with it unless it is to be
\* created or written; what was written is in place.
PriceOK(r, l) ==
    /\ actionOf(r, <<"price", l>>) \in {"noop", "update"} =>
         /\ ownedPrice(r, l) # {}
         /\ \A i \in ownedPrice(r, l) :
              fixedParts(prices[i]) = fixedParts(Declares[r].prices[l])
    /\ actionOf(r, <<"price", l>>) = "noop" =>
         \A i \in ownedPrice(r, l) : PriceInPlace(r, l, i)
    /\ landed[<<r, <<"price", l>>>>] # 0 =>
         \E i \in ownedPrice(r, l) : PriceInPlace(r, l, i)

\* While a run applies, alone for its document, what it found in place or wrote is
\* in place.
AlignedOK(r) ==
    run[r].at \in Applying /\ Alone(r) =>
        /\ \A i \in DOMAIN Declares[r].products : ProductOK(r, i)
        /\ \A l \in DOMAIN Declares[r].prices : PriceOK(r, l)

AlignedInv == \A r \in Runs : OutcomeOK(r) /\ AlignedOK(r)

\* r goes on applying with what it saw and was to do.
Continues(r) ==
    run'[r].at \in Applying =>
        /\ run[r].at \in Applying
        /\ run'[r].seen = run[r].seen
        /\ DOMAIN run'[r].results = DOMAIN run[r].results
        /\ \A c \in DOMAIN run[r].results :
             run'[r].results[c] = "skipped" => run[r].results[c] = "skipped"

LEMMA StillContinues == ASSUME NEW r, run'[r] = run[r] PROVE Continues(r)
BY DEF Continues

LEMMA SettlingContinues ==
    ASSUME CatalogInv, NEW r \in Runs, run[r].at \in Working, NEW result, result # "skipped",
           run' = settle(r, result)
    PROVE  \A q \in Runs : Continues(q)
<1>1. run[r].at # "idle" /\ run[r].at \in Applying
  BY DEF Working, Applying
<1>2. SettlesWith(r, result) /\ \A q \in Runs \ {r} : run'[q] = run[q]
  BY <1>1, SettleGoes
<1>3. Continues(r)
  BY <1>1, <1>2 DEF SettlesWith, Continues
<1> QED BY <1>2, <1>3, StillContinues

LEMMA AnswersContinue ==
    ASSUME CatalogInv, NEW m \in network, NEW result, result # "skipped", Answer(m, result)
    PROVE  \A r \in Runs : Continues(r)
<1>1. CASE UNCHANGED run
  BY <1>1, StillContinues
<1>2. CASE Awaits(m) /\ run' = settle(m.run, result)
  <2>1. m.run \in Runs /\ run[m.run].at \in Working
    BY <1>2 DEF Awaits, CatalogInv, NetInv, MessageOK, Working
  <2> QED BY <1>2, <2>1, SettlingContinues
<1> QED BY <1>1, <1>2 DEF Answer

LEMMA StepsContinue ==
    ASSUME CatalogInv, NEW r \in Runs, Begin(r) \/ Steps(r), ~Start(r)
    PROVE  \A q \in Runs : Continues(q)
<1>1. DOMAIN run = Runs /\ (run[r].at # "idle" => DOMAIN run[r] = Fields)
  BY DEF CatalogInv, RunsInv, RunOK
<1>2. ASSUME NEW to, run[r].at # "idle", to \in Applying => run[r].at \in Applying,
             run' = [run EXCEPT ![r].at = to]
      PROVE  \A q \in Runs : Continues(q)
  <2>1. Goes(r, to) /\ \A q \in Runs \ {r} : run'[q] = run[q]
    BY <1>2, GoesTo
  <2>2. Continues(r)
    BY <1>2, <2>1 DEF Goes, Continues
  <2> QED BY <2>1, <2>2, StillContinues
<1>3. ASSUME run'[r].at \notin Applying,
             \A q \in Runs \ {r} : run'[q] = run[q]
      PROVE  \A q \in Runs : Continues(q)
  <2>1. Continues(r)
    BY <1>3 DEF Continues
  <2> QED BY <1>3, <2>1, StillContinues
<1>4. CASE Begin(r)
  <2>1. run'[r].at = "products" /\ \A q \in Runs \ {r} : run'[q] = run[q]
    BY <1>1, <1>4 DEF Begin
  <2> QED BY <1>3, <2>1 DEF Applying
<1>5. CASE ReadPage(r, "products", products) \/ ReadPage(r, "prices", prices)
  <2>1. /\ run'[r].at \in {"products", "prices", "inspected", "failed"}
        /\ \A q \in Runs \ {r} : run'[q] = run[q]
    BY <1>5, ReadPageFacts
  <2> QED BY <1>3, <2>1 DEF Applying
<1>6. CASE ReadFails(r)
  <2>1. /\ run[r].at # "idle" /\ run' = [run EXCEPT ![r].at = "failed"]
        /\ "failed" \notin Applying
    BY <1>6 DEF ReadFails, Applying
  <2> QED BY <1>2, <2>1
<1>13. CASE Plan(r)
  <2>1. run'[r].at \in {"products", "failed"} /\ \A q \in Runs \ {r} : run'[q] = run[q]
    BY <1>1, <1>13 DEF Plan, Fields
  <2> QED BY <1>3, <2>1 DEF Applying
<1>14. ASSUME NEW c, NEW n, run[r].at \in Applying, run' = attempted(r, c, n)
       PROVE  \A q \in Runs : Continues(q)
  <2>1. Attempts(r, c) /\ \A q \in Runs \ {r} : run'[q] = run[q]
    BY <1>14, AttemptBegins DEF Applying
  <2>2. Continues(r)
    BY <1>14, <2>1 DEF Attempts, Continues
  <2> QED BY <2>1, <2>2, StillContinues
<1>7. ASSUME NEW c \in Change, Take(r, c) PROVE \A q \in Runs : Continues(q)
  <2>1. run[r].at = "apply"
    BY <1>7 DEF Take
  <2>2. CASE run' = attempted(r, c, 1)
    BY <1>14, <2>1, <2>2 DEF Applying
  <2>3. CASE run' = [run EXCEPT ![r].results[c] = "unmet"]
    <3>1. /\ run'[r].at = "apply" /\ run'[r].seen = run[r].seen
          /\ run'[r].results = [run[r].results EXCEPT ![c] = "unmet"]
          /\ \A q \in Runs \ {r} : run'[q] = run[q]
      BY <1>1, <2>1, <2>3 DEF Fields
    <3>2. "unmet" # "skipped"
      OBVIOUS
    <3>3. Continues(r)
      BY <2>1, <3>1, <3>2 DEF Continues, Applying
    <3> QED BY <3>1, <3>3, StillContinues
  <2> QED BY <1>7, <2>2, <2>3 DEF Take
<1>8. ASSUME run[r].at \in Working, run' = settle(r, "failed")
      PROVE  \A q \in Runs : Continues(q)
  <2>1. "failed" # "skipped"
    OBVIOUS
  <2> QED BY <1>8, <2>1, SettlingContinues
<1>9. CASE LookUp(r)
  <2>1. run[r].at \in Working /\ run[r].at # "idle" /\ run[r].at \in Applying
    BY <1>9 DEF LookUp, Working, Applying
  <2>2. CASE run' = settle(r, "failed")
    BY <1>8, <2>1, <2>2
  <2>3. CASE Finds(r)
    BY <1>2, <2>1, <2>3 DEF Finds
  <2>4. CASE LooksOn(r)
    <3>1. /\ run'[r].seen = run[r].seen /\ run'[r].results = run[r].results
          /\ \A q \in Runs \ {r} : run'[q] = run[q]
      BY <1>1, <2>1, <2>4 DEF LooksOn, Fields
    <3>2. Continues(r)
      BY <2>1, <3>1 DEF Continues
    <3> QED BY <3>1, <3>2, StillContinues
  <2> QED BY <1>9, <2>2, <2>3, <2>4, LookUpCases
<1>10. CASE Send(r)
  <2>1. /\ run[r].at # "idle" /\ run[r].at \in Applying
        /\ run' = [run EXCEPT ![r].at = "waiting"]
    BY <1>10 DEF Send, Applying
  <2> QED BY <1>2, <2>1
<1>11. CASE NoAnswer(r)
  <2>1. run[r].at \in Working /\ run[r].at # "idle" /\ run[r].at \in Applying /\ Retry(r)
    BY <1>11 DEF NoAnswer, Working, Applying
  <2>2. CASE run' = settle(r, "failed")
    BY <1>8, <2>1, <2>2
  <2>3. CASE run' # settle(r, "failed")
    <3>1. run' = attempted(r, run[r].change, run[r].attempt + 1)
      BY <2>1, <2>3 DEF Retry
    <3> QED BY <1>14, <2>1, <3>1
  <2> QED BY <2>2, <2>3
<1>12. CASE End(r)
  <2>1. /\ run[r].at # "idle" /\ run[r].at \in Applying
        /\ run' = [run EXCEPT ![r].at = "ended"]
    BY <1>12 DEF End, Applying
  <2> QED BY <1>2, <2>1
<1> QED BY <1>4, <1>5, <1>6, <1>7, <1>9, <1>10, <1>11, <1>12, <1>13 DEF Steps

LEMMA SameFacts ==
    ASSUME NEW r, SameFor(r)
    PROVE  /\ \A l : ownedPrice(r, l)' = ownedPrice(r, l)
           /\ \A l : \A i \in ownedPrice(r, l) : prices'[i] = prices[i]
           /\ \A i : ProductInPlace(r, i) => ProductInPlace(r, i)'
<1>1. \A l : ownedPrice(r, l) = {i \in owned(prices, OwnerOf[r]) : prices[i].lookupKey = l}
  BY DEF ownedPrice, owned
<1>2. \A l : ownedPrice(r, l)' = {i \in owned(prices, OwnerOf[r])' : prices'[i].lookupKey = l}
  BY DEF ownedPrice, owned
<1>3. \A l : ownedPrice(r, l)' = ownedPrice(r, l)
  BY <1>1, <1>2 DEF SameFor
<1>4. \A l : \A i \in ownedPrice(r, l) : prices'[i] = prices[i]
  BY <1>1 DEF SameFor
<1>5. ASSUME NEW i, ProductInPlace(r, i) PROVE ProductInPlace(r, i)'
  <2>1. i \in owned(products, OwnerOf[r])
    BY <1>5 DEF ProductInPlace, productFrom, owned
  <2>2. i \in owned(products, OwnerOf[r])' /\ products'[i] = products[i]
    BY <2>1 DEF SameFor
  <2> QED BY <1>5, <2>2 DEF ProductInPlace, productFrom, owned
<1> QED BY <1>3, <1>4, <1>5

LEMMA SamePriceOK ==
    ASSUME NEW r, NEW l, PriceOK(r, l),
           actionOf(r, <<"price", l>>)' = actionOf(r, <<"price", l>>),
           ownedPrice(r, l)' = ownedPrice(r, l),
           \A i \in ownedPrice(r, l) : prices'[i] = prices[i],
           landed'[<<r, <<"price", l>>>>] = landed[<<r, <<"price", l>>>>]
    PROVE  PriceOK(r, l)'
<1>1. \A i \in ownedPrice(r, l) : PriceInPlace(r, l, i)' <=> PriceInPlace(r, l, i)
  BY DEF PriceInPlace, fixedParts
<1> QED BY <1>1 DEF PriceOK, fixedParts

LEMMA DeclaredAreChanges ==
    ASSUME NEW r \in Runs
    PROVE  /\ \A i \in DOMAIN Declares[r].products : <<"product", i>> \in Change
           /\ \A l \in DOMAIN Declares[r].prices : <<"price", l>> \in Change
BY DeclaresAssumption DEF Change

LEMMA SameKeeps ==
    ASSUME NEW r \in Runs, OutcomeOK(r) /\ AlignedOK(r), SameFor(r), Continues(r),
           run[r].at # "idle" /\ Alone(r)' => Alone(r)
    PROVE  (OutcomeOK(r) /\ AlignedOK(r))'
<1> SUFFICES ASSUME run'[r].at \in Applying PROVE (OutcomeOK(r) /\ AlignedOK(r))'
  BY DEF OutcomeOK, AlignedOK
<1>1. /\ run[r].at \in Applying
      /\ \A c : actionOf(r, c)' = actionOf(r, c)
      /\ DOMAIN run'[r].results = DOMAIN run[r].results
      /\ \A c \in DOMAIN run[r].results :
           run'[r].results[c] = "skipped" => run[r].results[c] = "skipped"
  BY ActionStays DEF Continues
<1>2. OutcomeOK(r)'
  BY <1>1 DEF OutcomeOK
<1>3. ASSUME Alone(r)'
      PROVE  /\ \A i \in DOMAIN Declares[r].products : ProductOK(r, i)'
             /\ \A l \in DOMAIN Declares[r].prices : PriceOK(r, l)'
  <2>1. Alone(r)
    BY <1>1, <1>3 DEF Applying
  <2>2. ASSUME NEW i \in DOMAIN Declares[r].products PROVE ProductOK(r, i)'
    <3>1. <<"product", i>> \in Change
      BY DeclaredAreChanges
    <3> QED BY <1>1, <2>1, <3>1, SameFacts DEF AlignedOK, ProductOK, SameFor
  <2>3. ASSUME NEW l \in DOMAIN Declares[r].prices PROVE PriceOK(r, l)'
    <3>1. <<"price", l>> \in Change
      BY DeclaredAreChanges
    <3> QED BY <1>1, <2>1, <3>1, SamePriceOK, SameFacts DEF AlignedOK, SameFor
  <2> QED BY <2>2, <2>3
<1> QED BY <1>2, <1>3 DEF AlignedOK

\* What a run writes it puts in place, and it leaves the rest of its document's
\* resources as they are.
LEMMA OwnWrite ==
    ASSUME CatalogInv, NEW m \in network, ~Rejects(m), Executes(m),
           landed \in [Runs \X Change -> Nat],
           landed' = [landed EXCEPT ![<<m.run, m.change>>] = @ + 1],
           NEW r \in Runs, r = m.run, \A c : actionOf(r, c)' = actionOf(r, c),
           \A i \in DOMAIN Declares[r].products : ProductOK(r, i),
           \A l \in DOMAIN Declares[r].prices : PriceOK(r, l)
    PROVE  /\ \A i \in DOMAIN Declares[r].products : ProductOK(r, i)'
           /\ \A l \in DOMAIN Declares[r].prices : PriceOK(r, l)'
<1> DEFINE c == m.change
           ProductsKept == \A i \in DOMAIN Declares[r].products : ProductOK(r, i)'
           PricesKept   == \A l \in DOMAIN Declares[r].prices : PriceOK(r, l)'
<1>1. MessageOK(m) /\ c \in Change /\ actionOf(r, c) \in Writes
  BY DEF CatalogInv, NetInv, MessageOK
<1>2. /\ \A d \in Change : d # c => landed'[<<r, d>>] = landed[<<r, d>>]
      /\ \A i \in DOMAIN Declares[r].products : <<"product", i>> \in Change
      /\ \A l \in DOMAIN Declares[r].prices : <<"price", l>> \in Change
  BY DeclaredAreChanges
<1>3. ASSUME NEW l \in DOMAIN Declares[r].prices, <<"price", l>> # c,
             ownedPrice(r, l)' = ownedPrice(r, l),
             \A i \in ownedPrice(r, l) : prices'[i] = prices[i]
      PROVE  PriceOK(r, l)'
  BY <1>2, <1>3, SamePriceOK
<1>4. ASSUME NEW i \in DOMAIN Declares[r].products, <<"product", i>> # c,
             ProductInPlace(r, i) => ProductInPlace(r, i)'
      PROVE  ProductOK(r, i)'
  BY <1>2, <1>4 DEF ProductOK
<1>5. CASE c[1] = "product"
  <2>1. attemptFrom(r, c) = "send" /\ m.id = c[2] /\ c = <<"product", m.id>>
    BY <1>1, <1>5 DEF attemptFrom, MessageOK, Change
  <2>2. products' = put(products, m.id, productFrom(r, m.id)) /\ prices' = prices
    BY <1>5 DEF Executes
  <2>3. /\ DOMAIN products' = DOMAIN products \cup {m.id}
        /\ products'[m.id] = productFrom(r, m.id)
        /\ \A i \in DOMAIN products \ {m.id} : products'[i] = products[i]
    BY <2>2 DEF put
  <2>4. ASSUME NEW i \in DOMAIN Declares[r].products PROVE ProductOK(r, i)'
    <3>1. CASE i = m.id
      BY <2>3, <3>1 DEF ProductOK, ProductInPlace, productFrom
    <3>2. CASE i # m.id
      <4>1. <<"product", i>> # c
        BY <2>1, <3>2
      <4>2. ProductInPlace(r, i) => ProductInPlace(r, i)'
        BY <2>3, <3>2 DEF ProductInPlace, productFrom
      <4> QED BY <1>4, <4>1, <4>2
    <3> QED BY <3>1, <3>2
  <2>5. ASSUME NEW l \in DOMAIN Declares[r].prices PROVE PriceOK(r, l)'
    <3>1. <<"price", l>> # c
      BY <2>1
    <3>2. ownedPrice(r, l)' = ownedPrice(r, l) /\ \A i \in ownedPrice(r, l) : prices'[i] = prices[i]
      BY <2>2 DEF ownedPrice
    <3> QED BY <1>3, <3>1, <3>2
  <2> QED BY <2>4, <2>5
<1>6. CASE c[1] # "product"
  <2>1. c[1] = "price" /\ c[2] \in DOMAIN Declares[r].prices /\ c = <<"price", c[2]>>
    <3>1. c[1] = "price" /\ c[2] \in DOMAIN Declares[r].prices
      BY <1>1, <1>6, WritesAreDeclared
    <3> QED BY <1>1, <3>1 DEF Change
  <2>2. products' = products
    BY <1>6 DEF Executes
  <2>3. ProductsKept
    <3> SUFFICES ASSUME NEW i \in DOMAIN Declares[r].products PROVE ProductOK(r, i)'
      OBVIOUS
    <3>1. <<"product", i>> # c
      BY <2>1
    <3>2. ProductInPlace(r, i) => ProductInPlace(r, i)'
      BY <2>2 DEF ProductInPlace, productFrom
    <3> QED BY <1>4, <3>1, <3>2
  <2> DEFINE l0 == c[2]
  <2>4. ASSUME PriceOK(r, l0)',
               \A l : l # l0 => /\ ownedPrice(r, l)' = ownedPrice(r, l)
                                /\ \A i \in ownedPrice(r, l) : prices'[i] = prices[i]
        PROVE  PricesKept
    <3> SUFFICES ASSUME NEW l \in DOMAIN Declares[r].prices, l # l0 PROVE PriceOK(r, l)'
      BY <2>4
    <3>1. <<"price", l>> # c
      BY <2>1
    <3> QED BY <1>3, <2>4, <3>1
  <2>5. CASE actionOf(r, c) = "create"
    <3>1. attemptFrom(r, c) = "send" /\ m.id = l0
      BY <1>1, <2>5 DEF attemptFrom, MessageOK
    <3>2. PICK n \in Nat : DOMAIN prices = 1..n /\ Cardinality(DOMAIN prices) + 1 = n + 1
      BY NoPriceAfterTheLast DEF CatalogInv
    <3>3. prices' = put(prices, n + 1, priceFrom(r, l0))
      BY <1>6, <2>5, <3>1, <3>2 DEF Executes
    <3>4. /\ DOMAIN prices' = DOMAIN prices \cup {n + 1} /\ n + 1 \notin DOMAIN prices
          /\ prices'[n + 1] = priceFrom(r, l0)
          /\ \A i \in DOMAIN prices : prices'[i] = prices[i]
      <4>1. n + 1 \notin 1..n
        OBVIOUS
      <4> HIDE DEF l0
      <4> QED BY <3>2, <3>3, <4>1 DEF put
    <3>5. /\ priceFrom(r, l0).lookupKey = l0 /\ priceFrom(r, l0).owner = OwnerOf[r]
          /\ priceFrom(r, l0).product = Declares[r].prices[l0].product
          /\ priceFrom(r, l0).amount = Declares[r].prices[l0].amount
          /\ priceFrom(r, l0).active = Declares[r].prices[l0].active
          /\ priceFrom(r, l0).nickname = Declares[r].prices[l0].nickname
      BY DEF priceFrom
    <3> HIDE DEF l0
    <3>6. ASSUME NEW l, l # l0
          PROVE  /\ ownedPrice(r, l)' = ownedPrice(r, l)
                 /\ \A i \in ownedPrice(r, l) : prices'[i] = prices[i]
      BY <3>4, <3>5, <3>6 DEF ownedPrice
    <3>7. n + 1 \in ownedPrice(r, l0)' /\ PriceInPlace(r, l0, n + 1)'
      BY <3>4, <3>5 DEF ownedPrice, PriceInPlace, fixedParts
    <3>8. actionOf(r, <<"price", l0>>)' = "create"
      BY <2>1, <2>5 DEF l0
    <3>9. PriceOK(r, l0)'
      BY <3>7, <3>8 DEF PriceOK
    <3> QED BY <2>3, <2>4, <3>6, <3>9
  <2>6. CASE actionOf(r, c) # "create"
    <3>1. attemptFrom(r, c) = "lookup" /\ actionOf(r, c) = "update"
      BY <1>1, <2>1, <2>6 DEF attemptFrom, Writes
    <3>2. /\ m.id \in DOMAIN prices /\ prices[m.id].owner = OwnerOf[r]
          /\ prices[m.id] \in Price /\ prices[m.id].lookupKey = l0
      BY <1>1, <3>1 DEF MessageOK, ownedPrice, CatalogInv, AccountInv
    <3> DEFINE new == updatedPrice(prices[m.id], r, l0)
    <3>3. prices' = put(prices, m.id, new)
      BY <1>6, <2>6 DEF Executes
    <3>4. /\ new.lookupKey = l0 /\ new.owner = OwnerOf[r]
          /\ fixedParts(new) = fixedParts(prices[m.id])
          /\ new.active = Declares[r].prices[l0].active
          /\ new.nickname = Declares[r].prices[l0].nickname
             \/ Declares[r].prices[l0].nickname = "none"
      BY <3>2 DEF updatedPrice, Price, fixedParts
    <3> HIDE DEF new, l0
    <3>5. /\ DOMAIN prices' = DOMAIN prices /\ prices'[m.id] = new
          /\ \A i \in DOMAIN prices \ {m.id} : prices'[i] = prices[i]
      BY <3>2, <3>3 DEF put
    <3>6. \A l : ownedPrice(r, l)' = ownedPrice(r, l)
      BY <3>2, <3>4, <3>5 DEF ownedPrice
    <3>7. m.id \in ownedPrice(r, l0) /\ \A l : l # l0 => m.id \notin ownedPrice(r, l)
      BY <3>2 DEF ownedPrice
    <3>8. \A l : \A i \in ownedPrice(r, l) : i \in DOMAIN prices
      BY DEF ownedPrice
    <3>9. PriceOK(r, l0) /\ actionOf(r, <<"price", l0>>) = "update"
      BY <2>1, <3>1 DEF l0
    <3>10. /\ ownedPrice(r, l0) # {}
           /\ \A i \in ownedPrice(r, l0) :
                fixedParts(prices[i]) = fixedParts(Declares[r].prices[l0])
      BY <3>9 DEF PriceOK
    <3>11. \A i \in ownedPrice(r, l0)' :
             fixedParts(prices'[i]) = fixedParts(Declares[r].prices[l0])
      BY <3>4, <3>5, <3>6, <3>7, <3>8, <3>10
    <3>12. PriceInPlace(r, l0, m.id)'
      <4>1. fixedParts(prices'[m.id]) = fixedParts(Declares[r].prices[l0])
        BY <3>6, <3>7, <3>11
      <4> QED BY <3>4, <3>5, <4>1 DEF PriceInPlace, fixedParts
    <3>13. PriceOK(r, l0)'
      <4>1. actionOf(r, <<"price", l0>>)' = "update"
        BY <3>9
      <4>2. ownedPrice(r, l0)' # {}
        BY <3>6, <3>10
      <4>3. \E i \in ownedPrice(r, l0)' : PriceInPlace(r, l0, i)'
        BY <3>6, <3>7, <3>12
      <4>4. \A i \in ownedPrice(r, l0)' : (fixedParts(prices[i]) = fixedParts(Declares[r].prices[l0]))'
        BY <3>11 DEF fixedParts
      <4> QED BY <4>1, <4>2, <4>3, <4>4 DEF PriceOK
    <3> QED BY <2>3, <2>4, <3>5, <3>6, <3>7, <3>8, <3>13
  <2> QED BY <2>5, <2>6
<1> QED BY <1>5, <1>6

LEMMA AtMostOne ==
    ASSUME NEW S, IsFiniteSet(S), ~(Cardinality(S) > 1), NEW x \in S, NEW y \in S
    PROVE  x = y
<1> SUFFICES ASSUME x # y PROVE FALSE
  OBVIOUS
<1>1. IsFiniteSet({x}) /\ Cardinality({x}) = 1
  BY FS_Singleton
<1>2. {x, y} = {x} \cup {y} /\ y \notin {x}
  OBVIOUS
<1>3. Cardinality({x} \cup {y}) = 2
  <2>1. Cardinality({x} \cup {y}) = IF y \in {x} THEN Cardinality({x}) ELSE Cardinality({x}) + 1
    BY <1>1, FS_AddElement
  <2> QED BY <1>1, <1>2, <2>1
<1>4. {x, y} \in SUBSET S
  OBVIOUS
<1>5. Cardinality({x, y}) <= Cardinality(S)
  BY <1>4, FS_Subset
<1>6. Cardinality(S) \in Nat
  BY FS_CardinalityType
<1> QED BY <1>2, <1>3, <1>5, <1>6

\* Stripe has done nothing for a run that starts, and what the run sees is what
\* there is, if it is alone.
LEMMA StartAligns ==
    ASSUME CatalogInv, WriteInv, NEW r \in Runs, Start(r), InspectOK(r), UnmovedOK(r),
           PlannedOK(r), Alone(r)' => Alone(r)
    PROVE  (OutcomeOK(r) /\ AlignedOK(r))'
<1> DEFINE to == IF run[r].seen # run[r].planned THEN "failed" ELSE "apply"
           settled == [c \in {d \in Change : actionOf(r, d) # "none"} |->
                         CASE actionOf(r, c) = "noop"    -> "skipped"
                           [] actionOf(r, c) = "blocked" -> "blocked"
                           [] OTHER -> "none"]
<1>1. /\ DOMAIN run = Runs /\ run[r].at = "inspected" /\ DOMAIN run[r] = Fields
      /\ UNCHANGED <<products, prices, landed>>
      /\ run' = [run EXCEPT ![r].at = to, ![r].results = settled]
  BY DEF CatalogInv, RunsInv, RunOK, Start
<1>2. /\ DOMAIN settled = {c \in Change : actionOf(r, c) # "none"}
      /\ \A c \in DOMAIN settled : settled[c] = "skipped" => actionOf(r, c) = "noop"
  OBVIOUS
<1>3. to = "failed" \/ (to = "apply" /\ run[r].seen = run[r].planned)
  OBVIOUS
<1> HIDE DEF to, settled
<1>4. run'[r].at = to /\ run'[r].results = settled /\ run'[r].seen = run[r].seen
  BY <1>1 DEF Fields
<1>5. \A c : actionOf(r, c)' = actionOf(r, c)
  BY <1>4, ActionStays
<1>6. OutcomeOK(r)'
  BY <1>2, <1>4, <1>5 DEF OutcomeOK
<1>7. CASE to = "failed"
  BY <1>4, <1>6, <1>7 DEF AlignedOK, Applying
<1>8. CASE to = "apply"
  <2> SUFFICES ASSUME Alone(r)'
               PROVE  /\ \A i \in DOMAIN Declares[r].products : ProductOK(r, i)'
                      /\ \A l \in DOMAIN Declares[r].prices : PriceOK(r, l)'
    BY <1>6 DEF AlignedOK
  <2>1. /\ Unmoved(r, "products", products) /\ Unmoved(r, "prices", prices)
        /\ ReadAll(r, "products") /\ ReadAll(r, "prices")
        /\ \A l \in LookupKeys : ~(Cardinality(pricesFor(run[r].seen, l)) > 1)
    <3>1. run[r].at \in Inspecting /\ run[r].pass = "apply"
      BY <1>1 DEF Inspecting, Start
    <3> QED BY <1>1, <1>3, <1>8, <3>1 DEF UnmovedOK, InspectOK, PlannedOK
  <2>2. \A c \in Change : landed'[<<r, c>>] = 0
    <3>1. run[r].at \notin Applying
      BY <1>1 DEF Applying
    <3> QED BY <1>1, <3>1 DEF WriteInv, LandedInv, LandedOK
  <2>3. /\ \A i \in DOMAIN Declares[r].products : <<"product", i>> \in Change
        /\ \A l \in DOMAIN Declares[r].prices : <<"price", l>> \in Change
    BY DeclaredAreChanges
  <2>4. /\ DOMAIN run[r].seen.products = owned(products, OwnerOf[r])
        /\ \A i \in owned(products, OwnerOf[r]) : run[r].seen.products[i] = products[i]
    BY <2>1 DEF Unmoved, ReadAll
  <2>5. /\ DOMAIN run[r].seen.prices = owned(prices, OwnerOf[r])
        /\ \A i \in owned(prices, OwnerOf[r]) : run[r].seen.prices[i] = prices[i]
    BY <2>1 DEF Unmoved, ReadAll
  <2>6. ASSUME NEW i \in DOMAIN Declares[r].products PROVE ProductOK(r, i)'
    <3> SUFFICES ASSUME actionOf(r, <<"product", i>>) = "noop" PROVE ProductInPlace(r, i)'
      BY <1>5, <2>2, <2>3 DEF ProductOK
    <3>1. productAction(r, i) = "noop"
      BY DEF actionOf
    <3>2. /\ i \in DOMAIN run[r].seen.products
          /\ Declares[r].products[i].name = run[r].seen.products[i].name
          /\ Declares[r].products[i].active = run[r].seen.products[i].active
      BY <3>1 DEF productAction
    <3>3. i \in DOMAIN products /\ products[i].owner = OwnerOf[r] /\ run[r].seen.products[i] = products[i]
      BY <2>4, <3>2 DEF owned
    <3>4. products[i] \in Product
      BY <3>3 DEF CatalogInv, AccountInv
    <3>5. products[i] = productFrom(r, i)
      BY <3>2, <3>3, <3>4 DEF Product, productFrom
    <3> QED BY <1>1, <3>3, <3>5 DEF ProductInPlace, productFrom
  <2>7. ASSUME NEW l \in DOMAIN Declares[r].prices PROVE PriceOK(r, l)'
    <3> DEFINE S == ownedPrice(r, l)
    <3>1. /\ pricesFor(run[r].seen, l) = S
          /\ \A i \in S : run[r].seen.prices[i] = prices[i] /\ i \in DOMAIN prices
      BY <2>5 DEF owned, pricesFor, ownedPrice
    <3>2. IsFiniteSet(S)
      <4>1. PICK n \in Nat : DOMAIN prices = 1..n
        BY DEF CatalogInv, AccountInv
      <4> HIDE DEF S
      <4>2. IsFiniteSet(1..n)
        BY <4>1, FS_Interval
      <4>3. S \in SUBSET (1..n)
        BY <3>1, <4>1
      <4> QED BY <4>2, <4>3, FS_Subset
    <3>3. ~(Cardinality(S) > 1)
      <4>1. l \in LookupKeys
        BY DeclaresAssumption
      <4> QED BY <2>1, <3>1, <4>1
    <3>4. ASSUME actionOf(r, <<"price", l>>) \in {"noop", "update"}
          PROVE  /\ S # {}
                 /\ \A i \in S : fixedParts(prices[i]) = fixedParts(Declares[r].prices[l])
                 /\ actionOf(r, <<"price", l>>) = "noop" =>
                      \A i \in S : mutableParts(prices[i]) = mutableParts(Declares[r].prices[l])
      <4> DEFINE pick == CHOOSE i \in pricesFor(run[r].seen, l) : TRUE
                 is   == run[r].seen.prices[pick]
      <4>1. priceAction(r, l) \in {"noop", "update"} /\ priceAction(r, l) = actionOf(r, <<"price", l>>)
        BY <3>4 DEF actionOf
      <4>2. /\ pricesFor(run[r].seen, l) # {}
            /\ fixedParts(is) = fixedParts(Declares[r].prices[l])
            /\ priceAction(r, l) = "noop" => mutableParts(is) = mutableParts(Declares[r].prices[l])
        BY <4>1 DEF priceAction
      <4>3. pick \in S
        BY <3>1, <4>2
      <4>4. is = prices[pick]
        BY <3>1, <4>3
      <4>5. \A i \in S : i = pick
        <5> HIDE DEF S, pick
        <5> QED BY <3>2, <3>3, <4>3, AtMostOne
      <4> HIDE DEF pick, is
      <4> QED BY <4>1, <4>2, <4>3, <4>4, <4>5
    <3>5. ownedPrice(r, l)' = S
      BY <1>1 DEF ownedPrice
    <3>6. actionOf(r, <<"price", l>>)' = actionOf(r, <<"price", l>>) /\ landed'[<<r, <<"price", l>>>>] = 0
      BY <1>5, <2>2, <2>3
    <3>7. \A i : mutableParts(prices[i]) = mutableParts(Declares[r].prices[l]) =>
                   /\ prices[i].active = Declares[r].prices[l].active
                   /\ prices[i].nickname = Declares[r].prices[l].nickname
      BY DEF mutableParts
    <3> HIDE DEF S
    <3>8. ASSUME actionOf(r, <<"price", l>>) = "noop", NEW i \in S PROVE PriceInPlace(r, l, i)'
      BY <1>1, <3>4, <3>7, <3>8 DEF PriceInPlace, fixedParts
    <3> QED BY <1>1, <3>4, <3>5, <3>6, <3>8 DEF PriceOK, fixedParts
  <2> QED BY <2>6, <2>7
<1> QED BY <1>3, <1>7, <1>8

LEMMA NextAligned ==
    ASSUME CatalogInv, WriteInv, InspectInv, BeforeInv, PlanInv, AlignedInv, [Next]_vars
    PROVE  AlignedInv'
<1>1. ASSUME NEW r \in Runs, run[r].at # "idle" PROVE Alone(r)' => Alone(r)
  BY <1>1, AloneBefore
<1>2. ASSUME UNCHANGED <<products, prices, landed>>, \A q \in Runs : Continues(q)
      PROVE  AlignedInv'
  BY <1>1, <1>2, SameAccount, SameKeeps DEF AlignedInv
<1>3. ASSUME NEW r \in Runs, Start(r) PROVE AlignedInv'
  <2>1. /\ UNCHANGED <<products, prices, landed>> /\ run[r].at = "inspected"
        /\ \A q \in Runs \ {r} : run'[q] = run[q]
    BY <1>3 DEF Start, CatalogInv, RunsInv
  <2>2. (OutcomeOK(r) /\ AlignedOK(r))'
    BY <1>1, <1>3, <2>1, StartAligns DEF InspectInv, PlanInv
  <2>3. ASSUME NEW q \in Runs \ {r} PROVE (OutcomeOK(q) /\ AlignedOK(q))'
    BY <1>1, <2>1, <2>3, SameAccount, SameKeeps, StillContinues DEF AlignedInv
  <2> QED BY <2>2, <2>3 DEF AlignedInv
<1>4. ASSUME NEW r \in Runs, Begin(r) \/ Steps(r), ~Start(r) PROVE AlignedInv'
  <2>1. UNCHANGED <<products, prices, landed>>
    BY <1>4 DEF Begin, Steps, ReadPage, ReadFails, Plan, Start, Take, LookUp, Send, NoAnswer, End
  <2> QED BY <1>2, <1>4, <2>1, StepsContinue
<1>5. ASSUME NEW m \in network, Execute(m) PROVE AlignedInv'
  <2>1. /\ ~Rejects(m) /\ Executes(m) /\ Answer(m, "succeeded")
        /\ landed' = [landed EXCEPT ![<<m.run, m.change>>] = @ + 1]
    BY <1>5 DEF Execute
  <2>2. landed \in [Runs \X Change -> Nat]
    BY DEF WriteInv
  <2>3. \A q \in Runs : Continues(q)
    <3>1. "succeeded" # "skipped"
      OBVIOUS
    <3> QED BY <2>1, <3>1, AnswersContinue
  <2>4. ASSUME NEW r \in Runs PROVE (OutcomeOK(r) /\ AlignedOK(r))'
    <3>1. OutcomeOK(r) /\ AlignedOK(r)
      BY DEF AlignedInv
    <3>2. CASE OwnerOf[r] # OwnerOf[m.run]
      BY <1>1, <2>1, <2>2, <2>3, <3>1, <3>2, ForeignWrite, SameKeeps
    <3>3. OutcomeOK(r)'
      <4> SUFFICES ASSUME run'[r].at \in Applying PROVE OutcomeOK(r)'
        BY DEF OutcomeOK
      <4>1. \A c : actionOf(r, c)' = actionOf(r, c)
        BY <2>3, ActionStays DEF Continues
      <4> QED BY <2>3, <3>1, <4>1 DEF OutcomeOK, Continues
    <3>4. CASE OwnerOf[r] = OwnerOf[m.run]
      <4> SUFFICES ASSUME run'[r].at \in Applying, Alone(r)'
                   PROVE  /\ \A i \in DOMAIN Declares[r].products : ProductOK(r, i)'
                          /\ \A l \in DOMAIN Declares[r].prices : PriceOK(r, l)'
        BY <3>3 DEF AlignedOK
      <4>1. run[r].at \in Applying /\ run[r].at # "idle" /\ \A c : actionOf(r, c)' = actionOf(r, c)
        BY <2>3, ActionStays DEF Continues, Applying
      <4>2. Alone(r)
        BY <1>1, <4>1
      <4>3. r = m.run
        BY <3>4, <4>1, <4>2, RequestsWhenAlone
      <4>4. /\ \A i \in DOMAIN Declares[r].products : ProductOK(r, i)
            /\ \A l \in DOMAIN Declares[r].prices : PriceOK(r, l)
        BY <3>1, <4>1, <4>2 DEF AlignedOK
      <4> QED BY <2>1, <2>2, <4>1, <4>3, <4>4, OwnWrite
    <3> QED BY <3>2, <3>4
  <2> QED BY <2>4 DEF AlignedInv
<1>6. ASSUME NEW m \in network, Replay(m) \/ Reject(m) \/ Lose(m) PROVE AlignedInv'
  <2>1. UNCHANGED <<products, prices, landed>> /\ (Answer(m, "succeeded") \/ Answer(m, "failed"))
    BY <1>6 DEF Replay, Reject, Lose, Answer
  <2>2. "succeeded" # "skipped" /\ "failed" # "skipped"
    OBVIOUS
  <2> QED BY <1>2, <2>1, <2>2, AnswersContinue
<1>7. CASE UNCHANGED vars
  BY <1>2, <1>7, StillContinues DEF vars
<1> QED BY <1>3, <1>4, <1>5, <1>6, <1>7 DEF Next, Done

\* When a run has ended, nobody else having worked for its document meanwhile,
\* whatever it skipped as unchanged or recorded as succeeded is in the account as
\* the document declares it, for any other documents at work, any keys the runs
\* share, and whatever is lost, late or sent again; but for the changes whose key
\* another run has used (applyChange, projection.ts).
THEOREM AccountIsAsDeclaredAlways == Spec => []AccountIsAsDeclared
<1> DEFINE Inv == WriteInv /\ InspectInv /\ BeforeInv /\ PlanInv /\ AlignedInv
<1>1. Init => Inv
  <2>1. Init => \A r \in Runs : run[r].at = "idle"
    BY DEF Init, Idle
  <2> QED BY <2>1, InitWrites DEF InspectInv, InspectOK, Inspecting, BeforeInv, PlanInv, UnmovedOK,
                                PlannedOK, AlignedInv, OutcomeOK, AlignedOK, Applying
<1>2. CatalogInv /\ Inv /\ [Next]_vars => Inv'
  <2> SUFFICES ASSUME CatalogInv, Inv, [Next]_vars PROVE Inv'
    OBVIOUS
  <2>1. landed \in [Runs \X Change -> Nat]
    BY DEF WriteInv
  <2> QED BY <2>1, NextWrites, NextInspects, NextBefore, NextPlans, NextAligned
<1>3. CatalogInv /\ Inv => AccountIsAsDeclared
  <2> SUFFICES ASSUME CatalogInv, Inv, NEW r \in Runs, run[r].at = "ended", Alone(r),
                      NEW c \in DOMAIN run[r].results
               PROVE  /\ run[r].results[c] = "skipped" => InPlace(r, c)
                      /\ run[r].results[c] = "succeeded" => InPlace(r, c) \/ AnsweredByAnother(r, c)
    BY DEF AccountIsAsDeclared
  <2>1. /\ OutcomeOK(r) /\ AlignedOK(r) /\ run[r].at \in Applying /\ run[r].at # "idle"
        /\ c \in Change
    BY DEF AlignedInv, OutcomeOK, Applying
  <2>2. ASSUME landed[<<r, c>>] # 0 \/ actionOf(r, c) = "noop" PROVE InPlace(r, c)
    <3>1. actionOf(r, c) \in Writes \/ actionOf(r, c) = "noop"
      BY <2>1, <2>2 DEF WriteInv, LandedInv, LandedOK
    <3>2. CASE c[1] = "product"
      <4>1. c = <<"product", c[2]>>
        BY <2>1, <3>2 DEF Change
      <4>2. c[2] \in DOMAIN Declares[r].products
        BY <3>1, <3>2 DEF actionOf, productAction, Writes
      <4>3. ProductOK(r, c[2])
        BY <2>1, <4>2 DEF AlignedOK
      <4> QED BY <2>2, <3>2, <4>1, <4>3 DEF ProductOK, ProductInPlace, InPlace
    <3>3. CASE c[1] # "product"
      <4>1. c = <<"price", c[2]>>
        BY <2>1, <3>3 DEF Change
      <4>2. c[2] \in DOMAIN Declares[r].prices
        BY <3>1, <3>3 DEF actionOf, priceAction, Writes
      <4>3. PriceOK(r, c[2])
        BY <2>1, <4>2 DEF AlignedOK
      <4>4. \E i \in ownedPrice(r, c[2]) : PriceInPlace(r, c[2], i)
        BY <2>2, <4>1, <4>3 DEF PriceOK
      <4> QED BY <3>3, <4>4 DEF PriceInPlace, InPlace
    <3> QED BY <3>2, <3>3
  <2>3. ASSUME run[r].results[c] = "skipped" PROVE actionOf(r, c) = "noop"
    BY <2>1, <2>3 DEF OutcomeOK
  <2>4. ASSUME run[r].results[c] = "succeeded"
        PROVE  landed[<<r, c>>] # 0 \/ AnsweredByAnother(r, c)
    <3>1. PICK q \in Runs : landed[<<q, c>>] = 1 /\ keyOf(q, c) = keyOf(r, c)
      BY <2>1, <2>4 DEF WriteInv, SucceededInv, Succeeded, Answered
    <3>2. sameRequest(q, r, c)
      BY <3>1, SameKeys
    <3> QED BY <3>1, <3>2 DEF AnsweredByAnother
  <2> QED BY <2>2, <2>3, <2>4
<1> QED BY <1>1, <1>2, <1>3, CatalogAlways, PTL DEF Spec

=============================================================================
