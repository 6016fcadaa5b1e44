----------------------------- MODULE Browse_proofs -----------------------------
(* Proofs about Browse: whoever buys what a listing showed, however many
   listings are put together while admins edit and users buy, gets what it
   showed. *)
EXTENDS Browse, Store_proofs

-----------------------------------------------------------------------------
(* The inductive invariant *)

Deals == [product : Products, price : Int, lines : Nat, shown : SUBSET Looks]

BrowseTypes ==
    /\ StoreTypeOK
    /\ pc \in [Looks -> {"idle", "rows", "lines", "end"}]
    /\ answer \in [Looks -> {"none", "empty", "nothing", "listing", "error"}]
    /\ ask \in [Looks -> Asks \cup {NoAsk}]
    /\ todo \in [Looks -> SUBSET Kits]
    /\ repriced \in [Looks -> SUBSET Products]
    /\ \E S : seen \in [Looks -> S]
    /\ deals \in Seq(Deals)

(* What a listing has read of a product is on the shelf: a kit keeps its price
   and loses no line, and an item keeps its price unless an admin wrote it. *)
SeenFine(x, p) ==
    /\ p \in Products
    /\ seen[x][p] \in Offers
    /\ shelf[p].listed
    /\ p \in Kits => /\ seen[x][p].price = shelf[p].price
                     /\ seen[x][p].lines <= shelf[p].lines
    /\ p \notin repriced[x] => seen[x][p].price = shelf[p].price

(* A listing has read nothing before its first query answers, and is answered
   when it has read everything. *)
LookFine(x) ==
    /\ seen[x] = [p \in DOMAIN seen[x] |-> seen[x][p]]
    /\ todo[x] \subseteq DOMAIN seen[x]
    /\ \A p \in DOMAIN seen[x] : SeenFine(x, p)
    /\ answer[x] = "listing" => pc[x] = "end"

ShownAnswered == \A n \in 1..Len(deals) : \A x \in deals[n].shown : answer[x] = "listing"

BrowseInv ==
    /\ BrowseTypes /\ ShownAnswered /\ BoughtAsShown
    /\ \A x \in Looks : LookFine(x)

-----------------------------------------------------------------------------
LEMMA BrowseInvInit == Init => BrowseInv
<1> SUFFICES ASSUME Init PROVE BrowseInv
  OBVIOUS
<1>1. StoreTypeOK
  BY StoreTypeInit DEF Init
<1>2. DOMAIN <<>> = {} /\ <<>> = [p \in {} |-> <<>>[p]]
  OBVIOUS
<1>3. deals = <<>> /\ Len(deals) = 0 /\ deals \in Seq(Deals)
  BY DEF Init
<1>4. \E S : seen \in [Looks -> S]
  <2>1. seen \in [Looks -> {<<>>}]
    BY DEF Init
  <2> QED
    BY <2>1
<1>5. BrowseTypes
  BY <1>1, <1>3, <1>4 DEF Init, BrowseTypes
<1>6. ASSUME NEW x \in Looks
      PROVE  LookFine(x)
  BY <1>2 DEF Init, LookFine
<1>7. ShownAnswered /\ BoughtAsShown
  BY <1>3 DEF ShownAnswered, BoughtAsShown
<1> QED
  BY <1>5, <1>6, <1>7 DEF BrowseInv

(* A deal stays as good as it was while the listings it was shown are kept. *)
LEMMA DealsKept ==
    ASSUME BrowseInv, deals' = deals,
           \A x \in Looks : answer[x] = "listing" =>
                answer'[x] = "listing" /\ seen'[x] = seen[x] /\ repriced[x] \subseteq repriced'[x]
    PROVE  ShownAnswered' /\ BoughtAsShown'
<1>1. ASSUME NEW n \in 1..Len(deals), NEW x \in deals[n].shown
      PROVE  /\ x \in Looks /\ answer[x] = "listing" /\ answer'[x] = "listing"
             /\ seen'[x] = seen[x] /\ repriced[x] \subseteq repriced'[x]
  <2>1. deals[n] \in Deals
    BY DEF BrowseInv, BrowseTypes
  <2>2. x \in Looks
    BY <2>1 DEF Deals
  <2>3. answer[x] = "listing"
    BY DEF BrowseInv, ShownAnswered
  <2> QED
    BY <2>2, <2>3
<1>2. ShownAnswered'
  BY <1>1 DEF ShownAnswered
<1>3. BoughtAsShown'
  <2> SUFFICES ASSUME NEW n \in 1..Len(deals), NEW x \in deals[n].shown,
                      deals[n].product \in DOMAIN seen[x]
               PROVE  LET p == deals[n].product IN
                      /\ p \in Kits => deals[n].price = seen[x][p].price
                      /\ p \in Kits => deals[n].lines >= seen[x][p].lines
                      /\ p \notin repriced'[x] => deals[n].price = seen[x][p].price
    BY <1>1 DEF BoughtAsShown
  <2>1. /\ deals[n].product \in Kits => deals[n].price = seen[x][deals[n].product].price
        /\ deals[n].product \in Kits => deals[n].lines >= seen[x][deals[n].product].lines
        /\ deals[n].product \notin repriced[x] =>
                deals[n].price = seen[x][deals[n].product].price
    BY DEF BrowseInv, BoughtAsShown
  <2> QED
    BY <1>1, <2>1
<1> QED
  BY <1>2, <1>3

-----------------------------------------------------------------------------
(* What the store may do to an offer that somebody has read *)

OfferKept(p) ==
    shelf[p].listed =>
        /\ shelf'[p].listed
        /\ p \in Kits => shelf'[p].price = shelf[p].price /\ shelf[p].lines <= shelf'[p].lines

LEMMA OfferTypes ==
    ASSUME StoreTypeOK, NEW p \in Products
    PROVE  /\ shelf[p] \in Offers /\ shelf[p].listed \in BOOLEAN /\ shelf[p].price \in Nat
           /\ shelf[p].lines \in Nat
  BY DEF StoreTypeOK, Offers

LEMMA SameOffer ==
    ASSUME StoreTypeOK, NEW p \in Products, shelf'[p] = shelf[p]
    PROVE  OfferKept(p) /\ shelf'[p].price = shelf[p].price
  BY OfferTypes DEF OfferKept

LEMMA PurchaseKeeps ==
    ASSUME StoreTypeOK, NEW u \in Users, NEW q \in Products, Purchase(u, q), NEW p \in Products
    PROVE  OfferKept(p) /\ shelf'[p].price = shelf[p].price
<1>1. shelf' = [shelf EXCEPT ![q] = TakeOne(shelf[q])]
  BY DEF Purchase
<1>2. CASE p # q
  <2>1. shelf'[p] = shelf[p]
    BY <1>1, <1>2 DEF StoreTypeOK
  <2> QED
    BY <2>1, SameOffer
<1>3. CASE p = q
  <2>1. shelf'[p] = TakeOne(shelf[p])
    BY <1>1, <1>3 DEF StoreTypeOK
  <2>2. /\ TakeOne(shelf[p]).listed = shelf[p].listed
        /\ TakeOne(shelf[p]).price = shelf[p].price
        /\ TakeOne(shelf[p]).lines = shelf[p].lines
    BY OfferTypes DEF TakeOne, Offers
  <2> QED
    BY <2>1, <2>2, OfferTypes DEF OfferKept
<1> QED
  BY <1>2, <1>3

LEMMA EditKeeps ==
    ASSUME StoreTypeOK, EditItem \/ AddKit, NEW p \in Products
    PROVE  OfferKept(p)
<1>1. ASSUME NEW q \in Products, NEW o \in Offers, o.listed, PutOnShelf(q, o),
             q \in Kits => ~shelf[q].listed
      PROVE  OfferKept(p)
  <2>1. CASE p # q
    <3>1. shelf'[p] = shelf[p]
      BY <1>1, <2>1 DEF PutOnShelf, StoreTypeOK
    <3> QED
      BY <3>1, SameOffer
  <2>2. CASE p = q
    <3>1. shelf'[p] = o
      BY <1>1, <2>2 DEF PutOnShelf, StoreTypeOK
    <3> QED
      BY <1>1, <2>2, <3>1 DEF OfferKept
  <2> QED
    BY <2>1, <2>2
<1>2. CASE EditItem
  <2>1. PICK i \in Items, o \in NewOffers({1}) : UpsertItem(i, o)
    BY <1>2 DEF EditItem
  <2>2. o \in Offers /\ o.listed
    BY <2>1, NewOfferType
  <2>3. i \in Products /\ i \notin Kits
    BY StoreAssumption DEF StoreAssumption, Products
  <2> QED
    BY <1>1, <2>1, <2>2, <2>3 DEF UpsertItem
<1>3. CASE AddKit
  <2>1. PICK k \in Kits, o \in NewOffers(0..MaxLines) : CreateKit(k, o)
    BY <1>3 DEF AddKit
  <2>2. o \in Offers /\ o.listed
    <3>1. 0..MaxLines \subseteq Nat
      BY StoreAssumption DEF StoreAssumption
    <3> QED
      BY <2>1, <3>1, NewOfferType
  <2> QED
    BY <1>1, <2>1, <2>2 DEF CreateKit, Products
<1> QED
  BY <1>2, <1>3

LEMMA OthersKeep ==
    ASSUME StoreTypeOK, Link \/ Earn \/ GrowKit \/ Toggle, NEW p \in Products
    PROVE  OfferKept(p) /\ shelf'[p].price = shelf[p].price
<1>1. CASE Link \/ Earn
  <2>1. shelf' = shelf
    BY <1>1 DEF Link, LinkAccount, Earn, Credit
  <2> QED
    BY <2>1, SameOffer
<1>2. CASE GrowKit
  <2>1. PICK k \in Kits : shelf' = [shelf EXCEPT ![k] = [@ EXCEPT !.lines = shelf[k].lines + 1]]
    BY <1>2 DEF GrowKit, AddKitItem
  <2>2. CASE p # k
    <3>1. shelf'[p] = shelf[p]
      BY <2>1, <2>2 DEF StoreTypeOK
    <3> QED
      BY <3>1, SameOffer
  <2>3. CASE p = k
    <3>1. shelf'[p] = [shelf[p] EXCEPT !.lines = shelf[p].lines + 1]
      BY <2>1, <2>3 DEF StoreTypeOK
    <3>2. /\ shelf'[p].listed = shelf[p].listed /\ shelf'[p].price = shelf[p].price
          /\ shelf'[p].lines = shelf[p].lines + 1
      BY <3>1, OfferTypes DEF Offers
    <3> QED
      BY <3>2, OfferTypes DEF OfferKept
  <2> QED
    BY <2>2, <2>3
<1>3. CASE Toggle
  <2>1. PICK q \in Products, on \in BOOLEAN : shelf' = [shelf EXCEPT ![q] = [@ EXCEPT !.enabled = on]]
    BY <1>3 DEF Toggle, SetEnabled
  <2>2. CASE p # q
    <3>1. shelf'[p] = shelf[p]
      BY <2>1, <2>2 DEF StoreTypeOK
    <3> QED
      BY <3>1, SameOffer
  <2>3. CASE p = q
    <3>1. shelf'[p] = [shelf[p] EXCEPT !.enabled = on]
      BY <2>1, <2>3 DEF StoreTypeOK
    <3>2. /\ shelf'[p].listed = shelf[p].listed /\ shelf'[p].price = shelf[p].price
          /\ shelf'[p].lines = shelf[p].lines
      BY <3>1, OfferTypes DEF Offers
    <3> QED
      BY <3>2, OfferTypes DEF OfferKept
  <2> QED
    BY <2>2, <2>3
<1> QED
  BY <1>1, <1>2, <1>3

(* A listing that is left alone stays fine. *)
LEMMA LookKept ==
    ASSUME StoreTypeOK, StoreTypeOK', NEW x \in Looks, LookFine(x),
           seen'[x] = seen[x], todo'[x] \subseteq todo[x],
           answer'[x] = "listing" => pc'[x] = "end",
           \A p \in Products : /\ OfferKept(p)
                               /\ p \notin repriced'[x] =>
                                    p \notin repriced[x] /\ shelf'[p].price = shelf[p].price
    PROVE  LookFine(x)'
<1>1. ASSUME NEW p \in DOMAIN seen[x]
      PROVE  SeenFine(x, p)'
  <2>1. SeenFine(x, p) /\ p \in Products
    BY DEF LookFine, SeenFine
  <2>2. /\ shelf'[p].listed
        /\ p \in Kits => shelf'[p].price = shelf[p].price /\ shelf[p].lines <= shelf'[p].lines
        /\ p \notin repriced'[x] => p \notin repriced[x] /\ shelf'[p].price = shelf[p].price
    BY <2>1 DEF OfferKept, SeenFine
  <2>3. shelf[p].lines \in Nat /\ shelf'[p].lines \in Nat /\ seen[x][p].lines \in Nat
    BY <2>1 DEF SeenFine, StoreTypeOK, Offers
  <2>4. p \in Kits => seen[x][p].lines <= shelf'[p].lines
    BY <2>1, <2>2, <2>3 DEF SeenFine
  <2> QED
    BY <2>1, <2>2, <2>4 DEF SeenFine
<1> QED
  BY <1>1 DEF LookFine

-----------------------------------------------------------------------------
(* The steps *)

(* A listing asks, reads or answers; the store and the other listings are left
   alone. *)
LEMMA ReaderKeeps ==
    ASSUME BrowseInv, NEW x \in Looks, UNCHANGED <<storeVars, deals>>,
           pc[x] # "end",
           pc' \in [Looks -> {"idle", "rows", "lines", "end"}],
           answer' \in [Looks -> {"none", "empty", "nothing", "listing", "error"}],
           ask' \in [Looks -> Asks \cup {NoAsk}],
           todo' \in [Looks -> SUBSET Kits], repriced' \in [Looks -> SUBSET Products],
           \E S : seen' \in [Looks -> S],
           \A y \in Looks : y # x =>
                /\ pc'[y] = pc[y] /\ answer'[y] = answer[y] /\ seen'[y] = seen[y]
                /\ todo'[y] = todo[y] /\ repriced'[y] = repriced[y],
           LookFine(x)'
    PROVE  BrowseInv'
<1>1. StoreTypeOK /\ StoreTypeOK' /\ shelf' = shelf
  BY DEF BrowseInv, BrowseTypes, storeVars, StoreTypeOK
<1>2. BrowseTypes'
  BY <1>1 DEF BrowseInv, BrowseTypes
<1>3. answer[x] # "listing"
  BY DEF BrowseInv, LookFine
<1>4. ShownAnswered' /\ BoughtAsShown'
  BY <1>3, DealsKept
<1>5. \A p \in Products : OfferKept(p) /\ shelf'[p].price = shelf[p].price
  BY <1>1, SameOffer
<1>6. ASSUME NEW y \in Looks, y # x
      PROVE  LookFine(y)'
  <2>1. /\ LookFine(y) /\ seen'[y] = seen[y] /\ todo'[y] = todo[y]
        /\ answer'[y] = answer[y] /\ pc'[y] = pc[y] /\ repriced'[y] = repriced[y]
    BY <1>6 DEF BrowseInv
  <2>2. answer'[y] = "listing" => pc'[y] = "end"
    BY <2>1 DEF LookFine
  <2> QED
    BY <1>1, <1>5, <2>1, <2>2, LookKept
<1> QED
  BY <1>2, <1>4, <1>6 DEF BrowseInv

LEMMA AskKeeps ==
    ASSUME BrowseInv, NEW x \in Looks, NEW a \in Asks, Ask(x, a)
    PROVE  BrowseInv'
<1>1. /\ pc[x] = "idle" /\ pc' = [pc EXCEPT ![x] = "rows"]
      /\ UNCHANGED <<storeVars, seen, todo, answer, repriced, deals>>
      /\ StoreTypeOK /\ StoreTypeOK' /\ shelf' = shelf
      /\ answer[x] # "listing"
  BY DEF Ask, BrowseInv, BrowseTypes, storeVars, StoreTypeOK, LookFine
<1>2. \A p \in Products : OfferKept(p) /\ shelf'[p].price = shelf[p].price
  BY <1>1, SameOffer
<1>3. LookFine(x)'
  BY <1>1, <1>2, LookKept DEF BrowseInv
<1>4. ask' \in [Looks -> Asks \cup {NoAsk}]
  BY DEF Ask, BrowseInv, BrowseTypes
<1>5. pc' \in [Looks -> {"idle", "rows", "lines", "end"}]
  BY <1>1 DEF BrowseInv, BrowseTypes
<1>6. PICK S : seen \in [Looks -> S]
  BY DEF BrowseInv, BrowseTypes
<1> QED
  BY <1>1, <1>3, <1>4, <1>5, <1>6, ReaderKeeps DEF BrowseInv, BrowseTypes

LEMMA EndKeeps ==
    ASSUME BrowseInv, NEW x \in Looks, Show(x) \/ Fail(x)
    PROVE  BrowseInv'
<1>1. /\ pc[x] # "end" /\ pc' = [pc EXCEPT ![x] = "end"]
      /\ UNCHANGED <<storeVars, ask, seen, todo, repriced, deals>>
      /\ StoreTypeOK /\ StoreTypeOK' /\ shelf' = shelf
  BY DEF Show, Fail, End, BrowseInv, BrowseTypes, storeVars, StoreTypeOK
<1>2. PICK got \in {"empty", "nothing", "listing", "error"} : answer' = [answer EXCEPT ![x] = got]
  BY DEF Show, Fail, End
<1>3. \A p \in Products : OfferKept(p) /\ shelf'[p].price = shelf[p].price
  BY <1>1, SameOffer
<1>4. pc'[x] = "end"
  BY <1>1 DEF BrowseInv, BrowseTypes
<1>5. LookFine(x)'
  BY <1>1, <1>3, <1>4, LookKept DEF BrowseInv
<1> QED
  BY <1>1, <1>2, <1>5, ReaderKeeps DEF BrowseInv, BrowseTypes

LEMMA ReadRowsKeeps ==
    ASSUME BrowseInv, NEW x \in Looks, ReadRows(x)
    PROVE  BrowseInv'
<1> DEFINE rows == [p \in Found(x) |-> shelf[p]]
<1>1. /\ pc[x] = "rows" /\ pc' = [pc EXCEPT ![x] = "lines"]
      /\ seen' = [seen EXCEPT ![x] = rows]
      /\ repriced' = [repriced EXCEPT ![x] = {}]
      /\ todo' = [todo EXCEPT ![x] = Found(x) \cap Kits]
      /\ UNCHANGED <<storeVars, ask, answer, deals>> /\ shelf' = shelf /\ StoreTypeOK
      /\ answer[x] # "listing"
  BY DEF ReadRows, BrowseInv, BrowseTypes, storeVars, LookFine
<1> HIDE DEF rows
<1>2. /\ seen'[x] = rows /\ \A y \in Looks : y # x => seen'[y] = seen[y]
      /\ todo'[x] = Found(x) \cap Kits
  BY <1>1 DEF BrowseInv, BrowseTypes
<1>3. \E S : seen' \in [Looks -> S]
  <2>1. PICK S : seen \in [Looks -> S]
    BY DEF BrowseInv, BrowseTypes
  <2>2. seen' \in [Looks -> S \cup {rows}]
    BY <1>1, <2>1
  <2> QED
    BY <2>2
<1>4. LookFine(x)'
  <2>1. DOMAIN rows = Found(x) /\ rows = [p \in DOMAIN rows |-> rows[p]]
    BY DEF rows
  <2>2. ASSUME NEW p \in Found(x), p \in Products
        PROVE  SeenFine(x, p)'
    <3>1. rows[p] = shelf[p] /\ shelf[p].listed
      BY DEF rows, Found
    <3>2. shelf[p] \in Offers /\ shelf[p].lines <= shelf[p].lines
      BY <1>1, <2>2, OfferTypes
    <3> QED
      BY <1>1, <1>2, <2>2, <3>1, <3>2 DEF SeenFine
  <2>3. Found(x) \subseteq Products
    <3>1. ask[x] \in Asks \cup {NoAsk}
      BY DEF BrowseInv, BrowseTypes
    <3>2. ask[x].kind \in {Items, Kits, {}}
      BY <3>1 DEF Asks, NoAsk
    <3> QED
      BY <3>2 DEF Found, Products
  <2> QED
    BY <1>1, <1>2, <2>1, <2>2, <2>3 DEF LookFine
<1> QED
  BY <1>1, <1>2, <1>3, <1>4, ReaderKeeps DEF BrowseInv, BrowseTypes

LEMMA ReadLinesKeeps ==
    ASSUME BrowseInv, NEW x \in Looks, ReadLines(x)
    PROVE  BrowseInv'
<1>1. /\ pc[x] = "lines" /\ StoreTypeOK /\ LookFine(x)
      /\ UNCHANGED <<storeVars, pc, ask, answer, repriced, deals>>
      /\ answer[x] # "listing" /\ shelf' = shelf
  BY DEF ReadLines, BrowseInv, BrowseTypes, storeVars, LookFine
<1>2. PICK k \in todo[x] : /\ seen' = [seen EXCEPT ![x][k].lines = shelf[k].lines]
                           /\ todo' = [todo EXCEPT ![x] = @ \ {k}]
  BY DEF ReadLines
<1> DEFINE row == [seen[x][k] EXCEPT !.lines = shelf[k].lines]
           rows == [seen[x] EXCEPT ![k] = row]
<1>3. k \in DOMAIN seen[x] /\ k \in Products /\ SeenFine(x, k) /\ k \in Kits
      /\ todo' \in [Looks -> SUBSET Kits] /\ todo'[x] \subseteq todo[x]
  BY <1>1, <1>2 DEF LookFine, SeenFine, BrowseInv, BrowseTypes
<1>4. /\ seen' = [seen EXCEPT ![x] = rows]
  BY <1>2
<1>5. /\ row.price = seen[x][k].price /\ row.lines = shelf[k].lines /\ row \in Offers
  <2>1. seen[x][k] \in Offers /\ shelf[k].lines \in Nat
    BY <1>1, <1>3, OfferTypes DEF SeenFine
  <2> QED
    BY <2>1 DEF Offers
<1> HIDE DEF row
<1>6. /\ DOMAIN rows = DOMAIN seen[x] /\ rows[k] = row
      /\ \A p \in DOMAIN seen[x] : p # k => rows[p] = seen[x][p]
      /\ rows = [p \in DOMAIN rows |-> rows[p]]
  BY <1>1, <1>3 DEF LookFine
<1> HIDE DEF rows
<1>7. /\ seen'[x] = rows /\ \A y \in Looks : y # x => seen'[y] = seen[y]
  BY <1>4 DEF BrowseInv, BrowseTypes
<1>8. \E S : seen' \in [Looks -> S]
  <2>1. PICK S : seen \in [Looks -> S]
    BY DEF BrowseInv, BrowseTypes
  <2>2. seen' \in [Looks -> S \cup {rows}]
    BY <1>4, <2>1
  <2> QED
    BY <2>2
<1>9. ASSUME NEW p \in DOMAIN rows
      PROVE  SeenFine(x, p)'
  <2>1. CASE p = k
    <3>1. shelf[k].lines <= shelf[k].lines
      BY <1>1, <1>3, OfferTypes
    <3> QED
      BY <1>1, <1>3, <1>5, <1>6, <1>7, <2>1, <3>1 DEF SeenFine
  <2>2. CASE p # k
    <3>1. p \in DOMAIN seen[x] /\ SeenFine(x, p) /\ rows[p] = seen[x][p]
      BY <1>1, <1>6, <2>2 DEF LookFine
    <3> QED
      BY <1>1, <1>7, <3>1 DEF SeenFine
  <2> QED
    BY <2>1, <2>2
<1>10. LookFine(x)'
  BY <1>1, <1>3, <1>6, <1>7, <1>9 DEF LookFine
<1> QED
  BY <1>1, <1>2, <1>3, <1>7, <1>8, <1>10, ReaderKeeps DEF BrowseInv, BrowseTypes

(* A step of the store that nobody is reading. *)
LEMMA OffersKeep ==
    ASSUME BrowseInv, StoreTypeOK',
           UNCHANGED <<pc, ask, seen, todo, answer>>, deals' \in Seq(Deals),
           repriced' \in [Looks -> SUBSET Products],
           \A x \in Looks : repriced[x] \subseteq repriced'[x],
           \A p \in Products : OfferKept(p),
           \A p \in Products : \A x \in Looks :
                p \notin repriced'[x] => shelf'[p].price = shelf[p].price,
           ShownAnswered', BoughtAsShown'
    PROVE  BrowseInv'
<1>1. BrowseTypes'
  BY DEF BrowseInv, BrowseTypes
<1>2. ASSUME NEW x \in Looks
      PROVE  LookFine(x)'
  <2>1. LookFine(x) /\ StoreTypeOK /\ (answer'[x] = "listing" => pc'[x] = "end")
    BY DEF BrowseInv, BrowseTypes, LookFine
  <2> QED
    BY <2>1, LookKept
<1> QED
  BY <1>1, <1>2 DEF BrowseInv

LEMMA SellKeeps ==
    ASSUME BrowseInv, NEW u \in Users, NEW p \in Products, Sell(u, p)
    PROVE  BrowseInv'
<1> DEFINE shown == {x \in Looks : answer[x] = "listing" /\ ask[x].user = u}
           deal == [product |-> p, price |-> -txns'[Len(txns')].amount,
                    lines |-> shelf[p].lines, shown |-> shown]
<1>1. /\ StoreTypeOK /\ Purchase(u, p) /\ deals \in Seq(Deals)
      /\ deals' = Append(deals, deal)
      /\ UNCHANGED <<pc, ask, seen, todo, answer, repriced>>
  BY DEF Sell, BrowseInv, BrowseTypes
<1>2. StoreTypeOK' /\ \A q \in Products : OfferKept(q) /\ shelf'[q].price = shelf[q].price
  BY <1>1, PurchaseType, PurchaseKeeps
<1>3. shelf[p].price \in Nat /\ shelf[p].lines \in Nat
  BY <1>1, OfferTypes
<1>4. -txns'[Len(txns')].amount = shelf[p].price
  <2>1. txns' = Append(txns, SpendRow(u, p)) /\ txns \in Seq(Rows)
    BY <1>1 DEF Purchase, StoreTypeOK
  <2>2. Len(txns') = Len(txns) + 1 /\ txns'[Len(txns) + 1] = SpendRow(u, p)
    BY <2>1
  <2>3. SpendRow(u, p).amount = -shelf[p].price
    BY DEF SpendRow
  <2> QED
    BY <1>3, <2>2, <2>3
<1>5. /\ deal \in Deals /\ deal.product = p /\ deal.price = shelf[p].price
      /\ deal.lines = shelf[p].lines /\ deal.shown = shown
  BY <1>3, <1>4 DEF Deals
<1> HIDE DEF deal
<1>6. /\ deals' \in Seq(Deals) /\ Len(deals') = Len(deals) + 1 /\ Len(deals) \in Nat
      /\ deals'[Len(deals) + 1] = deal
      /\ \A n \in 1..Len(deals) : deals'[n] = deals[n]
  BY <1>1, <1>5
<1>7. \A n \in 1..Len(deals') : n \in 1..Len(deals) \/ n = Len(deals) + 1
  BY <1>6
<1>8. ShownAnswered'
  <2> SUFFICES ASSUME NEW n \in 1..Len(deals'), NEW x \in deals'[n].shown
               PROVE  answer[x] = "listing"
    BY <1>1 DEF ShownAnswered
  <2>1. CASE n \in 1..Len(deals)
    BY <1>6, <2>1 DEF BrowseInv, ShownAnswered
  <2>2. CASE n = Len(deals) + 1
    BY <1>5, <1>6, <2>2
  <2> QED
    BY <1>7, <2>1, <2>2
<1>9. BoughtAsShown'
  <2> SUFFICES ASSUME NEW n \in 1..Len(deals'), NEW x \in deals'[n].shown,
                      NEW q, q = deals'[n].product, q \in DOMAIN seen[x]
               PROVE  /\ q \in Kits => deals'[n].price = seen[x][q].price
                      /\ q \in Kits => deals'[n].lines >= seen[x][q].lines
                      /\ q \notin repriced[x] => deals'[n].price = seen[x][q].price
    BY <1>1 DEF BoughtAsShown
  <2>1. CASE n \in 1..Len(deals)
    <3>1. deals'[n] = deals[n]
      BY <1>6, <2>1
    <3> QED
      BY <2>1, <3>1 DEF BrowseInv, BoughtAsShown
  <2>2. CASE n = Len(deals) + 1
    <3>1. deals'[n] = deal /\ q = p /\ x \in Looks
      BY <1>5, <1>6, <2>2
    <3>2. SeenFine(x, p)
      BY <3>1 DEF BrowseInv, LookFine
    <3>3. seen[x][p].lines \in Nat
      BY <3>2 DEF SeenFine, Offers
    <3> QED
      BY <1>3, <1>5, <3>1, <3>2, <3>3 DEF SeenFine
  <2> QED
    BY <1>7, <2>1, <2>2
<1> QED
  BY <1>1, <1>2, <1>6, <1>8, <1>9, OffersKeep DEF BrowseInv, BrowseTypes

LEMMA BrowseInvStep ==
    ASSUME BrowseInv, [Next]_vars
    PROVE  BrowseInv'
<1>1. StoreTypeOK /\ deals \in Seq(Deals) /\ repriced \in [Looks -> SUBSET Products]
  BY DEF BrowseInv, BrowseTypes
<1>2. CASE \E x \in Looks : Reader(x) \/ Fail(x) \/ \E a \in Asks : Ask(x, a)
  BY <1>2, ReadRowsKeeps, ReadLinesKeeps, EndKeeps, AskKeeps DEF Reader
<1>3. CASE \E u \in Users, p \in Products : Sell(u, p)
  BY <1>3, SellKeeps
<1>4. CASE Edit
  <2>1. /\ EditItem \/ AddKit
        /\ repriced' = [x \in Looks |-> repriced[x] \cup {p \in Products : shelf'[p] # shelf[p]}]
        /\ UNCHANGED <<pc, ask, seen, todo, answer, deals>>
    BY <1>4 DEF Edit
  <2>2. StoreTypeOK' /\ \A p \in Products : OfferKept(p)
    BY <1>1, <2>1, StoreTypeStep, EditKeeps DEF StoreNext, EditKit
  <2>3. /\ repriced' \in [Looks -> SUBSET Products]
        /\ \A x \in Looks : repriced[x] \subseteq repriced'[x]
        /\ \A p \in Products : \A x \in Looks :
                p \notin repriced'[x] => shelf'[p].price = shelf[p].price
    BY <1>1, <2>1
  <2>4. ShownAnswered' /\ BoughtAsShown'
    BY <2>1, <2>3, DealsKept
  <2> QED
    BY <1>1, <2>1, <2>2, <2>3, <2>4, OffersKeep
<1>5. CASE Others
  <2>1. /\ Link \/ Earn \/ GrowKit \/ Toggle
        /\ UNCHANGED <<pc, ask, seen, todo, answer, repriced, deals>>
    BY <1>5 DEF Others, browseVars
  <2>2. StoreTypeOK' /\ \A p \in Products : OfferKept(p) /\ shelf'[p].price = shelf[p].price
    BY <1>1, <2>1, StoreTypeStep, OthersKeep DEF StoreNext, EditKit
  <2>3. ShownAnswered' /\ BoughtAsShown'
    BY <2>1, DealsKept
  <2> QED
    BY <1>1, <2>1, <2>2, <2>3, OffersKeep
<1>6. CASE UNCHANGED vars
  <2>1. UNCHANGED <<shelf, pc, ask, seen, todo, answer, repriced, deals>>
    BY <1>6 DEF vars, storeVars, browseVars
  <2>2. StoreTypeOK'
    BY <1>1, <1>6 DEF vars, storeVars, StoreTypeOK
  <2>3. \A p \in Products : OfferKept(p) /\ shelf'[p].price = shelf[p].price
    BY <1>1, <2>1, SameOffer
  <2>4. ShownAnswered' /\ BoughtAsShown'
    BY <2>1, DealsKept
  <2> QED
    BY <1>1, <2>1, <2>2, <2>3, <2>4, OffersKeep
<1> QED
  BY <1>2, <1>3, <1>4, <1>5, <1>6 DEF Next

(* What a listing has read stays true while it runs: a kit keeps its price and
   loses no line, an item keeps its price unless an admin wrote it, and nothing
   is shown that was not read (kits.go:104-129, catalog.go). *)
THEOREM BrowseInvCorrect == Spec => []BrowseInv
<1> QED
  BY BrowseInvInit, BrowseInvStep, PTL DEF Spec

(* BoughtAsShown is a property of the runs: ListKits puts a listing together
   from several queries and the purchase reads the offer again, yet a buyer pays
   the price that was shown unless an admin wrote it since, and gets of a kit at
   least the lines that were shown (kits.go:104-129, handlers.go:188, 261). *)
THEOREM BoughtCorrect == Spec => []BoughtAsShown
<1>1. BrowseInv => BoughtAsShown
  BY DEF BrowseInv
<1> QED
  BY <1>1, BrowseInvCorrect, PTL
=============================================================================
