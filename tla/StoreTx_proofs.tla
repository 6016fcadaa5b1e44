----------------------------- MODULE StoreTx_proofs -----------------------------
(* Proofs about StoreTx: the transactions of the store, statement by statement,
   change the committed tables as the operations of Store do. *)
EXTENDS StoreTx, Store_proofs

-----------------------------------------------------------------------------
(* The invariant.  A purchase past its SELECT ... FOR UPDATE holds the product,
   and past its debit the wallet; a credit past its UPDATE holds the wallet.
   What each of them read there is therefore still what is committed. *)

(* Which call runs which statement. *)
RunsItsOwn(t) ==
    LET op == call[t].op IN
    /\ pc[t] # "idle" => call[t] \in Calls
    /\ pc[t] \in {"lock", "kitItems"} => op = "purchase"
    /\ pc[t] \in {"wallet", "record"} => op \in {"purchase", "credit"}
    /\ pc[t] \in {"upsert", "unique", "ensureWallet"} => op = "link"
    /\ pc[t] = "commit" => op \in {"purchase", "credit", "link"}
    /\ pc[t] = "single" => op \in {"grow", "edit", "toggle", "settle"}

HoldsProduct(t) ==
    call[t].op = "purchase" /\ pc[t] \in {"kitItems", "wallet", "record", "commit"} =>
        LET p == call[t].product  o == pending[t].offer IN
        /\ locks[ProductRow(p)] = t
        /\ o = shelf[p]
        /\ o.listed /\ o.enabled /\ (o.limited => o.stock > 0)
        /\ pc[t] # "kitItems" => o.lines # 0

HoldsWallet(t) ==
    call[t].op \in {"purchase", "credit"} /\ pc[t] \in {"record", "commit"} =>
        LET u == call[t].user IN
        /\ locks[WalletRow(u)] = t
        /\ u \in wallets
        /\ pending[t].balance =
             balance[u] + (IF call[t].op = "purchase" THEN -pending[t].offer.price
                                                      ELSE call[t].amount)
        /\ pending[t].balance <= MaxBalance

Stands(t) == RunsItsOwn(t) /\ HoldsProduct(t) /\ HoldsWallet(t)

(* A /link that has passed the UNIQUE index is alone with its game account. *)
Taking(t) == call[t].op = "link" /\ pc[t] \in {"ensureWallet", "commit"}

AloneWithAccount ==
    \A t \in Txs : Taking(t) =>
        /\ \A v \in Users \ {call[t].user} : link[v] # call[t].game
        /\ \A x \in Txs \ {t} : Taking(x) => call[x].game # call[t].game

(* A kit that is to get another line has room for it. *)
RoomToGrow ==
    \A t \in Txs : call[t].op = "grow" =>
        /\ call[t].product \in Kits
        /\ shelf[call[t].product].lines < MaxLines
        /\ \A x \in Txs \ {t} : call[x] # call[t]

(* An item on the shelf is its own line. *)
ItemsAreLines == \A i \in Items : shelf[i].listed => shelf[i].lines = 1

Running == {t \in Txs : pc[t] \in Statements}

TxInv ==
    /\ StoreTypeOK
    /\ TypeOK /\ IsFiniteSet(Running)
    /\ \A t \in Txs : Stands(t)
    /\ AloneWithAccount /\ RoomToGrow /\ ItemsAreLines

-----------------------------------------------------------------------------
(* The calls and the locks *)

LEMMA CallFields ==
    ASSUME NEW c \in Calls
    PROVE  /\ c.op \in {"purchase", "credit", "link", "grow", "edit", "toggle", "settle"}
           /\ c.op \in {"purchase", "credit", "link"} => c.user \in Users
           /\ c.op \in {"purchase", "grow", "edit", "toggle"} => c.product \in Products
           /\ c.op = "credit" => c.amount \in Amounts
           /\ c.op = "link" => c.game \in GameAccounts
  BY DEF Calls

LEMMA RowTypes ==
    /\ \A u \in Users : WalletRow(u) \in LockRows /\ AccountRow(u) \in LockRows
    /\ \A p \in Products : ProductRow(p) \in LockRows
    /\ \A u \in Users, p \in Products : WalletRow(u) # ProductRow(p) /\ AccountRow(u) # ProductRow(p)
    /\ \A u, v \in Users : AccountRow(u) # WalletRow(v)
  BY DEF LockRows, WalletRow, AccountRow, ProductRow

(* A statement that is At its turn found the row it is about to lock free. *)
LEMMA RowIsFree ==
    ASSUME NEW t
    PROVE  /\ At(t, "lock") => locks[ProductRow(call[t].product)] = None
           /\ At(t, "wallet") /\ call[t].op = "purchase" /\ CanPay(t) =>
                locks[WalletRow(call[t].user)] = None
           /\ At(t, "wallet") /\ call[t].op = "credit" =>
                locks[WalletRow(call[t].user)] = None
           /\ At(t, "upsert") => locks[AccountRow(call[t].user)] = None
           /\ At(t, "unique") => Claimants(call[t].game) \subseteq {t}
           /\ At(t, "single") /\ call[t].op # "settle" =>
                locks[ProductRow(call[t].product)] = None
<1>1. \A r : Holder(r) = {} => locks[r] = None
  BY DEF Holder
<1>2. At(t, "lock") => Holder(ProductRow(call[t].product)) = {}
  BY Zenon DEF At, WaitsFor
<1>3. At(t, "wallet") /\ (call[t].op = "purchase" => CanPay(t))
        => Holder(WalletRow(call[t].user)) = {}
  BY Zenon DEF At, WaitsFor
<1>4. At(t, "upsert") => Holder(AccountRow(call[t].user)) \cup shares[call[t].user] = {}
  BY Zenon DEF At, WaitsFor
<1>5. At(t, "unique") => Claimants(call[t].game) \ {t} = {}
  BY Zenon DEF At, WaitsFor
<1>6. At(t, "single") /\ call[t].op # "settle"
        => Holder(ProductRow(call[t].product)) = {}
  BY Zenon DEF At, WaitsFor
<1> QED
  BY <1>1, <1>2, <1>3, <1>4, <1>5, <1>6

LEMMA FirstStatementIs ==
    ASSUME NEW c
    PROVE  /\ c.op = "purchase" => FirstStatement(c) = "lock"
           /\ c.op = "credit" => FirstStatement(c) = "wallet"
           /\ c.op = "link" => FirstStatement(c) = "upsert"
           /\ c.op \notin {"purchase", "credit", "link"} => FirstStatement(c) = "single"
  BY Zenon DEF FirstStatement

-----------------------------------------------------------------------------
(* Types.  Taking a connection and giving one back are counted. *)

LEMMA FinishTypes ==
    ASSUME TypeOK, IsFiniteSet(Running), NEW t \in Txs, pc[t] \in Statements, Finish(t)
    PROVE  TypeOK' /\ IsFiniteSet(Running)'
<1>1. Running' = Running \ {t} /\ t \in Running
  BY DEF Finish, Goto, TypeOK, Running, Labels, Statements
<1>2. IsFiniteSet(Running') /\ Cardinality(Running') = Cardinality(Running) - 1
  BY <1>1, FS_RemoveElement
<1>3. Cardinality(Running) \in Nat /\ MaxConns \in Nat
  BY FS_CardinalityType, TxAssumption DEF TxAssumption
<1>4. conns' = MaxConns - Cardinality(Running')
  BY <1>2, <1>3 DEF Finish, TypeOK, Running
<1>5. pc' \in [Txs -> Labels] /\ call' \in [Txs -> Calls \cup {NoCall}]
  BY DEF Finish, Goto, TypeOK, Labels
<1>6. pending' \in [Txs -> [offer : Offers, balance : Nat]]
  BY DEF Finish, TypeOK, Nothing, Unlisted, Offers
<1>7. locks' \in [LockRows -> Txs \cup {None}] /\ shares' \in [Users -> SUBSET Txs]
  BY DEF Finish, TypeOK
<1> QED
  BY <1>2, <1>4, <1>5, <1>6, <1>7 DEF TypeOK, Running

LEMMA BeginTypes ==
    ASSUME TypeOK, IsFiniteSet(Running), NEW t \in Txs, Begin(t)
    PROVE  TypeOK' /\ IsFiniteSet(Running)'
<1>1. FirstStatement(call[t]) \in Statements
  BY FirstStatementIs DEF Statements
<1>2. Running' = Running \cup {t} /\ t \notin Running
  BY <1>1 DEF Begin, Goto, TypeOK, Running, Statements
<1>3. IsFiniteSet(Running') /\ Cardinality(Running') = Cardinality(Running) + 1
  BY <1>2, FS_AddElement
<1>4. Cardinality(Running) \in Nat /\ MaxConns \in Nat
  BY FS_CardinalityType, TxAssumption DEF TxAssumption
<1>5. conns' = MaxConns - Cardinality(Running')
  BY <1>3, <1>4 DEF Begin, TypeOK, Running
<1> QED
  BY <1>1, <1>3, <1>5 DEF Begin, Goto, TypeOK, Running, Labels

(* Every other step leaves t with its connection, or without. *)
LEMMA GotoTypes ==
    ASSUME TypeOK, IsFiniteSet(Running), NEW t \in Txs, NEW label \in Labels,
           pc[t] \in Statements <=> label \in Statements,
           Goto(t, label), conns' = conns,
           call' \in [Txs -> Calls \cup {NoCall}],
           pending' \in [Txs -> [offer : Offers, balance : Nat]],
           locks' \in [LockRows -> Txs \cup {None}],
           shares' \in [Users -> SUBSET Txs]
    PROVE  TypeOK' /\ IsFiniteSet(Running)'
<1>1. Running' = Running
  BY DEF Goto, TypeOK, Running
<1> QED
  BY <1>1 DEF Goto, TypeOK, Running

-----------------------------------------------------------------------------
(* What a step of t leaves to the others. *)

OthersStay(t) ==
    \A x \in Txs \ {t} : pc'[x] = pc[x] /\ call'[x] = call[x] /\ pending'[x] = pending[x]

LocksStay(t) ==
    \A r \in LockRows : locks[r] \notin {None, t} => locks'[r] = locks[r]

RowsStay(t) ==
    /\ \A p \in Products : locks[ProductRow(p)] \notin {None, t} => shelf'[p] = shelf[p]
    /\ \A u \in Users : locks[WalletRow(u)] \notin {None, t} => balance'[u] = balance[u]
    /\ wallets \subseteq wallets'

LEMMA OthersStand ==
    ASSUME TypeOK, NEW t \in Txs, OthersStay(t), LocksStay(t), RowsStay(t),
           \A x \in Txs : Stands(x), Stands(t)'
    PROVE  \A x \in Txs : Stands(x)'
<1> SUFFICES ASSUME NEW x \in Txs \ {t}
             PROVE  Stands(x)'
  OBVIOUS
<1>1. /\ pc'[x] = pc[x] /\ call'[x] = call[x] /\ pending'[x] = pending[x]
      /\ x \notin {None, t} /\ Stands(x)
  BY TxAssumption DEF TxAssumption, OthersStay
<1>2. RunsItsOwn(x)'
  BY <1>1 DEF Stands, RunsItsOwn
<1>3. call[x].op \in {"purchase", "credit"} => call[x] \in Calls
  BY DEF TypeOK, NoCall
<1>4. HoldsProduct(x)'
  <2> SUFFICES ASSUME call[x].op = "purchase",
                      pc[x] \in {"kitItems", "wallet", "record", "commit"}
               PROVE  HoldsProduct(x)'
    BY <1>1 DEF HoldsProduct
  <2>1. call[x].product \in Products
    BY <1>3, CallFields
  <2>2. locks[ProductRow(call[x].product)] = x
    BY <1>1 DEF Stands, HoldsProduct
  <2>3. locks'[ProductRow(call[x].product)] = x
    BY <2>1, <2>2, <1>1, RowTypes DEF LocksStay
  <2>4. shelf'[call[x].product] = shelf[call[x].product]
    BY <2>1, <2>2, <1>1 DEF RowsStay
  <2> QED
    BY <1>1, <2>3, <2>4 DEF Stands, HoldsProduct
<1>5. HoldsWallet(x)'
  <2> SUFFICES ASSUME call[x].op \in {"purchase", "credit"}, pc[x] \in {"record", "commit"}
               PROVE  HoldsWallet(x)'
    BY <1>1 DEF HoldsWallet
  <2>1. call[x].user \in Users
    BY <1>3, CallFields
  <2>2. locks[WalletRow(call[x].user)] = x /\ call[x].user \in wallets
    BY <1>1 DEF Stands, HoldsWallet
  <2>3. locks'[WalletRow(call[x].user)] = x
    BY <2>1, <2>2, <1>1, RowTypes DEF LocksStay
  <2>4. balance'[call[x].user] = balance[call[x].user] /\ call[x].user \in wallets'
    BY <2>1, <2>2, <1>1 DEF RowsStay
  <2> QED
    BY <1>1, <2>3, <2>4 DEF Stands, HoldsWallet
<1> QED
  BY <1>2, <1>4, <1>5 DEF Stands

LEMMA AloneKeeps ==
    ASSUME AloneWithAccount, NEW t \in Txs, OthersStay(t), link' = link,
           Taking(t)' => Taking(t) /\ call'[t] = call[t]
    PROVE  AloneWithAccount'
<1>1. \A x \in Txs : Taking(x)' => Taking(x) /\ call'[x] = call[x]
  BY DEF OthersStay, Taking
<1> QED
  BY <1>1 DEF AloneWithAccount

(* Room stays, unless t itself adds the line. *)
LEMMA RoomKeeps ==
    ASSUME TypeOK, RoomToGrow, NEW t \in Txs, OthersStay(t), call'[t] \in {call[t], NoCall},
           \A p \in Kits : \/ shelf[p].lines < MaxLines => shelf'[p].lines < MaxLines
                           \/ call[t] = [op |-> "grow", product |-> p] /\ call'[t] = NoCall
    PROVE  RoomToGrow'
<1> SUFFICES ASSUME NEW x \in Txs, call'[x].op = "grow"
             PROVE  /\ call'[x].product \in Kits
                    /\ shelf'[call'[x].product].lines < MaxLines
                    /\ \A y \in Txs \ {x} : call'[y] # call'[x]
  BY DEF RoomToGrow
<1>1. \A y \in Txs : call'[y] \in {call[y], NoCall}
  BY DEF OthersStay
<1>2. call'[x] = call[x] /\ call'[x] # NoCall
  BY <1>1 DEF NoCall
<1>3. /\ call[x].product \in Kits
      /\ shelf[call[x].product].lines < MaxLines
      /\ \A y \in Txs \ {x} : call[y] # call[x]
  BY <1>2 DEF RoomToGrow
<1>4. call[x] = [op |-> "grow", product |-> call[x].product]
  BY <1>2 DEF TypeOK, Calls, NoCall
<1>5. ~(call[t] = [op |-> "grow", product |-> call[x].product] /\ call'[t] = NoCall)
  BY <1>2, <1>3, <1>4
<1>6. \A y \in Txs \ {x} : call'[y] # call'[x]
  BY <1>1, <1>2, <1>3
<1> QED
  BY <1>2, <1>3, <1>5, <1>6

(* A statement that is not the last writes nothing anybody else sees. *)
LEMMA WithinKeeps ==
    ASSUME TxInv, NEW t \in Txs, UNCHANGED storeVars,
           TypeOK', IsFiniteSet(Running)',
           OthersStay(t), LocksStay(t), Stands(t)',
           call'[t] \in {call[t], NoCall},
           Taking(t)' => Taking(t) /\ call'[t] = call[t]
    PROVE  TxInv'
<1>1. StoreTypeOK' /\ ItemsAreLines' /\ RowsStay(t)
  BY DEF storeVars, TxInv, StoreTypeOK, ItemsAreLines, RowsStay
<1>2. \A x \in Txs : Stands(x)'
  BY <1>1, OthersStand DEF TxInv
<1>3. AloneWithAccount'
  BY AloneKeeps DEF TxInv, storeVars
<1>4. RoomToGrow'
  BY RoomKeeps DEF TxInv, storeVars
<1> QED
  BY <1>1, <1>2, <1>3, <1>4 DEF TxInv

-----------------------------------------------------------------------------
(* Each step keeps the invariant. *)

(* A free row is locked, or none is. *)
LEMMA LockStays ==
    ASSUME TypeOK, NEW t \in Txs, NEW r \in LockRows,
           locks' = locks \/ (locks[r] = None /\ Lock(t, r))
    PROVE  LocksStay(t) /\ locks' \in [LockRows -> Txs \cup {None}]
  BY DEF LocksStay, Lock, TypeOK

LEMMA FinishStays ==
    ASSUME TypeOK, NEW t \in Txs, Finish(t)
    PROVE  /\ OthersStay(t) /\ LocksStay(t) /\ Stands(t)' /\ ~Taking(t)'
           /\ call'[t] = NoCall
<1>1. pc'[t] = "idle" /\ call'[t] = NoCall
  BY DEF Finish, Goto, TypeOK
<1>2. Stands(t)' /\ ~Taking(t)'
  BY <1>1 DEF Stands, RunsItsOwn, HoldsProduct, HoldsWallet, Taking, NoCall
<1>3. OthersStay(t)
  BY DEF Finish, Goto, TypeOK, OthersStay
<1>4. LocksStay(t)
  BY DEF Finish, LocksStay
<1> QED
  BY <1>1, <1>2, <1>3, <1>4

LEMMA RollbackKeeps ==
    ASSUME TxInv, NEW t \in Txs, pc[t] \in Statements, Rollback(t)
    PROVE  TxInv'
<1>1. TypeOK' /\ IsFiniteSet(Running)'
  BY FinishTypes DEF TxInv, Rollback
<1>2. /\ OthersStay(t) /\ LocksStay(t) /\ Stands(t)' /\ ~Taking(t)'
      /\ call'[t] = NoCall
  BY FinishStays DEF TxInv, Rollback
<1> QED
  BY <1>1, <1>2, WithinKeeps DEF Rollback

LEMMA CallKeeps ==
    ASSUME TxInv, NEW t \in Txs, NEW c \in Calls, Call(t, c)
    PROVE  TxInv'
<1>1. /\ TypeOK /\ Goto(t, "begin") /\ call' = [call EXCEPT ![t] = c]
      /\ UNCHANGED <<storeVars, conns, pending, locks, shares>>
  BY DEF Call, TxInv
<1>2. TypeOK' /\ IsFiniteSet(Running)'
  <2>1. call' \in [Txs -> Calls \cup {NoCall}]
    BY <1>1 DEF TypeOK
  <2>2. "begin" \in Labels /\ "begin" \notin Statements /\ pc[t] \notin Statements
    BY DEF Labels, Statements, Call
  <2> QED
    BY <1>1, <2>1, <2>2, GotoTypes DEF TxInv, TypeOK
<1>3. OthersStay(t) /\ LocksStay(t) /\ pc'[t] = "begin" /\ call'[t] = c
  BY <1>1 DEF TypeOK, Goto, OthersStay, LocksStay
<1>4. Stands(t)' /\ ~Taking(t)'
  BY <1>3 DEF Stands, RunsItsOwn, HoldsProduct, HoldsWallet, Taking
<1>5. /\ StoreTypeOK' /\ ItemsAreLines' /\ RowsStay(t)
      /\ link' = link /\ shelf' = shelf
  BY <1>1 DEF storeVars, TxInv, StoreTypeOK, ItemsAreLines, RowsStay
<1>6. \A x \in Txs : Stands(x)'
  BY <1>1, <1>3, <1>4, <1>5, OthersStand DEF TxInv
<1>7. AloneWithAccount'
  BY <1>3, <1>4, <1>5, AloneKeeps DEF TxInv
<1>8. RoomToGrow'
  <2>1. c.op = "grow" => /\ c.product \in Kits /\ shelf[c.product].lines < MaxLines
                         /\ \A x \in Txs : call[x] # c
    BY DEF Call, Sensible
  <2>2. \A x \in Txs : call'[x] = IF x = t THEN c ELSE call[x]
    BY <1>1 DEF TypeOK
  <2> QED
    BY <1>5, <2>1, <2>2 DEF TxInv, RoomToGrow
<1> QED
  BY <1>2, <1>5, <1>6, <1>7, <1>8 DEF TxInv

LEMMA BeginKeeps ==
    ASSUME TxInv, NEW t \in Txs, Begin(t)
    PROVE  TxInv'
<1>1. TypeOK /\ UNCHANGED <<storeVars, call, pending, locks, shares>>
  BY DEF Begin, TxInv
<1>2. TypeOK' /\ IsFiniteSet(Running)'
  BY BeginTypes DEF TxInv
<1>3. OthersStay(t) /\ LocksStay(t) /\ pc'[t] = FirstStatement(call[t]) /\ call'[t] = call[t]
  BY DEF TxInv, TypeOK, Begin, Goto, OthersStay, LocksStay
<1>4. call[t] \in Calls
  BY DEF Begin, TxInv, Stands, RunsItsOwn
<1>5. Stands(t)' /\ ~Taking(t)'
  BY <1>3, <1>4, FirstStatementIs, CallFields
     DEF Stands, RunsItsOwn, HoldsProduct, HoldsWallet, Taking
<1> QED
  BY <1>1, <1>2, <1>3, <1>5, WithinKeeps

LEMMA LockProductKeeps ==
    ASSUME TxInv, NEW t \in Txs, LockProduct(t)
    PROVE  TxInv'
<1> DEFINE p == call[t].product
           o == shelf[p]
<1>1. TypeOK /\ pc[t] = "lock" /\ call[t].op = "purchase" /\ p \in Products /\ o \in Offers
  BY CallFields DEF LockProduct, At, TxInv, Stands, RunsItsOwn, StoreTypeOK
<1>2. CASE Rollback(t)
  BY <1>1, <1>2, RollbackKeeps DEF Statements
<1>3. CASE /\ o.listed /\ o.enabled /\ (o.limited => o.stock > 0)
           /\ Lock(t, ProductRow(p))
           /\ pending' = [pending EXCEPT ![t].offer = o]
           /\ Goto(t, IF p \in Kits THEN "kitItems" ELSE "wallet")
           /\ UNCHANGED <<storeVars, conns, call, shares>>
  <2>1. locks[ProductRow(p)] = None /\ ProductRow(p) \in LockRows
    BY <1>1, RowIsFree, RowTypes DEF LockProduct
  <2>2. LocksStay(t) /\ locks' \in [LockRows -> Txs \cup {None}]
    BY <1>1, <1>3, <2>1, LockStays
  <2>3. OthersStay(t)
    BY <1>1, <1>3 DEF TypeOK, Goto, OthersStay
  <2>4. /\ pc'[t] = (IF p \in Kits THEN "kitItems" ELSE "wallet") /\ call'[t] = call[t]
        /\ pending'[t].offer = o /\ locks'[ProductRow(p)] = t
    BY <1>1, <1>3, <2>1 DEF TypeOK, Goto, Lock
  <2>5. p \notin Kits => o.lines = 1
    BY <1>1, <1>3 DEF TxInv, ItemsAreLines, Products
  <2>6. Stands(t)' /\ ~Taking(t)'
    BY <1>1, <1>3, <2>4, <2>5
       DEF TxInv, Stands, RunsItsOwn, HoldsProduct, HoldsWallet, Taking, storeVars
  <2>7. TypeOK' /\ IsFiniteSet(Running)'
    <3>1. pending' \in [Txs -> [offer : Offers, balance : Nat]]
      BY <1>1, <1>3 DEF TypeOK
    <3>2. "kitItems" \in Statements /\ "wallet" \in Statements /\ pc[t] \in Statements
          /\ Statements \subseteq Labels
      BY <1>1 DEF Statements, Labels
    <3> QED
      BY <1>1, <1>3, <2>2, <3>1, <3>2, GotoTypes DEF TxInv, TypeOK
  <2> QED
    BY <1>3, <2>2, <2>3, <2>4, <2>6, <2>7, WithinKeeps
<1> QED
  BY <1>2, <1>3 DEF LockProduct

LEMMA KitItemsKeeps ==
    ASSUME TxInv, NEW t \in Txs, KitItems(t)
    PROVE  TxInv'
<1> DEFINE p == call[t].product
           n == shelf[p].lines
<1>1. TypeOK /\ pc[t] = "kitItems" /\ call[t].op = "purchase" /\ p \in Products
      /\ shelf[p] \in Offers /\ call[t] \in Calls
  BY CallFields DEF KitItems, At, TxInv, Stands, RunsItsOwn, StoreTypeOK
<1>2. CASE Rollback(t)
  BY <1>1, <1>2, RollbackKeeps DEF Statements
<1>3. CASE /\ n > 0
           /\ pending' = [pending EXCEPT ![t].offer.lines = n]
           /\ Goto(t, "wallet")
           /\ UNCHANGED <<storeVars, conns, call, locks, shares>>
  <2>1. HoldsProduct(t) /\ RunsItsOwn(t) /\ pending[t].offer = shelf[p]
    BY <1>1 DEF TxInv, Stands, HoldsProduct
  <2>2. pending' = pending
    <3>1. [pending[t].offer EXCEPT !.lines = n] = pending[t].offer
      BY <1>1, <2>1 DEF Offers
    <3> QED
      BY <1>1, <1>3, <3>1 DEF TypeOK
  <2>3. OthersStay(t) /\ LocksStay(t) /\ pc'[t] = "wallet" /\ call'[t] = call[t]
    BY <1>1, <1>3, <2>2 DEF TypeOK, Goto, OthersStay, LocksStay
  <2>4. n # 0
    BY <1>1, <1>3 DEF Offers
  <2>5. Stands(t)' /\ ~Taking(t)'
    BY <1>1, <1>3, <2>1, <2>2, <2>3, <2>4
       DEF Stands, RunsItsOwn, HoldsProduct, HoldsWallet, Taking, storeVars
  <2>6. TypeOK' /\ IsFiniteSet(Running)'
    <3>1. "wallet" \in Statements /\ "wallet" \in Labels /\ pc[t] \in Statements
      BY <1>1 DEF Statements, Labels
    <3> QED
      BY <1>1, <1>3, <2>2, <3>1, GotoTypes DEF TxInv, TypeOK
  <2> QED
    BY <1>3, <2>3, <2>5, <2>6, WithinKeeps
<1> QED
  BY <1>2, <1>3 DEF KitItems

(* The debit and the credit both write a balance that is in range. *)
LEMMA WriteBalanceKeeps ==
    ASSUME TxInv, NEW t \in Txs, NEW amount \in 0..MaxBalance,
           pc[t] = "wallet", call[t].op \in {"purchase", "credit"},
           call[t].user \in wallets,
           locks[WalletRow(call[t].user)] = None,
           amount = balance[call[t].user] +
                        (IF call[t].op = "purchase" THEN -pending[t].offer.price
                                                    ELSE call[t].amount),
           WriteBalance(t, amount)
    PROVE  TxInv'
<1> DEFINE r == WalletRow(call[t].user)
<1>1. TypeOK /\ call[t].user \in Users
  BY CallFields DEF TxInv, StoreTypeOK
<1>2. /\ Lock(t, r) /\ pending' = [pending EXCEPT ![t].balance = amount]
      /\ Goto(t, "record") /\ UNCHANGED <<storeVars, conns, call, shares>>
  BY DEF WriteBalance
<1>3. r \in LockRows
  BY <1>1, RowTypes
<1>4. LocksStay(t) /\ locks' \in [LockRows -> Txs \cup {None}]
  BY <1>1, <1>2, <1>3, LockStays
<1>5. OthersStay(t)
  BY <1>1, <1>2 DEF TypeOK, Goto, OthersStay
<1>6. /\ pc'[t] = "record" /\ call'[t] = call[t] /\ locks'[r] = t
      /\ pending'[t].balance = amount /\ pending'[t].offer = pending[t].offer
  BY <1>1, <1>2, <1>3 DEF TypeOK, Goto, Lock
<1>7. Stands(t)' /\ ~Taking(t)'
  <2>1. RunsItsOwn(t) /\ HoldsProduct(t)
    BY DEF TxInv, Stands
  <2>2. RunsItsOwn(t)' /\ ~Taking(t)'
    BY <1>6, <2>1 DEF RunsItsOwn, Taking
  <2>3. HoldsProduct(t)'
    <3> SUFFICES ASSUME call[t].op = "purchase"
                 PROVE  HoldsProduct(t)'
      BY <1>6 DEF HoldsProduct
    <3>1. call[t].product \in Products
      BY <2>1, CallFields DEF RunsItsOwn
    <3>2. locks'[ProductRow(call[t].product)] = t
      BY <1>4, <1>2, <1>3, <2>1, <3>1, RowTypes DEF HoldsProduct, Lock, TxInv, TypeOK
    <3> QED
      BY <1>2, <1>6, <2>1, <3>2 DEF HoldsProduct, storeVars
  <2>4. HoldsWallet(t)'
    BY <1>2, <1>6 DEF HoldsWallet, storeVars
  <2> QED
    BY <2>2, <2>3, <2>4 DEF Stands
<1>8. TypeOK' /\ IsFiniteSet(Running)'
  <2>1. pending' \in [Txs -> [offer : Offers, balance : Nat]]
    BY <1>1, <1>2 DEF TypeOK
  <2>2. "record" \in Statements /\ "record" \in Labels /\ pc[t] \in Statements
    BY DEF Statements, Labels
  <2> QED
    BY <1>1, <1>2, <1>4, <2>1, <2>2, GotoTypes DEF TxInv, TypeOK
<1> QED
  BY <1>2, <1>4, <1>5, <1>6, <1>7, <1>8, WithinKeeps

LEMMA DebitKeeps ==
    ASSUME TxInv, NEW t \in Txs, Debit(t)
    PROVE  TxInv'
<1> DEFINE u == call[t].user
           price == pending[t].offer.price
<1>1. pc[t] = "wallet" /\ call[t].op = "purchase" /\ u \in Users
  BY CallFields DEF Debit, At, TxInv, Stands, RunsItsOwn
<1>2. CASE Rollback(t)
  BY <1>1, <1>2, RollbackKeeps DEF Statements
<1>3. CASE CanPay(t) /\ WriteBalance(t, balance[u] - price)
  <2>1. u \in wallets /\ balance[u] >= price /\ locks[WalletRow(u)] = None
    BY <1>1, <1>3, RowIsFree DEF Debit, CanPay, Has
  <2>2. balance[u] \in 0..MaxBalance /\ price \in Nat
    BY <1>1 DEF TxInv, StoreTypeOK, TypeOK, Offers
  <2>3. balance[u] - price \in 0..MaxBalance /\ balance[u] - price = balance[u] + (-price)
    BY <2>1, <2>2, StoreAssumption DEF StoreAssumption
  <2> QED
    BY <1>1, <1>3, <2>1, <2>3, WriteBalanceKeeps
<1> QED
  BY <1>2, <1>3 DEF Debit

LEMMA AddCreditKeeps ==
    ASSUME TxInv, NEW t \in Txs, AddCredit(t)
    PROVE  TxInv'
<1> DEFINE u == call[t].user
           amount == call[t].amount
<1>1. pc[t] = "wallet" /\ call[t].op = "credit" /\ u \in Users /\ amount \in Amounts
  BY CallFields DEF AddCredit, At, TxInv, Stands, RunsItsOwn
<1>2. CASE Rollback(t)
  BY <1>1, <1>2, RollbackKeeps DEF Statements
<1>3. CASE u \in wallets /\ Fits(u, amount) /\ WriteBalance(t, balance[u] + amount)
  <2>1. locks[WalletRow(u)] = None
    BY <1>1, RowIsFree DEF AddCredit
  <2>2. balance[u] \in 0..MaxBalance /\ amount \in Nat
    BY <1>1, StoreAssumption DEF TxInv, StoreTypeOK, StoreAssumption
  <2>3. balance[u] + amount \in 0..MaxBalance
    BY <1>3, <2>2, StoreAssumption DEF Fits, StoreAssumption
  <2> QED
    BY <1>1, <1>3, <2>1, <2>3, WriteBalanceKeeps
<1> QED
  BY <1>2, <1>3 DEF AddCredit

LEMMA RecordKeeps ==
    ASSUME TxInv, NEW t \in Txs, Record(t)
    PROVE  TxInv'
<1>1. /\ TypeOK /\ pc[t] = "record" /\ Stands(t)
      /\ call[t].op \in {"purchase", "credit"}
  BY DEF Record, At, TxInv, Stands, RunsItsOwn
<1>2. OthersStay(t) /\ LocksStay(t) /\ pc'[t] = "commit" /\ call'[t] = call[t]
  BY <1>1 DEF Record, TypeOK, Goto, OthersStay, LocksStay
<1>3. Stands(t)' /\ ~Taking(t)'
  BY <1>1, <1>2 DEF Record, Stands, RunsItsOwn, HoldsProduct, HoldsWallet, Taking, storeVars
<1>4. TypeOK' /\ IsFiniteSet(Running)'
  <2>1. shares' \in [Users -> SUBSET Txs]
    BY <1>1 DEF Record, TypeOK
  <2>2. "commit" \in Statements /\ "commit" \in Labels /\ pc[t] \in Statements
    BY <1>1 DEF Statements, Labels
  <2> QED
    BY <1>1, <2>1, <2>2, GotoTypes DEF TxInv, TypeOK, Record
<1> QED
  BY <1>2, <1>3, <1>4, WithinKeeps DEF Record

LEMMA UpsertLinkKeeps ==
    ASSUME TxInv, NEW t \in Txs, UpsertLink(t)
    PROVE  TxInv'
<1>1. TypeOK /\ pc[t] = "upsert" /\ call[t].op = "link" /\ call[t].user \in Users
      /\ call[t] \in Calls
  BY CallFields DEF UpsertLink, At, TxInv, Stands, RunsItsOwn
<1>2. LocksStay(t) /\ locks' \in [LockRows -> Txs \cup {None}]
  BY <1>1, RowIsFree, RowTypes, LockStays DEF UpsertLink
<1>3. OthersStay(t) /\ pc'[t] = "unique" /\ call'[t] = call[t]
  BY <1>1 DEF UpsertLink, TypeOK, Goto, OthersStay
<1>4. Stands(t)' /\ ~Taking(t)'
  BY <1>1, <1>3 DEF Stands, RunsItsOwn, HoldsProduct, HoldsWallet, Taking
<1>5. TypeOK' /\ IsFiniteSet(Running)'
  <2>1. "unique" \in Statements /\ "unique" \in Labels /\ pc[t] \in Statements
    BY <1>1 DEF Statements, Labels
  <2> QED
    BY <1>1, <1>2, <2>1, GotoTypes DEF TxInv, TypeOK, UpsertLink
<1> QED
  BY <1>2, <1>3, <1>4, <1>5, WithinKeeps DEF UpsertLink

(* Nobody else that wants the game account is past its own upsert, and nobody
   else has it: so it stays with t until t commits. *)
LEMMA CheckUniqueKeeps ==
    ASSUME TxInv, NEW t \in Txs, CheckUnique(t)
    PROVE  TxInv'
<1>1. TypeOK /\ pc[t] = "unique" /\ call[t].op = "link" /\ call[t] \in Calls
  BY DEF CheckUnique, At, TxInv, Stands, RunsItsOwn
<1>2. CASE Rollback(t)
  BY <1>1, <1>2, RollbackKeeps DEF Statements
<1>3. CASE /\ \A v \in Users \ {call[t].user} : link[v] # call[t].game
           /\ Goto(t, "ensureWallet")
           /\ UNCHANGED <<storeVars, conns, call, pending, locks, shares>>
  <2>1. OthersStay(t) /\ LocksStay(t) /\ pc'[t] = "ensureWallet" /\ call'[t] = call[t]
    BY <1>1, <1>3 DEF TypeOK, Goto, OthersStay, LocksStay
  <2>2. Stands(t)'
    BY <1>1, <2>1 DEF Stands, RunsItsOwn, HoldsProduct, HoldsWallet
  <2>3. TypeOK' /\ IsFiniteSet(Running)'
    <3>1. "ensureWallet" \in Statements /\ "ensureWallet" \in Labels /\ pc[t] \in Statements
      BY <1>1 DEF Statements, Labels
    <3> QED
      BY <1>1, <1>3, <3>1, GotoTypes DEF TxInv, TypeOK
  <2>4. AloneWithAccount'
    <3>1. \A x \in Txs \ {t} : Taking(x) => call[x].game # call[t].game
      BY RowIsFree DEF CheckUnique, Claimants, Taking
    <3>2. \A x \in Txs \ {t} : Taking(x)' => Taking(x)
      BY <2>1 DEF OthersStay, Taking
    <3>3. call' = call /\ link' = link
      BY <1>3 DEF storeVars
    <3> QED
      BY <1>3, <3>1, <3>2, <3>3 DEF TxInv, AloneWithAccount
  <2>5. /\ StoreTypeOK' /\ ItemsAreLines' /\ RowsStay(t) /\ RoomToGrow'
    BY <1>3 DEF storeVars, TxInv, StoreTypeOK, ItemsAreLines, RowsStay, RoomToGrow
  <2>6. \A x \in Txs : Stands(x)'
    BY <2>1, <2>2, <2>5, OthersStand DEF TxInv
  <2> QED
    BY <2>3, <2>4, <2>5, <2>6 DEF TxInv
<1> QED
  BY <1>2, <1>3 DEF CheckUnique

LEMMA EnsureWalletKeeps ==
    ASSUME TxInv, NEW t \in Txs, EnsureWallet(t)
    PROVE  TxInv'
<1>1. TypeOK /\ pc[t] = "ensureWallet" /\ call[t].op = "link" /\ call[t] \in Calls
  BY DEF EnsureWallet, At, TxInv, Stands, RunsItsOwn
<1>2. OthersStay(t) /\ LocksStay(t) /\ pc'[t] = "commit" /\ call'[t] = call[t]
  BY <1>1 DEF EnsureWallet, TypeOK, Goto, OthersStay, LocksStay
<1>3. Stands(t)' /\ Taking(t)
  BY <1>1, <1>2 DEF Stands, RunsItsOwn, HoldsProduct, HoldsWallet, Taking
<1>4. TypeOK' /\ IsFiniteSet(Running)'
  <2>1. "commit" \in Statements /\ "commit" \in Labels /\ pc[t] \in Statements
    BY <1>1 DEF Statements, Labels
  <2> QED
    BY <1>1, <2>1, GotoTypes DEF TxInv, TypeOK, EnsureWallet
<1> QED
  BY <1>2, <1>3, <1>4, WithinKeeps DEF EnsureWallet

-----------------------------------------------------------------------------
(* A step that ends its call: what it writes is an operation of Store, made at
   rows nobody else has locked. *)

LEMMA CommitPurchaseIs ==
    ASSUME TxInv, NEW t \in Txs, pc[t] = "commit", CommitPurchase(t)
    PROVE  Purchase(call[t].user, call[t].product)
<1> DEFINE u == call[t].user
           p == call[t].product
           o == pending[t].offer
<1>1. /\ u \in Users /\ p \in Products
      /\ shelf[p] \in Offers /\ balance[u] \in 0..MaxBalance /\ pending[t].balance \in Nat
  BY CallFields DEF TxInv, Stands, RunsItsOwn, CommitPurchase, StoreTypeOK, TypeOK
<1>2. /\ o = shelf[p] /\ o.listed /\ o.enabled /\ (o.limited => o.stock > 0)
      /\ o.lines # 0
      /\ u \in wallets /\ pending[t].balance = balance[u] + (-o.price)
  BY DEF TxInv, Stands, HoldsProduct, HoldsWallet, CommitPurchase
<1>3. pending[t].balance = balance[u] - shelf[p].price /\ balance[u] >= shelf[p].price
  BY <1>1, <1>2 DEF Offers
<1>4. ~(shelf[p].limited /\ shelf[p].stock <= 0)
  BY <1>1, <1>2 DEF Offers
<1>5. PurchaseResult(u, p) = "ok"
  BY <1>2, <1>3, <1>4 DEF PurchaseResult, Has
<1>6. balance' = [balance EXCEPT ![u] = balance[u] - shelf[p].price]
  BY <1>3 DEF CommitPurchase
<1>7. shelf' = [shelf EXCEPT ![p] = TakeOne(shelf[p])]
  BY <1>2 DEF CommitPurchase, TakeOne
<1>8. txns' = Append(txns, SpendRow(u, p))
  BY <1>2 DEF CommitPurchase, SpendRow
<1> QED
  BY <1>5, <1>6, <1>7, <1>8 DEF Purchase, CommitPurchase

LEMMA CommitCreditIs ==
    ASSUME TxInv, NEW t \in Txs, pc[t] = "commit", CommitCredit(t)
    PROVE  /\ Credit(call[t].user, call[t].amount, "earn")
           /\ call[t].user \in Users /\ call[t].amount \in Amounts
<1> DEFINE u == call[t].user
           amount == call[t].amount
<1>1. u \in Users /\ amount \in Amounts
  BY CallFields DEF TxInv, Stands, RunsItsOwn, CommitCredit
<1>2. /\ u \in wallets /\ pending[t].balance = balance[u] + amount
      /\ pending[t].balance <= MaxBalance
  BY DEF TxInv, Stands, HoldsWallet, CommitCredit
<1>3. Fits(u, amount)
  BY <1>2 DEF Fits
<1>4. balance' = [balance EXCEPT ![u] = balance[u] + amount]
  BY <1>2 DEF CommitCredit
<1> QED
  BY <1>1, <1>2, <1>3, <1>4 DEF Credit, CommitCredit

LEMMA CommitLinkIs ==
    ASSUME TxInv, NEW t \in Txs, pc[t] = "commit", CommitLink(t)
    PROVE  /\ LinkAccount(call[t].user, call[t].game)
           /\ call[t].user \in Users /\ call[t].game \in GameAccounts
<1>1. call[t].user \in Users /\ call[t].game \in GameAccounts
  BY CallFields DEF TxInv, Stands, RunsItsOwn, CommitLink
<1>2. \A v \in Users \ {call[t].user} : link[v] # call[t].game
  BY DEF TxInv, AloneWithAccount, Taking, CommitLink
<1> QED
  BY <1>1, <1>2 DEF LinkAccount, CommitLink

LEMMA CommitIsStoreStep ==
    ASSUME TxInv, NEW t \in Txs, Commit(t)
    PROVE  StoreNext
<1>1. pc[t] = "commit"
  BY DEF Commit, At
<1>2. CASE CommitPurchase(t)
  <2>1. call[t].user \in Users /\ call[t].product \in Products
    BY <1>1, <1>2, CallFields DEF TxInv, Stands, RunsItsOwn, CommitPurchase
  <2> QED
    BY <1>1, <1>2, <2>1, CommitPurchaseIs DEF StoreNext, Buy
<1>3. CASE CommitCredit(t)
  BY <1>1, <1>3, CommitCreditIs DEF StoreNext, Earn
<1>4. CASE CommitLink(t)
  BY <1>1, <1>4, CommitLinkIs DEF StoreNext, Link
<1> QED
  BY <1>2, <1>3, <1>4 DEF Commit

(* What the statements of one call each may write. *)
LEMMA SingleIsStoreStep ==
    ASSUME TxInv, NEW t \in Txs, Single(t)
    PROVE  [StoreNext]_storeVars
<1> DEFINE c == call[t]
           p == call[t].product
<1>1. pc[t] = "single" /\ c \in Calls
  BY DEF Single, At, TxInv, Stands, RunsItsOwn
<1>2. CASE c.op = "grow" /\ AddKitItem(p)
  <2>1. p \in Kits /\ shelf[p].lines < MaxLines
    BY <1>2 DEF TxInv, RoomToGrow
  <2> QED
    BY <1>2, <2>1 DEF StoreNext, EditKit, GrowKit
<1>3. ASSUME c.op = "edit", NEW o \in NewOffersOf(p), UpsertItem(p, o) \/ CreateKit(p, o)
      PROVE  StoreNext
  <2>1. CASE UpsertItem(p, o)
    <3>1. p \in Items /\ p \notin Kits
      BY <2>1, StoreAssumption DEF UpsertItem, StoreAssumption
    <3>2. o \in NewOffers({1})
      BY <1>3, <3>1 DEF NewOffersOf
    <3> QED
      BY <2>1, <3>1, <3>2 DEF StoreNext, EditItem
  <2>2. CASE CreateKit(p, o)
    <3>1. p \in Kits
      BY <2>2 DEF CreateKit
    <3>2. o \in NewOffers({0, 1})
      BY <1>3, <3>1 DEF NewOffersOf
    <3>3. {0, 1} \subseteq 0..MaxLines
      BY TxAssumption, StoreAssumption DEF TxAssumption, StoreAssumption
    <3>4. o \in NewOffers(0..MaxLines)
      BY <3>2, <3>3, Zenon DEF NewOffers
    <3> QED
      BY <2>2, <3>1, <3>4 DEF StoreNext, EditKit, AddKit
  <2> QED
    BY <1>3, <2>1, <2>2
<1>4. CASE c.op = "toggle" /\ \E on \in BOOLEAN : SetEnabled(p, on)
  BY <1>1, <1>4, CallFields DEF StoreNext, Toggle
<1>5. CASE Settle
  BY <1>5 DEF StoreNext
<1>6. CASE UNCHANGED storeVars
  BY <1>6
<1> QED
  BY <1>2, <1>3, <1>4, <1>5, <1>6 DEF Single

(* A write that ends its call may change the rows t has locked and the rows
   that are free, and it leaves every kit its room and every item its line. *)
LEMMA EndKeeps ==
    ASSUME TxInv, NEW t \in Txs, pc[t] \in Statements, Finish(t), StoreTypeOK',
           RowsStay(t), AloneWithAccount',
           \A p \in Kits : \/ shelf[p].lines < MaxLines => shelf'[p].lines < MaxLines
                           \/ call[t] = [op |-> "grow", product |-> p],
           ItemsAreLines'
    PROVE  TxInv'
<1>1. TypeOK' /\ IsFiniteSet(Running)'
  BY FinishTypes DEF TxInv
<1>2. OthersStay(t) /\ LocksStay(t) /\ Stands(t)' /\ call'[t] = NoCall
  BY FinishStays DEF TxInv
<1>3. \A x \in Txs : Stands(x)'
  BY <1>2, OthersStand DEF TxInv
<1>4. RoomToGrow'
  BY <1>2, RoomKeeps DEF TxInv
<1> QED
  BY <1>1, <1>3, <1>4 DEF TxInv

LEMMA CommitKeeps ==
    ASSUME TxInv, NEW t \in Txs, Commit(t)
    PROVE  TxInv'
<1>1. pc[t] = "commit" /\ pc[t] \in Statements /\ Finish(t)
  BY DEF Commit, At, Statements
<1>2. StoreTypeOK'
  BY CommitIsStoreStep, StoreTypeStep DEF TxInv
<1>3. OthersStay(t) /\ ~Taking(t)'
  BY <1>1, FinishStays DEF TxInv
<1>4. CASE CommitPurchase(t)
  <2> DEFINE u == call[t].user
             p == call[t].product
  <2>1. /\ u \in Users /\ p \in Products /\ u \in wallets
        /\ locks[ProductRow(p)] = t /\ locks[WalletRow(u)] = t
        /\ shelf \in [Products -> Offers] /\ balance \in [Users -> 0..MaxBalance]
    BY <1>1, <1>4, CallFields
       DEF TxInv, Stands, RunsItsOwn, HoldsProduct, HoldsWallet, CommitPurchase, StoreTypeOK
  <2>2. Purchase(u, p)
    BY <1>1, <1>4, CommitPurchaseIs
  <2>3. RowsStay(t)
    BY <2>1, <2>2 DEF Purchase, RowsStay
  <2>4. \A q \in Products : /\ shelf'[q].lines = shelf[q].lines
                            /\ shelf'[q].listed = shelf[q].listed
    <3>1. /\ TakeOne(shelf[p]).lines = shelf[p].lines
          /\ TakeOne(shelf[p]).listed = shelf[p].listed
      BY <2>1 DEF TakeOne, Offers
    <3> QED
      BY <2>1, <2>2, <3>1 DEF Purchase
  <2>5. AloneWithAccount'
    BY <1>3, <2>2, AloneKeeps DEF TxInv, Purchase
  <2>6. ItemsAreLines'
    BY <2>4 DEF TxInv, ItemsAreLines, Products
  <2> QED
    BY <1>1, <1>2, <2>3, <2>4, <2>5, <2>6, EndKeeps DEF Products
<1>5. CASE CommitCredit(t)
  <2>1. Credit(call[t].user, call[t].amount, "earn") /\ call[t].user \in Users
    BY <1>1, <1>5, CommitCreditIs
  <2>2. locks[WalletRow(call[t].user)] = t
    BY <1>1, <1>5 DEF TxInv, Stands, HoldsWallet, CommitCredit
  <2>3. RowsStay(t)
    BY <2>1, <2>2 DEF Credit, RowsStay, TxInv, StoreTypeOK
  <2>4. shelf' = shelf /\ link' = link
    BY <2>1 DEF Credit
  <2>5. AloneWithAccount'
    BY <1>3, <2>4, AloneKeeps DEF TxInv
  <2>6. ItemsAreLines'
    BY <2>4 DEF TxInv, ItemsAreLines
  <2> QED
    BY <1>1, <1>2, <2>3, <2>4, <2>5, <2>6, EndKeeps
<1>6. CASE CommitLink(t)
  <2> DEFINE u == call[t].user
             g == call[t].game
  <2>1. LinkAccount(u, g) /\ u \in Users /\ Taking(t)
    BY <1>1, <1>6, CommitLinkIs DEF CommitLink, Taking
  <2>2. shelf' = shelf /\ balance' = balance /\ wallets \subseteq wallets'
    BY <2>1 DEF LinkAccount
  <2>3. RowsStay(t) /\ ItemsAreLines'
    BY <2>2 DEF RowsStay, TxInv, ItemsAreLines
  <2>4. AloneWithAccount'
    <3>1. \A x \in Txs : Taking(x)' => x # t /\ Taking(x) /\ call'[x] = call[x]
      BY <1>3 DEF OthersStay, Taking
    <3>2. \A v \in Users : link'[v] = IF v = u THEN g ELSE link[v]
      BY <2>1 DEF LinkAccount, TxInv, StoreTypeOK
    <3>3. \A x \in Txs \ {t} : Taking(x) => call[x].game # g
      BY <2>1 DEF TxInv, AloneWithAccount
    <3> QED
      BY <3>1, <3>2, <3>3 DEF TxInv, AloneWithAccount
  <2> QED
    BY <1>1, <1>2, <2>2, <2>3, <2>4, EndKeeps
<1> QED
  BY <1>4, <1>5, <1>6 DEF Commit

LEMMA SingleKeeps ==
    ASSUME TxInv, NEW t \in Txs, Single(t)
    PROVE  TxInv'
<1> DEFINE c == call[t]
           p == call[t].product
<1>1. pc[t] = "single" /\ pc[t] \in Statements /\ c \in Calls /\ Finish(t)
  BY DEF Single, At, TxInv, Stands, RunsItsOwn, Statements
<1>2. StoreTypeOK'
  BY SingleIsStoreStep, StoreTypeStep DEF TxInv
<1>3. OthersStay(t) /\ ~Taking(t)'
  BY <1>1, FinishStays DEF TxInv
<1>4. ASSUME link' = link PROVE AloneWithAccount'
  BY <1>3, <1>4, AloneKeeps DEF TxInv
<1>5. shelf \in [Products -> Offers] /\ Kits \subseteq Products /\ Items \subseteq Products
  BY DEF TxInv, StoreTypeOK, Products
<1>6. c.op # "settle" => locks[ProductRow(p)] = None
  BY RowIsFree DEF Single
<1>7. ASSUME UNCHANGED <<link, wallets, balance, shelf>>
      PROVE  TxInv'
  <2>1. RowsStay(t) /\ ItemsAreLines'
    BY <1>7 DEF RowsStay, TxInv, ItemsAreLines
  <2> QED
    BY <1>1, <1>2, <1>4, <1>7, <2>1, EndKeeps
<1>8. ASSUME UNCHANGED <<link, wallets, balance>>, locks[ProductRow(p)] = None, p \in Products,
             NEW o \in Offers, shelf' = [shelf EXCEPT ![p] = o],
             p \in Kits => \/ shelf[p].lines < MaxLines => o.lines < MaxLines
                           \/ c = [op |-> "grow", product |-> p],
             p \in Items /\ o.listed => o.lines = 1
      PROVE  TxInv'
  <2>1. \A q \in Products : shelf'[q] = IF q = p THEN o ELSE shelf[q]
    BY <1>5, <1>8
  <2>2. RowsStay(t)
    BY <1>8, <2>1 DEF RowsStay
  <2>3. ItemsAreLines'
    BY <1>5, <1>8, <2>1 DEF TxInv, ItemsAreLines
  <2> QED
    BY <1>1, <1>2, <1>4, <1>5, <1>8, <2>1, <2>2, <2>3, EndKeeps
<1>9. CASE c.op = "grow" /\ AddKitItem(p)
  <2>1. p \in Kits /\ c = [op |-> "grow", product |-> p]
    BY <1>1, <1>9 DEF Calls, AddKitItem
  <2>2. [shelf[p] EXCEPT !.lines = shelf[p].lines + 1] \in Offers /\ p \notin Items
    BY <1>5, <2>1, StoreAssumption DEF Offers, StoreAssumption
  <2> QED
    BY <1>5, <1>6, <1>8, <1>9, <2>1, <2>2 DEF AddKitItem
<1>10. ASSUME c.op = "edit", NEW o \in NewOffersOf(p), UpsertItem(p, o) \/ CreateKit(p, o)
       PROVE  TxInv'
  <2>1. PutOnShelf(p, o) /\ p \in Products
    BY <1>5, <1>10 DEF UpsertItem, CreateKit
  <2>2. o \in Offers /\ o.lines \in {0, 1}
    <3>1. o \in NewOffers({0, 1}) \/ o \in NewOffers({1})
      BY <1>10 DEF NewOffersOf
    <3>2. o \in Offers
      BY <3>1, NewOfferType
    <3>3. o.lines \in {0, 1}
      BY <3>1 DEF NewOffers
    <3> QED
      BY <3>2, <3>3
  <2>3. p \in Items => o.lines = 1
    BY <1>10, StoreAssumption DEF UpsertItem, CreateKit, StoreAssumption
  <2>4. o.lines < MaxLines
    BY <2>2, TxAssumption, StoreAssumption DEF TxAssumption, StoreAssumption
  <2> QED
    BY <1>6, <1>8, <1>10, <2>1, <2>2, <2>3, <2>4 DEF PutOnShelf
<1>11. ASSUME c.op = "toggle", NEW on \in BOOLEAN, SetEnabled(p, on)
       PROVE  TxInv'
  <2>1. p \in Products
    BY <1>1, <1>11, CallFields
  <2> DEFINE o == [shelf[p] EXCEPT !.enabled = on]
  <2>2. o \in Offers /\ o.lines = shelf[p].lines /\ o.listed = shelf[p].listed
    BY <1>5, <2>1 DEF Offers
  <2>3. p \in Items /\ o.listed => o.lines = 1
    BY <2>2 DEF TxInv, ItemsAreLines
  <2>4. shelf' = [shelf EXCEPT ![p] = o] /\ UNCHANGED <<link, wallets, balance>>
    BY <1>11 DEF SetEnabled
  <2> HIDE DEF o
  <2> QED
    BY <1>6, <1>8, <1>11, <2>1, <2>2, <2>3, <2>4
<1>12. CASE Settle
  BY <1>7, <1>12 DEF Settle, SetDeliveryStatus
<1>13. CASE UNCHANGED storeVars
  BY <1>7, <1>13 DEF storeVars
<1> QED
  BY <1>9, <1>10, <1>11, <1>12, <1>13 DEF Single

(* Only who runs a statement waits for somebody. *)
LEMMA WaitersRun ==
    ASSUME NEW t, WaitsFor(t) # {}
    PROVE  pc[t] \in Statements
<1>1. \/ pc[t] = "lock" \/ pc[t] = "wallet" \/ pc[t] = "record" \/ pc[t] = "upsert"
      \/ pc[t] = "unique" \/ pc[t] = "ensureWallet" \/ pc[t] = "single"
  BY Zenon DEF WaitsFor
<1> QED
  BY <1>1 DEF Statements

LEMMA VictimKeeps ==
    ASSUME TxInv, NEW t \in Txs, Victim(t)
    PROVE  TxInv'
<1>1. PICK S \in SUBSET Txs : t \in S /\ \A x \in S : WaitsFor(x) \cap S # {}
  BY DEF Victim, InCircle, Circle
<1>2. WaitsFor(t) # {}
  BY <1>1
<1> QED
  BY <1>2, WaitersRun, RollbackKeeps DEF Victim

LEMMA TxStep ==
    ASSUME TxInv, [Next]_vars
    PROVE  TxInv' /\ [StoreNext]_storeVars
<1>1. CASE UNCHANGED vars
  <2>1. UNCHANGED storeVars /\ UNCHANGED <<conns, pc, call, pending, locks, shares>>
    BY <1>1 DEF vars, txVars
  <2>2. StoreTypeOK' /\ TypeOK' /\ IsFiniteSet(Running)'
    BY <2>1 DEF storeVars, TxInv, StoreTypeOK, TypeOK, Running
  <2>3. \A t \in Txs : Stands(t)'
    BY <2>1 DEF storeVars, TxInv, Stands, RunsItsOwn, HoldsProduct, HoldsWallet
  <2>4. AloneWithAccount' /\ RoomToGrow' /\ ItemsAreLines'
    BY <2>1 DEF storeVars, TxInv, AloneWithAccount, Taking, RoomToGrow, ItemsAreLines
  <2> QED
    BY <2>1, <2>2, <2>3, <2>4 DEF TxInv
<1>2. ASSUME NEW t \in Txs, NEW c \in Calls, Call(t, c)
      PROVE  TxInv' /\ [StoreNext]_storeVars
  <2>1. UNCHANGED storeVars
    BY <1>2 DEF Call
  <2> QED
    BY <1>2, <2>1, CallKeeps
<1>3. ASSUME NEW t \in Txs, Abort(t)
      PROVE  TxInv' /\ [StoreNext]_storeVars
  BY <1>3, RollbackKeeps DEF Abort, Rollback
<1>4. ASSUME NEW t \in Txs, Step(t)
      PROVE  TxInv' /\ [StoreNext]_storeVars
  <2>1. CASE Begin(t)
    BY <2>1, BeginKeeps DEF Begin
  <2>2. CASE LockProduct(t)
    <3>1. UNCHANGED storeVars
      BY <2>2 DEF LockProduct, Rollback
    <3> QED
      BY <2>2, <3>1, LockProductKeeps
  <2>3. CASE KitItems(t)
    <3>1. UNCHANGED storeVars
      BY <2>3 DEF KitItems, Rollback
    <3> QED
      BY <2>3, <3>1, KitItemsKeeps
  <2>4. CASE Debit(t)
    <3>1. UNCHANGED storeVars
      BY <2>4 DEF Debit, WriteBalance, Rollback
    <3> QED
      BY <2>4, <3>1, DebitKeeps
  <2>5. CASE AddCredit(t)
    <3>1. UNCHANGED storeVars
      BY <2>5 DEF AddCredit, WriteBalance, Rollback
    <3> QED
      BY <2>5, <3>1, AddCreditKeeps
  <2>6. CASE Record(t)
    BY <2>6, RecordKeeps DEF Record
  <2>7. CASE UpsertLink(t)
    BY <2>7, UpsertLinkKeeps DEF UpsertLink
  <2>8. CASE CheckUnique(t)
    <3>1. UNCHANGED storeVars
      BY <2>8 DEF CheckUnique, Rollback
    <3> QED
      BY <2>8, <3>1, CheckUniqueKeeps
  <2>9. CASE EnsureWallet(t)
    BY <2>9, EnsureWalletKeeps DEF EnsureWallet
  <2>10. CASE Commit(t)
    BY <2>10, CommitKeeps, CommitIsStoreStep
  <2>11. CASE Single(t)
    BY <2>11, SingleKeeps, SingleIsStoreStep
  <2>12. CASE Victim(t)
    BY <2>12, VictimKeeps DEF Victim, Rollback
  <2> QED
    BY <1>4, <2>1, <2>2, <2>3, <2>4, <2>5, <2>6, <2>7, <2>8, <2>9, <2>10, <2>11, <2>12 DEF Step
<1> QED
  BY <1>1, <1>2, <1>3, <1>4 DEF Next

LEMMA TxInvInit == TxInit => TxInv
<1> SUFFICES ASSUME TxInit
             PROVE  TxInv
  OBVIOUS
<1>1. StoreTypeOK
  BY StoreTypeInit DEF TxInit
<1>2. \A t \in Txs : pc[t] = "idle" /\ call[t] = NoCall
  BY DEF TxInit
<1>3. Running = {}
  BY <1>2 DEF Running, Statements
<1>4. IsFiniteSet(Running) /\ Cardinality(Running) = 0
  BY <1>3, FS_EmptySet
<1>5. conns = MaxConns - Cardinality(Running)
  BY <1>4, TxAssumption DEF TxInit, TxAssumption
<1>6. Nothing \in [offer : Offers, balance : Nat]
  BY DEF Nothing, Unlisted, Offers
<1>7. TypeOK
  BY <1>5, <1>6 DEF TxInit, TypeOK, Running, Labels
<1>8. \A t \in Txs : Stands(t)
  BY <1>2 DEF Stands, RunsItsOwn, HoldsProduct, HoldsWallet, NoCall
<1>9. AloneWithAccount /\ RoomToGrow
  BY <1>2 DEF AloneWithAccount, Taking, RoomToGrow, NoCall
<1>10. ItemsAreLines
  BY DEF TxInit, StoreInit, ItemsAreLines, Unlisted, Products
<1> QED
  BY <1>1, <1>4, <1>7, <1>8, <1>9, <1>10 DEF TxInv

LEMMA TxInvariant == Spec => []TxInv
<1>1. TxInv /\ [Next]_vars => TxInv'
  BY TxStep
<1> QED
  BY TxInvInit, <1>1, PTL DEF Spec

(* Every variable keeps its type, and however calls end (commit, rollback,
   broken connection, deadlock victim) each gives its connection back once. *)
THEOREM TxTypeCorrect == Spec => []TypeOK
<1>1. TxInv => TypeOK
  BY DEF TxInv
<1> QED
  BY TxInvariant, <1>1, PTL

(* A purchase acts on a product as it still is, the kit items it read outside
   its transaction included. *)
THEOREM ReadCorrect == Spec => []ReadIsCurrent
<1>1. TxInv => ReadIsCurrent
  BY DEF TxInv, ReadIsCurrent, Stands, HoldsProduct
<1> QED
  BY TxInvariant, <1>1, PTL

(* The statements of any number of goroutines, interleaved in any way the locks
   allow, change the committed tables as the operations of Store do, one at a
   time: every store operation is atomic. *)
THEOREM TxImplementsStore == Spec => Serialisable
<1>1. TxInit => StoreInit
  BY DEF TxInit
<1>2. TxInv /\ [Next]_vars => [StoreNext]_storeVars
  BY TxStep
<1> QED
  BY TxInvariant, <1>1, <1>2, PTL DEF Spec, Serialisable, StoreSpec

(* So what holds of the operations holds of the statements: wallets hold the sum
   of their ledger rows ... *)
THEOREM TxLedgerCorrect == Spec => []LedgerReconciles
  BY TxImplementsStore, LedgerCorrect, PTL DEF Serialisable

(* ... the stock comes down one for one with the sales ... *)
THEOREM TxStockCorrect == Spec => []StockAccounted
  BY TxImplementsStore, StockCorrect, PTL DEF Serialisable

(* ... no game account has two owners ... *)
THEOREM TxAccountsCorrect == Spec => []AccountsSound
  BY TxImplementsStore, AccountsCorrect, PTL DEF Serialisable

(* ... and no balance leaves its range. *)
THEOREM TxColumnsCorrect == Spec => []StoreTypeOK
  BY TxImplementsStore, StoreTypeCorrect, PTL DEF Serialisable

-----------------------------------------------------------------------------
(* Circles of waits.  Who holds a row is known by the statement it is at: the
   product is locked before the wallet, and only a /link locks an account. *)

HasProduct == {"kitItems", "wallet", "record", "commit"}
HasWallet == {"record", "commit"}
HasAccount == {"unique", "ensureWallet", "commit"}

GoesOn(label, next) ==
    \A S \in {HasProduct, HasWallet, HasAccount} : label \in S => next \in S

HoldersKnown ==
    \A x \in Txs :
        /\ \A p \in Products : locks[ProductRow(p)] = x =>
                call[x].op = "purchase" /\ pc[x] \in HasProduct
        /\ \A u \in Users : locks[WalletRow(u)] = x =>
                call[x].op \in {"purchase", "credit"} /\ pc[x] \in HasWallet
        /\ \A u \in Users : locks[AccountRow(u)] = x =>
                call[x].op = "link" /\ pc[x] \in HasAccount

(* A step that locks nothing, and does not go back. *)
LEMMA HoldersMove ==
    ASSUME TypeOK, HoldersKnown, NEW t \in Txs, NEW label, Goto(t, label),
           UNCHANGED <<call, locks>>,
           GoesOn(pc[t], label)
    PROVE  HoldersKnown'
<1>1. \A x \in Txs : pc'[x] = IF x = t THEN label ELSE pc[x]
  BY DEF Goto, TypeOK
<1> QED
  BY <1>1 DEF HoldersKnown, GoesOn

(* A step that locks one row, at the statement that says so. *)
LEMMA HoldersLock ==
    ASSUME TypeOK, HoldersKnown, NEW t \in Txs, NEW label, Goto(t, label),
           NEW r \in LockRows, Lock(t, r), UNCHANGED call,
           GoesOn(pc[t], label),
           \A p \in Products : r = ProductRow(p) =>
                call[t].op = "purchase" /\ label \in HasProduct,
           \A u \in Users : r = WalletRow(u) =>
                call[t].op \in {"purchase", "credit"} /\ label \in HasWallet,
           \A u \in Users : r = AccountRow(u) =>
                call[t].op = "link" /\ label \in HasAccount
    PROVE  HoldersKnown'
<1>1. \A x \in Txs : pc'[x] = IF x = t THEN label ELSE pc[x]
  BY DEF Goto, TypeOK
<1>2. \A q \in LockRows : locks'[q] = IF q = r THEN t ELSE locks[q]
  BY DEF Lock, TypeOK
<1> QED
  BY <1>1, <1>2, RowTypes DEF HoldersKnown, GoesOn

(* The end of a call, which gives all its rows back. *)
LEMMA HoldersFinish ==
    ASSUME TypeOK, HoldersKnown, NEW t \in Txs, Finish(t)
    PROVE  HoldersKnown'
<1>1. \A x \in Txs \ {t} : pc'[x] = pc[x] /\ call'[x] = call[x]
  BY DEF Finish, Goto, TypeOK
<1>2. \A q \in LockRows : locks'[q] = IF locks[q] = t THEN None ELSE locks[q]
  BY DEF Finish
<1>3. None \notin Txs
  BY TxAssumption DEF TxAssumption
<1> SUFFICES ASSUME NEW x \in Txs
             PROVE  /\ \A p \in Products : locks'[ProductRow(p)] = x =>
                            call'[x].op = "purchase" /\ pc'[x] \in HasProduct
                    /\ \A u \in Users : locks'[WalletRow(u)] = x =>
                            call'[x].op \in {"purchase", "credit"} /\ pc'[x] \in HasWallet
                    /\ \A u \in Users : locks'[AccountRow(u)] = x =>
                            call'[x].op = "link" /\ pc'[x] \in HasAccount
  BY DEF HoldersKnown
<1>4. \A q \in LockRows : locks'[q] = x => x # t /\ locks[q] = x
  BY <1>2, <1>3
<1> QED
  BY <1>1, <1>4, RowTypes DEF HoldersKnown

LEMMA HoldersStep ==
    ASSUME TxInv, HoldersKnown, [Next]_vars
    PROVE  HoldersKnown'
<1> USE DEF HasProduct, HasWallet, HasAccount, GoesOn
<1>1. TypeOK /\ \A t \in Txs : RunsItsOwn(t)
  BY DEF TxInv, Stands
<1>2. CASE UNCHANGED vars
  BY <1>2 DEF vars, txVars, HoldersKnown
<1>3. ASSUME NEW t \in Txs, NEW c \in Calls, Call(t, c)
      PROVE  HoldersKnown'
  <2>1. \A x \in Txs \ {t} : pc'[x] = pc[x] /\ call'[x] = call[x]
    BY <1>1, <1>3 DEF Call, Goto, TypeOK
  <2>2. locks' = locks /\ pc[t] = "idle"
    BY <1>3 DEF Call
  <2> QED
    BY <2>1, <2>2 DEF HoldersKnown
<1>4. ASSUME NEW t \in Txs, Rollback(t)
      PROVE  HoldersKnown'
  BY <1>1, <1>4, HoldersFinish DEF Rollback
<1>5. ASSUME NEW t \in Txs, Step(t)
      PROVE  HoldersKnown'
  <2>1. CASE Begin(t)
    <3>1. pc[t] = "begin" /\ UNCHANGED <<call, locks>> /\ Goto(t, FirstStatement(call[t]))
      BY <2>1 DEF Begin
    <3> QED
      BY <1>1, <3>1, HoldersMove
  <2>2. CASE LockProduct(t)
    <3> DEFINE p == call[t].product
               label == IF p \in Kits THEN "kitItems" ELSE "wallet"
    <3>1. pc[t] = "lock" /\ call[t].op = "purchase" /\ p \in Products
      BY <1>1, <2>2, CallFields DEF LockProduct, At, RunsItsOwn
    <3>2. CASE Lock(t, ProductRow(p)) /\ Goto(t, label) /\ UNCHANGED call
      <4>1. label \in {"kitItems", "wallet"} /\ ProductRow(p) \in LockRows
        BY <3>1, RowTypes
      <4> HIDE DEF label
      <4> QED
        BY <1>1, <3>1, <3>2, <4>1, RowTypes, HoldersLock
    <3> QED
      BY <1>4, <2>2, <3>2 DEF LockProduct
  <2>3. CASE KitItems(t)
    <3>1. CASE pc[t] = "kitItems" /\ Goto(t, "wallet") /\ UNCHANGED <<call, locks>>
      BY <1>1, <3>1, HoldersMove
    <3> QED
      BY <1>4, <2>3, <3>1 DEF KitItems, At
  <2>4. ASSUME NEW amount, WriteBalance(t, amount), pc[t] = "wallet",
               call[t].op \in {"purchase", "credit"}
        PROVE  HoldersKnown'
    <3>1. call[t].user \in Users
      BY <1>1, <2>4, CallFields DEF RunsItsOwn
    <3>2. /\ Lock(t, WalletRow(call[t].user)) /\ Goto(t, "record") /\ UNCHANGED call
          /\ WalletRow(call[t].user) \in LockRows
      BY <2>4, <3>1, RowTypes DEF WriteBalance
    <3> QED
      BY <1>1, <2>4, <3>1, <3>2, RowTypes, HoldersLock
  <2>5. CASE Debit(t)
    BY <1>4, <2>4, <2>5 DEF Debit, At
  <2>6. CASE AddCredit(t)
    BY <1>4, <2>4, <2>6 DEF AddCredit, At
  <2>7. CASE Record(t)
    <3>1. pc[t] = "record" /\ Goto(t, "commit") /\ UNCHANGED <<call, locks>>
      BY <2>7 DEF Record, At
    <3> QED
      BY <1>1, <3>1, HoldersMove
  <2>8. CASE UpsertLink(t)
    <3>1. pc[t] = "upsert" /\ call[t].op = "link" /\ call[t].user \in Users
      BY <1>1, <2>8, CallFields DEF UpsertLink, At, RunsItsOwn
    <3>2. /\ Lock(t, AccountRow(call[t].user)) /\ Goto(t, "unique") /\ UNCHANGED call
          /\ AccountRow(call[t].user) \in LockRows
      BY <2>8, <3>1, RowTypes DEF UpsertLink
    <3> QED
      BY <1>1, <3>1, <3>2, RowTypes, HoldersLock
  <2>9. CASE CheckUnique(t)
    <3>1. CASE pc[t] = "unique" /\ Goto(t, "ensureWallet") /\ UNCHANGED <<call, locks>>
      BY <1>1, <3>1, HoldersMove
    <3> QED
      BY <1>4, <2>9, <3>1 DEF CheckUnique, At
  <2>10. CASE EnsureWallet(t)
    <3>1. pc[t] = "ensureWallet" /\ Goto(t, "commit") /\ UNCHANGED <<call, locks>>
      BY <2>10 DEF EnsureWallet, At
    <3> QED
      BY <1>1, <3>1, HoldersMove
  <2>11. CASE Commit(t) \/ Single(t) \/ Victim(t)
    <3>1. Finish(t)
      BY <2>11 DEF Commit, Single, Victim, Rollback
    <3> QED
      BY <1>1, <3>1, HoldersFinish
  <2> QED
    BY <1>5, <2>1, <2>2, <2>3, <2>5, <2>6, <2>7, <2>8, <2>9, <2>10, <2>11 DEF Step
<1> QED
  BY <1>2, <1>3, <1>4, <1>5 DEF Next, Abort

(* Settling a row waits for nobody. *)
LEMMA SettleWaitsNot ==
    ASSUME NEW t, pc[t] = "single", call[t].op = "settle"
    PROVE  WaitsFor(t) = {}
  BY Zenon DEF WaitsFor

(* What each statement waits for, as far as it is a row. *)
LEMMA WaitsIs ==
    ASSUME NEW t
    PROVE  /\ pc[t] \in {"lock", "single"} =>
                WaitsFor(t) \subseteq Holder(ProductRow(call[t].product))
           /\ pc[t] = "wallet" => WaitsFor(t) \subseteq Holder(WalletRow(call[t].user))
           /\ pc[t] = "record" => WaitsFor(t) \subseteq Holder(AccountRow(call[t].user))
           /\ pc[t] \notin {"lock", "single", "wallet", "record", "upsert", "unique",
                            "ensureWallet"} => WaitsFor(t) = {}
<1>1. pc[t] = "lock" => WaitsFor(t) \subseteq Holder(ProductRow(call[t].product))
  BY Zenon DEF WaitsFor
<1>2. pc[t] = "single" => WaitsFor(t) \subseteq Holder(ProductRow(call[t].product))
  BY Zenon DEF WaitsFor
<1>3. pc[t] = "wallet" => WaitsFor(t) \subseteq Holder(WalletRow(call[t].user))
  BY Zenon DEF WaitsFor
<1>4. pc[t] = "record" => WaitsFor(t) \subseteq Holder(AccountRow(call[t].user))
  BY Zenon DEF WaitsFor
<1>5. pc[t] \notin {"lock", "single", "wallet", "record", "upsert", "unique", "ensureWallet"}
        => WaitsFor(t) = {}
  BY Zenon DEF WaitsFor
<1> QED
  BY <1>1, <1>2, <1>3, <1>4, <1>5

(* OnlyLinksDeadlock is a property of the runs: however many purchases, credits,
   edits and deliveries run, they do not wait for each other in a circle unless
   a /link is in it, for each of them locks the product before the wallet and the
   wallet before the account (purchase.go:27,48,83; kits.go:157,186,220;
   wallet.go:39,48; accounts.go:21,33). *)
THEOREM OnlyLinksCorrect == Spec => []OnlyLinksDeadlock
<1>1. TxInit => HoldersKnown
  BY TxAssumption, RowTypes DEF TxInit, HoldersKnown, TxAssumption
<1>2. TxInv /\ HoldersKnown /\ [Next]_vars => HoldersKnown'
  BY HoldersStep
<1>3. TxInv /\ HoldersKnown => OnlyLinksDeadlock
  <2> SUFFICES ASSUME TxInv, HoldersKnown, NEW S \in SUBSET Txs, NEW s \in S, Circle(S),
                      \A x \in S : call[x].op # "link"
               PROVE  FALSE
    BY DEF OnlyLinksDeadlock
  <2>1. ASSUME NEW x \in S
        PROVE  /\ RunsItsOwn(x)
               /\ \E y \in S : y \in WaitsFor(x)
               /\ pc[x] \in {"lock", "single", "wallet", "record"}
    <3>1. RunsItsOwn(x) /\ \E y \in S : y \in WaitsFor(x)
      BY DEF TxInv, Stands, Circle
    <3>2. pc[x] \notin {"upsert", "unique", "ensureWallet"}
      BY <3>1 DEF RunsItsOwn
    <3> QED
      BY <3>1, <3>2, WaitsIs
  <2>2. ASSUME NEW x \in S, NEW y \in S, NEW r, y \in Holder(r)
        PROVE  locks[r] = y
    BY <2>2 DEF Holder
  <2>3. \A x \in S : pc[x] # "record"
    <3> SUFFICES ASSUME NEW x \in S, pc[x] = "record" PROVE FALSE
      OBVIOUS
    <3>1. call[x].user \in Users
      BY <2>1, CallFields DEF RunsItsOwn
    <3>2. PICK y \in S : y \in WaitsFor(x)
      BY <2>1
    <3>3. locks[AccountRow(call[x].user)] = y
      BY <2>2, <3>2, WaitsIs
    <3> QED
      BY <3>1, <3>3 DEF HoldersKnown
  <2>4. \A x \in S : pc[x] # "wallet"
    <3> SUFFICES ASSUME NEW x \in S, pc[x] = "wallet" PROVE FALSE
      OBVIOUS
    <3>1. call[x].user \in Users
      BY <2>1, CallFields DEF RunsItsOwn
    <3>2. PICK y \in S : y \in WaitsFor(x)
      BY <2>1
    <3>3. locks[WalletRow(call[x].user)] = y
      BY <2>2, <3>2, WaitsIs
    <3>4. pc[y] \in HasWallet
      BY <3>1, <3>3 DEF HoldersKnown
    <3> QED
      BY <2>1, <2>3, <3>4 DEF HasWallet
  <2>5. pc[s] \in {"lock", "single"}
    BY <2>1, <2>3, <2>4
  <2>6. PICK y \in S : y \in WaitsFor(s)
    BY <2>1
  <2>7. locks[ProductRow(call[s].product)] = y
    BY <2>2, <2>5, <2>6, WaitsIs
  <2>8. call[s].product \in Products
    BY <2>1, <2>5, <2>6, CallFields, SettleWaitsNot DEF RunsItsOwn
  <2>9. pc[y] \in HasProduct
    BY <2>7, <2>8 DEF HoldersKnown
  <2> QED
    BY <2>1, <2>3, <2>4, <2>9 DEF HasProduct
<1> QED
  BY TxInvInit, TxInvariant, <1>1, <1>2, <1>3, PTL DEF Spec
=============================================================================
