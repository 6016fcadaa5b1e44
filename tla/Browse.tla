-------------------------------- MODULE Browse --------------------------------
(***************************************************************************)
(* Looking at the catalogue and buying from it: /shop, /kits and the pages *)
(* of the dashboard, while admins edit and users buy.  The items are read  *)
(* in one query; the kits in one for their rows and one more per kit for   *)
(* its lines.  Discord takes a message of limited length, and the error of *)
(* one that is too long is dropped.                                        *)
(***************************************************************************)
EXTENDS Store

CONSTANTS
    Looks,      \* listings, each asked for once
    Room,       \* lines of text that fit into one message
    MaxRows     \* bound: rows of the ledger

ASSUME BrowseAssumption == Room \in Nat /\ MaxRows \in Nat

VARIABLES
    pc,         \* the next query of each listing
    ask,        \* who asked for what, and where
    seen,       \* the offers it has read
    todo,       \* the kits whose lines it has not read
    answer,     \* what the asker got
    repriced,   \* history: products written since the listing read their row
    deals       \* history: what each purchase took and gave, and the listings
                \* its buyer had got before

browseVars == <<pc, ask, seen, todo, answer, repriced, deals>>
vars == <<storeVars, browseVars>>

Asks == [user : Users, kind : {Items, Kits}, place : {"discord", "web"}]

NoAsk == [user |-> None, kind |-> {}, place |-> "none"]

Init ==
    /\ StoreInit
    /\ pc = [x \in Looks |-> "idle"]
    /\ ask = [x \in Looks |-> NoAsk]
    /\ seen = [x \in Looks |-> <<>>]
    /\ todo = [x \in Looks |-> {}]
    /\ answer = [x \in Looks |-> "none"]
    /\ repriced = [x \in Looks |-> {}]
    /\ deals = <<>>

-----------------------------------------------------------------------------
(* A listing *)

Ask(x, a) ==
    /\ pc[x] = "idle"
    /\ pc' = [pc EXCEPT ![x] = "rows"]
    /\ ask' = [ask EXCEPT ![x] = a]
    /\ UNCHANGED <<storeVars, seen, todo, answer, repriced, deals>>

End(x, got) ==
    /\ pc' = [pc EXCEPT ![x] = "end"]
    /\ answer' = [answer EXCEPT ![x] = got]

(* The dashboard shows what is not on sale too. *)
Found(x) ==
    {p \in ask[x].kind : shelf[p].listed /\ (ask[x].place = "discord" => shelf[p].enabled)}

(* ListItems, or the first query of ListKits. *)
ReadRows(x) ==
    /\ pc[x] = "rows"
    /\ seen' = [seen EXCEPT ![x] = [p \in Found(x) |-> shelf[p]]]
    /\ repriced' = [repriced EXCEPT ![x] = {}]
    /\ todo' = [todo EXCEPT ![x] = Found(x) \cap Kits]
    /\ pc' = [pc EXCEPT ![x] = "lines"]
    /\ UNCHANGED <<storeVars, ask, answer, deals>>

(* Mutant: the lines of the kit before are kept in the slice. *)
ReadLinesKept(x) ==
    /\ pc[x] = "lines"
    /\ \E k \in todo[x] :
        /\ \E kept \in {0} \cup {seen[x][o].lines : o \in (DOMAIN seen[x] \cap Kits) \ todo[x]} :
            seen' = [seen EXCEPT ![x][k].lines = shelf[k].lines + kept]
        /\ todo' = [todo EXCEPT ![x] = @ \ {k}]
    /\ UNCHANGED <<storeVars, pc, ask, answer, repriced, deals>>

(* kitItems, once per kit. *)
ReadLines(x) ==
    /\ pc[x] = "lines"
    /\ \E k \in todo[x] :
        /\ seen' = [seen EXCEPT ![x][k].lines = shelf[k].lines]
        /\ todo' = [todo EXCEPT ![x] = @ \ {k}]
    /\ UNCHANGED <<storeVars, pc, ask, answer, repriced, deals>>

(* The text has a line for each offer, and one for each line of a kit. *)
Text(x) ==
    {line \in (DOMAIN seen[x]) \X (0..MaxLines) :
        line[2] = 0 \/ (line[1] \in Kits /\ line[2] <= seen[x][line[1]].lines)}

(* handleShop, handleKits: "The shop is empty", or the listing if Discord takes
   it.  handleListItems, handleListKits: the rows as JSON. *)
Show(x) ==
    /\ pc[x] = "lines" /\ todo[x] = {}
    /\ End(x, IF ask[x].place = "discord" /\ seen[x] = <<>> THEN "empty"
              ELSE IF ask[x].place = "discord" /\ Cardinality(Text(x)) > Room THEN "nothing"
              ELSE "listing")
    /\ UNCHANGED <<storeVars, ask, seen, todo, repriced, deals>>

(* A query fails: "Something went wrong". *)
Fail(x) ==
    /\ pc[x] \in {"rows", "lines"}
    /\ End(x, "error")
    /\ UNCHANGED <<storeVars, ask, seen, todo, repriced, deals>>

-----------------------------------------------------------------------------
(* Everyone else *)

(* A purchase takes the offer as it is by then, and not as it was shown. *)
Sell(u, p) ==
    /\ Purchase(u, p)
    /\ deals' = Append(deals,
            [product |-> p, price |-> -txns'[Len(txns')].amount, lines |-> shelf[p].lines,
             shown |-> {x \in Looks : answer[x] = "listing" /\ ask[x].user = u}])
    /\ UNCHANGED <<pc, ask, seen, todo, answer, repriced>>

Edit ==
    /\ EditItem \/ AddKit
    /\ repriced' = [x \in Looks |-> repriced[x] \cup {p \in Products : shelf'[p] # shelf[p]}]
    /\ UNCHANGED <<pc, ask, seen, todo, answer, deals>>

Others == (Link \/ Earn \/ GrowKit \/ Toggle) /\ UNCHANGED browseVars

Reader(x) == ReadRows(x) \/ ReadLines(x) \/ Show(x)

Next ==
    \/ \E x \in Looks : Reader(x) \/ Fail(x) \/ \E a \in Asks : Ask(x, a)
    \/ Len(txns) < MaxRows /\ \E u \in Users, p \in Products : Sell(u, p)
    \/ Edit
    \/ Len(txns) < MaxRows /\ Others

Spec == Init /\ [][Next]_vars

-----------------------------------------------------------------------------
(* Properties *)

(* Who buys what a listing showed pays the price it showed, unless an admin has
   written the offer since, and of a kit gets at least the lines it showed:
   though a listing is put together from several queries, and what was looked
   at is not what is locked (kits.go:104-129, handlers.go:188, 261). *)
BoughtAsShown ==
    \A n \in 1..Len(deals) : \A x \in deals[n].shown :
        LET p == deals[n].product IN
        p \in DOMAIN seen[x] =>
            /\ p \in Kits => deals[n].price = seen[x][p].price
            /\ p \in Kits => deals[n].lines >= seen[x][p].lines
            /\ p \notin repriced[x] => deals[n].price = seen[x][p].price

=============================================================================
