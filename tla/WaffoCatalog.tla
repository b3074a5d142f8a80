---------------------------- MODULE WaffoCatalog ----------------------------
(***************************************************************************)
(* The catalogue that a checkout at Waffo sells from (waffo_provider.py,    *)
(* ensure_product_id and create_checkout) and the scripts that keep it in   *)
(* step with the price table (server/scripts/waffo_*.py).  Every item sold  *)
(* needs a product at Waffo.  It is made when the item is first bought, and *)
(* its id is kept in the kv table; there is no way to delete a product.     *)
(*                                                                         *)
(* What is asked at checkout comes from the order; a product's own prices   *)
(* only decide in which currencies it may be sold: here they are up to date *)
(* or not, and a name is a version.  The fixed product of a test setup      *)
(* (WAFFO_PRODUCT_ID) is left out.                                          *)
(***************************************************************************)
EXTENDS Integers, FiniteSets

CONSTANTS
    Items,        \* what is sold
    Checkouts,    \* checkouts that may be under way at a time
    MaxProducts,  \* bounds the products that are ever made
    MaxEpoch      \* bounds the changes of an item's name

VARIABLES
    text,         \* of each item: the version of its name in our tables
    long,         \* items whose name is over 64 characters, and is cut (fit_name)
    kv,           \* of each item: the product cached for it, 0 for none
    prod,         \* the products at Waffo
    checkout,     \* what each checkout is at
    owed,         \* products with an order that is not refunded
    excused       \* history: items that two checkouts made at a time, or whose
                  \* product could not be found again

catalogVars == <<text, long, kv, prod, checkout, owed, excused>>
tables == <<text, long>>

Ids     == 1..MaxProducts
Absent  == [item |-> "no item"]
Idle    == [step |-> "idle"]
Made    == {n \in Ids : prod[n] # Absent}
Active(i)  == {n \in Made : prod[n].item = i /\ prod[n].active}
\* fit_name
Cut(i)  == i \in long
Cached  == {kv[i] : i \in Items} \ {0}

TypeOK ==
    /\ text \in [Items -> 0..MaxEpoch] /\ long \subseteq Items
    /\ kv \in [Items -> {0} \union Made]
    /\ prod \in [Ids -> {Absent} \union
          [item : Items, name : 0..MaxEpoch, dated : BOOLEAN,
           active : BOOLEAN, live : BOOLEAN, tagged : BOOLEAN]]
    /\ checkout \in [Checkouts -> {Idle} \union
          [step : {"look", "create", "publish", "session"}, item : Items, id : {0} \union Ids]]
    /\ owed \subseteq Made /\ excused \subseteq Items

Init ==
    /\ text = [i \in Items |-> 0] /\ long \in SUBSET Items
    /\ kv = [i \in Items |-> 0]
    /\ prod = [n \in Ids |-> Absent]
    /\ checkout = [c \in Checkouts |-> Idle]
    /\ owed = {} /\ excused = {}

-----------------------------------------------------------------------------
(* A checkout.                                                              *)

At(c, step) == checkout[c].step = step
Go(c, step, i, n) == checkout' = [checkout EXCEPT ![c] = [step |-> step, item |-> i, id |-> n]]
Fail(c) == checkout' = [checkout EXCEPT ![c] = Idle]

\* _kv_set
Kept(i, n) == kv' = [kv EXCEPT ![i] = n]

Begin(c, i) ==
    /\ At(c, "idle")
    /\ Go(c, IF kv[i] # 0 THEN "session" ELSE "look", i, kv[i])
    /\ excused' = IF kv[i] = 0 /\ \E d \in Checkouts : checkout[d] # Idle /\ checkout[d].item = i
                  THEN excused \union {i} ELSE excused
    /\ UNCHANGED <<tables, kv, prod, owed>>

\* A product there is, of the same name, is used again; the names of the
\* products that were cut are not the names in the table.
Found(i) == {n \in Active(i) : prod[n].name = text[i] /\ ~Cut(i)}

\* A store that cannot be found ends the checkout; products that cannot be
\* listed count as none.
Look(c, answer) ==
    /\ At(c, "look")
    /\ LET i == checkout[c].item
       IN  IF answer = "no store"
           THEN Fail(c) /\ UNCHANGED <<kv, excused>>
           ELSE IF answer = "listed" /\ Found(i) # {}
           THEN \E n \in Found(i) :
                   /\ Kept(i, n) /\ Go(c, "session", i, n) /\ UNCHANGED excused
           ELSE /\ Go(c, "create", i, 0) /\ UNCHANGED kv
                /\ excused' = IF Found(i) # {} THEN excused \union {i} ELSE excused
    /\ UNCHANGED <<tables, prod, owed>>

\* What Waffo makes of it, with a price for every currency there is one in;
\* whether it can be sold at once is Waffo's affair.
Product(i, live) == [item |-> i, name |-> text[i], dated |-> FALSE,
                     active |-> TRUE, live |-> live, tagged |-> FALSE]

\* Mutant of Create: the id is kept when the product is published.
CacheAfterPublish(c, answer, live) ==
    /\ At(c, "create")
    /\ LET i == checkout[c].item
           n == Cardinality(Made) + 1
       IN  IF answer = "refused" THEN Fail(c) /\ UNCHANGED <<prod, excused>>
           ELSE /\ n \in Ids
                /\ prod' = [prod EXCEPT ![n] = Product(i, live)]
                /\ IF answer = "made" THEN Go(c, "publish", i, n) ELSE Fail(c)
                /\ UNCHANGED excused
    /\ UNCHANGED <<tables, kv, owed>>

\* The id is kept as soon as there is one, so that who tries again finds it.
Create(c, answer, live) ==
    /\ At(c, "create")
    /\ LET i == checkout[c].item
           n == Cardinality(Made) + 1
       IN  CASE answer = "refused" -> Fail(c) /\ UNCHANGED <<kv, prod, excused>>
             [] answer = "made" ->
                    /\ n \in Ids
                    /\ prod' = [prod EXCEPT ![n] = Product(i, live)]
                    /\ Kept(i, n) /\ Go(c, "publish", i, n) /\ UNCHANGED excused
             [] answer = "lost" ->
                    /\ n \in Ids
                    /\ prod' = [prod EXCEPT ![n] = Product(i, live)]
                    /\ Fail(c) /\ UNCHANGED kv
                    /\ excused' = IF Cut(i) THEN excused \union {i} ELSE excused
    /\ UNCHANGED <<tables, owed>>

\* There may be nothing to publish, which is no failure.
Publish(c, answer) ==
    /\ At(c, "publish")
    /\ LET n == checkout[c].id
       IN  CASE answer = "failed" -> Fail(c) /\ UNCHANGED <<kv, prod>>
             [] answer = "no test version" ->
                    /\ prod[n].live
                    /\ Kept(checkout[c].item, n)
                    /\ Go(c, "session", checkout[c].item, n) /\ UNCHANGED prod
             [] answer = "published" ->
                    /\ prod' = [prod EXCEPT ![n].live = TRUE]
                    /\ Kept(checkout[c].item, n)
                    /\ Go(c, "session", checkout[c].item, n)
    /\ UNCHANGED <<tables, owed, excused>>

\* Waffo sells what is active and published, or refuses.
Session(c, ok) ==
    /\ At(c, "session")
    /\ ok => prod[checkout[c].id].active /\ prod[checkout[c].id].live
    /\ owed' = IF ok THEN owed \union {checkout[c].id} ELSE owed
    /\ Fail(c)
    /\ UNCHANGED <<tables, kv, prod, excused>>

-----------------------------------------------------------------------------
(* The tables change, the cache is lost, and the operator cleans up.        *)

\* What may no longer be found by its name.
Unfound(i) == Active(i) # {} /\ (kv[i] = 0 \/ \E c \in Checkouts : checkout[c] # Idle)

Retext(i) ==
    /\ text[i] < MaxEpoch /\ text' = [text EXCEPT ![i] = @ + 1]
    /\ excused' = IF Unfound(i) THEN excused \union {i} ELSE excused
    /\ UNCHANGED <<long, kv, prod, checkout, owed>>

Reprice(i) ==
    /\ prod' = [n \in Ids |-> IF n \in Made /\ prod[n].item = i
                             THEN [prod[n] EXCEPT !.dated = TRUE] ELSE prod[n]]
    /\ UNCHANGED <<tables, kv, checkout, owed, excused>>

LoseCache(i) ==
    /\ kv[i] # 0 /\ kv' = [kv EXCEPT ![i] = 0]
    /\ excused' = IF kv[i] \in Found(i) THEN excused ELSE excused \union {i}
    /\ UNCHANGED <<tables, prod, checkout, owed>>

Refund(n) ==
    /\ n \in owed /\ owed' = owed \ {n}
    /\ UNCHANGED <<tables, kv, prod, checkout, excused>>

Deactivate(n) ==
    /\ n \in Made \ Cached /\ prod[n].active
    /\ prod' = [prod EXCEPT ![n].active = FALSE]
    /\ UNCHANGED <<tables, kv, checkout, owed, excused>>

\* waffo_sync_catalog: a product that checkout uses gets the table's prices and
\* name.  A name that is too long is refused, and ends the run.
SyncCatalog(i) ==
    /\ kv[i] # 0 /\ i \notin long
    /\ prod[kv[i]].name # text[i] \/ prod[kv[i]].dated
    /\ prod' = [prod EXCEPT ![kv[i]].name = text[i], ![kv[i]].dated = FALSE]
    /\ UNCHANGED <<tables, kv, checkout, owed, excused>>

\* waffo_rename_products: the name alone, with the prices as they were.
RenameProducts(i) ==
    /\ kv[i] # 0 /\ prod[kv[i]].name # text[i]
    /\ prod' = [prod EXCEPT ![kv[i]].name = text[i]]
    /\ UNCHANGED <<tables, kv, checkout, owed, excused>>

\* waffo_retire_products: what is withdrawn, and owes nobody, is marked.
RetireProducts(n) ==
    /\ n \in Made \ (Cached \union owed) /\ ~prod[n].active /\ ~prod[n].tagged
    /\ prod' = [prod EXCEPT ![n].tagged = TRUE]
    /\ UNCHANGED <<tables, kv, checkout, owed, excused>>

Next ==
    \/ \E c \in Checkouts :
          \/ \E i \in Items : Begin(c, i)
          \/ \E answer \in {"no store", "listed", "failed"} : Look(c, answer)
          \/ \E answer \in {"refused", "made", "lost"}, live \in BOOLEAN : Create(c, answer, live)
          \/ \E answer \in {"failed", "no test version", "published"} : Publish(c, answer)
          \/ \E ok \in BOOLEAN : Session(c, ok)
    \/ \E i \in Items : Retext(i) \/ Reprice(i) \/ LoseCache(i) \/ SyncCatalog(i) \/ RenameProducts(i)
    \/ \E n \in Ids : Refund(n) \/ Deactivate(n) \/ RetireProducts(n)

Spec == Init /\ [][Next]_catalogVars

-----------------------------------------------------------------------------
(* Correctness.                                                             *)

\* However often a checkout fails half way and is tried again by the next one, an
\* item has one product on sale: a publish that failed, a lost answer or a lost
\* cache makes no second one (waffo_provider.py, ensure_product_id).  Excused are
\* items that two checkouts began to make at once, and those whose product the
\* list cannot show by name: cut, renamed while it was not cached, or not listed.
OneProductEach == \A i \in Items \ excused : Cardinality(Active(i)) <= 1

\* waffo_provider.py:256: whoever is at it, no duplicate is made.
NoDuplicates == \A i \in Items : Cardinality(Active(i)) <= 1

\* waffo_provider.py:309: a product that checkout uses is published, or about to be.
UsedIsPublished ==
    \A i \in Items : kv[i] # 0 =>
        prod[kv[i]].live \/ \E c \in Checkouts : At(c, "publish") /\ checkout[c].id = kv[i]
=============================================================================
