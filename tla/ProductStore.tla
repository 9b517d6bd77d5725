---------------------------- MODULE ProductStore ----------------------------
(***************************************************************************)
(* The product rows and their listings, as the operator's requests and the *)
(* background jobs share them in PostgreSQL, with the operator's requests  *)
(* that decide whether a product is on sale, removed or back again         *)
(* (app/routes/products.py).                                               *)
(*                                                                         *)
(* A request loads the row, assigns its attributes and commits, with       *)
(* nothing but database round trips in between: one action.  None of them  *)
(* reads or bumps `version': only safe_update_status (app/db.py) does.     *)
(*                                                                         *)
(* The module follows the products of one Avito account.  Every job treats *)
(* the accounts one after another, with a fetch and a transaction each, so *)
(* the other accounts only lengthen the time between two of its steps.     *)
(***************************************************************************)
EXTENDS Naturals

CONSTANTS
    Products,      \* the primary keys that may ever be used
    Slots,         \* one for each listing a product may have (bound)
    Ads,           \* the avito_ids of the account's ads
    None,          \* SQL NULL
    PatchStatuses, \* the values the operator sends in PATCH {"status": ...}
    MaxTime        \* bound of the clock

ASSUME SlotsExist == Slots # {}
ASSUME NoneIsNoValue == None \notin Nat \cup Ads
ASSUME MaxTimeIsNat == MaxTime \in Nat

VARIABLES
    row,      \* the products table
    listing,  \* the listings table: the status of each listing, or "none"
    now       \* the wall clock; one unit is long compared with a request

storeVars == <<row, listing, now>>

\* PRODUCT_STATUSES
Statuses == {"draft", "imported", "active", "paused", "sold", "scheduled",
             "published", "removed"}

ASSUME PatchStatusesAreStatuses == PatchStatuses \subseteq Statuses

\* A primary key is never given out twice, so a deleted row stays deleted.
Lives == {"unborn", "live", "deleted"}

\* The columns the jobs read; photos: the product has rows in product_images.
Rows == [life: Lives, status: Statuses, version: Nat, removedAt: Nat \cup {None},
         avitoId: Ads \cup {None}, photos: BOOLEAN]

ListingStatuses == {"none", "draft", "scheduled", "published"}
Existing == ListingStatuses \ {"none"}

\* A product's listings on the account; nothing keeps it to one of them.  The
\* one an insertion of the product makes is in slot First.
Listings == Products \X Slots
First == CHOOSE s \in Slots : TRUE

StoreTypeOK ==
    /\ row \in [Products -> Rows]
    /\ listing \in [Listings -> ListingStatuses]
    /\ now \in Nat

Live == {p \in Products : row[p].life = "live"}

UnbornRow == [life |-> "unborn", status |-> "draft", version |-> 0,
              removedAt |-> None, avitoId |-> None, photos |-> FALSE]

\* A row as the product form or an import inserts it: Product.version
\* defaults to 1.
NewRow(status, avitoId, photos) ==
    [life |-> "live", status |-> status, version |-> 1,
     removedAt |-> None, avitoId |-> avitoId, photos |-> photos]

\* Product.avito_id is UNIQUE.
AvitoIdUnique(rows) ==
    \A p, q \in Products :
        p # q /\ rows[p].avitoId # None /\ rows[p].avitoId = rows[q].avitoId
            => "deleted" \in {rows[p].life, rows[q].life}

\* Keys not used yet, new drafts, and products on sale under their ads.
StoreInit ==
    /\ row \in [Products -> {UnbornRow}
                   \cup {NewRow("draft", None, ph) : ph \in BOOLEAN}
                   \cup {NewRow("active", a, ph) : a \in Ads, ph \in BOOLEAN}]
    /\ AvitoIdUnique(row)
    /\ listing = [l \in Listings |->
                    IF row[l[1]].life = "live" /\ l[2] = First THEN "draft" ELSE "none"]
    /\ now = 0

\* The listings of p whose status is one of `from' get the status `to'.
Relisted(p, from, to) ==
    [l \in Listings |-> IF l[1] = p /\ listing[l] \in from THEN to ELSE listing[l]]

\* PATCH /products/{id} {"status": val}.  removed_at is left alone whatever
\* the status becomes; scheduled listings are reset on scheduled -> draft only.
PatchProduct(p, val) ==
    /\ p \in Live
    /\ row' = [row EXCEPT ![p].status = val]
    /\ listing' = IF row[p].status = "scheduled" /\ val = "draft"
                  THEN Relisted(p, {"scheduled"}, "draft") ELSE listing
    /\ UNCHANGED now

\* DELETE /products/{id}: every listing goes back to draft.
DeleteProduct(p) ==
    /\ p \in Live
    /\ row' = [row EXCEPT ![p].status = "removed", ![p].removedAt = now]
    /\ listing' = Relisted(p, Existing, "draft")
    /\ UNCHANGED now

\* DELETE /products/{id}/avito: only published listings go back to draft.
DeleteFromAvito(p) ==
    /\ p \in Live
    /\ row' = [row EXCEPT ![p].status = "removed", ![p].removedAt = now]
    /\ listing' = Relisted(p, {"published"}, "draft")
    /\ UNCHANGED now

\* POST /products/bulk-activate; `complete' are the selected products whose
\* required fields are all filled in.
BulkActivate(complete) ==
    /\ complete # {}
    /\ \A p \in complete : p \in Live /\ row[p].status \in {"draft", "imported"}
    /\ row' = [p \in Products |->
                 IF p \in complete THEN [row[p] EXCEPT !.status = "active"] ELSE row[p]]
    /\ UNCHANGED <<listing, now>>

\* The wall clock moves on (bounded by MaxTime).
Tick ==
    /\ now < MaxTime
    /\ now' = now + 1
    /\ UNCHANGED <<row, listing>>

\* A request about product p alone.
ProductRequest(p) ==
    \/ \E val \in PatchStatuses : PatchProduct(p, val)
    \/ DeleteProduct(p)
    \/ DeleteFromAvito(p)
=============================================================================
