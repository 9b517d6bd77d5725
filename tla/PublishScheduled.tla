-------------------------- MODULE PublishScheduled --------------------------
(***************************************************************************)
(* Publishing at a set time: the requests that schedule a listing and take *)
(* the schedule back (app/routes/products.py, schedule.py, models.py,      *)
(* listings.py), and the job that uploads the listings whose time has come *)
(* (publish_scheduled_products, app/services/publish_scheduled.py).        *)
(*                                                                         *)
(* The job reads the due listings, waits for Avito's answer to the upload, *)
(* and writes in a second transaction.  The operator may commit in between,*)
(* and the job may die there: the upload is not undone.  The requests write*)
(* the product, the listing or both, and not all of them the same.         *)
(*                                                                         *)
(* One account, hence one upload a run; a listing whose account is changed *)
(* comes or goes as if it were created or deleted.                         *)
(***************************************************************************)
EXTENDS ProductStore

CONSTANTS
    Pictured,  \* the products with an image_url, from a feed or a chat
    Times      \* the times the operator picks for a listing

ASSUME TimesAreNat == Times \subseteq Nat

VARIABLES
    due,      \* scheduled_at of a listing
    waiting,  \* products with a photo still to come from Yandex.Disk
    phase,    \* how far the job's run has come
    batch,    \* the listings it publishes
    wasActive, \* their products whose row said "active" when it was read
    gone,     \* the listings of the batch that were deleted meanwhile
    uploads   \* uploads[l]: uploads of l since it was last scheduled, less those
              \* whose run did not live to record them

jobVars == <<phase, batch, wasActive, gone>>
vars == <<storeVars, due, waiting, jobVars, uploads>>

TypeOK ==
    /\ StoreTypeOK
    /\ due \in [Listings -> Nat \cup {None}]
    /\ waiting \in SUBSET Products
    /\ phase \in {"idle", "collected", "uploaded"}
    /\ batch \in SUBSET Listings
    /\ wasActive \in SUBSET Products
    /\ gone \in SUBSET batch
    /\ uploads \in [Listings -> Nat]

Init ==
    /\ StoreInit
    /\ due = [l \in Listings |-> None]
    /\ waiting = {}
    /\ phase = "idle" /\ batch = {} /\ wasActive = {} /\ gone = {}
    /\ uploads = [l \in Listings |-> 0]

\* is_ready_for_feed, for products whose other fields are all filled in: an
\* imported one may do with its image_url, but not without an ad.
Ready(p) ==
    /\ p \in Live
    /\ row[p].photos \/ (row[p].status = "imported" /\ p \in Pictured)
    /\ row[p].status = "imported" => row[p].avitoId # None

ListingsOf(p) == {l \in Listings : l[1] = p /\ listing[l] # "none"}

-----------------------------------------------------------------------------
(* The operator *)

\* A listing, there or inserted, is scheduled for `at': a new schedule, with its
\* own uploads.
ScheduleListing(l, at) ==
    /\ listing' = [listing EXCEPT ![l] = "scheduled"]
    /\ due' = [due EXCEPT ![l] = at]
    /\ uploads' = [uploads EXCEPT ![l] = 0]
    /\ UNCHANGED <<now, waiting, jobVars>>

SetStatus(p, status) == row' = [row EXCEPT ![p].status = status]

\* POST /products/{id}/schedule: any product that is ready, whatever its status.
\* One with two listings fails (scalar_one_or_none), and changes nothing.
ScheduleProduct(l, at) ==
    /\ Ready(l[1]) /\ ListingsOf(l[1]) \subseteq {l}
    /\ SetStatus(l[1], "scheduled") /\ ScheduleListing(l, at)

\* POST /products/schedule-bulk leaves the product's own status alone.
ScheduleBulk(l, at) ==
    /\ Ready(l[1]) /\ ListingsOf(l[1]) \subseteq {l}
    /\ UNCHANGED row /\ ScheduleListing(l, at)

\* POST /models/{id}/bulk-publish: drafts, at once.  Of several listings it takes
\* whichever the query returned last.
BulkPublish(l) ==
    /\ Ready(l[1]) /\ row[l[1]].status = "draft"
    /\ ListingsOf(l[1]) # {} => l \in ListingsOf(l[1])
    /\ SetStatus(l[1], "scheduled") /\ ScheduleListing(l, now)

\* The listings of p whose status is one of `from' lose their time.
Retimed(p, from) ==
    due' = [l \in Listings |-> IF l[1] = p /\ listing[l] \in from THEN None ELSE due[l]]

\* POST /models/{id}/bulk-schedule: drafts, ready or not, with no time yet; the
\* listings they have, be it none.
BulkSchedule(p) ==
    /\ p \in Live /\ row[p].status = "draft"
    /\ SetStatus(p, "scheduled")
    /\ listing' = Relisted(p, Existing, "scheduled") /\ Retimed(p, Existing)
    /\ uploads' = [l \in Listings |-> IF l \in ListingsOf(p) THEN 0 ELSE uploads[l]]
    /\ UNCHANGED <<now, waiting, jobVars>>

Kept == UNCHANGED <<waiting, jobVars, uploads>>

\* DELETE /products/{id}/schedule: the listings, not the product.
CancelSchedule(p) ==
    /\ listing' = Relisted(p, {"scheduled"}, "draft") /\ Retimed(p, {"scheduled"})
    /\ UNCHANGED <<row, now>> /\ Kept

\* POST /schedule/api/schedule/{id}/cancel: the product, not the listing.
CancelScheduled(p) ==
    /\ p \in Live /\ row[p].status = "scheduled"
    /\ SetStatus(p, "draft")
    /\ UNCHANGED <<listing, now, due>> /\ Kept

\* POST /products/new, .../duplicate, /models/{id}/products and .../create-variant;
\* without an account there is no listing.
CreateProduct(p) ==
    /\ row[p].life = "unborn"
    /\ \E status \in PatchStatuses \cup {"draft"}, photos \in BOOLEAN :
          row' = [row EXCEPT ![p] = NewRow(status, None, photos)]
    /\ listing' \in {[listing EXCEPT ![<<p, First>>] = "draft"], listing}
    /\ UNCHANGED <<now, due>> /\ Kept

\* POST /products/{id}/edit, whose form has times of its own: it leaves the
\* listing scheduled, or not, as it was.
EditProduct(p) ==
    /\ p \in Live
    /\ \E status \in PatchStatuses \cup {"draft", "scheduled"} : SetStatus(p, status)
    /\ UNCHANGED <<listing, now, due>> /\ Kept

\* A listing that comes to be scheduled counts its uploads anew.
WriteListing(l, status, at) ==
    /\ listing' = [listing EXCEPT ![l] = status]
    /\ due' = [due EXCEPT ![l] = at]
    /\ uploads' = IF status = "scheduled" /\ listing[l] # "scheduled"
                   THEN [uploads EXCEPT ![l] = 0] ELSE uploads
    /\ UNCHANGED <<row, now, waiting, jobVars>>

\* POST /products/{id}/listings: one more, whatever listings there are.
CreateListing(l) ==
    /\ l[1] \in Live /\ listing[l] = "none"
    /\ \/ WriteListing(l, "draft", None)
       \/ \E at \in Times : WriteListing(l, "scheduled", at)

\* PATCH /listings/{id}: the status, the time or both, as they come.
PatchListing(l) ==
    /\ listing[l] # "none"
    /\ \E status \in Existing, at \in Times \cup {None} :
          WriteListing(l, status, at)

\* POST /listings/{id}/edit: a time schedules what is not published, and no time
\* takes the schedule back.
EditListing(l) ==
    /\ listing[l] # "none"
    /\ \E status \in Existing :
          \/ \E at \in Times :
                WriteListing(l, IF status = "published" THEN status ELSE "scheduled", at)
          \/ status = "scheduled" /\ WriteListing(l, "draft", None)
          \/ status # "scheduled" /\ WriteListing(l, status, due[l])

\* DELETE /listings/{id}; the uploads of its schedule are forgotten with it.
DeleteListing(l) ==
    /\ listing[l] # "none"
    /\ listing' = [listing EXCEPT ![l] = "none"]
    /\ due' = [due EXCEPT ![l] = None]
    /\ gone' = gone \cup (batch \cap {l})
    /\ uploads' = [uploads EXCEPT ![l] = 0]
    /\ UNCHANGED <<row, now, waiting, phase, batch, wasActive>>

\* PATCH, as in ProductStore: from "scheduled" to "draft" it clears the listings'
\* time with their status.
ChangeProduct(p) ==
    /\ \E val \in PatchStatuses : PatchProduct(p, val)
    /\ due' = [l \in Listings |-> IF listing'[l] # listing[l] THEN None ELSE due[l]]
    /\ Kept

\* DELETE takes all listings back to draft, DELETE .../avito those published.  Both
\* leave the time, and write removed_at, which nothing here reads.
RemoveProduct(p) ==
    /\ p \in Live
    /\ SetStatus(p, "removed")
    /\ \E from \in {Existing, {"published"}} : listing' = Relisted(p, from, "draft")
    /\ UNCHANGED <<now, due>> /\ Kept

ListingRequest(l) ==
    \/ \E at \in Times : ScheduleProduct(l, at) \/ ScheduleBulk(l, at)
    \/ BulkPublish(l)
    \/ CreateListing(l) \/ PatchListing(l) \/ EditListing(l) \/ DeleteListing(l)

Operator(p) ==
    \/ BulkSchedule(p) \/ CancelSchedule(p) \/ CancelScheduled(p)
    \/ CreateProduct(p) \/ EditProduct(p) \/ ChangeProduct(p) \/ RemoveProduct(p)

\* A photo is picked on Yandex.Disk, or has arrived.
PhotoToCome(p) ==
    /\ p \in Live
    /\ waiting' = IF p \in waiting THEN waiting \ {p} ELSE waiting \cup {p}
    /\ UNCHANGED <<storeVars, due, jobVars, uploads>>

-----------------------------------------------------------------------------
(* The job *)

IsDue(l) == listing[l] = "scheduled" /\ due[l] # None /\ due[l] <= now

\* Mutant: the product, too, must say "scheduled".
PublishableScheduled ==
    {l \in Listings : IsDue(l) /\ Ready(l[1]) /\ l[1] \notin waiting
                         /\ row[l[1]].status = "scheduled"}

\* A product that is not ready or waits for photos is left for a later run; a
\* run with nothing to upload is over.
Publishable == {l \in Listings : IsDue(l) /\ Ready(l[1]) /\ l[1] \notin waiting}

ProductsOf(ls) == {l[1] : l \in ls}

Collect ==
    /\ phase = "idle" /\ Publishable # {}
    /\ phase' = "collected"
    /\ batch' = Publishable
    /\ wasActive' = {p \in ProductsOf(Publishable) : row[p].status = "active"}
    /\ UNCHANGED <<storeVars, due, waiting, gone, uploads>>

Upload ==
    /\ phase = "collected"
    /\ phase' = "uploaded"
    /\ uploads' = [l \in Listings |-> uploads[l] + IF l \in batch \ gone THEN 1 ELSE 0]
    /\ UNCHANGED <<storeVars, due, waiting, batch, wasActive, gone>>

EndRun == phase' = "idle" /\ batch' = {} /\ wasActive' = {} /\ gone' = {}

OnSale(ps) ==
    [p \in Products |-> IF p \in ps THEN [row[p] EXCEPT !.status = "active"] ELSE row[p]]

\* Mutants: the listing gets the product's status; the listing is forgotten.
CommitAsActive ==
    /\ phase = "uploaded" /\ gone = {}
    /\ listing' = [l \in Listings |-> IF l \in batch THEN "active" ELSE listing[l]]
    /\ row' = OnSale(ProductsOf(batch) \ wasActive)
    /\ EndRun
    /\ UNCHANGED <<now, due, waiting, uploads>>
CommitProductOnly ==
    /\ phase = "uploaded" /\ gone = {}
    /\ row' = OnSale(ProductsOf(batch) \ wasActive)
    /\ EndRun
    /\ UNCHANGED <<listing, now, due, waiting, uploads>>

\* The listings are published and the products on sale, whatever the rows say by
\* now; but a status that is the one read is not written.  A listing that is no
\* more makes the commit fail, for the whole batch.
Commit ==
    /\ phase = "uploaded" /\ gone = {}
    /\ listing' = [l \in Listings |-> IF l \in batch THEN "published" ELSE listing[l]]
    /\ row' = OnSale(ProductsOf(batch) \ wasActive)
    /\ EndRun
    /\ UNCHANGED <<now, due, waiting, uploads>>

\* Avito refuses the upload: logged, and left for a later run.
UploadFails ==
    /\ phase = "collected"
    /\ EndRun
    /\ UNCHANGED <<storeVars, due, waiting, uploads>>

\* The process dies, or the commit fails, after the upload.
Dies ==
    /\ phase = "uploaded"
    /\ uploads' = [l \in Listings |-> IF l \in batch \ gone /\ uploads[l] > 0
                                       THEN uploads[l] - 1 ELSE uploads[l]]
    /\ EndRun
    /\ UNCHANGED <<storeVars, due, waiting>>

Job == Collect \/ Upload \/ Commit \/ UploadFails \/ Dies

Next ==
    \/ \E p \in Products : Operator(p) \/ PhotoToCome(p)
    \/ \E l \in Listings : ListingRequest(l)
    \/ Job
    \/ Tick /\ UNCHANGED <<due, waiting, jobVars, uploads>>

\* The scheduler starts the job every five minutes; not every upload is refused
\* and not every run dies.
Fairness ==
    /\ WF_vars(Collect) /\ SF_vars(Upload) /\ SF_vars(Commit)
    /\ WF_vars(gone # {} /\ Dies)

Spec == Init /\ [][Next]_vars /\ Fairness

-----------------------------------------------------------------------------
\* Each schedule of a listing is uploaded once, but for the runs that died before
\* they could record the upload: a cancellation or another request while the
\* upload is under way, or a run that starts right after it, adds none.
OneUploadPerSchedule == \A l \in Listings : uploads[l] <= 1

\* A due listing, whose product is ready and waits for no photo, does not stay
\* scheduled, whatever uploads fail, runs die and requests come in between; unless
\* the operator deletes listings under one run after the other.
DueGetsPublished ==
    \A l \in Listings :
        ~<>[](IsDue(l) /\ Ready(l[1]) /\ l[1] \notin waiting /\ gone = {})
=============================================================================
