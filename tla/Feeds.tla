------------------------------- MODULE Feeds -------------------------------
(***************************************************************************)
(* The XML feed of one account, from the product rows to Avito: two uvicorn *)
(* workers of which one runs the scheduler (app/main.py), the job that     *)
(* generates the feed five minutes before Avito comes for it               *)
(* (app/scheduler.py), the requests that generate it as well               *)
(* (app/routes/feeds.py, products.py), the generation itself               *)
(* (app/services/feed_generator.py) and Avito, which fetches {token}.xml   *)
(* every hour.                                                             *)
(*                                                                         *)
(* A generation reads the products in two queries, truncates the file that *)
(* is being served, writes it, and then commits a feed_exports row; two of *)
(* them may be under way in two workers.  An hour is a round: the job's    *)
(* minute ("due"), Avito's visit ("ran"), the rest ("fetched").            *)
(*                                                                         *)
(* The feeds that publish_scheduled_products uploads for itself, with no   *)
(* file and no feed_exports row, are left out: they hold only the products *)
(* that are due.                                                           *)
(***************************************************************************)
EXTENDS Naturals, FiniteSets

CONSTANTS
    Products,
    Workers,
    None, NoFile, Torn,  \* Torn: a feed that is not what any generation wrote
    Window,     \* rounds that fit into the 48 hours a removal is announced
    Rounds,     \* undisturbed rounds after which Avito must have heard of a change
    MaxDeaths   \* bound on the deaths of workers

ASSUME WorkersAreSome == Workers # {} /\ None \notin Workers
ASSUME BoundsAreNat == /\ Window \in Nat /\ Rounds \in Nat /\ Rounds <= Window
                       /\ MaxDeaths \in Nat

VARIABLES
    product,   \* what the feed depends on in a product's row
    avito,     \* the product's ad on Avito
    lock,      \* who holds /tmp/avito-autoload-scheduler.lock
    up,        \* the workers that run
    gen,       \* the generations under way
    latest,    \* {account_id}.xml, the file that is served
    recent,    \* a feed_exports row will be under 50 minutes old at the job's minute
    stage,     \* where in the hour we are
    hitch,     \* something went wrong in this round
    clean,     \* undisturbed rounds since the product's last change, or since a feed
               \* of former times was uploaded
    deaths

store == <<product, avito>>
workers == <<lock, up, deaths>>
clock == <<recent, stage, hitch, clean>>
vars == <<store, workers, gen, latest, clock>>

Generators == {"job", "request"}

\* sale:  "in": active, scheduled, or imported with an avito_id, and complete
\* since: rounds since removed_at; None if it is NULL
\* known: the row has its avito_id
Rows == [sale: {"out", "in", "removed", "deleted"}, since: 0..Window \cup {None},
         known: BOOLEAN]

\* What a feed says of a product: an <Ad>, an <Ad> with Status Removed, both
\* or nothing.
Contents == [Products -> SUBSET {"offer", "removal"}]

ASSUME TornIsNoFeed == Torn \notin Contents

Generations == [pc: {"idle", "offers", "read", "writing", "written", "exported"},
                ads: Contents, at: Workers \cup {None}, mixed: BOOLEAN]

TypeOK ==
    /\ product \in [Products -> Rows]
    /\ avito \in [Products -> {"absent", "live", "stopped"}]
    /\ lock \in up \cup {None}
    /\ up \in SUBSET Workers
    /\ gen \in [Generators -> Generations]
    /\ \A g \in Generators : gen[g].pc # "idle" => gen[g].at \in up
    /\ latest \in Contents \cup {NoFile, Torn}
    /\ recent \in BOOLEAN /\ hitch \in BOOLEAN
    /\ stage \in {"due", "ran", "fetched"}
    /\ clean \in [Products -> 0..Rounds]
    /\ deaths \in 0..MaxDeaths

NothingRead == [p \in Products |-> {}]
NoGeneration == [pc |-> "idle", ads |-> NothingRead, at |-> None, mixed |-> FALSE]

Init ==
    /\ product = [p \in Products |-> [sale |-> "out", since |-> None,
                                      known |-> FALSE]]
    /\ avito = [p \in Products |-> "absent"]
    /\ lock = None /\ up = {} /\ deaths = 0
    /\ gen = [g \in Generators |-> NoGeneration]
    /\ latest = NoFile
    /\ recent = FALSE /\ stage = "due" /\ hitch = FALSE
    /\ clean = [p \in Products |-> 0]

-----------------------------------------------------------------------------
(* The products *)

\* A request changes what the feed depends on in the row of p.
Changes(p, r) ==
    /\ product[p].sale # "deleted"
    /\ product' = [product EXCEPT ![p] = r]
    /\ clean' = [clean EXCEPT ![p] = 0]
    /\ UNCHANGED <<avito, workers, gen, latest, recent, stage, hitch>>

\* The product goes on sale, off sale or to "removed" by PATCH, by the forms or
\* by a bulk request: removed_at stays what it was.
PutOnSale(p)   == Changes(p, [product[p] EXCEPT !.sale = "in"])
TakeOff(p)     == Changes(p, [product[p] EXCEPT !.sale = "out"])
PatchRemoved(p) == Changes(p, [product[p] EXCEPT !.sale = "removed"])

\* DELETE /products/{id} and DELETE /products/{id}/avito
Delete(p) == Changes(p, [product[p] EXCEPT !.sale = "removed", !.since = 0])

\* POST /products/{id}/repost forgets the avito_id.
Repost(p) == Changes(p, [product[p] EXCEPT !.sale = "in", !.known = FALSE])

\* One of the synchronisations finds the ad and fills in its avito_id.
FillAvitoId(p) ==
    /\ avito[p] # "absent" /\ ~product[p].known /\ product[p].sale # "deleted"
    /\ product' = [product EXCEPT ![p].known = TRUE]
    /\ UNCHANGED <<avito, workers, gen, latest, clock>>

\* _job_cleanup_removed, when it succeeds
Young(r) == r.since # None /\ r.since < Window
CleanUp ==
    LET old == {p \in Products : /\ product[p].sale = "removed"
                                 /\ product[p].since # None /\ ~Young(product[p])}
    IN
    /\ old # {} /\ lock # None
    /\ product' = [p \in Products |-> IF p \in old
                       THEN [product[p] EXCEPT !.sale = "deleted"] ELSE product[p]]
    /\ UNCHANGED <<avito, workers, gen, latest, clock>>

-----------------------------------------------------------------------------
(* The workers *)

\* lifespan tries the lock once.  Mutant: only the first worker tries.
LockTriedFirst(w) == IF up = {} THEN w ELSE lock
LockOnStart(w) == IF lock = None THEN w ELSE lock

WorkerStarts(w) ==
    /\ w \notin up
    /\ up' = up \cup {w}
    /\ lock' = LockOnStart(w)
    /\ UNCHANGED <<store, gen, latest, clock, deaths>>

\* The kernel releases the lock of a process that ends.  Mutant: a lock file that
\* stays behind.
LockStays(w) == lock
LockOnDeath(w) == IF lock = w THEN None ELSE lock

WorkerDies(w) ==
    /\ w \in up /\ deaths < MaxDeaths
    /\ up' = up \ {w}
    /\ lock' = LockOnDeath(w)
    /\ deaths' = deaths + 1
    /\ gen' = [g \in Generators |-> IF gen[g].at = w THEN NoGeneration ELSE gen[g]]
    /\ hitch' = TRUE
    /\ UNCHANGED <<store, latest, recent, stage, clean>>

-----------------------------------------------------------------------------
(* generate_feed *)

\* Mutant: products removed longer ago than the cutoff.
AnnouncedWhenOld(r) == r.sale = "removed" /\ r.since # None /\ ~Young(r) /\ r.known

Offered(r) == r.sale = "in"
Announced(r) == r.sale = "removed" /\ Young(r) /\ r.known

\* build_ad_element; what it says beside this is data.
AdFor(r) == IF Offered(r) THEN {"offer"} ELSE {}

\* The first query: the products on sale.
Start(g, w) ==
    /\ gen[g].pc = "idle" /\ w \in up
    /\ gen' = [gen EXCEPT ![g] =
                 [pc |-> "offers", at |-> w, mixed |-> FALSE,
                  ads |-> [p \in Products |-> AdFor(product[p])]]]

\* The second one: those removed of late.
ReadRemovals(g) ==
    /\ gen[g].pc = "offers"
    /\ gen' = [gen EXCEPT ![g].pc = "read",
                          ![g].ads = [p \in Products |-> @[p] \cup
                             IF Announced(product[p]) THEN {"removal"} ELSE {}]]
    /\ UNCHANGED <<store, workers, latest, clock>>

\* open(latest_path, "wb") truncates the file.
OpenLatest(g) ==
    /\ gen[g].pc = "read"
    /\ gen' = [gen EXCEPT ![g].pc = "writing"]
    /\ latest' = Torn
    /\ UNCHANGED <<store, workers, clock>>

\* Bytes another generation wrote since this one opened the file stay behind
\* this one's, if they were more.
Outcomes(g) == {gen[g].ads} \cup IF gen[g].mixed THEN {Torn} ELSE {}

WriteLatest(g) ==
    /\ gen[g].pc = "writing"
    /\ latest' \in Outcomes(g)
    /\ gen' = [h \in Generators |->
                 IF h = g THEN [gen[g] EXCEPT !.pc = "written"]
                 ELSE IF gen[h].pc = "writing" THEN [gen[h] EXCEPT !.mixed = TRUE]
                 ELSE gen[h]]
    /\ UNCHANGED <<store, workers, clock>>

\* A row of the job is an hour old at the job's next minute; one of a request
\* is under 50 minutes old then, unless it follows the job's minute closely.
RecentAfter(g) == IF g = "job" THEN {recent}
                  ELSE IF stage = "due" THEN {TRUE} ELSE {recent, TRUE}

CommitExport(g) ==
    /\ gen[g].pc = "written"
    /\ \/ gen' = [gen EXCEPT ![g] = NoGeneration]
       \/ g = "request" /\ gen' = [gen EXCEPT ![g].pc = "exported"]
    /\ recent' \in RecentAfter(g)
    /\ UNCHANGED <<store, workers, latest, stage, hitch, clean>>

\* DELETE /feeds/{feed_id}: its row, and a file that is not the one served.
DeleteExport ==
    /\ recent /\ recent' = FALSE
    /\ UNCHANGED <<store, workers, gen, latest, stage, hitch, clean>>

\* An exception: of the database, of the disk, or a template not loaded.
GenerationFails(g) ==
    /\ gen[g].pc \notin {"idle", "exported"}
    /\ gen' = [gen EXCEPT ![g] = NoGeneration]
    /\ hitch' = TRUE
    /\ UNCHANGED <<store, workers, latest, recent, stage, clean>>

\* POST /feeds/{account_id}/generate, and a repost, which uploads what it exported
GenerateRequest ==
    /\ \E w \in Workers : Start("request", w)
    /\ UNCHANGED <<store, workers, latest, clock>>

-----------------------------------------------------------------------------
(* The round *)

\* _job_auto_generate_feeds at the account's minute, or the fallback's hour
JobGenerates ==
    /\ stage = "due" /\ ~recent
    /\ lock # None /\ Start("job", lock)
    /\ stage' = "ran"
    /\ UNCHANGED <<store, workers, latest, recent, hitch, clean>>

\* A feed was generated in the last 50 minutes.
JobSkips ==
    /\ stage = "due" /\ recent
    /\ lock # None
    /\ stage' = "ran" /\ recent' = FALSE
    /\ UNCHANGED <<store, workers, gen, latest, hitch, clean>>

\* No scheduler runs, or the event loop was late for the minute.
JobMissesMinute ==
    /\ stage = "due"
    /\ stage' = "ran" /\ recent' = FALSE /\ hitch' = TRUE
    /\ UNCHANGED <<store, workers, gen, latest, clean>>

\* Of an ad that is not in the feed Avito keeps what it has.
Heard(was, said) ==
    CASE said = {} -> {was}
      [] said = {"offer"} -> {"live"}
      [] said = {"removal"} -> {IF was = "absent" THEN "absent" ELSE "stopped"}
      [] OTHER -> {"live", "stopped"}

Hears(ads) ==
    /\ avito' \in [Products -> {"absent", "live", "stopped"}]
    /\ \A p \in Products : avito'[p] \in Heard(avito[p], ads[p])

\* serve_feed answers with the file as it is.
ServeFeed == IF latest \in Contents THEN Hears(latest) ELSE UNCHANGED avito

\* Avito's own visit, five minutes after the job's minute; the generation is over.
AvitoFetches ==
    /\ stage = "ran" /\ gen["job"].pc = "idle"
    /\ stage' = "fetched"
    /\ ServeFeed
    /\ hitch' = (hitch \/ latest \notin Contents)
    /\ UNCHANGED <<product, workers, gen, latest, recent, clean>>

\* POST /accounts/{id}/autoload/upload asks Avito to come at once.
TriggerUpload ==
    /\ ServeFeed
    /\ UNCHANGED <<product, workers, gen, latest, clock>>

\* The end of a repost: the file of the export is sent, and Avito takes it or not.
UploadExport ==
    /\ gen["request"].pc = "exported"
    /\ gen' = [gen EXCEPT !["request"] = NoGeneration]
    /\ Hears(gen["request"].ads) \/ UNCHANGED avito
    /\ UNCHANGED <<product, workers, latest, clock>>

\* POST /feeds/{feed_id}/upload sends the file of an export, however old: here a
\* feed that may say anything.  Only the rounds to come can undo it.
UploadOlder ==
    /\ \E ads \in Contents : Hears(ads)
    /\ clean' = [p \in Products |-> 0]
    /\ UNCHANGED <<product, workers, gen, latest, recent, stage, hitch>>

AvitoStaysAway ==
    /\ stage = "ran" /\ gen["job"].pc = "idle"
    /\ stage' = "fetched" /\ hitch' = TRUE
    /\ UNCHANGED <<store, workers, gen, latest, recent, clean>>

\* The next hour.  A generation takes seconds: none goes on into it.
NextHour ==
    /\ stage = "fetched" /\ \A g \in Generators : gen[g].pc = "idle"
    /\ stage' = "due" /\ hitch' = FALSE
    /\ product' = [p \in Products |->
                     IF Young(product[p])
                     THEN [product[p] EXCEPT !.since = @ + 1] ELSE product[p]]
    /\ clean' = [p \in Products |->
                   IF /\ ~hitch /\ clean[p] < Rounds /\ product[p].sale # "deleted"
                      /\ product[p].sale = "removed" =>
                            Young(product[p]) /\ product[p].known
                   THEN clean[p] + 1 ELSE clean[p]]
    /\ UNCHANGED <<avito, workers, gen, latest, recent>>

-----------------------------------------------------------------------------
ProductStep ==
    \E p \in Products : \/ PutOnSale(p) \/ TakeOff(p) \/ PatchRemoved(p)
                        \/ Delete(p) \/ Repost(p) \/ FillAvitoId(p)

GenerationStep(g) == \/ ReadRemovals(g) \/ OpenLatest(g) \/ WriteLatest(g)
                     \/ CommitExport(g)

Next ==
    \/ ProductStep
    \/ CleanUp
    \/ \E w \in Workers : WorkerStarts(w) \/ WorkerDies(w)
    \/ \E g \in Generators : GenerationStep(g) \/ GenerationFails(g)
    \/ GenerateRequest \/ DeleteExport
    \/ JobGenerates \/ JobSkips \/ JobMissesMinute
    \/ AvitoFetches \/ AvitoStaysAway \/ TriggerUpload \/ UploadExport \/ UploadOlder
    \/ NextHour

Spec == Init /\ [][Next]_vars

-----------------------------------------------------------------------------
(* Properties *)

\* delete_from_avito: "Avito will deactivate the ad on next feed upload", and
\* that is about an hour away.  A change Rounds undisturbed rounds ago has
\* reached Avito and is not taken back by a feed that was read earlier: though
\* the job leaves a round out after a generation by hand, of two generations the
\* one that read first may write last, and rounds before and between failed.  A
\* removal must be announced in all these rounds, before the 48 hours are over, and
\* is not taken back when the row is deleted, after which nothing could announce
\* it again; a product off sale is only left out of the feed.  A removal can only
\* be announced under an avito_id: of an ad whose product is removed while a repost
\* has it forgotten nothing is claimed (see `clean').
ChangeReachesAvito ==
    \A p \in Products : clean[p] >= Rounds =>
        /\ product[p].sale = "in" => avito[p] = "live"
        /\ product[p].sale \in {"removed", "deleted"} => avito[p] # "live"
        /\ product[p].sale = "out" /\ latest \in Contents => latest[p] = {}

\* lifespan: "Only start scheduler in one worker", and in one: while both
\* workers run, one of them is the scheduler, whichever died and came back.
OneWorkerSchedules == up = Workers => lock # None

=============================================================================
