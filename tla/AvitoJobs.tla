----------------------------- MODULE AvitoJobs -----------------------------
(***************************************************************************)
(* The background jobs that reconcile the products with the state of their *)
(* ads on Avito, running against each other and against the operator:      *)
(*   declined  _job_check_declined_ads           app/scheduler.py          *)
(*   cleanup   _job_cleanup_removed              app/scheduler.py          *)
(*   sold      check_and_mark_sold               app/services/             *)
(*   import    import_account_items              app/services/             *)
(*   publish   publish_scheduled_products        app/services/             *)
(*   repost    the slow request POST /products/{id}/repost                 *)
(* Of publishing there is here what concerns the products' status, and in  *)
(* PublishScheduled the rest.                                              *)
(*                                                                         *)
(* Each of them reads rows into its database session, waits (for Avito, for*)
(* file work), and writes from what it read: a Load action and an Apply    *)
(* action, between which anybody may commit.  sold and import ask Avito    *)
(* first (Fetch); declined asks just before it writes.                     *)
(*                                                                         *)
(* The session writes a column only if its value differs from the one it   *)
(* loaded, and the rows it loaded stay as they were loaded (the sessions   *)
(* are made with expire_on_commit=False and reuse the loaded objects).     *)
(*                                                                         *)
(* A guarded UPDATE holds the row's lock until the commit, for as long as  *)
(* the job goes on with other items or waits for Telegram.  So it acts at  *)
(* the commit, with the other writes of the run: nobody else can write the *)
(* row from the one to the other, but anybody can read it, and finds it as *)
(* it was.  For the jobs that write without a guard that makes their read  *)
(* and their write two steps; the import, which reads the stale rows late  *)
(* in its run, has three.                                                  *)
(***************************************************************************)
EXTENDS ProductStore, FiniteSets

CONSTANTS
    Jobs,        \* the jobs that are scheduled
    AdOutcomes,  \* what Avito may make of an ad
    Grace,       \* 48 hours, in units of the clock
    MaxVersion,  \* bound: no job starts once a row has reached this version
    MaxRuns      \* bound: the jobs that run at the same time

JobNames == {"declined", "sold", "import", "cleanup", "publish", "repost"}

ASSUME JobsAreJobNames == Jobs \subseteq JobNames
AdStatuses == {"none", "active", "blocked", "removed"}
ASSUME AdOutcomesAreStatuses == AdOutcomes \subseteq AdStatuses
ASSUME GraceIsNat == Grace \in Nat
ASSUME BoundsAreNat == MaxVersion \in Nat /\ MaxRuns \in Nat

VARIABLES
    ad,      \* Avito's own view of the ads
    phase,   \* phase[j]: how far j's run has come
    listed,  \* listed[j]: the ads that were active when j asked
    loaded,  \* loaded[j]: the rows in j's session
    copy,    \* copy[j][p]: what j's copy of row p says (Unseen if not loaded)
    stale,   \* the rows the import has selected to be marked as removed
    batch,   \* the listings the publishing job has read
    media    \* products with a directory of photos on disk

jobVars == <<phase, listed, loaded, copy, stale, batch>>
vars == <<storeVars, jobVars, ad, media>>

Phases == {"idle", "fetched", "loaded", "selected"}

\* The columns a job looks at again after its wait.
Copies == [version: Nat, status: Statuses, dated: BOOLEAN,
           avitoId: Ads \cup {None}]
Copy(r) == [version |-> r.version, status |-> r.status,
            dated |-> r.removedAt # None, avitoId |-> r.avitoId]
Unseen == Copy(UnbornRow)

TypeOK ==
    /\ StoreTypeOK
    /\ ad \in [Ads -> AdStatuses]
    /\ phase \in [Jobs -> Phases]
    /\ listed \in [Jobs -> SUBSET Ads]
    /\ loaded \in [Jobs -> SUBSET Products]
    /\ copy \in [Jobs -> [Products -> Copies]]
    /\ stale \in SUBSET Products
    /\ batch \in SUBSET Listings
    /\ media \in SUBSET Products

Init ==
    /\ StoreInit
    /\ ad \in [Ads -> {"active", "none"}]
    /\ phase = [j \in Jobs |-> "idle"]
    /\ listed = [j \in Jobs |-> {}]
    /\ loaded = [j \in Jobs |-> {}]
    /\ copy = [j \in Jobs |-> [p \in Products |-> Unseen]]
    /\ stale = {} /\ batch = {}
    /\ media = {p \in Live : row[p].photos}

-----------------------------------------------------------------------------
(* A job's run and its session *)

\* max_instances=1: a job does not start while its previous run goes on.
VersionsLeft == \A p \in Products : row[p].version < MaxVersion
MayStart == /\ VersionsLeft
            /\ Cardinality({j \in Jobs : phase[j] # "idle"}) < MaxRuns

\* get_user_items(status="active")
Fetch(j) ==
    /\ j \in Jobs /\ phase[j] = "idle" /\ MayStart
    /\ phase' = [phase EXCEPT ![j] = "fetched"]
    /\ listed' = [listed EXCEPT ![j] = {a \in Ads : ad[a] = "active"}]
    /\ UNCHANGED <<storeVars, ad, media, loaded, copy, stale, batch>>

Load(j, S) ==
    /\ phase' = [phase EXCEPT ![j] = "loaded"]
    /\ loaded' = [loaded EXCEPT ![j] = S]
    /\ copy' = [copy EXCEPT ![j] = [p \in Products |->
                                      IF p \in S THEN Copy(row[p]) ELSE Unseen]]
    /\ UNCHANGED <<storeVars, ad, media, listed, stale>>

Start(j, S) == j \in Jobs /\ phase[j] = "idle" /\ MayStart /\ Load(j, S)

Applying(j) == j \in Jobs /\ phase[j] = "loaded"

Close(j) ==
    /\ phase' = [phase EXCEPT ![j] = "idle"]
    /\ listed' = [listed EXCEPT ![j] = {}]
    /\ loaded' = [loaded EXCEPT ![j] = {}]
    /\ copy' = [copy EXCEPT ![j] = [p \in Products |-> Unseen]]
    /\ stale' = IF j = "import" THEN {} ELSE stale
    /\ batch' = IF j = "publish" THEN {} ELSE batch

\* The run ends with its transaction rolled back: Avito does not answer, an
\* exception is logged, the process is killed.  Files are not rolled back: the
\* cleanup has deleted some directories; repost empties one and fills it anew.
Abort(j) ==
    /\ phase[j] # "idle"
    /\ Close(j)
    /\ \/ UNCHANGED media
       \/ j \in {"cleanup", "repost"} /\ \E M \in SUBSET loaded[j] : media' = media \ M
       \/ j = "repost" /\ media' = media \cup loaded[j]
    /\ UNCHANGED <<storeVars, ad>>

\* Mutants: the UPDATE's WHERE has lost the version; its SET has.
SafeUpdateUnchecked(r, expected, to) ==
    IF r.life = "live" THEN [to EXCEPT !.version = r.version + 1] ELSE r

SafeUpdateNotBumped(r, expected, to) ==
    IF r.life = "live" /\ r.version = expected THEN to ELSE r

\* UPDATE ... WHERE id = .. AND version = expected: the row `to' with the
\* version bumped, or the row as it is if it has moved on or is gone.
SafeUpdate(r, expected, to) ==
    IF r.life = "live" /\ r.version = expected
    THEN [to EXCEPT !.version = expected + 1]
    ELSE r

-----------------------------------------------------------------------------
(* check_declined: blocked, rejected and removed ads *)

OnSale == {"active", "published", "imported"}

DeclinedLoad ==
    Start("declined", {p \in Live : row[p].status \in OnSale}) /\ UNCHANGED batch

\* What the job does to row r, of which it has the copy c, when Avito's
\* answer for the ad is `answer'.
DeclinedRow(r, c, answer) ==
    CASE answer = "blocked" ->
           SafeUpdate(r, c.version, [r EXCEPT !.status = "paused"])
      [] answer = "removed" /\ c.status # "removed" /\ ~c.dated ->
           SafeUpdate(r, c.version, [r EXCEPT !.status = "removed", !.removedAt = now])
      [] answer = "active" /\ c.status = "paused" ->
           SafeUpdate(r, c.version, [r EXCEPT !.status = "active"])
      [] OTHER -> r

\* get_items_info is asked for str(product.id).  The feed names an imported
\* product by its feed_ad_id, so Avito may not know the id ("none"); and of a
\* product whose avito_id is not filled in it may say anything.
Answers == {answer \in [loaded["declined"] -> AdStatuses] :
              \A p \in loaded["declined"] :
                 row[p].avitoId # None => answer[p] \in {"none", ad[row[p].avitoId]}}

DeclinedApply ==
    /\ Applying("declined")
    /\ \E answer \in Answers :
         row' = [p \in Products |->
                   IF p \in loaded["declined"]
                   THEN DeclinedRow(row[p], copy["declined"][p], answer[p])
                   ELSE row[p]]
    /\ Close("declined")
    /\ UNCHANGED <<listing, now, ad, media>>

-----------------------------------------------------------------------------
(* sold_detection: the ads that are no longer among the active ones *)

SoldLoad ==
    /\ "sold" \in Jobs /\ phase["sold"] = "fetched"
    /\ Load("sold", {p \in Live : /\ row[p].avitoId # None
                            /\ row[p].status \in {"active", "published"}})
    /\ UNCHANGED batch

SoldApply ==
    /\ Applying("sold")
    /\ row' = [p \in Products |->
                 IF p \in loaded["sold"] /\ copy["sold"][p].avitoId \notin listed["sold"]
                 THEN SafeUpdate(row[p], copy["sold"][p].version,
                                 [row[p] EXCEPT !.status = "sold"])
                 ELSE row[p]]
    /\ Close("sold")
    /\ UNCHANGED <<listing, now, ad, media>>

-----------------------------------------------------------------------------
(* avito_import: new ads, ads that came back, ads that are gone *)

ImportLoad ==
    /\ "import" \in Jobs /\ phase["import"] = "fetched"
    /\ Load("import", {p \in Live : row[p].avitoId # None})
    /\ UNCHANGED batch

\* The avito_ids the session found in the table.
Known == {copy["import"][p].avitoId : p \in loaded["import"]}

\* Mutants: dated removals are restored too; only removed products are.
RestorableDated(c) == c.status \in {"sold", "removed"}
RestorableRemoved(c) == c.status = "removed" /\ ~c.dated

\* A sold or removed product.  A removed_at date is taken to mean that the
\* operator removed it, and the product is left alone.
Restorable(c) == c.status \in {"sold", "removed"} /\ ~c.dated

\* Mutants: a status of its own; no removal date; nothing but the date.
StaleRowArchived(p) == [row[p] EXCEPT !.status = "archived", !.removedAt = now]
StaleRowUndated(p) == [row[p] EXCEPT !.status = "removed"]
StaleRowOnlyDated(p) == [row[p] EXCEPT !.removedAt = now]

\* The stale products are selected by what the table says by then: a verdict that
\* a job has not committed yet is not seen.
ImportSelect ==
    /\ Applying("import")
    /\ phase' = [phase EXCEPT !["import"] = "selected"]
    /\ stale' = {p \in Live : /\ row[p].status \in OnSale
                             /\ row[p].avitoId \notin listed["import"] \cup {None}}
    /\ UNCHANGED <<storeVars, ad, media, listed, loaded, copy, batch>>

\* They are assigned on the object the session loaded, over whatever the row says
\* when the UPDATE gets its lock: "removed" over a loaded "removed" is no change
\* and leaves the column as it is.
StaleRow(p) ==
    [row[p] EXCEPT
        !.status = IF copy["import"][p].status = "removed" THEN @ ELSE "removed",
        !.removedAt = now]

ImportedRow(p) ==
    CASE p \in stale -> StaleRow(p)
      [] /\ p \in loaded["import"] \ stale /\ Restorable(copy["import"][p])
         /\ copy["import"][p].avitoId \in listed["import"] ->
           SafeUpdate(row[p], copy["import"][p].version,
                      [row[p] EXCEPT !.status = "imported", !.removedAt = None])
      [] OTHER -> row[p]

\* `key' gives every listed ad without a product a new primary key.  A stale row
\* that has been deleted makes the commit fail (see Abort).
ImportApply ==
    /\ "import" \in Jobs /\ phase["import"] = "selected" /\ stale \subseteq Live
    /\ \E new \in SUBSET Products, key \in [Ads -> Products] :
         /\ \A p \in new : row[p].life = "unborn"
         /\ new = {key[a] : a \in listed["import"] \ Known}
         /\ \A a, b \in listed["import"] \ Known : a # b => key[a] # key[b]
         /\ row' = [p \in Products |->
                      IF p \in new
                      THEN NewRow("imported",
                                  CHOOSE a \in listed["import"] \ Known : key[a] = p, FALSE)
                      ELSE ImportedRow(p)]
         /\ listing' = [l \in Listings |-> IF l[1] \in new /\ l[2] = First
                                           THEN "draft" ELSE listing[l]]
    /\ AvitoIdUnique(row')
    /\ Close("import")
    /\ UNCHANGED <<now, ad, media>>

-----------------------------------------------------------------------------
(* cleanup_removed: the rows removed more than 48 hours ago *)

\* Mutants: no cutoff; the comparison the wrong way round.
ExpiredAtOnce(r) == r.status = "removed" /\ r.removedAt # None
ExpiredInverted(r) == /\ r.status = "removed" /\ r.removedAt # None
                      /\ r.removedAt + Grace > now

Expired(r) == r.status = "removed" /\ r.removedAt # None /\ r.removedAt + Grace < now

CleanupLoad ==
    /\ \E p \in Live : Expired(row[p])
    /\ Start("cleanup", {p \in Live : Expired(row[p])}) /\ UNCHANGED batch

\* The media directories go first, one by one; then the rows in one flush.
\* Product.images neither cascades nor leaves the rows to the database, so
\* the flush first sets product_images.product_id to NULL, which that column
\* does not allow: one product with photos and no row of the batch is deleted.
CleanupApply ==
    LET expired == loaded["cleanup"]
        gone == IF \E p \in expired : p \in Live /\ row[p].photos THEN {} ELSE expired IN
    /\ Applying("cleanup")
    /\ media' = media \ expired
    /\ row' = [p \in Products |-> IF p \in gone THEN [row[p] EXCEPT !.life = "deleted"]
                                                ELSE row[p]]
    /\ listing' = [l \in Listings |-> IF l[1] \in gone THEN "none" ELSE listing[l]]
    /\ Close("cleanup")
    /\ UNCHANGED <<now, ad>>

-----------------------------------------------------------------------------
(* publish_scheduled: the listings whose time has come *)

\* is_ready_for_feed, of a product whose other fields are filled in; an imported
\* one may have a picture of Avito's instead of photos.
MayBeReady(r) == r.photos \/ (r.status = "imported" /\ r.avitoId # None)

\* Any of the scheduled listings may be due, and complete.  What their products'
\* status is does not matter, except that it is remembered.
PublishLoad ==
    \E B \in SUBSET {l \in Listings : /\ listing[l] = "scheduled"
                                      /\ l[1] \in Live /\ MayBeReady(row[l[1]])} :
        /\ B # {}
        /\ Start("publish", {l[1] : l \in B})
        /\ batch' = B

\* After the upload listings and products are written, whatever they say by now.
\* One of them that is no more makes the commit fail (see Abort).
PublishApply ==
    /\ Applying("publish")
    /\ loaded["publish"] \subseteq Live /\ \A l \in batch : listing[l] # "none"
    /\ row' = [p \in Products |->
                 IF p \in loaded["publish"] /\ copy["publish"][p].status # "active"
                 THEN [row[p] EXCEPT !.status = "active"] ELSE row[p]]
    /\ listing' = [l \in Listings |-> IF l \in batch THEN "published" ELSE listing[l]]
    /\ Close("publish")
    /\ UNCHANGED <<now, ad, media>>

-----------------------------------------------------------------------------
(* repost: new photos take seconds, then the product is on sale again *)

RepostLoad(p) == p \in Live /\ Start("repost", {p}) /\ UNCHANGED batch

\* avito_id = None is written unless NULL was loaded.  A row deleted in the
\* meantime fails the flush (see Abort).  If the account has a used photo pack,
\* those of its photos that are found on disk replace the product's.
RepostApply(p) ==
    LET c == copy["repost"][p] IN
    /\ Applying("repost") /\ p \in loaded["repost"] /\ p \in Live
    /\ \E repacked, found \in BOOLEAN :
         /\ row' = [row EXCEPT
                      ![p].status = IF c.status = "active" THEN @ ELSE "active",
                      ![p].avitoId = IF c.avitoId = None THEN @ ELSE None,
                      ![p].photos = IF repacked THEN found ELSE @]
         /\ media' = CASE ~repacked -> media
                      [] found     -> media \cup {p}
                      [] OTHER     -> media \ {p}
    /\ Close("repost")
    /\ UNCHANGED <<listing, now, ad>>

-----------------------------------------------------------------------------
\* Avito moderates, expires and revives ads as it likes.
AdChanges(a) ==
    /\ \E s \in AdOutcomes \ {ad[a]} : ad' = [ad EXCEPT ![a] = s]
    /\ UNCHANGED <<storeVars, jobVars, media>>

JobStep ==
    \/ DeclinedLoad \/ DeclinedApply
    \/ Fetch("sold") \/ SoldLoad \/ SoldApply
    \/ Fetch("import") \/ ImportLoad \/ ImportSelect \/ ImportApply
    \/ CleanupLoad \/ CleanupApply
    \/ PublishLoad \/ PublishApply
    \/ \E p \in Products : RepostLoad(p) \/ RepostApply(p)
    \/ \E j \in Jobs : Abort(j)

\* A listing is scheduled, and its product with it or not, or no longer scheduled:
\* the requests of PublishScheduled, for the publishing job to find something.
Schedules(p) ==
    /\ "publish" \in Jobs /\ p \in Live
    /\ \E l \in {p} \X Slots :
         \/ /\ listing[l] # "none"
            /\ listing' = [listing EXCEPT ![l] = "scheduled"]
            /\ row' \in {row, [row EXCEPT ![p].status = "scheduled"]}
         \/ /\ listing[l] = "scheduled"
            /\ listing' = [listing EXCEPT ![l] = "draft"]
            /\ UNCHANGED row
    /\ UNCHANGED now

\* What leaves the jobs' sessions, the ads and the files alone.
Request(p) == (ProductRequest(p) \/ Schedules(p)) /\ UNCHANGED <<jobVars, ad, media>>
BulkRequest == /\ \E complete \in SUBSET Products : BulkActivate(complete)
               /\ UNCHANGED <<jobVars, ad, media>>
TimePasses == Tick /\ UNCHANGED <<jobVars, ad, media>>

Next ==
    \/ JobStep
    \/ \E p \in Products : Request(p)
    \/ BulkRequest
    \/ \E a \in Ads : AdChanges(a)
    \/ TimePasses

Spec == Init /\ [][Next]_vars

\* The scheduler starts every job again and again; time passes; not every run of
\* a job ends in an error, but one whose commit must fail does.  repost is a
\* request nobody need make, and there need be nothing to publish.
Fairness ==
    /\ WF_vars(DeclinedLoad) /\ SF_vars(DeclinedApply)
    /\ WF_vars(Fetch("sold")) /\ SF_vars(SoldLoad) /\ SF_vars(SoldApply)
    /\ WF_vars(Fetch("import")) /\ SF_vars(ImportLoad)
    /\ SF_vars(ImportSelect) /\ SF_vars(ImportApply)
    /\ WF_vars(~(stale \subseteq Live) /\ Abort("import"))
    /\ WF_vars(CleanupLoad) /\ SF_vars(CleanupApply)
    /\ WF_vars(TimePasses)

FairSpec == Spec /\ Fairness

-----------------------------------------------------------------------------
(* What the version column is for *)

\* A row's insertion and each guarded write of it make its version one higher;
\* a job that still has the row's version in its session may write it.
versions == [p \in Products |-> row[p].version]
current == {t \in Jobs \X Products :
              t[2] \in loaded[t[1]] /\ copy[t[1]][t[2]].version = row[t[2]].version}

Guarded == INSTANCE GuardedWrites WITH writes <- versions, tickets <- current

\* safe_update_status: whatever the operator's unguarded requests, the import's
\* unguarded marking of stale rows and the deletions do in between, of the jobs
\* that read the same version of a row at most one writes it under guard.
FirstWriterWins == Guarded!Spec
=============================================================================
