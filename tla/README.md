# Avito-Autoload: specification and verification

Avito-Autoload is a CRM for selling on Avito: an operator edits products in a web
interface (FastAPI), background jobs (APScheduler) reconcile them with the ads on Avito,
publish them at set times, generate XML feeds, and fetch photos from Yandex.Disk.
Everything shared lies in PostgreSQL, reached through SQLAlchemy's async sessions.

This directory holds TLA+ modules for the parts of the program whose correctness is a
matter of ordering and interleaving, TLC configurations that check them on small instances,
and TLAPS proofs of their main properties. `PROJECT.json` maps every definition to the
lines it models and lists hazards, findings and theorems.

    tlc -workers 2 -config removal_history.cfg RemovalAudit
    tlapm RemovalAuditProofs.tla

## 1. Inventory

| component | source (under `src/app/`) | state | operations | what is hard | what makes it correct |
|---|---|---|---|---|---|
| product rows | `models/product.py`, `routes/products.py` | status, version, removed_at, avito_id, images | forms, PATCH, DELETE, bulk requests, repost | no request looks at `version`; each writes only some of the columns | a removal lasts; nothing is destroyed early |
| optimistic lock | `db.py` | `version` | `safe_update_status` | used by three jobs, by nobody else | a job never writes over a guarded write it has not seen |
| declined-ads job | `scheduler.py` | session copies | load, ask Avito, guarded writes | stale copies, accounts one after the other | the product follows its ad |
| sold detection | `services/sold_detection.py` | fetched ids, session copies | fetch, load, guarded writes | ads fetched before the rows are loaded | a false "sold" is undone |
| import | `services/avito_import.py` | fetched ids, session copies | restore, insert, mark stale | stale marking is not guarded; a UNIQUE column | ads gone come off sale, with a date; ads back come back |
| cleanup | `scheduler.py` | selected rows, media files | delete files, then rows | files are outside the transaction; the flush can fail | only what was removed two days ago is deleted, and it is |
| scheduled publication | `services/publish_scheduled.py`, `routes/schedule.py`, `routes/models.py` | listing status and time | seven requests; collect, upload, commit | upload and commit are two steps; requests update product and listing differently | each schedule is uploaded once, and what is due is published |
| Yandex.Disk photos | `scheduler.py`, `services/yandex_disk.py`, `routes/yandex_folders.py`, `photo_pack_yandex_folders.py` | download_status, attempts, files | select, download, sync folder, retry | two jobs and the operator on one row; a crash while "downloading"; files deleted before the commit | every photo ends ready, with a file, or failed |
| workers, scheduler | `main.py`, `scheduler.py` | flock, job registry | start, shutdown, retry wrapper | several workers; a holder that dies | one worker runs the jobs, and some worker does |
| feeds | `services/feed_generator.py`, `routes/feeds.py`, `scheduler.py` | files, FeedExport rows | generate, deduplicate, serve, upload | two queries; file before row; two workers write one file; a failed hour | changes and removals reach Avito |
| linking | `services/autoload_sync.py`, `feed_importer.py`, `excel_importer.py`, `sync_from_avito_export.py`, `routes/avito_sync.py`, `products.py` | avito_id, sets of known ids | three passes, imports, export | matching on old reads, by five programs | one ad, one product; nothing listed is missed |
| photos as files | `routes/images.py`, `listings.py`, `photo_packs.py`, `models.py`, `products.py`, `scripts/cleanup_orphan_media.py` | rows and files | upload, apply a pack, copy, repost, delete, weekly cleanup | files are outside every transaction | no photo in use loses its file; orphans go |
| API client | `services/avito_client.py`, `cache.py` | token, retry counter, cache | request, refresh, page | expiry, one counter for two limits, partial pages | a job has a valid token; bounded retries |
| categories | `services/category_sync.py`, `catalog.py` | tree | replace | one transaction | no half tree |
| statistics, reports, accounts, templates, login | remaining routes | - | forms and read-only pages | nothing concurrent | - |

The components meet in the products table. A job reads rows into its session, waits - for
Avito, for files, for image processing - and writes. While it waits any other job and any
request may commit. Jobs never run twice at once (`max_instances=1`), and the scheduler
runs in one worker only.

## 2. Modules

| module | what it is |
|---|---|
| `ProductStore` | rows, listings and clock, and the operator's requests that put products on sale, remove and restore them |
| `GuardedWrites` | abstract specification of `safe_update_status`, without version numbers: tickets handed out by reading, taken away by writing |
| `AvitoJobs` | declined-ads job, sold detection, import, cleanup, publishing (its status writes) and repost over `ProductStore`, each split where the code waits; refinement mapping to `GuardedWrites` |
| `RemovalAudit` | `AvitoJobs` with a record of who removed what and when; what a removal means in the long run |
| `JobsProgress` | liveness of `AvitoJobs` under the scheduler's fairness |
| `PublishScheduled` | every request that writes a listing, and the publishing job, over `ProductStore` |
| `PhotoLife` | abstract specification of the photos of a folder: the life of each, and one fetched at a time |
| `YandexDownload` | photos of one Yandex.Disk folder, of a product or a pack: requests, download job, folder job; refinement mapping to `PhotoLife` |
| `Feeds`, `MCFeeds` | workers, lock, generations and Avito's hourly visit, from the product rows to the ads |
| `AdLinks` | abstract specification of programs that link ads with products, each in one moment unless another overtook it |
| `Linking` | the five programs that link ads with products, and the operator; refinement mapping to `AdLinks` |
| `MediaFiles` | photos of products, packs and listings as rows and as files; the weekly cleanup |
| `AvitoJobsProofs`, `RemovalAuditProofs`, `PublishScheduledProofs`, `YandexDownloadProofs`, `FeedsProofs`, `FeedsChangeProofs`, `LinkingProofs`, `MediaFilesProofs` | TLAPS proofs |

`AvitoJobs` and `PublishScheduled` share the rows and requests of `ProductStore`. The other
modules take from the rows only what their part depends on: `Feeds` whether a product is on
sale, since when it is removed and whether its avito_id is known; `Linking` the avito_id alone;
`YandexDownload` and `MediaFiles` the photos. `PublishScheduled` sees the downloads as
`waiting`, whose end `YandexDownload` is about. The publishing job is in `AvitoJobs` too, since it
puts products on sale, removed ones included; any scheduled listing may be due there, and
`Schedules` stands for the requests of `PublishScheduled`.

### How state and actions correspond to the code

`row[p]` is a row of `products` with the columns the jobs branch on; `life` tells keys not
yet used from rows and deleted rows. `photos` stands for rows in `product_images`, `media`
for the directory `products/<id>` on disk. `ad` is Avito's own view, which changes at will.
`copy[j][p]` is the object in job j's session: sessions are made with
`expire_on_commit=False` and reuse loaded objects, so a later query does not refresh them.

* A request that only makes database round trips is one action. So is the write phase of a
  job: each guarded UPDATE locks its row until the commit, so nobody else writes the row in
  between, and the writes act as if made together at the commit. What another may do in between is
  read the row, as it was before. A job that then writes without a guard goes over what it has not
  seen: for the import, whose query for stale rows and whose UPDATE are minutes after its load,
  these are two actions (`ImportSelect`, `ImportApply`), so that the verdict of `DeclinedApply` or
  `SoldApply` may be committed from the one to the other. Publishing and repost have their load
  for it. A request is one action all the same: of one that reads a row while a guarded UPDATE is
  uncommitted, and waits for the lock, the module sees what it writes, which depends on its
  input and not on what it read.
* `Load` and the `...Apply` action of a job are separate, because the job waits in between.
  Import and sold detection fetch the active ads first (`Fetch`), the declined-ads job asks
  between load and write; that answer is chosen in `DeclinedApply`. A removal by a job is dated
  at its commit.
* The ORM writes a column only if the new value differs from the one it loaded: that is why
  `StaleRow` and `RepostApply` look at the copy before they assign.
* A guarded write raises `version` by one. The code's own bump on the loaded object comes on
  top of the one in SQL; only that the version grows matters.
* `Answers`: the declined-ads job asks for `str(product.id)`, whereas the feed names an
  imported product by `feed_ad_id`; so the answer is the ad's status or nothing.
* `Abort` is every way a run ends without its commit: an exception, a refused flush, a dead
  process. Rows roll back, files do not. It may happen in any state, so a failing flush
  (a row deleted under the session, a UNIQUE violation) is simply a state where only it can.
* `CleanupApply`: `Product.images` has no cascade, so the flush sets
  `product_images.product_id` to NULL, which the column refuses. One product with photos
  and none of the batch is deleted.
* The jobs take the accounts one after another with a query and a commit each; the modules
  follow one account. The pages of `get_user_items` are read as one answer.

**Publication.** The run of the job is `Collect` (query and readiness), `Upload`, and
`Commit`; it ends early with `UploadFails` or `Dies`. A product may have several listings on
the account (`Slots`), as `POST .../listings` adds one whatever there is; the requests that look for
"the" listing then fail. `due` is the listing's `scheduled_at`, `waiting` the products with photos still to come. The requests write the product, its listing,
or both: `CreateProduct`, `EditProduct`, the six that schedule or cancel, `CreateListing`,
`PatchListing`, `EditListing`, `DeleteListing`, and those of `ProductStore`. A listing deleted
under a run (`gone`) makes the commit fail for the whole batch. `uploads` counts the uploads
since the listing was last scheduled; a run that dies before it can record its upload takes
it back, since a repetition is then unavoidable.

**Yandex.Disk.** A run of the download job is `StartRun`, then for each photo
`MarkDownloading` (first commit), `WriteFile`, `CommitReady` (second commit) or
`DownloadFails`. The folder job is `ListFolder`, `ApplyListing` (which deletes files at once)
and `CommitSync`. Either dies anywhere. So do the requests that delete
photos: they delete the files first, and `RequestDies` is all they do when the commit fails. For a product's folder the job cannot add rows:
`ProductImage` has no `file_path`, and the constructor's error is caught. `past` records what
the rows do not tell.

**Feeds.** A generation is `Start` (first query), `ReadRemovals` (second), `OpenLatest`
(truncates the file served), `WriteLatest` and `CommitExport`; the job's and a request's may be
under way together. An hour is a round: the job's minute, Avito's visit five minutes later, and
the rest. `recent` says that the job's next minute will find a FeedExport younger than 50
minutes; `clean` counts the rounds a product has been left in peace. Of an ad that is not in
the feed Avito keeps what it has.

**Linking.** What a program will write depends only on what it read; so it is worked out at
the read (`plan`) and kept until the commit. Titles are free text, so an ad may match any product
the program loaded without an avito_id. The row by row import commits each row, and after a
rollback the rows that match a loaded product fail (`broken`). `overtaken` marks the programs
during which somebody else changed a link.

**Files.** A file is known by the row it was first written for; a row names a file by `ref`: its own,
in a copied variant the original's, or one that another row of the directory names as well, when
two photos got the same order and name (`NamesFor`). `young` and `old` are the 24 hours of
`MIN_AGE_SECONDS`; `copied` marks files made by `shutil.copy2`, which are as old as their original.
Everything that deletes a file before it commits is two steps, and the second may be a failure:
a photo's deletion, by a request or by the folder job (`going`; `DeletionCommits`,
`DeletionFails`), a pack's or listing's directory (`leaving`; `DeleteCommits`, `DeleteDies`), a
repost and an import of photos (`drop`; `CommitRows`, `RollBack`), and the cleanup, which reads
the removed products, removes one directory after the other and commits (`cleanup`); `Expired` are the
products it may read as removed, restored since or not. The photos a deletion drops are taken one
by one. `ReadRefs` and `DeleteOrphans` are the weekly job's query and walk. A Yandex.Disk photo's
file has its position in front of its name, so the deletion of the image, which goes by
`filename`, leaves that file, and may at most meet another photo's (`FileOfName`).

## 3. Runs

| run | module | asks | states |
|---|---|---|---|
| `jobs_guarded` | `AvitoJobs` | do the jobs implement `GuardedWrites`? | about 350,000 |
| `removal_history` | `RemovalAudit` | are removals dated, who undoes them, is nothing destroyed early, who overrules a verdict on an ad unseen? | about 250,000 |
| `removal_live` | `JobsProgress` | do products follow their ads, do removed rows go? | about 57,000 |
| `publish` | `PublishScheduled` | is each schedule uploaded once and published in the end? | about 180,000 |
| `yandex` | `YandexDownload` | do the jobs implement `PhotoLife`, have ready photos files, does every wait end, does the folder win? | about 5,500 |
| `feeds` | `MCFeeds` | does a change reach Avito, does somebody schedule? | about 2,000,000 |
| `linking` | `Linking` | do the five programs implement `AdLinks`, and what do they guarantee? | about 370,000 |
| `media` | `MediaFiles` | who may lose a photo's file, do orphans go? | about 350,000 |
| `paused_comes_back` | `JobsProgress` | violated: is a paused product restored? | |
| `cleanup_deletes` | `JobsProgress` | violated: is every removed product deleted? | |
| `removed_comes_back` | `RemovalAudit` | violated: does the import restore what it removed itself? | |
| `cleanup_grace` | `RemovalAudit` | violated: are rows kept for 48 hours? | |

What the properties say:

* `FirstWriterWins`: refinement. Of the jobs that read the same version of a row at most one
  writes it under guard, whatever the operator, the import's unguarded marking and the
  deletions do in between.
* `VerdictsAreSeen`: what a job found out by asking Avito - an ad blocked, hence `paused`, or
  gone, hence `sold` - no guarded write overrules without its job having read that very status. The
  unguarded writes that do are listed: repost and publishing, and the import, which marks as
  removed what it had selected as on sale before the verdict was committed. It is what `safe_update_status` is there for, and it
  needs the version of every verdict to be new: a copy from before it must be out of date, also
  when the operator's unguarded requests changed the status in between. It does not hold of
  the import's own removals, which leave the version as it is.
* `JobRemovalsAreDated`: a product a job removed has a date, so that the feed reports it
  and the cleanup finds it. Only the operator's PATCH removes without one.
* `NothingDestroyedEarly`: no row and no photo directory goes unless the product was once
  removed with a date more than `Grace` ago - even if the operator restores it between the
  cleanup's query and its commit, or the cleanup dies halfway. This is about the jobs and requests
  of the module: a synchronisation with a cabinet export deletes the rows of other ads at
  once. It is the strongest bound they give; the stronger one of its docstring is `GraceRespected`, which fails.
* `OperatorRemovalsHold`: after a dated removal by the operator, a job that reconciles with Avito
  puts the product on sale again only if it had read the row before it. The others that do are the
  operator's own repost and the publishing job, which reads the removed row and does not ask
  for its status: a removal may leave the listing scheduled (`DELETE .../avito`, PATCH). So does a
  cabinet export, which is outside the module.
* `OffAvitoComesOff`, `SoldComesBack`, `BareRowsAreDeleted`: liveness.
* `OneUploadPerSchedule`, `DueGetsPublished`: each schedule is uploaded once, but for runs that
  died; what is due and ready does not stay scheduled.
* `ReadyHasFile`, `GivesUpAfterLimit`: the exception of the first is the file that a folder job or
  a request deleted before its commit, for good if that failed; of the second, a
  product's photo that was retried, which keeps its attempts and so has one try.
* `DownloadingIsInHand`: a row says `downloading` exactly while the run has the photo in hand, or
  after its download died; no request and no folder job takes a photo out of the run's hand
  and leaves the row behind.
* `PhotosLive`: refinement. A photo is fetched when it was asked for, one at a time, comes
  to be here, failed, asked for again or stuck, and is not fetched again unless a failed one is
  retried. One that is stuck, or here, leaves only with its row.
* `WaitEnds`: the only photo that waits for ever is one whose download died
  while it was marked `downloading`. `VanishedGoes`, `PackFilesArrive`: the folder wins, also
  over the operator's selection, as long as fewer than fifty other folders fail at every
  sync (see Fairness).
* `ChangeReachesAvito`: after three undisturbed rounds Avito offers what is on sale and does not
  offer what is removed, whatever generations overlapped before, and however often the job
  left a round out because a feed had been made by hand. A removed product stays so when the
  cleanup deletes its row: from then on nothing can announce the removal, so no generation
  that read the product on sale may still be under way.
* `OneWorkerSchedules`: when all workers run, one of them is the scheduler. Between a death and
  the restart there may be none, as the others never try the lock again.
* `UndisturbedFits`, `LinksHold`, `CompleteUnlessOvertaken`: a program that nobody overtakes
  writes what the database accepts, replaces no product's ad and misses nothing. Nobody
  checks again before the commit, so an overtaken program may fail on the UNIQUE avito_id or
  give a product another ad.
* `LinksAreSerial`: refinement. A program that nobody overtook does, pass by pass and row by
  row, what it would have done had it read the rows in the moment of its commit: it gives ads
  without a product one each and takes nothing away, or, for the cabinet's export, makes the
  products those of the active ads, drafts aside. One that was overtaken may give a
  product another ad, but only the export deletes, nobody leaves a product without the ad it
  had, and no ad gets a second product.
* `PhotosInUseKeepTheirFiles`: the file of a row, or of a row about to be committed, goes while the
  row stays only in the ways the property lists: its directory is removed, by the deletion of
  a pack or listing, a repost, or the cleanup, for whose query the product was removed; a
  replacement of photos by an import, be it those of a copy; the deletion of a photo, this
  one, one that shares the file, or one of the same product; and the weekly job, when a pack's
  file was copied with its age. Any of these may fail before its commit and leave the row without
  its file. What the property excludes is the rest: uploads, packs and downloads that roll back or die, the
  weekly job against requests under way, and the deletion of a variant, of a model or of another's
  photos. `OrphansGo`: files nobody names do not stay.

The findings (quoted in `PROJECT.json`):

1. A product paused for a blocked ad stays paused when the ad is active again. The restoring
   branch of the declined-ads job is fed by a query that loads no paused product.
2. A removed product with photos is never deleted, nor is any in its batch; the photos are.
3. The import takes every `removed_at` for a removal by hand, but sets it itself.
4. PATCH keeps an old `removed_at`, so a product removed again is deleted at once.

### Bounds

`MaxVersion` stops a job from starting (`MayStart`) once some row has been written that
often: 2 lets a row be written by one job while another holds its old version, and 3, for
the liveness runs, lets a product be sold and restored. `MaxRuns` bounds the jobs that run at the
same time: two are enough for one to overtake another, three are allowed where liveness needs all
jobs to go on. `MaxTime` bounds the clock, in units of
hours to days; `Grace` stands for 48 hours. 1 with `Grace` 0 gives a removal, its expiry and
a second removal. `AdOutcomes` is what Avito may make of an ad; `removal_live` has the two that
matter to sold detection. One product shows every hazard of `RemovalAudit`, as none of its
properties relates two products, and the conflicts of `FirstWriterWins`, which are about several
jobs on one row: `jobs_guarded` has all six jobs, two at a time. `removal_history`
leaves out `sold`, which touches no date and whose verdicts are written as those of `declined`
are, and repost, which both properties about who may write except. The theorems cover any number
of products and listings and all six jobs at once; batches of several rows, of which some guarded
writes fail, are theirs.

`publish` takes one product with two listings (`Slots`), since a run treats the members of
its batch alike, and a listing deleted dooms the other's commit; one tick allows an upload, a new
schedule and its upload. `Times` are those the operator picks, `Pictured` the products that have
an `image_url`, with which an imported product is ready without photos.

`yandex` takes one photo and one file, of both kinds of folders: its liveness is about each
photo alone. `MaxAttempts` 4 lets an exhausted photo be retried once more. `BrokenFolders` 49 of
`SyncLimit` 50 are the most that leave the folder its turn. The theorems cover any number of photos
and files.

`feeds` takes one product, as a feed says of each what its own row says; two workers, so that
two generations can run at once and one can die and come back; `Window` and `Rounds` 3: three
undisturbed rounds are the fewest after which the property holds (a round that followed a
generation by hand is left out, and the one before it may still carry an old reading), and a
removal is announced that long. `MaxDeaths` 1. The workers are interchangeable (`SYMMETRY`).

`linking` takes two products, two ads and two programs at a time: two are enough to disagree, and
the theorems cover all five at once.

`media` takes two photos, two products (a copy and its original), of which the cleanup may find one
removed (`Expired`), and a pack; a listing's directory is a pack's for all but two actions.
`MaxRequests` 1 lets one request be under way at a time, which may fail, beside downloads, both
jobs and the requests that are one step; the theorems cover any number of requests at once, and
listings.

Deadlock is not checked, since the operator may stop and keys run out.

### Fairness

`FairSpec`: weak fairness of the start of each job, because the scheduler starts it at its
interval; strong fairness of the later phases, because a run may fail but not every run does;
weak fairness of the clock. Nothing is assumed of the operator, of Avito's moderation or of
repost. Liveness properties are stated as "not for ever", and assume `MayStart`: past the
bound no job starts, in the model only. `PublishScheduled` assumes the same of its job; a run
whose listing is gone must end (`gone # {} /\ Dies`), as its commit fails.

`YandexDownload`: weak fairness of the start of a run, of its write and of its end, strong
fairness of each photo's turn, as a run takes the photos one after another and may die
before any; strong fairness of the folder job's steps, as not each of its runs dies; a doomed
commit fails. Nothing of the operator or of the folder. The folder job takes fifty folders of each
kind, the longest not synced first, and a folder that fails is not dated: it comes first again. A
pack's folder fails when its link is broken, a product's also when it holds a file nobody
picked. So a folder gets its turn only if fewer than fifty others fail at every sync
(`GetsItsTurn`); with fifty of them it may never be synced, and `VanishedGoes` and
`PackFilesArrive` do not hold.

`MediaFiles`: days pass (strong fairness, because the request that holds a file ends, and with it
the reason for waiting), the weekly job is started and ends.

`Feeds` and `Linking` state safety only. That an hour passes undisturbed is nobody's promise, so
`ChangeReachesAvito` counts such hours; a program of `Linking` may fail each time it runs.

## 4. Proofs

| theorem | says | for |
|---|---|---|
| `TypeCorrect` | `Spec => []TypeOK` | all products, ads, jobs, bounds |
| `SessionsCorrect` | `Spec => []IInv` | the same |
| `VersionsGuard` | `Spec => FirstWriterWins` | the same |
| `RemovalsDated` | `AuditSpec => []JobRemovalsAreDated` | the same |
| `DestroyedLate` | `AuditSpec => NothingDestroyedEarly` | the same |
| `RemovalsHold` | `AuditSpec => OperatorRemovalsHold` | the same |
| `VerdictsHold` | `AuditSpec => VerdictsAreSeen` | the same |
| `PublishTypeCorrect`, `UploadedOnce` | `Spec => []TypeOK`, `[]OneUploadPerSchedule` (`PublishScheduled`) | all products, times and requests |
| `YandexTypeCorrect`, `ReadyPhotosHaveFiles`, `FailuresLimited`, `DownloadsInHand` | `Spec => []TypeOK`, `[]ReadyHasFile`, `[]GivesUpAfterLimit`, `[]DownloadingIsInHand` (`YandexDownload`) | all photos and files |
| `PhotosLiveTheorem` | `Spec => PhotosLive` | the same |
| `FeedsTypeCorrect`, `SomebodySchedules` | `Spec => []TypeOK`, `[]OneWorkerSchedules` (`Feeds`) | all products, workers, rounds and deaths |
| `ChangesArrive` | `Rounds >= 3` gives `Spec => []ChangeReachesAvito` (`Feeds`) | the same |
| `LinkingTypeCorrect`, `UndisturbedPlansFit`, `LinksHoldTheorem`, `CompleteTheorem` | `Spec => []TypeOK`, `[]UndisturbedFits`, `LinksHold`, `CompleteUnlessOvertaken` (`Linking`) | all products and ads, all programs at once |
| `LinkingIsSerial` | `Spec => LinksAreSerial` | the same |
| `MediaTypeCorrect`, `PhotosKeepFiles` | `Spec => []TypeOK`, `PhotosInUseKeepTheirFiles` (`MediaFiles`) | all photos and owners |

Assumptions: bounds are naturals, NULL is no value, the jobs of `AvitoJobs` are among its six,
a product may have a listing, the statuses the operator sends are statuses, there is a worker,
products, packs and listings are different things, and a torn feed (`Torn`) is the content of no generation.

*Versions.* A ticket of the abstract module is a copy with the row's present version. The
mapping breaks if an old version could become current again, so the inductive invariant
(`SessionsOK`) says that a session holds rows only between its load and its end, of rows that
exist, at versions they have had. Every step is then a load (tickets on the loaded rows),
an end of a run (`RowStep`: nothing, one guarded write at the current version, or an
insertion), or a stutter.

*Removals.* `Effect` and `JobEffect` say what a step may do to status, date and row;
they are proved of each job's write. `AuditInv` adds that a row's date is no earlier than the
recorded first one (`DatesOK`), that the rows the cleanup holds were removed long ago
(`SelectedLongAgo`, which needs `DatesOK` at the query), and that jobs which load products on
sale hold no removed copy (`OnSaleLoaded`, which `RemovalsHold` needs). The publishing job loads
whatever its listings belong to, so it is an exception of the property and no part of that
invariant. `VerdictsKnown` says that a session that holds the present version of a row with a job's verdict
holds the verdict: it was given under guard, so that older sessions are out of date, and what is
read later reads it. `VerdictsHold` follows for the guarded jobs; of the unguarded ones, cleanup
is shown to leave such rows alone, and the import to change only what it had selected (`MarksStale`).

*Uploads.* A listing that has been uploaded is still "scheduled" only while its run lives;
hence `Collect` only takes what has not been uploaded, and a request that schedules it again
starts a new count.

*Downloads.* `JobsOK` relates the rows to what a run and a folder job have in hand: the photo a run
has marked is `downloading`, what it wrote is on disk, and between two folder jobs nothing waits to
be deleted. Who deletes a file and leaves its row, a folder job or a request that fails, deletes
files of ready photos only (their url is set), so the file written under a running download stays; and
`past` keeps the photo. `AttemptsCount` says what
`download_attempts` means before and after a retry. `HandInv` adds that the photo in hand, and but
for those whose download died no other, is `downloading`. With it each step of rows,
jobs and requests is one of the abstract module - rows replaced, one photo fetched, its fetching
ended, a failed one retried - or a stutter (`NextLife`): what the run writes on disk, the folder
job's listing and the commit of rows nobody sees are stutters.

*The lock.* `LockOK`: when nobody holds the lock, some worker is not running. It is lost only by a
death, and the one who starts next finds it free.

*Changes.* `Settled` says what each undisturbed round since a product's change has
brought. After one, every generation under way has read the new row, and so has whatever made
the feed that lets the job skip its minute (`ReadAnew`; a feed made by hand before the change
may still have cost the first round). After two, the feed is right from the job's minute on,
and Avito has heard of the change once it came (`Served`). After three, both hold for good: what
is read, written or uploaded later says the same. The cleanup takes only rows whose 48 hours are
over (`CanTell` fails), so a row that goes takes with it nothing that was still to be told. With `Rounds = 2` TLC finds the property
violated, so the assumption is as weak as can be. The invariant was checked on the instance
of `feeds` first.

*Linking.* `PlanOK` says of each program that nobody overtook that its plan still fits the rows:
products to fill have no avito_id, the ads given are distinct, have no product and
are not given twice (`Fitting`), and the listing has nothing beside these; for the row by row
import (`RowsOK`) that what it loaded is still so but for the ids it filled in itself. Lemma
`GoesIInv` reduces each step to the plan of the program that makes it: the others are either
overtaken by it or see the same rows. `RewrittenUnique` and `RewrittenLinked` are what a
commit does to the UNIQUE column and to the ads that have a product. For the refinement,
`FittingImports` makes of a fitting plan an import of the abstract module, `MirrorsExport` of
the cabinet's commit a mirror, and `RewrittenRaces` bounds what a plan that does not fit may do;
the last needs that only the export's plans delete (`OnlyCabinetDrops`).

*Files.* `RowOK` says what a row without a photo, a request's row and a download look like. `AgeKnown`: an
old file that a row names was known to the weekly job when it read the rows, and no request is
still writing it, unless it was copied with its age; this needs that a day does not pass over a
request or a run. With it the steps of the weekly job keep the files in use, and each other step
that removes files is one the property names: that is a matter of which files it removes.

The provers and TLC were used together: each inductive invariant was checked by TLC on the
instances above before it was proved.

Only model-checked: liveness (`removal_live`, `DueGetsPublished`, `WaitEnds`, `VanishedGoes`,
`PackFilesArrive`, `OrphansGo`: fairness and ENABLED are out of the prover's reach) and the four
violations.

## 5. What is not modelled

Left out of the modelled parts: texts, prices and other columns no decision depends on,
Telegram messages, `products.scheduled_at` (display only), deadlocks in PostgreSQL (an error in
one run: `Abort`), the order of photos and the main photo, thumbnails, the XML and the stored
reports, old dated feed files (`_job_cleanup_old_feeds` never touches the one that is served), an
export file that has one avito_id twice, ads of other accounts.

Left to one side at the borders between modules:

* The cabinet's export (`sync_from_avito_export.py`) deletes rows at once and puts a
  removed product back to `imported`. `Linking` has it, `RemovalAudit` has not, so neither
  `NothingDestroyedEarly` nor `OperatorRemovalsHold` speaks of it.
* The publishing job uploads a feed of its own. `Feeds` follows the account's feed and has no
  such upload; so what Avito keeps of a product between that upload and the next visit is not
  followed. Nor is a product whose removal comes while a repost has its avito_id forgotten
  (`known`): nothing announces such a removal, and nothing in the code says it would.
* An Excel row without an avito_id inserts a product as the form does (`CreateProduct` of `Linking`).
* `MediaFiles` leaves out two requests that write files for the same owner at the same time, and a
  pack applied under file names that are taken; `YandexDownload` that two photos share a file name,
  which is in `MediaFiles`.

Not modelled at all:

* `services/avito_client.py`: token refresh, the retry counter and the report cache concern one
  call of one account at a time. Its answers, and its failures, are inputs of every module.
* Categories and the catalog: replaced in one transaction and read back whole.
* Statistics, dashboards, reports, accounts, templates, rate limit and login: forms and pages that
  keep no state across steps, and an idempotent upsert of counters.
* Image processing (uniquifying, resizing), which is pure computation; migrations and scripts
  other than the orphan cleanup.

Seen while reading, and part of the models where these have the part concerned:

* Folders of products never get the photos that come to them later (`scheduler.py:771`):
  `ProductImage` has no `file_path`. The docstring (711-712) promises it for both kinds.
* `excel_importer.py` keeps a product in its dictionary by title after a row gave it an avito_id, and
  an import of photos for a copied variant deletes the original's files.
* `autoload_sync.py` calls its reads before pass 3 fresh; with `expire_on_commit=False` the objects
  are those of the earlier passes.
* The product's edit form takes the product off the schedule and leaves its listing on it.
* A repost takes the pack the account used last, of whatever model.
* `_ensure_token` returns early while the token is valid, so the refresh job, which starts ten
  minutes before the end, does not renew it.
