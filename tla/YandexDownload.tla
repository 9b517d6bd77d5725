--------------------------- MODULE YandexDownload ---------------------------
(***************************************************************************)
(* Photos that come from a public Yandex.Disk folder: the requests that    *)
(* bind a folder to a product or to a photo pack and pick photos from it   *)
(* (app/routes/yandex_folders.py, photo_pack_yandex_folders.py), the job   *)
(* that downloads the pending ones every minute, and the job that compares *)
(* the folder with the rows every thirty minutes (app/scheduler.py).       *)
(*                                                                         *)
(* The download job commits before it goes to the network, and again when  *)
(* it has written the file; the sync deletes files as it goes and rows at  *)
(* its end, and so do the requests that delete photos.  The operator       *)
(* commits in between, and either job, or a request, may die there.        *)
(*                                                                         *)
(* One folder of one product or pack.  A photo's file is its own: that two *)
(* photos may come to share a file name is left out.                       *)
(***************************************************************************)
EXTENDS Naturals, Functions

CONSTANTS
    Photos,      \* keys of product_images or photo_pack_images; a key whose row
                 \* is deleted and that no job remembers stands for a new one
    Paths,       \* yandex_file_path: files that may be in the folder
    None,
    MaxAttempts, \* bound of download_attempts, which a retry does not always reset
    BrokenFolders, \* how many other folders fail at every sync: their link is
                   \* dead, or they are a product's and hold a file not picked
    SyncLimit    \* how many folders a sync takes, the longest not synced first

ASSUME NoneIsNoPhoto == None \notin Photos \cup Paths
ASSUME BoundsAreNat == {MaxAttempts, BrokenFolders, SyncLimit} \subseteq Nat

VARIABLES
    kind,    \* the folder belongs to a "product" or to a "pack"; never changes
    remote,  \* what list_folder answers
    bound,   \* the folder's row exists
    photo,   \* the rows
    file,    \* rows whose file is on the local disk; what a deleted row leaves
             \* there is an orphan (module MediaFiles)
    run,     \* the download job
    sync,    \* the folder job
    past     \* what the rows do not tell of their own past

disk == <<kind, remote, bound>>
vars == <<disk, photo, file, run, sync, past>>

Limit == 3

Rows == [live: BOOLEAN, path: Paths \cup {None},
         status: {"pending", "downloading", "ready", "failed"},
         attempts: Nat, linked: BOOLEAN]

Runs == [todo: SUBSET Photos, cur: Photos \cup {None}, written: BOOLEAN]

Syncs == [stage: {"idle", "listed", "staged"}, seen: SUBSET Paths,
          drop: SUBSET Photos, add: SUBSET Paths, valid: BOOLEAN]

\* tries:   failed downloads since the photo was last asked for
\* retried: the operator has retried it
\* lost:    its download died halfway
\* torn:    a sync or a request deleted its file, and did not commit
Pasts == [tries: Nat, retried: BOOLEAN, lost: BOOLEAN, torn: BOOLEAN]
NoPast == [tries |-> 0, retried |-> FALSE, lost |-> FALSE, torn |-> FALSE]

TypeOK ==
    /\ kind \in {"product", "pack"}
    /\ remote \in SUBSET Paths
    /\ bound \in BOOLEAN
    /\ photo \in [Photos -> Rows]
    /\ file \in SUBSET Photos
    /\ run \in Runs
    /\ sync \in Syncs
    /\ past \in [Photos -> Pasts]

Live == {i \in Photos : photo[i].live}
Unused == (Photos \ Live) \ (run.todo \cup {run.cur} \cup sync.drop)
Linked == {i \in Live : photo[i].linked}
PathsOf(S) == {photo[i].path : i \in S}

\* A row as a selection or the sync inserts it.
NewPhoto(path) == [live |-> TRUE, path |-> path, status |-> "pending",
                   attempts |-> 0, linked |-> TRUE]
NoRow == [NewPhoto(None) EXCEPT !.live = FALSE, !.linked = FALSE]

IdleRun == [todo |-> {}, cur |-> None, written |-> FALSE]
IdleSync == [stage |-> "idle", seen |-> {}, drop |-> {}, add |-> {}, valid |-> FALSE]

Init ==
    /\ kind \in {"product", "pack"}
    /\ remote \in SUBSET Paths
    /\ bound = FALSE
    /\ photo = [i \in Photos |-> NoRow]
    /\ file = {}
    /\ run = IdleRun /\ sync = IdleSync
    /\ past = [i \in Photos |-> NoPast]

\* The rows S are deleted and rows for the paths of `new' inserted; `new' gives
\* each a key of its own.
Replaced(S, new) ==
    [i \in Photos |-> IF i \in S THEN NoRow
                      ELSE IF i \in DOMAIN new THEN NewPhoto(new[i]) ELSE photo[i]]

Forget(S) == [i \in Photos |-> IF i \in S THEN NoPast ELSE past[i]]

KeysFor(add) == UNION {Bijection(New, add) : New \in SUBSET Unused}

\* _delete_local_file removes the file a row's url names; the url is set when
\* the photo is ready.
FilesOf(S) == {i \in S : photo[i].status = "ready"}

-----------------------------------------------------------------------------
(* The operator and Yandex.Disk *)

AddFolder ==
    /\ ~bound
    /\ bound' = TRUE
    /\ UNCHANGED <<kind, remote, photo, file, run, sync, past>>

\* Without delete_images the photos stay, and yandex_folder_id becomes NULL.
DeleteFolder(withPhotos) ==
    /\ bound
    /\ bound' = FALSE
    /\ IF withPhotos
       THEN /\ photo' = Replaced(Linked, <<>>) /\ past' = Forget(Linked)
            /\ file' = file \ Linked
       ELSE /\ photo' = [i \in Photos |-> [photo[i] EXCEPT !.linked = FALSE]]
            /\ UNCHANGED <<file, past>>
    /\ sync' = [sync EXCEPT !.valid = FALSE]
    /\ UNCHANGED <<kind, remote, run>>

\* PUT .../selection: the photos not picked go, those newly picked are pending.
UpdateSelection(picked) ==
    LET dropped == {i \in Linked : photo[i].path \notin picked} IN
    /\ bound
    /\ \E new \in KeysFor(picked \ PathsOf(Linked)) : photo' = Replaced(dropped, new)
    /\ past' = Forget(dropped)
    /\ file' = file \ dropped
    /\ UNCHANGED <<disk, run, sync>>

\* POST /products/{id}/images/{id}/delete; there is none for a pack's photos.
DeletePhoto(i) ==
    /\ kind = "product" /\ i \in Live
    /\ photo' = Replaced({i}, <<>>)
    /\ past' = Forget({i})
    /\ file' = file \ {i}
    /\ UNCHANGED <<disk, run, sync>>

\* The files of the rows S are deleted, and the rows are still there.
Tears(S) ==
    /\ FilesOf(S) # {}
    /\ file' = file \ FilesOf(S)
    /\ past' = [i \in Photos |-> IF i \in FilesOf(S) THEN [past[i] EXCEPT !.torn = TRUE]
                                                     ELSE past[i]]
    /\ UNCHANGED <<disk, photo, run, sync>>

\* These three requests delete the files first.  When the commit fails (the folder
\* was deleted meanwhile, the database is away) or the process dies, that is all
\* they do.  The deletion of a folder drops what a selection of nothing would; the
\* one of a photo goes by `filename', which may be another photo's file.
RequestDies ==
    \/ /\ bound
       /\ \E picked \in SUBSET Paths : Tears({i \in Linked : photo[i].path \notin picked})
    \/ kind = "product" /\ \E i \in Live : Tears({i})

\* PATCH .../retry-download
Retried(i, attempts) ==
    /\ i \in Live /\ photo[i].status = "failed"
    /\ photo[i].attempts < MaxAttempts
    /\ photo' = [photo EXCEPT ![i].status = "pending", ![i].attempts = attempts]
    /\ past' = [past EXCEPT ![i].tries = 0, ![i].retried = TRUE]
    /\ UNCHANGED <<disk, file, run, sync>>

\* Only a pack's photo gets new attempts.
RetryDownload(i) == kind = "product" /\ Retried(i, photo[i].attempts)
RetryPackDownload(i) == kind = "pack" /\ Retried(i, 0)

\* Files come to the folder, or leave it.
FolderChanges ==
    /\ \E path \in Paths : remote' \in {remote \cup {path}, remote \ {path}}
    /\ remote' # remote
    /\ UNCHANGED <<kind, bound, photo, file, run, sync, past>>

-----------------------------------------------------------------------------
(* _job_download_pending_yandex *)

\* Mutants: a photo that has failed once is not asked for again; whatever is not
\* there is; whatever has not failed is.
NeverTried == {i \in Live : photo[i].status = "pending" /\ photo[i].attempts = 0}

NotThere == {i \in Live : photo[i].status \in {"pending", "downloading"}}
NotFailed == {i \in Live : photo[i].status # "failed"}

Pending == {i \in Live : photo[i].status = "pending"}

StartRun ==
    /\ run = IdleRun /\ Pending # {}
    /\ run' = [IdleRun EXCEPT !.todo = Pending]
    /\ UNCHANGED <<disk, photo, file, sync, past>>

\* The first commit of _download_one_yandex_image.
MarkDownloading(i) ==
    /\ run.cur = None /\ i \in run.todo \cap Live
    /\ run' = [run EXCEPT !.cur = i, !.todo = @ \ {i}]
    /\ photo' = [photo EXCEPT ![i].status = "downloading"]
    /\ UNCHANGED <<disk, file, sync, past>>

\* The folder's row was there when it was looked up, and the file came.
WriteFile ==
    /\ run.cur # None /\ ~run.written
    /\ run.cur \in Linked /\ photo[run.cur].path \in remote
    /\ file' = file \cup {run.cur}
    /\ run' = [run EXCEPT !.written = TRUE]
    /\ UNCHANGED <<disk, photo, sync, past>>

\* Mutant: the url and the status are committed before the file is written.
ReadyFirst ==
    /\ run.cur \in Live
    /\ photo' = [photo EXCEPT ![run.cur].status = "ready"]
    /\ run' = [run EXCEPT !.cur = None, !.written = FALSE]
    /\ UNCHANGED <<disk, file, sync, past>>

\* The second commit.
CommitReady ==
    /\ run.cur \in Live /\ run.written
    /\ photo' = [photo EXCEPT ![run.cur].status = "ready"]
    /\ run' = [run EXCEPT !.cur = None, !.written = FALSE]
    /\ UNCHANGED <<disk, file, sync, past>>

\* Mutants: one attempt less; another word for it.
LastTryForgotten(i) ==
    IF photo[i].attempts + 2 >= Limit THEN "failed" ELSE "pending"
FailedAsError(i) ==
    IF photo[i].attempts + 1 >= Limit THEN "error" ELSE "pending"

StatusAfterFailure(i) ==
    IF photo[i].attempts + 1 >= Limit THEN "failed" ELSE "pending"

\* The folder's row is gone, Yandex.Disk refuses, the picture is broken.
DownloadFails ==
    LET i == run.cur IN
    /\ i \in Live /\ ~run.written
    /\ photo' = [photo EXCEPT ![i].status = StatusAfterFailure(i),
                              ![i].attempts = @ + 1]
    /\ past' = [past EXCEPT ![i].tries = @ + 1]
    /\ run' = [run EXCEPT !.cur = None]
    /\ UNCHANGED <<disk, file, sync>>

\* The process dies, or a commit fails: the row was deleted meanwhile, or the
\* database is away.  The handler's own commit then fails, too, and the next
\* attempt of _run_with_retry is a run of its own.
RunDies ==
    /\ run # IdleRun
    /\ past' = [i \in Photos |-> IF i \in {run.cur} \cap Live
                                 THEN [past[i] EXCEPT !.lost = TRUE] ELSE past[i]]
    /\ run' = IdleRun
    /\ UNCHANGED <<disk, photo, file, sync>>

DownloadJob ==
    \/ StartRun
    \/ \E i \in Photos : MarkDownloading(i)
    \/ WriteFile \/ CommitReady \/ DownloadFails
    \/ RunDies

-----------------------------------------------------------------------------
(* _job_sync_yandex_folders *)

\* The folder is loaded and listed.  A listing that fails only sets folder.error.
ListFolder ==
    /\ sync.stage = "idle" /\ bound
    /\ sync' = [IdleSync EXCEPT !.stage = "listed", !.seen = remote, !.valid = TRUE]
    /\ UNCHANGED <<disk, photo, file, run, past>>

\* Mutant: no new rows, whoever the folder belongs to.
ApplyVanished ==
    LET gone == {i \in Linked : photo[i].path \notin sync.seen} IN
    /\ sync.stage = "listed" /\ sync.valid
    /\ file' = file \ FilesOf(gone)
    /\ sync' = [sync EXCEPT !.stage = "staged", !.drop = gone]
    /\ UNCHANGED <<disk, photo, run, past>>

\* The rows are read; the files of those whose path is not in the listing are
\* deleted at once, the rows with the commit.  For a product's folder the new
\* rows fail on `file_path', which ProductImage does not have, after that.
ApplyListing ==
    LET gone == {i \in Linked : photo[i].path \notin sync.seen} IN
    /\ sync.stage = "listed" /\ sync.valid
    /\ file' = file \ FilesOf(gone)
    /\ sync' = [sync EXCEPT !.stage = "staged", !.drop = gone,
                   !.add = IF kind = "pack" THEN sync.seen \ PathsOf(Linked) ELSE {}]
    /\ UNCHANGED <<disk, photo, run, past>>

\* Mutant: what the folder has lost stays.
CommitNewOnly ==
    /\ sync.stage = "staged" /\ sync.valid
    /\ \E new \in KeysFor(sync.add) : photo' = Replaced({}, new)
    /\ sync' = IdleSync
    /\ UNCHANGED <<disk, file, run, past>>

\* One commit for all folders.  With a folder deleted meanwhile it fails.
CommitSync ==
    /\ sync.stage = "staged" /\ sync.valid
    /\ \E new \in KeysFor(sync.add) : photo' = Replaced(sync.drop, new)
    /\ past' = Forget(sync.drop)
    /\ file' = file \ sync.drop
    /\ sync' = IdleSync
    /\ UNCHANGED <<disk, run>>

SyncDies ==
    /\ sync.stage # "idle"
    /\ past' = [i \in Photos |-> IF i \in FilesOf(sync.drop) \cap Live
                                 THEN [past[i] EXCEPT !.torn = TRUE] ELSE past[i]]
    /\ sync' = IdleSync
    /\ UNCHANGED <<disk, photo, file, run>>

\* Only dying ends a sync whose folder was deleted, or, in the model, one for
\* whose new rows there are no keys left.
SyncIsDoomed == ~sync.valid \/ KeysFor(sync.add) = {}

SyncJob == ListFolder \/ ApplyListing \/ CommitSync \/ SyncDies

Operator ==
    \/ AddFolder
    \/ \E withPhotos \in BOOLEAN : DeleteFolder(withPhotos)
    \/ \E picked \in SUBSET Paths : UpdateSelection(picked)
    \/ \E i \in Photos : DeletePhoto(i) \/ RetryDownload(i) \/ RetryPackDownload(i)
    \/ RequestDies

Next == Operator \/ FolderChanges \/ DownloadJob \/ SyncJob

\* Both jobs are started at their intervals and go on; the photos of a run get
\* their turn unless it dies, and not every run dies before the same photo, nor
\* does every sync die.  A folder that fails is not dated (last_synced_at), so it
\* comes first again: the folder gets its turn only if fewer than SyncLimit do.
GetsItsTurn == BrokenFolders < SyncLimit
Fairness ==
    /\ WF_vars(StartRun)
    /\ \A i \in Photos : SF_vars(MarkDownloading(i))
    /\ WF_vars(WriteFile \/ DownloadFails) /\ WF_vars(CommitReady) /\ WF_vars(RunDies)
    /\ SF_vars(GetsItsTurn /\ ListFolder) /\ SF_vars(ApplyListing) /\ SF_vars(CommitSync)
    /\ WF_vars(SyncIsDoomed /\ SyncDies)

Spec == Init /\ [][Next]_vars /\ Fairness

-----------------------------------------------------------------------------
\* A ready photo has its file, whatever the jobs and the operator do at the same
\* time and wherever a download dies.  The exception: a file that a sync or
\* a request deleted before its commit, until that comes, and for ever if it fails.
ReadyHasFile ==
    \A i \in Live : photo[i].status = "ready" => i \in file \cup sync.drop \/ past[i].torn

\* A photo is given up after three failures since it was asked for; a product's
\* photo that was retried, after one.
GivesUpAfterLimit ==
    \A i \in Live : photo[i].status = "failed" =>
        \/ past[i].tries = Limit
        \/ kind = "product" /\ past[i].retried /\ past[i].tries = 1

\* A photo is `downloading' while the run has it in hand, and after its download
\* died.  No job looks for such photos: this one stays as it is.
DownloadingIsInHand ==
    \A i \in Live : photo[i].status = "downloading" <=> run.cur = i \/ past[i].lost

\* The life of a photo as the operator sees it, whatever runs, syncs and requests
\* interleave and die: an implementation of PhotoLife.
life == [i \in Photos |->
           IF i \notin Live THEN "none"
           ELSE CASE photo[i].status = "pending" -> "asked"
                  [] photo[i].status = "ready" -> "here"
                  [] photo[i].status = "failed" -> "failed"
                  [] OTHER -> IF past[i].lost THEN "stuck" ELSE "loading"]

Lives == INSTANCE PhotoLife
PhotosLive == Lives!Spec

\* A download that died is the only thing that lets a photo wait for ever: what a
\* due publication waits for comes or fails.
Waits(i) == i \in Live /\ photo[i].status \in {"pending", "downloading"}
WaitEnds == \A i \in Photos : ~<>[](Waits(i) /\ ~past[i].lost)

\* A photo that has left the folder for good does not keep its row, as long as
\* fewer than SyncLimit other folders fail at every sync.
VanishedGoes ==
    \A path \in Paths : ~<>[](bound /\ path \notin remote /\ path \in PathsOf(Linked))

\* A file in a pack's folder gets a photo, picked or not: the sync brings back
\* what the operator has deselected, under the same condition.  (There must be
\* keys for the rows.)
PackFilesArrive ==
    \A path \in Paths :
        ~<>[](/\ kind = "pack" /\ bound /\ path \in remote
              /\ path \notin PathsOf(Linked) /\ KeysFor(sync.add) # {})
=============================================================================
