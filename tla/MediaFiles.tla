----------------------------- MODULE MediaFiles -----------------------------
(***************************************************************************)
(* Photos as rows and as files.  A product, a photo pack and a listing each*)
(* have a directory under MEDIA_DIR and rows that name files, usually files*)
(* of that directory.  Requests write files first and commit rows later    *)
(* (uploads, applying a pack, repost); others delete files first (a photo, *)
(* a folder, a listing or a pack is deleted, the Excel import, the cleanup *)
(* of removed products) and may fail before they commit; copies of a       *)
(* product name the files of the original; a name given twice in one       *)
(* directory makes two photos share a file; and a weekly job deletes the   *)
(* files no row names (scripts/cleanup_orphan_media.py), having read the   *)
(* rows before it looks at the disk.                                       *)
(*                                                                         *)
(* A file is known by the row it was first written for.  It is "young"     *)
(* until a day has passed; no request and no run of a job lasts a day.  The*)
(* photos one request adds are committed together.  Left out: two requests *)
(* that write files for the same owner at the same time, and a pack applied*)
(* under names that are taken.                                             *)
(***************************************************************************)
EXTENDS Naturals, FiniteSets, Functions

CONSTANTS
    Images,    \* rows of the three image tables, and the files written for
               \* them; one that left no trace may be used again
    Products, Packs, Listings,
    Expired,   \* products that the cleanup finds removed two days ago, at one time or
               \* another
    MaxRequests, \* bound: requests under way at one time
    None

Owners == Products \cup Packs \cup Listings

ASSUME NoneIsNothing == None \notin Images \cup Owners
ASSUME MaxRequestsIsNat == MaxRequests \in Nat
ASSUME ExpiredAreProducts == Expired \subseteq Products
ASSUME OwnersAreDisjoint ==
    Products \cap Packs = {} /\ Products \cap Listings = {} /\ Packs \cap Listings = {}

VARIABLES
    img,     \* the rows
    file,    \* file[i]: the file first written for i, if it is on disk
    alive,   \* products, packs and listings that exist
    leaving, \* owners whose directory a request under way has removed: a pack's or
             \* listing's deletion, a product's repost
    drop,    \* rows of products that a repost or an import under way replaces
    going,   \* rows whose deletion has removed a file and is not committed
    cleanup, \* the cleanup of removed products: those whose directory it still has
             \* to remove, and those whose directory it has removed
    sweep    \* the weekly job: the files that rows name, as it read them

vars == <<img, file, alive, leaving, drop, going, cleanup, sweep>>

\* stage: "writing" while the request that wrote the file has not committed.
\* ref: the file the row's url names; a download has none before it arrives.
Rows == [stage: {"free", "writing", "live"}, owner: Owners \cup {None},
         ref: Images \cup {None}, source: {"local", "yandex_disk"}]

\* copied: with the time of the original (shutil.copy2).
Files == [dir: Owners, age: {"young", "old"}, copied: BOOLEAN]
NoFile == [dir |-> None, age |-> "none", copied |-> FALSE]

TypeOK ==
    /\ img \in [Images -> Rows]
    /\ file \in [Images -> Files \cup {NoFile}]
    /\ alive \in SUBSET Owners
    /\ leaving \in SUBSET Owners
    /\ drop \in SUBSET Images
    /\ going \in SUBSET Images
    /\ cleanup \in [todo: SUBSET Products, done: SUBSET Products]
    /\ sweep \in [on: BOOLEAN, refs: SUBSET Images]

NoRow == [stage |-> "free", owner |-> None, ref |-> None, source |-> "local"]
NoCleanup == [todo |-> {}, done |-> {}]
NoSweep == [on |-> FALSE, refs |-> {}]

Init ==
    /\ img = [i \in Images |-> NoRow]
    /\ file = [i \in Images |-> NoFile]
    /\ alive \in SUBSET Owners
    /\ leaving = {} /\ drop = {} /\ going = {}
    /\ cleanup = NoCleanup /\ sweep = NoSweep

RowsOf(o) == {i \in Images : img[i].stage = "live" /\ img[i].owner = o}
Writing(o) == {i \in Images : img[i].stage = "writing" /\ img[i].owner = o}
DirOf(o) == {i \in Images : file[i].dir = o}
OnDisk == {i \in Images : file[i] # NoFile}
Named == {img[i].ref : i \in {j \in Images : img[j].stage = "live"}} \ {None}
BeingWritten == {img[i].ref : i \in {j \in Images : img[j].stage = "writing"}} \ {None}
Unused ==
    {i \in Images : img[i].stage = "free"} \ (OnDisk \cup Named \cup BeingWritten \cup going)

\* The ways to give each member of S a row of its own.
RowsFor(S) == UNION {Bijection(Keys, S) : Keys \in SUBSET Unused}

\* The rows S are no more; the files F are no more.
WithoutRows(S) == [i \in Images |-> IF i \in S THEN NoRow ELSE img[i]]
WithoutFiles(F) == [i \in Images |-> IF i \in F THEN NoFile ELSE file[i]]

\* A request that writes files for o has not committed; a repost may only have
\* emptied the directory.
Busy(o) == Writing(o) # {} \/ drop \cap RowsOf(o) # {} \/ o \in leaving \cap Products

UnderWay == {o \in Owners : Busy(o)} \cup leaving \cup going
MayBegin == Cardinality(UnderWay) < MaxRequests

-----------------------------------------------------------------------------
(* Requests that write files and commit later *)

\* A row of owner o that names the file `ref'.
Written(o, ref) == [NoRow EXCEPT !.stage = "writing", !.owner = o, !.ref = ref]
\* Mutant: a word for the age nobody else uses.
New(o) == [dir |-> o, age |-> "new", copied |-> FALSE]
Young(o) == [dir |-> o, age |-> "young", copied |-> FALSE]

\* Under a directory's rules the file written for row i of owner o gets a name of its
\* own, or that of a file already there, and replaces it: what an upload left that was
\* never committed, or a photo of the same order and name, when photos were put in
\* another order or two share one (`or -1').
NamesFor(o, i) == {i} \cup DirOf(o)

\* POST .../images of a product or a listing, POST /photo-packs/{id}/upload.
Upload(o, i, f) ==
    /\ o \in alive /\ Writing(o) = {} /\ MayBegin /\ i \in Unused /\ f \in NamesFor(o, i)
    /\ img' = [img EXCEPT ![i] = Written(o, f)]
    /\ file' = [file EXCEPT ![f] = Young(o)]
    /\ UNCHANGED <<alive, leaving, drop, going, cleanup, sweep>>

\* The photos of pack k whose file_path is a file.
PackPhotos(k) == {j \in RowsOf(k) : img[j].ref \in OnDisk}

\* _apply_pack_to_product, which a product's pack requests and the creation of a
\* product for a model call: uniquified files are new, the others copied.
ApplyPack(k, p, uniquify) ==
    /\ p \in alive /\ Writing(p) = {} /\ MayBegin /\ PackPhotos(k) # {}
    /\ \E new \in RowsFor(PackPhotos(k)) :
          /\ img' = [i \in Images |-> IF i \in DOMAIN new THEN Written(p, i) ELSE img[i]]
          /\ file' = [i \in Images |->
                        IF i \notin DOMAIN new THEN file[i]
                        ELSE IF uniquify THEN Young(p)
                        ELSE [dir |-> p, age |-> file[img[new[i]].ref].age, copied |-> TRUE]]
    /\ UNCHANGED <<alive, leaving, drop, going, cleanup, sweep>>

\* POST /products/{id}/repost: the product's directory goes before the pack's
\* photos are uniquified into it; the old rows go with the commit.
Repost(k, p) ==
    /\ p \in alive /\ MayBegin /\ ~Busy(p) /\ RowsOf(k) # {}
    /\ leaving' = leaving \cup {p}
    /\ drop' = drop \cup RowsOf(p)
    /\ \E new \in RowsFor(PackPhotos(k)) :
          /\ img' = [i \in Images |-> IF i \in DOMAIN new THEN Written(p, i) ELSE img[i]]
          /\ file' = [i \in Images |-> IF i \in DOMAIN new THEN Young(p)
                                       ELSE WithoutFiles(DirOf(p))[i]]
    /\ UNCHANGED <<alive, going, cleanup, sweep>>

\* import_avito_excel, where a row has photos: the files that the product's rows
\* name are deleted before the commit, and those of a copy are the original's.  The
\* new photos S are Avito's and have no file.  (The model may lack keys for them.)
ImportPhotos(p, S) ==
    /\ p \in alive /\ MayBegin /\ ~Busy(p) /\ S \subseteq Unused
    /\ drop' = drop \cup RowsOf(p)
    /\ img' = [i \in Images |-> IF i \in S THEN Written(p, None) ELSE img[i]]
    /\ file' = WithoutFiles({img[j].ref : j \in RowsOf(p)})
    /\ UNCHANGED <<alive, leaving, going, cleanup, sweep>>

CommitRows(o) ==
    /\ Busy(o) /\ o \in alive
    /\ img' = [i \in Images |->
                 IF i \in Writing(o) THEN [img[i] EXCEPT !.stage = "live"]
                 ELSE WithoutRows(drop \cap RowsOf(o))[i]]
    /\ drop' = drop \ RowsOf(o)
    /\ leaving' = leaving \ ({o} \cap Products)
    /\ UNCHANGED <<file, alive, going, cleanup, sweep>>

\* The request fails, or its process dies: the files stay.
RollBack(o) ==
    /\ Busy(o)
    /\ img' = WithoutRows(Writing(o))
    /\ drop' = drop \ RowsOf(o)
    /\ leaving' = leaving \ ({o} \cap Products)
    /\ UNCHANGED <<file, alive, going, cleanup, sweep>>

-----------------------------------------------------------------------------
(* Photos from Yandex.Disk (see YandexDownload) *)

PickPhoto(o, i) ==
    /\ o \in alive \ Listings /\ i \in Unused
    /\ img' = [img EXCEPT ![i] = [NoRow EXCEPT !.stage = "live", !.owner = o,
                                   !.source = "yandex_disk"]]
    /\ UNCHANGED <<file, alive, leaving, drop, going, cleanup, sweep>>

\* The file is written; then the row is committed, or the process dies and the photo
\* may be tried again.
PhotoArrives(i, f, committed) ==
    /\ img[i].source = "yandex_disk" /\ img[i].ref = None
    /\ f \in NamesFor(img[i].owner, i)
    /\ img' = IF committed THEN [img EXCEPT ![i].ref = f] ELSE img
    /\ file' = [file EXCEPT ![f] = Young(img[i].owner)]
    /\ UNCHANGED <<alive, leaving, drop, going, cleanup, sweep>>

-----------------------------------------------------------------------------
(* The deletion of a photo: its file first, then the row *)

DeletePhoto(i, F) ==
    /\ img[i].stage = "live" /\ i \notin going
    /\ MayBegin
    /\ going' = going \cup {i}
    /\ file' = WithoutFiles(F)
    /\ UNCHANGED <<img, alive, leaving, drop, cleanup, sweep>>

\* Deselected, or gone from the folder, or its folder deleted: the file its url names.
FoundByUrl(i) == img[i].source = "yandex_disk" \/ img[i].owner \in Listings

DeselectPhoto(i) == img[i].source = "yandex_disk" /\ DeletePhoto(i, {img[i].ref})

\* Mutant: the file the url names.
FileOfUrl(i) == {{img[i].ref}}

\* The files that may bear the name `filename' in i's own product's directory.  An
\* upload's own does.  A copied row's is elsewhere, and a download's has its order in
\* front of the name: at most some other photo's file bears it.
FileOfName(i) ==
    IF img[i].source = "local" /\ img[i].ref \in DirOf(img[i].owner) THEN {{img[i].ref}}
    ELSE {{}} \cup {{f} : f \in DirOf(img[i].owner)}

\* POST .../images/{id}/delete; a listing's photo is found by its file_path.
DeleteImage(i) ==
    /\ img[i].owner \in Products \cup Listings
    /\ \E F \in IF img[i].owner \in Listings THEN {{img[i].ref}} ELSE FileOfName(i) :
          DeletePhoto(i, F)

\* The rows S are deleted.
DeleteRows(S) == img' = WithoutRows(S) /\ drop' = drop \ S

DeletionCommits(i) ==
    /\ i \in going /\ img[i].stage = "live"
    /\ DeleteRows({i})
    /\ going' = going \ {i}
    /\ UNCHANGED <<file, alive, leaving, cleanup, sweep>>

\* The row is gone, a request is refused or a process dies.
DeletionFails(i) ==
    /\ i \in going
    /\ going' = going \ {i}
    /\ UNCHANGED <<img, file, alive, leaving, drop, cleanup, sweep>>

-----------------------------------------------------------------------------
(* Other requests *)

\* A product, pack or listing is created, in a directory of its own.
IsNew(o) == o \notin alive /\ DirOf(o) = {} /\ ~Busy(o)

Create(o) ==
    /\ IsNew(o)
    /\ alive' = alive \cup {o}
    /\ UNCHANGED <<img, file, leaving, drop, going, cleanup, sweep>>

\* POST /models/{id}/copy-variant: q's rows name the files of p, and are ready
\* even where p's have no file yet.
CopyVariant(p, q) ==
    /\ p \in alive /\ IsNew(q)
    /\ alive' = alive \cup {q}
    /\ \E new \in RowsFor(RowsOf(p)) :
          img' = [i \in Images |->
                    IF i \in DOMAIN new
                    THEN [NoRow EXCEPT !.stage = "live", !.owner = q, !.ref = img[new[i]].ref]
                    ELSE img[i]]
    /\ UNCHANGED <<file, leaving, drop, going, cleanup, sweep>>

\* DELETE /photo-packs/{id}, /listings/{id}: the directory, then the rows.
DeleteDirectory(o) ==
    /\ o \in alive \ (Products \cup leaving)
    /\ MayBegin
    /\ leaving' = leaving \cup {o}
    /\ file' = WithoutFiles(DirOf(o))
    /\ UNCHANGED <<img, alive, drop, going, cleanup, sweep>>

DeleteOwner(o) == alive' = alive \ {o} /\ DeleteRows(RowsOf(o))

DeleteCommits(o) ==
    /\ o \in leaving \ Products
    /\ leaving' = leaving \ {o}
    /\ DeleteOwner(o)
    /\ UNCHANGED <<file, going, cleanup, sweep>>

DeleteDies(o) ==
    /\ o \in leaving \ Products
    /\ leaving' = leaving \ {o}
    /\ UNCHANGED <<img, file, alive, drop, going, cleanup, sweep>>

\* DELETE /models/{id}: its packs go by cascade, their directories stay.
DeleteModel(k) ==
    /\ k \in alive \ leaving
    /\ DeleteOwner(k)
    /\ UNCHANGED <<file, leaving, going, cleanup, sweep>>

-----------------------------------------------------------------------------
(* Removed products, and the weekly job *)

\* _job_cleanup_removed reads the products removed two days ago (which those are is
\* AvitoJobs' concern) and removes their directories one after the other, whether or
\* not a product has been restored since; one commit deletes the products, and fails
\* if one has photos (see AvitoJobs) or the process dies.
CleanupReads(S) ==
    /\ cleanup = NoCleanup /\ S # {} /\ S \subseteq alive \cap Expired
    /\ cleanup' = [todo |-> S, done |-> {}]
    /\ UNCHANGED <<img, file, alive, leaving, drop, going, sweep>>

CleanupRemoves(p) ==
    /\ p \in cleanup.todo
    /\ file' = WithoutFiles(DirOf(p))
    /\ cleanup' = [todo |-> cleanup.todo \ {p}, done |-> cleanup.done \cup {p}]
    /\ UNCHANGED <<img, alive, leaving, drop, going, sweep>>

CleanupCommits ==
    /\ cleanup.todo = {} /\ cleanup.done # {}
    /\ \A p \in cleanup.done : RowsOf(p) = {}
    /\ alive' = alive \ cleanup.done
    /\ cleanup' = NoCleanup
    /\ UNCHANGED <<img, file, leaving, drop, going, sweep>>

CleanupFails ==
    /\ cleanup # NoCleanup
    /\ cleanup' = NoCleanup
    /\ UNCHANGED <<img, file, alive, leaving, drop, going, sweep>>

\* _get_referenced_paths.
ReadRefs ==
    /\ ~sweep.on
    /\ sweep' = [on |-> TRUE, refs |-> Named]
    /\ UNCHANGED <<img, file, alive, leaving, drop, going, cleanup>>

\* Mutant: only files of owners that are gone.
FilesOfNobody == {i \in OnDisk \ sweep.refs : file[i].age = "old" /\ file[i].dir \notin alive}

\* Files no row named, of at least MIN_AGE_SECONDS.
Orphans == {i \in OnDisk \ sweep.refs : file[i].age = "old"}

DeleteOrphans ==
    /\ sweep.on
    /\ file' = WithoutFiles(Orphans)
    /\ sweep' = NoSweep
    /\ UNCHANGED <<img, alive, leaving, drop, going, cleanup>>

\* A day after a file was written its request is long over, and so is a run of
\* the weekly job that began before the request's end.
DayPasses(f) ==
    /\ file[f].age = "young"
    /\ file[f].copied \/ (f \notin BeingWritten /\ ~sweep.on)
    /\ file' = [file EXCEPT ![f].age = "old"]
    /\ UNCHANGED <<img, alive, leaving, drop, going, cleanup, sweep>>

OwnerStep(o) ==
    \/ \E i \in Images : PickPhoto(o, i) \/ \E f \in Images : Upload(o, i, f)
    \/ CommitRows(o) \/ RollBack(o)
    \/ Create(o)
    \/ DeleteDirectory(o) \/ DeleteCommits(o) \/ DeleteDies(o)

ImageStep(i) ==
    \/ \E f \in Images, committed \in BOOLEAN : PhotoArrives(i, f, committed)
    \/ DeselectPhoto(i) \/ DeleteImage(i) \/ DeletionCommits(i) \/ DeletionFails(i)
    \/ DayPasses(i)

ProductStep(p) ==
    \/ \E k \in Packs : Repost(k, p) \/ \E uniquify \in BOOLEAN : ApplyPack(k, p, uniquify)
    \/ \E q \in Products : CopyVariant(p, q)
    \/ \E S \in SUBSET Images : ImportPhotos(p, S)

JobStep ==
    \/ \E S \in SUBSET Expired : CleanupReads(S)
    \/ \E p \in Products : CleanupRemoves(p)
    \/ CleanupCommits \/ CleanupFails
    \/ ReadRefs \/ DeleteOrphans

Next ==
    \/ \E o \in Owners : OwnerStep(o)
    \/ \E i \in Images : ImageStep(i)
    \/ \E p \in Products : ProductStep(p)
    \/ \E k \in Packs : DeleteModel(k)
    \/ JobStep

\* Days pass, the weekly job is started and ends.
Fairness ==
    /\ \A f \in Images : SF_vars(DayPasses(f))
    /\ WF_vars(ReadRefs) /\ WF_vars(DeleteOrphans)

Spec == Init /\ [][Next]_vars /\ Fairness

-----------------------------------------------------------------------------
\* A photo in use does not lose its file: a file that a row names, or is about to
\* name, disappears while the row stays only when
\* - the directory it lies in is removed: its pack or listing is being deleted, its
\*   product is reposted, or the cleanup read it as removed (restored since or not);
\* - an import is about to replace a row that names it, this one or, where an import
\*   replaces the photos of a copy, the copy's;
\* - a photo is being deleted, this one or another of the same file: a download or a
\*   listing's photo that names it, or a photo of the product in whose directory it
\*   lies; or
\* - the weekly job deletes it, and applying a pack had copied it with its age.
\* What began with the file's end may fail before its commit: the row then keeps
\* the name of a file that is gone.
InUse(f) == \E j \in Images : img[j].ref = f /\ img'[j].ref = f
Disappears(f) == f \in OnDisk /\ file'[f] = NoFile
DirectoryGoes(o) == o \in leaving' \ leaving \/ o \in cleanup.todo \ cleanup'.todo
IsReplaced(f) == \E i \in drop' \ drop : img[i].ref = f
PhotoGoes(f) ==
    \E i \in going' \ going : \/ FoundByUrl(i) /\ img[i].ref = f
                              \/ img[i].owner \in Products /\ img[i].owner = file[f].dir
SweptWithItsAge(f) == sweep.on /\ ~sweep'.on /\ file[f].copied
KeepsFile(f) ==
    Disappears(f) /\ InUse(f) =>
        DirectoryGoes(file[f].dir) \/ IsReplaced(f) \/ PhotoGoes(f) \/ SweptWithItsAge(f)
PhotosInUseKeepTheirFiles == [][\A f \in Images : KeepsFile(f)]_vars

\* A file that no row names and no request is writing does not stay for ever, unless
\* it is written anew time and again.
Orphaned(f) == f \in OnDisk \ (Named \cup BeingWritten)
WrittenAnew(f) == file[f].age = "old" /\ file'[f].age = "young"
OrphansGo == \A f \in Images : <>[]Orphaned(f) => []<><<WrittenAnew(f)>>_vars
=============================================================================
