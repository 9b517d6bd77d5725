-------------------------- MODULE MediaFilesProofs --------------------------
(***************************************************************************)
(* Proofs that the variables of MediaFiles keep their types and that no    *)
(* photo in use loses its file in another way than those the property      *)
(* names; for any number of photos, products, packs, listings and requests *)
(* under way.                                                              *)
(***************************************************************************)
EXTENDS MediaFiles, TLAPS

\* A key without a row names nothing; a download's row is in the table from the start.
RowOK(j) ==
    /\ img[j].stage = "free" => img[j].ref = None
    /\ img[j].stage # "free" => img[j].owner # None
    /\ img[j].source = "yandex_disk" => img[j].stage = "live"

\* While a request that wrote it is under way a file is young, unless it is a copy
\* with the age of the original; and the weekly job read the names of all that are
\* older.
AgeKnown(f) ==
    file[f].age = "old" /\ ~file[f].copied =>
        \A j \in Images : img[j].ref = f =>
            img[j].stage = "live" /\ (sweep.on => f \in sweep.refs)

IInv == TypeOK /\ \A i \in Images : RowOK(i) /\ AgeKnown(i)

-----------------------------------------------------------------------------
(* Rows and files *)

LEMMA RowsTyped ==
    /\ NoRow \in Rows /\ NoRow.stage = "free" /\ NoRow.source = "local" /\ NoRow.ref = None
    /\ \A o \in Owners, ref \in Images \cup {None} :
          LET r == Written(o, ref) IN
          /\ r \in Rows /\ r.stage = "writing" /\ r.owner = o /\ r.ref = ref
          /\ r.source = "local"
<1>1. /\ NoRow \in Rows /\ NoRow.stage = "free" /\ NoRow.source = "local"
      /\ NoRow.ref = None
  BY DEF NoRow, Rows
<1>2. ASSUME NEW o \in Owners, NEW ref \in Images \cup {None}
      PROVE  LET r == Written(o, ref) IN
             /\ r \in Rows /\ r.stage = "writing" /\ r.owner = o /\ r.ref = ref
             /\ r.source = "local"
  <2> DEFINE first == [NoRow EXCEPT !.stage = "writing"]
             second == [first EXCEPT !.owner = o]
             r == [second EXCEPT !.ref = ref]
  <2>1. first \in Rows /\ first.stage = "writing" /\ first.source = "local"
    BY <1>1 DEF Rows
  <2> HIDE DEF first
  <2>2. /\ second \in Rows /\ second.stage = "writing" /\ second.owner = o
        /\ second.source = "local"
    BY <2>1 DEF Rows
  <2> HIDE DEF second
  <2>3. /\ r \in Rows /\ r.stage = "writing" /\ r.owner = o /\ r.ref = ref
        /\ r.source = "local"
    BY <2>2 DEF Rows
  <2>4. Written(o, ref) = r
    BY DEF Written, first, second
  <2> HIDE DEF r
  <2> QED
    BY <2>3, <2>4
<1> QED
  BY <1>1, <1>2

LEMMA FilesTyped ==
    /\ NoFile \notin Files /\ NoFile.age # "old" /\ NoFile.dir = None
    /\ \A o \in Owners : Young(o) \in Files /\ Young(o).dir = o /\ Young(o).age = "young"
    /\ \A f \in Files : f.dir \in Owners /\ f.dir # None
BY NoneIsNothing DEF NoFile, Files, Young

\* Each member of S gets a key of its own, which was not used.
LEMMA RowsForTyped ==
    ASSUME NEW S \in SUBSET Images, NEW new \in RowsFor(S)
    PROVE  /\ DOMAIN new \subseteq Unused
           /\ \A i \in DOMAIN new : new[i] \in S
<1>1. PICK Keys \in SUBSET Unused : new \in Bijection(Keys, S)
  BY DEF RowsFor
<1>2. new \in [Keys -> S]
  BY <1>1 DEF Bijection, Injection, Surjection
<1> QED
  BY <1>1, <1>2

\* The rows S and the files F are no more.
LEMMA WithoutTyped ==
    ASSUME TypeOK, NEW S, NEW F
    PROVE  /\ WithoutRows(S) \in [Images -> Rows]
           /\ WithoutFiles(F) \in [Images -> Files \cup {NoFile}]
           /\ \A i \in Images : /\ WithoutRows(S)[i] = IF i \in S THEN NoRow ELSE img[i]
                                /\ WithoutFiles(F)[i] = IF i \in F THEN NoFile ELSE file[i]
BY RowsTyped DEF WithoutRows, WithoutFiles, TypeOK

-----------------------------------------------------------------------------
(* The invariant *)

LEMMA InitIInv == Init => IInv
<1> SUFFICES ASSUME Init PROVE IInv
  OBVIOUS
<1>1. TypeOK
  BY RowsTyped DEF Init, TypeOK, NoCleanup, NoSweep
<1>2. ASSUME NEW i \in Images PROVE RowOK(i) /\ AgeKnown(i)
  BY RowsTyped, FilesTyped DEF Init, RowOK, AgeKnown
<1> QED
  BY <1>1, <1>2 DEF IInv

\* Rows stay or go, or are as rows should be; a file that is old, and not by its
\* copying, was there before, and a row that begins to name it is in the table already
\* and takes the name from another row.
LEMMA MoreIInv ==
    ASSUME IInv, TypeOK', sweep' = sweep,
           \A j \in Images : img'[j] \in {img[j], NoRow} \/ RowOK(j)',
           \A f \in Images :
              \/ file'[f].age # "old" \/ file'[f].copied
              \/ /\ file'[f] = file[f]
                 /\ \A j \in Images : img'[j].ref = f =>
                       \/ img'[j] = img[j]
                       \/ img'[j].stage = "live" /\ \E k \in Images : img[k].ref = f
    PROVE  IInv'
<1>1. ASSUME NEW j \in Images PROVE RowOK(j)'
  BY RowsTyped DEF IInv, RowOK
<1>2. ASSUME NEW f \in Images PROVE AgeKnown(f)'
  <2> SUFFICES ASSUME file'[f].age = "old", ~file'[f].copied,
                      NEW j \in Images, img'[j].ref = f
               PROVE  img'[j].stage = "live" /\ (sweep.on => f \in sweep.refs)
    BY DEF AgeKnown
  <2>1. \A k \in Images : img[k].ref = f =>
           img[k].stage = "live" /\ (sweep.on => f \in sweep.refs)
    BY DEF IInv, AgeKnown
  <2> QED
    BY <2>1
<1> QED
  BY <1>1, <1>2 DEF IInv

\* Each row and each file stays or goes, and the weekly job does not begin.
LEMMA FewerIInv ==
    ASSUME IInv,
           img' \in [Images -> Rows], file' \in [Images -> Files \cup {NoFile}],
           \A j \in Images : /\ img'[j] \in {img[j], NoRow}
                             /\ file'[j] \in {file[j], NoFile},
           alive' \in SUBSET Owners, leaving' \in SUBSET Owners,
           drop' \in SUBSET Images, going' \in SUBSET Images,
           cleanup' \in [todo: SUBSET Products, done: SUBSET Products],
           sweep' \in {sweep, NoSweep}
    PROVE  IInv'
<1>1. TypeOK'
  <2>1. sweep \in [on: BOOLEAN, refs: SUBSET Images]
    BY DEF IInv, TypeOK
  <2>2. NoSweep \in [on: BOOLEAN, refs: SUBSET Images]
    BY DEF NoSweep
  <2>3. sweep' \in [on: BOOLEAN, refs: SUBSET Images]
    BY <2>1, <2>2
  <2> QED
    BY <2>3 DEF TypeOK
<1>2. ASSUME NEW j \in Images PROVE RowOK(j)'
  BY RowsTyped DEF IInv, RowOK
<1>3. ASSUME NEW f \in Images PROVE AgeKnown(f)'
  <2> SUFFICES ASSUME file'[f].age = "old", ~file'[f].copied,
                      NEW j \in Images, img'[j].ref = f
               PROVE  img'[j].stage = "live" /\ (sweep'.on => f \in sweep'.refs)
    BY DEF AgeKnown
  <2>1. file'[f] = file[f]
    BY FilesTyped
  <2>2. img'[j] = img[j]
    BY RowsTyped, NoneIsNothing
  <2>3. img[j].stage = "live" /\ (sweep.on => f \in sweep.refs)
    BY <2>1, <2>2 DEF IInv, AgeKnown
  <2> QED
    BY <2>2, <2>3 DEF NoSweep
<1> QED
  BY <1>1, <1>2, <1>3 DEF IInv

-----------------------------------------------------------------------------
(* Steps that only take away *)

\* What the steps that take away leave alone keeps its type.
LEMMA Typed ==
    ASSUME IInv
    PROVE  /\ img \in [Images -> Rows] /\ file \in [Images -> Files \cup {NoFile}]
           /\ alive \in SUBSET Owners /\ leaving \in SUBSET Owners
           /\ drop \in SUBSET Images /\ going \in SUBSET Images
           /\ cleanup \in [todo: SUBSET Products, done: SUBSET Products]
           /\ sweep \in [on: BOOLEAN, refs: SUBSET Images]
BY DEF IInv, TypeOK

\* The files F are no more; the rest is typed.
LEMMA FilesGoIInv ==
    ASSUME IInv, NEW F, file' = WithoutFiles(F), img' = img, drop' = drop,
           alive' \in SUBSET Owners, leaving' \in SUBSET Owners, going' \in SUBSET Images,
           cleanup' \in [todo: SUBSET Products, done: SUBSET Products],
           sweep' \in {sweep, NoSweep}
    PROVE  IInv'
<1>1. /\ file' \in [Images -> Files \cup {NoFile}]
      /\ \A j \in Images : file'[j] \in {file[j], NoFile}
  BY WithoutTyped DEF IInv
<1> QED
  BY <1>1, Typed, FewerIInv

\* The rows S are no more; the rest is typed.
LEMMA RowsGoIInv ==
    ASSUME IInv, NEW S, img' = WithoutRows(S), file' = file, drop' \in SUBSET Images,
           alive' \in SUBSET Owners, leaving' \in SUBSET Owners, going' \in SUBSET Images,
           cleanup' = cleanup, sweep' = sweep
    PROVE  IInv'
<1>1. /\ img' \in [Images -> Rows]
      /\ \A j \in Images : img'[j] \in {img[j], NoRow}
  BY WithoutTyped DEF IInv
<1> QED
  BY <1>1, Typed, FewerIInv

\* Rows and files stay.
LEMMA OthersIInv ==
    ASSUME IInv, UNCHANGED <<img, file, drop, sweep>>,
           alive' \in SUBSET Owners, leaving' \in SUBSET Owners, going' \in SUBSET Images,
           cleanup' \in [todo: SUBSET Products, done: SUBSET Products]
    PROVE  IInv'
BY Typed, FewerIInv

LEMMA RollBackIInv == \A o \in Owners : IInv /\ RollBack(o) => IInv'
<1> SUFFICES ASSUME NEW o \in Owners, IInv, RollBack(o) PROVE IInv'
  OBVIOUS
<1>1. /\ img' = WithoutRows(Writing(o)) /\ UNCHANGED <<file, alive, going, cleanup, sweep>>
      /\ drop' \in SUBSET Images /\ leaving' \in SUBSET Owners
  BY Typed DEF RollBack
<1> QED
  BY <1>1, Typed, RowsGoIInv

LEMMA DeletePhotoIInv == \A i \in Images : \A F : IInv /\ DeletePhoto(i, F) => IInv'
<1> SUFFICES ASSUME NEW i \in Images, NEW F, IInv, DeletePhoto(i, F) PROVE IInv'
  OBVIOUS
<1>1. /\ file' = WithoutFiles(F) /\ UNCHANGED <<img, alive, leaving, drop, cleanup, sweep>>
      /\ going' \in SUBSET Images
  BY Typed DEF DeletePhoto
<1> QED
  BY <1>1, Typed, FilesGoIInv

LEMMA DeletionCommitsIInv == \A i \in Images : IInv /\ DeletionCommits(i) => IInv'
<1> SUFFICES ASSUME NEW i \in Images, IInv, DeletionCommits(i) PROVE IInv'
  OBVIOUS
<1>1. /\ img' = WithoutRows({i}) /\ UNCHANGED <<file, alive, leaving, cleanup, sweep>>
      /\ drop' \in SUBSET Images /\ going' \in SUBSET Images
  BY Typed DEF DeletionCommits, DeleteRows
<1> QED
  BY <1>1, Typed, RowsGoIInv

LEMMA DeletionFailsIInv == \A i \in Images : IInv /\ DeletionFails(i) => IInv'
<1> SUFFICES ASSUME NEW i \in Images, IInv, DeletionFails(i) PROVE IInv'
  OBVIOUS
<1>1. /\ UNCHANGED <<img, file, alive, leaving, drop, cleanup, sweep>>
      /\ going' \in SUBSET Images
  BY Typed DEF DeletionFails
<1> QED
  BY <1>1, Typed, OthersIInv

LEMMA CreateIInv == \A o \in Owners : IInv /\ Create(o) => IInv'
<1> SUFFICES ASSUME NEW o \in Owners, IInv, Create(o) PROVE IInv'
  OBVIOUS
<1>1. /\ UNCHANGED <<img, file, leaving, drop, going, cleanup, sweep>>
      /\ alive' \in SUBSET Owners
  BY Typed DEF Create
<1> QED
  BY <1>1, Typed, OthersIInv

LEMMA DeleteDirectoryIInv == \A o \in Owners : IInv /\ DeleteDirectory(o) => IInv'
<1> SUFFICES ASSUME NEW o \in Owners, IInv, DeleteDirectory(o) PROVE IInv'
  OBVIOUS
<1>1. /\ file' = WithoutFiles(DirOf(o))
      /\ UNCHANGED <<img, alive, drop, going, cleanup, sweep>>
      /\ leaving' \in SUBSET Owners
  BY Typed DEF DeleteDirectory
<1> QED
  BY <1>1, Typed, FilesGoIInv

LEMMA DeleteCommitsIInv == \A o \in Owners : IInv /\ DeleteCommits(o) => IInv'
<1> SUFFICES ASSUME NEW o \in Owners, IInv, DeleteCommits(o) PROVE IInv'
  OBVIOUS
<1>1. /\ img' = WithoutRows(RowsOf(o)) /\ UNCHANGED <<file, going, cleanup, sweep>>
      /\ alive' \in SUBSET Owners /\ leaving' \in SUBSET Owners /\ drop' \in SUBSET Images
  BY Typed DEF DeleteCommits, DeleteOwner, DeleteRows
<1> QED
  BY <1>1, Typed, RowsGoIInv

LEMMA DeleteDiesIInv == \A o \in Owners : IInv /\ DeleteDies(o) => IInv'
<1> SUFFICES ASSUME NEW o \in Owners, IInv, DeleteDies(o) PROVE IInv'
  OBVIOUS
<1>1. /\ UNCHANGED <<img, file, alive, drop, going, cleanup, sweep>>
      /\ leaving' \in SUBSET Owners
  BY Typed DEF DeleteDies
<1> QED
  BY <1>1, Typed, OthersIInv

LEMMA DeleteModelIInv == \A k \in Packs : IInv /\ DeleteModel(k) => IInv'
<1> SUFFICES ASSUME NEW k \in Packs, IInv, DeleteModel(k) PROVE IInv'
  OBVIOUS
<1>1. /\ img' = WithoutRows(RowsOf(k)) /\ UNCHANGED <<file, leaving, going, cleanup, sweep>>
      /\ alive' \in SUBSET Owners /\ drop' \in SUBSET Images
  BY Typed DEF DeleteModel, DeleteOwner, DeleteRows
<1> QED
  BY <1>1, Typed, RowsGoIInv

LEMMA CleanupIInv ==
    ASSUME IInv,
           \/ \E S \in SUBSET Expired : CleanupReads(S)
           \/ \E p \in Products : CleanupRemoves(p)
           \/ CleanupCommits \/ CleanupFails
    PROVE  IInv'
<1>1. ASSUME NEW S \in SUBSET Expired, CleanupReads(S) PROVE IInv'
  <2>1. /\ UNCHANGED <<img, file, alive, leaving, drop, going, sweep>>
        /\ cleanup' \in [todo: SUBSET Products, done: SUBSET Products]
    BY <1>1, ExpiredAreProducts DEF CleanupReads
  <2> QED
    BY <2>1, Typed, OthersIInv
<1>2. ASSUME NEW p \in Products, CleanupRemoves(p) PROVE IInv'
  <2>1. /\ file' = WithoutFiles(DirOf(p))
        /\ UNCHANGED <<img, alive, leaving, drop, going, sweep>>
        /\ cleanup' \in [todo: SUBSET Products, done: SUBSET Products]
    BY <1>2, Typed DEF CleanupRemoves
  <2> QED
    BY <2>1, Typed, FilesGoIInv
<1>3. NoCleanup \in [todo: SUBSET Products, done: SUBSET Products]
  BY DEF NoCleanup
<1>4. CASE CleanupCommits
  <2>1. /\ UNCHANGED <<img, file, leaving, drop, going, sweep>>
        /\ cleanup' = NoCleanup /\ alive' \in SUBSET Owners
    BY <1>4, Typed DEF CleanupCommits
  <2> QED
    BY <1>3, <2>1, Typed, OthersIInv
<1>5. CASE CleanupFails
  <2>1. /\ UNCHANGED <<img, file, alive, leaving, drop, going, sweep>>
        /\ cleanup' = NoCleanup
    BY <1>5 DEF CleanupFails
  <2> QED
    BY <1>3, <2>1, Typed, OthersIInv
<1> QED
  BY <1>1, <1>2, <1>4, <1>5

LEMMA DeleteOrphansIInv == IInv /\ DeleteOrphans => IInv'
<1> SUFFICES ASSUME IInv, DeleteOrphans PROVE IInv'
  OBVIOUS
<1>1. /\ file' = WithoutFiles(Orphans) /\ sweep' = NoSweep
      /\ UNCHANGED <<img, alive, leaving, drop, going, cleanup>>
  BY DEF DeleteOrphans
<1> QED
  BY <1>1, Typed, FilesGoIInv

-----------------------------------------------------------------------------
(* Steps that add rows or files *)

LEMMA UploadIInv == \A o \in Owners, i \in Images, f \in Images : IInv /\ Upload(o, i, f) => IInv'
<1> SUFFICES ASSUME NEW o \in Owners, NEW i \in Images, NEW f \in Images,
                    IInv, Upload(o, i, f)
             PROVE  IInv'
  OBVIOUS
<1>1. /\ Written(o, f) \in Rows /\ Written(o, f).stage = "writing"
      /\ Written(o, f).owner = o /\ Written(o, f).ref = f /\ Written(o, f).source = "local"
      /\ Young(o) \in Files /\ Young(o).age = "young"
  BY RowsTyped, FilesTyped
<1>2. /\ img' = [img EXCEPT ![i] = Written(o, f)] /\ file' = [file EXCEPT ![f] = Young(o)]
      /\ UNCHANGED <<alive, leaving, drop, going, cleanup, sweep>>
  BY DEF Upload
<1>3. TypeOK'
  BY <1>1, <1>2, Typed DEF TypeOK
<1>4. /\ \A j \in Images : img'[j] = IF j = i THEN Written(o, f) ELSE img[j]
      /\ \A g \in Images : file'[g] = IF g = f THEN Young(o) ELSE file[g]
  BY <1>2, Typed
<1>5. RowOK(i)'
  BY <1>1, <1>4, NoneIsNothing DEF RowOK
<1> HIDE DEF Written, Young
<1>6. ASSUME NEW g \in Images, g # f, NEW j \in Images, img'[j].ref = g
      PROVE  img'[j] = img[j]
  BY <1>1, <1>4, <1>6
<1> QED
  BY <1>1, <1>2, <1>3, <1>4, <1>5, <1>6, MoreIInv

\* New rows of an owner, each naming a file of its own, which is young or a copy;
\* some files go.
LEMMA NewRowsIInv ==
    ASSUME IInv, NEW p \in Owners, NEW Keys \in SUBSET Unused,
           \A i \in Images :
              /\ img'[i] = IF i \in Keys THEN Written(p, i) ELSE img[i]
              /\ IF i \in Keys
                 THEN file'[i] \in Files /\ (file'[i].age = "young" \/ file'[i].copied)
                 ELSE file'[i] \in {file[i], NoFile},
           img' = [i \in Images |-> img'[i]], file' = [i \in Images |-> file'[i]],
           leaving' \in SUBSET Owners, drop' \in SUBSET Images,
           UNCHANGED <<alive, going, cleanup, sweep>>
    PROVE  IInv'
<1>1. \A i \in Images :
         /\ Written(p, i) \in Rows /\ Written(p, i).stage = "writing"
         /\ Written(p, i).owner = p /\ Written(p, i).ref = i /\ Written(p, i).source = "local"
  BY RowsTyped
<1>2. \A i \in Images : img'[i] \in Rows /\ file'[i] \in Files \cup {NoFile}
  BY <1>1, Typed
<1>3. img' \in [Images -> Rows] /\ file' \in [Images -> Files \cup {NoFile}]
  BY <1>2
<1>4. TypeOK'
  BY <1>3, Typed DEF TypeOK
<1>5. ASSUME NEW j \in Images PROVE img'[j] = img[j] \/ RowOK(j)'
  BY <1>1, NoneIsNothing DEF RowOK
<1>6. ASSUME NEW g \in Images, g \notin Keys, NEW j \in Images, img'[j].ref = g
      PROVE  img'[j] = img[j]
  BY <1>1, <1>6
<1>7. ASSUME NEW g \in Images
      PROVE  \/ file'[g].age # "old" \/ file'[g].copied
             \/ /\ file'[g] = file[g]
                /\ \A j \in Images : img'[j].ref = g => img'[j] = img[j]
  BY <1>6, FilesTyped
<1> QED
  BY <1>4, <1>5, <1>7, MoreIInv

LEMMA ApplyPackIInv ==
    \A k \in Packs, p \in Products, uniquify \in BOOLEAN :
        IInv /\ ApplyPack(k, p, uniquify) => IInv'
<1> SUFFICES ASSUME NEW k \in Packs, NEW p \in Products, NEW uniquify \in BOOLEAN,
                    IInv, ApplyPack(k, p, uniquify)
             PROVE  IInv'
  OBVIOUS
<1>1. PICK new \in RowsFor(PackPhotos(k)) :
         /\ img' = [i \in Images |-> IF i \in DOMAIN new THEN Written(p, i) ELSE img[i]]
         /\ file' = [i \in Images |->
                       IF i \notin DOMAIN new THEN file[i]
                       ELSE IF uniquify THEN Young(p)
                       ELSE [dir |-> p, age |-> file[img[new[i]].ref].age, copied |-> TRUE]]
  BY DEF ApplyPack
<1>2. /\ DOMAIN new \subseteq Unused
      /\ \A i \in DOMAIN new : new[i] \in PackPhotos(k)
  BY RowsForTyped DEF PackPhotos, RowsOf
<1>3. p \in Owners /\ DOMAIN new \in SUBSET Unused
  BY <1>2 DEF Owners
<1>4. ASSUME NEW i \in DOMAIN new, i \in Images
      PROVE  file'[i] \in Files /\ (file'[i].age = "young" \/ file'[i].copied)
  <2>1. CASE uniquify
    BY <1>1, <1>3, <1>4, <2>1, FilesTyped
  <2>2. CASE ~uniquify
    <3> DEFINE f == img[new[i]].ref
               r == [dir |-> p, age |-> file[f].age, copied |-> TRUE]
    <3>1. f \in OnDisk
      BY <1>2 DEF PackPhotos
    <3>2. file[f] \in Files
      BY <3>1, Typed DEF OnDisk
    <3>3. file'[i] = r
      BY <1>1, <1>4, <2>2
    <3> HIDE DEF f
    <3>4. file[f].age \in {"young", "old"}
      BY <3>2 DEF Files
    <3>5. r \in Files /\ r.copied
      BY <1>3, <3>4 DEF Files
    <3> QED
      BY <3>3, <3>5
  <2> QED
    BY <2>1, <2>2
<1>5. UNCHANGED <<alive, leaving, drop, going, cleanup, sweep>>
  BY DEF ApplyPack
<1>6. \A i \in Images :
         /\ img'[i] = IF i \in DOMAIN new THEN Written(p, i) ELSE img[i]
         /\ i \notin DOMAIN new => file'[i] = file[i]
  BY <1>1
<1>7. img' = [i \in Images |-> img'[i]] /\ file' = [i \in Images |-> file'[i]]
  BY <1>1
<1> QED
  BY <1>3, <1>4, <1>5, <1>6, <1>7, Typed, NewRowsIInv

LEMMA RepostIInv == \A k \in Packs, p \in Products : IInv /\ Repost(k, p) => IInv'
<1> SUFFICES ASSUME NEW k \in Packs, NEW p \in Products, IInv, Repost(k, p) PROVE IInv'
  OBVIOUS
<1>1. PICK new \in RowsFor(PackPhotos(k)) :
         /\ img' = [i \in Images |-> IF i \in DOMAIN new THEN Written(p, i) ELSE img[i]]
         /\ file' = [i \in Images |-> IF i \in DOMAIN new THEN Young(p)
                                      ELSE WithoutFiles(DirOf(p))[i]]
  BY DEF Repost
<1>2. p \in Owners /\ DOMAIN new \in SUBSET Unused
  BY RowsForTyped DEF PackPhotos, RowsOf, Owners
<1>3. Young(p) \in Files /\ Young(p).age = "young"
  BY <1>2, FilesTyped
<1>4. \A i \in Images :
         /\ img'[i] = IF i \in DOMAIN new THEN Written(p, i) ELSE img[i]
         /\ IF i \in DOMAIN new THEN file'[i] = Young(p) ELSE file'[i] \in {file[i], NoFile}
  BY <1>1, WithoutTyped DEF IInv
<1>5. img' = [i \in Images |-> img'[i]] /\ file' = [i \in Images |-> file'[i]]
  BY <1>1
<1>6. /\ UNCHANGED <<alive, going, cleanup, sweep>>
      /\ leaving' \in SUBSET Owners /\ drop' \in SUBSET Images
  BY <1>2, Typed DEF Repost, RowsOf
<1> QED
  BY <1>2, <1>3, <1>4, <1>5, <1>6, NewRowsIInv

LEMMA ImportPhotosIInv ==
    \A p \in Products, S \in SUBSET Images : IInv /\ ImportPhotos(p, S) => IInv'
<1> SUFFICES ASSUME NEW p \in Products, NEW S \in SUBSET Images, IInv, ImportPhotos(p, S)
             PROVE  IInv'
  OBVIOUS
<1> DEFINE r == Written(p, None)
<1>1. p \in Owners /\ p # None
  BY NoneIsNothing DEF Owners
<1>2. /\ r \in Rows /\ r.stage = "writing" /\ r.owner = p /\ r.ref = None
      /\ r.source = "local"
  BY <1>1, RowsTyped
<1>3. /\ img' = [i \in Images |-> IF i \in S THEN r ELSE img[i]]
      /\ file' = WithoutFiles({img[j].ref : j \in RowsOf(p)})
      /\ drop' \in SUBSET Images
      /\ UNCHANGED <<alive, leaving, going, cleanup, sweep>>
  BY Typed DEF ImportPhotos, RowsOf
<1> HIDE DEF r
<1>4. /\ file' \in [Images -> Files \cup {NoFile}]
      /\ \A g \in Images : file'[g] \in {file[g], NoFile}
  BY <1>3, WithoutTyped DEF IInv
<1>5. img' \in [Images -> Rows]
  BY <1>2, <1>3, Typed
<1>6. TypeOK'
  BY <1>3, <1>4, <1>5, Typed DEF TypeOK
<1>7. ASSUME NEW j \in Images PROVE img'[j] = img[j] \/ RowOK(j)'
  BY <1>1, <1>2, <1>3 DEF RowOK
<1>8. ASSUME NEW g \in Images, NEW j \in Images, img'[j].ref = g PROVE img'[j] = img[j]
  BY <1>2, <1>3, <1>8, NoneIsNothing
<1>9. ASSUME NEW g \in Images
      PROVE  \/ file'[g].age # "old"
             \/ /\ file'[g] = file[g]
                /\ \A j \in Images : img'[j].ref = g => img'[j] = img[j]
  BY <1>4, <1>8, FilesTyped
<1> QED
  BY <1>3, <1>6, <1>7, <1>9, MoreIInv

LEMMA CommitRowsIInv == \A o \in Owners : IInv /\ CommitRows(o) => IInv'
<1> SUFFICES ASSUME NEW o \in Owners, IInv, CommitRows(o) PROVE IInv'
  OBVIOUS
<1>1. /\ img' = [i \in Images |->
                  IF i \in Writing(o) THEN [img[i] EXCEPT !.stage = "live"]
                  ELSE WithoutRows(drop \cap RowsOf(o))[i]]
      /\ drop' \in SUBSET Images /\ leaving' \in SUBSET Owners
      /\ UNCHANGED <<file, alive, going, cleanup, sweep>>
  BY Typed DEF CommitRows
<1>2. ASSUME NEW i \in Writing(o), i \in Images
      PROVE  /\ img'[i] \in Rows /\ img'[i].stage = "live" /\ img'[i].ref = img[i].ref
             /\ RowOK(i)'
  <2>1. img[i] \in Rows /\ img'[i] = [img[i] EXCEPT !.stage = "live"]
    BY <1>1, <1>2, Typed
  <2>2. /\ img'[i] \in Rows /\ img'[i].stage = "live" /\ img'[i].ref = img[i].ref
        /\ img'[i].owner = img[i].owner /\ img'[i].source = img[i].source
    BY <2>1 DEF Rows
  <2>3. img[i].stage = "writing"
    BY <1>2 DEF Writing
  <2>4. RowOK(i)
    BY <1>2 DEF IInv
  <2>5. RowOK(i)'
    BY <2>2, <2>3, <2>4 DEF RowOK
  <2> QED
    BY <2>2, <2>5
<1>3. ASSUME NEW i \in Images, i \notin Writing(o) PROVE img'[i] \in {img[i], NoRow}
  BY <1>1, <1>3, WithoutTyped DEF IInv
<1>4. \A i \in Images : img'[i] \in Rows
  BY <1>2, <1>3, RowsTyped, Typed
<1>5. img' \in [Images -> Rows]
  BY <1>1, <1>4
<1>6. TypeOK'
  BY <1>1, <1>5, Typed DEF TypeOK
<1>7. ASSUME NEW g \in Images, NEW j \in Images, img'[j].ref = g
      PROVE  \/ img'[j] = img[j]
             \/ img'[j].stage = "live" /\ \E k \in Images : img[k].ref = g
  BY <1>2, <1>3, <1>7, RowsTyped, NoneIsNothing
<1> QED
  BY <1>1, <1>2, <1>3, <1>6, <1>7, MoreIInv

LEMMA PickPhotoIInv == \A o \in Owners, i \in Images : IInv /\ PickPhoto(o, i) => IInv'
<1> SUFFICES ASSUME NEW o \in Owners, NEW i \in Images, IInv, PickPhoto(o, i) PROVE IInv'
  OBVIOUS
<1> DEFINE r == [NoRow EXCEPT !.stage = "live", !.owner = o, !.source = "yandex_disk"]
<1>1. r \in Rows /\ r.stage = "live" /\ r.owner = o /\ r.ref = None
  BY DEF NoRow, Rows
<1>2. /\ img' = [img EXCEPT ![i] = r]
      /\ UNCHANGED <<file, alive, leaving, drop, going, cleanup, sweep>>
  BY DEF PickPhoto
<1> HIDE DEF r
<1>3. TypeOK'
  BY <1>1, <1>2, Typed DEF TypeOK
<1>4. \A j \in Images : img'[j] = IF j = i THEN r ELSE img[j]
  BY <1>2, Typed
<1>5. RowOK(i)'
  BY <1>1, <1>4, NoneIsNothing DEF RowOK
<1>6. ASSUME NEW g \in Images, NEW j \in Images, img'[j].ref = g PROVE img'[j] = img[j]
  BY <1>1, <1>4, <1>6, NoneIsNothing
<1> QED
  BY <1>2, <1>3, <1>4, <1>5, <1>6, MoreIInv

LEMMA PhotoArrivesIInv ==
    \A i \in Images, f \in Images, committed \in BOOLEAN :
        IInv /\ PhotoArrives(i, f, committed) => IInv'
<1> SUFFICES ASSUME NEW i \in Images, NEW f \in Images, NEW committed \in BOOLEAN,
                    IInv, PhotoArrives(i, f, committed)
             PROVE  IInv'
  OBVIOUS
<1>1. img[i] \in Rows /\ img[i].source = "yandex_disk" /\ RowOK(i)
  BY Typed DEF PhotoArrives, IInv
<1>2. img[i].stage = "live" /\ img[i].owner \in Owners
  BY <1>1 DEF RowOK, Rows
<1>3. Young(img[i].owner) \in Files /\ Young(img[i].owner).age = "young"
  BY <1>2, FilesTyped
<1> DEFINE r == [img[i] EXCEPT !.ref = f]
<1>4. /\ r \in Rows /\ r.stage = "live" /\ r.owner = img[i].owner /\ r.ref = f
      /\ r.source = "yandex_disk"
  BY <1>1, <1>2 DEF Rows
<1>5. /\ img' = IF committed THEN [img EXCEPT ![i] = r] ELSE img
      /\ file' = [file EXCEPT ![f] = Young(img[i].owner)]
      /\ UNCHANGED <<alive, leaving, drop, going, cleanup, sweep>>
  BY DEF PhotoArrives
<1> HIDE DEF r
<1>6. TypeOK'
  BY <1>3, <1>4, <1>5, Typed DEF TypeOK
<1>7. /\ \A j \in Images : img'[j] = img[j] \/ (j = i /\ img'[j] = r)
      /\ \A g \in Images : file'[g] = IF g = f THEN Young(img[i].owner) ELSE file[g]
  BY <1>5, Typed
<1>8. img'[i] = r => RowOK(i)'
  BY <1>1, <1>2, <1>4 DEF RowOK
<1>9. ASSUME NEW g \in Images, g # f, NEW j \in Images, img'[j].ref = g
      PROVE  img'[j] = img[j]
  BY <1>4, <1>7, <1>9
<1> QED
  BY <1>3, <1>5, <1>6, <1>7, <1>8, <1>9, MoreIInv

LEMMA CopyVariantIInv == \A p \in Products, q \in Products : IInv /\ CopyVariant(p, q) => IInv'
<1> SUFFICES ASSUME NEW p \in Products, NEW q \in Products, IInv, CopyVariant(p, q)
             PROVE  IInv'
  OBVIOUS
<1> DEFINE r(ref) == [NoRow EXCEPT !.stage = "live", !.owner = q, !.ref = ref]
<1>1. q \in Owners /\ q # None
  BY NoneIsNothing DEF Owners
<1>2. \A ref \in Images \cup {None} :
         /\ r(ref) \in Rows /\ r(ref).stage = "live" /\ r(ref).owner = q
         /\ r(ref).ref = ref
  BY <1>1 DEF NoRow, Rows
<1>3. PICK new \in RowsFor(RowsOf(p)) :
         img' = [i \in Images |-> IF i \in DOMAIN new THEN r(img[new[i]].ref) ELSE img[i]]
  BY DEF CopyVariant
<1>4. /\ UNCHANGED <<file, leaving, drop, going, cleanup, sweep>>
      /\ alive' \in SUBSET Owners
  BY <1>1, Typed DEF CopyVariant
<1> HIDE DEF r
<1>5. \A i \in DOMAIN new : new[i] \in Images /\ img[new[i]].ref \in Images \cup {None}
  BY RowsForTyped, Typed DEF RowsOf, Rows
<1>6. \A i \in Images : img'[i] \in Rows
  BY <1>2, <1>3, <1>5, Typed
<1>7. TypeOK'
  BY <1>3, <1>4, <1>6, Typed DEF TypeOK
<1>8. ASSUME NEW j \in Images PROVE img'[j] = img[j] \/ RowOK(j)'
  <2>1. CASE j \notin DOMAIN new
    BY <1>3, <2>1
  <2>2. CASE j \in DOMAIN new
    BY <1>1, <1>2, <1>3, <1>5, <2>2 DEF RowOK
  <2> QED
    BY <2>1, <2>2
<1>9. ASSUME NEW g \in Images, NEW j \in Images, img'[j].ref = g
      PROVE  \/ img'[j] = img[j]
             \/ img'[j].stage = "live" /\ \E k \in Images : img[k].ref = g
  <2>1. CASE j \notin DOMAIN new
    BY <1>3, <2>1
  <2>2. CASE j \in DOMAIN new
    BY <1>2, <1>3, <1>5, <1>9, <2>2
  <2> QED
    BY <2>1, <2>2
<1> QED
  BY <1>4, <1>7, <1>8, <1>9, MoreIInv

\* The weekly job reads the names of all files that are older than a day.
LEMMA ReadRefsIInv == IInv /\ ReadRefs => IInv'
<1> SUFFICES ASSUME IInv, ReadRefs PROVE IInv'
  OBVIOUS
<1>1. /\ UNCHANGED <<img, file, alive, leaving, drop, going, cleanup>>
      /\ sweep' = [on |-> TRUE, refs |-> Named]
  BY DEF ReadRefs
<1>2. Named \in SUBSET Images
  BY Typed DEF Named, Rows
<1>3. sweep' \in [on: BOOLEAN, refs: SUBSET Images] /\ sweep'.refs = Named
  BY <1>1, <1>2
<1>4. TypeOK'
  BY <1>1, <1>3, Typed DEF TypeOK
<1>5. ASSUME NEW f \in Images PROVE RowOK(f)' /\ AgeKnown(f)'
  <2>1. RowOK(f)'
    BY <1>1 DEF IInv, RowOK
  <2>2. AgeKnown(f)'
    BY <1>1, <1>3, NoneIsNothing DEF IInv, AgeKnown, Named
  <2> QED
    BY <2>1, <2>2
<1> QED
  BY <1>4, <1>5 DEF IInv

LEMMA DayPassesIInv == \A f \in Images : IInv /\ DayPasses(f) => IInv'
<1> SUFFICES ASSUME NEW f \in Images, IInv, DayPasses(f) PROVE IInv'
  OBVIOUS
<1> DEFINE r == [file[f] EXCEPT !.age = "old"]
<1>1. /\ file' = [file EXCEPT ![f] = r]
      /\ UNCHANGED <<img, alive, leaving, drop, going, cleanup, sweep>>
  BY DEF DayPasses
<1>2. file[f] \in Files
  BY Typed DEF DayPasses, NoFile
<1>3. r \in Files /\ r.copied = file[f].copied
  BY <1>2 DEF Files
<1> HIDE DEF r
<1>4. TypeOK'
  BY <1>1, <1>3, Typed DEF TypeOK
<1>5. \A g \in Images : file'[g] = IF g = f THEN r ELSE file[g]
  BY <1>1, Typed
<1>6. AgeKnown(f)'
  <2> SUFFICES ASSUME ~file[f].copied, NEW j \in Images, img[j].ref = f
               PROVE  img[j].stage = "live" /\ ~sweep.on
    BY <1>1, <1>3, <1>5 DEF AgeKnown
  <2>1. f \notin BeingWritten /\ ~sweep.on
    BY DEF DayPasses
  <2>2. img[j].stage \in {"free", "writing", "live"} /\ img[j].stage # "free" /\ f # None
    BY Typed, NoneIsNothing DEF IInv, RowOK, Rows
  <2> QED
    BY <2>1, <2>2 DEF BeingWritten
<1>7. ASSUME NEW g \in Images PROVE RowOK(g)' /\ AgeKnown(g)'
  <2>1. RowOK(g)'
    BY <1>1 DEF IInv, RowOK
  <2>2. AgeKnown(g)'
    BY <1>1, <1>5, <1>6 DEF IInv, AgeKnown
  <2> QED
    BY <2>1, <2>2
<1> QED
  BY <1>4, <1>7 DEF IInv

LEMMA NextIInv == IInv /\ [Next]_vars => IInv'
<1> SUFFICES ASSUME IInv, [Next]_vars PROVE IInv'
  OBVIOUS
<1>1. ASSUME NEW o \in Owners, OwnerStep(o) PROVE IInv'
  BY <1>1, UploadIInv, PickPhotoIInv, CommitRowsIInv, RollBackIInv, CreateIInv,
     DeleteDirectoryIInv, DeleteCommitsIInv, DeleteDiesIInv DEF OwnerStep
<1>2. ASSUME NEW i \in Images, ImageStep(i) PROVE IInv'
  <2>1. CASE DeselectPhoto(i)
    BY <2>1, DeletePhotoIInv DEF DeselectPhoto
  <2>2. CASE DeleteImage(i)
    BY <2>2, DeletePhotoIInv DEF DeleteImage
  <2> QED
    BY <1>2, <2>1, <2>2, PhotoArrivesIInv, DeletionCommitsIInv, DeletionFailsIInv,
       DayPassesIInv DEF ImageStep
<1>3. ASSUME NEW p \in Products, ProductStep(p) PROVE IInv'
  BY <1>3, RepostIInv, ApplyPackIInv, CopyVariantIInv, ImportPhotosIInv DEF ProductStep
<1>4. CASE JobStep
  BY <1>4, CleanupIInv, ReadRefsIInv, DeleteOrphansIInv DEF JobStep
<1>5. CASE UNCHANGED vars
  <2>1. UNCHANGED <<img, file, drop, sweep, alive, leaving, going, cleanup>>
    BY <1>5 DEF vars
  <2> QED
    BY <2>1, Typed, OthersIInv
<1> QED
  BY <1>1, <1>2, <1>3, <1>4, <1>5, DeleteModelIInv DEF Next

LEMMA Invariant == Spec => []IInv
<1>1. IInv /\ [Next]_vars => IInv'
  BY NextIInv
<1> QED
  BY InitIInv, <1>1, PTL DEF Spec

\* The variables of the module keep their types, for any number of photos and owners.
THEOREM MediaTypeCorrect == Spec => []TypeOK
<1>1. IInv => TypeOK
  BY DEF IInv
<1> QED
  BY Invariant, <1>1, PTL

-----------------------------------------------------------------------------
(* Photos in use *)

\* Where no file goes there is nothing to show.
LEMMA FileStays ==
    ASSUME NEW f \in Images, file'[f] = file[f] \/ file'[f] \in Files
    PROVE  KeepsFile(f)
BY FilesTyped DEF KeepsFile, Disappears, OnDisk

LEMMA OwnerStepKeeps ==
    ASSUME IInv, NEW o \in Owners, OwnerStep(o), NEW f \in Images
    PROVE  KeepsFile(f)
<1>1. ASSUME NEW i \in Images, NEW g \in Images, Upload(o, i, g) PROVE KeepsFile(f)
  <2>1. file' = [file EXCEPT ![g] = Young(o)] /\ Young(o) \in Files
    BY <1>1, FilesTyped DEF Upload
  <2> HIDE DEF Young
  <2> QED
    BY <2>1, Typed, FileStays
<1>2. ASSUME \/ \E i \in Images : PickPhoto(o, i)
             \/ CommitRows(o) \/ RollBack(o) \/ Create(o)
             \/ DeleteCommits(o) \/ DeleteDies(o)
      PROVE  KeepsFile(f)
  <2>1. file' = file
    BY <1>2 DEF PickPhoto, CommitRows, RollBack, Create, DeleteCommits, DeleteDies
  <2> QED
    BY <2>1, FileStays
<1>3. CASE DeleteDirectory(o)
  <2>1. file' = WithoutFiles(DirOf(o)) /\ o \in leaving' \ leaving
    BY <1>3 DEF DeleteDirectory
  <2>2. CASE f \in DirOf(o)
    BY <2>1, <2>2 DEF KeepsFile, DirectoryGoes, DirOf
  <2>3. CASE f \notin DirOf(o)
    BY <2>1, <2>3, WithoutTyped, FileStays DEF IInv
  <2> QED
    BY <2>2, <2>3
<1> QED
  BY <1>1, <1>2, <1>3 DEF OwnerStep

LEMMA DeletePhotoKeeps ==
    ASSUME IInv, NEW i \in Images, NEW F, DeletePhoto(i, F), NEW f \in Images,
           f \in F => \/ FoundByUrl(i) /\ img[i].ref = f
                      \/ img[i].owner \in Products /\ img[i].owner = file[f].dir
    PROVE  KeepsFile(f)
<1>1. file' = WithoutFiles(F) /\ i \in going' \ going
  BY DEF DeletePhoto
<1>2. CASE f \in F
  BY <1>1, <1>2 DEF KeepsFile, PhotoGoes
<1>3. CASE f \notin F
  BY <1>1, <1>3, WithoutTyped, FileStays DEF IInv
<1> QED
  BY <1>2, <1>3

LEMMA ImageStepKeeps ==
    ASSUME IInv, NEW i \in Images, ImageStep(i), NEW f \in Images
    PROVE  KeepsFile(f)
<1>1. ASSUME NEW g \in Images, NEW committed \in BOOLEAN, PhotoArrives(i, g, committed)
      PROVE  KeepsFile(f)
  <2>1. img[i].owner \in Owners
    BY <1>1, Typed DEF PhotoArrives, IInv, RowOK, Rows
  <2>2. /\ file' = [file EXCEPT ![g] = Young(img[i].owner)]
        /\ Young(img[i].owner) \in Files
    BY <1>1, <2>1, FilesTyped DEF PhotoArrives
  <2> HIDE DEF Young
  <2> QED
    BY <2>2, Typed, FileStays
<1>2. CASE DeselectPhoto(i)
  BY <1>2, DeletePhotoKeeps DEF DeselectPhoto, FoundByUrl
<1>3. CASE DeleteImage(i)
  <2>1. CASE img[i].owner \in Listings
    BY <1>3, <2>1, DeletePhotoKeeps DEF DeleteImage, FoundByUrl
  <2>2. CASE img[i].owner \notin Listings
    <3>1. PICK F \in FileOfName(i) : DeletePhoto(i, F)
      BY <1>3, <2>2 DEF DeleteImage
    <3>2. img[i].owner \in Products /\ F \subseteq DirOf(img[i].owner)
      BY <1>3, <2>2, <3>1 DEF DeleteImage, FileOfName
    <3> QED
      BY <3>1, <3>2, DeletePhotoKeeps DEF DirOf
  <2> QED
    BY <2>1, <2>2
<1>4. CASE DeletionCommits(i) \/ DeletionFails(i)
  <2>1. file' = file
    BY <1>4 DEF DeletionCommits, DeletionFails
  <2> QED
    BY <2>1, FileStays
<1>5. CASE DayPasses(i)
  <2>1. file[i] \in Files /\ file' = [file EXCEPT ![i].age = "old"]
    BY <1>5, Typed DEF DayPasses, NoFile
  <2>2. file'[f] = file[f] \/ file'[f] \in Files
    BY <2>1, Typed DEF Files
  <2> QED
    BY <2>2, FileStays
<1> QED
  BY <1>1, <1>2, <1>3, <1>4, <1>5 DEF ImageStep

LEMMA ProductStepKeeps ==
    ASSUME IInv, NEW p \in Products, ProductStep(p), NEW f \in Images
    PROVE  KeepsFile(f)
<1>1. ASSUME NEW k \in Packs, Repost(k, p) PROVE KeepsFile(f)
  <2>1. PICK new \in RowsFor(PackPhotos(k)) :
           file' = [i \in Images |-> IF i \in DOMAIN new THEN Young(p)
                                    ELSE WithoutFiles(DirOf(p))[i]]
    BY <1>1 DEF Repost
  <2>2. p \in leaving' \ leaving
    BY <1>1 DEF Repost, Busy
  <2>3. CASE f \in DOMAIN new
    BY <2>1, <2>3, FilesTyped, FileStays DEF Owners
  <2>4. CASE f \notin DOMAIN new /\ f \in DirOf(p)
    BY <2>2, <2>4 DEF KeepsFile, DirectoryGoes, DirOf
  <2>5. CASE f \notin DOMAIN new /\ f \notin DirOf(p)
    BY <2>1, <2>5, WithoutTyped, FileStays DEF IInv
  <2> QED
    BY <2>3, <2>4, <2>5
<1>2. ASSUME NEW k \in Packs, NEW uniquify \in BOOLEAN, ApplyPack(k, p, uniquify)
      PROVE  KeepsFile(f)
  <2>1. file'[f] = file[f] \/ file'[f] = Young(p) \/ file'[f].copied
    BY <1>2 DEF ApplyPack
  <2>2. ~NoFile.copied /\ Young(p) \in Files
    BY FilesTyped DEF NoFile, Owners
  <2>3. CASE file'[f].copied
    BY <2>2, <2>3 DEF KeepsFile, Disappears
  <2> QED
    BY <2>1, <2>2, <2>3, FileStays
<1>3. ASSUME NEW q \in Products, CopyVariant(p, q) PROVE KeepsFile(f)
  BY <1>3, FileStays DEF CopyVariant
<1>4. ASSUME NEW S \in SUBSET Images, ImportPhotos(p, S) PROVE KeepsFile(f)
  <2>1. /\ file' = WithoutFiles({img[j].ref : j \in RowsOf(p)})
        /\ RowsOf(p) \subseteq drop' \ drop
    BY <1>4 DEF ImportPhotos, Busy
  <2>2. CASE f \in {img[j].ref : j \in RowsOf(p)}
    BY <2>1, <2>2 DEF KeepsFile, IsReplaced
  <2>3. CASE f \notin {img[j].ref : j \in RowsOf(p)}
    BY <2>1, <2>3, WithoutTyped, FileStays DEF IInv
  <2> QED
    BY <2>2, <2>3
<1> QED
  BY <1>1, <1>2, <1>3, <1>4 DEF ProductStep

LEMMA JobStepKeeps ==
    ASSUME IInv, JobStep, NEW f \in Images
    PROVE  KeepsFile(f)
<1>1. ASSUME NEW p \in Products, CleanupRemoves(p) PROVE KeepsFile(f)
  <2>1. file' = WithoutFiles(DirOf(p)) /\ p \in cleanup.todo \ cleanup'.todo
    BY <1>1 DEF CleanupRemoves
  <2>2. CASE f \in DirOf(p)
    BY <2>1, <2>2 DEF KeepsFile, DirectoryGoes, DirOf
  <2>3. CASE f \notin DirOf(p)
    BY <2>1, <2>3, WithoutTyped, FileStays DEF IInv
  <2> QED
    BY <2>2, <2>3
<1>2. CASE \/ \E S \in SUBSET Expired : CleanupReads(S)
           \/ CleanupCommits \/ CleanupFails \/ ReadRefs
  <2>1. file' = file
    BY <1>2 DEF CleanupReads, CleanupCommits, CleanupFails, ReadRefs
  <2> QED
    BY <2>1, FileStays
<1>3. CASE DeleteOrphans
  <2>1. file' = WithoutFiles(Orphans) /\ sweep.on /\ ~sweep'.on
    BY <1>3 DEF DeleteOrphans, NoSweep
  <2>2. CASE f \notin Orphans
    BY <2>1, <2>2, WithoutTyped, FileStays DEF IInv
  <2>3. CASE f \in Orphans /\ InUse(f)
    <3>1. file[f].copied
      BY <2>1, <2>3 DEF Orphans, InUse, IInv, AgeKnown
    <3> QED
      BY <2>1, <3>1 DEF KeepsFile, SweptWithItsAge
  <2> QED
    BY <2>2, <2>3 DEF KeepsFile
<1> QED
  BY <1>1, <1>2, <1>3 DEF JobStep

LEMMA NextKeeps == IInv /\ [Next]_vars => [\A f \in Images : KeepsFile(f)]_vars
<1> SUFFICES ASSUME IInv, [Next]_vars, ~UNCHANGED vars, NEW f \in Images
             PROVE  KeepsFile(f)
  OBVIOUS
<1>1. ASSUME NEW k \in Packs, DeleteModel(k) PROVE KeepsFile(f)
  BY <1>1, FileStays DEF DeleteModel
<1> QED
  BY <1>1, OwnerStepKeeps, ImageStepKeeps, ProductStepKeeps, JobStepKeeps DEF Next

\* A photo in use loses its file only where its directory is removed, a photo of the
\* same file is replaced or deleted, or the weekly job finds a copy with the age of
\* its original; whatever fails between a file's end and its commit.
THEOREM PhotosKeepFiles == Spec => PhotosInUseKeepTheirFiles
<1>1. IInv /\ [Next]_vars => [\A f \in Images : KeepsFile(f)]_vars
  BY NextKeeps
<1> QED
  BY Invariant, <1>1, PTL DEF Spec, PhotosInUseKeepTheirFiles
=============================================================================
