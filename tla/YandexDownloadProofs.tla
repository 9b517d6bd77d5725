------------------------ MODULE YandexDownloadProofs ------------------------
(***************************************************************************)
(* Proofs about the photos of a Yandex.Disk folder, for any number of      *)
(* photos and files and for both kinds of folders: types, the file of a    *)
(* ready photo, the failures after which one is given up, the photo a run  *)
(* has in hand, and that YandexDownload implements PhotoLife.              *)
(***************************************************************************)
EXTENDS YandexDownload, TLAPS

\* The photos of a run stay pending, the one it has in hand is marked, and what it
\* wrote is still there: requests and syncs that leave the row remove only files of
\* ready photos.  Between two syncs nothing waits to be deleted.
JobsOK ==
    /\ \A i \in run.todo \cap Live : photo[i].status = "pending"
    /\ run.cur \notin run.todo
    /\ run.cur = None => ~run.written
    /\ run.cur \in Live => photo[run.cur].status = "downloading"
    /\ run.written /\ run.cur \in Live => run.cur \in file
    /\ sync.stage # "staged" => sync.drop = {}

\* Unless an operator has retried a product's photo, download_attempts counts the
\* failures since it was asked for; such a photo has used up its attempts.
AttemptsCount(i) ==
    IF kind = "product" /\ past[i].retried
    THEN /\ photo[i].attempts >= Limit
         /\ past[i].tries = IF photo[i].status = "failed" THEN 1 ELSE 0
    ELSE /\ past[i].tries = photo[i].attempts
         /\ photo[i].status = "failed" <=> photo[i].attempts = Limit
         /\ photo[i].attempts <= Limit

HasFile(i) ==
    photo[i].status = "ready" => i \in file \/ i \in sync.drop \/ past[i].torn

\* A free key has no past.
RowOK(i) == IF i \in Live THEN AttemptsCount(i) /\ HasFile(i) ELSE past[i] = NoPast

IInv == TypeOK /\ JobsOK /\ \A i \in Photos : RowOK(i)

-----------------------------------------------------------------------------
(* Rows that go and come *)

LEMMA NewPhotoTyped == /\ \A path \in Paths : NewPhoto(path) \in Rows
                       /\ NoRow \in Rows
BY DEF NewPhoto, NoRow, Rows

\* Rows are deleted.
LEMMA Deleted ==
    ASSUME TypeOK, NEW S \in SUBSET Photos
    PROVE  /\ Replaced(S, <<>>) \in [Photos -> Rows]
           /\ \A i \in Photos : Replaced(S, <<>>)[i] = IF i \in S THEN NoRow ELSE photo[i]
<1>1. DOMAIN <<>> = {}
  OBVIOUS
<1> QED
  BY <1>1, NewPhotoTyped DEF Replaced, TypeOK

\* Rows are deleted, and unused keys are given to new ones.
LEMMA Inserted ==
    ASSUME TypeOK, NEW S \in SUBSET Photos, NEW A \in SUBSET Paths, NEW new \in KeysFor(A)
    PROVE  /\ Replaced(S, new) \in [Photos -> Rows]
           /\ \A i \in Photos :
                 \/ i \in S /\ Replaced(S, new)[i] = NoRow
                 \/ i \notin S /\ i \in Unused
                      /\ \E path \in Paths : Replaced(S, new)[i] = NewPhoto(path)
                 \/ i \notin S /\ Replaced(S, new)[i] = photo[i]
<1>1. PICK New \in SUBSET Unused : new \in Bijection(New, A)
  BY DEF KeysFor
<1>2. new \in [New -> A]
  BY <1>1 DEF Bijection, Injection, Surjection
<1>3. \A i \in New : new[i] \in Paths /\ i \in Unused
  BY <1>1, <1>2
<1>4. DOMAIN new = New
  BY <1>2
<1> QED
  BY <1>3, <1>4, NewPhotoTyped DEF Replaced, TypeOK

\* What a deletion does to the past of the rows.
LEMMA Forgotten ==
    ASSUME TypeOK, NEW S \in SUBSET Photos
    PROVE  /\ Forget(S) \in [Photos -> Pasts]
           /\ \A i \in Photos : Forget(S)[i] = IF i \in S THEN NoPast ELSE past[i]
BY DEF Forget, TypeOK, NoPast, Pasts

\* A step that deletes the rows S with their files and gives unused keys to new
\* rows keeps the invariant, if it keeps the rest or ends a sync of the rows S.
LEMMA ReplaceIInv ==
    ASSUME IInv, NEW S \in SUBSET Photos,
           photo' \in [Photos -> Rows],
           \A i \in Photos :
              \/ i \in S /\ photo'[i] = NoRow
              \/ i \notin S /\ i \in Unused /\ \E path \in Paths : photo'[i] = NewPhoto(path)
              \/ i \notin S /\ photo'[i] = photo[i],
           past' = Forget(S), file' = file \ S, UNCHANGED <<kind, remote, run>>,
           bound' \in BOOLEAN, sync' \in Syncs,
           \/ sync'.drop = sync.drop /\ sync'.stage = sync.stage
           \/ sync' = IdleSync /\ sync.drop \subseteq S
    PROVE  IInv'
<1>1. past' \in [Photos -> Pasts]
      /\ \A i \in Photos : past'[i] = IF i \in S THEN NoPast ELSE past[i]
  BY Forgotten DEF IInv
<1>2. TypeOK'
  BY <1>1 DEF IInv, TypeOK
<1>3. \A path \in Paths : /\ NewPhoto(path).live /\ NewPhoto(path).status = "pending"
                          /\ NewPhoto(path).attempts = 0
  BY DEF NewPhoto
<1>4. ~NoRow.live
  BY DEF NoRow, NewPhoto
<1>5. JobsOK'
  <2>1. run.cur \in Live' => run.cur \in Live /\ run.cur \notin S /\ photo'[run.cur] = photo[run.cur]
    BY <1>4 DEF Live, Unused
  <2>2. sync'.stage # "staged" => sync'.drop = {}
    BY DEF IInv, JobsOK, IdleSync
  <2>3. \A i \in run.todo \cap Live' : photo'[i].status = "pending"
    BY <1>4 DEF Live, Unused, IInv, JobsOK
  <2> QED
    BY <2>1, <2>2, <2>3 DEF IInv, JobsOK
<1>6. ASSUME NEW i \in Photos PROVE RowOK(i)'
  <2>1. CASE i \in S /\ photo'[i] = NoRow
    BY <2>1, <1>1, <1>4 DEF RowOK, Live
  <2>2. CASE i \notin S /\ i \in Unused /\ \E path \in Paths : photo'[i] = NewPhoto(path)
    <3>1. past'[i] = NoPast
      BY <1>1, <2>2 DEF IInv, RowOK, Unused
    <3> QED
      BY <2>2, <3>1, <1>3 DEF RowOK, AttemptsCount, HasFile, NoPast, Limit
  <2>3. CASE i \notin S /\ photo'[i] = photo[i]
    <3>1. RowOK(i) /\ past'[i] = past[i] /\ (i \in Live' <=> i \in Live)
      BY <1>1, <2>3 DEF IInv, Live
    <3>2. i \in sync.drop => i \in sync'.drop
      BY <2>3
    <3>3. i \in file => i \in file'
      BY <2>3
    <3> QED
      BY <2>3, <3>1, <3>2, <3>3 DEF RowOK, AttemptsCount, HasFile
  <2> QED
    BY <2>1, <2>2, <2>3
<1> QED
  BY <1>2, <1>5, <1>6 DEF IInv

-----------------------------------------------------------------------------
(* The steps *)

LEMMA InitIInv == Init => IInv
<1> SUFFICES ASSUME Init PROVE IInv
  OBVIOUS
<1>1. Live = {}
  BY DEF Init, Live, NoRow, NewPhoto
<1>2. TypeOK
  BY NewPhotoTyped DEF Init, TypeOK, Runs, Syncs, IdleRun, IdleSync, NoPast, Pasts
<1>3. JobsOK
  BY <1>1 DEF Init, JobsOK, IdleRun, IdleSync
<1> QED
  BY <1>1, <1>2, <1>3 DEF Init, IInv, RowOK

LEMMA OperatorIInv == IInv /\ (Operator \/ FolderChanges) => IInv'
<1> SUFFICES ASSUME IInv, Operator \/ FolderChanges PROVE IInv'
  OBVIOUS
<1>0. TypeOK /\ JobsOK /\ (\A i \in Photos : RowOK(i)) /\ Linked \subseteq Photos /\ sync \in Syncs
  BY DEF IInv, TypeOK, Linked, Live
<1>1. CASE AddFolder
  BY <1>0, <1>1 DEF AddFolder, IInv, TypeOK, JobsOK, RowOK, AttemptsCount, HasFile, Live
<1>2. CASE DeleteFolder(TRUE)
  <2>1. sync' \in Syncs /\ sync'.drop = sync.drop /\ sync'.stage = sync.stage
    BY <1>0, <1>2 DEF DeleteFolder, Syncs
  <2>2. /\ photo' = Replaced(Linked, <<>>) /\ past' = Forget(Linked)
        /\ file' = file \ Linked /\ bound' = FALSE /\ UNCHANGED <<kind, remote, run>>
    BY <1>2 DEF DeleteFolder
  <2>3. /\ photo' \in [Photos -> Rows]
        /\ \A i \in Photos : photo'[i] = IF i \in Linked THEN NoRow ELSE photo[i]
    BY <1>0, <2>2, Deleted
  <2> QED
    BY <1>0, <2>1, <2>2, <2>3, ReplaceIInv
<1>3. CASE DeleteFolder(FALSE)
  <2>1. sync' \in Syncs /\ sync'.drop = sync.drop /\ sync'.stage = sync.stage
    BY <1>0, <1>3 DEF DeleteFolder, Syncs
  <2>2. \A i \in Photos : /\ photo'[i].live = photo[i].live
                          /\ photo'[i].status = photo[i].status
                          /\ photo'[i].attempts = photo[i].attempts
    BY <1>0, <1>3 DEF DeleteFolder, TypeOK, Rows
  <2>3. photo' \in [Photos -> Rows]
    <3>1. ASSUME NEW x \in Rows PROVE [x EXCEPT !.linked = FALSE] \in Rows
      BY DEF Rows
    <3>2. photo' = [i \in Photos |-> [photo[i] EXCEPT !.linked = FALSE]]
      BY <1>3 DEF DeleteFolder
    <3> QED
      BY <1>0, <3>1, <3>2 DEF TypeOK
  <2>4. Live' = Live
    BY <2>2 DEF Live
  <2>5. TypeOK'
    BY <1>0, <1>3, <2>1, <2>3 DEF DeleteFolder, TypeOK
  <2>6. JobsOK'
    BY <1>0, <1>3, <2>1, <2>2, <2>4 DEF DeleteFolder, JobsOK, Live
  <2>7. ASSUME NEW i \in Photos PROVE RowOK(i)'
    BY <1>0, <1>3, <2>1, <2>2, <2>4 DEF DeleteFolder, RowOK, AttemptsCount, HasFile
  <2> QED
    BY <2>5, <2>6, <2>7 DEF IInv
<1>4. ASSUME NEW picked \in SUBSET Paths, UpdateSelection(picked) PROVE IInv'
  <2> DEFINE dropped == {i \in Linked : photo[i].path \notin picked}
  <2>1. PICK new \in KeysFor(picked \ PathsOf(Linked)) : photo' = Replaced(dropped, new)
    BY <1>4 DEF UpdateSelection
  <2>2. dropped \subseteq Photos /\ picked \ PathsOf(Linked) \subseteq Paths
    BY <1>0
  <2>3. past' = Forget(dropped) /\ file' = file \ dropped /\ UNCHANGED <<disk, run, sync>>
    BY <1>4 DEF UpdateSelection
  <2> HIDE DEF dropped
  <2>4. bound' \in BOOLEAN /\ UNCHANGED <<kind, remote, run, sync>>
    BY <1>0, <2>3 DEF disk, TypeOK
  <2>5. /\ photo' \in [Photos -> Rows]
        /\ \A i \in Photos :
              \/ i \in dropped /\ photo'[i] = NoRow
              \/ i \notin dropped /\ i \in Unused
                   /\ \E path \in Paths : photo'[i] = NewPhoto(path)
              \/ i \notin dropped /\ photo'[i] = photo[i]
    BY <1>0, <2>1, <2>2, Inserted
  <2> QED
    BY <1>0, <2>2, <2>3, <2>4, <2>5, ReplaceIInv
<1>5. ASSUME NEW i \in Photos, DeletePhoto(i) PROVE IInv'
  <2>1. {i} \subseteq Photos
    BY <1>5
  <2> QED
    BY <1>0, <1>5, <2>1, Deleted, ReplaceIInv DEF DeletePhoto, disk, TypeOK
<1>6. ASSUME NEW i \in Photos, RetryDownload(i) \/ RetryPackDownload(i) PROVE IInv'
  <2>1. PICK attempts \in {photo[i].attempts, 0} :
           /\ Retried(i, attempts) /\ (kind = "pack" <=> attempts = 0 /\ kind = "pack")
           /\ kind = "product" => attempts = photo[i].attempts
    BY <1>0, <1>6 DEF RetryDownload, RetryPackDownload, TypeOK
  <2>2. i \in Live /\ photo[i] \in Rows /\ past[i] \in Pasts /\ photo[i].status = "failed"
    BY <1>0, <2>1 DEF Retried, TypeOK
  <2>3. attempts \in Nat
    BY <2>1, <2>2 DEF Rows
  <2>4. /\ photo' = [photo EXCEPT ![i] = [photo[i] EXCEPT !.status = "pending", !.attempts = attempts]]
        /\ past' = [past EXCEPT ![i] = [past[i] EXCEPT !.tries = 0, !.retried = TRUE]]
        /\ UNCHANGED <<disk, file, run, sync>>
    BY <1>0, <2>1 DEF Retried, TypeOK
  <2>5. /\ photo'[i] \in Rows /\ photo'[i].status = "pending"
        /\ photo'[i].attempts = attempts /\ photo'[i].live
    BY <1>0, <2>2, <2>3, <2>4 DEF TypeOK, Rows, Live
  <2>6. past'[i] \in Pasts /\ past'[i].tries = 0 /\ past'[i].retried
    BY <1>0, <2>2, <2>4 DEF TypeOK, Pasts
  <2>7. \A j \in Photos \ {i} : photo'[j] = photo[j] /\ past'[j] = past[j]
    BY <1>0, <2>4 DEF TypeOK
  <2>8. TypeOK'
    BY <1>0, <2>4, <2>5, <2>6, <2>7 DEF TypeOK, disk
  <2>9. Live' = Live
    BY <2>2, <2>5, <2>7 DEF Live
  <2>10. JobsOK'
    BY <1>0, <2>2, <2>4, <2>7, <2>9 DEF JobsOK, Live
  <2>11. ASSUME NEW j \in Photos PROVE RowOK(j)'
    <3>1. CASE j = i
      <4>1. kind = "product" => photo[i].attempts >= Limit
        BY <1>0, <2>2 DEF RowOK, AttemptsCount, Limit
      <4> QED
        BY <1>0, <2>1, <2>2, <2>4, <2>5, <2>6, <2>9, <3>1, <4>1
           DEF RowOK, AttemptsCount, HasFile, disk, Limit, TypeOK
    <3>2. CASE j # i
      BY <1>0, <2>4, <2>7, <2>9, <3>2 DEF RowOK, AttemptsCount, HasFile, disk
    <3> QED
      BY <3>1, <3>2
  <2> QED
    BY <2>8, <2>10, <2>11 DEF IInv
<1>7. CASE FolderChanges
  <2>1. remote' \in SUBSET Paths
    BY <1>0, <1>7 DEF FolderChanges, TypeOK
  <2> QED
    BY <1>0, <1>7, <2>1 DEF FolderChanges, IInv, TypeOK, JobsOK, RowOK, AttemptsCount, HasFile, Live
<1>8. ASSUME NEW S \in SUBSET Live, Tears(S) PROVE IInv'
  <2>1. UNCHANGED <<kind, remote, bound, photo, run, sync>> /\ file' = file \ FilesOf(S)
    BY <1>8 DEF Tears, disk
  <2>2. \A i \in Photos : past'[i] = IF i \in FilesOf(S)
                                     THEN [past[i] EXCEPT !.torn = TRUE] ELSE past[i]
    BY <1>8 DEF Tears
  <2>3. past' \in [Photos -> Pasts]
    <3>1. \A x \in Pasts : [x EXCEPT !.torn = TRUE] \in Pasts
      BY DEF Pasts
    <3> QED
      BY <1>0, <1>8, <3>1 DEF Tears, TypeOK
  <2>4. \A i \in Photos : /\ past'[i].tries = past[i].tries
                          /\ past'[i].retried = past[i].retried
                          /\ past[i].torn => past'[i].torn
                          /\ i \in FilesOf(S) => past'[i].torn
    BY <1>0, <2>2 DEF TypeOK, Pasts
  <2>5. TypeOK' /\ Live' = Live
    BY <1>0, <2>1, <2>3 DEF TypeOK, Live
  <2>6. JobsOK'
    BY <1>0, <2>1, <2>5 DEF JobsOK, FilesOf
  <2>7. ASSUME NEW i \in Photos PROVE RowOK(i)'
    <3>1. CASE i \in Live
      BY <1>0, <2>1, <2>4, <2>5, <3>1 DEF RowOK, AttemptsCount, HasFile
    <3>2. CASE i \notin Live
      BY <1>0, <2>2, <2>5, <3>2 DEF RowOK, FilesOf
    <3> QED
      BY <3>1, <3>2
  <2> QED
    BY <2>5, <2>6, <2>7 DEF IInv
<1>9. CASE RequestDies
  BY <1>8, <1>9 DEF RequestDies, Linked
<1> QED
  BY <1>1, <1>2, <1>3, <1>4, <1>5, <1>6, <1>7, <1>9 DEF Operator

\* A step that changes one row, and the rest of the state only so far as no other
\* row depends on it.
LEMMA OneRow ==
    ASSUME IInv, TypeOK', JobsOK', UNCHANGED kind, NEW i \in Photos, RowOK(i)',
           \A j \in Photos \ {i} : /\ photo'[j] = photo[j]
                                   /\ past'[j].tries = past[j].tries
                                   /\ past'[j].retried = past[j].retried
                                   /\ past'[j] = past[j] \/ (j \in Live /\ past'[j].torn)
                                   /\ HasFile(j) => HasFile(j)'
    PROVE  IInv'
<1>1. ASSUME NEW j \in Photos \ {i} PROVE RowOK(j)'
  <2>1. j \in Live' <=> j \in Live
    BY DEF Live
  <2>2. RowOK(j)
    BY DEF IInv
  <2> QED
    BY <2>1, <2>2 DEF RowOK, AttemptsCount
<1> QED
  BY <1>1 DEF IInv

LEMMA DownloadIInv == IInv /\ DownloadJob => IInv'
<1> SUFFICES ASSUME IInv, DownloadJob PROVE IInv'
  OBVIOUS
<1>0. TypeOK /\ JobsOK /\ (\A i \in Photos : RowOK(i)) /\ run \in Runs
  BY DEF IInv, TypeOK
<1>1. CASE StartRun
  <2>1. /\ run' \in Runs /\ run'.cur = None /\ ~run'.written
        /\ \A i \in run'.todo : photo[i].status = "pending" /\ i \in Photos
    BY <1>1 DEF StartRun, IdleRun, Runs, Pending, Live
  <2>2. UNCHANGED <<kind, remote, bound, photo, file, sync, past>> /\ None \notin Photos
    BY <1>1, NoneIsNoPhoto DEF StartRun, disk
  <2> QED
    BY <1>0, <2>1, <2>2 DEF IInv, TypeOK, JobsOK, RowOK, AttemptsCount, HasFile, Live
<1>2. ASSUME NEW i \in Photos, MarkDownloading(i) PROVE IInv'
  <2>1. /\ run' \in Runs /\ run'.cur = i /\ ~run'.written /\ run'.todo = run.todo \ {i}
        /\ UNCHANGED <<kind, remote, bound, file, sync, past>>
    BY <1>0, <1>2 DEF MarkDownloading, Runs, disk, JobsOK
  <2>2. /\ photo'[i].status = "downloading" /\ photo'[i].live = photo[i].live
        /\ photo'[i].attempts = photo[i].attempts /\ photo'[i] \in Rows
        /\ photo' \in [Photos -> Rows]
        /\ \A j \in Photos \ {i} : photo'[j] = photo[j]
    BY <1>0, <1>2 DEF MarkDownloading, TypeOK, Rows
  <2>3. TypeOK'
    BY <1>0, <2>1, <2>2 DEF TypeOK
  <2>4. JobsOK'
    BY <1>0, <2>1, <2>2 DEF JobsOK, Live
  <2>5. i \in Live /\ i \in Live' /\ photo[i].status = "pending"
    BY <1>0, <1>2, <2>2 DEF MarkDownloading, JobsOK, Live
  <2>6. RowOK(i)'
    BY <1>0, <2>1, <2>2, <2>5 DEF RowOK, AttemptsCount, HasFile
  <2> QED
    BY <2>1, <2>2, <2>3, <2>4, <2>6, OneRow DEF HasFile
<1>3. CASE WriteFile
  <2>1. /\ run' \in Runs /\ run'.cur = run.cur /\ run'.todo = run.todo
        /\ UNCHANGED <<kind, remote, bound, photo, sync, past>>
        /\ file' = file \cup {run.cur} /\ run.cur \in Photos /\ run.cur # None
    BY <1>0, <1>3 DEF WriteFile, Runs, disk
  <2>2. TypeOK' /\ JobsOK'
    BY <1>0, <2>1 DEF TypeOK, JobsOK, Live
  <2> QED
    BY <1>0, <2>1, <2>2 DEF IInv, RowOK, AttemptsCount, HasFile, Live
<1>4. CASE CommitReady
  <2>0. PICK i \in Photos : i = run.cur
    BY <1>4 DEF CommitReady, Live
  <2>1. /\ run' \in Runs /\ run'.cur = None /\ ~run'.written /\ run'.todo = run.todo
        /\ UNCHANGED <<kind, remote, bound, file, sync, past>> /\ i \in Live /\ i \in file
        /\ photo' = [photo EXCEPT ![i].status = "ready"]
    BY <1>0, <2>0, <1>4 DEF CommitReady, Runs, disk, JobsOK, Live
  <2>2. i \notin run.todo /\ photo[i].status = "downloading" /\ None \notin Photos
    BY <1>0, <2>0, <2>1, NoneIsNoPhoto DEF JobsOK
  <2>3. /\ photo'[i].status = "ready" /\ photo'[i].live = photo[i].live
        /\ photo'[i].attempts = photo[i].attempts /\ photo' \in [Photos -> Rows]
        /\ \A j \in Photos \ {i} : photo'[j] = photo[j]
    BY <1>0, <2>1 DEF TypeOK, Rows
  <2>4. TypeOK'
    BY <1>0, <2>1, <2>3 DEF TypeOK
  <2>5. JobsOK'
    BY <1>0, <2>1, <2>2, <2>3 DEF JobsOK, Live, Runs, TypeOK
  <2>6. RowOK(i)'
    BY <1>0, <2>1, <2>2, <2>3 DEF RowOK, AttemptsCount, HasFile, Live
  <2> QED
    BY <2>1, <2>3, <2>4, <2>5, <2>6, OneRow DEF HasFile
<1>5. CASE DownloadFails
  <2>0. PICK i \in Photos : i = run.cur
    BY <1>5 DEF DownloadFails, Live
  <2> DEFINE st == StatusAfterFailure(i)
  <2>1. /\ run' \in Runs /\ run'.cur = None /\ run'.written = run.written /\ ~run.written
        /\ run'.todo = run.todo /\ UNCHANGED <<kind, remote, bound, file, sync>>
        /\ i \in Live
        /\ photo' = [photo EXCEPT ![i].status = st, ![i].attempts = @ + 1]
        /\ past' = [past EXCEPT ![i].tries = @ + 1]
    BY <1>0, <2>0, <1>5 DEF DownloadFails, Runs, disk, Live
  <2>2. i \notin run.todo /\ photo[i].status = "downloading" /\ None \notin Photos
    BY <1>0, <2>0, <2>1, NoneIsNoPhoto DEF JobsOK
  <2>3. st = IF photo[i].attempts + 1 >= Limit THEN "failed" ELSE "pending"
    BY DEF StatusAfterFailure
  <2> HIDE DEF st
  <2>4. photo[i] \in Rows /\ past[i] \in Pasts /\ photo[i].attempts \in Nat
        /\ past[i].tries \in Nat
    BY <1>0, <2>1 DEF TypeOK, Rows, Pasts
  <2>5. /\ photo'[i] = [photo[i] EXCEPT !.status = st, !.attempts = @ + 1]
        /\ past'[i] = [past[i] EXCEPT !.tries = @ + 1]
        /\ \A j \in Photos \ {i} : photo'[j] = photo[j] /\ past'[j] = past[j]
    BY <1>0, <2>1 DEF TypeOK
  <2>6. /\ photo'[i] \in Rows /\ photo'[i].status = st /\ photo'[i].live = photo[i].live
        /\ photo'[i].attempts = photo[i].attempts + 1
    <3>1. st \in {"pending", "downloading", "ready", "failed"}
      BY <2>3
    <3>2. photo[i].attempts + 1 \in Nat
      BY <2>4
    <3>3. photo'[i] = [photo[i] EXCEPT !.status = st, !.attempts = photo[i].attempts + 1]
      BY <2>4, <2>5 DEF Rows
    <3> QED
      BY <2>4, <3>1, <3>2, <3>3 DEF Rows
  <2>7. /\ past'[i] \in Pasts /\ past'[i].tries = past[i].tries + 1
        /\ past'[i].retried = past[i].retried
    BY <2>4, <2>5 DEF Pasts
  <2>8. TypeOK'
    BY <1>0, <2>1, <2>5, <2>6, <2>7 DEF TypeOK
  <2>9. JobsOK'
    BY <1>0, <2>1, <2>2, <2>5, <2>6 DEF JobsOK, Live, Runs, TypeOK
  <2>10. RowOK(i)'
    BY <1>0, <2>1, <2>2, <2>3, <2>4, <2>6, <2>7 DEF RowOK, AttemptsCount, HasFile, Live, Limit
  <2> QED
    BY <2>1, <2>5, <2>8, <2>9, <2>10, OneRow DEF HasFile
<1>6. CASE RunDies
  <2>1. /\ run' = IdleRun /\ UNCHANGED <<kind, remote, bound, photo, file, sync>>
        /\ past' = [i \in Photos |-> IF i \in {run.cur} \cap Live
                                     THEN [past[i] EXCEPT !.lost = TRUE] ELSE past[i]]
    BY <1>6 DEF RunDies, disk
  <2>2. ASSUME NEW i \in Photos
        PROVE  /\ past'[i] \in Pasts /\ past'[i].tries = past[i].tries
               /\ past'[i].retried = past[i].retried /\ past'[i].torn = past[i].torn
               /\ i \notin Live => past'[i] = past[i]
    BY <1>0, <2>1 DEF TypeOK, Pasts
  <2>3. TypeOK'
    BY <1>0, <2>1, <2>2 DEF TypeOK, IdleRun, Runs
  <2>4. JobsOK'
    BY <1>0, <2>1, NoneIsNoPhoto DEF JobsOK, IdleRun, Live
  <2>5. ASSUME NEW i \in Photos PROVE RowOK(i)'
    BY <1>0, <2>1, <2>2 DEF RowOK, AttemptsCount, HasFile, Live
  <2> QED
    BY <2>3, <2>4, <2>5 DEF IInv
<1> QED
  BY <1>1, <1>2, <1>3, <1>4, <1>5, <1>6 DEF DownloadJob

LEMMA SyncIInv == IInv /\ SyncJob => IInv'
<1> SUFFICES ASSUME IInv, SyncJob PROVE IInv'
  OBVIOUS
<1>0. TypeOK /\ JobsOK /\ (\A i \in Photos : RowOK(i)) /\ sync \in Syncs
  BY DEF IInv, TypeOK
<1>1. CASE ListFolder
  <2>1. sync' \in Syncs /\ sync'.drop = {}
    BY <1>0, <1>1 DEF ListFolder, Syncs, IdleSync, TypeOK
  <2>2. sync.drop = {} /\ UNCHANGED <<kind, remote, bound, photo, file, run, past>>
    BY <1>0, <1>1 DEF ListFolder, JobsOK, disk
  <2> QED
    BY <1>0, <2>1, <2>2 DEF IInv, TypeOK, JobsOK, RowOK, AttemptsCount, HasFile, Live
<1>2. CASE ApplyListing
  <2> DEFINE vanished == {i \in Linked : photo[i].path \notin sync.seen}
  <2>1. /\ sync'.drop = vanished /\ sync'.stage = "staged" /\ sync' \in Syncs
        /\ file' = file \ FilesOf(vanished) /\ vanished \subseteq Photos
        /\ UNCHANGED <<kind, remote, bound, photo, run, past>>
    BY <1>0, <1>2 DEF ApplyListing, Syncs, Linked, Live, disk
  <2>2. sync.drop = {}
    BY <1>0, <1>2 DEF ApplyListing, JobsOK
  <2>3. \A i \in Photos : i \in file \ file' => i \in vanished /\ photo[i].status = "ready"
    BY <2>1 DEF FilesOf
  <2> HIDE DEF vanished
  <2>4. TypeOK'
    BY <1>0, <2>1 DEF TypeOK
  <2>5. JobsOK'
    BY <1>0, <2>1, <2>3 DEF JobsOK, Live
  <2>6. ASSUME NEW i \in Photos PROVE RowOK(i)'
    BY <1>0, <2>1, <2>2, <2>3 DEF RowOK, AttemptsCount, HasFile, Live
  <2> QED
    BY <2>4, <2>5, <2>6 DEF IInv
<1>3. CASE CommitSync
  <2>1. PICK new \in KeysFor(sync.add) : photo' = Replaced(sync.drop, new)
    BY <1>3 DEF CommitSync
  <2>2. sync.drop \subseteq Photos /\ sync.add \subseteq Paths
    BY <1>0 DEF Syncs
  <2>3. /\ past' = Forget(sync.drop) /\ file' = file \ sync.drop /\ sync' = IdleSync
        /\ UNCHANGED <<kind, remote, bound, run>>
    BY <1>3 DEF CommitSync, disk
  <2>4. bound' \in BOOLEAN /\ sync' \in Syncs
    BY <1>0, <2>3 DEF TypeOK, IdleSync, Syncs
  <2>5. /\ photo' \in [Photos -> Rows]
        /\ \A i \in Photos :
              \/ i \in sync.drop /\ photo'[i] = NoRow
              \/ i \notin sync.drop /\ i \in Unused
                   /\ \E path \in Paths : photo'[i] = NewPhoto(path)
              \/ i \notin sync.drop /\ photo'[i] = photo[i]
    BY <1>0, <2>1, <2>2, Inserted
  <2> QED
    BY <1>0, <2>2, <2>3, <2>4, <2>5, ReplaceIInv
<1>4. CASE SyncDies
  <2>1. /\ sync' = IdleSync /\ UNCHANGED <<kind, remote, bound, photo, file, run>>
        /\ past' = [i \in Photos |-> IF i \in FilesOf(sync.drop) \cap Live
                                     THEN [past[i] EXCEPT !.torn = TRUE] ELSE past[i]]
    BY <1>4 DEF SyncDies, disk
  <2>2. ASSUME NEW i \in Photos
        PROVE  /\ past'[i] \in Pasts /\ past'[i].tries = past[i].tries
               /\ past'[i].retried = past[i].retried
               /\ past[i].torn => past'[i].torn
               /\ i \in sync.drop \cap Live /\ photo[i].status = "ready" => past'[i].torn
               /\ i \notin Live => past'[i] = past[i]
    BY <1>0, <2>1 DEF TypeOK, Pasts, FilesOf
  <2>3. TypeOK'
    BY <1>0, <2>1, <2>2 DEF TypeOK, IdleSync, Syncs
  <2>4. JobsOK'
    BY <1>0, <2>1 DEF JobsOK, IdleSync, Live
  <2>5. ASSUME NEW i \in Photos PROVE RowOK(i)'
    BY <1>0, <2>1, <2>2 DEF RowOK, AttemptsCount, HasFile, Live
  <2> QED
    BY <2>3, <2>4, <2>5 DEF IInv
<1> QED
  BY <1>1, <1>2, <1>3, <1>4 DEF SyncJob

LEMMA NextIInv == IInv /\ [Next]_vars => IInv'
<1>1. ASSUME IInv, UNCHANGED vars PROVE IInv'
  BY <1>1 DEF vars, disk, IInv, TypeOK, JobsOK, RowOK, AttemptsCount, HasFile, Live
<1> QED
  BY <1>1, OperatorIInv, DownloadIInv, SyncIInv DEF Next

-----------------------------------------------------------------------------
(* The life of a photo *)

\* A photo in hand is downloading, and one downloading is in hand or lost.
InHand(i) ==
    i \in Live => /\ photo[i].status = "downloading" <=> run.cur = i \/ past[i].lost
                  /\ run.cur = i => ~past[i].lost

HandInv == \A i \in Photos : InHand(i)

LifeStep == HandInv' /\ [Lives!Next]_life

\* Of one photo: its life depends on its row, and on its past when that says lost.
LEMMA LifeKept ==
    ASSUME NEW i \in Photos, photo'[i].live = photo[i].live,
           photo'[i].status = photo[i].status, past'[i].lost = past[i].lost
    PROVE  /\ life'[i] = life[i]
           /\ run'.cur = run.cur /\ InHand(i) => InHand(i)'
BY DEF life, Live, InHand

LEMMA LifeChanges ==
    ASSUME NEW i \in Photos, \A j \in Photos \ {i} : life'[j] = life[j]
    PROVE  life' = [life EXCEPT ![i] = life'[i]]
<1>1. life = [j \in Photos |-> life[j]] /\ life' = [j \in Photos |-> life'[j]]
  BY DEF life
<1> QED
  BY <1>1

\* Steps after which every photo's row says the same.
LEMMA NobodyMoves ==
    ASSUME HandInv, run'.cur = run.cur,
           \A i \in Photos : /\ photo'[i].live = photo[i].live
                             /\ photo'[i].status = photo[i].status
                             /\ past'[i].lost = past[i].lost
    PROVE  LifeStep
<1>1. \A i \in Photos : life'[i] = life[i] /\ InHand(i)'
  BY LifeKept DEF HandInv
<1>2. life' = life
  BY <1>1 DEF life
<1> QED
  BY <1>1, <1>2 DEF LifeStep, HandInv

\* Rows go and come.
LEMMA RowsReplaced ==
    ASSUME IInv, HandInv, NEW S \in SUBSET Photos,
           \A i \in Photos :
              \/ i \in S /\ photo'[i] = NoRow
              \/ i \notin S /\ i \in Unused /\ \E path \in Paths : photo'[i] = NewPhoto(path)
              \/ i \notin S /\ photo'[i] = photo[i],
           past' = Forget(S), run' = run
    PROVE  LifeStep
<1> DEFINE New == {i \in Photos \ S : i \in Unused /\ \E path \in Paths : photo'[i] = NewPhoto(path)}
<1>1. \A path \in Paths : NewPhoto(path).live /\ NewPhoto(path).status = "pending"
  BY DEF NewPhoto
<1>2. ~NoRow.live
  BY DEF NoRow, NewPhoto
<1>3. \A i \in Photos : past'[i] = IF i \in S THEN NoPast ELSE past[i]
  BY Forgotten DEF IInv
<1>4. ASSUME NEW i \in Photos
      PROVE  /\ life'[i] = IF i \in S THEN "none" ELSE IF i \in New THEN "asked" ELSE life[i]
             /\ InHand(i)'
             /\ i \in New => life[i] = "none"
  <2>1. CASE i \in S
    <3>1. i \notin Live'
      BY <1>2, <2>1 DEF Live
    <3> QED
      BY <2>1, <3>1 DEF life, InHand
  <2>2. CASE i \in New
    <3>1. i \notin Live /\ i # run.cur /\ past'[i] = NoPast
      BY <1>3, <2>2 DEF Unused, IInv, RowOK
    <3>2. i \in Live' /\ photo'[i].status = "pending"
      BY <1>1, <2>2 DEF Live
    <3> QED
      BY <2>2, <3>1, <3>2 DEF life, InHand, NoPast
  <2>3. CASE i \notin S /\ i \notin New
    BY <1>3, <2>3, LifeKept DEF HandInv
  <2> QED
    BY <2>1, <2>2, <2>3
<1>5. life' = [i \in Photos |-> IF i \in S THEN "none" ELSE IF i \in New THEN "asked" ELSE life[i]]
  BY <1>4 DEF life
<1>6. \A i \in New : life[i] = "none"
  BY <1>4
<1>7. New \in SUBSET Photos
  OBVIOUS
<1> HIDE DEF New
<1>8. Lives!Replace(S, New)
  BY <1>5, <1>6 DEF Lives!Replace
<1> QED
  BY <1>4, <1>7, <1>8 DEF LifeStep, HandInv, Lives!Next

\* One photo moves on.
LEMMA OneMoves ==
    ASSUME HandInv, NEW i \in Photos, NEW from, NEW to, life[i] = from, life'[i] = to,
           InHand(i)',
           \A j \in Photos \ {i} : /\ photo'[j] = photo[j] /\ past'[j] = past[j]
                                   /\ run.cur # j /\ run'.cur # j
    PROVE  HandInv' /\ Lives!Moves(i, from, to)
<1>1. \A j \in Photos \ {i} : life'[j] = life[j] /\ InHand(j)'
  BY DEF life, Live, InHand, HandInv
<1>2. life' = [life EXCEPT ![i] = to]
  BY <1>1, LifeChanges
<1> QED
  BY <1>1, <1>2 DEF HandInv, Lives!Moves

-----------------------------------------------------------------------------
LEMMA InitLife == Init => HandInv /\ Lives!Init
<1> SUFFICES ASSUME Init PROVE HandInv /\ Lives!Init
  OBVIOUS
<1>1. Live = {}
  BY DEF Init, Live, NoRow, NewPhoto
<1> QED
  BY <1>1 DEF HandInv, InHand, Lives!Init, life

LEMMA OperatorLife == IInv /\ HandInv /\ (Operator \/ FolderChanges) => LifeStep
<1> SUFFICES ASSUME IInv, HandInv, Operator \/ FolderChanges PROVE LifeStep
  OBVIOUS
<1>0. TypeOK /\ Linked \subseteq Photos
  BY DEF IInv, TypeOK, Linked, Live
<1>1. CASE AddFolder \/ FolderChanges
  BY <1>1, NobodyMoves DEF AddFolder, FolderChanges
<1>2. CASE DeleteFolder(TRUE)
  <2>1. photo' = Replaced(Linked, <<>>) /\ past' = Forget(Linked) /\ run' = run
    BY <1>2 DEF DeleteFolder
  <2>2. \A i \in Photos : photo'[i] = IF i \in Linked THEN NoRow ELSE photo[i]
    BY <1>0, <2>1, Deleted
  <2> QED
    BY <1>0, <2>1, <2>2, RowsReplaced
<1>3. CASE DeleteFolder(FALSE)
  <2>1. \A i \in Photos : photo'[i].live = photo[i].live /\ photo'[i].status = photo[i].status
    BY <1>0, <1>3 DEF DeleteFolder, TypeOK, Rows
  <2> QED
    BY <1>3, <2>1, NobodyMoves DEF DeleteFolder
<1>4. ASSUME NEW picked \in SUBSET Paths, UpdateSelection(picked) PROVE LifeStep
  <2> DEFINE dropped == {i \in Linked : photo[i].path \notin picked}
  <2>1. PICK new \in KeysFor(picked \ PathsOf(Linked)) : photo' = Replaced(dropped, new)
    BY <1>4 DEF UpdateSelection
  <2>2. dropped \subseteq Photos /\ picked \ PathsOf(Linked) \subseteq Paths
    BY <1>0
  <2>3. past' = Forget(dropped) /\ run' = run
    BY <1>4 DEF UpdateSelection
  <2> HIDE DEF dropped
  <2>4. \A i \in Photos :
           \/ i \in dropped /\ photo'[i] = NoRow
           \/ i \notin dropped /\ i \in Unused /\ \E path \in Paths : photo'[i] = NewPhoto(path)
           \/ i \notin dropped /\ photo'[i] = photo[i]
    BY <1>0, <2>1, <2>2, Inserted
  <2> QED
    BY <2>2, <2>3, <2>4, RowsReplaced
<1>5. ASSUME NEW i \in Photos, DeletePhoto(i) PROVE LifeStep
  <2>1. photo' = Replaced({i}, <<>>) /\ past' = Forget({i}) /\ run' = run
    BY <1>5 DEF DeletePhoto
  <2>2. \A j \in Photos : photo'[j] = IF j \in {i} THEN NoRow ELSE photo[j]
    BY <1>0, <2>1, Deleted
  <2> QED
    BY <2>1, <2>2, RowsReplaced
<1>6. ASSUME NEW i \in Photos, RetryDownload(i) \/ RetryPackDownload(i) PROVE LifeStep
  <2>1. PICK attempts : Retried(i, attempts)
    BY <1>6 DEF RetryDownload, RetryPackDownload
  <2>2. i \in Live /\ photo[i].status = "failed" /\ run' = run
    BY <2>1 DEF Retried
  <2>3. /\ photo'[i].live = photo[i].live /\ photo'[i].status = "pending"
        /\ past'[i].lost = past[i].lost
        /\ \A j \in Photos \ {i} : photo'[j] = photo[j] /\ past'[j] = past[j]
    BY <1>0, <2>1 DEF Retried, TypeOK, Rows, Pasts
  <2>4. run.cur # i /\ ~past[i].lost
    BY <2>2 DEF HandInv, InHand
  <2>5. \A j \in Photos \ {i} : life'[j] = life[j] /\ InHand(j)'
    BY <2>2, <2>3, LifeKept DEF HandInv
  <2>6. life[i] = "failed" /\ life'[i] = "asked" /\ InHand(i)'
    BY <2>2, <2>3, <2>4 DEF life, Live, InHand
  <2>7. life' = [life EXCEPT ![i] = "asked"]
    BY <2>5, <2>6, LifeChanges
  <2> QED
    BY <2>5, <2>6, <2>7 DEF LifeStep, HandInv, Lives!Next, Lives!Retry, Lives!Moves
<1>7. ASSUME NEW S, Tears(S) PROVE LifeStep
  <2>1. run' = run /\ photo' = photo /\ \A i \in Photos : past'[i].lost = past[i].lost
    BY <1>0, <1>7 DEF Tears, TypeOK, Pasts
  <2> QED
    BY <2>1, NobodyMoves
<1>8. CASE RequestDies
  BY <1>7, <1>8 DEF RequestDies
<1> QED
  BY <1>1, <1>2, <1>3, <1>4, <1>5, <1>6, <1>8 DEF Operator

LEMMA DownloadLife == IInv /\ HandInv /\ DownloadJob => LifeStep
<1> SUFFICES ASSUME IInv, HandInv, DownloadJob PROVE LifeStep
  OBVIOUS
<1>0. TypeOK /\ JobsOK /\ run \in Runs /\ None \notin Photos
  BY NoneIsNoPhoto DEF IInv, TypeOK
<1>1. CASE StartRun
  <2>1. run'.cur = run.cur /\ photo' = photo /\ past' = past
    BY <1>1 DEF StartRun, IdleRun
  <2> QED
    BY <2>1, NobodyMoves
<1>2. ASSUME NEW i \in Photos, MarkDownloading(i) PROVE LifeStep
  <2>1. /\ run.cur = None /\ run'.cur = i /\ i \in Live /\ i \in run.todo /\ past' = past
        /\ photo'[i].status = "downloading" /\ photo'[i].live = photo[i].live
        /\ \A j \in Photos \ {i} : photo'[j] = photo[j]
    BY <1>0, <1>2 DEF MarkDownloading, Runs, TypeOK, Rows
  <2>2. photo[i].status = "pending" /\ ~past[i].lost
    BY <1>0, <2>1 DEF JobsOK, HandInv, InHand
  <2>3. life[i] = "asked" /\ life'[i] = "loading" /\ InHand(i)'
    BY <2>1, <2>2 DEF life, Live, InHand
  <2>4. ASSUME NEW j \in Photos PROVE life[j] # "loading"
    <3>1. j \in Live => (photo[j].status = "downloading" <=> past[j].lost)
      BY <1>0, <2>1 DEF HandInv, InHand
    <3>2. photo[j] \in Rows
      BY <1>0 DEF TypeOK
    <3> QED
      BY <3>1, <3>2 DEF life, Rows
  <2>5. HandInv' /\ Lives!Moves(i, "asked", "loading")
    BY <1>0, <2>1, <2>3, OneMoves
  <2> QED
    BY <2>4, <2>5 DEF LifeStep, Lives!Next, Lives!Fetch
<1>3. CASE WriteFile
  <2>1. run'.cur = run.cur /\ photo' = photo /\ past' = past
    BY <1>0, <1>3 DEF WriteFile, Runs
  <2> QED
    BY <2>1, NobodyMoves
<1>4. ASSUME CommitReady \/ DownloadFails PROVE LifeStep
  <2>1. PICK i \in Photos : i = run.cur /\ i \in Live
    BY <1>4 DEF CommitReady, DownloadFails, Live
  <2>2. /\ run'.cur = None /\ photo'[i].live = photo[i].live
        /\ photo'[i].status \in {"ready", "failed", "pending"} /\ past'[i].lost = past[i].lost
        /\ \A j \in Photos \ {i} : photo'[j] = photo[j] /\ past'[j] = past[j]
    <3>1. CASE CommitReady
      BY <1>0, <2>1, <3>1 DEF CommitReady, Runs, TypeOK, Rows
    <3>2. CASE DownloadFails
      <4>1. StatusAfterFailure(i) \in {"failed", "pending"}
        BY DEF StatusAfterFailure
      <4> HIDE DEF StatusAfterFailure
      <4>2. photo'[i].live = photo[i].live /\ photo'[i].status = StatusAfterFailure(i)
        BY <1>0, <2>1, <3>2 DEF DownloadFails, TypeOK, Rows
      <4>3. past'[i].lost = past[i].lost
        BY <1>0, <2>1, <3>2 DEF DownloadFails, TypeOK, Pasts
      <4>4. run'.cur = None
        BY <1>0, <3>2 DEF DownloadFails, Runs
      <4> QED
        BY <1>0, <2>1, <3>2, <4>1, <4>2, <4>3, <4>4 DEF DownloadFails, TypeOK
    <3> QED
      BY <1>4, <3>1, <3>2
  <2>3. photo[i].status = "downloading" /\ ~past[i].lost
    BY <1>0, <2>1 DEF HandInv, InHand
  <2>4. life[i] = "loading" /\ life'[i] \in {"here", "failed", "asked"} /\ InHand(i)'
    BY <1>0, <2>1, <2>2, <2>3 DEF life, Live, InHand
  <2>5. HandInv' /\ Lives!Moves(i, "loading", life'[i])
    BY <1>0, <2>1, <2>2, <2>4, OneMoves
  <2> QED
    BY <2>4, <2>5 DEF LifeStep, Lives!Next, Lives!Ends
<1>5. CASE RunDies
  <2>1. /\ run'.cur = None /\ photo' = photo
        /\ \A j \in Photos : past'[j] = IF j \in {run.cur} \cap Live
                                        THEN [past[j] EXCEPT !.lost = TRUE] ELSE past[j]
    BY <1>5 DEF RunDies, IdleRun
  <2>2. CASE run.cur \notin Live
    <3>1. \A j \in Photos : past'[j] = past[j] /\ InHand(j)' /\ life'[j] = life[j]
      BY <1>0, <2>1, <2>2 DEF HandInv, InHand, life, Live
    <3>2. life' = life
      BY <3>1 DEF life
    <3> QED
      BY <3>1, <3>2 DEF LifeStep, HandInv
  <2>3. ASSUME NEW i \in Photos, i = run.cur, i \in Live PROVE LifeStep
    <3>0. past'[i] = [past[i] EXCEPT !.lost = TRUE] /\ past[i] \in Pasts
      BY <1>0, <2>1, <2>3 DEF TypeOK
    <3>1. past'[i].lost /\ \A j \in Photos \ {i} : past'[j] = past[j]
      BY <2>1, <2>3, <3>0 DEF Pasts
    <3>2. photo[i].status = "downloading" /\ ~past[i].lost
      BY <2>3 DEF HandInv, InHand
    <3>3. life[i] = "loading" /\ life'[i] = "stuck" /\ InHand(i)'
      BY <1>0, <2>1, <2>3, <3>1, <3>2 DEF life, Live, InHand
    <3>4. HandInv' /\ Lives!Moves(i, "loading", "stuck")
      BY <1>0, <2>1, <2>3, <3>1, <3>3, OneMoves
    <3> QED
      BY <3>4 DEF LifeStep, Lives!Next, Lives!Ends
  <2> QED
    BY <2>2, <2>3 DEF Live
<1> QED
  BY <1>1, <1>2, <1>3, <1>4, <1>5 DEF DownloadJob

LEMMA SyncLife == IInv /\ HandInv /\ SyncJob => LifeStep
<1> SUFFICES ASSUME IInv, HandInv, SyncJob PROVE LifeStep
  OBVIOUS
<1>0. TypeOK /\ sync \in Syncs
  BY DEF IInv, TypeOK
<1>1. CASE ListFolder \/ ApplyListing
  BY <1>1, NobodyMoves DEF ListFolder, ApplyListing
<1>2. CASE CommitSync
  <2> DEFINE drop == sync.drop
             add == sync.add
  <2>1. PICK new \in KeysFor(add) : photo' = Replaced(drop, new)
    BY <1>2 DEF CommitSync
  <2>2. drop \subseteq Photos /\ add \subseteq Paths
    BY <1>0 DEF Syncs
  <2>3. past' = Forget(drop) /\ run' = run
    BY <1>2 DEF CommitSync
  <2> HIDE DEF drop, add
  <2>4. \A i \in Photos :
           \/ i \in drop /\ photo'[i] = NoRow
           \/ i \notin drop /\ i \in Unused /\ \E path \in Paths : photo'[i] = NewPhoto(path)
           \/ i \notin drop /\ photo'[i] = photo[i]
    BY <1>0, <2>1, <2>2, Inserted
  <2> QED
    BY <2>2, <2>3, <2>4, RowsReplaced
<1>3. CASE SyncDies
  <2>1. run' = run /\ photo' = photo /\ \A i \in Photos : past'[i].lost = past[i].lost
    BY <1>0, <1>3 DEF SyncDies, TypeOK, Pasts
  <2> QED
    BY <2>1, NobodyMoves
<1> QED
  BY <1>1, <1>2, <1>3 DEF SyncJob

LEMMA NextLife == IInv /\ HandInv /\ [Next]_vars => LifeStep
<1>1. ASSUME HandInv, UNCHANGED vars PROVE LifeStep
  BY <1>1, NobodyMoves DEF vars
<1> QED
  BY <1>1, OperatorLife, DownloadLife, SyncLife DEF Next

-----------------------------------------------------------------------------
(* Theorems *)

\* All variables keep their types, whoever deletes and inserts rows meanwhile.
THEOREM YandexTypeCorrect == Spec => []TypeOK
<1>1. IInv => TypeOK
  BY DEF IInv
<1> QED
  BY <1>1, InitIInv, NextIInv, PTL DEF Spec

\* A photo marked ready has its file, but for those a sync or a request deleted
\* before a commit that is to come or has failed.
THEOREM ReadyPhotosHaveFiles == Spec => []ReadyHasFile
<1>1. IInv => ReadyHasFile
  BY DEF IInv, ReadyHasFile, RowOK, HasFile, Live
<1> QED
  BY <1>1, InitIInv, NextIInv, PTL DEF Spec

\* A photo is given up after three failures, or after one when the operator has
\* retried a product's photo, whose attempts are not reset.
THEOREM FailuresLimited == Spec => []GivesUpAfterLimit
<1>1. ASSUME IInv, NEW i \in Live, photo[i].status = "failed"
      PROVE  \/ past[i].tries = Limit
             \/ kind = "product" /\ past[i].retried /\ past[i].tries = 1
  BY <1>1 DEF IInv, RowOK, AttemptsCount, Live
<1>2. IInv => GivesUpAfterLimit
  BY <1>1 DEF GivesUpAfterLimit
<1> QED
  BY <1>2, InitIInv, NextIInv, PTL DEF Spec

\* A photo is `downloading' exactly while the run has it in hand, or for ever after
\* its download died.
THEOREM DownloadsInHand == Spec => []DownloadingIsInHand
<1>1. IInv /\ HandInv /\ [Next]_vars => HandInv'
  BY NextLife DEF LifeStep
<1>2. HandInv => DownloadingIsInHand
  BY DEF HandInv, InHand, DownloadingIsInHand, Live
<1> QED
  BY <1>1, <1>2, InitIInv, InitLife, NextIInv, PTL DEF Spec

\* Refinement: the rows, the two jobs and the requests implement PhotoLife.  Photos
\* are fetched one at a time and not again unless asked for, and one whose download
\* died is not fetched again.
THEOREM PhotosLiveTheorem == Spec => PhotosLive
<1>1. IInv /\ HandInv /\ [Next]_vars => HandInv' /\ [Lives!Next]_life
  BY NextLife DEF LifeStep
<1> QED
  BY <1>1, InitIInv, InitLife, NextIInv, PTL DEF Spec, PhotosLive, Lives!Spec
=============================================================================
