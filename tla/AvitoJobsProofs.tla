-------------------------- MODULE AvitoJobsProofs --------------------------
(***************************************************************************)
(* Proofs about AvitoJobs, for any products, ads, jobs and bounds: types,  *)
(* and that the version column makes it implement GuardedWrites.           *)
(***************************************************************************)
EXTENDS AvitoJobs, TLAPS

\* What a run that ends may have done to the version of a row: nothing; one
\* guarded write of a row whose version its session still has; an insertion.
RowStep(j, p) ==
    \/ /\ row'[p].version = row[p].version
       /\ row'[p].life = "unborn" <=> row[p].life = "unborn"
    \/ /\ p \in loaded[j] /\ copy[j][p].version = row[p].version
       /\ row[p].life = "live" /\ row'[p].life = "live"
       /\ row'[p].version = row[p].version + 1
    \/ /\ row[p].life = "unborn" /\ row'[p].life = "live"
       /\ row'[p].version = 1

RunEnds(j) == /\ j \in Jobs
              /\ Close(j)
              /\ \A p \in Products : RowStep(j, p)

-----------------------------------------------------------------------------
(* Rows and copies *)

\* A guarded write yields a row and, if it changes the row, bumps the version
\* it was given.
LEMMA SafeUpdateRow ==
    ASSUME NEW r \in Rows, NEW expected \in Nat, NEW to \in Rows, to.life = r.life
    PROVE  /\ SafeUpdate(r, expected, to) \in Rows
           /\ SafeUpdate(r, expected, to).life = r.life
           /\ \/ SafeUpdate(r, expected, to) = r
              \/ /\ r.life = "live" /\ r.version = expected
                 /\ SafeUpdate(r, expected, to).version = r.version + 1
BY DEF SafeUpdate, Rows

\* The session's copy of a row is a Copy.
LEMMA CopyType == ASSUME NEW r \in Rows PROVE Copy(r) \in Copies
BY DEF Copy, Copies, Rows

LEMMA UnseenType == Unseen \in Copies
BY DEF Unseen, UnbornRow, Copy, Copies, Statuses

LEMMA NewRowType ==
    ASSUME NEW s \in Statuses, NEW a \in Ads \cup {None}, NEW ph \in BOOLEAN
    PROVE  /\ NewRow(s, a, ph) \in Rows
           /\ NewRow(s, a, ph).version = 1
           /\ NewRow(s, a, ph).life = "live"
BY DEF NewRow, Rows, Lives

-----------------------------------------------------------------------------
(* Type correctness *)

LEMMA InitTypeOK == Init => TypeOK
<1> SUFFICES ASSUME Init PROVE TypeOK
  OBVIOUS
<1>1. UnbornRow \in Rows
  BY DEF UnbornRow, Rows, Lives, Statuses
<1>2. row \in [Products -> Rows]
  <2>1. \A ph \in BOOLEAN : NewRow("draft", None, ph) \in Rows
    BY NewRowType DEF Statuses
  <2>2. \A a \in Ads, ph \in BOOLEAN : NewRow("active", a, ph) \in Rows
    BY NewRowType DEF Statuses
  <2> QED
    BY <1>1, <2>1, <2>2 DEF Init, StoreInit
<1>3. listing \in [Listings -> ListingStatuses]
  BY DEF Init, StoreInit, ListingStatuses
<1>4. copy \in [Jobs -> [Products -> Copies]]
  BY UnseenType DEF Init
<1> QED
  BY <1>2, <1>3, <1>4
  DEF Init, StoreInit, TypeOK, StoreTypeOK, AdStatuses, Phases, Live

\* A run's session is reset with the right types.
LEMMA CloseType ==
    ASSUME TypeOK, NEW j, Close(j)
    PROVE  /\ phase' \in [Jobs -> Phases]
           /\ listed' \in [Jobs -> SUBSET Ads]
           /\ loaded' \in [Jobs -> SUBSET Products]
           /\ copy' \in [Jobs -> [Products -> Copies]]
           /\ stale' \in SUBSET Products /\ batch' \in SUBSET Listings
BY UnseenType DEF TypeOK, Close, Phases

LEMMA LoadType ==
    ASSUME TypeOK, NEW j \in Jobs, NEW S \in SUBSET Products, Load(j, S),
           batch' \in SUBSET Listings
    PROVE  TypeOK'
<1>1. [p \in Products |-> IF p \in S THEN Copy(row[p]) ELSE Unseen]
        \in [Products -> Copies]
  BY CopyType, UnseenType DEF TypeOK, StoreTypeOK
<1> QED
  BY <1>1 DEF Load, TypeOK, StoreTypeOK, storeVars, Phases

LEMMA FetchType == ASSUME TypeOK, NEW j, Fetch(j) PROVE TypeOK'
BY DEF Fetch, TypeOK, StoreTypeOK, storeVars, Phases

\* What a run that ends writes are rows, and it bumps the versions as RowStep says.
LEMMA DeclinedRows ==
    ASSUME TypeOK, DeclinedApply
    PROVE  /\ row' \in [Products -> Rows]
           /\ \A p \in Products : RowStep("declined", p)
<1>1. PICK answer \in Answers :
        row' = [p \in Products |->
                  IF p \in loaded["declined"]
                  THEN DeclinedRow(row[p], copy["declined"][p], answer[p])
                  ELSE row[p]]
  BY DEF DeclinedApply
<1>2. "declined" \in Jobs
  BY DEF DeclinedApply, Applying
<1>3. ASSUME NEW p \in Products
      PROVE  row'[p] \in Rows /\ RowStep("declined", p)
  <2>1. CASE p \notin loaded["declined"]
    BY <1>1, <2>1 DEF RowStep, TypeOK, StoreTypeOK
  <2>2. CASE p \in loaded["declined"]
    <3> DEFINE r == row[p]
               c == copy["declined"][p]
               to == [r EXCEPT !.status = "paused"]
               tr == [r EXCEPT !.status = "removed", !.removedAt = now]
               ta == [r EXCEPT !.status = "active"]
    <3>1. r \in Rows /\ c.version \in Nat
      BY <1>2 DEF TypeOK, StoreTypeOK, Copies
    <3>2. to \in Rows /\ to.life = r.life
      BY <3>1 DEF Rows, Statuses
    <3>3. tr \in Rows /\ tr.life = r.life
      BY <3>1 DEF Rows, Statuses, TypeOK, StoreTypeOK
    <3>4. ta \in Rows /\ ta.life = r.life
      BY <3>1 DEF Rows, Statuses
    <3>5. row'[p] = DeclinedRow(r, c, answer[p])
      BY <1>1, <2>2
    <3>6. \/ row'[p] = r
          \/ row'[p] = SafeUpdate(r, c.version, to)
          \/ row'[p] = SafeUpdate(r, c.version, tr)
          \/ row'[p] = SafeUpdate(r, c.version, ta)
      BY <3>5 DEF DeclinedRow
    <3> HIDE DEF to, tr, ta
    <3>7. \/ row'[p] = r
          \/ /\ row'[p] \in Rows /\ row'[p].life = "live" /\ r.life = "live"
             /\ r.version = c.version /\ row'[p].version = r.version + 1
      BY <3>1, <3>2, <3>3, <3>4, <3>6, SafeUpdateRow
    <3> QED
      BY <2>2, <3>1, <3>7 DEF RowStep
  <2> QED
    BY <2>1, <2>2
<1>4. row' = [p \in Products |-> row'[p]]
  BY <1>1
<1> QED
  BY <1>3, <1>4

LEMMA SoldRows ==
    ASSUME TypeOK, SoldApply
    PROVE  /\ row' \in [Products -> Rows]
           /\ \A p \in Products : RowStep("sold", p)
<1>1. row' = [p \in Products |->
                IF p \in loaded["sold"] /\ copy["sold"][p].avitoId \notin listed["sold"]
                THEN SafeUpdate(row[p], copy["sold"][p].version,
                                [row[p] EXCEPT !.status = "sold"])
                ELSE row[p]]
  BY DEF SoldApply
<1>2. "sold" \in Jobs
  BY DEF SoldApply, Applying
<1>3. ASSUME NEW p \in Products
      PROVE  row'[p] \in Rows /\ RowStep("sold", p)
  <2> DEFINE r == row[p]
             c == copy["sold"][p]
             to == [r EXCEPT !.status = "sold"]
  <2>1. r \in Rows /\ c.version \in Nat
    BY <1>2 DEF TypeOK, StoreTypeOK, Copies
  <2>2. to \in Rows /\ to.life = r.life
    BY <2>1 DEF Rows, Statuses
  <2>3. row'[p] = r \/ (p \in loaded["sold"] /\ row'[p] = SafeUpdate(r, c.version, to))
    BY <1>1
  <2> HIDE DEF to
  <2>4. \/ row'[p] = r
        \/ /\ p \in loaded["sold"]
           /\ row'[p] \in Rows /\ row'[p].life = "live" /\ r.life = "live"
           /\ r.version = c.version /\ row'[p].version = r.version + 1
    BY <2>1, <2>2, <2>3, SafeUpdateRow
  <2> QED
    BY <2>1, <2>4 DEF RowStep
<1>4. row' = [p \in Products |-> row'[p]]
  BY <1>1
<1> QED
  BY <1>3, <1>4

LEMMA ImportRows ==
    ASSUME TypeOK, ImportApply
    PROVE  /\ row' \in [Products -> Rows]
           /\ listing' \in [Listings -> ListingStatuses]
           /\ \A p \in Products : RowStep("import", p)
<1> DEFINE fresh == listed["import"] \ Known
<1>1. "import" \in Jobs
  BY DEF ImportApply
<1>2. PICK new \in SUBSET Products, key \in [Ads -> Products] :
        /\ \A p \in new : row[p].life = "unborn"
        /\ new = {key[a] : a \in fresh}
        /\ row' = [p \in Products |->
                     IF p \in new
                     THEN NewRow("imported", CHOOSE a \in fresh : key[a] = p, FALSE)
                     ELSE ImportedRow(p)]
        /\ listing' = [l \in Listings |-> IF l[1] \in new /\ l[2] = First
                                          THEN "draft" ELSE listing[l]]
  BY DEF ImportApply
<1>3. fresh \subseteq Ads
  BY <1>1 DEF TypeOK
<1>4. ASSUME NEW p \in Products
      PROVE  row'[p] \in Rows /\ RowStep("import", p)
  <2> DEFINE r == row[p]
             c == copy["import"][p]
             back == [r EXCEPT !.status = "imported", !.removedAt = None]
  <2>1. r \in Rows /\ c.version \in Nat /\ now \in Nat
    BY <1>1 DEF TypeOK, StoreTypeOK, Copies
  <2>2. CASE p \in new
    <3>1. PICK a \in fresh : key[a] = p
      BY <1>2, <2>2
    <3>2. (CHOOSE b \in fresh : key[b] = p) \in Ads
      BY <3>1, <1>3
    <3>3. row'[p] \in Rows /\ row'[p].version = 1 /\ row'[p].life = "live"
      BY <1>2, <2>2, <3>2, NewRowType DEF Statuses
    <3> QED
      BY <1>2, <2>2, <3>3 DEF RowStep
  <2>3. CASE p \notin new
    <3>1. back \in Rows /\ back.life = r.life
      BY <2>1 DEF Rows, Statuses
    <3>2. /\ StaleRow(p) \in Rows /\ StaleRow(p).life = r.life
          /\ StaleRow(p).version = r.version
      BY <2>1 DEF StaleRow, Rows, Statuses
    <3>3. row'[p] = ImportedRow(p)
      BY <1>2, <2>3
    <3>4. \/ row'[p] = r \/ row'[p] = StaleRow(p)
          \/ p \in loaded["import"] /\ row'[p] = SafeUpdate(r, c.version, back)
      BY <3>3 DEF ImportedRow
    <3> HIDE DEF back
    <3>5. \/ row'[p] = r \/ row'[p] = StaleRow(p)
          \/ /\ p \in loaded["import"]
             /\ row'[p] \in Rows /\ row'[p].life = "live" /\ r.life = "live"
             /\ r.version = c.version /\ row'[p].version = r.version + 1
      BY <2>1, <3>1, <3>4, SafeUpdateRow
    <3> QED
      BY <2>1, <3>2, <3>5 DEF RowStep
  <2> QED
    BY <2>2, <2>3
<1>5. row' = [p \in Products |-> row'[p]]
  BY <1>2
<1>6. listing' \in [Listings -> ListingStatuses]
  BY <1>2 DEF TypeOK, StoreTypeOK, ListingStatuses
<1> QED
  BY <1>4, <1>5, <1>6

LEMMA CleanupRows ==
    ASSUME TypeOK, CleanupApply,
           \A p \in loaded["cleanup"] : row[p].life # "unborn"
    PROVE  /\ row' \in [Products -> Rows]
           /\ listing' \in [Listings -> ListingStatuses]
           /\ \A p \in Products : RowStep("cleanup", p)
<1>1. PICK gone \in {{}, loaded["cleanup"]} :
        /\ row' = [p \in Products |->
                     IF p \in gone THEN [row[p] EXCEPT !.life = "deleted"] ELSE row[p]]
        /\ listing' = [l \in Listings |-> IF l[1] \in gone THEN "none" ELSE listing[l]]
  BY DEF CleanupApply
<1>2. ASSUME NEW p \in Products
      PROVE  row'[p] \in Rows /\ RowStep("cleanup", p)
  <2>1. row[p] \in Rows
    BY DEF TypeOK, StoreTypeOK
  <2>2. /\ [row[p] EXCEPT !.life = "deleted"] \in Rows
        /\ [row[p] EXCEPT !.life = "deleted"].version = row[p].version
        /\ [row[p] EXCEPT !.life = "deleted"].life = "deleted"
    BY <2>1 DEF Rows, Lives
  <2>3. CASE p \in gone
    BY <1>1, <2>2, <2>3 DEF RowStep
  <2>4. CASE p \notin gone
    BY <1>1, <2>1, <2>4 DEF RowStep
  <2> QED
    BY <2>3, <2>4
<1>3. row' = [p \in Products |-> row'[p]]
  BY <1>1
<1>4. listing' \in [Listings -> ListingStatuses]
  BY <1>1 DEF TypeOK, StoreTypeOK, ListingStatuses
<1> QED
  BY <1>2, <1>3, <1>4

LEMMA PublishRows ==
    ASSUME TypeOK, PublishApply
    PROVE  /\ row' \in [Products -> Rows]
           /\ listing' \in [Listings -> ListingStatuses]
           /\ \A p \in Products : RowStep("publish", p)
<1>1. ASSUME NEW p \in Products
      PROVE  row'[p] \in Rows /\ row'[p].version = row[p].version
             /\ row'[p].life = row[p].life
  <2>0. row[p] \in Rows
    BY DEF TypeOK, StoreTypeOK
  <2>1. [row[p] EXCEPT !.status = "active"] \in Rows
    BY <2>0 DEF Rows, Statuses
  <2>2. /\ [row[p] EXCEPT !.status = "active"].version = row[p].version
        /\ [row[p] EXCEPT !.status = "active"].life = row[p].life
    BY <2>0 DEF Rows
  <2>3. row'[p] \in {row[p], [row[p] EXCEPT !.status = "active"]}
    BY DEF PublishApply
  <2> QED
    BY <2>0, <2>1, <2>2, <2>3
<1>2. row' = [p \in Products |-> row'[p]]
  BY DEF PublishApply
<1>3. listing' \in [Listings -> ListingStatuses]
  BY DEF PublishApply, TypeOK, StoreTypeOK, ListingStatuses
<1> QED
  BY <1>1, <1>2, <1>3 DEF RowStep

LEMMA RepostRows ==
    ASSUME TypeOK, NEW p \in Products, RepostApply(p)
    PROVE  /\ row' \in [Products -> Rows]
           /\ media' \in SUBSET Products
           /\ \A q \in Products : RowStep("repost", q)
<1> DEFINE c == copy["repost"][p]
           to(photos) == [row[p] EXCEPT
                              !.status = IF c.status = "active" THEN @ ELSE "active",
                              !.avitoId = IF c.avitoId = None THEN @ ELSE None,
                              !.photos = photos]
<1>1. PICK repacked \in BOOLEAN, found \in BOOLEAN :
        /\ row' = [row EXCEPT
                     ![p].status = IF c.status = "active" THEN @ ELSE "active",
                     ![p].avitoId = IF c.avitoId = None THEN @ ELSE None,
                     ![p].photos = IF repacked THEN found ELSE @]
        /\ media' \in {media, media \cup {p}, media \ {p}}
  BY DEF RepostApply
<1>2. row[p] \in Rows
  BY DEF TypeOK, StoreTypeOK
<1>3. \E photos \in BOOLEAN : row' = [row EXCEPT ![p] = to(photos)]
  BY <1>1, <1>2 DEF TypeOK, StoreTypeOK, Rows
<1>4. \A photos \in BOOLEAN :
        /\ to(photos) \in Rows /\ to(photos).version = row[p].version
        /\ to(photos).life = row[p].life
  BY <1>2 DEF Rows, Statuses
<1> HIDE DEF to
<1>5. row' \in [Products -> Rows] /\ \A q \in Products : RowStep("repost", q)
  BY <1>3, <1>4 DEF RowStep, TypeOK, StoreTypeOK
<1>6. media' \in SUBSET Products
  BY <1>1 DEF TypeOK
<1> QED
  BY <1>5, <1>6

-----------------------------------------------------------------------------
(* The inductive invariant *)

\* A row exists, or did, exactly if its version is not 0; a session holds rows
\* only between its load and its end, and of rows that exist, at versions they
\* have had.  Without the last part a job's stale version could become current
\* again, and the job would write over a write it has not seen.
SessionsOK ==
    /\ \A p \in Products : row[p].life = "unborn" <=> row[p].version = 0
    /\ \A j \in Jobs : phase[j] \in {"idle", "fetched"} => loaded[j] = {}
    /\ \A j \in Jobs : \A p \in loaded[j] :
         row[p].life # "unborn" /\ copy[j][p].version <= row[p].version

IInv == TypeOK /\ SessionsOK

LEMMA InitIInv == Init => IInv
<1> SUFFICES ASSUME Init PROVE SessionsOK
  BY InitTypeOK DEF IInv
<1>1. \A p \in Products : row[p].life = "unborn" <=> row[p].version = 0
  <2> DEFINE S == {UnbornRow} \cup {NewRow("draft", None, ph) : ph \in BOOLEAN}
                    \cup {NewRow("active", a, ph) : a \in Ads, ph \in BOOLEAN}
  <2>1. row \in [Products -> S]
    BY DEF Init, StoreInit
  <2>2. ASSUME NEW r \in S
        PROVE  r.life = "unborn" <=> r.version = 0
    <3>1. UnbornRow.life = "unborn" /\ UnbornRow.version = 0
      BY DEF UnbornRow
    <3>2. \A a \in Ads \cup {None}, ph \in BOOLEAN, s \in {"draft", "active"} :
            NewRow(s, a, ph).life = "live" /\ NewRow(s, a, ph).version = 1
      BY DEF NewRow
    <3>3. \/ r = UnbornRow
          \/ \E a \in Ads \cup {None}, ph \in BOOLEAN, s \in {"draft", "active"} :
               r = NewRow(s, a, ph)
      OBVIOUS
    <3> QED
      BY <3>1, <3>2, <3>3
  <2> HIDE DEF S
  <2> QED
    BY <2>1, <2>2
<1> QED
  BY <1>1 DEF Init, SessionsOK

\* What each kind of step writes, in the terms the invariant needs.
LEMMA RunEndsIInv ==
    ASSUME IInv, NEW j \in Jobs, Close(j),
           \A p \in Products : RowStep(j, p), row' \in [Products -> Rows]
    PROVE  SessionsOK'
<1>1. \A p \in Products :
        /\ row[p].version \in Nat /\ row'[p].version \in Nat
        /\ row[p].life # "unborn" => row'[p].life # "unborn"
        /\ row[p].life # "unborn" => row[p].version <= row'[p].version
        /\ row'[p].life = "unborn" <=> row'[p].version = 0
  BY DEF RowStep, IInv, SessionsOK, TypeOK, StoreTypeOK, Rows
<1>2. \A k \in Jobs : phase'[k] \in {"idle", "fetched"} => loaded'[k] = {}
  BY DEF Close, IInv, SessionsOK, TypeOK
<1>3. ASSUME NEW k \in Jobs, NEW p \in loaded'[k]
      PROVE  row'[p].life # "unborn" /\ copy'[k][p].version <= row'[p].version
  <2>1. k # j /\ p \in loaded[k] /\ copy'[k] = copy[k] /\ p \in Products
    BY <1>3 DEF Close, IInv, TypeOK
  <2>2. copy[k][p].version \in Nat
    BY <2>1 DEF IInv, TypeOK, Copies
  <2>3. row[p].life # "unborn" /\ copy[k][p].version <= row[p].version
    BY <2>1 DEF IInv, SessionsOK
  <2> QED
    BY <1>1, <2>1, <2>2, <2>3
<1> QED
  BY <1>1, <1>2, <1>3 DEF SessionsOK

LEMMA LoadIInv ==
    ASSUME IInv, NEW j \in Jobs, NEW S \in SUBSET Live, Load(j, S),
           batch' \in SUBSET Listings
    PROVE  IInv'
<1>1. S \in SUBSET Products
  BY DEF Live
<1>2. TypeOK'
  BY <1>1, LoadType DEF IInv
<1>3. \A p \in S : copy'[j][p] = Copy(row[p])
  BY <1>1 DEF Load, IInv, TypeOK
<1>4. \A p \in S : row[p].life # "unborn" /\ Copy(row[p]).version = row[p].version
                   /\ row[p].version \in Nat
  BY <1>1 DEF Live, Copy, IInv, TypeOK, StoreTypeOK, Rows
<1>5. SessionsOK'
  BY <1>1, <1>3, <1>4 DEF Load, IInv, SessionsOK, TypeOK, storeVars
<1> QED
  BY <1>2, <1>5 DEF IInv

\* The operator's requests keep versions and keys.
LEMMA RequestRows ==
    ASSUME TypeOK, (\E p \in Products : Request(p)) \/ BulkRequest
    PROVE  /\ row' \in [Products -> Rows]
           /\ listing' \in [Listings -> ListingStatuses]
           /\ \A p \in Products : /\ row'[p].version = row[p].version
                                 /\ row'[p].life = row[p].life
           /\ UNCHANGED <<jobVars, ad, media, now>>
<1>1. ASSUME NEW p \in Products, NEW val \in PatchStatuses, PatchProduct(p, val)
      PROVE  /\ row' \in [Products -> Rows]
             /\ listing' \in [Listings -> ListingStatuses]
             /\ \A q \in Products : /\ row'[q].version = row[q].version
                                   /\ row'[q].life = row[q].life
             /\ now' = now
  <2>1. val \in Statuses
    BY PatchStatusesAreStatuses
  <2>2. row' \in [Products -> Rows]
    BY <1>1, <2>1 DEF PatchProduct, TypeOK, StoreTypeOK, Rows
  <2>3. listing' \in [Listings -> ListingStatuses]
    BY <1>1 DEF PatchProduct, Relisted, TypeOK, StoreTypeOK, ListingStatuses
  <2>4. \A q \in Products : row'[q].version = row[q].version /\ row'[q].life = row[q].life
    BY <1>1 DEF PatchProduct, TypeOK, StoreTypeOK, Rows
  <2> QED
    BY <1>1, <2>2, <2>3, <2>4 DEF PatchProduct
<1>2. ASSUME NEW p \in Products, DeleteProduct(p) \/ DeleteFromAvito(p)
      PROVE  /\ row' \in [Products -> Rows]
             /\ listing' \in [Listings -> ListingStatuses]
             /\ \A q \in Products : /\ row'[q].version = row[q].version
                                   /\ row'[q].life = row[q].life
             /\ now' = now
  <2> DEFINE gone == [row[p] EXCEPT !.status = "removed", !.removedAt = now]
  <2>1. row[p] \in Rows
    BY DEF TypeOK, StoreTypeOK
  <2>2. /\ gone \in Rows /\ gone.version = row[p].version
        /\ gone.life = row[p].life
    BY <2>1 DEF Rows, Statuses, TypeOK, StoreTypeOK
  <2>3. row' = [row EXCEPT ![p] = gone]
    BY <1>2, <2>1 DEF DeleteProduct, DeleteFromAvito, TypeOK, StoreTypeOK, Rows
  <2>4. listing' \in [Listings -> ListingStatuses]
    BY <1>2 DEF DeleteProduct, DeleteFromAvito, Relisted, TypeOK, StoreTypeOK, ListingStatuses
  <2> HIDE DEF gone
  <2>5. now' = now
    BY <1>2 DEF DeleteProduct, DeleteFromAvito
  <2> QED
    BY <2>2, <2>3, <2>4, <2>5 DEF TypeOK, StoreTypeOK
<1>3. ASSUME BulkRequest
      PROVE  /\ row' \in [Products -> Rows]
             /\ listing' \in [Listings -> ListingStatuses]
             /\ \A q \in Products : /\ row'[q].version = row[q].version
                                   /\ row'[q].life = row[q].life
             /\ now' = now
  <2>1. PICK complete \in SUBSET Products : BulkActivate(complete)
    BY <1>3 DEF BulkRequest
  <2>2. ASSUME NEW q \in Products
        PROVE  /\ [row[q] EXCEPT !.status = "active"] \in Rows
               /\ [row[q] EXCEPT !.status = "active"].version = row[q].version
               /\ [row[q] EXCEPT !.status = "active"].life = row[q].life
    <3>1. row[q] \in Rows
      BY DEF TypeOK, StoreTypeOK
    <3> QED
      BY <3>1 DEF Rows, Statuses
  <2> QED
    BY <2>1, <2>2 DEF BulkActivate, TypeOK, StoreTypeOK
<1>4. ASSUME NEW p \in Products, Schedules(p)
      PROVE  /\ row' \in [Products -> Rows]
             /\ listing' \in [Listings -> ListingStatuses]
             /\ \A q \in Products : /\ row'[q].version = row[q].version
                                   /\ row'[q].life = row[q].life
             /\ now' = now
  <2>1. row' = row \/ row' = [row EXCEPT ![p].status = "scheduled"]
    BY <1>4 DEF Schedules
  <2>2. /\ row' \in [Products -> Rows]
        /\ \A q \in Products : /\ row'[q].version = row[q].version
                              /\ row'[q].life = row[q].life
    <3>1. CASE row' = row
      BY <3>1 DEF TypeOK, StoreTypeOK
    <3>2. CASE row' = [row EXCEPT ![p].status = "scheduled"]
      <4>1. row \in [Products -> Rows] /\ "scheduled" \in Statuses
        BY DEF TypeOK, StoreTypeOK, Statuses
      <4> QED
        BY <3>2, <4>1 DEF Rows
    <3> QED
      BY <2>1, <3>1, <3>2
  <2>3. listing' \in [Listings -> ListingStatuses]
    BY <1>4 DEF Schedules, TypeOK, StoreTypeOK, ListingStatuses
  <2> QED
    BY <1>4, <2>2, <2>3 DEF Schedules
<1>5. UNCHANGED <<jobVars, ad, media>>
  BY DEF Request, BulkRequest
<1> QED
  BY <1>1, <1>2, <1>3, <1>4, <1>5 DEF Request, ProductRequest

-----------------------------------------------------------------------------
(* The steps, sorted by what they do to rows and sessions *)

\* Every step loads a session, ends one, or leaves all sessions and versions
\* alone.
Loading(j) == /\ j \in Jobs /\ loaded[j] = {} /\ \E S \in SUBSET Live : Load(j, S)
              /\ batch' \in SUBSET Listings
Ending(j) == /\ j \in Jobs /\ Close(j) /\ \A p \in Products : RowStep(j, p)
             /\ row' \in [Products -> Rows]
Apart == /\ UNCHANGED <<loaded, copy>>
         /\ \A j \in Jobs : loaded[j] # {} => phase'[j] \in {"loaded", "selected"}
         /\ \A p \in Products : /\ row'[p].version = row[p].version
                               /\ row'[p].life = row[p].life

LEMMA Sorted ==
    ASSUME IInv, Next
    PROVE  TypeOK' /\ (Apart \/ \E j \in Jobs : Loading(j) \/ Ending(j))
<1> USE DEF IInv
<1>0. \A j \in Jobs : loaded[j] # {} => phase[j] \in {"loaded", "selected"}
  BY DEF SessionsOK, TypeOK, Phases
<1>1. ASSUME NEW j \in Jobs, NEW S \in SUBSET Live, Load(j, S),
             phase[j] \in {"idle", "fetched"}, batch' \in SUBSET Listings
      PROVE  TypeOK' /\ Loading(j)
  <2>1. S \in SUBSET Products
    BY DEF Live
  <2> QED
    BY <1>1, <2>1, LoadType DEF SessionsOK, Loading
<1>2. CASE DeclinedLoad
  BY <1>1, <1>2 DEF DeclinedLoad, Start, TypeOK
<1>3. CASE DeclinedApply
  <2>1. "declined" \in Jobs /\ Close("declined") /\ UNCHANGED <<listing, now, ad, media>>
    BY <1>3 DEF DeclinedApply, Applying
  <2>2. Ending("declined")
    BY <1>3, <2>1, DeclinedRows DEF Ending
  <2> QED
    BY <2>1, <2>2, CloseType DEF Ending, TypeOK, StoreTypeOK
<1>4. CASE Fetch("sold") \/ Fetch("import")
  <2>1. PICK j \in Jobs : Fetch(j)
    BY <1>4 DEF Fetch
  <2>2. Apart
    BY <1>0, <2>1 DEF Fetch, Apart, storeVars, TypeOK
  <2> QED
    BY <2>1, <2>2, FetchType
<1>5. CASE SoldLoad
  BY <1>1, <1>5 DEF SoldLoad, TypeOK
<1>6. CASE SoldApply
  <2>1. "sold" \in Jobs /\ Close("sold") /\ UNCHANGED <<listing, now, ad, media>>
    BY <1>6 DEF SoldApply, Applying
  <2>2. Ending("sold")
    BY <1>6, <2>1, SoldRows DEF Ending
  <2> QED
    BY <2>1, <2>2, CloseType DEF Ending, TypeOK, StoreTypeOK
<1>7. CASE ImportLoad
  BY <1>1, <1>7 DEF ImportLoad, TypeOK
<1>8. CASE ImportApply
  <2>1. "import" \in Jobs /\ Close("import") /\ UNCHANGED <<now, ad, media>>
    BY <1>8 DEF ImportApply
  <2>2. Ending("import") /\ listing' \in [Listings -> ListingStatuses]
    BY <1>8, <2>1, ImportRows DEF Ending
  <2> QED
    BY <2>1, <2>2, CloseType DEF Ending, TypeOK, StoreTypeOK
<1>9. CASE CleanupLoad
  BY <1>1, <1>9 DEF CleanupLoad, Start, TypeOK
<1>10. CASE CleanupApply
  <2>1. /\ "cleanup" \in Jobs /\ Close("cleanup") /\ UNCHANGED <<now, ad>>
        /\ media' \in SUBSET Products
    BY <1>10 DEF CleanupApply, Applying, TypeOK
  <2>2. \A p \in loaded["cleanup"] : row[p].life # "unborn"
    BY <2>1 DEF SessionsOK
  <2>3. Ending("cleanup") /\ listing' \in [Listings -> ListingStatuses]
    BY <1>10, <2>1, <2>2, CleanupRows DEF Ending
  <2> QED
    BY <2>1, <2>3, CloseType DEF Ending, TypeOK, StoreTypeOK
<1>11. ASSUME NEW p \in Products, RepostLoad(p)
       PROVE  TypeOK' /\ Loading("repost")
  <2>1. {p} \in SUBSET Live
    BY <1>11 DEF RepostLoad
  <2> QED
    BY <1>1, <1>11, <2>1 DEF RepostLoad, Start, TypeOK
<1>12. ASSUME NEW p \in Products, RepostApply(p)
       PROVE  TypeOK' /\ Ending("repost")
  <2>1. "repost" \in Jobs /\ Close("repost") /\ UNCHANGED <<listing, now, ad>>
    BY <1>12 DEF RepostApply, Applying
  <2>2. Ending("repost") /\ media' \in SUBSET Products
    BY <1>12, <2>1, RepostRows DEF Ending
  <2> QED
    BY <2>1, <2>2, CloseType DEF Ending, TypeOK, StoreTypeOK
<1>13. ASSUME NEW j \in Jobs, Abort(j)
       PROVE  TypeOK' /\ Ending(j)
  <2>1. Close(j) /\ UNCHANGED <<row, listing, now, ad>>
    BY <1>13 DEF Abort, storeVars
  <2>2. media' \in SUBSET Products
    BY <1>13 DEF Abort, TypeOK
  <2>3. Ending(j)
    BY <2>1 DEF Ending, RowStep, TypeOK, StoreTypeOK
  <2> QED
    BY <2>1, <2>2, <2>3, CloseType DEF TypeOK, StoreTypeOK
<1>14. CASE (\E p \in Products : Request(p)) \/ BulkRequest
  <2>1. TypeOK'
    BY <1>14, RequestRows DEF jobVars, TypeOK, StoreTypeOK
  <2> QED
    BY <1>0, <1>14, <2>1, RequestRows DEF Apart, jobVars
<1>15. CASE (\E a \in Ads : AdChanges(a)) \/ TimePasses
  <2>1. ASSUME NEW a \in Ads, AdChanges(a) PROVE TypeOK'
    BY <2>1, AdOutcomesAreStatuses DEF AdChanges, storeVars, jobVars, TypeOK, StoreTypeOK
  <2>2. ASSUME TimePasses PROVE TypeOK'
    <3>1. now' \in Nat /\ UNCHANGED <<row, listing, jobVars, ad, media>>
      BY <2>2 DEF TimePasses, Tick, TypeOK, StoreTypeOK
    <3> QED
      BY <3>1 DEF jobVars, TypeOK, StoreTypeOK
  <2>3. Apart
    BY <1>0, <1>15 DEF AdChanges, TimePasses, Tick, Apart, storeVars, jobVars
  <2> QED
    BY <1>15, <2>1, <2>2, <2>3
<1>16. CASE ImportSelect
  <2>1. /\ "import" \in Jobs /\ phase["import"] = "loaded"
        /\ phase' = [phase EXCEPT !["import"] = "selected"]
        /\ stale' \subseteq Products
        /\ UNCHANGED <<row, listing, now, ad, media, listed, loaded, copy, batch>>
    BY <1>16 DEF ImportSelect, Applying, Live, storeVars
  <2>2. TypeOK'
    BY <2>1 DEF TypeOK, StoreTypeOK, Phases
  <2> QED
    BY <1>0, <2>1, <2>2 DEF Apart, TypeOK
<1>17. CASE PublishLoad
  <2>1. PICK B \in SUBSET Listings : /\ \A l \in B : l[1] \in Live
                                    /\ Start("publish", {l[1] : l \in B}) /\ batch' = B
    BY <1>17 DEF PublishLoad
  <2>2. {l[1] : l \in B} \in SUBSET Live
    BY <2>1
  <2> QED
    BY <1>1, <2>1, <2>2 DEF Start, Loading
<1>18. CASE PublishApply
  <2>1. "publish" \in Jobs /\ Close("publish") /\ UNCHANGED <<now, ad, media>>
    BY <1>18 DEF PublishApply, Applying
  <2>2. Ending("publish") /\ listing' \in [Listings -> ListingStatuses]
    BY <1>18, <2>1, PublishRows DEF Ending
  <2> QED
    BY <2>1, <2>2, CloseType DEF Ending, TypeOK, StoreTypeOK
<1>19. "repost" \in Jobs \/ ~ \E p \in Products : RepostLoad(p) \/ RepostApply(p)
  BY DEF RepostLoad, RepostApply, Start, Applying
<1> QED
  BY <1>2, <1>3, <1>4, <1>5, <1>6, <1>7, <1>8, <1>9, <1>10, <1>11, <1>12, <1>13,
     <1>14, <1>15, <1>16, <1>17, <1>18, <1>19 DEF Next, JobStep, Loading, Ending

LEMMA NextIInv == IInv /\ [Next]_vars => IInv'
<1> SUFFICES ASSUME IInv, [Next]_vars PROVE IInv'
  OBVIOUS
<1>1. CASE Next
  <2>1. TypeOK'
    BY <1>1, Sorted
  <2>2. CASE Apart
    <3>1. \A j \in Jobs : phase'[j] \in {"idle", "fetched"} => loaded'[j] = {}
      BY <1>1, <2>2, Sorted DEF Apart, IInv, SessionsOK
    <3> QED
      BY <2>1, <2>2, <3>1 DEF Apart, IInv, SessionsOK, TypeOK
  <2>3. ASSUME NEW j \in Jobs, Loading(j) PROVE IInv'
    BY <2>3, LoadIInv DEF Loading
  <2>4. ASSUME NEW j \in Jobs, Ending(j) PROVE IInv'
    BY <2>1, <2>4, RunEndsIInv DEF Ending, IInv
  <2> QED
    BY <1>1, <2>2, <2>3, <2>4, Sorted
<1>2. CASE UNCHANGED vars
  BY <1>2 DEF vars, storeVars, jobVars, IInv, SessionsOK, TypeOK, StoreTypeOK, Live
<1> QED
  BY <1>1, <1>2

\* The types of all variables, whatever the operator, Avito and the jobs do.
THEOREM TypeCorrect == Spec => []TypeOK
<1>1. IInv => TypeOK
  BY DEF IInv
<1> QED
  BY <1>1, InitIInv, NextIInv, PTL DEF Spec

THEOREM SessionsCorrect == Spec => []IInv
BY InitIInv, NextIInv, PTL DEF Spec

-----------------------------------------------------------------------------
(* The version column implements GuardedWrites *)

LEMMA InitGuarded == Init => Guarded!Init
<1> SUFFICES ASSUME Init PROVE Guarded!Init
  OBVIOUS
<1>1. \A p \in Products : row[p].version \in {0, 1}
  <2> DEFINE S == {UnbornRow} \cup {NewRow("draft", None, ph) : ph \in BOOLEAN}
                    \cup {NewRow("active", a, ph) : a \in Ads, ph \in BOOLEAN}
  <2>1. row \in [Products -> S]
    BY DEF Init, StoreInit
  <2>2. \A r \in S : r.version \in {0, 1}
    BY DEF UnbornRow, NewRow
  <2> HIDE DEF S
  <2> QED
    BY <2>1, <2>2
<1>2. current = {}
  BY DEF Init, current
<1> QED
  BY <1>1, <1>2 DEF Guarded!Init, versions

LEMMA LoadGuarded ==
    ASSUME IInv, NEW j \in Jobs, NEW S \in SUBSET Live, Load(j, S), loaded[j] = {}
    PROVE  Guarded!Read(j, S)
<1>1. S \in SUBSET Products /\ UNCHANGED row
  BY DEF Live, Load, storeVars
<1>2. \A p \in S : versions[p] # 0
  BY <1>1 DEF versions, Live, IInv, SessionsOK
<1>3. \A p \in Products : <<j, p>> \notin current
  BY DEF current
<1>4. UNCHANGED versions
  BY <1>1 DEF versions
<1>5. current' = current \cup ({j} \X S)
  <2>1. ASSUME NEW k \in Jobs, NEW p \in Products
        PROVE  <<k, p>> \in current' <=> <<k, p>> \in current \/ (k = j /\ p \in S)
    <3>1. <<k, p>> \in current' <=>
            p \in loaded'[k] /\ copy'[k][p].version = row[p].version
      BY <1>1 DEF current
    <3>2. <<k, p>> \in current <=>
            p \in loaded[k] /\ copy[k][p].version = row[p].version
      BY DEF current
    <3>3. CASE k = j
      <4>1. loaded'[k] = S /\ \A q \in S : copy'[k][q] = Copy(row[q])
        BY <1>1, <3>3 DEF Load, IInv, TypeOK
      <4>2. \A q \in S : Copy(row[q]).version = row[q].version
        BY DEF Copy
      <4> QED
        BY <1>3, <3>1, <3>3, <4>1, <4>2
    <3>4. CASE k # j
      <4>1. loaded'[k] = loaded[k] /\ copy'[k] = copy[k]
        BY <3>4 DEF Load, IInv, TypeOK
      <4> QED
        BY <3>1, <3>2, <3>4, <4>1
    <3> QED
      BY <3>3, <3>4
  <2>2. current \subseteq Jobs \X Products /\ current' \subseteq Jobs \X Products
    BY DEF current
  <2> QED
    BY <1>1, <2>1, <2>2
<1> QED
  BY <1>2, <1>3, <1>4, <1>5 DEF Guarded!Read

\* The end of a run: W are the rows it wrote under guard, New those it inserted.
\* A row in W has left every other session's version behind, a row in New was
\* in nobody's session.
LEMMA EndGuarded ==
    ASSUME IInv, NEW j \in Jobs, Ending(j)
    PROVE  \E W, New \in SUBSET Products : Guarded!Finish(j, W, New)
<1> DEFINE New == {p \in Products : row[p].life = "unborn" /\ row'[p].life = "live"}
           W == {p \in Products : row'[p].version # row[p].version} \ New
<1>1. \A p \in Products :
        /\ row[p].version \in Nat /\ row'[p].version \in Nat
        /\ row[p].life = "unborn" <=> row[p].version = 0
  BY DEF IInv, SessionsOK, TypeOK, StoreTypeOK, Rows, Ending
<1>2. \A p \in New : row[p].version = 0 /\ row'[p].version = 1
  BY <1>1 DEF Ending, RowStep
<1>3. \A p \in W : /\ p \in loaded[j] /\ copy[j][p].version = row[p].version
                   /\ row'[p].version = row[p].version + 1
  BY <1>1 DEF Ending, RowStep
<1>4. \A p \in Products \ (W \cup New) : row'[p].version = row[p].version
  OBVIOUS
<1>5. {j} \X W \subseteq current
  BY <1>3 DEF current
<1>6. \A p \in New : versions[p] = 0
  BY <1>2 DEF versions
<1>7. versions' = [p \in Products |-> IF p \in W \cup New THEN versions[p] + 1
                                                         ELSE versions[p]]
  <2>1. \A p \in Products : row'[p].version = IF p \in W \cup New THEN row[p].version + 1
                                                                ELSE row[p].version
    BY <1>2, <1>3, <1>4
  <2> HIDE DEF W, New
  <2> QED
    BY <2>1 DEF versions
<1>8. current' = {t \in current : t[1] # j /\ t[2] \notin W}
  <2>1. ASSUME NEW k \in Jobs, NEW p \in Products
        PROVE  <<k, p>> \in current' <=> <<k, p>> \in current /\ k # j /\ p \notin W
    <3>1. <<k, p>> \in current' <=>
            p \in loaded'[k] /\ copy'[k][p].version = row'[p].version
      BY DEF current
    <3>2. <<k, p>> \in current <=>
            p \in loaded[k] /\ copy[k][p].version = row[p].version
      BY DEF current
    <3>3. CASE k = j
      BY <3>1, <3>3 DEF Ending, Close, IInv, TypeOK
    <3>4. CASE k # j
      <4>1. loaded'[k] = loaded[k] /\ copy'[k] = copy[k]
        BY <3>4 DEF Ending, Close, IInv, TypeOK
      <4>2. p \in loaded[k] => /\ row[p].life # "unborn"
                               /\ copy[k][p].version <= row[p].version
        BY DEF IInv, SessionsOK
      <4>3. copy[k][p].version \in Nat
        BY DEF IInv, TypeOK, Copies
      <4>4. CASE p \in New
        BY <3>1, <3>2, <4>1, <4>2, <4>4
      <4>5. CASE p \in W
        BY <1>1, <1>3, <3>1, <4>1, <4>2, <4>3, <4>5
      <4>6. CASE p \notin W \cup New
        BY <1>4, <3>1, <3>2, <3>4, <4>1, <4>6
      <4> QED
        BY <4>4, <4>5, <4>6
    <3> QED
      BY <3>3, <3>4
  <2>2. current \subseteq Jobs \X Products /\ current' \subseteq Jobs \X Products
    BY DEF current
  <2> HIDE DEF W, New
  <2> QED
    BY <2>1, <2>2
<1> HIDE DEF W, New
<1>9. Guarded!Finish(j, W, New)
  BY <1>5, <1>6, <1>7, <1>8 DEF Guarded!Finish
<1>10. W \in SUBSET Products /\ New \in SUBSET Products
  BY DEF W, New
<1> QED
  BY <1>9, <1>10

LEMMA NextGuarded == IInv /\ [Next]_vars => [Guarded!Next]_(Guarded!vars)
<1> SUFFICES ASSUME IInv, [Next]_vars PROVE [Guarded!Next]_(Guarded!vars)
  OBVIOUS
<1>1. CASE Next
  <2>1. CASE Apart
    <3>1. versions' = versions
      BY <2>1 DEF Apart, versions
    <3>2. current' = current
      BY <2>1 DEF Apart, current
    <3> QED
      BY <3>1, <3>2 DEF Guarded!vars
  <2>2. ASSUME NEW j \in Jobs, Loading(j) PROVE Guarded!Next
    <3>1. PICK S \in SUBSET Live : Load(j, S)
      BY <2>2 DEF Loading
    <3>2. Guarded!Read(j, S) /\ S \in SUBSET Products
      BY <2>2, <3>1, LoadGuarded DEF Loading, Live
    <3> QED
      BY <3>2 DEF Guarded!Next
  <2>3. ASSUME NEW j \in Jobs, Ending(j) PROVE Guarded!Next
    BY <2>3, EndGuarded DEF Guarded!Next
  <2> QED
    BY <1>1, <2>1, <2>2, <2>3, Sorted
<1>2. CASE UNCHANGED vars
  BY <1>2 DEF vars, storeVars, jobVars, versions, current, Guarded!vars
<1> QED
  BY <1>1, <1>2

\* safe_update_status keeps its promise: of the runs that read the same version
\* of a row at most one writes it under guard, and no guarded write goes over
\* one its run has not seen, for any number of products, jobs and steps.
THEOREM VersionsGuard == Spec => FirstWriterWins
<1>1. Spec => []IInv
  BY SessionsCorrect
<1> QED
  BY <1>1, InitGuarded, NextGuarded, PTL DEF Spec, FirstWriterWins, Guarded!Spec
=============================================================================
