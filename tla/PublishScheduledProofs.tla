----------------------- MODULE PublishScheduledProofs -----------------------
(***************************************************************************)
(* Proofs that the types are kept and that a schedule is uploaded once, for*)
(* any products, listings, times and requests.                             *)
(***************************************************************************)
EXTENDS PublishScheduled, TLAPS

\* A run begins with nothing left of the one before.
TInv == TypeOK /\ (phase = "idle" => batch = {})

\* A listing that has been uploaded is still scheduled only while the run that
\* uploaded it lives; so a run collects only what has not been uploaded, and
\* until its own upload nobody else's can come in between.
UploadsOK ==
    /\ \A l \in Listings : uploads[l] \in {0, 1}
    /\ \A l \in Listings : listing[l] = "scheduled" /\ uploads[l] # 0
                              => phase = "uploaded" /\ l \in batch \ gone
    /\ \A l \in batch \ gone : phase = "collected" => uploads[l] = 0

IInv == /\ uploads \in [Listings -> Nat]
        /\ listing \in [Listings -> ListingStatuses]
        /\ batch \in SUBSET Listings
        /\ UploadsOK

-----------------------------------------------------------------------------
(* Types *)

LEMMA InitTInv == Init => TInv
<1> SUFFICES ASSUME Init PROVE TInv
  OBVIOUS
<1>1. row \in [Products -> Rows]
  <2>1. UnbornRow \in Rows
    BY DEF UnbornRow, Rows, Lives, Statuses
  <2>2. ASSUME NEW status \in Statuses, NEW a \in Ads \cup {None}, NEW ph \in BOOLEAN
        PROVE  NewRow(status, a, ph) \in Rows
    BY DEF NewRow, Rows, Lives
  <2> DEFINE Begun == {UnbornRow} \cup {NewRow("draft", None, ph) : ph \in BOOLEAN}
                        \cup {NewRow("active", a, ph) : a \in Ads, ph \in BOOLEAN}
  <2>3. Begun \subseteq Rows
    BY <2>1, <2>2 DEF Statuses
  <2>4. row \in [Products -> Begun]
    BY DEF Init, StoreInit
  <2> HIDE DEF Begun
  <2> QED
    BY <2>3, <2>4
<1>2. listing \in [Listings -> ListingStatuses]
  BY DEF Init, StoreInit, ListingStatuses
<1>3. now \in Nat
  BY DEF Init, StoreInit
<1> QED
  BY <1>1, <1>2, <1>3 DEF Init, TInv, TypeOK, StoreTypeOK

\* The status of one row changes.
LEMMA SetStatusTyped ==
    ASSUME row \in [Products -> Rows], NEW p \in Products, NEW status \in Statuses,
           SetStatus(p, status)
    PROVE  row' \in [Products -> Rows]
BY DEF SetStatus, Rows

LEMMA ScheduleTInv ==
    ASSUME TInv, NEW l \in Listings, NEW at \in Nat \cup {None},
           ScheduleListing(l, at), row' \in [Products -> Rows]
    PROVE  TInv'
BY DEF ScheduleListing, jobVars, TInv, TypeOK, StoreTypeOK, ListingStatuses

LEMMA WriteTInv ==
    ASSUME TInv, NEW l \in Listings, NEW status \in ListingStatuses,
           NEW at \in Nat \cup {None}, WriteListing(l, status, at)
    PROVE  TInv'
BY DEF WriteListing, jobVars, TInv, TypeOK, StoreTypeOK

\* Neither the job nor the clock is concerned.
LEMMA KeptTInv ==
    ASSUME TInv, Kept, UNCHANGED now, row' \in [Products -> Rows],
           listing' \in [Listings -> ListingStatuses],
           due' \in [Listings -> Nat \cup {None}]
    PROVE  TInv'
BY DEF Kept, jobVars, TInv, TypeOK, StoreTypeOK

\* A request that schedules or writes one listing.
LEMMA ListingTInv == ASSUME TInv, NEW l \in Listings, ListingRequest(l) PROVE TInv'
<1>0. /\ row \in [Products -> Rows] /\ l[1] \in Products /\ now \in Nat
      /\ due \in [Listings -> Nat \cup {None}] /\ "scheduled" \in Statuses
  BY DEF TInv, TypeOK, StoreTypeOK, Listings, Statuses
<1>1. ASSUME NEW at \in Times, ScheduleProduct(l, at) \/ ScheduleBulk(l, at) PROVE TInv'
  <2>1. row' \in [Products -> Rows]
    BY <1>0, <1>1, SetStatusTyped DEF ScheduleProduct, ScheduleBulk
  <2> QED
    BY <1>1, <2>1, TimesAreNat, ScheduleTInv DEF ScheduleProduct, ScheduleBulk
<1>2. CASE BulkPublish(l)
  <2>1. row' \in [Products -> Rows]
    BY <1>0, <1>2, SetStatusTyped DEF BulkPublish
  <2> QED
    BY <1>0, <1>2, <2>1, ScheduleTInv DEF BulkPublish
<1>3. CASE CreateListing(l)
  BY <1>3, TimesAreNat, WriteTInv DEF CreateListing, ListingStatuses
<1>4. CASE PatchListing(l)
  BY <1>4, TimesAreNat, WriteTInv DEF PatchListing, Existing
<1>5. CASE EditListing(l)
  BY <1>0, <1>5, TimesAreNat, WriteTInv DEF EditListing, Existing, ListingStatuses
<1>6. CASE DeleteListing(l)
  BY <1>6 DEF DeleteListing, TInv, TypeOK, StoreTypeOK, ListingStatuses
<1> QED
  BY <1>1, <1>2, <1>3, <1>4, <1>5, <1>6 DEF ListingRequest

LEMMA RelistedTyped ==
    ASSUME listing \in [Listings -> ListingStatuses],
           NEW p, NEW from, NEW to \in ListingStatuses
    PROVE  Relisted(p, from, to) \in [Listings -> ListingStatuses]
BY DEF Relisted

LEMMA RetimedTyped ==
    ASSUME due \in [Listings -> Nat \cup {None}], NEW p, NEW from, Retimed(p, from)
    PROVE  due' \in [Listings -> Nat \cup {None}]
BY DEF Retimed

LEMMA OperatorTInv == ASSUME TInv, NEW p \in Products, Operator(p) PROVE TInv'
<1> USE DEF TInv
<1>0. /\ row \in [Products -> Rows] /\ listing \in [Listings -> ListingStatuses]
      /\ due \in [Listings -> Nat \cup {None}] /\ now \in Nat
  BY DEF TypeOK, StoreTypeOK
<1>00. {"draft", "scheduled"} \subseteq ListingStatuses /\ "scheduled" \in Statuses
  BY DEF ListingStatuses, Statuses
<1>2. CASE BulkSchedule(p)
  <2>1. row' \in [Products -> Rows]
    BY <1>0, <1>00, <1>2, SetStatusTyped DEF BulkSchedule
  <2>2. listing' \in [Listings -> ListingStatuses]
    BY <1>0, <1>00, <1>2, RelistedTyped DEF BulkSchedule
  <2>3. due' \in [Listings -> Nat \cup {None}]
    BY <1>0, <1>2, RetimedTyped DEF BulkSchedule
  <2>4. uploads' \in [Listings -> Nat]
    BY <1>2 DEF BulkSchedule, TypeOK
  <2> QED
    BY <1>2, <2>1, <2>2, <2>3, <2>4 DEF BulkSchedule, jobVars, TypeOK, StoreTypeOK
<1>3. CASE CancelSchedule(p)
  <2>1. listing' \in [Listings -> ListingStatuses]
    BY <1>0, <1>00, <1>3, RelistedTyped DEF CancelSchedule
  <2>2. due' \in [Listings -> Nat \cup {None}]
    BY <1>0, <1>3, RetimedTyped DEF CancelSchedule
  <2> QED
    BY <1>0, <1>3, <2>1, <2>2, KeptTInv DEF CancelSchedule
<1>4. CASE CancelScheduled(p)
  <2>1. row' \in [Products -> Rows]
    BY <1>0, <1>4, SetStatusTyped DEF CancelScheduled, Statuses
  <2> QED
    BY <1>0, <1>4, <2>1, KeptTInv DEF CancelScheduled
<1>5. CASE CreateProduct(p)
  <2>1. ASSUME NEW status \in Statuses, NEW photos \in BOOLEAN
        PROVE  NewRow(status, None, photos) \in Rows
    BY DEF NewRow, Rows, Lives
  <2>2. row' \in [Products -> Rows]
    BY <1>0, <1>5, <2>1, PatchStatusesAreStatuses DEF CreateProduct, Statuses
  <2> QED
    BY <1>0, <1>5, <2>2, KeptTInv DEF CreateProduct, ListingStatuses
<1>6. CASE EditProduct(p)
  <2>1. row' \in [Products -> Rows]
    BY <1>0, <1>6, SetStatusTyped, PatchStatusesAreStatuses DEF EditProduct, Statuses
  <2> QED
    BY <1>0, <1>6, <2>1, KeptTInv DEF EditProduct
<1>7. CASE ChangeProduct(p)
  <2>1. /\ row' \in [Products -> Rows] /\ listing' \in [Listings -> ListingStatuses]
        /\ UNCHANGED now
    BY <1>0, <1>00, <1>7, PatchStatusesAreStatuses, RelistedTyped
       DEF ChangeProduct, PatchProduct, Rows
  <2>2. due' \in [Listings -> Nat \cup {None}]
    BY <1>0, <1>7 DEF ChangeProduct
  <2> QED
    BY <1>7, <2>1, <2>2, KeptTInv DEF ChangeProduct
<1>8. CASE RemoveProduct(p)
  <2>1. row' \in [Products -> Rows]
    BY <1>0, <1>8, SetStatusTyped DEF RemoveProduct, Statuses
  <2>2. listing' \in [Listings -> ListingStatuses]
    BY <1>0, <1>00, <1>8, RelistedTyped DEF RemoveProduct
  <2> QED
    BY <1>0, <1>8, <2>1, <2>2, KeptTInv DEF RemoveProduct
<1> QED
  BY <1>2, <1>3, <1>4, <1>5, <1>6, <1>7, <1>8 DEF Operator

LEMMA NextTInv == TInv /\ [Next]_vars => TInv'
<1> SUFFICES ASSUME TInv, [Next]_vars PROVE TInv'
  OBVIOUS
<1> USE DEF TInv, TypeOK, StoreTypeOK
<1>1. ASSUME NEW p \in Products, Operator(p) PROVE TInv'
  BY <1>1, OperatorTInv
<1>10. ASSUME NEW l \in Listings, ListingRequest(l) PROVE TInv'
  BY <1>10, ListingTInv
<1>2. ASSUME NEW p \in Products, PhotoToCome(p) PROVE TInv'
  BY <1>2 DEF PhotoToCome, storeVars, jobVars
<1>3. CASE Collect
  <2>1. gone' = {}
    BY <1>3 DEF Collect
  <2> QED
    BY <1>3, <2>1 DEF Collect, Publishable, ProductsOf, Listings, storeVars
<1>4. CASE Upload
  BY <1>4 DEF Upload, storeVars
<1>5. CASE Commit
  <2>1. row' \in [Products -> Rows]
    BY <1>5 DEF Commit, OnSale, Rows, Statuses
  <2> QED
    BY <1>5, <2>1 DEF Commit, EndRun, ListingStatuses
<1>6. CASE UploadFails
  BY <1>6 DEF UploadFails, EndRun, storeVars
<1>7. CASE Dies
  BY <1>7 DEF Dies, EndRun, storeVars
<1>8. CASE Tick /\ UNCHANGED <<due, waiting, jobVars, uploads>>
  BY <1>8 DEF Tick, jobVars
<1>9. CASE UNCHANGED vars
  BY <1>9 DEF vars, storeVars, jobVars
<1> QED
  BY <1>1, <1>2, <1>3, <1>4, <1>5, <1>6, <1>7, <1>8, <1>9, <1>10
  DEF Next, Job

\* Every variable keeps its type under all requests and every step of the job.
THEOREM PublishTypeCorrect == Spec => []TypeOK
<1>1. TInv => TypeOK
  BY DEF TInv
<1> QED
  BY <1>1, InitTInv, NextTInv, PTL DEF Spec

-----------------------------------------------------------------------------
(* Uploads *)

LEMMA InitIInv == Init => IInv
<1> SUFFICES ASSUME Init PROVE IInv
  OBVIOUS
<1>1. listing \in [Listings -> ListingStatuses]
  BY DEF Init, StoreInit, ListingStatuses
<1> QED
  BY <1>1 DEF Init, IInv, UploadsOK

\* A new schedule starts with no uploads.
LEMMA ScheduleIInv ==
    ASSUME IInv, NEW l \in Listings, NEW at, ScheduleListing(l, at)
    PROVE  IInv'
BY DEF ScheduleListing, jobVars, IInv, UploadsOK, ListingStatuses

LEMMA WriteIInv ==
    ASSUME IInv, NEW l \in Listings, NEW status \in ListingStatuses, NEW at,
           WriteListing(l, status, at)
    PROVE  IInv'
BY DEF WriteListing, jobVars, IInv, UploadsOK

\* The other requests schedule nothing.
LEMMA OtherIInv ==
    ASSUME IInv, listing' \in [Listings -> ListingStatuses], Kept,
           \A l \in Listings : listing'[l] = "scheduled" => listing[l] = "scheduled"
    PROVE  IInv'
BY DEF Kept, jobVars, IInv, UploadsOK

LEMMA ListingIInv == ASSUME IInv, NEW l \in Listings, ListingRequest(l) PROVE IInv'
<1>1. CASE (\E at \in Times : ScheduleProduct(l, at) \/ ScheduleBulk(l, at)) \/ BulkPublish(l)
  BY <1>1, ScheduleIInv DEF ScheduleProduct, ScheduleBulk, BulkPublish
<1>2. CASE CreateListing(l) \/ PatchListing(l) \/ EditListing(l)
  BY <1>2, WriteIInv DEF CreateListing, PatchListing, EditListing, Existing, ListingStatuses
<1>3. CASE DeleteListing(l)
  BY <1>3 DEF DeleteListing, IInv, UploadsOK, ListingStatuses
<1> QED
  BY <1>1, <1>2, <1>3 DEF ListingRequest

LEMMA OperatorIInv == ASSUME IInv, NEW p \in Products, Operator(p) PROVE IInv'
<1>0. listing \in [Listings -> ListingStatuses] /\ "draft" \in ListingStatuses
  BY DEF IInv, ListingStatuses
\* What goes back to draft is not scheduled.
<1>1. ASSUME NEW from
      PROVE  /\ Relisted(p, from, "draft") \in [Listings -> ListingStatuses]
             /\ \A l \in Listings : Relisted(p, from, "draft")[l] = "scheduled"
                                     => listing[l] = "scheduled"
  BY <1>0 DEF Relisted
<1>2. CASE BulkSchedule(p)
  <2>1. listing' \in [Listings -> ListingStatuses]
    BY <1>0, <1>2, RelistedTyped DEF BulkSchedule, ListingStatuses
  <2>2. ASSUME NEW l \in Listings, uploads'[l] # 0
        PROVE  listing'[l] = listing[l] /\ uploads'[l] = uploads[l]
    BY <1>2, <2>2 DEF BulkSchedule, ListingsOf, Relisted, Existing
  <2> QED
    BY <1>2, <2>1, <2>2 DEF BulkSchedule, jobVars, IInv, UploadsOK
<1>3. CASE CancelSchedule(p)
  BY <1>1, <1>3, OtherIInv DEF CancelSchedule
<1>4. CASE CancelScheduled(p) \/ EditProduct(p)
  BY <1>0, <1>4, OtherIInv DEF CancelScheduled, EditProduct
<1>5. CASE ChangeProduct(p) \/ RemoveProduct(p)
  BY <1>0, <1>1, <1>5, OtherIInv DEF ChangeProduct, PatchProduct, RemoveProduct
<1>6. CASE CreateProduct(p)
  BY <1>0, <1>6, OtherIInv DEF CreateProduct
<1> QED
  BY <1>2, <1>3, <1>4, <1>5, <1>6 DEF Operator

LEMMA NextIInv == IInv /\ [Next]_vars => IInv'
<1> SUFFICES ASSUME IInv, [Next]_vars PROVE IInv'
  OBVIOUS
<1>1. ASSUME NEW p \in Products, Operator(p) PROVE IInv'
  BY <1>1, OperatorIInv
<1>10. ASSUME NEW l \in Listings, ListingRequest(l) PROVE IInv'
  BY <1>10, ListingIInv
<1>2. ASSUME NEW p \in Products, PhotoToCome(p) PROVE IInv'
  BY <1>2 DEF PhotoToCome, storeVars, jobVars, IInv, UploadsOK
<1>3. CASE Collect
  BY <1>3 DEF Collect, Publishable, IsDue, storeVars, IInv, UploadsOK
<1>4. CASE Upload
  BY <1>4 DEF Upload, storeVars, IInv, UploadsOK
<1>5. CASE Commit
  BY <1>5 DEF Commit, EndRun, IInv, UploadsOK, ListingStatuses
<1>6. CASE UploadFails
  BY <1>6 DEF UploadFails, EndRun, storeVars, IInv, UploadsOK
<1>7. CASE Dies
  BY <1>7 DEF Dies, EndRun, storeVars, IInv, UploadsOK
<1>8. CASE Tick /\ UNCHANGED <<due, waiting, jobVars, uploads>>
  BY <1>8 DEF Tick, jobVars, IInv, UploadsOK
<1>9. CASE UNCHANGED vars
  BY <1>9 DEF vars, storeVars, jobVars, IInv, UploadsOK
<1> QED
  BY <1>1, <1>2, <1>3, <1>4, <1>5, <1>6, <1>7, <1>8, <1>9, <1>10
  DEF Next, Job

\* No schedule is uploaded twice unless the run that uploaded it died, however
\* the operator's requests fall between a run's query, its upload and its commit.
THEOREM UploadedOnce == Spec => []OneUploadPerSchedule
<1>1. IInv => OneUploadPerSchedule
  <2> SUFFICES ASSUME IInv, NEW l \in Listings PROVE uploads[l] <= 1
    BY DEF OneUploadPerSchedule
  <2>1. uploads[l] \in {0, 1}
    BY DEF IInv, UploadsOK
  <2> QED
    BY <2>1
<1> QED
  BY <1>1, InitIInv, NextIInv, PTL DEF Spec
=============================================================================
