------------------------- MODULE FeedsChangeProofs -------------------------
(***************************************************************************)
(* Proof that a change of a product reaches Avito: three undisturbed rounds*)
(* after it, for any number of products and workers, however many deaths   *)
(* and failures there were before.                                         *)
(*                                                                         *)
(* The first round may still be left out by the job, when a feed was made  *)
(* by hand before the change.  Whatever is read in it is read after the    *)
(* change; so when the second begins with a feed made by hand, that feed   *)
(* is right, and otherwise the job makes one that is.  Avito fetches it by *)
(* the end of the second round, and nothing read earlier is left.          *)
(***************************************************************************)
EXTENDS FeedsProofs

\* What a feed has to say of p, as the row is now.
Right(p, said) ==
    /\ product[p].sale = "in" => said = {"offer"}
    /\ product[p].sale = "out" => said = {}
    /\ product[p].sale \in {"removed", "deleted"} => said \subseteq {"removal"}
    /\ product[p].sale = "removed" /\ Young(product[p]) => said = {"removal"}

LatestRight(p) == latest \in Contents => Right(p, latest[p])

\* Removed, and possibly no longer in the store.
Gone(p) == product[p].sale \in {"removed", "deleted"}

\* A feed that is right of p does tell Avito what became of it.
CanTell(p) == Gone(p) => product[p].sale = "removed" /\ Young(product[p])

\* Avito has heard of it.
Told(p) ==
    /\ product[p].sale = "in" => avito[p] = "live"
    /\ Gone(p) => avito[p] # "live"

\* After the first round that has passed since the change: what is being generated
\* was read after it, and so is a feed by which the job may be kept from its next.
ReadAnew(p) ==
    /\ product[p].sale = "removed" => product[p].known
    /\ \A g \in Generators :
          /\ gen[g].pc = "offers" => gen[g].ads[p] = AdFor(product[p])
          /\ gen[g].pc \in {"read", "writing", "written", "exported"} => Right(p, gen[g].ads[p])
          /\ gen[g].pc \in {"writing", "written"} => LatestRight(p)
    /\ stage # "due" /\ recent = TRUE => LatestRight(p)

\* After the second: the feed is right once the job has had its minute, and Avito
\* has heard of it once it came, as long as the round is undisturbed.
Served(p) ==
    /\ recent = TRUE => LatestRight(p)
    /\ stage = "ran" /\ hitch = FALSE /\ gen["job"].pc = "idle" => LatestRight(p)
    /\ stage = "fetched" /\ hitch = FALSE =>
          /\ LatestRight(p)
          /\ CanTell(p) => Told(p)

Settled(p) ==
    /\ clean[p] >= 1 => ReadAnew(p)
    /\ clean[p] >= 2 => Served(p)
    /\ clean[p] >= 3 => LatestRight(p) /\ Told(p)

AllSettled == \A p \in Products : Settled(p)

-----------------------------------------------------------------------------
(* Steps that leave feeds and rounds alone *)

\* Right and Told depend on the row of p, and on Avito, only.
LEMMA RightKept ==
    ASSUME NEW p \in Products, product'[p] = product[p]
    PROVE  /\ \A said : Right(p, said)' = Right(p, said)
           /\ latest' = latest => LatestRight(p)' = LatestRight(p)
           /\ CanTell(p)' = CanTell(p)
           /\ avito' = avito => Told(p)' = Told(p)
BY DEF Right, LatestRight, CanTell, Told, Gone, Young

\* The row may be forgotten, or learn its avito_id.
LEMMA RowKept ==
    ASSUME NEW p \in Products, Settled(p), clean'[p] = clean[p],
           UNCHANGED <<avito, gen, latest, recent, stage, hitch>>,
           \/ product'[p] = product[p]
           \/ /\ product'[p].sale = product[p].sale /\ product'[p].since = product[p].since
              /\ product'[p].known
           \/ /\ product[p].sale = "removed" /\ product'[p].sale = "deleted"
              /\ product'[p].since = product[p].since /\ ~Young(product[p])
    PROVE  Settled(p)'
<1>1. /\ \A said : Right(p, said) => Right(p, said)'
      /\ LatestRight(p) => LatestRight(p)'
      /\ Told(p) => Told(p)'
      /\ AdFor(product'[p]) = AdFor(product[p])
      /\ product'[p].sale = "removed" => product[p].sale = "removed"
      /\ product'[p].sale = "removed" /\ product[p].known => product'[p].known
      /\ CanTell(p)' = CanTell(p)
  BY DEF Right, LatestRight, CanTell, Told, Gone, AdFor, Offered, Young
<1>2. ReadAnew(p) => ReadAnew(p)'
  BY <1>1 DEF ReadAnew
<1>3. Served(p) => Served(p)'
  BY <1>1 DEF Served
<1> QED
  BY <1>1, <1>2, <1>3 DEF Settled

\* A product that has just changed has nothing to keep.
LEMMA NothingToKeep == ASSUME NEW p \in Products, clean'[p] = 0 PROVE Settled(p)'
BY DEF Settled

LEMMA StoreSettled ==
    ASSUME TypeOK, AllSettled, ProductStep \/ CleanUp, NEW p \in Products
    PROVE  Settled(p)'
<1>0. Settled(p) /\ product \in [Products -> Rows] /\ clean \in [Products -> 0..Rounds]
  BY Typed DEF AllSettled
<1>1. ASSUME NEW q \in Products, NEW r, Changes(q, r) PROVE Settled(p)'
  <2>1. CASE p = q
    BY <1>0, <1>1, <2>1, NothingToKeep DEF Changes
  <2>2. CASE p # q
    <3>1. product'[p] = product[p] /\ clean'[p] = clean[p]
      BY <1>0, <1>1, <2>2 DEF Changes
    <3> QED
      BY <1>0, <1>1, <3>1, RowKept DEF Changes
  <2> QED
    BY <2>1, <2>2
<1>2. ASSUME NEW q \in Products, FillAvitoId(q) PROVE Settled(p)'
  <2>1. \/ product'[p] = product[p]
        \/ /\ product'[p].sale = product[p].sale /\ product'[p].since = product[p].since
           /\ product'[p].known
    BY <1>0, <1>2 DEF FillAvitoId, Rows
  <2> QED
    BY <1>0, <1>2, <2>1, RowKept DEF FillAvitoId, clock
<1>3. CASE CleanUp
  <2>1. \/ product'[p] = product[p]
        \/ /\ product[p].sale = "removed" /\ product'[p].sale = "deleted"
           /\ product'[p].since = product[p].since /\ ~Young(product[p])
    BY <1>0, <1>3 DEF CleanUp, Rows
  <2> QED
    BY <1>0, <1>3, <2>1, RowKept DEF CleanUp, clock
<1> QED
  BY <1>1, <1>2, <1>3 DEF ProductStep, PutOnSale, TakeOff, PatchRemoved, Delete, Repost

LEMMA StillSettled ==
    ASSUME AllSettled, NEW p \in Products, UNCHANGED <<store, gen, latest, clock>>
    PROVE  Settled(p)'
BY RowKept DEF AllSettled, store, clock

LEMMA WorkerSettled ==
    ASSUME TypeOK, AllSettled, NEW w \in Workers, WorkerStarts(w) \/ WorkerDies(w),
           NEW p \in Products
    PROVE  Settled(p)'
<1>1. CASE WorkerStarts(w)
  BY <1>1, StillSettled DEF WorkerStarts
<1>2. CASE WorkerDies(w)
  <2>1. /\ \A g \in Generators : gen'[g] = gen[g] \/ gen'[g].pc = "idle"
        /\ hitch' = TRUE /\ UNCHANGED <<store, latest, recent, stage, clean>>
    BY <1>2 DEF WorkerDies, NoGeneration
  <2>2. product'[p] = product[p] /\ Settled(p)
    BY <2>1 DEF store, AllSettled
  <2>3. ReadAnew(p) => ReadAnew(p)'
    BY <2>1, <2>2, RightKept DEF ReadAnew
  <2>4. Served(p) => Served(p)'
    BY <2>1, <2>2, RightKept DEF Served
  <2> QED
    BY <2>1, <2>2, <2>3, <2>4, RightKept DEF Settled, store
<1> QED
  BY <1>1, <1>2

-----------------------------------------------------------------------------
(* Generations *)

LEMMA ReadRemovalsSettled ==
    ASSUME TypeOK, AllSettled, NEW g \in Generators, ReadRemovals(g), NEW p \in Products
    PROVE  Settled(p)'
<1>1. /\ gen[g].pc = "offers" /\ gen \in [Generators -> Generations]
      /\ UNCHANGED <<store, workers, latest, clock>> /\ Settled(p)
      /\ product[p] \in Rows
  BY DEF ReadRemovals, TypeOK, AllSettled
<1>2. /\ gen'[g].pc = "read"
      /\ gen'[g].ads[p] = gen[g].ads[p] \cup IF Announced(product[p]) THEN {"removal"} ELSE {}
      /\ \A h \in Generators \ {g} : gen'[h] = gen[h]
  BY <1>1 DEF ReadRemovals, Generations, Contents
<1>3. product'[p] = product[p] /\ clean' = clean /\ recent' = recent /\ stage' = stage
      /\ hitch' = hitch /\ avito' = avito
  BY <1>1 DEF store, clock
<1>4. ReadAnew(p) => Right(p, gen'[g].ads[p])
  BY <1>1, <1>2 DEF ReadAnew, Right, AdFor, Offered, Announced, Rows
<1>5. ReadAnew(p) => ReadAnew(p)'
  BY <1>1, <1>2, <1>3, <1>4, RightKept DEF ReadAnew
<1>6. Served(p) => Served(p)'
  BY <1>1, <1>2, <1>3, RightKept DEF Served, Generators
<1> QED
  BY <1>1, <1>3, <1>5, <1>6, RightKept DEF Settled

LEMMA OpenLatestSettled ==
    ASSUME TypeOK, AllSettled, NEW g \in Generators, OpenLatest(g), NEW p \in Products
    PROVE  Settled(p)'
<1>1. /\ gen[g].pc = "read" /\ gen \in [Generators -> Generations]
      /\ UNCHANGED <<store, workers, clock>> /\ Settled(p)
  BY DEF OpenLatest, TypeOK, AllSettled
<1>2. /\ gen'[g].pc = "writing" /\ gen'[g].ads = gen[g].ads
      /\ \A h \in Generators \ {g} : gen'[h] = gen[h]
  BY <1>1 DEF OpenLatest, Generations
<1>3. product'[p] = product[p] /\ clean' = clean /\ recent' = recent /\ stage' = stage
      /\ hitch' = hitch /\ avito' = avito
  BY <1>1 DEF store, clock
<1>4. LatestRight(p)'
  BY TornIsNoFeed DEF OpenLatest, LatestRight, Contents
<1>5. ReadAnew(p) => ReadAnew(p)'
  BY <1>1, <1>2, <1>3, <1>4, RightKept DEF ReadAnew
<1>6. Served(p) => Served(p)'
  BY <1>1, <1>3, <1>4, RightKept DEF Served
<1> QED
  BY <1>1, <1>3, <1>4, <1>5, <1>6, RightKept DEF Settled

LEMMA WriteLatestSettled ==
    ASSUME TypeOK, AllSettled, NEW g \in Generators, WriteLatest(g), NEW p \in Products
    PROVE  Settled(p)'
<1>1. /\ gen[g].pc = "writing" /\ gen \in [Generators -> Generations]
      /\ UNCHANGED <<store, workers, clock>> /\ Settled(p) /\ clean[p] \in Nat
      /\ latest' = gen[g].ads \/ latest' = Torn
  BY DEF WriteLatest, TypeOK, AllSettled, Outcomes
<1>2. /\ gen'[g].pc = "written" /\ gen'[g].ads = gen[g].ads
      /\ \A h \in Generators \ {g} : gen'[h].pc = gen[h].pc /\ gen'[h].ads = gen[h].ads
  BY <1>1 DEF WriteLatest, Generations
<1>3. product'[p] = product[p] /\ clean' = clean /\ recent' = recent /\ stage' = stage
      /\ hitch' = hitch /\ avito' = avito
  BY <1>1 DEF store, clock
<1>4. ASSUME ReadAnew(p) PROVE LatestRight(p)'
  <2>1. Right(p, gen[g].ads[p])
    BY <1>1, <1>4 DEF ReadAnew
  <2>2. Right(p, gen[g].ads[p])'
    BY <1>2, <1>3, <2>1 DEF Right
  <2>3. Contents' = Contents
    BY DEF Contents
  <2> QED
    BY <1>1, <1>3, <2>1, <2>3, TornIsNoFeed DEF LatestRight, Right
<1>5. ReadAnew(p) => ReadAnew(p)'
  <2>1. \A h \in Generators : /\ gen'[h].ads = gen[h].ads
                              /\ gen'[h].pc = gen[h].pc \/ (gen[h].pc = "writing" /\ gen'[h].pc = "written")
    BY <1>1, <1>2
  <2>2. /\ \A said : Right(p, said)' = Right(p, said)
        /\ AdFor(product'[p]) = AdFor(product[p])
    BY <1>3, RightKept
  <2> QED
    BY <1>3, <1>4, <2>1, <2>2 DEF ReadAnew
<1>6. ReadAnew(p) /\ Served(p) => Served(p)'
  BY <1>3, <1>4, RightKept DEF Served
<1> QED
  BY <1>1, <1>3, <1>4, <1>5, <1>6, RightKept DEF Settled

LEMMA CommitExportSettled ==
    ASSUME TypeOK, AllSettled, NEW g \in Generators, CommitExport(g), NEW p \in Products
    PROVE  Settled(p)'
<1>1. /\ gen[g].pc = "written" /\ gen \in [Generators -> Generations]
      /\ UNCHANGED <<store, latest, stage, hitch, clean>> /\ Settled(p) /\ clean[p] \in Nat
  BY DEF CommitExport, TypeOK, AllSettled
<1>2. /\ gen'[g].pc = "idle" \/ (gen'[g].pc = "exported" /\ gen'[g].ads = gen[g].ads)
      /\ \A h \in Generators \ {g} : gen'[h] = gen[h]
  BY <1>1 DEF CommitExport, Generations, NoGeneration
<1>3. product'[p] = product[p] /\ avito' = avito
  BY <1>1 DEF store
<1>4. ReadAnew(p) => LatestRight(p)
  BY <1>1 DEF ReadAnew
<1>5. ReadAnew(p) => ReadAnew(p)'
  BY <1>1, <1>2, <1>3, <1>4, RightKept DEF ReadAnew
<1>6. ReadAnew(p) /\ Served(p) => Served(p)'
  BY <1>1, <1>3, <1>4, RightKept DEF Served
<1> QED
  BY <1>1, <1>3, <1>5, <1>6, RightKept DEF Settled

LEMMA GenerationFailsSettled ==
    ASSUME TypeOK, AllSettled, NEW g \in Generators, GenerationFails(g), NEW p \in Products
    PROVE  Settled(p)'
<1>1. /\ \A h \in Generators : gen'[h] = gen[h] \/ gen'[h].pc = "idle"
      /\ hitch' = TRUE /\ UNCHANGED <<store, latest, recent, stage, clean>>
      /\ Settled(p)
  BY DEF GenerationFails, TypeOK, NoGeneration, AllSettled
<1>2. product'[p] = product[p] /\ avito' = avito
  BY <1>1 DEF store
<1>3. (ReadAnew(p) => ReadAnew(p)') /\ (Served(p) => Served(p)')
  BY <1>1, <1>2, RightKept DEF ReadAnew, Served
<1> QED
  BY <1>1, <1>2, <1>3, RightKept DEF Settled

\* What a generation reads first is as the rows are.
LEMMA StartReads ==
    ASSUME TypeOK, NEW g \in Generators, NEW w, Start(g, w), NEW p \in Products
    PROVE  /\ gen'[g].pc = "offers" /\ gen'[g].ads[p] = AdFor(product[p])
           /\ \A h \in Generators \ {g} : gen'[h] = gen[h]
BY DEF Start, TypeOK

LEMMA StartSettled ==
    ASSUME TypeOK, AllSettled, GenerateRequest \/ JobGenerates, NEW p \in Products
    PROVE  Settled(p)'
<1>1. /\ UNCHANGED <<store, latest, recent, hitch, clean>> /\ product'[p] = product[p]
      /\ avito' = avito /\ Settled(p) /\ recent \in BOOLEAN
  BY DEF GenerateRequest, JobGenerates, store, clock, AllSettled, TypeOK
<1>2. CASE GenerateRequest
  <2>1. PICK w \in Workers : Start("request", w)
    BY <1>2 DEF GenerateRequest
  <2>2. /\ gen'["request"].pc = "offers" /\ gen'["request"].ads[p] = AdFor(product[p])
        /\ \A h \in Generators \ {"request"} : gen'[h] = gen[h]
    BY <2>1, StartReads DEF Generators
  <2>3. stage' = stage
    BY <1>2 DEF GenerateRequest, clock
  <2>4. ReadAnew(p) => ReadAnew(p)'
    BY <1>1, <2>2, <2>3, RightKept DEF ReadAnew
  <2>5. Served(p) => Served(p)'
    BY <1>1, <2>2, <2>3, RightKept DEF Served, Generators
  <2> QED
    BY <1>1, <2>4, <2>5, RightKept DEF Settled
<1>3. CASE JobGenerates
  <2>1. /\ gen'["job"].pc = "offers" /\ gen'["job"].ads[p] = AdFor(product[p])
        /\ \A h \in Generators \ {"job"} : gen'[h] = gen[h]
    BY <1>3, StartReads DEF JobGenerates, Generators
  <2>2. recent' = FALSE /\ stage' = "ran"
    BY <1>1, <1>3 DEF JobGenerates
  <2>3. ReadAnew(p) => ReadAnew(p)'
    BY <1>1, <2>1, <2>2, RightKept DEF ReadAnew
  <2>4. Served(p) => Served(p)'
    BY <1>1, <2>1, <2>2, RightKept DEF Served
  <2> QED
    BY <1>1, <2>3, <2>4, RightKept DEF Settled
<1> QED
  BY <1>2, <1>3

-----------------------------------------------------------------------------
(* The round *)

\* The job leaves its minute out, an export is deleted, or Avito does not come.
LEMMA LeftOutSettled ==
    ASSUME TypeOK, AllSettled, JobSkips \/ JobMissesMinute \/ DeleteExport \/ AvitoStaysAway,
           NEW p \in Products
    PROVE  Settled(p)'
<1>1. /\ UNCHANGED <<store, gen, latest, clean>> /\ product'[p] = product[p]
      /\ avito' = avito /\ Settled(p) /\ recent \in BOOLEAN
  BY DEF JobSkips, JobMissesMinute, DeleteExport, AvitoStaysAway, store, AllSettled, TypeOK
<1>2. CASE JobSkips
  <2>1. recent = TRUE /\ recent' = FALSE /\ stage' = "ran"
    BY <1>1, <1>2 DEF JobSkips
  <2>2. (ReadAnew(p) => ReadAnew(p)') /\ (Served(p) => Served(p)')
    BY <1>1, <2>1, RightKept DEF ReadAnew, Served
  <2> QED
    BY <1>1, <2>2, RightKept DEF Settled
<1>3. CASE JobMissesMinute \/ DeleteExport
  <2>1. recent' = FALSE /\ ((stage' = stage /\ hitch' = hitch) \/ hitch' = TRUE)
    BY <1>3 DEF JobMissesMinute, DeleteExport
  <2>2. (ReadAnew(p) => ReadAnew(p)') /\ (Served(p) => Served(p)')
    BY <1>1, <2>1, RightKept DEF ReadAnew, Served
  <2> QED
    BY <1>1, <2>2, RightKept DEF Settled
<1>4. CASE AvitoStaysAway
  <2>1. stage = "ran" /\ stage' = "fetched" /\ hitch' = TRUE /\ recent' = recent
    BY <1>4 DEF AvitoStaysAway
  <2>2. (ReadAnew(p) => ReadAnew(p)') /\ (Served(p) => Served(p)')
    BY <1>1, <2>1, RightKept DEF ReadAnew, Served
  <2> QED
    BY <1>1, <2>2, RightKept DEF Settled
<1> QED
  BY <1>2, <1>3, <1>4

\* A feed that is right of p tells Avito, and takes nothing back.
LEMMA HearsRight ==
    ASSUME NEW p \in Products, product[p] \in Rows, product'[p] = product[p],
           NEW ads, Hears(ads), Right(p, ads[p])
    PROVE  /\ Told(p) => Told(p)'
           /\ CanTell(p) => Told(p)'
<1>1. avito'[p] \in Heard(avito[p], ads[p])
  BY DEF Hears
<1>2. CASE product[p].sale = "in"
  BY <1>1, <1>2 DEF Right, Heard, Told, Gone
<1>3. CASE Gone(p)
  <2>1. ads[p] = {} \/ ads[p] = {"removal"}
    BY <1>3 DEF Gone, Right
  <2>2. CASE ads[p] = {}
    BY <1>1, <1>3, <2>2 DEF Gone, CanTell, Right, Heard, Told
  <2>3. CASE ads[p] = {"removal"}
    <3>1. {"removal"} # {} /\ {"removal"} # {"offer"}
      OBVIOUS
    <3>2. avito'[p] \in {IF avito[p] = "absent" THEN "absent" ELSE "stopped"}
      BY <1>1, <2>3, <3>1 DEF Heard
    <3> QED
      BY <1>3, <3>2 DEF Gone, Told
  <2> QED
    BY <2>1, <2>2, <2>3
<1> QED
  BY <1>2, <1>3 DEF Told, Gone

LEMMA ServedSettled ==
    ASSUME TypeOK, AllSettled, AvitoFetches \/ TriggerUpload, NEW p \in Products
    PROVE  Settled(p)'
<1>1. /\ UNCHANGED <<product, gen, latest, clean, recent>> /\ product'[p] = product[p]
      /\ ServeFeed /\ Settled(p) /\ product[p] \in Rows /\ hitch \in BOOLEAN /\ clean[p] \in Nat
  BY DEF AvitoFetches, TriggerUpload, clock, AllSettled, TypeOK
<1>2. LatestRight(p) => (Told(p) => Told(p)')
  <2>1. CASE latest \in Contents
    BY <1>1, <2>1, HearsRight DEF ServeFeed, LatestRight
  <2>2. CASE latest \notin Contents
    BY <1>1, <2>2, RightKept DEF ServeFeed
  <2> QED
    BY <2>1, <2>2
<1>3. LatestRight(p) /\ latest \in Contents
         => (CanTell(p) => Told(p)')
  BY <1>1, HearsRight DEF ServeFeed, LatestRight
<1>4. CASE AvitoFetches
  <2>1. stage = "ran" /\ gen["job"].pc = "idle" /\ stage' = "fetched"
        /\ (hitch' = FALSE => hitch = FALSE /\ latest \in Contents)
    BY <1>1, <1>4 DEF AvitoFetches
  <2>2. ReadAnew(p) => ReadAnew(p)'
    BY <1>1, <2>1, RightKept DEF ReadAnew
  <2>3. Served(p) => Served(p)'
    BY <1>1, <1>3, <2>1, RightKept DEF Served
  <2> QED
    BY <1>1, <1>2, <2>2, <2>3, RightKept DEF Settled
<1>5. CASE TriggerUpload
  <2>1. stage' = stage /\ hitch' = hitch
    BY <1>5 DEF TriggerUpload, clock
  <2>2. ReadAnew(p) => ReadAnew(p)'
    BY <1>1, <2>1, RightKept DEF ReadAnew
  <2>3. Served(p) => Served(p)'
    <3>1. LatestRight(p) /\ (CanTell(p) => Told(p))
             => (CanTell(p) => Told(p)')
      BY <1>2
    <3> QED
      BY <1>1, <2>1, <3>1, RightKept DEF Served
  <2> QED
    BY <1>1, <1>2, <2>2, <2>3, RightKept DEF Settled
<1> QED
  BY <1>4, <1>5

LEMMA UploadSettled ==
    ASSUME TypeOK, AllSettled, UploadExport, NEW p \in Products
    PROVE  Settled(p)'
<1>1. /\ gen["request"].pc = "exported" /\ UNCHANGED <<product, latest, clock>>
      /\ product'[p] = product[p] /\ product[p] \in Rows /\ Settled(p) /\ clean[p] \in Nat
      /\ clean' = clean /\ recent' = recent /\ stage' = stage /\ hitch' = hitch
      /\ Hears(gen["request"].ads) \/ avito' = avito
  BY DEF UploadExport, clock, AllSettled, TypeOK
<1>2. /\ gen'["request"].pc = "idle" /\ gen'["job"] = gen["job"]
      /\ \A h \in Generators \ {"request"} : gen'[h] = gen[h]
  BY DEF UploadExport, TypeOK, NoGeneration, Generators
<1>3. ASSUME ReadAnew(p)
      PROVE  /\ Told(p) => Told(p)'
             /\ CanTell(p) => (Told(p) => Told(p)')
  <2>1. Right(p, gen["request"].ads[p])
    BY <1>1, <1>3 DEF ReadAnew, Generators
  <2>2. CASE Hears(gen["request"].ads)
    BY <1>1, <2>1, <2>2, HearsRight
  <2>3. CASE avito' = avito
    BY <1>1, <2>3, RightKept
  <2> QED
    BY <1>1, <2>2, <2>3
<1>4. ReadAnew(p) => ReadAnew(p)'
  BY <1>1, <1>2, RightKept DEF ReadAnew
<1>5. ReadAnew(p) /\ Served(p) => Served(p)'
  BY <1>1, <1>2, <1>3, RightKept DEF Served
<1> QED
  BY <1>1, <1>3, <1>4, <1>5, RightKept DEF Settled

LEMMA NextHourSettled ==
    ASSUME TypeOK, AllSettled, NextHour, NEW p \in Products
    PROVE  Settled(p)'
<1>1. /\ stage = "fetched" /\ \A g \in Generators : gen[g].pc = "idle"
      /\ stage' = "due" /\ UNCHANGED <<avito, gen, latest, recent>>
      /\ Settled(p) /\ clean[p] \in Nat /\ product[p] \in Rows /\ Window \in Nat
  BY BoundsAreNat DEF NextHour, AllSettled, TypeOK
<1>2. /\ product'[p].sale = product[p].sale /\ product'[p].known = product[p].known
      /\ Young(product'[p]) => Young(product[p])
  <2>1. CASE Young(product[p])
    BY <1>1, <2>1 DEF NextHour, Rows
  <2>2. CASE ~Young(product[p])
    BY <2>2 DEF NextHour
  <2> QED
    BY <2>1, <2>2
<1>3. /\ LatestRight(p) => LatestRight(p)'
      /\ Told(p) => Told(p)'
  BY <1>1, <1>2 DEF LatestRight, Right, Told, Gone, Contents
<1>4. (product[p].sale = "removed" => product[p].known) => ReadAnew(p)'
  BY <1>1, <1>2 DEF ReadAnew
<1>5. (recent = TRUE => LatestRight(p)) => Served(p)'
  BY <1>1, <1>3 DEF Served
<1>6. CASE clean'[p] = clean[p]
  BY <1>1, <1>3, <1>4, <1>5, <1>6 DEF Settled, ReadAnew, Served
<1>7. CASE clean'[p] # clean[p]
  <2>1. /\ hitch = FALSE /\ clean'[p] = clean[p] + 1
        /\ CanTell(p) /\ (product[p].sale = "removed" => product[p].known)
    BY <1>7 DEF NextHour, TypeOK, CanTell, Gone
  <2>2. clean[p] >= 1 => Served(p)'
    BY <1>1, <1>5 DEF Settled, ReadAnew
  <2>3. clean[p] >= 2 => LatestRight(p)' /\ Told(p)'
    BY <1>1, <1>3, <2>1 DEF Settled, Served
  <2> QED
    BY <1>1, <1>4, <2>1, <2>2, <2>3 DEF Settled
<1> QED
  BY <1>6, <1>7

-----------------------------------------------------------------------------
LEMMA InitSettled == Init => AllSettled
BY DEF Init, AllSettled, Settled

LEMMA NextSettled == TypeOK /\ AllSettled /\ [Next]_vars => AllSettled'
<1> SUFFICES ASSUME TypeOK, AllSettled, [Next]_vars, NEW p \in Products
             PROVE  Settled(p)'
  BY DEF AllSettled
<1>1. CASE ProductStep \/ CleanUp
  BY <1>1, StoreSettled
<1>2. CASE \E w \in Workers : WorkerStarts(w) \/ WorkerDies(w)
  BY <1>2, WorkerSettled
<1>3. CASE \E g \in Generators : GenerationStep(g) \/ GenerationFails(g)
  BY <1>3, ReadRemovalsSettled, OpenLatestSettled, WriteLatestSettled, CommitExportSettled,
     GenerationFailsSettled DEF GenerationStep
<1>4. CASE GenerateRequest \/ JobGenerates
  BY <1>4, StartSettled
<1>5. CASE JobSkips \/ JobMissesMinute \/ DeleteExport \/ AvitoStaysAway
  BY <1>5, LeftOutSettled
<1>6. CASE AvitoFetches \/ TriggerUpload
  BY <1>6, ServedSettled
<1>7. CASE UploadExport
  BY <1>7, UploadSettled
<1>8. CASE UploadOlder
  BY <1>8, NothingToKeep DEF UploadOlder
<1>9. CASE NextHour
  BY <1>9, NextHourSettled
<1>10. CASE UNCHANGED vars
  BY <1>10, StillSettled DEF vars
<1> QED
  BY <1>1, <1>2, <1>3, <1>4, <1>5, <1>6, <1>7, <1>8, <1>9, <1>10 DEF Next

-----------------------------------------------------------------------------
(* Theorem *)

\* delete_from_avito: "Avito will deactivate the ad on next feed upload".  A change
\* of a product that is three or more undisturbed rounds old has reached Avito, and
\* no generation under way, however slow, takes it back.  (Two rounds are not enough.)
THEOREM ChangesArrive == ASSUME Rounds >= 3 PROVE Spec => []ChangeReachesAvito
<1>1. TypeOK /\ AllSettled => ChangeReachesAvito
  <2> SUFFICES ASSUME TypeOK, AllSettled, NEW p \in Products, clean[p] >= Rounds
               PROVE  /\ product[p].sale = "in" => avito[p] = "live"
                      /\ product[p].sale \in {"removed", "deleted"} => avito[p] # "live"
                      /\ product[p].sale = "out" /\ latest \in Contents => latest[p] = {}
    BY DEF ChangeReachesAvito
  <2>1. LatestRight(p) /\ Told(p)
    <3>1. clean[p] \in Nat /\ Rounds \in Nat
      BY BoundsAreNat DEF TypeOK
    <3> QED
      BY <3>1 DEF AllSettled, Settled
  <2> QED
    BY <2>1 DEF LatestRight, Right, Told, Gone
<1>2. Init => IInv /\ AllSettled
  BY InitIInv, InitSettled
<1>3. IInv /\ AllSettled /\ [Next]_vars => IInv' /\ AllSettled'
  BY NextIInv, NextSettled DEF IInv
<1>4. IInv => TypeOK
  BY DEF IInv
<1> QED
  BY <1>1, <1>2, <1>3, <1>4, PTL DEF Spec
=============================================================================
