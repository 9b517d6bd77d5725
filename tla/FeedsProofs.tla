---------------------------- MODULE FeedsProofs ----------------------------
(***************************************************************************)
(* Proofs that the variables of Feeds keep their types and that, while all *)
(* workers run, one of them is the scheduler; for any number of workers,   *)
(* products, rounds and deaths.                                            *)
(***************************************************************************)
EXTENDS Feeds, TLAPS

AvitoStates == [Products -> {"absent", "live", "stopped"}]

\* The lock belongs to a worker that runs, and when nobody has it, it is since its
\* holder died, who has not come back.
LockOK == lock = None => up # Workers

IInv == TypeOK /\ LockOK

-----------------------------------------------------------------------------
(* Values *)

LEMMA NothingIsSaid == NothingRead \in Contents /\ NoGeneration \in Generations
BY DEF NothingRead, Contents, NoGeneration, Generations

\* What TypeOK says, one variable at a time.
LEMMA Typed ==
    ASSUME TypeOK
    PROVE  /\ product \in [Products -> Rows] /\ gen \in [Generators -> Generations]
           /\ clean \in [Products -> 0..Rounds] /\ deaths \in Nat /\ deaths <= MaxDeaths
           /\ \A g \in Generators : /\ gen[g].ads \in Contents /\ gen[g].at \in Workers \cup {None}
                                    /\ gen[g].mixed \in BOOLEAN
BY BoundsAreNat DEF TypeOK, Generations

\* A generation goes on; the worker it runs in stays the same.
LEMMA GenerationTyped ==
    ASSUME TypeOK, NEW g \in Generators, NEW x \in Generations,
           gen' = [gen EXCEPT ![g] = x],
           x.pc # "idle" => x.at \in up, UNCHANGED up
    PROVE  /\ gen' \in [Generators -> Generations]
           /\ \A h \in Generators : gen'[h].pc # "idle" => gen'[h].at \in up'
BY DEF TypeOK

\* The next program counter of a generation.
LEMMA PcTyped ==
    ASSUME TypeOK, NEW g \in Generators, gen[g].pc # "idle",
           NEW pc \in {"offers", "read", "writing", "written", "exported"}
    PROVE  /\ [gen[g] EXCEPT !.pc = pc] \in Generations
           /\ [gen[g] EXCEPT !.pc = pc].at \in up
           /\ [gen EXCEPT ![g].pc = pc] = [gen EXCEPT ![g] = [gen[g] EXCEPT !.pc = pc]]
BY DEF TypeOK, Generations

-----------------------------------------------------------------------------
(* The steps *)

LEMMA InitIInv == Init => IInv
<1> SUFFICES ASSUME Init PROVE IInv
  OBVIOUS
<1>1. product \in [Products -> Rows]
  BY BoundsAreNat DEF Init, Rows
<1>2. clean \in [Products -> 0..Rounds] /\ deaths \in 0..MaxDeaths
  BY BoundsAreNat DEF Init
<1>3. gen \in [Generators -> Generations] /\ \A g \in Generators : gen[g].pc = "idle"
  BY NothingIsSaid DEF Init, NoGeneration
<1>4. LockOK
  BY WorkersAreSome DEF Init, LockOK
<1> QED
  BY <1>1, <1>2, <1>3, <1>4 DEF Init, IInv, TypeOK

\* Steps of the operator, and the cleanup.
LEMMA ProductIInv == IInv /\ (ProductStep \/ CleanUp) => IInv'
<1> SUFFICES ASSUME IInv, ProductStep \/ CleanUp PROVE IInv'
  OBVIOUS
<1>0. TypeOK /\ product \in [Products -> Rows] /\ clean \in [Products -> 0..Rounds] /\ 0 \in 0..Rounds
  BY Typed, BoundsAreNat DEF IInv
<1>1. ASSUME NEW p \in Products, NEW r \in Rows, Changes(p, r) PROVE IInv'
  <2>1. product' \in [Products -> Rows] /\ clean' \in [Products -> 0..Rounds]
    BY <1>0, <1>1 DEF Changes
  <2> QED
    BY <1>1, <2>1 DEF Changes, workers, IInv, TypeOK, LockOK
<1>2. ASSUME NEW p \in Products
      PROVE  /\ \A sale \in {"out", "in", "removed", "deleted"} :
                   [product[p] EXCEPT !.sale = sale] \in Rows
             /\ [product[p] EXCEPT !.sale = "removed", !.since = 0] \in Rows
             /\ [product[p] EXCEPT !.sale = "in", !.known = FALSE] \in Rows
             /\ [product[p] EXCEPT !.known = TRUE] \in Rows
  <2>1. product[p] \in Rows /\ 0 \in 0..Window
    BY <1>0, BoundsAreNat
  <2> QED
    BY <2>1 DEF Rows
<1>3. ASSUME NEW p \in Products, FillAvitoId(p) PROVE IInv'
  <2>1. product' \in [Products -> Rows]
    BY <1>0, <1>2, <1>3 DEF FillAvitoId
  <2> QED
    BY <1>3, <2>1 DEF FillAvitoId, workers, clock, IInv, TypeOK, LockOK
<1>4. CASE CleanUp
  <2>1. product' \in [Products -> Rows]
    BY <1>0, <1>2, <1>4 DEF CleanUp
  <2> QED
    BY <1>4, <2>1 DEF CleanUp, workers, clock, IInv, TypeOK, LockOK
<1>5. ASSUME NEW p \in Products,
             PutOnSale(p) \/ TakeOff(p) \/ PatchRemoved(p) \/ Delete(p) \/ Repost(p)
      PROVE  IInv'
  BY <1>1, <1>2, <1>5 DEF PutOnSale, TakeOff, PatchRemoved, Delete, Repost
<1> QED
  BY <1>3, <1>4, <1>5 DEF ProductStep

\* Steps of the workers.
LEMMA WorkerIInv ==
    ASSUME IInv, NEW w \in Workers, WorkerStarts(w) \/ WorkerDies(w) PROVE IInv'
<1>1. CASE WorkerStarts(w)
  <2>1. up' = up \cup {w} /\ UNCHANGED <<store, gen, latest, clock, deaths>>
        /\ lock' = IF lock = None THEN w ELSE lock
    BY <1>1 DEF WorkerStarts, LockOnStart
  <2>2. lock' \in up' /\ lock' # None
    BY <2>1, WorkersAreSome DEF IInv, TypeOK
  <2> QED
    BY <2>1, <2>2 DEF store, clock, IInv, TypeOK, LockOK
<1>2. CASE WorkerDies(w)
  <2>1. /\ up' = up \ {w} /\ lock' = (IF lock = w THEN None ELSE lock)
        /\ gen' = [g \in Generators |-> IF gen[g].at = w THEN NoGeneration ELSE gen[g]]
        /\ deaths' = deaths + 1 /\ deaths < MaxDeaths /\ hitch' = TRUE
        /\ UNCHANGED <<store, latest, recent, stage, clean>>
    BY <1>2 DEF WorkerDies, LockOnDeath
  <2>2. gen' \in [Generators -> Generations]
        /\ \A g \in Generators : gen'[g].pc # "idle" => gen'[g].at \in up'
    BY <2>1, NothingIsSaid DEF IInv, TypeOK, NoGeneration
  <2>3. deaths' \in 0..MaxDeaths
    BY <2>1, Typed, BoundsAreNat DEF IInv
  <2>4. lock' \in up' \cup {None} /\ up' # Workers
    BY <2>1 DEF IInv, TypeOK
  <2> QED
    BY <2>1, <2>2, <2>3, <2>4 DEF store, IInv, TypeOK, LockOK
<1> QED
  BY <1>1, <1>2

\* Steps of the generations.
LEMMA GenerationIInv ==
    ASSUME IInv, NEW g \in Generators, GenerationStep(g) \/ GenerationFails(g) PROVE IInv'
<1>0. TypeOK /\ gen \in [Generators -> Generations] /\ gen[g] \in Generations
  BY DEF IInv, TypeOK
<1>1. CASE ReadRemovals(g)
  <2> DEFINE said == [p \in Products |-> gen[g].ads[p] \cup
                         IF Announced(product[p]) THEN {"removal"} ELSE {}]
             x == [gen[g] EXCEPT !.pc = "read", !.ads = said]
  <2>1. gen' = [gen EXCEPT ![g] = x] /\ gen[g].pc # "idle"
        /\ UNCHANGED <<store, workers, latest, clock>>
    BY <1>0, <1>1 DEF ReadRemovals, Generations
  <2>2. said \in Contents
    BY <1>0 DEF Contents, Generations
  <2> HIDE DEF said
  <2>3. x \in Generations /\ x.at \in up
    BY <1>0, <2>1, <2>2 DEF Generations, TypeOK
  <2> HIDE DEF x
  <2>4. gen' \in [Generators -> Generations]
        /\ \A h \in Generators : gen'[h].pc # "idle" => gen'[h].at \in up'
    BY <1>0, <2>1, <2>3, GenerationTyped DEF workers
  <2> QED
    BY <2>1, <2>4 DEF store, workers, clock, IInv, TypeOK, LockOK
<1>2. CASE OpenLatest(g)
  <2>1. gen' = [gen EXCEPT ![g].pc = "writing"] /\ gen[g].pc # "idle" /\ latest' = Torn
        /\ UNCHANGED <<store, workers, clock>>
    BY <1>2 DEF OpenLatest
  <2>2. gen' \in [Generators -> Generations]
        /\ \A h \in Generators : gen'[h].pc # "idle" => gen'[h].at \in up'
    BY <1>0, <2>1, PcTyped, GenerationTyped DEF workers
  <2> QED
    BY <2>1, <2>2 DEF store, workers, clock, IInv, TypeOK, LockOK
<1>3. CASE WriteLatest(g)
  <2>1. /\ latest' \in Outcomes(g) /\ gen[g].pc = "writing"
        /\ UNCHANGED <<store, workers, clock>>
        /\ gen' = [h \in Generators |->
                     IF h = g THEN [gen[g] EXCEPT !.pc = "written"]
                     ELSE IF gen[h].pc = "writing" THEN [gen[h] EXCEPT !.mixed = TRUE]
                     ELSE gen[h]]
    BY <1>3 DEF WriteLatest
  <2>2. latest' \in Contents \cup {Torn}
    BY <1>0, <2>1 DEF Outcomes, Generations
  <2>3. ASSUME NEW h \in Generators
        PROVE  gen'[h] \in Generations /\ (gen'[h].pc # "idle" => gen'[h].at \in up)
    BY <1>0, <2>1 DEF Generations, TypeOK
  <2>4. gen' \in [Generators -> Generations]
    BY <2>1, <2>3
  <2> QED
    BY <2>1, <2>2, <2>3, <2>4 DEF store, workers, clock, IInv, TypeOK, LockOK
<1>4. CASE CommitExport(g)
  <2>1. /\ gen' = [gen EXCEPT ![g] = NoGeneration] \/ gen' = [gen EXCEPT ![g].pc = "exported"]
        /\ gen[g].pc # "idle" /\ recent' \in BOOLEAN
        /\ UNCHANGED <<store, workers, latest, stage, hitch, clean>>
    BY <1>0, <1>4 DEF CommitExport, RecentAfter, TypeOK
  <2>2. gen' \in [Generators -> Generations]
        /\ \A h \in Generators : gen'[h].pc # "idle" => gen'[h].at \in up'
    <3>1. CASE gen' = [gen EXCEPT ![g] = NoGeneration]
      BY <1>0, <2>1, <3>1, NothingIsSaid, GenerationTyped DEF workers, NoGeneration
    <3>2. CASE gen' = [gen EXCEPT ![g].pc = "exported"]
      BY <1>0, <2>1, <3>2, PcTyped, GenerationTyped DEF workers
    <3> QED
      BY <2>1, <3>1, <3>2
  <2> QED
    BY <2>1, <2>2 DEF store, workers, IInv, TypeOK, LockOK
<1>5. CASE GenerationFails(g)
  <2>1. /\ gen' = [gen EXCEPT ![g] = NoGeneration] /\ hitch' = TRUE
        /\ UNCHANGED <<store, workers, latest, recent, stage, clean>>
    BY <1>5 DEF GenerationFails
  <2>2. gen' \in [Generators -> Generations]
        /\ \A h \in Generators : gen'[h].pc # "idle" => gen'[h].at \in up'
    BY <1>0, <2>1, NothingIsSaid, GenerationTyped DEF workers, NoGeneration
  <2> QED
    BY <2>1, <2>2 DEF store, workers, IInv, TypeOK, LockOK
<1> QED
  BY <1>1, <1>2, <1>3, <1>4, <1>5 DEF GenerationStep

\* A generation is started.
LEMMA StartTyped ==
    ASSUME IInv, NEW g \in Generators, NEW w, Start(g, w), UNCHANGED up
    PROVE  /\ gen' \in [Generators -> Generations]
           /\ \A h \in Generators : gen'[h].pc # "idle" => gen'[h].at \in up'
<1> DEFINE said == [p \in Products |-> AdFor(product[p])]
           x == [pc |-> "offers", at |-> w, mixed |-> FALSE, ads |-> said]
<1>1. gen' = [gen EXCEPT ![g] = x] /\ w \in up
  BY DEF Start
<1>2. said \in Contents
  BY DEF Contents, AdFor
<1> HIDE DEF said
<1>3. x \in Generations /\ x.at \in up
  BY <1>1, <1>2 DEF Generations, IInv, TypeOK
<1> HIDE DEF x
<1> QED
  BY <1>1, <1>3, GenerationTyped DEF IInv

LEMMA RoundIInv ==
    IInv /\ (JobGenerates \/ JobSkips \/ JobMissesMinute \/ GenerateRequest \/ DeleteExport
               \/ AvitoFetches \/ AvitoStaysAway \/ TriggerUpload \/ UploadExport
               \/ UploadOlder \/ NextHour) => IInv'
<1> SUFFICES ASSUME IInv,
                    JobGenerates \/ JobSkips \/ JobMissesMinute \/ GenerateRequest
                      \/ DeleteExport \/ AvitoFetches \/ AvitoStaysAway \/ TriggerUpload
                      \/ UploadExport \/ UploadOlder \/ NextHour
             PROVE  IInv'
  OBVIOUS
<1>0. TypeOK /\ LockOK /\ clean \in [Products -> 0..Rounds] /\ 0 \in 0..Rounds
      /\ gen \in [Generators -> Generations]
  BY BoundsAreNat DEF IInv, TypeOK
<1>1. CASE JobGenerates
  BY <1>0, <1>1, StartTyped DEF JobGenerates, store, workers, IInv, TypeOK, LockOK, Generators
<1>2. CASE JobSkips \/ JobMissesMinute \/ DeleteExport \/ AvitoStaysAway
  BY <1>0, <1>2 DEF JobSkips, JobMissesMinute, DeleteExport, AvitoStaysAway, store, workers,
     IInv, TypeOK, LockOK
<1>3. CASE GenerateRequest
  BY <1>0, <1>3, StartTyped DEF GenerateRequest, store, workers, clock, IInv, TypeOK, LockOK,
     Generators
<1>4. ServeFeed => avito' \in AvitoStates
  BY <1>0 DEF ServeFeed, Hears, AvitoStates, TypeOK
<1>5. CASE AvitoFetches \/ TriggerUpload
  <2>1. hitch' \in BOOLEAN
    BY <1>0, <1>5 DEF AvitoFetches, TriggerUpload, clock, TypeOK
  <2> QED
    BY <1>0, <1>4, <1>5, <2>1 DEF AvitoFetches, TriggerUpload, workers, clock, AvitoStates,
       IInv, TypeOK, LockOK
<1>6. CASE UploadExport
  <2>1. /\ avito' \in AvitoStates /\ gen' = [gen EXCEPT !["request"] = NoGeneration]
        /\ UNCHANGED <<product, workers, latest, clock>>
    BY <1>0, <1>6 DEF UploadExport, Hears, AvitoStates, TypeOK
  <2>2. gen' \in [Generators -> Generations]
        /\ \A h \in Generators : gen'[h].pc # "idle" => gen'[h].at \in up'
    BY <1>0, <2>1, NothingIsSaid, GenerationTyped DEF workers, NoGeneration, Generators
  <2> QED
    BY <1>0, <2>1, <2>2 DEF workers, clock, AvitoStates, IInv, TypeOK, LockOK
<1>7. CASE UploadOlder
  <2>1. /\ avito' \in AvitoStates /\ clean' \in [Products -> 0..Rounds]
        /\ UNCHANGED <<product, workers, gen, latest, recent, stage, hitch>>
    BY <1>0, <1>7 DEF UploadOlder, Hears, AvitoStates
  <2> QED
    BY <1>0, <2>1 DEF workers, AvitoStates, IInv, TypeOK, LockOK
<1>8. CASE NextHour
  <2>1. product' \in [Products -> Rows]
    <3>1. ASSUME NEW r \in Rows, Young(r) PROVE [r EXCEPT !.since = @ + 1] \in Rows
      <4>1. r.since \in 0..Window /\ r.since < Window
        BY <3>1, BoundsAreNat DEF Rows, Young
      <4>2. r.since + 1 \in 0..Window
        BY <4>1, BoundsAreNat
      <4> QED
        BY <4>2 DEF Rows
    <3> QED
      BY <1>0, <1>8, <3>1 DEF NextHour, TypeOK
  <2>2. clean' \in [Products -> 0..Rounds]
    <3>1. ASSUME NEW p \in Products, clean[p] < Rounds PROVE clean[p] + 1 \in 0..Rounds
      <4>1. clean[p] \in 0..Rounds
        BY <1>0
      <4> QED
        BY <3>1, <4>1, BoundsAreNat
    <3> QED
      BY <1>0, <1>8, <3>1 DEF NextHour
  <2> QED
    BY <1>0, <1>8, <2>1, <2>2 DEF NextHour, workers, IInv, TypeOK, LockOK
<1> QED
  BY <1>1, <1>2, <1>3, <1>5, <1>6, <1>7, <1>8

LEMMA NextIInv == IInv /\ [Next]_vars => IInv'
<1>1. ASSUME IInv, UNCHANGED vars PROVE IInv'
  BY <1>1 DEF vars, store, workers, clock, IInv, TypeOK, LockOK
<1> QED
  BY <1>1, ProductIInv, WorkerIInv, GenerationIInv, RoundIInv DEF Next

-----------------------------------------------------------------------------
(* Theorems *)

\* All variables keep their types, wherever generations fail and workers die.
THEOREM FeedsTypeCorrect == Spec => []TypeOK
<1>1. IInv => TypeOK
  BY DEF IInv
<1> QED
  BY <1>1, InitIInv, NextIInv, PTL DEF Spec

\* While all workers run, one of them holds the lock and runs the scheduler.
THEOREM SomebodySchedules == Spec => []OneWorkerSchedules
<1>1. IInv => OneWorkerSchedules
  BY DEF IInv, LockOK, OneWorkerSchedules
<1> QED
  BY <1>1, InitIInv, NextIInv, PTL DEF Spec
=============================================================================
