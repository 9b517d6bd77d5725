------------------------- MODULE RemovalAuditProofs -------------------------
(***************************************************************************)
(* Proofs about RemovalAudit, for any products, ads, jobs, times and       *)
(* bounds: a job's removals are dated, nothing is destroyed early, and     *)
(* what the operator removed, and what a job found out, holds.             *)
(***************************************************************************)
EXTENDS RemovalAudit, AvitoJobsProofs

\* The cleanup has p in its session.
CleaningUp(p) == \E j \in Jobs : j = "cleanup" /\ p \in loaded[j]

\* What any step does to the columns of p that say whether it is removed, and
\* to its row.
Effect(p) ==
    /\ row'[p].life = "deleted" => row[p].life = "deleted" \/ CleaningUp(p)
    /\ row'[p].removedAt \in {row[p].removedAt, None, now}
    /\ row'[p].status = "removed" => row'[p].removedAt \in {row[p].removedAt, now}
    /\ row'[p].life = "live" => row[p].life = "live" \/ row'[p].status # "removed"

\* A step of a job, moreover, does not remove p without dating it.
JobEffect(p) ==
    /\ Effect(p)
    /\ row'[p].status = "removed" => row[p].status = "removed" \/ row'[p].removedAt = now

\* Job j puts p on sale again only if it did not see the dated removal.
Held(j, p) ==
    /\ row[p].status = "removed" /\ row[p].removedAt # None /\ row'[p].status # "removed"
    /\ p \in Live
    => p \in loaded[j] /\ (j \in PutsOnSale \/ ~RemovedIn(copy[j][p]))

\* The import marks p, which it has selected as stale.
MarksStale(p) == p \in stale \ stale' /\ row'[p].status = "removed"

\* Job j only leaves p with a verdict that it has given under guard or has found, and
\* only takes one away under guard; repost, publishing and the marking of stale
\* rows do without.
VerdictStep(j, p) ==
    /\ row'[p].status \in Verdicts =>
          \/ row'[p].version > row[p].version
          \/ ~Changed(p) /\ row'[p].version = row[p].version
    /\ row[p].status \in Verdicts /\ row'[p].status # row[p].status /\ p \in Live
          => \/ MarksStale(p)
             \/ p \in loaded[j] /\ (j \in PutsOnSale \/ copy[j][p].version = row[p].version)

\* The jobs that load products on sale do not load removed ones.
OnSaleLoaded ==
    \A j \in Jobs : j \in {"declined", "sold"} =>
        \A p \in loaded[j] : copy[j][p].status # "removed"

-----------------------------------------------------------------------------
(* The jobs' writes *)

\* A guarded write leaves the row or gives it the new columns.
LEMMA SafeUpdateColumns ==
    ASSUME NEW r \in Rows, NEW v \in Nat, NEW to \in Rows
    PROVE  \/ SafeUpdate(r, v, to) = r
           \/ /\ r.life = "live" /\ SafeUpdate(r, v, to).life = to.life
              /\ SafeUpdate(r, v, to).status = to.status
              /\ SafeUpdate(r, v, to).removedAt = to.removedAt
              /\ r.version = v /\ SafeUpdate(r, v, to).version > v
BY DEF SafeUpdate, Rows

LEMMA DeclinedEffect ==
    ASSUME TypeOK, OnSaleLoaded, DeclinedApply, NEW p \in Products
    PROVE  JobEffect(p) /\ Held("declined", p) /\ VerdictStep("declined", p)
<1>1. PICK answer \in Answers :
        row' = [q \in Products |->
                  IF q \in loaded["declined"]
                  THEN DeclinedRow(row[q], copy["declined"][q], answer[q])
                  ELSE row[q]]
  BY DEF DeclinedApply
<1>2. "declined" \in Jobs
  BY DEF DeclinedApply, Applying
<1> DEFINE r == row[p]
           c == copy["declined"][p]
           to == [r EXCEPT !.status = "paused"]
           tr == [r EXCEPT !.status = "removed", !.removedAt = now]
           ta == [r EXCEPT !.status = "active"]
<1>3. r \in Rows /\ c.version \in Nat
  BY <1>2 DEF TypeOK, StoreTypeOK, Copies
<1>4. /\ to \in Rows /\ to.life = r.life /\ to.status = "paused" /\ to.removedAt = r.removedAt
      /\ tr \in Rows /\ tr.life = r.life /\ tr.status = "removed" /\ tr.removedAt = now
      /\ ta \in Rows /\ ta.life = r.life /\ ta.status = "active" /\ ta.removedAt = r.removedAt
  BY <1>3 DEF Rows, Statuses, TypeOK, StoreTypeOK
<1>5. \/ row'[p] = r
      \/ /\ p \in loaded["declined"]
         /\ \E w \in {to, tr, ta} : row'[p] = SafeUpdate(r, c.version, w)
  BY <1>1 DEF DeclinedRow
<1> HIDE DEF to, tr, ta
<1>6. \/ row'[p] = r
      \/ /\ p \in loaded["declined"] /\ r.life = "live" /\ row'[p].life = "live"
         /\ \/ row'[p].status # "removed" /\ row'[p].removedAt = r.removedAt
            \/ row'[p].status = "removed" /\ row'[p].removedAt = now
         /\ c.version = r.version /\ row'[p].version > r.version
  BY <1>3, <1>4, <1>5, SafeUpdateColumns
<1>7. p \in loaded["declined"] => ~RemovedIn(c)
  BY <1>2 DEF OnSaleLoaded, RemovedIn
<1> QED
  BY <1>6, <1>7 DEF JobEffect, Effect, Held, VerdictStep, Changed

LEMMA SoldEffect ==
    ASSUME TypeOK, OnSaleLoaded, SoldApply, NEW p \in Products
    PROVE  JobEffect(p) /\ Held("sold", p) /\ VerdictStep("sold", p)
<1> DEFINE r == row[p]
           c == copy["sold"][p]
           to == [r EXCEPT !.status = "sold"]
<1>1. "sold" \in Jobs
  BY DEF SoldApply, Applying
<1>2. r \in Rows /\ c.version \in Nat
  BY <1>1 DEF TypeOK, StoreTypeOK, Copies
<1>3. to \in Rows /\ to.life = r.life /\ to.status = "sold" /\ to.removedAt = r.removedAt
  BY <1>2 DEF Rows, Statuses
<1>4. row'[p] = r \/ (p \in loaded["sold"] /\ row'[p] = SafeUpdate(r, c.version, to))
  BY DEF SoldApply
<1> HIDE DEF to
<1>5. \/ row'[p] = r
      \/ /\ p \in loaded["sold"] /\ r.life = "live"
         /\ row'[p].status = "sold" /\ row'[p].removedAt = r.removedAt
         /\ row'[p].life = "live"
         /\ c.version = r.version /\ row'[p].version > r.version
  BY <1>2, <1>3, <1>4, SafeUpdateColumns
<1>6. p \in loaded["sold"] => ~RemovedIn(c)
  BY <1>1 DEF OnSaleLoaded, RemovedIn
<1> QED
  BY <1>5, <1>6 DEF JobEffect, Effect, Held, VerdictStep, Changed

LEMMA ImportEffect ==
    ASSUME TypeOK, ImportApply, NEW p \in Products
    PROVE  JobEffect(p) /\ Held("import", p) /\ VerdictStep("import", p)
<1> DEFINE r == row[p]
           c == copy["import"][p]
           back == [r EXCEPT !.status = "imported", !.removedAt = None]
           fresh == listed["import"] \ Known
<1>1. "import" \in Jobs /\ stale \subseteq Live /\ stale' = {}
  BY DEF ImportApply, Close
<1>2. r \in Rows /\ c.version \in Nat /\ now \in Nat
  BY <1>1 DEF TypeOK, StoreTypeOK, Copies
<1>3. PICK new \in SUBSET Products, key \in [Ads -> Products] :
        /\ \A q \in new : row[q].life = "unborn"
        /\ row' = [q \in Products |->
                     IF q \in new
                     THEN NewRow("imported", CHOOSE a \in fresh : key[a] = q, FALSE)
                     ELSE ImportedRow(q)]
  BY DEF ImportApply
<1>4. CASE p \in new
  <2>1. /\ row'[p].status = "imported" /\ row'[p].removedAt = None
        /\ r.life = "unborn" /\ row'[p].life = "live"
    BY <1>3, <1>4 DEF NewRow
  <2> QED
    BY <2>1 DEF JobEffect, Effect, Held, VerdictStep, Verdicts, Live
<1>5. CASE p \notin new
  <2>1. row'[p] = ImportedRow(p)
    BY <1>3, <1>5
  <2>2. \/ row'[p] = r
        \/ p \in stale /\ row'[p] = StaleRow(p)
        \/ /\ p \in loaded["import"] /\ Restorable(c)
           /\ row'[p] = SafeUpdate(r, c.version, back)
    BY <2>1 DEF ImportedRow
  <2>3. back \in Rows /\ back.life = r.life /\ back.status = "imported" /\ back.removedAt = None
    BY <1>2 DEF Rows, Statuses
  <2> HIDE DEF back
  <2>4. CASE row'[p] = r
    BY <2>4 DEF JobEffect, Effect, Held, VerdictStep, Changed
  <2>5. CASE p \in stale /\ row'[p] = StaleRow(p)
    <3>1. /\ row'[p].removedAt = now /\ row'[p].life = r.life /\ r.life = "live"
          /\ row'[p].version = r.version /\ row'[p].status \in {r.status, "removed"}
      BY <1>1, <1>2, <2>5 DEF StaleRow, Rows, Live
    <3>2. JobEffect(p) /\ Held("import", p)
      BY <3>1 DEF JobEffect, Effect, Held
    <3>3. VerdictStep("import", p)
      BY <1>1, <2>5, <3>1 DEF VerdictStep, Verdicts, MarksStale, Changed
    <3> QED
      BY <3>2, <3>3
  <2>6. CASE /\ p \in loaded["import"] /\ Restorable(c)
             /\ row'[p] = SafeUpdate(r, c.version, back)
    <3>1. \/ row'[p] = r
          \/ /\ r.life = "live" /\ row'[p].life = "live"
             /\ row'[p].status = "imported" /\ row'[p].removedAt = None
             /\ c.version = r.version /\ row'[p].version > r.version
      BY <1>2, <2>3, <2>6, SafeUpdateColumns
    <3>2. ~RemovedIn(c)
      BY <2>6 DEF Restorable, RemovedIn
    <3> QED
      BY <2>6, <3>1, <3>2 DEF JobEffect, Effect, Held, VerdictStep, Changed
  <2> QED
    BY <2>2, <2>4, <2>5, <2>6
<1> QED
  BY <1>4, <1>5

LEMMA CleanupEffect ==
    ASSUME TypeOK, CleanupApply, NEW p \in Products
    PROVE  JobEffect(p) /\ Held("cleanup", p) /\ VerdictStep("cleanup", p)
<1>1. PICK gone \in {{}, loaded["cleanup"]} :
        row' = [q \in Products |->
                  IF q \in gone THEN [row[q] EXCEPT !.life = "deleted"] ELSE row[q]]
  BY DEF CleanupApply
<1>2. row[p] \in Rows
  BY DEF TypeOK, StoreTypeOK
<1>3. /\ row'[p].status = row[p].status /\ row'[p].removedAt = row[p].removedAt
      /\ row'[p].version = row[p].version
      /\ row'[p].life = row[p].life
         \/ (p \in loaded["cleanup"] /\ row'[p].life = "deleted")
  BY <1>1, <1>2 DEF Rows
<1>4. "cleanup" \in Jobs
  BY DEF CleanupApply, Applying
<1> QED
  BY <1>3, <1>4 DEF CleaningUp, JobEffect, Effect, Held, VerdictStep, Changed

LEMMA PublishEffect ==
    ASSUME TypeOK, PublishApply, NEW p \in Products
    PROVE  JobEffect(p) /\ Held("publish", p) /\ VerdictStep("publish", p)
<1>1. row[p] \in Rows
  BY DEF TypeOK, StoreTypeOK
<1>2. /\ row'[p].removedAt = row[p].removedAt /\ row'[p].life = row[p].life
      /\ row'[p].version = row[p].version
      /\ \/ row'[p].status = row[p].status
         \/ p \in loaded["publish"] /\ row'[p].status = "active"
  BY <1>1 DEF PublishApply, Rows
<1> QED
  BY <1>2 DEF JobEffect, Effect, Held, VerdictStep, Verdicts, Changed, PutsOnSale

LEMMA RepostEffect ==
    ASSUME TypeOK, NEW q \in Products, RepostApply(q), NEW p \in Products
    PROVE  JobEffect(p) /\ Held("repost", p) /\ VerdictStep("repost", p)
<1>1. row[p] \in Rows /\ row \in [Products -> Rows]
  BY DEF TypeOK, StoreTypeOK
<1>2. /\ row'[p].removedAt = row[p].removedAt /\ row'[p].life = row[p].life
      /\ row'[p].version = row[p].version
      /\ row'[p].status = row[p].status \/ (p = q /\ row'[p].status = "active")
  BY <1>1 DEF RepostApply, Rows
<1>3. q \in loaded["repost"]
  BY DEF RepostApply
<1> QED
  BY <1>2, <1>3 DEF JobEffect, Effect, Held, VerdictStep, Verdicts, Changed, PutsOnSale

\* A step of a job that writes rows ends the job's run.
LEMMA JobStepEffect ==
    ASSUME IInv, OnSaleLoaded, JobStep
    PROVE  /\ now' = now
           /\ \A p \in Products : JobEffect(p)
           /\ \/ row' = row
              \/ \E j \in Jobs : /\ phase'[j] = "idle"
                                 /\ \A p \in Products : Held(j, p) /\ VerdictStep(j, p)
<1> USE DEF IInv
<1>1. ASSUME row' = row PROVE \A p \in Products : JobEffect(p)
  BY <1>1 DEF JobEffect, Effect
<1>2. ASSUME NEW j \in Jobs, Close(j) PROVE phase'[j] = "idle"
  BY <1>2 DEF Close, TypeOK
<1>3. CASE DeclinedApply
  <2>1. "declined" \in Jobs /\ Close("declined") /\ now' = now
    BY <1>3 DEF DeclinedApply, Applying
  <2> QED
    BY <1>2, <1>3, <2>1, DeclinedEffect
<1>4. CASE SoldApply
  <2>1. "sold" \in Jobs /\ Close("sold") /\ now' = now
    BY <1>4 DEF SoldApply, Applying
  <2> QED
    BY <1>2, <1>4, <2>1, SoldEffect
<1>5. CASE ImportApply
  <2>1. "import" \in Jobs /\ Close("import") /\ now' = now
    BY <1>5 DEF ImportApply
  <2> QED
    BY <1>2, <1>5, <2>1, ImportEffect
<1>6. CASE CleanupApply
  <2>1. "cleanup" \in Jobs /\ Close("cleanup") /\ now' = now
    BY <1>6 DEF CleanupApply, Applying
  <2> QED
    BY <1>2, <1>6, <2>1, CleanupEffect
<1>7. CASE \E q \in Products : RepostApply(q)
  <2>1. "repost" \in Jobs /\ Close("repost") /\ now' = now
    BY <1>7 DEF RepostApply, Applying
  <2> QED
    BY <1>2, <1>7, <2>1, RepostEffect
<1>8. CASE \/ DeclinedLoad \/ SoldLoad \/ ImportLoad \/ CleanupLoad \/ PublishLoad
           \/ \E q \in Products : RepostLoad(q)
  <2>1. row' = row /\ now' = now
    BY <1>8 DEF DeclinedLoad, SoldLoad, ImportLoad, CleanupLoad, PublishLoad, RepostLoad,
                Start, Load, storeVars
  <2> QED
    BY <1>1, <2>1
<1>9. CASE Fetch("sold") \/ Fetch("import") \/ ImportSelect \/ \E j \in Jobs : Abort(j)
  <2>1. row' = row /\ now' = now
    BY <1>9 DEF Fetch, ImportSelect, Abort, storeVars
  <2> QED
    BY <1>1, <2>1
<1>10. CASE PublishApply
  <2>1. "publish" \in Jobs /\ Close("publish") /\ now' = now
    BY <1>10 DEF PublishApply, Applying
  <2> QED
    BY <1>2, <1>10, <2>1, PublishEffect
<1> QED
  BY <1>3, <1>4, <1>5, <1>6, <1>7, <1>8, <1>9, <1>10 DEF JobStep

-----------------------------------------------------------------------------
(* The operator's writes *)

LEMMA RequestEffect ==
    ASSUME TypeOK, (\E q \in Products : Request(q)) \/ BulkRequest
    PROVE  now' = now /\ \A p \in Products : Effect(p)
<1>1. ASSUME NEW q \in Products, NEW p \in Products,
             (\E val \in PatchStatuses : PatchProduct(q, val))
               \/ DeleteProduct(q) \/ DeleteFromAvito(q)
      PROVE  row'[p].removedAt \in {row[p].removedAt, now}
  <2>1. row \in [Products -> Rows]
    BY DEF TypeOK, StoreTypeOK
  <2>2. \/ \E val \in PatchStatuses : row' = [row EXCEPT ![q].status = val]
        \/ row' = [row EXCEPT ![q].status = "removed", ![q].removedAt = now]
    BY <1>1 DEF PatchProduct, DeleteProduct, DeleteFromAvito
  <2> QED
    BY <2>1, <2>2 DEF Rows
<1>2. ASSUME BulkRequest, NEW p \in Products
      PROVE  row'[p].removedAt = row[p].removedAt
  BY <1>2 DEF BulkRequest, BulkActivate, TypeOK, StoreTypeOK, Rows
<1>3. ASSUME NEW q \in Products, Schedules(q), NEW p \in Products
      PROVE  row'[p].removedAt = row[p].removedAt
  <2>1. row' = row \/ row' = [row EXCEPT ![q].status = "scheduled"]
    BY <1>3 DEF Schedules
  <2> QED
    BY <2>1 DEF TypeOK, StoreTypeOK, Rows
<1>4. \A p \in Products : row'[p].removedAt \in {row[p].removedAt, now}
  BY <1>1, <1>2, <1>3 DEF Request, ProductRequest
<1> QED
  BY <1>4, RequestRows DEF Effect

-----------------------------------------------------------------------------
(* The inductive invariant *)

\* A date in a row is no earlier than the date the record has of its first
\* removal, so the rows the cleanup has selected were removed long ago.
DatesOK ==
    /\ \A p \in Products : row[p].removedAt # None =>
         audit[p].dated # None /\ audit[p].dated <= row[p].removedAt
    /\ \A p \in Products : audit[p].dated # None => audit[p].dated <= now

SelectedLongAgo == \A p \in Products : CleaningUp(p) => RemovedLongAgo(p)

AuditInv ==
    /\ IInv
    /\ audit \in [Products -> Entries]
    /\ JobRemovalsAreDated
    /\ DatesOK
    /\ SelectedLongAgo
    /\ OnSaleLoaded

LEMMA AuditInitInv == AuditInit => AuditInv
<1> SUFFICES ASSUME AuditInit PROVE AuditInv
  OBVIOUS
<1>1. IInv
  BY InitIInv DEF AuditInit
<1>2. \A p \in Products : row[p].removedAt = None /\ row[p].status # "removed"
  <2> DEFINE S == {UnbornRow} \cup {NewRow("draft", None, ph) : ph \in BOOLEAN}
                    \cup {NewRow("active", a, ph) : a \in Ads, ph \in BOOLEAN}
  <2>1. row \in [Products -> S]
    BY DEF AuditInit, Init, StoreInit
  <2>2. \A r \in S : r.removedAt = None /\ r.status # "removed"
    BY DEF UnbornRow, NewRow
  <2> HIDE DEF S
  <2> QED
    BY <2>1, <2>2
<1>3. \A j \in Jobs : loaded[j] = {}
  BY DEF AuditInit, Init
<1> QED
  BY <1>1, <1>2, <1>3
  DEF AuditInit, AuditInv, Entries, JobRemovalsAreDated, Live, DatesOK, SelectedLongAgo,
      CleaningUp, OnSaleLoaded

\* The record after a step of anybody that does no more than Effect.
LEMMA AuditedOK ==
    ASSUME AuditInv, NEW who \in {"operator", "job"}, Audited(who), now' = now,
           row' \in [Products -> Rows], \A p \in Products : Effect(p)
    PROVE  /\ audit' \in [Products -> Entries]
           /\ DatesOK'
           /\ \A p \in Products : RemovedLongAgo(p) => RemovedLongAgo(p)'
           /\ \A p \in Products : audit'[p].by = IF Changed(p) THEN who ELSE audit[p].by
<1>1. now \in Nat /\ None \notin Nat
  BY NoneIsNoValue DEF AuditInv, IInv, TypeOK, StoreTypeOK
<1>2. ASSUME NEW p \in Products
      PROVE  /\ audit'[p] \in Entries
             /\ audit'[p].by = IF Changed(p) THEN who ELSE audit[p].by
             /\ audit'[p].dated = IF row'[p].removedAt # None /\ audit[p].dated = None
                                  THEN now ELSE audit[p].dated
  <2>1. audit[p] \in Entries
    BY DEF AuditInv
  <2> QED
    BY <1>1, <2>1 DEF Audited, Entries
<1>3. audit' \in [Products -> Entries]
  BY <1>2 DEF Audited
<1>4. ASSUME NEW p \in Products
      PROVE  /\ row'[p].removedAt # None =>
                  audit'[p].dated # None /\ audit'[p].dated <= row'[p].removedAt
             /\ audit'[p].dated # None => audit'[p].dated <= now'
  <2>1. /\ row'[p].removedAt \in {row[p].removedAt, None, now}
        /\ row'[p].removedAt \in Nat \cup {None} /\ row[p].removedAt \in Nat \cup {None}
        /\ audit[p].dated \in Nat \cup {None}
    BY DEF Effect, AuditInv, Entries, IInv, TypeOK, StoreTypeOK, Rows
  <2>2. /\ row[p].removedAt # None =>
             audit[p].dated # None /\ audit[p].dated <= row[p].removedAt
        /\ audit[p].dated # None => audit[p].dated <= now
    BY DEF AuditInv, DatesOK
  <2> QED
    BY <1>1, <1>2, <2>1, <2>2
<1>5. \A p \in Products : RemovedLongAgo(p) => RemovedLongAgo(p)'
  BY <1>2 DEF RemovedLongAgo
<1> QED
  BY <1>2, <1>3, <1>4, <1>5 DEF DatesOK

\* The sessions after a step of a job: what is loaded is what the queries select.
LEMMA JobSessions ==
    ASSUME AuditInv, JobStep
    PROVE  OnSaleLoaded' /\ \A p \in Products : CleaningUp(p)' => RemovedLongAgo(p)
<1> USE DEF AuditInv, IInv
<1>1. ASSUME NEW j \in Jobs, Close(j)
      PROVE  OnSaleLoaded' /\ \A p \in Products : CleaningUp(p)' => RemovedLongAgo(p)
  BY <1>1 DEF Close, TypeOK, OnSaleLoaded, SelectedLongAgo, CleaningUp
<1>2. ASSUME NEW j \in Jobs, Fetch(j)
      PROVE  OnSaleLoaded' /\ \A p \in Products : CleaningUp(p)' => RemovedLongAgo(p)
  BY <1>2 DEF Fetch, OnSaleLoaded, SelectedLongAgo, CleaningUp
<1>3. ASSUME NEW j \in Jobs, NEW S \in SUBSET Live, Load(j, S),
             j \in {"declined", "sold"} => \A p \in S : row[p].status # "removed",
             j = "cleanup" => \A p \in S : RemovedLongAgo(p)
      PROVE  OnSaleLoaded' /\ \A p \in Products : CleaningUp(p)' => RemovedLongAgo(p)
  <2>1. S \in SUBSET Products
    BY DEF Live
  <2>2. \A p \in S : copy'[j][p].status = row[p].status
    BY <1>3, <2>1 DEF Load, Copy, TypeOK
  <2>3. OnSaleLoaded'
    BY <1>3, <2>2 DEF Load, OnSaleLoaded, TypeOK
  <2>4. \A p \in Products : CleaningUp(p)' => RemovedLongAgo(p)
    BY <1>3 DEF Load, CleaningUp, SelectedLongAgo, TypeOK
  <2> QED
    BY <2>3, <2>4
<1>4. CASE DeclinedLoad
  BY <1>3, <1>4 DEF DeclinedLoad, Start, OnSale
<1>5. CASE SoldLoad
  BY <1>3, <1>5 DEF SoldLoad
<1>6. CASE ImportLoad
  BY <1>3, <1>6 DEF ImportLoad
<1>7. CASE CleanupLoad
  <2>1. ASSUME NEW p \in Live, Expired(row[p]) PROVE RemovedLongAgo(p)
    <3>1. /\ p \in Products /\ row[p].removedAt \in Nat \cup {None}
          /\ audit[p].dated \in Nat \cup {None} /\ now \in Nat
      BY DEF Live, Entries, TypeOK, StoreTypeOK, Rows
    <3>2. /\ row[p].removedAt # None /\ row[p].removedAt + Grace < now
          /\ audit[p].dated # None /\ audit[p].dated <= row[p].removedAt
      BY <2>1, <3>1 DEF Expired, DatesOK
    <3> QED
      BY <3>1, <3>2, GraceIsNat DEF RemovedLongAgo
  <2> QED
    BY <1>3, <1>7, <2>1 DEF CleanupLoad, Start
<1>8. ASSUME NEW p \in Products, RepostLoad(p)
      PROVE  OnSaleLoaded' /\ \A q \in Products : CleaningUp(q)' => RemovedLongAgo(q)
  <2>1. {p} \in SUBSET Live
    BY <1>8 DEF RepostLoad
  <2> QED
    BY <1>3, <1>8, <2>1 DEF RepostLoad, Start
<1>9. CASE \/ DeclinedApply \/ SoldApply \/ ImportApply \/ CleanupApply \/ PublishApply
           \/ \E p \in Products : RepostApply(p)
  BY <1>1, <1>9 DEF DeclinedApply, SoldApply, ImportApply, CleanupApply, PublishApply,
                    RepostApply, Applying
<1>10. CASE Fetch("sold") \/ Fetch("import") \/ ImportSelect
  BY <1>2, <1>10 DEF Fetch, ImportSelect, OnSaleLoaded, SelectedLongAgo, CleaningUp
<1>11. CASE \E j \in Jobs : Abort(j)
  BY <1>1, <1>11 DEF Abort
<1>12. CASE PublishLoad
  <2>1. PICK B \in SUBSET Listings : /\ \A l \in B : l[1] \in Live
                                    /\ Start("publish", {l[1] : l \in B})
    BY <1>12 DEF PublishLoad
  <2>2. {l[1] : l \in B} \in SUBSET Live
    BY <2>1
  <2> QED
    BY <1>3, <2>1, <2>2 DEF Start
<1> QED
  BY <1>4, <1>5, <1>6, <1>7, <1>8, <1>9, <1>10, <1>11, <1>12 DEF JobStep

LEMMA AuditNextInv == AuditInv /\ [AuditNext]_auditVars => AuditInv'
<1> SUFFICES ASSUME AuditInv, [AuditNext]_auditVars PROVE AuditInv'
  OBVIOUS
<1>1. IInv'
  <2>1. AuditNext => Next
    BY DEF AuditNext, Next
  <2> QED
    BY <2>1, NextIInv DEF AuditInv, auditVars
<1>2. row' \in [Products -> Rows]
  BY <1>1 DEF IInv, TypeOK, StoreTypeOK
<1>3. CASE JobStep /\ Audited("job")
  <2>1. now' = now /\ \A p \in Products : JobEffect(p)
    BY <1>3, JobStepEffect DEF AuditInv
  <2>2. /\ audit' \in [Products -> Entries] /\ DatesOK'
        /\ \A p \in Products : RemovedLongAgo(p) => RemovedLongAgo(p)'
        /\ \A p \in Products : audit'[p].by = IF Changed(p) THEN "job" ELSE audit[p].by
    BY <1>2, <1>3, <2>1, AuditedOK DEF JobEffect
  <2>3. JobRemovalsAreDated'
    <3> SUFFICES ASSUME NEW p \in Products, row'[p].life = "live", row'[p].status = "removed",
                        audit'[p].by = "job"
                 PROVE  row'[p].removedAt # None
      BY DEF JobRemovalsAreDated, Live
    <3>1. CASE row'[p].removedAt = now
      BY <3>1, NoneIsNoValue DEF AuditInv, IInv, TypeOK, StoreTypeOK
    <3>2. CASE row'[p].removedAt # now
      <4>1. /\ ~Changed(p) /\ row[p].life = "live" /\ row[p].status = "removed"
            /\ row'[p].removedAt = row[p].removedAt
        BY <2>1, <3>2 DEF JobEffect, Effect, Changed
      <4>2. audit[p].by = "job"
        BY <2>2, <4>1
      <4> QED
        BY <4>1, <4>2 DEF AuditInv, JobRemovalsAreDated, Live
    <3> QED
      BY <3>1, <3>2
  <2>4. OnSaleLoaded' /\ SelectedLongAgo'
    BY <1>3, <2>2, JobSessions DEF SelectedLongAgo
  <2> QED
    BY <1>1, <2>2, <2>3, <2>4 DEF AuditInv
<1>4. CASE ((\E p \in Products : Request(p)) \/ BulkRequest) /\ Audited("operator")
  <2>1. now' = now /\ \A p \in Products : Effect(p)
    BY <1>4, RequestEffect DEF AuditInv, IInv
  <2>2. /\ audit' \in [Products -> Entries] /\ DatesOK'
        /\ \A p \in Products : RemovedLongAgo(p) => RemovedLongAgo(p)'
        /\ \A p \in Products : audit'[p].by = IF Changed(p) THEN "operator" ELSE audit[p].by
    BY <1>2, <1>4, <2>1, AuditedOK
  <2>3. /\ loaded' = loaded /\ copy' = copy
        /\ \A p \in Products : row'[p].life = row[p].life
    BY <1>4, RequestRows DEF AuditInv, IInv, jobVars
  <2>4. JobRemovalsAreDated'
    <3> SUFFICES ASSUME NEW p \in Products, row'[p].life = "live", row'[p].status = "removed",
                        audit'[p].by = "job"
                 PROVE  row'[p].removedAt # None
      BY DEF JobRemovalsAreDated, Live
    <3>1. row[p].life = "live" /\ row[p].status = "removed" /\ audit[p].by = "job"
      BY <2>2, <2>3 DEF Changed
    <3>2. row[p].removedAt # None /\ now # None
      BY <3>1, NoneIsNoValue DEF AuditInv, IInv, TypeOK, StoreTypeOK, JobRemovalsAreDated, Live
    <3> QED
      BY <2>1, <3>2 DEF Effect
  <2>5. OnSaleLoaded' /\ SelectedLongAgo'
    BY <2>2, <2>3 DEF AuditInv, OnSaleLoaded, SelectedLongAgo, CleaningUp
  <2> QED
    BY <1>1, <2>2, <2>4, <2>5 DEF AuditInv
<1>5. CASE (UNCHANGED auditVars \/ \E a \in Ads : AdChanges(a)) /\ UNCHANGED audit
  <2>1. UNCHANGED <<row, now, loaded, copy, audit>>
    BY <1>5 DEF AdChanges, auditVars, vars, storeVars, jobVars
  <2> QED
    BY <1>1, <2>1
    DEF AuditInv, JobRemovalsAreDated, Live, DatesOK, SelectedLongAgo, CleaningUp,
        RemovedLongAgo, OnSaleLoaded
<1>6. CASE TimePasses /\ UNCHANGED audit
  <2>1. UNCHANGED <<row, loaded, copy, audit>> /\ now' = now + 1
    BY <1>6 DEF TimePasses, Tick, jobVars
  <2>2. now \in Nat /\ \A p \in Products : audit[p].dated \in Nat \cup {None}
    BY DEF AuditInv, IInv, TypeOK, StoreTypeOK, Entries
  <2>3. JobRemovalsAreDated' /\ OnSaleLoaded'
    BY <2>1 DEF AuditInv, JobRemovalsAreDated, Live, OnSaleLoaded
  <2>4. DatesOK'
    BY <2>1, <2>2 DEF AuditInv, DatesOK
  <2>5. SelectedLongAgo'
    BY <2>1, <2>2, GraceIsNat DEF AuditInv, SelectedLongAgo, CleaningUp, RemovedLongAgo
  <2> QED
    BY <1>1, <2>1, <2>3, <2>4, <2>5 DEF AuditInv
<1> QED
  BY <1>3, <1>4, <1>5, <1>6 DEF AuditNext, auditVars

\* Whatever a job removes carries a date, so that the feed and the cleanup see it.
THEOREM RemovalsDated == AuditSpec => []JobRemovalsAreDated
<1>1. AuditInv => JobRemovalsAreDated
  BY DEF AuditInv
<1> QED
  BY <1>1, AuditInitInv, AuditNextInv, PTL DEF AuditSpec

-----------------------------------------------------------------------------
(* The action properties *)

\* Only the cleanup, and a repost on its way, take photo directories away.
LEMMA MediaLost ==
    ASSUME IInv, JobStep, NEW p \in media \ media'
    PROVE  CleaningUp(p) \/ \E j \in Jobs : j = "repost" /\ p \in loaded[j] /\ phase'[j] = "idle"
<1> USE DEF IInv
<1>1. CASE CleanupApply
  BY <1>1 DEF CleanupApply, Applying, CleaningUp
<1>2. ASSUME NEW q \in Products, RepostApply(q)
      PROVE  \E j \in Jobs : j = "repost" /\ p \in loaded[j] /\ phase'[j] = "idle"
  <2>1. media' \in {media, media \cup {q}, media \ {q}}
    BY <1>2 DEF RepostApply
  <2>2. p = q /\ "repost" \in Jobs /\ q \in loaded["repost"] /\ phase'["repost"] = "idle"
    BY <1>2, <2>1 DEF RepostApply, Applying, Close, TypeOK
  <2> QED
    BY <2>2
<1>3. ASSUME NEW j \in Jobs, Abort(j)
      PROVE  CleaningUp(p) \/ (j = "repost" /\ p \in loaded[j] /\ phase'[j] = "idle")
  <2>1. p \in loaded[j] /\ j \in {"cleanup", "repost"} /\ phase'[j] = "idle"
    BY <1>3 DEF Abort, Close, TypeOK
  <2> QED
    BY <2>1 DEF CleaningUp
<1>4. CASE DeclinedApply \/ SoldApply \/ ImportApply \/ PublishApply
  BY <1>4 DEF DeclinedApply, SoldApply, ImportApply, PublishApply
<1>5. CASE \/ DeclinedLoad \/ SoldLoad \/ ImportLoad \/ CleanupLoad \/ PublishLoad
           \/ (\E q \in Products : RepostLoad(q))
           \/ Fetch("sold") \/ Fetch("import") \/ ImportSelect
  BY <1>5 DEF DeclinedLoad, SoldLoad, ImportLoad, CleanupLoad, PublishLoad, RepostLoad, Start,
              Load, Fetch, ImportSelect
<1> QED
  BY <1>1, <1>2, <1>3, <1>4, <1>5 DEF JobStep

\* No row and no photo directory goes before its product has been removed with a
\* date for longer than Grace.
THEOREM DestroyedLate == AuditSpec => NothingDestroyedEarly
<1>1. ASSUME AuditInv, AuditNext, NEW p \in Products, Destroyed(p)
      PROVE  RemovedLongAgo(p)
  <2>1. CASE JobStep
    <3>1. CleaningUp(p)
      BY <1>1, <2>1, JobStepEffect, MediaLost DEF AuditInv, JobEffect, Effect, Destroyed
    <3> QED
      BY <1>1, <3>1 DEF AuditInv, SelectedLongAgo
  <2>2. CASE (\E q \in Products : Request(q)) \/ BulkRequest
    BY <1>1, <2>2, RequestRows DEF AuditInv, IInv, Destroyed
  <2>3. CASE (\E a \in Ads : AdChanges(a)) \/ TimePasses
    BY <1>1, <2>3 DEF AdChanges, TimePasses, Tick, storeVars, Destroyed
  <2> QED
    BY <1>1, <2>1, <2>2, <2>3 DEF AuditNext
<1>2. ASSUME AuditInv, [AuditNext]_auditVars
      PROVE  [\A p \in Products : Destroyed(p) => RemovedLongAgo(p)]_auditVars
  BY <1>1, <1>2
<1> QED
  BY <1>2, AuditInitInv, AuditNextInv, PTL DEF AuditSpec, NothingDestroyedEarly

\* The jobs that put a product back on sale after the operator removed it are
\* those that read the row before, the operator's own repost, and the publishing
\* of a listing that is still, or again, scheduled.
THEOREM RemovalsHold == AuditSpec => OperatorRemovalsHold
<1> DEFINE Hold == JobStep =>
          \A p \in Live :
             /\ row[p].status = "removed" /\ row[p].removedAt # None
             /\ audit[p].by = "operator"
             /\ row'[p].status # "removed"
             => \E j \in Jobs : /\ p \in loaded[j] /\ phase'[j] = "idle"
                                 /\ (j \in PutsOnSale \/ ~RemovedIn(copy[j][p]))
<1>1. ASSUME AuditInv, JobStep, NEW p \in Live,
             row[p].status = "removed", row[p].removedAt # None, row'[p].status # "removed"
      PROVE  \E j \in Jobs : /\ p \in loaded[j] /\ phase'[j] = "idle"
                             /\ (j \in PutsOnSale \/ ~RemovedIn(copy[j][p]))
  <2>1. row' # row /\ p \in Products
    BY <1>1 DEF Live
  <2>2. PICK j \in Jobs : phase'[j] = "idle" /\ Held(j, p)
    BY <1>1, <2>1, JobStepEffect DEF AuditInv
  <2> QED
    BY <1>1, <2>2 DEF Held
<1>2. AuditInv => Hold
  BY <1>1
<1> HIDE DEF Hold
<1>3. AuditInv /\ [AuditNext]_auditVars => [Hold]_auditVars
  BY <1>2
<1>4. AuditSpec => [][Hold]_auditVars
  BY <1>3, AuditInitInv, AuditNextInv, PTL DEF AuditSpec
<1> QED
  BY <1>4 DEF Hold, OperatorRemovalsHold

-----------------------------------------------------------------------------
(* What a job has found out *)

\* A session that holds the present version of a row with a job's verdict holds
\* the verdict: it was given under guard, and the sessions loaded before are out of
\* date.
VerdictsKnown ==
    \A p \in Products : row[p].status \in Verdicts /\ audit[p].by = "job" =>
        \A j \in Jobs : p \in loaded[j] /\ copy[j][p].version = row[p].version
                             => copy[j][p].status = row[p].status

\* What is loaded after a step was loaded before or is loaded by it.
LEMMA CopiesAfter ==
    ASSUME IInv, Next, NEW j \in Jobs, NEW p \in loaded'[j]
    PROVE  \/ p \in loaded[j] /\ copy'[j][p] = copy[j][p]
           \/ copy'[j][p] = Copy(row[p]) /\ row' = row
<1>1. CASE Apart
  BY <1>1 DEF Apart
<1>2. ASSUME NEW k \in Jobs, Ending(k)
      PROVE  p \in loaded[j] /\ copy'[j][p] = copy[j][p]
  BY <1>2 DEF Ending, Close, IInv, TypeOK
<1>3. ASSUME NEW k \in Jobs, Loading(k)
      PROVE  \/ p \in loaded[j] /\ copy'[j][p] = copy[j][p]
             \/ copy'[j][p] = Copy(row[p]) /\ row' = row
  <2>1. PICK S \in SUBSET Products : Load(k, S)
    BY <1>3 DEF Loading, Live
  <2>2. row' = row /\ (j = k => p \in S)
    BY <2>1 DEF Load, storeVars, IInv, TypeOK
  <2> QED
    BY <2>1, <2>2 DEF Load, IInv, TypeOK
<1> QED
  BY <1>1, <1>2, <1>3, Sorted

LEMMA VerdictsInit == AuditInit => VerdictsKnown
BY DEF AuditInit, Init, VerdictsKnown

LEMMA VerdictsNext ==
    ASSUME AuditInv, AuditInv', VerdictsKnown, [AuditNext]_auditVars
    PROVE  VerdictsKnown'
<1>1. CASE AuditNext
  <2> SUFFICES ASSUME NEW p \in Products, row'[p].status \in Verdicts, audit'[p].by = "job",
                      NEW j \in Jobs, p \in loaded'[j], copy'[j][p].version = row'[p].version
               PROVE  copy'[j][p].status = row'[p].status
    BY DEF VerdictsKnown
  <2>1. Next
    BY <1>1 DEF AuditNext, Next
  <2>2. CASE copy'[j][p] = Copy(row[p]) /\ row' = row
    BY <2>2 DEF Copy
  <2>3. CASE p \in loaded[j] /\ copy'[j][p] = copy[j][p]
    <3>1. audit[p] \in Entries
      BY DEF AuditInv
    <3>2. copy[j][p].version <= row[p].version
      BY <2>3 DEF AuditInv, IInv, SessionsOK
    <3>3. copy[j][p].version \in Nat /\ row[p].version \in Nat /\ row'[p].version \in Nat
      BY DEF AuditInv, IInv, TypeOK, StoreTypeOK, Copies, Rows
    <3>4. audit[p].by = "job" /\ row'[p].status = row[p].status
             /\ row'[p].version = row[p].version
      <4>1. CASE JobStep /\ Audited("job")
        <5>1. row' = row \/ \E k \in Jobs : VerdictStep(k, p)
          BY <4>1, JobStepEffect DEF AuditInv
        <5>2. ~Changed(p) /\ row'[p].version = row[p].version
          BY <2>3, <3>2, <3>3, <5>1 DEF VerdictStep, Changed
        <5> QED
          BY <3>1, <4>1, <5>2 DEF Audited, Changed
      <4>2. CASE ((\E q \in Products : Request(q)) \/ BulkRequest) /\ Audited("operator")
        <5>1. ~Changed(p) /\ audit'[p].by = audit[p].by
          BY <3>1, <4>2 DEF Audited
        <5>2. row'[p].version = row[p].version
          BY <4>2, RequestRows DEF AuditInv, IInv
        <5> QED
          BY <5>1, <5>2 DEF Changed
      <4>3. CASE ((\E a \in Ads : AdChanges(a)) \/ TimePasses) /\ UNCHANGED audit
        BY <4>3 DEF AdChanges, TimePasses, Tick, storeVars
      <4> QED
        BY <1>1, <4>1, <4>2, <4>3 DEF AuditNext
    <3> QED
      BY <2>3, <3>4 DEF VerdictsKnown
  <2> QED
    BY <2>1, <2>2, <2>3, CopiesAfter DEF AuditInv
<1>2. CASE UNCHANGED auditVars
  BY <1>2 DEF auditVars, vars, storeVars, jobVars, VerdictsKnown
<1> QED
  BY <1>1, <1>2

\* A job that takes a product off the pause, or off the sale, that a job has found out
\* has read it; else it was repost, publishing, or the import's marking of a row
\* that it had selected before the verdict was committed.
THEOREM VerdictsHold == AuditSpec => VerdictsAreSeen
<1> DEFINE Seen == JobStep =>
          \A p \in Live :
             /\ row[p].status \in Verdicts /\ audit[p].by = "job"
             /\ row'[p].status # row[p].status
             => \/ MarksStale(p)
                \/ \E j \in Jobs : /\ p \in loaded[j] /\ phase'[j] = "idle"
                                   /\ (j \in PutsOnSale \/ copy[j][p].status = row[p].status)
<1>1. ASSUME AuditInv, VerdictsKnown, JobStep, NEW p \in Live,
             row[p].status \in Verdicts, audit[p].by = "job", row'[p].status # row[p].status
      PROVE  \/ MarksStale(p)
             \/ \E j \in Jobs : /\ p \in loaded[j] /\ phase'[j] = "idle"
                                /\ (j \in PutsOnSale \/ copy[j][p].status = row[p].status)
  <2>1. row' # row /\ p \in Products
    BY <1>1 DEF Live
  <2>2. PICK j \in Jobs : phase'[j] = "idle" /\ VerdictStep(j, p)
    BY <1>1, <2>1, JobStepEffect DEF AuditInv
  <2> QED
    BY <1>1, <2>1, <2>2 DEF VerdictStep, VerdictsKnown
<1>2. AuditInv /\ VerdictsKnown => Seen
  BY <1>1
<1> HIDE DEF Seen
<1>3. AuditInv /\ VerdictsKnown /\ [AuditNext]_auditVars => [Seen]_auditVars
  BY <1>2
<1>4. AuditInv /\ AuditInv' /\ VerdictsKnown /\ [AuditNext]_auditVars => VerdictsKnown'
  BY VerdictsNext
<1>5. AuditSpec => [][Seen]_auditVars
  BY <1>3, <1>4, AuditInitInv, VerdictsInit, AuditNextInv, PTL DEF AuditSpec
<1> QED
  BY <1>5 DEF Seen, VerdictsAreSeen, MarksStale
=============================================================================
