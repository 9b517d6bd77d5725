---------------------------- MODULE LinkingProofs ----------------------------
(***************************************************************************)
(* Proofs about Linking, for any number of products and ads and any number *)
(* of programs under way: the types, that a program nobody overtook writes *)
(* what fits, replaces no product's ad and is complete, and that Linking   *)
(* implements AdLinks.                                                     *)
(***************************************************************************)
EXTENDS Linking, TLAPS

\* What a program will write fits the rows as they are.
Fitting(fill, A) ==
    /\ FilledBy(fill) \subseteq Unlinked
    /\ \A p, q \in FilledBy(fill) : fill[p] = fill[q] => p = q
    /\ Taken(fill) \cap Linked = {}
    /\ A \cap (Linked \cup Taken(fill)) = {}

\* The plan of a program that writes once: its products are there, and it has
\* everything the listing has, or the export.
PassOK(j) ==
    LET pl == plan[j] IN
    /\ Fitting(pl.fill, pl.new)
    /\ \A p \in Products : pl.seen[p] # Free => p \in Live
    /\ j = "sync" => known = Linked
    /\ j = "sync" /\ stage[j] = "pass3" => pl.todo \subseteq Linked \cup Taken(pl.fill) \cup pl.new
    /\ j = "cabinet" => /\ pl.fill = NoFill
                        /\ pl.new = pl.todo \ Linked
                        /\ pl.drop = Orphans(pl.todo)

\* What the import of rows loaded is still so, but for the ids it filled in; and an
\* ad still to come has no product but the one it had.
RowsOK ==
    LET pl == plan["excel"] IN
    /\ stage["excel"] = "rows"
    /\ \A p \in Products :
       /\ pl.seen[p] = None => link[p] # Free
       /\ pl.seen[p] = None /\ pl.fill[p] = None => link[p] = None
       /\ pl.seen[p] \in Ads => link[p] = pl.seen[p]
       /\ link[p] \in pl.todo => pl.seen[p] = link[p]

PlanOK(j) == IF j = "excel" THEN RowsOK ELSE PassOK(j)

IInv ==
    /\ TypeOK
    /\ \A j \in Programs :
          /\ stage[j] = "idle" => plan[j] = NoPlan
          /\ stage[j] # "idle" /\ j \notin overtaken => PlanOK(j)

-----------------------------------------------------------------------------
(* What a commit makes of the rows *)

LEMMA NoPlanTyped ==
    /\ NoFill \in [Products -> Ads \cup {None}] /\ \A p \in Products : NoFill[p] = None
    /\ FilledBy(NoFill) = {} /\ Taken(NoFill) = {}
    /\ NoPlan \in Plans /\ NoPlan.fill = NoFill /\ NoPlan.new = {} /\ NoPlan.drop = {}
    /\ NoPlan.todo = {} /\ NoPlan.seen = [p \in Products |-> Free] /\ ~NoPlan.broken
BY DEF NoFill, NoPlan, Plans, FilledBy, Taken

LEMMA KeysTyped ==
    ASSUME NEW A, NEW new \in KeysFor(A)
    PROVE  /\ DOMAIN new \subseteq Spare
           /\ \A p \in DOMAIN new : new[p] \in A
           /\ \A p, q \in DOMAIN new : new[p] = new[q] => p = q
           /\ \A a \in A : \E p \in DOMAIN new : new[p] = a
<1>1. PICK K \in SUBSET Spare : new \in Bijection(K, A)
  BY DEF KeysFor
<1>2. new \in [K -> A]
  BY <1>1 DEF Bijection, Injection, Surjection
<1>3. \A p, q \in K : new[p] = new[q] => p = q
  BY <1>1 DEF Bijection, Injection, IsInjective
<1>4. \A a \in A : \E p \in K : new[p] = a
  BY <1>1 DEF Bijection, Surjection
<1> QED
  BY <1>1, <1>2, <1>3, <1>4

LEMMA NoKeys == <<>> \in KeysFor({})
<1>1. <<>> \in [{} -> {}] /\ {} \subseteq Spare
  OBVIOUS
<1>2. <<>> \in Bijection({}, {})
  BY <1>1 DEF Bijection, Injection, Surjection, IsInjective
<1> QED
  BY <1>1, <1>2 DEF KeysFor

LEMMA RewrittenTyped ==
    ASSUME TypeOK, NEW fill \in [Products -> Ads \cup {None}], NEW drop, NEW A \in SUBSET Ads,
           NEW new, \A p \in DOMAIN new : new[p] \in A
    PROVE  Rewritten(fill, drop, new) \in [Products -> Ads \cup {None, Free}]
BY DEF TypeOK, Rewritten

\* No row that is not new, filled or dropped changes.
LEMMA RewrittenValue ==
    ASSUME NEW fill, NEW drop, NEW new, NEW p \in Products
    PROVE  Rewritten(fill, drop, new)[p] =
              IF p \in DOMAIN new THEN new[p]
              ELSE IF p \in drop THEN Free
              ELSE IF fill[p] # None THEN fill[p] ELSE link[p]
BY DEF Rewritten

LEMMA RewrittenUnique ==
    ASSUME TypeOK, NEW fill \in [Products -> Ads \cup {None}], NEW drop, NEW A \in SUBSET Ads,
           NEW new \in KeysFor(A), Fitting(fill, A)
    PROVE  UniqueIn(Rewritten(fill, drop, new))
<1> SUFFICES ASSUME NEW p \in Products, NEW q \in Products, p # q,
                    Rewritten(fill, drop, new)[p] = Rewritten(fill, drop, new)[q],
                    Rewritten(fill, drop, new)[p] \notin {None, Free}
             PROVE  FALSE
  BY DEF UniqueIn
<1> DEFINE v == Rewritten(fill, drop, new)[p]
<1>1. \A r \in Products : Rewritten(fill, drop, new)[r] = v =>
         \/ r \in DOMAIN new /\ new[r] = v /\ v \in A
         \/ fill[r] = v /\ v \in Taken(fill) /\ r \in FilledBy(fill)
         \/ link[r] = v /\ v \in Linked
  <2> SUFFICES ASSUME NEW r \in Products, Rewritten(fill, drop, new)[r] = v
               PROVE  \/ r \in DOMAIN new /\ new[r] = v /\ v \in A
                      \/ fill[r] = v /\ v \in Taken(fill) /\ r \in FilledBy(fill)
                      \/ link[r] = v /\ v \in Linked
    OBVIOUS
  <2>1. CASE r \in DOMAIN new
    BY <2>1, KeysTyped, RewrittenValue
  <2>2. CASE r \notin DOMAIN new /\ fill[r] # None
    BY <2>2, RewrittenValue DEF Taken, FilledBy
  <2>3. CASE r \notin DOMAIN new /\ fill[r] = None
    <3>1. link[r] = v
      BY <2>3, RewrittenValue
    <3>2. v \in Ads
      BY <3>1 DEF TypeOK
    <3> QED
      BY <3>1, <3>2 DEF Linked
  <2> QED
    BY <2>1, <2>2, <2>3
<1>2. UniqueIn(link)
  BY DEF TypeOK
<1>3. ~(link[p] = v /\ link[q] = v)
  BY <1>2 DEF UniqueIn
<1>4. \A r, s \in DOMAIN new : new[r] = new[s] => r = s
  BY KeysTyped
<1> HIDE DEF v
<1>5. Rewritten(fill, drop, new)[p] = v /\ Rewritten(fill, drop, new)[q] = v
  BY DEF v
<1> QED
  BY <1>1, <1>3, <1>4, <1>5 DEF Fitting

\* The ads that have a product after a commit.
LEMMA RewrittenLinked ==
    ASSUME TypeOK, NEW fill \in [Products -> Ads \cup {None}], NEW drop, NEW A \in SUBSET Ads,
           NEW new \in KeysFor(A), FilledBy(fill) \subseteq Unlinked,
           drop \cap FilledBy(fill) = {}, link' = Rewritten(fill, drop, new)
    PROVE  Linked' = {a \in Linked : \E p \in Products \ drop : link[p] = a}
                     \cup Taken(fill) \cup A
<1>1. DOMAIN new \subseteq Products \ Live
  BY KeysTyped DEF Spare
<1>2. \A p \in Products : link'[p] = IF p \in DOMAIN new THEN new[p]
                                     ELSE IF p \in drop THEN Free
                                     ELSE IF fill[p] # None THEN fill[p] ELSE link[p]
  BY RewrittenValue
<1>3. ASSUME NEW a \in Linked'
      PROVE  \/ a \in Linked /\ \E p \in Products \ drop : link[p] = a
             \/ a \in Taken(fill) \/ a \in A
  <2>1. PICK p \in Products : link'[p] = a /\ a \in Ads
    BY <1>3 DEF Linked
  <2>2. CASE p \in DOMAIN new
    BY <1>2, <2>1, <2>2, KeysTyped
  <2>3. CASE p \notin DOMAIN new /\ p \notin drop /\ fill[p] # None
    BY <1>2, <2>1, <2>3 DEF Taken, FilledBy
  <2>4. CASE p \notin DOMAIN new /\ p \notin drop /\ fill[p] = None
    BY <1>2, <2>1, <2>4 DEF Linked
  <2>5. CASE p \notin DOMAIN new /\ p \in drop
    BY <1>2, <2>1, <2>5, NamesAreNoAds
  <2> QED
    BY <2>2, <2>3, <2>4, <2>5
<1>4. ASSUME NEW a \in Linked, NEW p \in Products \ drop, link[p] = a PROVE a \in Linked'
  <2>1. p \notin DOMAIN new /\ fill[p] = None
    <3>1. a \in Ads
      BY DEF Linked
    <3>2. p \in Live /\ p \notin Unlinked
      BY <1>4, <3>1, NamesAreNoAds DEF Live, Unlinked
    <3> QED
      BY <1>1, <3>2 DEF FilledBy
  <2> QED
    BY <1>2, <1>4, <2>1 DEF Linked
<1>5. ASSUME NEW a \in Taken(fill) PROVE a \in Linked'
  <2>1. PICK p \in FilledBy(fill) : fill[p] = a
    BY <1>5 DEF Taken
  <2>2. p \in Products /\ fill[p] # None /\ link[p] = None
    BY <2>1 DEF FilledBy, Unlinked
  <2>3. p \in Live /\ a \in Ads
    BY <2>1, <2>2, NamesAreNoAds DEF Live
  <2>4. link'[p] = a
    BY <1>1, <1>2, <2>1, <2>2, <2>3
  <2> QED
    BY <2>2, <2>3, <2>4 DEF Linked
<1>6. ASSUME NEW a \in A PROVE a \in Linked'
  <2>1. PICK p \in DOMAIN new : new[p] = a
    BY KeysTyped
  <2> QED
    BY <1>1, <1>2, <2>1 DEF Linked
<1> QED
  BY <1>3, <1>4, <1>5, <1>6
-----------------------------------------------------------------------------
(* What a step leaves of the plans *)

Overtakes == overtaken' = {j \in Programs : /\ stage'[j] # "idle"
                                            /\ j \in overtaken \/ (link' # link /\ Idles(j))}

\* A plan does not change with a step that leaves the rows alone.
LEMMA PlanKept ==
    ASSUME NEW k \in Programs, PlanOK(k), link' = link, Idles(k), k = "sync" => known' = known
    PROVE  PlanOK(k)'
<1>1. Linked' = Linked /\ Live' = Live /\ Unlinked' = Unlinked
  BY DEF Linked, Live, Unlinked
<1>2. plan'[k] = plan[k] /\ stage'[k] = stage[k]
  BY DEF Idles
<1>3. CASE k = "excel"
  BY <1>2, <1>3 DEF PlanOK, RowsOK
<1>4. CASE k # "excel"
  <2>1. PassOK(k)
    BY <1>4 DEF PlanOK
  <2>2. Fitting(plan[k].fill, plan[k].new)'
    BY <1>1, <1>2, <2>1 DEF PassOK, Fitting, FilledBy, Taken
  <2>3. \A p \in Products : plan'[k].seen[p] # Free => p \in Live'
    BY <1>1, <1>2, <2>1 DEF PassOK
  <2>4. k = "sync" => known' = Linked'
    BY <1>1, <2>1 DEF PassOK
  <2>5. k = "sync" /\ stage'[k] = "pass3" =>
           plan'[k].todo \subseteq Linked' \cup Taken(plan'[k].fill) \cup plan'[k].new
    BY <1>1, <1>2, <2>1 DEF PassOK
  <2>6. k = "cabinet" => /\ plan'[k].fill = NoFill
                         /\ plan'[k].new = plan'[k].todo \ Linked'
                         /\ plan'[k].drop = Orphans(plan[k].todo)'
    BY <1>1, <1>2, <2>1 DEF PassOK, Orphans
  <2> QED
    BY <1>4, <2>2, <2>3, <2>4, <2>5, <2>6 DEF PlanOK, PassOK
<1> QED
  BY <1>3, <1>4

\* A program's step keeps the invariant when the rows stay well formed and its own
\* plan is right: whoever did nothing is overtaken, or the rows are as they were.
LEMMA GoesIInv ==
    ASSUME IInv, Overtakes, NEW j \in Programs, NEW to \in Stages, NEW pl \in Plans,
           Goes(j, to, pl), to = "idle" => pl = NoPlan,
           link' \in [Products -> Ads \cup {None, Free}], UniqueIn(link'),
           known' \in SUBSET Ads, j # "sync" => known' = known,
           to # "idle" /\ j \notin overtaken => PlanOK(j)'
    PROVE  IInv'
<1>1. /\ stage \in [Programs -> Stages] /\ plan \in [Programs -> Plans]
      /\ stage' = [stage EXCEPT ![j] = to] /\ plan' = [plan EXCEPT ![j] = pl]
  BY DEF IInv, TypeOK, Goes
<1>2. stage' \in [Programs -> Stages] /\ plan' \in [Programs -> Plans]
  BY <1>1
<1>3. overtaken' \in SUBSET Programs
  BY DEF Overtakes
<1>4. TypeOK'
  BY <1>2, <1>3 DEF TypeOK
<1>5. stage'[j] = to /\ plan'[j] = pl
  BY <1>1
<1>6. \A k \in Programs \ {j} : Idles(k)
  BY <1>1 DEF Idles
<1>7. ASSUME NEW k \in Programs, stage'[k] = "idle" PROVE plan'[k] = NoPlan
  BY <1>5, <1>6, <1>7 DEF IInv, Idles
<1>8. ASSUME NEW k \in Programs, stage'[k] # "idle", k \notin overtaken'
      PROVE  PlanOK(k)'
  <2>1. k \notin overtaken
    BY <1>8 DEF Overtakes
  <2>2. CASE k = j
    BY <1>5, <1>8, <2>1, <2>2
  <2>3. CASE k # j
    <3>1. Idles(k)
      BY <1>6, <2>3
    <3>2. link' = link
      BY <1>8, <3>1 DEF Overtakes
    <3>3. stage[k] # "idle"
      BY <1>8, <3>1 DEF Idles
    <3>4. PlanOK(k)
      BY <2>1, <3>3 DEF IInv
    <3>5. k = "sync" => known' = known
      BY <2>3
    <3> QED
      BY <3>1, <3>2, <3>4, <3>5, PlanKept
  <2> QED
    BY <2>2, <2>3
<1> QED
  BY <1>4, <1>7, <1>8 DEF IInv

\* What a program reads from the rows fits them.
LEMMA MatchesFit ==
    ASSUME NEW A \in SUBSET Ads, A \cap Linked = {}, NEW f \in Matches(A),
           NEW N \in SUBSET (A \ Taken(f))
    PROVE  f \in [Products -> Ads \cup {None}] /\ Fitting(f, N)
<1>1. f \in [Products -> A \cup {None}]
  BY DEF Matches
<1>2. f \in [Products -> Ads \cup {None}]
  BY <1>1
<1>3. Taken(f) \subseteq A
  BY <1>1 DEF Taken, FilledBy
<1>4. FilledBy(f) \subseteq Unlinked /\ \A p, q \in FilledBy(f) : f[p] = f[q] => p = q
  BY DEF Matches
<1> QED
  BY <1>2, <1>3, <1>4 DEF Fitting

LEMMA NothingFits == Fitting(NoFill, {})
BY NoPlanTyped DEF Fitting

-----------------------------------------------------------------------------
(* Reads *)

\* The part of the invariant that every step of a program uses.
LEMMA Rows ==
    ASSUME IInv
    PROVE  /\ link \in [Products -> Ads \cup {None, Free}] /\ UniqueIn(link)
           /\ known \in SUBSET Ads
           /\ \A j \in Programs : plan[j] \in Plans /\ stage[j] \in Stages
           /\ Linked \in SUBSET Ads
           /\ Unlinked \subseteq Live
BY NamesAreNoAds DEF IInv, TypeOK, Linked, Unlinked, Live

LEMMA ReadPlanTyped ==
    ASSUME NEW f \in [Products -> Ads \cup {None}], NEW N \in SUBSET Ads, NEW T \in SUBSET Ads
    PROVE  /\ [NoPlan EXCEPT !.fill = f, !.new = N] \in Plans
           /\ [NoPlan EXCEPT !.fill = f, !.todo = T] \in Plans
           /\ [NoPlan EXCEPT !.fill = f, !.todo = T, !.new = N] \in Plans
           /\ [NoPlan EXCEPT !.new = N] \in Plans
           /\ [NoPlan EXCEPT !.todo = T] \in Plans
BY DEF NoPlan, NoFill, Plans

\* A synchronisation's or feed's plan that fits is right, as it loads no rows.
LEMMA FittingIsOK ==
    ASSUME IInv, NEW j \in {"sync", "feed", "request"}, NEW pl \in Plans, plan'[j] = pl,
           link' = link, pl.seen = NoPlan.seen, Fitting(pl.fill, pl.new),
           j = "sync" => known' = Linked,
           j = "sync" /\ stage'[j] = "pass3" => pl.todo \subseteq Linked \cup Taken(pl.fill) \cup pl.new
    PROVE  PlanOK(j)'
<1>1. Linked' = Linked /\ Unlinked' = Unlinked
  BY DEF Linked, Unlinked
<1>2. Fitting(plan[j].fill, plan[j].new)'
  BY <1>1 DEF Fitting, FilledBy, Taken
<1>3. \A p \in Products : plan'[j].seen[p] = Free
  BY NoPlanTyped
<1>4. j = "sync" => known' = Linked'
  BY <1>1
<1>5. j = "sync" /\ stage'[j] = "pass3" =>
         plan'[j].todo \subseteq Linked' \cup Taken(plan'[j].fill) \cup plan'[j].new
  BY <1>1
<1> QED
  BY <1>2, <1>3, <1>4, <1>5 DEF PlanOK, PassOK

LEMMA BeginSyncStep == ASSUME IInv, Overtakes, BeginSync PROVE IInv'
<1>1. /\ Goes("sync", "begun", NoPlan) /\ known' = Linked /\ link' = link
      /\ "sync" \in Programs /\ "begun" \in Stages
  BY DEF BeginSync, Programs, Stages
<1>2. plan'["sync"] = NoPlan /\ stage'["sync"] = "begun"
  BY <1>1 DEF Goes, IInv, TypeOK
<1>3. PlanOK("sync")'
  BY <1>1, <1>2, NoPlanTyped, NothingFits, FittingIsOK
<1> QED
  BY <1>1, <1>3, Rows, NoPlanTyped, GoesIInv

LEMMA ReadPass1Step == ASSUME IInv, Overtakes, ReadPass1 PROVE IInv'
<1>1. PICK applied \in InReport : \E f \in Matches(Unknown(applied)) :
         \E new \in SUBSET (Unknown(applied) \ Taken(f)) :
            Goes("sync", "pass1", [NoPlan EXCEPT !.fill = f, !.new = new])
  BY DEF ReadPass1
<1>2. PICK f \in Matches(Unknown(applied)) :
         \E new \in SUBSET (Unknown(applied) \ Taken(f)) :
            Goes("sync", "pass1", [NoPlan EXCEPT !.fill = f, !.new = new])
  BY <1>1
<1>3. PICK new \in SUBSET (Unknown(applied) \ Taken(f)) :
            Goes("sync", "pass1", [NoPlan EXCEPT !.fill = f, !.new = new])
  BY <1>2
<1> DEFINE pl == [NoPlan EXCEPT !.fill = f, !.new = new]
<1>4. /\ stage["sync"] = "begun" /\ link' = link /\ known' = known
      /\ "sync" \in Programs /\ "pass1" \in Stages
  BY DEF ReadPass1, Programs, Stages
<1>5. Unknown(applied) \in SUBSET Ads /\ Unknown(applied) \cap Linked = {}
  BY DEF Unknown, InReport
<1>6. f \in [Products -> Ads \cup {None}] /\ Fitting(f, new)
  BY <1>5, MatchesFit
<1>7. pl \in Plans
  BY <1>5, <1>6, ReadPlanTyped
<1>8. pl.fill = f /\ pl.new = new /\ pl.seen = NoPlan.seen
  BY DEF NoPlan
<1> HIDE DEF pl
<1>9. Goes("sync", "pass1", pl)
  BY <1>3 DEF pl
<1>10. plan'["sync"] = pl /\ stage'["sync"] = "pass1"
  BY <1>4, <1>9 DEF Goes, IInv, TypeOK
<1>11. ASSUME "sync" \notin overtaken PROVE PlanOK("sync")'
  <2>1. known = Linked
    BY <1>4, <1>11 DEF IInv, PlanOK, PassOK
  <2> QED
    BY <1>4, <1>6, <1>7, <1>8, <1>10, <2>1, FittingIsOK
<1> QED
  BY <1>4, <1>7, <1>9, <1>11, Rows, GoesIInv

LEMMA SkipPass1Step == ASSUME IInv, Overtakes, SkipPass1 PROVE IInv'
<1>1. /\ Goes("sync", "fetched", NoPlan) /\ known' = known /\ link' = link
      /\ stage["sync"] = "begun" /\ "sync" \in Programs /\ "fetched" \in Stages
  BY DEF SkipPass1, Programs, Stages
<1>2. plan'["sync"] = NoPlan /\ stage'["sync"] = "fetched"
  BY <1>1 DEF Goes, IInv, TypeOK
<1>3. ASSUME "sync" \notin overtaken PROVE PlanOK("sync")'
  <2>1. known = Linked
    BY <1>1, <1>3 DEF IInv, PlanOK, PassOK
  <2> QED
    BY <1>1, <1>2, <2>1, NoPlanTyped, NothingFits, FittingIsOK
<1> QED
  BY <1>1, <1>3, Rows, NoPlanTyped, GoesIInv

LEMMA ReadPass2Step == ASSUME IInv, Overtakes, ReadPass2 PROVE IInv'
<1>1. PICK listed \in InListing : \E f \in Matches(listed \ known) :
            Goes("sync", "pass2", [NoPlan EXCEPT !.fill = f, !.todo = listed])
  BY DEF ReadPass2
<1>2. PICK f \in Matches(listed \ known) :
            Goes("sync", "pass2", [NoPlan EXCEPT !.fill = f, !.todo = listed])
  BY <1>1
<1> DEFINE pl == [NoPlan EXCEPT !.fill = f, !.todo = listed]
<1>4. /\ stage["sync"] = "fetched" /\ link' = link /\ known' = known
      /\ "sync" \in Programs /\ "pass2" \in Stages /\ listed \in SUBSET Ads
  BY DEF ReadPass2, Programs, Stages, InListing
<1>6. f \in [Products -> Ads \cup {None}]
  <2>1. f \in [Products -> (listed \ known) \cup {None}]
    BY DEF Matches
  <2> QED
    BY <1>4, <2>1
<1>7. pl \in Plans
  BY <1>4, <1>6, ReadPlanTyped
<1>8. pl.fill = f /\ pl.new = {} /\ pl.seen = NoPlan.seen
  BY DEF NoPlan
<1> HIDE DEF pl
<1>9. Goes("sync", "pass2", pl)
  BY <1>2 DEF pl
<1>10. plan'["sync"] = pl /\ stage'["sync"] = "pass2"
  BY <1>4, <1>9 DEF Goes, IInv, TypeOK
<1>11. ASSUME "sync" \notin overtaken PROVE PlanOK("sync")'
  <2>1. known = Linked
    BY <1>4, <1>11 DEF IInv, PlanOK, PassOK
  <2>2. Fitting(f, {})
    BY <1>4, <2>1, MatchesFit
  <2> QED
    BY <1>4, <1>7, <1>8, <1>10, <2>1, <2>2, FittingIsOK
<1> QED
  BY <1>4, <1>7, <1>9, <1>11, Rows, GoesIInv

LEMMA ReadPass3Step == ASSUME IInv, Overtakes, ReadPass3 PROVE IInv'
<1> DEFINE listed == plan["sync"].todo
<1>1. PICK f \in Matches(Unknown(listed)) :
            Goes("sync", "pass3", [NoPlan EXCEPT !.fill = f, !.todo = listed,
                                                !.new = Unmatched(Unknown(listed), f)])
  BY DEF ReadPass3
<1> DEFINE new == Unmatched(Unknown(listed), f)
           pl == [NoPlan EXCEPT !.fill = f, !.todo = listed, !.new = new]
<1>4. /\ stage["sync"] = "matched" /\ link' = link /\ known' = known
      /\ "sync" \in Programs /\ "pass3" \in Stages
  BY DEF ReadPass3, Programs, Stages
<1>5. listed \in SUBSET Ads /\ Unknown(listed) \in SUBSET Ads /\ Unknown(listed) \cap Linked = {}
  BY <1>4, Rows DEF Plans, Unknown
<1>6. f \in [Products -> Ads \cup {None}] /\ Fitting(f, new) /\ new \in SUBSET Ads
  BY <1>5, MatchesFit DEF Unmatched
<1>7. pl \in Plans
  BY <1>5, <1>6, ReadPlanTyped
<1>8. pl.fill = f /\ pl.new = new /\ pl.seen = NoPlan.seen /\ pl.todo = listed
  BY DEF NoPlan
<1>9. Goes("sync", "pass3", pl)
  BY <1>1
<1>12. new = Unknown(listed) \ Taken(f) /\ Unknown(listed) = (listed \ Linked) \ known
  BY DEF Unmatched, Unknown
<1> HIDE DEF pl, new, listed
<1>10. plan'["sync"] = pl /\ stage'["sync"] = "pass3"
  BY <1>4, <1>9 DEF Goes, IInv, TypeOK
<1>11. ASSUME "sync" \notin overtaken PROVE PlanOK("sync")'
  <2>1. known = Linked
    BY <1>4, <1>11 DEF IInv, PlanOK, PassOK
  <2>2. listed \subseteq Linked \cup Taken(f) \cup new
    BY <1>12, <2>1
  <2> QED
    BY <1>4, <1>6, <1>7, <1>8, <1>10, <2>1, <2>2, FittingIsOK
<1> QED
  BY <1>4, <1>7, <1>9, <1>11, Rows, GoesIInv

LEMMA ReadFeedStep == ASSUME IInv, Overtakes, ReadFeed PROVE IInv'
<1>1. PICK ads \in InForeignFeed : \E f \in Matches(ads \ Linked) :
            Goes("feed", "read",
                 [NoPlan EXCEPT !.fill = f, !.new = Unmatched(ads \ Linked, f)])
  BY DEF ReadFeed
<1>2. PICK f \in Matches(ads \ Linked) :
            Goes("feed", "read",
                 [NoPlan EXCEPT !.fill = f, !.new = Unmatched(ads \ Linked, f)])
  BY <1>1
<1> DEFINE new == Unmatched(ads \ Linked, f)
           pl == [NoPlan EXCEPT !.fill = f, !.new = new]
<1>4. /\ link' = link /\ known' = known /\ "feed" \in Programs /\ "read" \in Stages
      /\ ads \in SUBSET Ads
  BY DEF ReadFeed, Programs, Stages, InForeignFeed
<1>6. f \in [Products -> Ads \cup {None}] /\ Fitting(f, new) /\ new \in SUBSET Ads
  <2>1. ads \ Linked \in SUBSET Ads /\ (ads \ Linked) \cap Linked = {}
    BY <1>4
  <2> QED
    BY <1>4, <2>1, MatchesFit DEF Unmatched
<1>7. pl \in Plans
  BY <1>4, <1>6, ReadPlanTyped
<1>8. pl.fill = f /\ pl.new = new /\ pl.seen = NoPlan.seen
  BY DEF NoPlan
<1>9. Goes("feed", "read", pl)
  BY <1>2
<1> HIDE DEF pl, new
<1>10. plan'["feed"] = pl
  BY <1>4, <1>9 DEF Goes, IInv, TypeOK
<1>11. PlanOK("feed")'
  BY <1>4, <1>6, <1>7, <1>8, <1>10, FittingIsOK
<1> QED
  BY <1>4, <1>7, <1>9, <1>11, Rows, GoesIInv

LEMMA ReadItemsStep == ASSUME IInv, Overtakes, ReadItems PROVE IInv'
<1>1. PICK listed \in InListing :
            Goes("request", "read", [NoPlan EXCEPT !.new = listed \ Linked])
  BY DEF ReadItems
<1> DEFINE new == listed \ Linked
           pl == [NoPlan EXCEPT !.new = new]
<1>4. /\ link' = link /\ known' = known /\ "request" \in Programs /\ "read" \in Stages
      /\ new \in SUBSET Ads
  BY DEF ReadItems, Programs, Stages, InListing
<1>6. Fitting(NoFill, new)
  BY NoPlanTyped DEF Fitting
<1>7. pl \in Plans
  BY <1>4, NoPlanTyped, ReadPlanTyped
<1>8. pl.fill = NoFill /\ pl.new = new /\ pl.seen = NoPlan.seen
  BY DEF NoPlan
<1>9. Goes("request", "read", pl)
  BY <1>1
<1> HIDE DEF pl, new
<1>10. plan'["request"] = pl
  BY <1>4, <1>9 DEF Goes, IInv, TypeOK
<1>11. PlanOK("request")'
  BY <1>4, <1>6, <1>7, <1>8, <1>10, FittingIsOK
<1> QED
  BY <1>4, <1>7, <1>9, <1>11, Rows, GoesIInv

LEMMA ReadExportStep == ASSUME IInv, Overtakes, ReadExport PROVE IInv'
<1>1. PICK active \in SUBSET Ads :
            Goes("cabinet", "read",
               [NoPlan EXCEPT !.new = active \ Linked,
                              !.drop = Orphans(active),
                              !.todo = active,
                              !.seen = [p \in Products |->
                                 IF link[p] \in active THEN link[p] ELSE Free]])
  BY DEF ReadExport
<1> DEFINE new == active \ Linked
           drop == Orphans(active)
           seen == [p \in Products |-> IF link[p] \in active THEN link[p] ELSE Free]
           pl == [NoPlan EXCEPT !.new = new, !.drop = drop, !.todo = active, !.seen = seen]
<1>4. /\ link' = link /\ known' = known /\ "cabinet" \in Programs /\ "read" \in Stages
      /\ new \in SUBSET Ads /\ drop \in SUBSET Products
  BY DEF ReadExport, Programs, Stages, Orphans, Live
<1>5. seen \in [Products -> Ads \cup {None, Free}]
  BY Rows
<1>6. Fitting(NoFill, new)
  BY NoPlanTyped DEF Fitting
<1>7. \A p \in Products : seen[p] # Free => p \in Live
  BY NamesAreNoAds DEF Live
<1>9. Goes("cabinet", "read", pl)
  BY <1>1
<1>12. new = active \ Linked /\ drop = Orphans(active)
  OBVIOUS
<1> HIDE DEF new, drop, seen
<1>8. /\ pl.fill = NoFill /\ pl.new = new /\ pl.seen = seen /\ pl.drop = drop
      /\ pl.todo = active
  BY DEF NoPlan
<1>13. pl \in Plans
  BY <1>4, <1>5, NoPlanTyped DEF NoPlan, Plans
<1> HIDE DEF pl
<1>10. plan'["cabinet"] = pl
  BY <1>4, <1>9 DEF Goes, IInv, TypeOK
<1>11. PlanOK("cabinet")'
  <2>1. Linked' = Linked /\ Unlinked' = Unlinked /\ Live' = Live
    BY <1>4 DEF Linked, Unlinked, Live
  <2>2. Fitting(plan["cabinet"].fill, plan["cabinet"].new)'
    BY <1>6, <1>8, <1>10, <2>1 DEF Fitting, FilledBy, Taken
  <2>3. Orphans(active)' = Orphans(active)
    BY <1>4, <2>1 DEF Orphans
  <2> QED
    BY <1>7, <1>8, <1>10, <1>12, <2>1, <2>2, <2>3 DEF PlanOK, PassOK
<1> QED
  BY <1>4, <1>9, <1>11, <1>13, Rows, GoesIInv

LEMMA LoadProductsStep == ASSUME IInv, Overtakes, LoadProducts PROVE IInv'
<1>1. PICK ads \in SUBSET Ads :
          Goes("excel", "rows", [NoPlan EXCEPT !.todo = ads, !.seen = link])
  BY DEF LoadProducts
<1> DEFINE pl == [NoPlan EXCEPT !.todo = ads, !.seen = link]
<1>2. link' = link /\ known' = known /\ "excel" \in Programs /\ "rows" \in Stages
  BY DEF LoadProducts, Programs, Stages
<1>3. pl \in Plans
  BY Rows, NoPlanTyped DEF NoPlan, Plans
<1>4. pl.fill = NoFill /\ pl.seen = link /\ pl.todo = ads
  BY DEF NoPlan
<1>5. Goes("excel", "rows", pl)
  BY <1>1
<1> HIDE DEF pl
<1>6. plan'["excel"] = pl /\ stage'["excel"] = "rows"
  BY <1>2, <1>5 DEF Goes, IInv, TypeOK
<1>7. PlanOK("excel")'
  BY <1>2, <1>4, <1>6, NoPlanTyped, NamesAreNoAds DEF PlanOK, RowsOK
<1> QED
  BY <1>2, <1>3, <1>5, <1>7, Rows, GoesIInv

-----------------------------------------------------------------------------
(* Ends and commits *)

\* A program that ends keeps nothing, so only the rows have to be well formed.
LEMMA EndsStep ==
    ASSUME IInv, Overtakes, NEW j \in Programs, Goes(j, "idle", NoPlan),
           link' \in [Products -> Ads \cup {None, Free}], UniqueIn(link'),
           known' \in SUBSET Ads, j # "sync" => known' = known
    PROVE  IInv'
<1>1. "idle" \in Stages
  BY DEF Stages
<1> QED
  BY <1>1, NoPlanTyped, GoesIInv

LEMMA FailsStep == ASSUME IInv, Overtakes, NEW j \in Programs, Fails(j) PROVE IInv'
BY Rows, EndsStep DEF Fails

LEMMA ExcelEndsStep == ASSUME IInv, Overtakes, ExcelEnds PROVE IInv'
BY Rows, EndsStep DEF ExcelEnds, Programs

\* What a commit writes is well formed.
LEMMA WritesTyped ==
    ASSUME IInv, NEW updated, NEW fill \in [Products -> Ads \cup {None}], NEW drop,
           NEW A \in SUBSET Ads, NEW new \in KeysFor(A), Writes(updated, fill, drop, new)
    PROVE  link' \in [Products -> Ads \cup {None, Free}] /\ UniqueIn(link')
<1>1. TypeOK
  BY DEF IInv
<1>2. \A p \in DOMAIN new : new[p] \in A
  BY KeysTyped
<1> QED
  BY <1>1, <1>2, RewrittenTyped DEF Writes

LEMMA CommitStep == ASSUME IInv, Overtakes, NEW j \in Programs, Commit(j) PROVE IInv'
<1>1. PICK new \in KeysFor(plan[j].new) :
          Writes(UpdatedBy(plan[j]), plan[j].fill, plan[j].drop, new)
  BY DEF Commit
<1>2. plan[j].fill \in [Products -> Ads \cup {None}] /\ plan[j].new \in SUBSET Ads
  BY Rows DEF Plans
<1>3. link' \in [Products -> Ads \cup {None, Free}] /\ UniqueIn(link')
  BY <1>1, <1>2, WritesTyped
<1> QED
  BY <1>3, Rows, EndsStep DEF Commit

\* What a pass that nobody overtook leaves known is what has a product.
LEMMA PassLinks ==
    ASSUME IInv, CommitPass, "sync" \notin overtaken
    PROVE  Linked' = Linked \cup Taken(plan["sync"].fill) \cup plan["sync"].new
<1> DEFINE pl == plan["sync"]
<1>1. PICK new \in KeysFor(pl.new) : Writes(FilledBy(pl.fill), pl.fill, {}, new)
  BY DEF CommitPass
<1>2. PassOK("sync")
  BY DEF IInv, PlanOK, CommitPass, Programs
<1>3. pl.fill \in [Products -> Ads \cup {None}] /\ pl.new \in SUBSET Ads
  BY Rows DEF Plans, Programs
<1>4. FilledBy(pl.fill) \subseteq Unlinked
  BY <1>2 DEF PassOK, Fitting
<1>5. link' = Rewritten(pl.fill, {}, new) /\ TypeOK
  BY <1>1 DEF Writes, IInv
<1>6. Linked' = {a \in Linked : \E p \in Products \ {} : link[p] = a}
                \cup Taken(pl.fill) \cup pl.new
  <2>1. {} \cap FilledBy(pl.fill) = {}
    OBVIOUS
  <2> HIDE DEF pl
  <2> QED
    BY <1>1, <1>3, <1>4, <1>5, <2>1, RewrittenLinked
<1>7. {a \in Linked : \E p \in Products \ {} : link[p] = a} = Linked
  BY DEF Linked
<1> QED
  BY <1>6, <1>7

LEMMA CommitPassStep == ASSUME IInv, Overtakes, CommitPass PROVE IInv'
<1> DEFINE pl == plan["sync"]
<1>1. PICK new \in KeysFor(pl.new) : Writes(FilledBy(pl.fill), pl.fill, {}, new)
  BY DEF CommitPass
<1>2. /\ pl.fill \in [Products -> Ads \cup {None}] /\ pl.new \in SUBSET Ads
      /\ pl.todo \in SUBSET Ads /\ "sync" \in Programs
  BY Rows DEF Plans, Programs
<1>3. link' \in [Products -> Ads \cup {None, Free}] /\ UniqueIn(link')
  BY <1>1, <1>2, WritesTyped
<1>4. Taken(pl.fill) \subseteq Ads
  BY <1>2 DEF Taken, FilledBy
<1>5. CASE stage["sync"] \in {"pass1", "pass2"}
  <2> DEFINE to == IF stage["sync"] = "pass1" THEN "fetched" ELSE "matched"
             next == [NoPlan EXCEPT !.todo = pl.todo]
  <2>1. known' = KnownAfter(pl) /\ Goes("sync", to, next)
    BY <1>5 DEF CommitPass
  <2>2. to \in Stages /\ to # "idle" /\ to # "pass3"
    BY DEF Stages
  <2>3. next \in Plans
    BY <1>2, ReadPlanTyped
  <2>4. next.fill = NoFill /\ next.new = {} /\ next.seen = NoPlan.seen
    BY DEF NoPlan
  <2> HIDE DEF next, to
  <2>5. known' \in SUBSET Ads
    BY <1>2, <1>4, <2>1, Rows DEF KnownAfter
  <2>6. plan'["sync"] = next /\ stage'["sync"] = to
    BY <1>2, <2>1 DEF Goes, IInv, TypeOK
  <2>7. ASSUME "sync" \notin overtaken PROVE PlanOK("sync")'
    <3>1. known = Linked
      BY <1>2, <1>5, <2>7 DEF IInv, PlanOK, PassOK
    <3>2. known' = Linked'
      BY <2>1, <2>7, <3>1, PassLinks DEF KnownAfter
    <3>3. Fitting(plan["sync"].fill, plan["sync"].new)'
      BY <2>4, <2>6, NoPlanTyped DEF Fitting, FilledBy, Taken
    <3>4. \A p \in Products : plan'["sync"].seen[p] = Free
      BY <2>4, <2>6, NoPlanTyped
    <3> QED
      BY <2>2, <2>6, <3>2, <3>3, <3>4 DEF PlanOK, PassOK
  <2> QED
    BY <1>2, <1>3, <2>1, <2>2, <2>3, <2>5, <2>7, GoesIInv
<1>6. CASE stage["sync"] = "pass3"
  <2>1. known' = {} /\ Goes("sync", "idle", NoPlan)
    BY <1>6 DEF CommitPass
  <2> QED
    BY <1>2, <1>3, <2>1, EndsStep
<1> QED
  BY <1>5, <1>6 DEF CommitPass

-----------------------------------------------------------------------------
(* The rows of an export, and the operator *)

LEMMA UpdateRowStep ==
    ASSUME IInv, Overtakes, NEW a \in Ads, stage["excel"] = "rows", known' = known,
           a \in plan["excel"].todo, UpdateRow(a)
    PROVE  IInv'
<1> DEFINE old == plan["excel"]
<1>1. PICK p \in Targets(old, a) :
         LET f == [NoFill EXCEPT ![p] = IdFor(old, p, a)] IN
           /\ ~old.broken
           /\ Writes({p}, f, {}, <<>>)
           /\ Goes("excel", "rows",
                   [old EXCEPT !.todo = @ \ {a}, !.fill[p] = IF f[p] # None THEN a ELSE @])
  BY DEF UpdateRow
<1>2. p \in Products /\ "excel" \in Programs /\ "rows" \in Stages /\ old \in Plans
  BY Rows DEF Targets, Programs, Stages
<1> DEFINE id == IdFor(old, p, a)
           f == [NoFill EXCEPT ![p] = id]
           fill == [old.fill EXCEPT ![p] = IF f[p] # None THEN a ELSE @]
           pl == [old EXCEPT !.todo = @ \ {a}, !.fill[p] = IF f[p] # None THEN a ELSE @]
<1>3. Writes({p}, f, {}, <<>>) /\ Goes("excel", "rows", pl)
  BY <1>1
<1>4. id \in Ads \cup {None} /\ f \in [Products -> Ads \cup {None}] /\ f[p] = id
  BY <1>2, NoPlanTyped DEF IdFor
<1>5. \A q \in Products : q # p => f[q] = None
  BY <1>2, NoPlanTyped
<1>6. fill \in [Products -> Ads \cup {None}]
  BY <1>2 DEF Plans
<1>7. /\ pl.fill = fill /\ pl.todo = old.todo \ {a} /\ pl.seen = old.seen
  BY <1>2 DEF Plans
<1>8. pl \in Plans
  BY <1>2, <1>6 DEF Plans
<1>9. \A q \in Products : link'[q] = IF f[q] # None THEN f[q] ELSE link[q]
  <2>1. link' = Rewritten(f, {}, <<>>)
    BY <1>3 DEF Writes
  <2>2. DOMAIN <<>> = {}
    OBVIOUS
  <2> QED
    BY <2>1, <2>2 DEF Rewritten
<1>10. link' \in [Products -> Ads \cup {None, Free}] /\ UniqueIn(link')
  <2>1. link' = Rewritten(f, {}, <<>>) /\ UniqueIn(link')
    BY <1>3 DEF Writes
  <2>2. TypeOK /\ \A q \in DOMAIN <<>> : <<>>[q] \in {}
    BY DEF IInv
  <2> HIDE DEF f
  <2>3. link' \in [Products -> Ads \cup {None, Free}]
    BY <1>4, <2>1, <2>2, RewrittenTyped
  <2> QED
    BY <2>1, <2>3
<1>11. /\ id # None => id = a /\ old.seen[p] = None /\ fill[p] = a
       /\ id = None => fill[p] = old.fill[p]
       /\ \A q \in Products : q # p => fill[q] = old.fill[q]
  BY <1>2, <1>4, NamesAreNoAds DEF IdFor, Plans
<1>12. old.seen[p] = None /\ old.fill[p] = None => id = a
  BY DEF IdFor
<1> HIDE DEF pl, fill, f, id, old
<1>13. plan'["excel"] = pl /\ stage'["excel"] = "rows"
  BY <1>2, <1>3 DEF Goes, IInv, TypeOK
<1>14. ASSUME "excel" \notin overtaken PROVE PlanOK("excel")'
  <2>1. RowsOK
    BY <1>2, <1>14 DEF IInv, PlanOK
  <2>2. \A q \in Products :
           /\ old.seen[q] = None => link[q] # Free
           /\ old.seen[q] = None /\ old.fill[q] = None => link[q] = None
           /\ old.seen[q] \in Ads => link[q] = old.seen[q]
           /\ link[q] \in old.todo => old.seen[q] = link[q]
    BY <2>1 DEF RowsOK, old
  <2>3. ASSUME NEW q \in Products
        PROVE  /\ pl.seen[q] = None => link'[q] # Free
               /\ pl.seen[q] = None /\ pl.fill[q] = None => link'[q] = None
               /\ pl.seen[q] \in Ads => link'[q] = pl.seen[q]
               /\ link'[q] \in pl.todo => pl.seen[q] = link'[q]
    <3>1. CASE q = p /\ id # None
      BY <1>4, <1>7, <1>9, <1>11, <3>1, NamesAreNoAds
    <3>2. CASE ~(q = p /\ id # None)
      <4>1. link'[q] = link[q] /\ pl.fill[q] = old.fill[q]
        BY <1>4, <1>5, <1>7, <1>9, <1>11, <3>2
      <4> QED
        BY <1>7, <2>2, <4>1
    <3> QED
      BY <3>1, <3>2
  <2> QED
    BY <1>13, <2>3 DEF PlanOK, RowsOK
<1> QED
  BY <1>2, <1>3, <1>8, <1>10, <1>14, Rows, GoesIInv

\* The other rows leave what is loaded, but for the ad, which is no longer to come.
LEMMA RowDone ==
    ASSUME IInv, Overtakes, NEW a \in Ads, NEW pl \in Plans, known' = known,
           stage["excel"] = "rows", Goes("excel", "rows", pl),
           pl.seen = plan["excel"].seen, pl.fill = plan["excel"].fill,
           pl.todo = plan["excel"].todo \ {a},
           link' \in [Products -> Ads \cup {None, Free}], UniqueIn(link'),
           \A p \in Products : link'[p] = link[p] \/ (p \in Spare /\ link'[p] = a)
    PROVE  IInv'
<1>1. "excel" \in Programs /\ "rows" \in Stages
  BY DEF Programs, Stages
<1>2. plan'["excel"] = pl /\ stage'["excel"] = "rows"
  BY <1>1 DEF Goes, IInv, TypeOK
<1>3. ASSUME "excel" \notin overtaken PROVE PlanOK("excel")'
  <2>1. RowsOK
    BY <1>1, <1>3 DEF IInv, PlanOK
  <2>2. ASSUME NEW q \in Products
        PROVE  /\ pl.seen[q] = None => link'[q] # Free
               /\ pl.seen[q] = None /\ pl.fill[q] = None => link'[q] = None
               /\ pl.seen[q] \in Ads => link'[q] = pl.seen[q]
               /\ link'[q] \in pl.todo => pl.seen[q] = link'[q]
    <3>1. CASE link'[q] = link[q]
      BY <2>1, <3>1 DEF RowsOK
    <3>2. CASE q \in Spare /\ link'[q] = a
      <4>1. pl.seen[q] = Free
        BY <1>1, <3>2 DEF Spare
      <4> QED
        BY <3>2, <4>1, NamesAreNoAds
    <3> QED
      BY <3>1, <3>2
  <2> QED
    BY <1>2, <2>2 DEF PlanOK, RowsOK
<1> QED
  BY <1>1, <1>3, Rows, GoesIInv

LEMMA InsertRowStep ==
    ASSUME IInv, Overtakes, NEW a \in Ads, stage["excel"] = "rows", known' = known, InsertRow(a)
    PROVE  IInv'
<1> DEFINE old == plan["excel"]
           pl == [old EXCEPT !.todo = @ \ {a}]
<1>1. PICK new \in KeysFor({a}) : Writes({}, NoFill, {}, new)
  BY DEF InsertRow
<1>2. Goes("excel", "rows", pl)
  BY DEF InsertRow
<1>3. old \in Plans
  BY Rows DEF Programs
<1>4. pl \in Plans /\ pl.seen = old.seen /\ pl.fill = old.fill /\ pl.todo = old.todo \ {a}
  BY <1>3 DEF Plans
<1>5. link' \in [Products -> Ads \cup {None, Free}] /\ UniqueIn(link')
  BY <1>1, NoPlanTyped, WritesTyped
<1>6. \A p \in Products : link'[p] = link[p] \/ (p \in Spare /\ link'[p] = a)
  <2>1. \A p \in Products : link'[p] = Rewritten(NoFill, {}, new)[p]
    BY <1>1 DEF Writes
  <2>2. DOMAIN new \subseteq Spare /\ \A p \in DOMAIN new : new[p] = a
    BY <1>1, KeysTyped
  <2>3. \A p \in Products : NoFill[p] = None
    BY NoPlanTyped
  <2> QED
    BY <2>1, <2>2, <2>3, RewrittenValue
<1> HIDE DEF pl
<1> QED
  BY <1>2, <1>4, <1>5, <1>6, RowDone

LEMMA RowFailsStep ==
    ASSUME IInv, Overtakes, NEW a \in Ads, stage["excel"] = "rows", known' = known, RowFails(a)
    PROVE  IInv'
<1> DEFINE old == plan["excel"]
           pl == [old EXCEPT !.todo = @ \ {a}, !.broken = TRUE]
<1>1. Goes("excel", "rows", pl) /\ link' = link
  BY DEF RowFails
<1>2. old \in Plans
  BY Rows DEF Programs
<1>3. pl \in Plans /\ pl.seen = old.seen /\ pl.fill = old.fill /\ pl.todo = old.todo \ {a}
  BY <1>2 DEF Plans
<1> HIDE DEF pl
<1> QED
  BY <1>1, <1>3, Rows, RowDone

LEMMA OperatorKeeps == ASSUME IInv, Overtakes, OperatorStep PROVE IInv'
<1>1. stage' = stage /\ plan' = plan /\ known' = known
  BY DEF OperatorStep
<1>2. PICK p \in Products : CreateProduct(p) \/ Repost(p) \/ DeleteRow(p)
  BY DEF OperatorStep
<1>3. link' = [link EXCEPT ![p] = None] \/ link' = [link EXCEPT ![p] = Free]
  BY <1>2 DEF CreateProduct, Repost, DeleteRow
<1>4. link' \in [Products -> Ads \cup {None, Free}]
  BY <1>3, Rows
<1>5. UniqueIn(link')
  BY <1>3, Rows DEF UniqueIn
<1>6. TypeOK'
  BY <1>1, <1>4, <1>5 DEF IInv, TypeOK, Overtakes
<1>7. ASSUME NEW k \in Programs, stage'[k] # "idle", k \notin overtaken' PROVE PlanOK(k)'
  <2>1. Idles(k)
    BY <1>1 DEF Idles
  <2>2. k \notin overtaken /\ link' = link
    BY <1>7, <2>1 DEF Overtakes
  <2>3. PlanOK(k)
    BY <1>1, <1>7, <2>2 DEF IInv
  <2> QED
    BY <1>1, <2>1, <2>2, <2>3, PlanKept
<1> QED
  BY <1>1, <1>6, <1>7 DEF IInv

-----------------------------------------------------------------------------
(* The invariant *)

LEMMA InitIInv == Init => IInv
<1> SUFFICES ASSUME Init PROVE IInv
  OBVIOUS
<1>1. UniqueIn(link)
  BY DEF Init, UniqueIn
<1>2. TypeOK
  BY <1>1, NoPlanTyped DEF Init, TypeOK, Stages
<1> QED
  BY <1>2 DEF Init, IInv

LEMMA NextIInv == IInv /\ Next => IInv'
<1> SUFFICES ASSUME IInv, Next PROVE IInv'
  OBVIOUS
<1>1. Step /\ Overtakes
  BY DEF Next, Overtakes
<1>2. CASE \E j \in Programs : Commit(j) \/ Fails(j)
  BY <1>1, <1>2, CommitStep, FailsStep
<1>3. CASE \E a \in Ads : ImportRow(a)
  <2>1. PICK a \in Ads : ImportRow(a)
    BY <1>3
  <2>2. stage["excel"] = "rows" /\ a \in plan["excel"].todo /\ known' = known
    BY <2>1 DEF ImportRow
  <2>3. UpdateRow(a) \/ InsertRow(a) \/ RowFails(a)
    BY <2>1 DEF ImportRow
  <2> QED
    BY <1>1, <2>2, <2>3, UpdateRowStep, InsertRowStep, RowFailsStep
<1>4. CASE BeginSync \/ ReadPass1 \/ SkipPass1 \/ ReadPass2 \/ ReadPass3 \/ CommitPass
  BY <1>1, <1>4, BeginSyncStep, ReadPass1Step, SkipPass1Step, ReadPass2Step, ReadPass3Step,
     CommitPassStep
<1>5. CASE ReadFeed \/ ReadItems \/ ReadExport \/ LoadProducts \/ ExcelEnds \/ OperatorStep
  BY <1>1, <1>5, ReadFeedStep, ReadItemsStep, ReadExportStep, LoadProductsStep, ExcelEndsStep,
     OperatorKeeps
<1> QED
  BY <1>1, <1>2, <1>3, <1>4, <1>5 DEF Step

LEMMA StutterIInv == IInv /\ UNCHANGED vars => IInv'
<1> SUFFICES ASSUME IInv, UNCHANGED vars PROVE IInv'
  OBVIOUS
<1>1. /\ link' = link /\ stage' = stage /\ plan' = plan /\ known' = known
      /\ overtaken' = overtaken
  BY DEF vars
<1>2. TypeOK'
  BY <1>1 DEF IInv, TypeOK, UniqueIn
<1>3. ASSUME NEW k \in Programs, stage'[k] # "idle", k \notin overtaken' PROVE PlanOK(k)'
  BY <1>1, <1>3, PlanKept DEF IInv, Idles
<1> QED
  BY <1>1, <1>2, <1>3 DEF IInv

LEMMA InvariantHolds == Spec => []IInv
<1>1. IInv /\ [Next]_vars => IInv'
  BY NextIInv, StutterIInv
<1> QED
  BY <1>1, InitIInv, PTL DEF Spec

\* Every link is of the account or absent, no ad has two products, and every plan has
\* its type, whatever interleaves.
THEOREM LinkingTypeCorrect == Spec => []TypeOK
<1>1. IInv => TypeOK
  BY DEF IInv
<1> QED
  BY <1>1, InvariantHolds, PTL

-----------------------------------------------------------------------------
(* What it is for *)

LEMMA FittingFits ==
    ASSUME TypeOK, NEW updated \in SUBSET Live, NEW fill \in [Products -> Ads \cup {None}],
           NEW drop, NEW A \in SUBSET Ads, Fitting(fill, A)
    PROVE  Fits(updated, fill, drop, A)
BY RewrittenUnique DEF Fits

\* The id that a row of an export fills in fits, too.
LEMMA RowFits ==
    ASSUME IInv, stage["excel"] = "rows", "excel" \notin overtaken,
           NEW a \in plan["excel"].todo, NEW p \in Targets(plan["excel"], a)
    PROVE  /\ [NoFill EXCEPT ![p] = IdFor(plan["excel"], p, a)] \in [Products -> Ads \cup {None}]
           /\ Fitting([NoFill EXCEPT ![p] = IdFor(plan["excel"], p, a)], {})
           /\ p \in Live
<1> DEFINE pl == plan["excel"]
           f == [NoFill EXCEPT ![p] = IdFor(pl, p, a)]
<1>0. a \in Ads /\ a \in pl.todo /\ p \in Targets(pl, a)
  BY Rows DEF Plans, Programs
<1>1. \A q \in Products : /\ pl.seen[q] = None => link[q] # Free
                          /\ pl.seen[q] = None /\ pl.fill[q] = None => link[q] = None
                          /\ pl.seen[q] \in Ads => link[q] = pl.seen[q]
                          /\ link[q] \in pl.todo => pl.seen[q] = link[q]
  BY DEF IInv, PlanOK, RowsOK, Programs
<1> HIDE DEF f, pl
<1>2. (\A q \in Products : pl.seen[q] # a) => a \notin Linked
  BY <1>0, <1>1 DEF Linked
<1>3. p \in Products
  BY <1>0 DEF Targets
<1>4. /\ IdFor(pl, p, a) \in {a, None}
      /\ IdFor(pl, p, a) # None => pl.seen[p] = None /\ link[p] = None
  BY <1>1, <1>3 DEF IdFor
<1>5. f \in [Products -> Ads \cup {None}]
  BY <1>0, <1>3, <1>4, NoPlanTyped DEF f
<1>6. \A q \in Products : f[q] # None => q = p /\ f[q] = a /\ link[q] = None
                                     /\ pl.seen[q] = None
  BY <1>3, <1>4, NoPlanTyped DEF f
<1>7. pl.seen[p] = None => \A q \in Products : pl.seen[q] # a
  BY <1>0, <1>3, NamesAreNoAds DEF Targets
<1>8. p \in Live
  BY <1>0, <1>1, <1>3, NamesAreNoAds DEF Targets, Live
<1>9. FilledBy(f) \subseteq Unlinked /\ \A q, r \in FilledBy(f) : q = r
  BY <1>6 DEF FilledBy, Unlinked
<1>10. Taken(f) \cap Linked = {}
  BY <1>2, <1>6, <1>7 DEF Taken, FilledBy
<1>11. Fitting(f, {})
  BY <1>9, <1>10 DEF Fitting
<1> QED
  BY <1>5, <1>8, <1>11 DEF f, pl

LEMMA UndisturbedFit == IInv => UndisturbedFits
<1> SUFFICES ASSUME IInv, NEW j \in Programs, j \notin overtaken
             PROVE  IF j = "excel"
                    THEN \A a \in plan[j].todo :
                       /\ \A p \in Targets(plan[j], a) :
                             Fits({p}, [NoFill EXCEPT ![p] = IdFor(plan[j], p, a)], {}, {})
                       /\ (\A p \in Products : plan[j].seen[p] # a) => Fits({}, NoFill, {}, {a})
                    ELSE Fits(UpdatedBy(plan[j]) \ plan[j].drop, plan[j].fill, plan[j].drop,
                              plan[j].new)
  BY DEF UndisturbedFits
<1> DEFINE pl == plan[j]
<1>1. /\ TypeOK /\ pl \in Plans /\ pl.fill \in [Products -> Ads \cup {None}]
      /\ pl.new \in SUBSET Ads /\ pl.todo \in SUBSET Ads
  BY Rows DEF Plans, IInv
<1>2. CASE j # "excel"
  <2>1. Fitting(pl.fill, pl.new) /\ \A p \in Products : pl.seen[p] # Free => p \in Live
    <3>1. CASE stage[j] = "idle"
      <4>1. pl = NoPlan
        BY <3>1 DEF IInv
      <4>2. Fitting(NoFill, {}) /\ \A p \in Products : NoPlan.seen[p] = Free
        BY NoPlanTyped, NothingFits
      <4> QED
        BY <4>1, <4>2, NoPlanTyped
    <3>2. CASE stage[j] # "idle"
      BY <1>2, <3>2 DEF IInv, PlanOK, PassOK
    <3> QED
      BY <3>1, <3>2
  <2>2. UpdatedBy(pl) \ pl.drop \subseteq Live
    BY <2>1, Rows DEF UpdatedBy, Fitting
  <2> QED
    BY <1>1, <1>2, <2>1, <2>2, FittingFits
<1>3. CASE j = "excel"
  <2> SUFFICES ASSUME NEW a \in pl.todo
               PROVE  /\ \A p \in Targets(pl, a) :
                            Fits({p}, [NoFill EXCEPT ![p] = IdFor(pl, p, a)], {}, {})
                      /\ (\A p \in Products : pl.seen[p] # a) => Fits({}, NoFill, {}, {a})
    BY <1>3
  <2>1. stage[j] # "idle" /\ a \in Ads
    BY <1>1, NoPlanTyped DEF IInv
  <2>2. /\ \A p \in Products : /\ pl.seen[p] = None => link[p] # Free
                               /\ pl.seen[p] = None /\ pl.fill[p] = None => link[p] = None
                               /\ pl.seen[p] \in Ads => link[p] = pl.seen[p]
                               /\ link[p] \in pl.todo => pl.seen[p] = link[p]
    BY <1>3, <2>1 DEF IInv, PlanOK, RowsOK
  <2>3. (\A p \in Products : pl.seen[p] # a) => a \notin Linked
    BY <2>2 DEF Linked
  <2>4. ASSUME NEW p \in Targets(pl, a)
        PROVE  Fits({p}, [NoFill EXCEPT ![p] = IdFor(pl, p, a)], {}, {})
    <3>1. stage["excel"] = "rows" /\ p \in Targets(plan["excel"], a) /\ a \in plan["excel"].todo
      BY <1>3, <2>1 DEF IInv, PlanOK, RowsOK
    <3> DEFINE f == [NoFill EXCEPT ![p] = IdFor(pl, p, a)]
    <3>2. f \in [Products -> Ads \cup {None}] /\ Fitting(f, {}) /\ p \in Live
      BY <1>3, <3>1, RowFits
    <3> HIDE DEF f
    <3>3. Fits({p}, f, {}, {})
      BY <1>1, <3>2, FittingFits
    <3> QED
      BY <3>3 DEF f
  <2>5. ASSUME \A p \in Products : pl.seen[p] # a PROVE Fits({}, NoFill, {}, {a})
    <3>1. Fitting(NoFill, {a})
      BY <2>3, <2>5, NoPlanTyped DEF Fitting
    <3> QED
      BY <1>1, <2>1, <3>1, NoPlanTyped, FittingFits
  <2> QED
    BY <2>4, <2>5
<1> QED
  BY <1>2, <1>3

\* What a program that nobody overtook will write is accepted: no row it updates is
\* missing and no avito_id is met twice.
THEOREM UndisturbedPlansFit == Spec => []UndisturbedFits
BY UndisturbedFit, InvariantHolds, PTL

-----------------------------------------------------------------------------
(* What a step that nobody was overtaken by does to a link *)

LEMMA FittingReplacesNothing ==
    ASSUME TypeOK, NEW fill \in [Products -> Ads \cup {None}], NEW drop, NEW A,
           NEW new \in KeysFor(A), FilledBy(fill) \subseteq Unlinked,
           link' = Rewritten(fill, drop, new), NEW p \in Products
    PROVE  ~Replaced(p)
<1> SUFFICES ASSUME Replaced(p) PROVE FALSE
  OBVIOUS
<1>1. link[p] \in Ads /\ link'[p] \in Ads /\ link'[p] # link[p]
  BY DEF Replaced
<1>2. p \in Live /\ p \notin Unlinked
  BY <1>1, NamesAreNoAds DEF Live, Unlinked
<1>3. p \notin DOMAIN new
  BY <1>2, KeysTyped DEF Spare
<1>4. fill[p] = None
  BY <1>2 DEF FilledBy
<1>5. link'[p] = IF p \in drop THEN Free ELSE link[p]
  BY <1>3, <1>4, RewrittenValue
<1> QED
  BY <1>1, <1>5, NamesAreNoAds

LEMMA CommitHolds ==
    ASSUME IInv, NEW j \in Programs, Commit(j), NEW p \in Products, Replaced(p)
    PROVE  j \in overtaken /\ ~Idles(j)
<1>1. PICK new \in KeysFor(plan[j].new) :
          Writes(UpdatedBy(plan[j]), plan[j].fill, plan[j].drop, new)
  BY DEF Commit
<1>2. stage[j] = "read" /\ stage'[j] = "idle"
  BY DEF Commit, Goes, IInv, TypeOK
<1>3. ASSUME j \notin overtaken PROVE FALSE
  <2>1. PassOK(j)
    BY <1>2, <1>3 DEF IInv, PlanOK, RowsOK
  <2>2. FilledBy(plan[j].fill) \subseteq Unlinked
    BY <2>1 DEF PassOK, Fitting
  <2>3. plan[j].fill \in [Products -> Ads \cup {None}] /\ TypeOK
    BY Rows DEF Plans, IInv
  <2> QED
    BY <1>1, <2>2, <2>3, FittingReplacesNothing DEF Writes
<1> QED
  BY <1>2, <1>3 DEF Idles

LEMMA CommitPassHolds ==
    ASSUME IInv, CommitPass, NEW p \in Products, Replaced(p)
    PROVE  "sync" \in overtaken /\ ~Idles("sync")
<1>1. PICK new \in KeysFor(plan["sync"].new) :
          Writes(FilledBy(plan["sync"].fill), plan["sync"].fill, {}, new)
  BY DEF CommitPass
<1>2. "sync" \in Programs
  BY DEF Programs
<1>3. stage'["sync"] # stage["sync"] /\ stage["sync"] # "idle"
  BY <1>2 DEF CommitPass, Goes, IInv, TypeOK
<1>4. ASSUME "sync" \notin overtaken PROVE FALSE
  <2>1. FilledBy(plan["sync"].fill) \subseteq Unlinked
    BY <1>2, <1>3, <1>4 DEF IInv, PlanOK, PassOK, Fitting
  <2>2. plan["sync"].fill \in [Products -> Ads \cup {None}] /\ TypeOK
    BY <1>2, Rows DEF Plans, IInv
  <2> QED
    BY <1>1, <2>1, <2>2, FittingReplacesNothing DEF Writes
<1> QED
  BY <1>3, <1>4 DEF Idles

LEMMA ImportRowHolds ==
    ASSUME IInv, NEW a \in Ads, ImportRow(a), NEW p \in Products, Replaced(p)
    PROVE  "excel" \in overtaken /\ ~Idles("excel")
<1> DEFINE old == plan["excel"]
<1>1. /\ stage["excel"] = "rows" /\ a \in old.todo /\ "excel" \in Programs /\ old \in Plans
      /\ TypeOK
  BY Rows DEF ImportRow, Programs, IInv
<1>2. ~RowFails(a)
  BY DEF RowFails, Replaced
<1>3. ~InsertRow(a)
  <2> SUFFICES ASSUME InsertRow(a) PROVE FALSE
    OBVIOUS
  <2>1. PICK new \in KeysFor({a}) : Writes({}, NoFill, {}, new)
    BY DEF InsertRow
  <2>2. FilledBy(NoFill) \subseteq Unlinked
    BY NoPlanTyped
  <2> QED
    BY <1>1, <2>1, <2>2, NoPlanTyped, FittingReplacesNothing DEF Writes
<1>4. PICK q \in Targets(old, a) :
         LET f == [NoFill EXCEPT ![q] = IdFor(old, q, a)] IN
           /\ Writes({q}, f, {}, <<>>)
           /\ Goes("excel", "rows",
                   [old EXCEPT !.todo = @ \ {a}, !.fill[q] = IF f[q] # None THEN a ELSE @])
  BY <1>2, <1>3 DEF ImportRow, UpdateRow
<1> DEFINE f == [NoFill EXCEPT ![q] = IdFor(old, q, a)]
<1>5. plan'["excel"].todo = old.todo \ {a}
  BY <1>1, <1>4 DEF Goes, IInv, TypeOK, Plans
<1>6. ~Idles("excel")
  BY <1>1, <1>5 DEF Idles
<1>7. \A r \in Products : link'[r] = IF f[r] # None THEN f[r] ELSE link[r]
  <2>1. link' = Rewritten(f, {}, <<>>)
    BY <1>4 DEF Writes
  <2>2. DOMAIN <<>> = {}
    OBVIOUS
  <2> QED
    BY <2>1, <2>2 DEF Rewritten
<1>8. f[p] # None
  BY <1>7 DEF Replaced
<1>9. p = q /\ old.seen[p] = None /\ old.fill[p] = None
  BY <1>8, NoPlanTyped DEF IdFor, Targets
<1>10. ASSUME "excel" \notin overtaken PROVE FALSE
  <2>1. link[p] = None
    BY <1>1, <1>9, <1>10 DEF IInv, PlanOK, RowsOK
  <2> QED
    BY <2>1, NamesAreNoAds DEF Replaced
<1> QED
  BY <1>6, <1>10

\* A program that nobody overtook never gives a product's ad away for another: the
\* step that does is one of a program that works from stale rows.
THEOREM LinksHoldTheorem == Spec => LinksHold
<1>1. ASSUME IInv, Next, NEW p \in Products, Replaced(p)
      PROVE  \E j \in overtaken : ~Idles(j)
  <2>1. Step
    BY <1>1 DEF Next
  <2>2. link' # link
    BY <1>1 DEF Replaced
  <2>3. ~(BeginSync \/ ReadPass1 \/ SkipPass1 \/ ReadPass2 \/ ReadPass3 \/ ReadFeed \/ ReadItems
          \/ ReadExport \/ LoadProducts \/ ExcelEnds \/ \E j \in Programs : Fails(j))
    BY <2>2 DEF BeginSync, ReadPass1, SkipPass1, ReadPass2, ReadPass3, ReadFeed, ReadItems,
                ReadExport, LoadProducts, ExcelEnds, Fails
  <2>4. ~OperatorStep
    <3> SUFFICES ASSUME OperatorStep PROVE FALSE
      OBVIOUS
    <3>1. PICK q \in Products :
             link' = [link EXCEPT ![q] = None] \/ link' = [link EXCEPT ![q] = Free]
      BY DEF OperatorStep, CreateProduct, Repost, DeleteRow
    <3> QED
      BY <1>1, <3>1, Rows, NamesAreNoAds DEF Replaced
  <2>5. CommitPass \/ (\E j \in Programs : Commit(j)) \/ \E a \in Ads : ImportRow(a)
    BY <2>1, <2>3, <2>4 DEF Step
  <2> QED
    BY <1>1, <2>5, CommitPassHolds, CommitHolds, ImportRowHolds
<1>2. IInv /\ [Next]_vars => [\A p \in Products : Replaced(p) => \E j \in overtaken : ~Idles(j)]_vars
  BY <1>1
<1> QED
  BY <1>2, InvariantHolds, PTL DEF Spec, LinksHold

\* The products are those of the export's active ads after its commit.
LEMMA MirrorsExport ==
    ASSUME IInv, Commit("cabinet"), "cabinet" \notin overtaken
    PROVE  plan["cabinet"].todo = Linked'
<1> DEFINE pl == plan["cabinet"]
<1>1. PICK new \in KeysFor(pl.new) : Writes(UpdatedBy(pl), pl.fill, pl.drop, new)
  BY DEF Commit
<1>2. pl.fill = NoFill /\ pl.new = pl.todo \ Linked /\ pl.drop = Orphans(pl.todo)
  BY DEF IInv, PlanOK, PassOK, Programs, Commit
<1>3. pl.todo \in SUBSET Ads /\ pl.new \in SUBSET Ads /\ TypeOK
  <2>1. pl \in Plans /\ TypeOK
    BY Rows DEF Programs, IInv
  <2> QED
    BY <2>1 DEF Plans
<1> HIDE DEF pl
<1>4. link' = Rewritten(NoFill, pl.drop, new)
  BY <1>1, <1>2 DEF Writes
<1>5. Linked' = {a \in Linked : \E p \in Products \ pl.drop : link[p] = a} \cup {} \cup pl.new
  <2>1. /\ new \in KeysFor(pl.new) /\ NoFill \in [Products -> Ads \cup {None}]
        /\ FilledBy(NoFill) \subseteq Unlinked /\ pl.drop \cap FilledBy(NoFill) = {}
        /\ Taken(NoFill) = {}
    BY <1>1, NoPlanTyped
  <2> QED
    BY <1>3, <1>4, <2>1, RewrittenLinked
<1>6. {a \in Linked : \E p \in Products \ pl.drop : link[p] = a} = Linked \cap pl.todo
  BY <1>2, <1>3, NamesAreNoAds DEF Linked, Orphans, Live
<1>7. pl.todo = Linked'
  BY <1>2, <1>5, <1>6
<1> QED
  BY <1>7 DEF pl

\* A synchronisation that nobody overtook ends with a product for every ad listed, and
\* an export's, with those of its active ads and no others.
THEOREM CompleteTheorem == Spec => CompleteUnlessOvertaken
<1>1. ASSUME IInv, CommitPass, stage["sync"] = "pass3", "sync" \notin overtaken
      PROVE  plan["sync"].todo \subseteq Linked'
  <2>1. PassOK("sync")
    BY <1>1 DEF IInv, PlanOK, Programs
  <2> QED
    BY <1>1, <2>1, PassLinks DEF PassOK
<1>2. ASSUME IInv, Commit("cabinet"), "cabinet" \notin overtaken
      PROVE  plan["cabinet"].todo = Linked'
  BY <1>2, MirrorsExport
<1>3. IInv /\ [Next]_vars =>
        [ /\ (CommitPass /\ stage["sync"] = "pass3" /\ "sync" \notin overtaken)
                => plan["sync"].todo \subseteq Linked'
          /\ (Commit("cabinet") /\ "cabinet" \notin overtaken)
                => plan["cabinet"].todo = Linked' ]_vars
  BY <1>1, <1>2
<1> QED
  BY <1>3, InvariantHolds, PTL DEF Spec, CompleteUnlessOvertaken

-----------------------------------------------------------------------------
(* Linking implements AdLinks *)

\* Only the cabinet's export means to delete.
OnlyCabinetDrops == \A j \in Programs \ {"cabinet"} : plan[j].drop = {}

LEMMA GoesDrops ==
    ASSUME IInv, OnlyCabinetDrops, NEW j \in Programs, NEW to, NEW pl, Goes(j, to, pl),
           j # "cabinet" => pl.drop = {}
    PROVE  OnlyCabinetDrops'
BY DEF Goes, IInv, TypeOK, OnlyCabinetDrops

LEMMA ReadDrops ==
    ASSUME IInv, OnlyCabinetDrops,
           \/ BeginSync \/ ReadPass1 \/ SkipPass1 \/ ReadPass2 \/ ReadPass3
           \/ ReadFeed \/ ReadItems \/ ReadExport \/ LoadProducts
    PROVE  OnlyCabinetDrops'
<1>1. {"sync", "feed", "request", "cabinet", "excel"} \subseteq Programs
  BY DEF Programs
<1>2. /\ NoPlan.drop = {}
      /\ \A f, N, T : /\ [NoPlan EXCEPT !.fill = f, !.new = N].drop = {}
                      /\ [NoPlan EXCEPT !.fill = f, !.todo = T].drop = {}
                      /\ [NoPlan EXCEPT !.fill = f, !.todo = T, !.new = N].drop = {}
                      /\ [NoPlan EXCEPT !.new = N].drop = {}
                      /\ [NoPlan EXCEPT !.todo = T, !.seen = f].drop = {}
  BY DEF NoPlan
<1>3. CASE BeginSync \/ SkipPass1
  BY <1>1, <1>2, <1>3, GoesDrops DEF BeginSync, SkipPass1
<1>4. CASE ReadPass1 \/ ReadPass2
  BY <1>1, <1>2, <1>4, GoesDrops DEF ReadPass1, ReadPass2
<1>5. CASE ReadPass3
  BY <1>1, <1>2, <1>5, GoesDrops DEF ReadPass3
<1>6. CASE ReadFeed \/ ReadItems
  BY <1>1, <1>2, <1>6, GoesDrops DEF ReadFeed, ReadItems
<1>7. CASE ReadExport
  BY <1>1, <1>7, GoesDrops DEF ReadExport
<1>8. CASE LoadProducts
  BY <1>1, <1>2, <1>8, GoesDrops DEF LoadProducts
<1> QED
  BY <1>3, <1>4, <1>5, <1>6, <1>7, <1>8

LEMMA WriteDrops ==
    ASSUME IInv, OnlyCabinetDrops,
           \/ CommitPass \/ ExcelEnds \/ OperatorStep
           \/ \E j \in Programs : Commit(j) \/ Fails(j)
           \/ \E a \in Ads : ImportRow(a)
    PROVE  OnlyCabinetDrops'
<1>1. {"sync", "excel"} \subseteq Programs /\ NoPlan.drop = {}
      /\ \A T : [NoPlan EXCEPT !.todo = T].drop = {}
  BY DEF Programs, NoPlan
<1>2. CASE CommitPass
  BY <1>1, <1>2, GoesDrops DEF CommitPass
<1>3. CASE ExcelEnds \/ \E j \in Programs : Commit(j) \/ Fails(j)
  BY <1>1, <1>3, GoesDrops DEF ExcelEnds, Commit, Fails
<1>4. CASE \E a \in Ads : ImportRow(a)
  <2>1. plan["excel"].drop = {} /\ plan["excel"] \in Plans
    BY <1>1, Rows DEF OnlyCabinetDrops
  <2>2. PICK pl : Goes("excel", "rows", pl) /\ pl.drop = plan["excel"].drop
    <3>1. PICK a \in Ads : UpdateRow(a) \/ InsertRow(a) \/ RowFails(a)
      BY <1>4 DEF ImportRow
    <3>2. CASE UpdateRow(a)
      <4> DEFINE old == plan["excel"]
                 id(p) == [NoFill EXCEPT ![p] = IdFor(old, p, a)][p]
                 pl(p) == [old EXCEPT !.todo = @ \ {a},
                                      !.fill[p] = IF id(p) # None THEN a ELSE @]
      <4>1. PICK p \in Targets(old, a) : Goes("excel", "rows", pl(p))
        BY <3>2 DEF UpdateRow
      <4>2. pl(p).drop = old.drop
        BY <2>1 DEF Plans
      <4> HIDE DEF pl
      <4> QED
        BY <4>1, <4>2
    <3>3. CASE InsertRow(a)
      BY <2>1, <3>3 DEF InsertRow, Plans
    <3>4. CASE RowFails(a)
      <4> DEFINE pl == [plan["excel"] EXCEPT !.todo = @ \ {a}, !.broken = TRUE]
      <4>1. Goes("excel", "rows", pl)
        BY <3>4 DEF RowFails
      <4>2. pl.drop = plan["excel"].drop
        BY <2>1 DEF Plans
      <4> HIDE DEF pl
      <4> QED
        BY <4>1, <4>2
    <3> QED
      BY <3>1, <3>2, <3>3, <3>4
  <2> QED
    BY <1>1, <2>1, <2>2, GoesDrops
<1>5. CASE OperatorStep
  BY <1>5 DEF OperatorStep, OnlyCabinetDrops
<1> QED
  BY <1>2, <1>3, <1>4, <1>5

LEMMA DropsHold == Spec => []OnlyCabinetDrops
<1>1. Init => OnlyCabinetDrops
  BY NoPlanTyped DEF Init, OnlyCabinetDrops
<1>2. IInv /\ OnlyCabinetDrops /\ [Next]_vars => OnlyCabinetDrops'
  <2>1. ASSUME IInv, OnlyCabinetDrops, Step PROVE OnlyCabinetDrops'
    BY <2>1, ReadDrops, WriteDrops DEF Step
  <2>2. ASSUME OnlyCabinetDrops, UNCHANGED vars PROVE OnlyCabinetDrops'
    BY <2>2 DEF vars, OnlyCabinetDrops
  <2> QED
    BY <2>1, <2>2 DEF Next
<1> QED
  BY <1>1, <1>2, InvariantHolds, PTL DEF Spec

\* What fits, and deletes nothing, is an import.
LEMMA FittingImports ==
    ASSUME TypeOK, NEW fill \in [Products -> Ads \cup {None}], NEW A \in SUBSET Ads,
           NEW new \in KeysFor(A), Fitting(fill, A), link' = Rewritten(fill, {}, new)
    PROVE  Serial!Import
<1> SUFFICES ASSUME NEW p \in Products, link'[p] # link[p]
             PROVE  link[p] \in {None, Free} /\ link'[p] \in Ads /\ link'[p] \notin Linked
  BY DEF Serial!Import, Serial!Changed, Serial!Linked, Linked
<1>1. CASE p \in DOMAIN new
  <2>1. link'[p] = new[p] /\ new[p] \in A
    BY <1>1, RewrittenValue, KeysTyped
  <2>2. link[p] = Free
    BY <1>1, KeysTyped DEF Spare, Live
  <2> QED
    BY <2>1, <2>2 DEF Fitting
<1>2. CASE p \notin DOMAIN new
  <2>1. fill[p] # None /\ link'[p] = fill[p]
    BY <1>2, RewrittenValue
  <2>2. p \in FilledBy(fill) /\ fill[p] \in Taken(fill) /\ fill[p] \in Ads
    BY <2>1 DEF FilledBy, Taken
  <2> QED
    BY <2>1, <2>2 DEF Fitting, Unlinked
<1> QED
  BY <1>1, <1>2

\* What does not fit still leaves ads, and deletes only what was to be deleted.
LEMMA RewrittenRaces ==
    ASSUME NEW j, NEW fill \in [Products -> Ads \cup {None}], NEW drop,
           j # "cabinet" => drop = {}, NEW A \in SUBSET Ads,
           NEW new \in KeysFor(A), link' = Rewritten(fill, drop, new)
    PROVE  Serial!Race(j)
<1> SUFFICES ASSUME NEW p \in Products, link'[p] # link[p]
             PROVE  link'[p] \in Ads \/ (j = "cabinet" /\ link'[p] = Free)
  BY DEF Serial!Race, Serial!Changed
<1>1. p \in DOMAIN new => new[p] \in A
  BY KeysTyped
<1> QED
  BY <1>1, RewrittenValue

\* A program that commits, or leaves the rows alone, does not overtake itself.
LEMMA NotItself ==
    ASSUME TypeOK, Overtakes, NEW j \in Programs, ~Idles(j) \/ link' = link,
           link' \in [Products -> Ads \cup {None, Free}]
    PROVE  Serial!Overtakes(Programs \ {j})
<1>1. Serial!Changed = {} => link' = link
  <2> SUFFICES ASSUME Serial!Changed = {} PROVE link' = link
    OBVIOUS
  <2>1. \A p \in Products : link'[p] = link[p]
    BY DEF Serial!Changed
  <2>2. link \in [Products -> Ads \cup {None, Free}]
    BY DEF TypeOK
  <2> QED
    BY <2>1, <2>2
<1>2. \A k \in overtaken' : k \in overtaken \/ (link' # link /\ k \in Programs \ {j})
  BY DEF Overtakes
<1> QED
  BY <1>1, <1>2 DEF Serial!Overtakes

LEMMA StillOneEach == ASSUME UniqueIn(link') PROVE Serial!OneProductEach'
BY DEF UniqueIn, Serial!OneProductEach

\* Of a program that nobody overtook the plan fits, and mirrors what it has read.
LEMMA CommitSerial ==
    ASSUME IInv, OnlyCabinetDrops, Overtakes, NEW j \in Programs, Commit(j), IInv'
    PROVE  Serial!Writes(j)
<1> DEFINE pl == plan[j]
<1>1. PICK new \in KeysFor(pl.new) : Writes(UpdatedBy(pl), pl.fill, pl.drop, new)
  BY DEF Commit
<1>2. /\ pl.fill \in [Products -> Ads \cup {None}] /\ pl.new \in SUBSET Ads
      /\ pl.todo \in SUBSET Ads /\ TypeOK /\ stage[j] = "read"
  BY Rows DEF Plans, IInv, Commit
<1>3. link' = Rewritten(pl.fill, pl.drop, new) /\ (j # "cabinet" => pl.drop = {})
  BY <1>1 DEF Writes, OnlyCabinetDrops
<1>4. ~Idles(j)
  BY <1>2 DEF Commit, Goes, IInv, TypeOK, Idles
<1>5. Serial!OneProductEach' /\ Serial!Overtakes(Programs \ {j})
  BY <1>2, <1>4, NotItself, StillOneEach DEF IInv, TypeOK
<1>6. ASSUME j \notin overtaken
      PROVE  Serial!Import \/ (j = "cabinet" /\ \E active \in SUBSET Ads : Serial!Mirror(active))
  <2>1. PassOK(j) /\ j # "excel"
    BY <1>2, <1>6 DEF IInv, PlanOK, RowsOK
  <2>2. CASE j # "cabinet"
    BY <1>1, <1>2, <1>3, <2>1, <2>2, FittingImports DEF PassOK
  <2>3. CASE j = "cabinet"
    <3>1. /\ pl.fill = NoFill /\ pl.new = pl.todo \ Linked /\ pl.drop = Orphans(pl.todo)
          /\ Linked' = pl.todo
      <4>1. plan["cabinet"].todo = Linked'
        BY <1>6, <2>3, MirrorsExport
      <4> QED
        BY <2>1, <2>3, <4>1 DEF PassOK
    <3>2. ASSUME NEW p \in Products
          PROVE  IF link[p] \in Ads \ pl.todo THEN link'[p] = Free
                 ELSE link'[p] # link[p] => link[p] = Free /\ link'[p] \in pl.todo \ Linked
      <4>1. CASE p \in DOMAIN new
        <5>1. link[p] = Free /\ new[p] \in pl.new
          BY <1>1, <4>1, KeysTyped DEF Spare, Live
        <5> QED
          BY <1>3, <3>1, <4>1, <5>1, NamesAreNoAds, RewrittenValue
      <4>2. CASE p \notin DOMAIN new
        <5>1. link'[p] = IF p \in pl.drop THEN Free ELSE link[p]
          BY <1>3, <3>1, <4>2, NoPlanTyped, RewrittenValue
        <5>2. p \in pl.drop <=> link[p] \in Ads \ pl.todo
          BY <3>1, NamesAreNoAds DEF Orphans, Live
        <5> QED
          BY <5>1, <5>2
      <4> QED
        BY <4>1, <4>2
    <3>3. Serial!Mirror(pl.todo)
      BY <3>1, <3>2 DEF Serial!Mirror, Serial!Changed, Serial!Linked, Linked
    <3> QED
      BY <1>2, <2>3, <3>3
  <2> QED
    BY <2>2, <2>3
<1>7. j \in overtaken => Serial!Race(j)
  BY <1>1, <1>2, <1>3, RewrittenRaces
<1> QED
  BY <1>5, <1>6, <1>7 DEF Serial!Writes

LEMMA CommitPassSerial ==
    ASSUME IInv, Overtakes, CommitPass, IInv' PROVE Serial!Writes("sync")
<1> DEFINE pl == plan["sync"]
<1>1. PICK new \in KeysFor(pl.new) : Writes(FilledBy(pl.fill), pl.fill, {}, new)
  BY DEF CommitPass
<1>2. /\ pl.fill \in [Products -> Ads \cup {None}] /\ pl.new \in SUBSET Ads
      /\ TypeOK /\ "sync" \in Programs
  BY Rows DEF Plans, IInv, Programs
<1>3. link' = Rewritten(pl.fill, {}, new)
  BY <1>1 DEF Writes
<1>4. stage'["sync"] # stage["sync"] /\ stage["sync"] # "idle"
  BY <1>2 DEF CommitPass, Goes, TypeOK
<1>5. Serial!OneProductEach' /\ Serial!Overtakes(Programs \ {"sync"})
  BY <1>2, <1>4, NotItself, StillOneEach DEF IInv, TypeOK, Idles
<1>6. "sync" \notin overtaken => Fitting(pl.fill, pl.new)
  BY <1>2, <1>4 DEF IInv, PlanOK, PassOK
<1>7. "sync" \notin overtaken => Serial!Import
  BY <1>1, <1>2, <1>3, <1>6, FittingImports
<1>8. Serial!Race("sync")
  BY <1>1, <1>2, <1>3, RewrittenRaces
<1> QED
  BY <1>2, <1>5, <1>7, <1>8 DEF Serial!Writes

LEMMA ImportRowSerial ==
    ASSUME IInv, Overtakes, NEW a \in Ads, ImportRow(a), IInv' PROVE Serial!Writes("excel")
<1> DEFINE old == plan["excel"]
<1>1. /\ stage["excel"] = "rows" /\ a \in old.todo /\ "excel" \in Programs /\ old \in Plans
      /\ TypeOK
  BY Rows DEF ImportRow, Programs, IInv
<1>2. PICK f \in [Products -> Ads \cup {None}], A \in SUBSET Ads :
         /\ \E new \in KeysFor(A) : link' = Rewritten(f, {}, new)
         /\ "excel" \notin overtaken => Fitting(f, A)
  <2>1. CASE UpdateRow(a)
    <3>1. PICK p \in Targets(old, a) :
             Writes({p}, [NoFill EXCEPT ![p] = IdFor(old, p, a)], {}, <<>>)
      BY <2>1 DEF UpdateRow
    <3> DEFINE f == [NoFill EXCEPT ![p] = IdFor(old, p, a)]
    <3>2. f \in [Products -> Ads \cup {None}]
      BY NoPlanTyped DEF Targets, IdFor
    <3>3. link' = Rewritten(f, {}, <<>>)
      BY <3>1 DEF Writes
    <3>4. "excel" \notin overtaken => Fitting(f, {})
      BY <1>1, RowFits
    <3>5. <<>> \in KeysFor({})
      BY NoKeys
    <3> HIDE DEF f
    <3> QED
      BY <3>2, <3>3, <3>4, <3>5
  <2>2. CASE InsertRow(a)
    <3>1. PICK new \in KeysFor({a}) : Writes({}, NoFill, {}, new)
      BY <2>2 DEF InsertRow
    <3>2. "excel" \notin overtaken => Fitting(NoFill, {a})
      <4>1. "excel" \notin overtaken => a \notin Linked
        BY <1>1, <2>2 DEF InsertRow, IInv, PlanOK, RowsOK, Linked
      <4> QED
        BY <4>1, NoPlanTyped DEF Fitting
    <3> QED
      BY <3>1, <3>2, NoPlanTyped DEF Writes
  <2>3. CASE RowFails(a)
    <3>1. link' = Rewritten(NoFill, {}, <<>>)
      <4>1. DOMAIN <<>> = {} /\ link' = link /\ link \in [Products -> Ads \cup {None, Free}]
        BY <1>1, <2>3 DEF RowFails, TypeOK
      <4> QED
        BY <4>1, NoPlanTyped DEF Rewritten
    <3> QED
      BY <3>1, NoPlanTyped, NothingFits, NoKeys
  <2> QED
    BY <2>1, <2>2, <2>3 DEF ImportRow
<1>3. plan'["excel"].todo # old.todo
  <2>1. plan'["excel"].todo = old.todo \ {a}
    <3>1. CASE UpdateRow(a)
      <4>1. PICK p \in Targets(old, a) :
               LET g == [NoFill EXCEPT ![p] = IdFor(old, p, a)] IN
               Goes("excel", "rows",
                    [old EXCEPT !.todo = @ \ {a}, !.fill[p] = IF g[p] # None THEN a ELSE @])
        BY <3>1 DEF UpdateRow
      <4> QED
        BY <1>1, <4>1 DEF Goes, TypeOK, Plans
    <3>2. CASE InsertRow(a) \/ RowFails(a)
      <4>1. \/ Goes("excel", "rows", [old EXCEPT !.todo = @ \ {a}])
            \/ Goes("excel", "rows", [old EXCEPT !.todo = @ \ {a}, !.broken = TRUE])
        BY <3>2 DEF InsertRow, RowFails
      <4>2. \A pl : Goes("excel", "rows", pl) => plan'["excel"] = pl
        BY <1>1 DEF Goes, TypeOK
      <4>3. /\ [old EXCEPT !.todo = @ \ {a}].todo = old.todo \ {a}
            /\ [old EXCEPT !.todo = @ \ {a}, !.broken = TRUE].todo = old.todo \ {a}
        BY <1>1 DEF Plans
      <4> QED
        BY <4>1, <4>2, <4>3
    <3> QED
      BY <3>1, <3>2 DEF ImportRow
  <2> QED
    BY <1>1, <2>1
<1>4. Serial!OneProductEach' /\ Serial!Overtakes(Programs \ {"excel"})
  BY <1>1, <1>3, NotItself, StillOneEach DEF IInv, TypeOK, Idles
<1>5. "excel" \notin overtaken => Serial!Import
  BY <1>1, <1>2, FittingImports
<1>6. Serial!Race("excel")
  BY <1>2, RewrittenRaces
<1> QED
  BY <1>1, <1>4, <1>5, <1>6 DEF Serial!Writes

LEMMA OperatorSerial == ASSUME IInv, Overtakes, OperatorStep, IInv' PROVE Serial!Operator
<1>1. PICK p \in Products : CreateProduct(p) \/ Repost(p) \/ DeleteRow(p)
  BY DEF OperatorStep
<1>2. link \in [Products -> Ads \cup {None, Free}] /\ overtaken \subseteq Programs
  BY DEF IInv, TypeOK
<1>3. /\ link'[p] # link[p] /\ \A q \in Products \ {p} : link'[q] = link[q]
      /\ link'[p] = Free \/ (link'[p] = None /\ link[p] # None)
  BY <1>1, <1>2, NamesAreNoAds DEF CreateProduct, Repost, DeleteRow, Spare, Live
<1>4. Serial!Changed = {p}
  BY <1>3 DEF Serial!Changed
<1>5. Serial!Overtakes(Programs)
  BY <1>4 DEF Serial!Overtakes, Overtakes
<1> QED
  BY <1>3, <1>4, <1>5 DEF Serial!Operator

\* A step that leaves the rows alone writes nothing, and may end a program.
LEMMA NothingSerial ==
    ASSUME IInv, Overtakes, link' = link, IInv' PROVE Serial!Writes("sync")
<1>1. "sync" \in Programs
  BY DEF Programs
<1>2. Serial!OneProductEach' /\ Serial!Overtakes(Programs \ {"sync"})
  BY <1>1, NotItself, StillOneEach DEF IInv, TypeOK
<1> QED
  BY <1>2 DEF Serial!Writes, Serial!Import, Serial!Changed

\* Passes, rows and commits on what was read before implement programs that read the
\* rows in the moment in which they write them, but for those that were overtaken.
THEOREM LinkingIsSerial == Spec => LinksAreSerial
<1>1. Init => Serial!Init
  BY DEF Init, Serial!Init
<1>2. IInv /\ OnlyCabinetDrops /\ IInv' /\ [Next]_vars => [Serial!Next]_(Serial!vars)
  <2> SUFFICES ASSUME IInv, OnlyCabinetDrops, IInv', Next
               PROVE  Serial!Next
    BY DEF vars, Serial!vars
  <2>1. Step /\ Overtakes /\ {"sync", "excel"} \subseteq Programs
    BY DEF Next, Overtakes, Programs
  <2>2. CASE \E j \in Programs : Commit(j)
    BY <2>1, <2>2, CommitSerial DEF Serial!Next
  <2>3. CASE CommitPass
    BY <2>1, <2>3, CommitPassSerial DEF Serial!Next
  <2>4. CASE \E a \in Ads : ImportRow(a)
    BY <2>1, <2>4, ImportRowSerial DEF Serial!Next
  <2>5. CASE OperatorStep
    BY <2>1, <2>5, OperatorSerial DEF Serial!Next
  <2>6. CASE link' = link
    BY <2>1, <2>6, NothingSerial DEF Serial!Next
  <2>7. \/ \E j \in Programs : Commit(j)
        \/ CommitPass \/ (\E a \in Ads : ImportRow(a)) \/ OperatorStep \/ link' = link
    BY <2>1 DEF Step, BeginSync, ReadPass1, SkipPass1, ReadPass2, ReadPass3, ReadFeed,
                ReadItems, ReadExport, LoadProducts, ExcelEnds, Fails
  <2> QED
    BY <2>2, <2>3, <2>4, <2>5, <2>6, <2>7
<1> QED
  BY <1>1, <1>2, InvariantHolds, DropsHold, PTL DEF Spec, LinksAreSerial, Serial!Spec

=============================================================================
