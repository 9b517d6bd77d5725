------------------------------ MODULE Linking ------------------------------
(***************************************************************************)
(* Which product an ad of the account belongs to.  Five programs fill in   *)
(* products.avito_id or insert products for ads they do not know, each     *)
(* from what it read before: the synchronisation with its three passes     *)
(* (app/services/autoload_sync.py), the import of a foreign feed           *)
(* (feed_importer.py), the import request (app/routes/products.py), the    *)
(* row by row import of an Excel export (excel_importer.py) and the        *)
(* synchronisation with the cabinet's export, which also deletes           *)
(* (sync_from_avito_export.py).                                            *)
(*                                                                         *)
(* None of them looks at the rows again before it commits: what stops them *)
(* is the UNIQUE avito_id alone, and then everything read is given up.     *)
(* What a program will write depends on what it read only, so it is worked *)
(* out at the read and kept until the commit.                              *)
(*                                                                         *)
(* Titles and SKUs are whatever the operator types, so an ad may match any *)
(* product without an avito_id that the program loaded, and no ad and no   *)
(* product matches twice.  Ads of other accounts are left out.             *)
(***************************************************************************)
EXTENDS Naturals, FiniteSets, Functions

CONSTANTS
    Products,   \* keys; one that is free stands for a new one
    Ads,        \* avito_ids of the account
    None, Free, \* SQL NULL; no row has the key
    MaxBusy     \* bound on how many programs are under way at a time

ASSUME NamesAreNoAds == {None, Free} \cap Ads = {} /\ None # Free
ASSUME MaxBusyIsNat == MaxBusy \in Nat

VARIABLES
    link,     \* the avito_id of each product
    stage,    \* where each program is
    plan,     \* what it will write
    known,    \* all_avito_ids, which a synchronisation reads once
    overtaken \* programs during which another, or the operator, changed a link

vars == <<link, stage, plan, known, overtaken>>

Programs == {"sync", "feed", "request", "excel", "cabinet"}

Stages == {"idle", "begun", "pass1", "fetched", "pass2", "matched", "pass3", "read", "rows"}

\* fill:   products that get an avito_id, and which (excel: have got)
\* new:    ads that get a new product
\* drop:   products that are deleted
\* todo:   the ads listed (sync, cabinet), the rows that are left (excel)
\* seen:   products the program updates (cabinet) or has loaded (excel)
\* broken: a row has failed (excel)
Plans == [fill: [Products -> Ads \cup {None}], new: SUBSET Ads, drop: SUBSET Products,
          todo: SUBSET Ads, seen: [Products -> Ads \cup {None, Free}], broken: BOOLEAN]

Live == {p \in Products : link[p] # Free}
Unlinked == {p \in Products : link[p] = None}
Linked == {a \in Ads : \E p \in Products : link[p] = a}

\* Product.avito_id is UNIQUE.
UniqueIn(f) == \A p, q \in Products : p # q /\ f[p] = f[q] => f[p] \in {None, Free}

TypeOK ==
    /\ link \in [Products -> Ads \cup {None, Free}]
    /\ UniqueIn(link)
    /\ stage \in [Programs -> Stages]
    /\ plan \in [Programs -> Plans]
    /\ known \in SUBSET Ads
    /\ overtaken \in SUBSET Programs

NoFill == [p \in Products |-> None]
NoPlan == [fill |-> NoFill, new |-> {}, drop |-> {}, todo |-> {},
           seen |-> [p \in Products |-> Free], broken |-> FALSE]

Init ==
    /\ link = [p \in Products |-> Free]
    /\ stage = [j \in Programs |-> "idle"]
    /\ plan = [j \in Programs |-> NoPlan]
    /\ known = {}
    /\ overtaken = {}

-----------------------------------------------------------------------------
(* Reading and committing *)

Busy == {j \in Programs : stage[j] # "idle"}
MayStart(j) == stage[j] = "idle" /\ Cardinality(Busy) < MaxBusy

Goes(j, to, pl) ==
    /\ stage' = [stage EXCEPT ![j] = to]
    /\ plan' = [plan EXCEPT ![j] = pl]

FilledBy(f) == {p \in Products : f[p] # None}
Taken(f) == {f[p] : p \in FilledBy(f)}

\* The ways to match ads of A with products that have none.
Matches(A) ==
    {f \in [Products -> A \cup {None}] :
        /\ FilledBy(f) \subseteq Unlinked
        /\ \A p, q \in FilledBy(f) : f[p] = f[q] => p = q}

\* Keys no row has and no program remembers.
Spare == {p \in Products \ Live :
             \A j \in Programs : /\ plan[j].fill[p] = None /\ p \notin plan[j].drop
                                 /\ plan[j].seen[p] = Free}

\* `new' gives the ads their keys.
KeysFor(A) == UNION {Bijection(K, A) : K \in SUBSET Spare}

Rewritten(fill, drop, new) ==
    [p \in Products |-> IF p \in DOMAIN new THEN new[p]
                        ELSE IF p \in drop THEN Free
                        ELSE IF fill[p] # None THEN fill[p] ELSE link[p]]

\* Mutant: avito_id is not UNIQUE.
WritesAnyway(updated, fill, drop, new) ==
    updated \subseteq Live /\ link' = Rewritten(fill, drop, new)

\* A commit: no UPDATE may miss its row, and avito_id stays unique.
Writes(updated, fill, drop, new) ==
    /\ updated \subseteq Live
    /\ link' = Rewritten(fill, drop, new)
    /\ UniqueIn(link')

\* An answer that does not come, a commit the database refuses, a worker that
\* dies: whatever was not committed is gone.
Fails(j) ==
    /\ stage[j] # "idle"
    /\ Goes(j, "idle", NoPlan)
    /\ known' = IF j = "sync" THEN {} ELSE known
    /\ UNCHANGED link

-----------------------------------------------------------------------------
(* sync_ads_from_avito *)

BeginSync ==
    /\ MayStart("sync")
    /\ known' = Linked
    /\ Goes("sync", "begun", NoPlan)
    /\ UNCHANGED link

\* The ads no row of the account had when the pass began, nor of any account
\* when the synchronisation did.
Unknown(A) == (A \ Linked) \ known

\* What the pages of a report, those of the listing of active ads and a foreign
\* feed may hold; pages are read one after another, and broken entries skipped.
InReport == SUBSET Ads
InListing == SUBSET Ads
InForeignFeed == SUBSET Ads

\* The latest report has come: an ad whose ad_id is the SKU of a product without
\* an avito_id is filled in, one whose SKU product has another is skipped.
ReadPass1 ==
    /\ stage["sync"] = "begun"
    /\ \E applied \in InReport :
       \E f \in Matches(Unknown(applied)) :
       \E new \in SUBSET (Unknown(applied) \ Taken(f)) :
          Goes("sync", "pass1", [NoPlan EXCEPT !.fill = f, !.new = new])
    /\ UNCHANGED <<link, known>>

\* The account has no reports, or their API has gone (404).
SkipPass1 ==
    /\ stage["sync"] = "begun"
    /\ Goes("sync", "fetched", NoPlan)
    /\ UNCHANGED <<link, known>>

\* get_all_items has come.  An ad that was linked since all_avito_ids was read
\* is not known to be.
ReadPass2 ==
    /\ stage["sync"] = "fetched"
    /\ \E listed \in InListing :
       \E f \in Matches(listed \ known) :
          Goes("sync", "pass2", [NoPlan EXCEPT !.fill = f, !.todo = listed])
    /\ UNCHANGED <<link, known>>

\* Mutant: pass 3 only matches.
Nothing(A, f) == {}
Unmatched(A, f) == A \ Taken(f)

\* The listing is the one of pass 2; what no product matches gets a new one.
ReadPass3 ==
    /\ stage["sync"] = "matched"
    /\ LET listed == plan["sync"].todo IN
       \E f \in Matches(Unknown(listed)) :
          Goes("sync", "pass3", [NoPlan EXCEPT !.fill = f, !.todo = listed,
                                              !.new = Unmatched(Unknown(listed), f)])
    /\ UNCHANGED <<link, known>>

AfterPass == [pass1 |-> "fetched", pass2 |-> "matched", pass3 |-> "idle"]

\* Mutant: the new products' ads are forgotten.
KnownFilled(pl) == known \cup Taken(pl.fill)
KnownAfter(pl) == known \cup Taken(pl.fill) \cup pl.new

\* Each pass commits on its own.
CommitPass ==
    LET pl == plan["sync"] IN
    /\ \E new \in KeysFor(pl.new) : Writes(FilledBy(pl.fill), pl.fill, {}, new)
    /\ \/ /\ stage["sync"] \in {"pass1", "pass2"}
          /\ known' = KnownAfter(pl)
          /\ Goes("sync", IF stage["sync"] = "pass1" THEN "fetched" ELSE "matched",
                  [NoPlan EXCEPT !.todo = pl.todo])
       \/ /\ stage["sync"] = "pass3"
          /\ known' = {}
          /\ Goes("sync", "idle", NoPlan)

-----------------------------------------------------------------------------
(* The feed, the request and the cabinet's export *)

\* sync_avito_ids_from_feed, when the feed has come; ads without a number and
\* removed ones are skipped.
ReadFeed ==
    /\ MayStart("feed")
    /\ \E ads \in InForeignFeed :
       \E f \in Matches(ads \ Linked) :
          Goes("feed", "read",
               [NoPlan EXCEPT !.fill = f, !.new = Unmatched(ads \ Linked, f)])
    /\ UNCHANGED <<link, known>>

\* POST /products/import-from-avito matches nothing.
ReadItems ==
    /\ MayStart("request")
    /\ \E listed \in InListing :
          Goes("request", "read", [NoPlan EXCEPT !.new = listed \ Linked])
    /\ UNCHANGED <<link, known>>

\* What the export does not have as active is deleted.  Mutants: nothing is;
\* products without an avito_id are as well.
NoOrphans(active) == {}
OrphansAndDrafts(active) == {p \in Live : link[p] \notin active}
Orphans(active) == {p \in Live : link[p] \in Ads \ active}

\* sync_from_excel
ReadExport ==
    /\ MayStart("cabinet")
    /\ \E active \in SUBSET Ads :
          Goes("cabinet", "read",
               [NoPlan EXCEPT !.new = active \ Linked,
                              !.drop = Orphans(active),
                              !.todo = active,
                              !.seen = [p \in Products |->
                                 IF link[p] \in active THEN link[p] ELSE Free]])
    /\ UNCHANGED <<link, known>>

UpdatedBy(pl) == FilledBy(pl.fill) \cup {p \in Products : pl.seen[p] # Free}

Commit(j) ==
    /\ stage[j] = "read"
    /\ \E new \in KeysFor(plan[j].new) :
          Writes(UpdatedBy(plan[j]), plan[j].fill, plan[j].drop, new)
    /\ Goes(j, "idle", NoPlan)
    /\ UNCHANGED known

-----------------------------------------------------------------------------
(* import_avito_excel *)

LoadProducts ==
    /\ MayStart("excel")
    /\ \E ads \in SUBSET Ads :
          Goes("excel", "rows", [NoPlan EXCEPT !.todo = ads, !.seen = link])
    /\ UNCHANGED <<link, known>>

\* by_avito, or else by_title_null_avito, where a product stays when it has got
\* an avito_id.
Targets(pl, a) ==
    LET known1 == {p \in Products : pl.seen[p] = a} IN
    IF known1 # {} THEN known1 ELSE {p \in Products : pl.seen[p] = None}

\* "Don't overwrite an existing avito_id with a different one": the one in the
\* loaded object.
\* Mutant: no such condition.
IdAlways(pl, p, a) == a
IdFor(pl, p, a) == IF pl.seen[p] = None /\ pl.fill[p] = None THEN a ELSE None

UpdateRow(a) ==
    LET pl == plan["excel"] IN
    \E p \in Targets(pl, a) :
       LET f == [NoFill EXCEPT ![p] = IdFor(pl, p, a)] IN
       /\ ~pl.broken
       /\ Writes({p}, f, {}, <<>>)
       /\ Goes("excel", "rows",
               [pl EXCEPT !.todo = @ \ {a}, !.fill[p] = IF f[p] # None THEN a ELSE @])

\* A row without an avito_id inserts a product without an ad, which to the other
\* programs is what CreateProduct is (below).
InsertRow(a) ==
    LET pl == plan["excel"] IN
    /\ \A p \in Products : pl.seen[p] # a
    /\ \E new \in KeysFor({a}) : Writes({}, NoFill, {}, new)
    /\ Goes("excel", "rows", [pl EXCEPT !.todo = @ \ {a}])

\* After the rollback every product loaded is expired, and reading its avito_id
\* is an error outside of an await: all rows that match one fail from here on.
RowFails(a) ==
    /\ Goes("excel", "rows", [plan["excel"] EXCEPT !.todo = @ \ {a}, !.broken = TRUE])
    /\ UNCHANGED link

ImportRow(a) ==
    /\ stage["excel"] = "rows" /\ a \in plan["excel"].todo
    /\ UpdateRow(a) \/ InsertRow(a) \/ RowFails(a)
    /\ UNCHANGED known

ExcelEnds ==
    /\ stage["excel"] = "rows" /\ plan["excel"].todo = {}
    /\ Goes("excel", "idle", NoPlan)
    /\ UNCHANGED <<link, known>>

-----------------------------------------------------------------------------
(* The operator *)

\* POST /products/new and the like; POST /products/{id}/repost sets avito_id to
\* NULL; _job_cleanup_removed deletes.
CreateProduct(p) == p \in Spare /\ link' = [link EXCEPT ![p] = None]
Repost(p) == link[p] \in Ads /\ link' = [link EXCEPT ![p] = None]
DeleteRow(p) == p \in Live /\ link' = [link EXCEPT ![p] = Free]

OperatorStep ==
    /\ \E p \in Products : CreateProduct(p) \/ Repost(p) \/ DeleteRow(p)
    /\ UNCHANGED <<stage, plan, known>>

Step ==
    \/ BeginSync \/ ReadPass1 \/ SkipPass1 \/ ReadPass2 \/ ReadPass3 \/ CommitPass
    \/ ReadFeed \/ ReadItems \/ ReadExport
    \/ \E j \in Programs : Commit(j) \/ Fails(j)
    \/ LoadProducts \/ ExcelEnds
    \/ \E a \in Ads : ImportRow(a)
    \/ OperatorStep

\* A step of a program changes its plan or its stage, and no other's.
Idles(j) == stage'[j] = stage[j] /\ plan'[j] = plan[j]

Next ==
    /\ Step
    /\ overtaken' = {j \in Programs : /\ stage'[j] # "idle"
                                      /\ j \in overtaken \/ (link' # link /\ Idles(j))}

Spec == Init /\ [][Next]_vars

-----------------------------------------------------------------------------
(* Properties *)

\* The checks of a program against what it read suffice when nobody else changes
\* a link while it is under way: the database does not refuse its commit, though
\* it works from two snapshots (known, and the rows of the pass) and from what its
\* earlier passes or rows have done.  So a pass is only lost to a race.
Fits(updated, fill, drop, A) ==
    /\ updated \subseteq Live
    /\ \A new \in KeysFor(A) : UniqueIn(Rewritten(fill, drop, new))

UndisturbedFits ==
    \A j \in Programs \ overtaken :
        LET pl == plan[j] IN
        IF j = "excel"
        THEN \A a \in pl.todo :
                /\ \A p \in Targets(pl, a) :
                      Fits({p}, [NoFill EXCEPT ![p] = IdFor(pl, p, a)], {}, {})
                /\ (\A p \in Products : pl.seen[p] # a) => Fits({}, NoFill, {}, {a})
        ELSE Fits(UpdatedBy(pl) \ pl.drop, pl.fill, pl.drop, pl.new)

\* A program that nobody overtook replaces no product's ad by another, not even
\* when it meets two ads with the title of one product.
Replaced(p) == link[p] \in Ads /\ link'[p] \in Ads /\ link'[p] # link[p]
LinksHold ==
    [][\A p \in Products : Replaced(p) => \E j \in overtaken : ~Idles(j)]_vars

\* A synchronisation that nobody overtook ends with a product for every ad that
\* Avito listed, whichever pass found it; a cabinet's export, with the products
\* of its active ads and no others.
CompleteUnlessOvertaken ==
    [][ /\ (CommitPass /\ stage["sync"] = "pass3" /\ "sync" \notin overtaken)
              => plan["sync"].todo \subseteq Linked'
        /\ (Commit("cabinet") /\ "cabinet" \notin overtaken)
              => plan["cabinet"].todo = Linked' ]_vars

\* Linking implements AdLinks: passes, rows and commits on what was read before come
\* to what a program would have done that read the rows as it writes them, unless it
\* was overtaken; and then it is still only the cabinet's export that deletes, and
\* nobody leaves a product without the ad it had.
Serial == INSTANCE AdLinks WITH stale <- overtaken, Mirrors <- {"cabinet"}
LinksAreSerial == Serial!Spec
=============================================================================
