------------------------------ MODULE AdLinks ------------------------------
(***************************************************************************)
(* What the operator may rely on of the programs that tell products and    *)
(* the ads of Avito together, without snapshots, passes, rows and commits. *)
(*                                                                         *)
(* A program that nobody overtakes writes as if it had read the rows in    *)
(* the moment in which it writes them: it gives ads that have no product   *)
(* one each and takes nothing away, or, when it mirrors the cabinet, makes *)
(* the products those of the active ads.  One that was overtaken may do    *)
(* more than that, but leaves every ad with one product at most.           *)
(***************************************************************************)
CONSTANTS
    Programs, Products, Ads,
    Mirrors,     \* the programs that may delete products
    None, Free   \* a product without an ad; no product

VARIABLES
    link,   \* the ad of each product
    stale   \* the programs that read the rows before another changed them

Linked == {a \in Ads : \E p \in Products : link[p] = a}

OneProductEach ==
    \A p, q \in Products : p # q /\ link[p] = link[q] => link[p] \in {None, Free}

Init == link = [p \in Products |-> Free] /\ stale = {}

Changed == {p \in Products : link'[p] # link[p]}

\* Ads without a product get one, which had none or is new.
Import == \A p \in Changed : link[p] \in {None, Free} /\ link'[p] \in Ads \ Linked

\* The products with other ads go, and the active ads have products then.
Mirror(active) ==
    /\ \A p \in Products :
          IF link[p] \in Ads \ active THEN link'[p] = Free
          ELSE p \in Changed => link[p] = Free /\ link'[p] \in active \ Linked
    /\ Linked' = active

\* The rows are not those the program read: a product may lose the ad it has got
\* meanwhile to another one, or go with it.
Race(j) == \A p \in Changed : \/ link'[p] \in Ads
                              \/ j \in Mirrors /\ link'[p] = Free

\* Only a change overtakes, and no program overtakes itself.
Overtakes(others) ==
    stale' \subseteq stale \cup (IF Changed = {} THEN {} ELSE others)

Writes(j) ==
    /\ \/ Import
       \/ j \in Mirrors /\ \E active \in SUBSET Ads : Mirror(active)
       \/ j \in stale /\ Race(j)
    /\ OneProductEach'
    /\ Overtakes(Programs \ {j})

\* A product is created, deleted, or loses its ad.
Operator ==
    /\ \E p \in Products : /\ Changed = {p}
                           /\ link'[p] = Free \/ (link'[p] = None /\ link[p] # None)
    /\ Overtakes(Programs)

Next == Operator \/ \E j \in Programs : Writes(j)

vars == <<link, stale>>

Spec == Init /\ [][Next]_vars
=============================================================================
