---------------------------- MODULE JobsProgress ----------------------------
(***************************************************************************)
(* What the jobs of AvitoJobs bring about in the long run, however often   *)
(* single runs of them fail: FairSpec.  VersionsLeft, the bound on guarded *)
(* writes, is part of every property: past it no job starts.               *)
(***************************************************************************)
EXTENDS AvitoJobs

WithAd(p, states) == /\ VersionsLeft /\ p \in Live /\ row[p].avitoId # None
                     /\ ad[row[p].avitoId] \in states

\* A product whose ad is gone from Avito does not stay on sale here.
OffAvitoComesOff ==
    \A p \in Products :
        ~<>[](WithAd(p, AdStatuses \ {"active"}) /\ row[p].status \in OnSale)

\* A product taken for sold, whose ad is still (or again) active, comes back.
SoldComesBack ==
    \A p \in Products :
        ~<>[](WithAd(p, {"active"}) /\ row[p].status = "sold" /\ row[p].removedAt = None)

\* A product with a removal date old enough does not stay in the table, if no
\* product has photos.
AgedOut(p) == /\ VersionsLeft /\ p \in Live /\ row[p].status = "removed"
              /\ row[p].removedAt # None /\ row[p].removedAt + Grace < MaxTime
BareRowsAreDeleted ==
    \A p \in Products :
        ~<>[](AgedOut(p) /\ \A q \in Live : ~row[q].photos)

\* avito_import.py and _job_cleanup_removed say so of every product.
RemovedRowsAreDeleted == \A p \in Products : ~<>[]AgedOut(p)

\* test_check_declined.py: "Paused product that is active on Avito should be
\* restored."
PausedComesBack ==
    \A p \in Products : ~<>[](WithAd(p, {"active"}) /\ row[p].status = "paused")
=============================================================================
