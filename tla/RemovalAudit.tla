---------------------------- MODULE RemovalAudit ----------------------------
(***************************************************************************)
(* AvitoJobs with a record, kept beside the rows, of who removed a product *)
(* and when: the table only has removed_at, and only one of it.  The       *)
(* properties are about what removing a product means in the long run.     *)
(***************************************************************************)
EXTENDS AvitoJobs

VARIABLE audit

\* by:     who last changed the status of the row
\* dated:  when the row was first given a removed_at
\* since:  when its status last became "removed"
Entries == [by: {"operator", "job"}, dated: Nat \cup {None}, since: Nat \cup {None}]

auditVars == <<vars, audit>>

Changed(p) == row'[p].status # row[p].status

\* The audit of a step taken by `who'.
Audited(who) ==
    audit' = [p \in Products |->
        [by    |-> IF Changed(p) THEN who ELSE audit[p].by,
         dated |-> IF row'[p].removedAt # None /\ audit[p].dated = None
                   THEN now ELSE audit[p].dated,
         since |-> IF row'[p].status # "removed" THEN None
                   ELSE IF row[p].status = "removed" THEN audit[p].since ELSE now]]

AuditInit ==
    /\ Init
    /\ audit = [p \in Products |-> [by |-> "operator", dated |-> None, since |-> None]]

AuditNext ==
    \/ JobStep /\ Audited("job")
    \/ \E p \in Products : Request(p) /\ Audited("operator")
    \/ BulkRequest /\ Audited("operator")
    \/ \E a \in Ads : AdChanges(a) /\ UNCHANGED audit
    \/ TimePasses /\ UNCHANGED audit

AuditSpec == AuditInit /\ [][AuditNext]_auditVars

-----------------------------------------------------------------------------
\* What a job removes, it removes for good: with a date, so that the feed says
\* "Removed" to Avito and the cleanup finds the row two days later.  Only the
\* operator's PATCH removes a product without a date.
JobRemovalsAreDated ==
    \A p \in Live : row[p].status = "removed" /\ audit[p].by = "job"
                      => row[p].removedAt # None

\* None of these jobs and requests destroys a row or a photo directory unless the
\* product was removed, at least once, with a date more than Grace ago: whatever
\* comes between the cleanup's query and its commit, or ends it halfway.  Only a
\* repost, which replaces the photos, may lose them on its way as well.  (A
\* synchronisation with a cabinet export deletes rows at once.)
Destroyed(p) ==
    \/ row'[p].life = "deleted" /\ row[p].life # "deleted"
    \/ /\ p \in media \ media'
       /\ ~\E j \in Jobs : j = "repost" /\ p \in loaded[j] /\ phase'[j] = "idle"
RemovedLongAgo(p) == audit[p].dated # None /\ audit[p].dated + Grace < now
NothingDestroyedEarly ==
    [][\A p \in Products : Destroyed(p) => RemovedLongAgo(p)]_auditVars

\* A dated removal by the operator stands against the jobs that reconcile the
\* products with Avito: they put the product on sale again only if they had read
\* the row before it was removed (their guarded write cannot see the operator's,
\* which leaves the version alone).  The others that do are the operator's own
\* repost, and the publishing of a listing that the removal has left scheduled or
\* that was scheduled afterwards: it does not ask what the product's status is.  (So
\* does a synchronisation with a cabinet export, a request outside this module.)
RemovedIn(c) == c.status = "removed" /\ c.dated
PutsOnSale == {"repost", "publish"}
OperatorRemovalsHold ==
    [][ JobStep =>
          \A p \in Live :
             /\ row[p].status = "removed" /\ row[p].removedAt # None
             /\ audit[p].by = "operator"
             /\ row'[p].status # "removed"
             => \E j \in Jobs : /\ p \in loaded[j] /\ phase'[j] = "idle"
                                 /\ (j \in PutsOnSale \/ ~RemovedIn(copy[j][p]))
      ]_auditVars

\* What a job has found out by asking Avito - that the ad is blocked, or sold - a
\* guarded write only goes over if its job has read it.  The unguarded writes that
\* go over it unseen are those of repost and publishing, and the import's marking
\* of a row that it had selected, as on sale, before the verdict was committed.
\* (Of the import's own removals the like is not so: they leave the version as it
\* is.)
Verdicts == {"paused", "sold"}
VerdictsAreSeen ==
    [][ JobStep =>
          \A p \in Live :
             /\ row[p].status \in Verdicts /\ audit[p].by = "job"
             /\ row'[p].status # row[p].status
             => \/ p \in stale \ stale' /\ row'[p].status = "removed"
                \/ \E j \in Jobs : /\ p \in loaded[j] /\ phase'[j] = "idle"
                                   /\ (j \in PutsOnSale \/ copy[j][p].status = row[p].status)
      ]_auditVars

\* _job_cleanup_removed: "physically delete products removed > 48h ago".  The
\* rows it picks to be deleted have been removed for more than Grace.
GraceRespected ==
    [][\A p \in loaded'["cleanup"] \ loaded["cleanup"] :
          audit[p].since # None /\ audit[p].since + Grace < now]_auditVars

\* import_account_items: "If product was sold/removed but is still active on
\* Avito, restore it.  But skip if manually removed".  When the import ends and
\* no guarded write came in between, a product it found removed, and not by the
\* operator, and listed by Avito, is back.
RemovedComesBack ==
    [][ImportApply =>
          \A p \in loaded["import"] :
             LET c == copy["import"][p] IN
             /\ p \in Live /\ row[p].version = c.version
             /\ c.status = "removed" /\ row[p].status = "removed"
             /\ audit[p].by = "job"
             /\ c.avitoId \in listed["import"]
             => row'[p].status = "imported"]_auditVars

=============================================================================
