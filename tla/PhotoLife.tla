------------------------------ MODULE PhotoLife ------------------------------
(***************************************************************************)
(* What the operator may rely on of the photos picked from a Yandex.Disk   *)
(* folder, without jobs, files and attempts: the life of each photo.  One  *)
(* photo is fetched at a time, none twice without being asked for again,   *)
(* and one whose download dies is never fetched again: it stays until its  *)
(* row goes.                                                               *)
(***************************************************************************)
CONSTANT Photos

VARIABLE life

Init == life = [i \in Photos |-> "none"]

\* A request, or the folder job, does away with the rows S and asks for New.
Replace(S, New) ==
    /\ \A i \in New : life[i] = "none"
    /\ life' = [i \in Photos |-> IF i \in S THEN "none"
                                 ELSE IF i \in New THEN "asked" ELSE life[i]]

Moves(i, from, to) == life[i] = from /\ life' = [life EXCEPT ![i] = to]

Fetch(i) == (\A j \in Photos : life[j] # "loading") /\ Moves(i, "asked", "loading")

Ends(i) == \E to \in {"here", "asked", "failed", "stuck"} : Moves(i, "loading", to)

Retry(i) == Moves(i, "failed", "asked")

Next == \/ \E S, New \in SUBSET Photos : Replace(S, New)
        \/ \E i \in Photos : Fetch(i) \/ Ends(i) \/ Retry(i)

Spec == Init /\ [][Next]_life
=============================================================================
