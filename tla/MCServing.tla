------------------------------- MODULE MCServing -------------------------------
(* TLC instance of Serving. *)
EXTENDS Serving, TLC

Class(model, route, mtp, seeded) ==
    [model |-> model, route |-> route, mtp |-> mtp, seeded |-> seeded]

(* Every way through _generate: plain and self-MTP lanes, seeded requests  *)
(* of both kinds, one request alone, n > 1, and a second model.            *)
AllClasses == {Class("m1", "batch", FALSE, FALSE), Class("m1", "batch", TRUE, FALSE),
               Class("m1", "batch", FALSE, TRUE), Class("m1", "batch", TRUE, TRUE),
               Class("m1", "single", FALSE, FALSE), Class("m1", "nway", FALSE, FALSE),
               Class("m2", "batch", FALSE, FALSE)}

(* Requests that have to drain each other's batches. *)
MixedClasses == {Class("m1", "batch", FALSE, FALSE), Class("m1", "batch", TRUE, FALSE)}
PlainClass == {Class("m1", "batch", FALSE, FALSE)}
MtpClass == {Class("m1", "batch", TRUE, FALSE)}

(* A lane and a request alone: the two that announce the end before they store. *)
RouteClasses == {Class("m1", "batch", FALSE, FALSE), Class("m1", "single", FALSE, FALSE)}

(* A plain lane meets every class, a self-MTP lane those it cannot share a *)
(* batch with; a reload meets one lane and one request alone.              *)
Pairs == {{Class("m1", "batch", FALSE, FALSE), k} : k \in AllClasses}
         \cup {{Class("m1", "batch", TRUE, FALSE), k} :
                   k \in {j \in AllClasses : j.seeded \/ j.route = "nway"}}
ClassesMeet ==
    LET met == {class[c] : c \in Requests}
    IN  /\ met \in Pairs
        /\ met = RouteClasses \/ \A r \in Reloads : reload[r] = "new"

RequestSymmetry == Permutations(Requests)
ServingSymmetry == RequestSymmetry \cup Permutations(Settings)

================================================================================
