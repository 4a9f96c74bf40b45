---------------------------- MODULE VersionedPrefix ----------------------------
(***************************************************************************)
(* What the users of a cache lineage rely on: one committed sequence of    *)
(* tokens that only grows, under a version that moves by one with every    *)
(* publication, until the sequence is given up for good.  A publication    *)
(* extends the sequence, or replaces its representation and keeps it.      *)
(***************************************************************************)
EXTENDS Naturals, SequencesExt

CONSTANT Tokens

VARIABLES committed, version, open

prefixVars == <<committed, version, open>>

PrefixInit ==
    /\ committed \in Seq(Tokens)
    /\ version \in Nat
    /\ open = TRUE

Extend ==
    /\ open
    /\ committed' \in Seq(Tokens)
    /\ IsStrictPrefix(committed, committed')
    /\ version' = version + 1
    /\ UNCHANGED open

Rewrite ==
    /\ open
    /\ version' = version + 1
    /\ UNCHANGED <<committed, open>>

GiveUp ==
    /\ open
    /\ open' = FALSE
    /\ committed' = <<>>
    /\ UNCHANGED version

PrefixNext == Extend \/ Rewrite \/ GiveUp

PrefixSpec == PrefixInit /\ [][PrefixNext]_prefixVars

================================================================================
