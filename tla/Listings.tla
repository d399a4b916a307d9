------------------------------- MODULE Listings -------------------------------
(***************************************************************************)
(* ORDER BY: what a query may return when it lists the rows of a finite    *)
(* set.                                                                    *)
(***************************************************************************)
EXTENDS SequencesExt

Orderings(S, Before(_, _)) ==
    {s \in SetToSeqs(S) : \A m, n \in DOMAIN s : m < n => Before(s[m], s[n])}

===============================================================================
