------------------------------- MODULE Listing ------------------------------
(***************************************************************************)
(* How the GitHub adapter reads a collection: page after page, by page     *)
(* number, from a list that others change between two requests.            *)
(***************************************************************************)
EXTENDS Integers, Sequences

CONSTANT PerPage  \* PER_PAGE

ASSUME PerPageAssumption == PerPage \in Nat \ {0}

\* What the provider answers to ?per_page=PER_PAGE&page=number.
Page(store, number) ==
  SubSeq(store, (number - 1) * PerPage + 1,
         IF number * PerPage < Len(store) THEN number * PerPage ELSE Len(store))

\* The loops of artifacts, caches and workflow_runs stop on an empty page, or when
\* they have as many entries as the last page said there are.
ListingEnds(page, read, total) == page = <<>> \/ read >= total
=============================================================================
