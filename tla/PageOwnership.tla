--------------------------- MODULE PageOwnership ----------------------------
(***************************************************************************)
(* What the page allocator promises, without generations or page records:  *)
(* a set of spans, each owned by one domain, no two of which overlap.      *)
(* Allocation adds one span of free pages, release removes one whole span. *)
(***************************************************************************)
EXTENDS Integers

CONSTANTS TotalPages, Domains

VARIABLE spans

Spans == [first_page : 0 .. TotalPages - 1, page_count : 1 .. TotalPages,
          domain : Domains]

PagesOf(span) == span.first_page .. span.first_page + span.page_count - 1

Init == spans = {}

Allocate(span) ==
    /\ PagesOf(span) \subseteq 0 .. TotalPages - 1
    /\ \A other \in spans : PagesOf(other) \cap PagesOf(span) = {}
    /\ spans' = spans \cup {span}

Release(span) == span \in spans /\ spans' = spans \ {span}

Next == \E span \in Spans : Allocate(span) \/ Release(span)

Spec == Init /\ [][Next]_spans
=============================================================================
