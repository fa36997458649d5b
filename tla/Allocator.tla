----------------------------- MODULE Allocator ------------------------------
(***************************************************************************)
(* The fixed page allocator (memory/allocator/fixed.c): first fit over one *)
(* record per page; every page of an allocation carries the same record,   *)
(* and its handle is <<generation, first page + 1>>.                       *)
(***************************************************************************)
EXTENDS Integers

CONSTANTS TotalPages,      \* 64
          PageSize,        \* LETTUCE_MEMORY_PAGE_SIZE (4096)
          SizeModulus,     \* number of size_t values (2^64)
          MaxPageCount,    \* UINT16_MAX
          MaxGeneration,   \* UINT16_MAX
          Domains,         \* domain ids; 0 is the invalid one
          Sizes            \* sizes callers ask for

ASSUME AllocatorAssumption ==
    /\ {TotalPages, PageSize, SizeModulus, MaxGeneration} \subseteq Nat \ {0}
    /\ MaxPageCount \in Nat /\ MaxPageCount >= TotalPages
    /\ 0 \notin Domains
    /\ Sizes \subseteq 0 .. SizeModulus - 1

VARIABLES
    allocations,   \* page -> Allocation
    issued,        \* history: handles returned with OK and not released yet,
                   \* each with the domain it was returned to
    released       \* history: handles whose release returned OK

allocVars == <<allocations, issued, released>>

Pages == 0 .. TotalPages - 1
Generations == 1 .. MaxGeneration
Handles == Generations \X {p + 1 : p \in Pages}
HandleValues == (0 .. MaxGeneration) \X (0 .. TotalPages + 1)

\* (Allocation){.generation = generation}
FreePage(generation) == [first_page |-> 0, page_count |-> 0, domain |-> 0,
                         generation |-> generation, active |-> FALSE]

decode_handle(handle) == handle[2] # 0 /\ handle[2] - 1 < TotalPages

\* The first page a handle names.
Start(handle) == handle[2] - 1

lettuce_memory_init ==
    /\ allocations = [p \in Pages |-> FreePage(1)]
    /\ issued = {}
    /\ released = {}

\* size_t arithmetic: the sum wraps.
PagesFor(size) == ((size + PageSize - 1) % SizeModulus) \div PageSize

SpanOf(start, pages) == start .. start + pages - 1

\* mutant: only the first page of the span is looked at
FreeFirst(start, pages) == ~allocations[start].active
FreeSpan(start, pages) ==
    \A p \in SpanOf(start, pages) : ~allocations[p].active

Fits(pages) == {start \in Pages : start + pages <= TotalPages /\ FreeSpan(start, pages)}

\* Every page of the span gets the record, with the generation of the first.
Occupy(start, pages, domain) ==
    allocations' = [p \in Pages |->
      IF p \in SpanOf(start, pages)
      THEN [first_page |-> start, page_count |-> pages, domain |-> domain,
            generation |-> allocations[start].generation, active |-> TRUE]
      ELSE allocations[p]]

lettuce_memory_allocate(domain, size) ==
    LET pages == PagesFor(size) IN
    /\ domain # 0 /\ size # 0
    /\ pages <= MaxPageCount
    /\ \E start \in Fits(pages) :
         /\ \A other \in Fits(pages) : start <= other
         /\ Occupy(start, pages, domain)
         /\ issued' = issued \cup {<<<<allocations[start].generation, start + 1>>, domain>>}
    /\ UNCHANGED released

\* INVALID_ARGUMENT, OVERFLOW or UNAVAILABLE
AllocateRefused ==
    /\ ~ \A domain \in Domains \cup {0}, size \in Sizes :
           /\ domain # 0 /\ size # 0
           /\ PagesFor(size) <= MaxPageCount
           /\ Fits(PagesFor(size)) # {}
    /\ UNCHANGED allocVars

ResolvesInterior(handle, domain) ==     \* mutant: no test for the head page
    /\ domain # 0 /\ decode_handle(handle)
    /\ allocations[Start(handle)].active
    /\ allocations[Start(handle)].generation = handle[1]
    /\ allocations[Start(handle)].domain = domain
ResolvesForAnyone(handle, domain) ==    \* mutant: no test for the domain
    /\ domain # 0 /\ decode_handle(handle)
    /\ allocations[Start(handle)].active
    /\ allocations[Start(handle)].generation = handle[1]
    /\ allocations[Start(handle)].first_page = Start(handle)
\* lettuce_memory_release goes ahead, and lettuce_memory_data answers a
\* pointer to page Start(handle), exactly when this holds.
Resolves(handle, domain) ==
    /\ domain # 0
    /\ decode_handle(handle)
    /\ LET page == allocations[Start(handle)] IN
         /\ page.active
         /\ page.generation = handle[1]
         /\ page.first_page = Start(handle)
         /\ page.domain = domain

next_generation(generation) ==
    IF generation = MaxGeneration THEN 1 ELSE generation + 1

lettuce_memory_release(handle, domain) ==
    /\ Resolves(handle, domain)
    /\ LET head == allocations[Start(handle)] IN
         allocations' = [p \in Pages |->
           IF p \in SpanOf(Start(handle), head.page_count)
           THEN FreePage(next_generation(head.generation))
           ELSE allocations[p]]
    /\ issued' = {i \in issued : i[1] # handle}
    /\ released' = released \cup {handle}

\* INVALID_ARGUMENT, NOT_FOUND or DENIED
ReleaseRefused ==
    /\ ~ \A handle \in HandleValues, domain \in Domains \cup {0} :
           Resolves(handle, domain)
    /\ UNCHANGED allocVars

AllocNext ==
    \/ \E domain \in Domains, size \in Sizes : lettuce_memory_allocate(domain, size)
    \/ \E handle \in HandleValues, domain \in Domains :
         lettuce_memory_release(handle, domain)
    \/ AllocateRefused
    \/ ReleaseRefused

AllocSpec == lettuce_memory_init /\ [][AllocNext]_allocVars

-----------------------------------------------------------------------------
\* No allocation is torn or overlapped: a page in use belongs to a span that
\* lies inside the pool and whose pages all carry the same record, so that a
\* release through the head frees exactly the pages that were allocated.
SpansIntact ==
    \A p \in Pages :
      LET page == allocations[p]
          span == SpanOf(page.first_page, page.page_count)
      IN  page.active => /\ p \in span
                         /\ span \subseteq Pages
                         /\ \A q \in span : allocations[q] = page

\* The live allocations the page records stand for.
spans == {[first_page |-> p, page_count |-> allocations[p].page_count,
           domain |-> allocations[p].domain] :
            p \in {q \in Pages : allocations[q].active /\ allocations[q].first_page = q}}

Ownership == INSTANCE PageOwnership

\* Allocation takes one span of free pages, release gives one whole span back;
\* pages in use are never handed out again.
ImplementsOwnership == Ownership!Spec

\* "Handles identify allocation heads and match both generation and domain":
\* a handle that allocate returned keeps resolving for its own domain and for
\* no other until it is released, whatever is allocated and released around it.
IssuedHandlesResolve ==
    \A h \in Handles, d \in Domains :
      Resolves(h, d) <=> <<h, d>> \in issued

\* "Reused slots advance generation so stale handles fail": a released handle
\* resolves for nobody.
StaleHandlesFail ==
    \A h \in released, d \in Domains : ~Resolves(h, d)
=============================================================================
