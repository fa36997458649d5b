--------------------------- MODULE MemoryProofs -----------------------------
(***************************************************************************)
(* Proofs about memory: Allocator, for every number of pages, page size,   *)
(* size of generations and set of domains; Tlb, for every list of domains  *)
(* and every size of the TLB; DynamicArray, for every initial capacity,    *)
(* growth factor and limit.                                                *)
(***************************************************************************)
EXTENDS Allocator, Tlb, DynamicArray, TLAPS

-----------------------------------------------------------------------------
(***************************************************************************)
(* Spans.                                                                  *)
(***************************************************************************)
\* allocations is a table of the pages, and its spans are intact.
TableInv ==
    /\ allocations = [p \in Pages |-> allocations[p]]
    /\ SpansIntact

\* The span of the record of a page.
Extent(p) == SpanOf(allocations[p].first_page, allocations[p].page_count)

LEMMA Intact ==
    ASSUME TableInv, NEW p \in Pages, allocations[p].active
    PROVE  /\ p \in Extent(p) /\ Extent(p) \subseteq Pages
           /\ \A q \in Extent(p) : allocations[q] = allocations[p]
BY DEF TableInv, SpansIntact, Extent

LEMMA PagesForNat == \A size \in Sizes : PagesFor(size) \in Nat
<1> SUFFICES ASSUME NEW size \in Sizes PROVE PagesFor(size) \in Nat
  OBVIOUS
<1>1. size \in Nat /\ PageSize \in Nat \ {0} /\ SizeModulus \in Nat \ {0}
  BY AllocatorAssumption
<1>2. ((size + PageSize - 1) % SizeModulus) \in Nat
  BY <1>1
<1> QED BY <1>1, <1>2 DEF PagesFor

LEMMA FitsInside ==
    ASSUME NEW pages \in Nat, NEW start \in Fits(pages)
    PROVE  /\ start \in Pages /\ SpanOf(start, pages) \subseteq Pages
           /\ pages > 0 => start \in SpanOf(start, pages)
           /\ pages = 0 => SpanOf(start, pages) = {}
           /\ pages <= TotalPages
           /\ \A p \in SpanOf(start, pages) : ~allocations[p].active
BY AllocatorAssumption DEF Fits, FreeSpan, SpanOf, Pages

\* A span of free pages is given one record: the spans in use have no page in it.
LEMMA OccupyKeepsTable ==
    ASSUME TableInv, NEW domain, NEW pages \in Nat, NEW start \in Fits(pages),
           Occupy(start, pages, domain)
    PROVE  TableInv'
<1> DEFINE new == [first_page |-> start, page_count |-> pages, domain |-> domain,
                   generation |-> allocations[start].generation, active |-> TRUE]
           span == SpanOf(start, pages)
<1>1. allocations' = [p \in Pages |-> IF p \in span THEN new ELSE allocations[p]]
  BY DEF Occupy
<1>2. new.first_page = start /\ new.page_count = pages
  OBVIOUS
<1>3. span \subseteq Pages /\ \A p \in span : ~allocations[p].active
  BY FitsInside
<1>4. SpanOf(new.first_page, new.page_count) = span
  BY <1>2
<1> HIDE DEF new, span
<1>5. SUFFICES ASSUME NEW p \in Pages, allocations'[p].active
               PROVE  LET s == SpanOf(allocations'[p].first_page, allocations'[p].page_count)
                      IN p \in s /\ s \subseteq Pages /\ \A q \in s : allocations'[q] = allocations'[p]
  BY <1>1 DEF TableInv, SpansIntact
<1>6. CASE p \in span
  BY <1>1, <1>3, <1>4, <1>6
<1>7. CASE p \notin span
  <2>1. allocations'[p] = allocations[p]
    BY <1>1, <1>7
  <2>2. p \in Extent(p) /\ Extent(p) \subseteq Pages /\ \A q \in Extent(p) : allocations[q] = allocations[p]
    BY <1>5, <2>1, Intact
  <2>3. \A q \in Extent(p) : q \notin span
    BY <1>3, <1>5, <2>1, <2>2
  <2>4. \A q \in Extent(p) : allocations'[q] = allocations'[p]
    BY <1>1, <2>1, <2>2, <2>3
  <2> QED BY <2>1, <2>2, <2>4 DEF Extent
<1> QED BY <1>6, <1>7

\* A whole span is freed: another span has no page in it.
LEMMA ReleaseKeepsTable ==
    ASSUME TableInv, NEW start \in Pages, allocations[start].active, NEW free, ~free.active,
           allocations' = [p \in Pages |-> IF p \in Extent(start) THEN free ELSE allocations[p]]
    PROVE  TableInv'
<1>1. SUFFICES ASSUME NEW p \in Pages, allocations'[p].active
               PROVE  LET s == SpanOf(allocations'[p].first_page, allocations'[p].page_count)
                      IN p \in s /\ s \subseteq Pages /\ \A q \in s : allocations'[q] = allocations'[p]
  BY DEF TableInv, SpansIntact
<1>2. p \notin Extent(start) /\ allocations'[p] = allocations[p]
  BY <1>1
<1>3. p \in Extent(p) /\ Extent(p) \subseteq Pages /\ \A q \in Extent(p) : allocations[q] = allocations[p]
  BY <1>1, <1>2, Intact
<1>4. \A q \in Extent(start) : allocations[q] = allocations[start]
  BY Intact
<1>5. \A q \in Extent(p) : q \notin Extent(start)
  <2> SUFFICES ASSUME NEW q \in Extent(p), q \in Extent(start) PROVE FALSE
    OBVIOUS
  <2>1. allocations[p] = allocations[start]
    BY <1>3, <1>4
  <2>2. Extent(p) = Extent(start)
    BY <2>1 DEF Extent
  <2> QED BY <1>2, <1>3, <2>2
<1>6. \A q \in Extent(p) : allocations'[q] = allocations'[p]
  BY <1>2, <1>3, <1>5
<1> QED BY <1>2, <1>3, <1>6 DEF Extent

\* What a release changes.
LEMMA ReleaseOf ==
    ASSUME NEW handle \in HandleValues, NEW domain, lettuce_memory_release(handle, domain)
    PROVE  LET start == Start(handle)
               free == FreePage(next_generation(allocations[start].generation))
           IN /\ start \in Pages /\ allocations[start].active /\ ~free.active
              /\ allocations[start].first_page = start /\ allocations[start].domain = domain
              /\ allocations[start].generation = handle[1] /\ domain # 0
              /\ allocations' = [p \in Pages |-> IF p \in Extent(start) THEN free ELSE allocations[p]]
              /\ issued' = {i \in issued : i[1] # handle}
<1>1. Start(handle) \in Pages
  BY AllocatorAssumption DEF lettuce_memory_release, Resolves, decode_handle, Start, Pages, HandleValues
<1>2. /\ allocations[Start(handle)].active /\ allocations[Start(handle)].first_page = Start(handle)
      /\ allocations[Start(handle)].domain = domain /\ domain # 0
      /\ allocations[Start(handle)].generation = handle[1]
  BY DEF lettuce_memory_release, Resolves
<1>3. ~FreePage(next_generation(allocations[Start(handle)].generation)).active
  BY DEF FreePage
<1>4. Extent(Start(handle)) = SpanOf(Start(handle), allocations[Start(handle)].page_count)
  BY <1>2 DEF Extent
<1> QED BY <1>1, <1>2, <1>3, <1>4 DEF lettuce_memory_release

LEMMA TableStep ==
    ASSUME TableInv, AllocNext
    PROVE  TableInv'
<1>1. ASSUME NEW domain \in Domains, NEW size \in Sizes, lettuce_memory_allocate(domain, size)
      PROVE  TableInv'
  <2>1. PagesFor(size) \in Nat
    BY PagesForNat
  <2>2. PICK start \in Fits(PagesFor(size)) : Occupy(start, PagesFor(size), domain)
    BY <1>1 DEF lettuce_memory_allocate
  <2> QED BY <2>1, <2>2, OccupyKeepsTable
<1>2. ASSUME NEW handle \in HandleValues, NEW domain \in Domains, lettuce_memory_release(handle, domain)
      PROVE  TableInv'
  BY <1>2, ReleaseOf, ReleaseKeepsTable
<1>3. CASE AllocateRefused \/ ReleaseRefused
  BY <1>3 DEF AllocateRefused, ReleaseRefused, allocVars, TableInv, SpansIntact, SpanOf
<1> QED BY <1>1, <1>2, <1>3 DEF AllocNext

LEMMA TableInvariant == AllocSpec => []TableInv
<1>1. lettuce_memory_init => TableInv
  BY DEF lettuce_memory_init, TableInv, SpansIntact, FreePage
<1>2. TableInv /\ [AllocNext]_allocVars => TableInv'
  <2>1. TableInv /\ UNCHANGED allocVars => TableInv'
    BY DEF allocVars, TableInv, SpansIntact, SpanOf
  <2> QED BY <2>1, TableStep
<1> QED BY <1>1, <1>2, PTL DEF AllocSpec

\* lettuce_memory_allocate and lettuce_memory_release: whatever is allocated and
\* released, of any size, no span is torn or overlapped.
THEOREM SpansStayIntact == AllocSpec => []SpansIntact
<1>1. TableInv => SpansIntact BY DEF TableInv
<1> QED BY <1>1, TableInvariant, PTL

-----------------------------------------------------------------------------
(***************************************************************************)
(* Handles.                                                                *)
(***************************************************************************)
\* No size asked for is so near SIZE_MAX that it is rounded to no page at all.
NoSizeWraps == \A size \in Sizes : size # 0 => PagesFor(size) > 0

HandleInv ==
    /\ \A p \in Pages : allocations[p].generation \in Generations
    /\ IssuedHandlesResolve

LEMMA HandleParts ==
    ASSUME NEW h \in Handles
    PROVE  /\ Start(h) \in Pages /\ h[1] \in Generations
           /\ h = <<h[1], Start(h) + 1>> /\ decode_handle(h)
BY AllocatorAssumption DEF Handles, Start, Pages, decode_handle

\* A handle resolves by the record of its page alone.
LEMMA ResolvesByPage ==
    ASSUME NEW h \in Handles, NEW d \in Domains
    PROVE  Resolves(h, d) <=> /\ allocations[Start(h)].active
                              /\ allocations[Start(h)].generation = h[1]
                              /\ allocations[Start(h)].first_page = Start(h)
                              /\ allocations[Start(h)].domain = d
BY HandleParts, AllocatorAssumption DEF Resolves

LEMMA ResolvesByNextPage ==
    ASSUME NEW h \in Handles, NEW d \in Domains
    PROVE  Resolves(h, d)' <=> /\ allocations'[Start(h)].active
                               /\ allocations'[Start(h)].generation = h[1]
                               /\ allocations'[Start(h)].first_page = Start(h)
                               /\ allocations'[Start(h)].domain = d
BY HandleParts, AllocatorAssumption DEF Resolves

LEMMA OccupyKeepsHandles ==
    ASSUME TableInv, HandleInv, NEW domain \in Domains, NEW pages \in Nat, pages > 0,
           NEW start \in Fits(pages), Occupy(start, pages, domain),
           issued' = issued \cup {<<<<allocations[start].generation, start + 1>>, domain>>}
    PROVE  HandleInv'
<1> DEFINE gen == allocations[start].generation
           new == [first_page |-> start, page_count |-> pages, domain |-> domain,
                   generation |-> gen, active |-> TRUE]
           span == SpanOf(start, pages)
<1>1. /\ start \in Pages /\ start \in span /\ span \subseteq Pages
      /\ \A p \in span : ~allocations[p].active
  BY FitsInside
<1>2. allocations' = [p \in Pages |-> IF p \in span THEN new ELSE allocations[p]]
  BY DEF Occupy
<1>3. gen \in Generations
  BY <1>1 DEF HandleInv
<1>4. new.active /\ new.generation = gen /\ new.first_page = start /\ new.domain = domain
  OBVIOUS
<1> HIDE DEF gen, new, span
<1>5. \A p \in Pages : allocations'[p].generation \in Generations
  BY <1>2, <1>3, <1>4 DEF HandleInv
<1>6. issued' = issued \cup {<<<<gen, start + 1>>, domain>>}
  BY DEF gen
<1>7. ASSUME NEW h \in Handles, NEW d \in Domains
      PROVE  Resolves(h, d)' <=> <<h, d>> \in issued'
  <2>1. Start(h) \in Pages /\ h = <<h[1], Start(h) + 1>>
    BY HandleParts
  <2>2. CASE Start(h) \in span
    <3>1. <<h, d>> \notin issued
      BY <1>1, <2>2, ResolvesByPage DEF HandleInv, IssuedHandlesResolve
    <3>2. Resolves(h, d)' <=> gen = h[1] /\ start = Start(h) /\ domain = d
      BY <1>2, <1>4, <2>1, <2>2, ResolvesByNextPage
    <3>3. <<h, d>> = <<<<gen, start + 1>>, domain>> <=> gen = h[1] /\ start = Start(h) /\ domain = d
      BY <1>1, <2>1 DEF Pages
    <3> QED BY <1>6, <3>1, <3>2, <3>3
  <2>3. CASE Start(h) \notin span
    <3>1. Resolves(h, d)' <=> Resolves(h, d)
      BY <1>2, <2>1, <2>3, ResolvesByPage, ResolvesByNextPage
    <3>2. h # <<gen, start + 1>>
      BY <1>1, <2>1, <2>3 DEF Pages
    <3> QED BY <1>6, <3>1, <3>2 DEF HandleInv, IssuedHandlesResolve
  <2> QED BY <2>2, <2>3
<1>8. IssuedHandlesResolve'
  BY <1>7, Zenon DEF IssuedHandlesResolve
<1> QED BY <1>5, <1>8 DEF HandleInv

\* Interior pages of a span never were a handle's page.
LEMMA ReleaseKeepsHandles ==
    ASSUME TableInv, HandleInv, NEW handle \in HandleValues, NEW domain \in Domains,
           lettuce_memory_release(handle, domain)
    PROVE  HandleInv'
<1> DEFINE start == Start(handle)
           next == next_generation(allocations[start].generation)
           free == FreePage(next)
<1>1. /\ start \in Pages /\ allocations[start].active /\ ~free.active
      /\ allocations[start].first_page = start /\ allocations[start].generation = handle[1]
      /\ allocations' = [p \in Pages |-> IF p \in Extent(start) THEN free ELSE allocations[p]]
      /\ issued' = {i \in issued : i[1] # handle}
  BY ReleaseOf
<1>2. start \in Extent(start) /\ \A q \in Extent(start) : allocations[q] = allocations[start]
  BY <1>1, Intact
<1>3. next \in Generations
  BY <1>1, AllocatorAssumption DEF HandleInv, Generations, next_generation
<1>4. free.generation = next
  BY DEF FreePage
<1>5. handle = <<handle[1], start + 1>>
  BY AllocatorAssumption DEF HandleValues, Start
<1> HIDE DEF start, next, free
<1>6. \A p \in Pages : allocations'[p].generation \in Generations
  BY <1>1, <1>3, <1>4 DEF HandleInv
<1>7. ASSUME NEW h \in Handles, NEW d \in Domains
      PROVE  Resolves(h, d)' <=> <<h, d>> \in issued'
  <2>1. Start(h) \in Pages /\ h = <<h[1], Start(h) + 1>>
    BY HandleParts
  <2>2. <<h, d>> \in issued' <=> <<h, d>> \in issued /\ h # handle
    BY <1>1
  <2>3. Resolves(h, d) <=> <<h, d>> \in issued
    BY DEF HandleInv, IssuedHandlesResolve
  <2>4. CASE Start(h) \in Extent(start)
    <3>1. ~Resolves(h, d)'
      BY <1>1, <2>1, <2>4, ResolvesByNextPage
    <3>2. Resolves(h, d) => h = handle
      BY <1>1, <1>2, <1>5, <2>1, <2>4, ResolvesByPage
    <3> QED BY <2>2, <2>3, <3>1, <3>2
  <2>5. CASE Start(h) \notin Extent(start)
    <3>1. Resolves(h, d)' <=> Resolves(h, d)
      BY <1>1, <2>1, <2>5, ResolvesByPage, ResolvesByNextPage
    <3>2. h # handle
      BY <1>2, <2>5 DEF start
    <3> QED BY <2>2, <2>3, <3>1, <3>2
  <2> QED BY <2>4, <2>5
<1>8. IssuedHandlesResolve'
  BY <1>7, Zenon DEF IssuedHandlesResolve
<1> QED BY <1>6, <1>8 DEF HandleInv

\* lettuce_memory_allocate, lettuce_memory_release and lettuce_memory_data: when
\* no size is rounded to no page, a handle resolves for a domain exactly from its
\* return to that domain until its release.
THEOREM HandlesResolve ==
    ASSUME NoSizeWraps
    PROVE  AllocSpec => []IssuedHandlesResolve
<1>1. lettuce_memory_init => HandleInv
  <2> SUFFICES ASSUME lettuce_memory_init PROVE HandleInv
    OBVIOUS
  <2>1. \A p \in Pages : allocations[p].generation = 1 /\ ~allocations[p].active
    BY DEF lettuce_memory_init, FreePage
  <2>2. issued = {}
    BY DEF lettuce_memory_init
  <2> QED BY <2>1, <2>2, ResolvesByPage, HandleParts, AllocatorAssumption
          DEF HandleInv, IssuedHandlesResolve, Generations
<1>2. TableInv /\ HandleInv /\ [AllocNext]_allocVars => HandleInv'
  <2> SUFFICES ASSUME TableInv, HandleInv, [AllocNext]_allocVars PROVE HandleInv'
    OBVIOUS
  <2>1. ASSUME NEW domain \in Domains, NEW size \in Sizes, lettuce_memory_allocate(domain, size)
        PROVE  HandleInv'
    <3>1. PagesFor(size) \in Nat /\ PagesFor(size) > 0
      BY <2>1, PagesForNat, NoSizeWraps DEF lettuce_memory_allocate, NoSizeWraps
    <3>2. PICK start \in Fits(PagesFor(size)) :
            /\ Occupy(start, PagesFor(size), domain)
            /\ issued' = issued \cup {<<<<allocations[start].generation, start + 1>>, domain>>}
      BY <2>1 DEF lettuce_memory_allocate
    <3> QED BY <3>1, <3>2, OccupyKeepsHandles
  <2>2. ASSUME NEW handle \in HandleValues, NEW domain \in Domains, lettuce_memory_release(handle, domain)
        PROVE  HandleInv'
    BY <2>2, ReleaseKeepsHandles
  <2>3. CASE UNCHANGED allocVars
    BY <2>3 DEF allocVars, HandleInv, IssuedHandlesResolve, Resolves
  <2> QED BY <2>1, <2>2, <2>3 DEF AllocNext, AllocateRefused, ReleaseRefused
<1>3. HandleInv => IssuedHandlesResolve BY DEF HandleInv
<1> QED BY <1>1, <1>2, <1>3, TableInvariant, PTL DEF AllocSpec

-----------------------------------------------------------------------------
(***************************************************************************)
(* Ownership of pages.                                                     *)
(***************************************************************************)
OwnerInv ==
    \A p \in Pages : allocations[p].active =>
      allocations[p].page_count \in 1 .. TotalPages /\ allocations[p].domain \in Domains

\* The pages that begin a span in use, and the span of PageOwnership there.
Heads == {q \in Pages : allocations[q].active /\ allocations[q].first_page = q}
SpanAt(p) == [first_page |-> p, page_count |-> allocations[p].page_count,
              domain |-> allocations[p].domain]

LEMMA SpansByHead == spans = {SpanAt(p) : p \in Heads}
BY DEF spans, Heads, SpanAt

LEMMA OwnershipUnchanged == allocations' = allocations => spans' = spans
BY DEF spans

\* Allocating a span that is not empty is Allocate of PageOwnership.
LEMMA OccupyIsAllocate ==
    ASSUME TableInv, OwnerInv, NEW domain \in Domains, NEW pages \in Nat, pages > 0,
           NEW start \in Fits(pages), Occupy(start, pages, domain)
    PROVE  OwnerInv' /\ \E span \in Ownership!Spans : Ownership!Allocate(span)
<1> DEFINE new == [first_page |-> start, page_count |-> pages, domain |-> domain,
                   generation |-> allocations[start].generation, active |-> TRUE]
           span == SpanOf(start, pages)
           owned == [first_page |-> start, page_count |-> pages, domain |-> domain]
<1>1. /\ start \in Pages /\ start \in span /\ span \subseteq Pages /\ pages \in 1 .. TotalPages
      /\ \A p \in span : ~allocations[p].active
  BY FitsInside, AllocatorAssumption
<1>2. allocations' = [p \in Pages |-> IF p \in span THEN new ELSE allocations[p]]
  BY DEF Occupy
<1>3. new.active /\ new.first_page = start /\ new.page_count = pages /\ new.domain = domain
  OBVIOUS
<1>4. owned \in Ownership!Spans /\ Ownership!PagesOf(owned) = span
  BY <1>1 DEF Ownership!Spans, Ownership!PagesOf, SpanOf, Pages
<1>5. owned.first_page = start /\ owned.page_count = pages /\ owned.domain = domain
  OBVIOUS
<1> HIDE DEF new, span
<1>6. OwnerInv'
  BY <1>1, <1>2, <1>3 DEF OwnerInv
<1>7. \A other \in spans : Ownership!PagesOf(other) \cap span = {}
  <2> SUFFICES ASSUME NEW p \in Heads
               PROVE  Ownership!PagesOf(SpanAt(p)) \cap span = {}
    BY SpansByHead
  <2>1. Ownership!PagesOf(SpanAt(p)) = Extent(p)
    BY DEF Heads, SpanAt, Extent, SpanOf, Ownership!PagesOf
  <2>2. p \in Pages /\ allocations[p].active
    BY DEF Heads
  <2>3. \A q \in Extent(p) : allocations[q].active
    BY <2>2, Intact
  <2> QED BY <1>1, <2>1, <2>3
<1>8. spans' = spans \cup {owned}
  <2>1. Heads' = Heads \cup {start}
    BY <1>1, <1>2, <1>3 DEF Heads
  <2>2. SpanAt(start)' = owned
    BY <1>1, <1>2, <1>3 DEF SpanAt
  <2>3. \A p \in Heads : SpanAt(p)' = SpanAt(p)
    BY <1>1, <1>2 DEF Heads, SpanAt
  <2>4. spans' = {SpanAt(p)' : p \in Heads'}
    BY DEF spans, Heads, SpanAt
  <2> HIDE DEF owned
  <2> QED BY <2>1, <2>2, <2>3, <2>4, SpansByHead
<1>9. Ownership!Allocate(owned)
  BY <1>1, <1>4, <1>7, <1>8, Zenon DEF Ownership!Allocate, Pages
<1> QED BY <1>4, <1>6, <1>9

\* Releasing a handle is Release of the span at its page.
LEMMA ReleaseIsRelease ==
    ASSUME TableInv, OwnerInv, NEW handle \in HandleValues, NEW domain \in Domains,
           lettuce_memory_release(handle, domain)
    PROVE  OwnerInv' /\ \E span \in Ownership!Spans : Ownership!Release(span)
<1> DEFINE start == Start(handle)
           free == FreePage(next_generation(allocations[start].generation))
<1>1. /\ start \in Pages /\ allocations[start].active /\ ~free.active
      /\ allocations[start].first_page = start
      /\ allocations' = [p \in Pages |-> IF p \in Extent(start) THEN free ELSE allocations[p]]
  BY ReleaseOf
<1>2. start \in Extent(start) /\ \A q \in Extent(start) : allocations[q] = allocations[start]
  BY <1>1, Intact
<1> HIDE DEF start, free
<1>3. OwnerInv'
  BY <1>1 DEF OwnerInv
<1>4. start \in Heads /\ Heads' = Heads \ {start}
  BY <1>1, <1>2 DEF Heads
<1>5. \A p \in Heads' : SpanAt(p)' = SpanAt(p)
  BY <1>1 DEF Heads, SpanAt
<1>6. \A p \in Heads : SpanAt(p) = SpanAt(start) => p = start
  BY DEF SpanAt
<1>7. spans' = {SpanAt(p)' : p \in Heads'}
  BY DEF spans, Heads, SpanAt
<1>8. spans' = spans \ {SpanAt(start)}
  BY <1>4, <1>5, <1>6, <1>7, SpansByHead
<1>9. SpanAt(start) \in spans
  BY <1>4, SpansByHead
<1>10. SpanAt(start) \in Ownership!Spans
  BY <1>1 DEF OwnerInv, SpanAt, Ownership!Spans, Pages
<1> QED BY <1>3, <1>8, <1>9, <1>10 DEF Ownership!Release

LEMMA OwnershipStep ==
    ASSUME TableInv, OwnerInv, [AllocNext]_allocVars
    PROVE  OwnerInv' /\ [Ownership!Next]_spans
<1>1. CASE allocations' = allocations
  BY <1>1, OwnershipUnchanged DEF OwnerInv
<1>2. ASSUME NEW domain \in Domains, NEW size \in Sizes, lettuce_memory_allocate(domain, size)
      PROVE  OwnerInv' /\ [Ownership!Next]_spans
  <2>1. PagesFor(size) \in Nat
    BY PagesForNat
  <2>2. PICK start \in Fits(PagesFor(size)) : Occupy(start, PagesFor(size), domain)
    BY <1>2 DEF lettuce_memory_allocate
  <2>3. CASE PagesFor(size) > 0
    BY <2>1, <2>2, <2>3, OccupyIsAllocate DEF Ownership!Next
  <2>4. CASE PagesFor(size) = 0
    <3>1. SpanOf(start, PagesFor(size)) = {}
      BY <2>1, <2>2, <2>4, FitsInside
    <3>2. allocations' = allocations
      BY <2>2, <3>1 DEF Occupy, TableInv
    <3> QED BY <1>1, <3>2
  <2> QED BY <2>1, <2>3, <2>4
<1>3. ASSUME NEW handle \in HandleValues, NEW domain \in Domains, lettuce_memory_release(handle, domain)
      PROVE  OwnerInv' /\ [Ownership!Next]_spans
  BY <1>3, ReleaseIsRelease DEF Ownership!Next
<1> QED BY <1>1, <1>2, <1>3 DEF AllocNext, AllocateRefused, ReleaseRefused, allocVars

\* The page records implement PageOwnership, whatever sizes are asked for: each
\* call takes one span of free pages, gives one whole span back, or does nothing.
THEOREM AllocatorImplementsOwnership == AllocSpec => ImplementsOwnership
<1>1. lettuce_memory_init => OwnerInv /\ Ownership!Init
  <2> SUFFICES ASSUME lettuce_memory_init PROVE OwnerInv /\ Ownership!Init
    OBVIOUS
  <2>1. \A p \in Pages : ~allocations[p].active
    BY DEF lettuce_memory_init, FreePage
  <2> QED BY <2>1 DEF OwnerInv, Ownership!Init, spans
<1>2. TableInv /\ OwnerInv /\ [AllocNext]_allocVars => OwnerInv' /\ [Ownership!Next]_spans
  BY OwnershipStep
<1> QED BY <1>1, <1>2, TableInvariant, PTL DEF AllocSpec, ImplementsOwnership, Ownership!Spec

-----------------------------------------------------------------------------
(***************************************************************************)
(* Switching domains without invalidating the TLB.                         *)
(***************************************************************************)
\* A cached entry is a translation of some domain's tables, tagged with that
\* domain's ASID unless the page is global.
CachedFrom(entry, domain) ==
    /\ entry.va \in VirtualPages
    /\ entry.page = Table(domain)[entry.va] /\ entry.page # Unmapped
    /\ entry.tag = IF entry.page.ng THEN asid(domain) ELSE Global

\* The inductive invariant: once the MMU is on, the kernel's current domain is
\* the one in force, and every cached entry comes from the tables of a domain.
TlbIInv ==
    enabled => /\ current_domain \in KnownDomains
               /\ ttbr0 = lettuce_arch_domain_ttbr0_val(current_domain)
               /\ \A e \in tlb : \E d \in KnownDomains : CachedFrom(e, d)

\* Domains have ASIDs of their own, none of them the tag of global pages.
LEMMA AsidsDiffer ==
    ASSUME NEW c \in KnownDomains, NEW d \in KnownDomains
    PROVE  /\ asid(c) # Global
           /\ asid(c) = asid(d) => c = d
<1>1. \A x \in KnownDomains : \E i \in 1 .. Len(ArchDomains) : ArchDomains[i] = x
  BY DEF KnownDomains
<1>2. \A x \in KnownDomains : asid(x) \in 1 .. Len(ArchDomains) /\ ArchDomains[asid(x)] = x
  BY <1>1, Zenon DEF asid
<1>3. asid(c) # 0
  BY <1>2, MmuAssumption
<1> QED
  BY <1>2, <1>3 DEF Global

LEMMA DomainAIsKnown == DomainA \in KnownDomains
<1>1. Len(ArchDomains) \in Nat /\ Len(ArchDomains) # 0
  BY MmuAssumption
<1> QED
  BY <1>1 DEF DomainA, KnownDomains

\* The pages that are global are mapped alike by all domains.
LEMMA GlobalPagesAgree ==
    ASSUME NEW c \in KnownDomains, NEW d \in KnownDomains, NEW va \in VirtualPages,
           ~Table(d)[va].ng, Table(d)[va] # Unmapped
    PROVE  Table(c)[va] = Table(d)[va]
  BY DEF Table, Unmapped, PageDescriptor, device_block_descriptor, kernel_ram_block_descriptor,
         PrivatePage, CodePage, RoPage, Private, Stack

\* The invariant holds before the MMU is on, and every step keeps it.
THEOREM TlbInductive == TlbSpec => []TlbIInv
<1>1. TlbInit => TlbIInv
  BY DEF TlbInit, TlbIInv
<1>2. TlbIInv /\ [TlbNext]_tlbVars => TlbIInv'
  <2> SUFFICES ASSUME TlbIInv, [TlbNext]_tlbVars, enabled'
               PROVE  /\ current_domain' \in KnownDomains
                      /\ ttbr0' = lettuce_arch_domain_ttbr0_val(current_domain')
                      /\ \A e \in tlb' : \E d \in KnownDomains : CachedFrom(e, d)
    BY DEF TlbIInv, CachedFrom, lettuce_arch_domain_ttbr0_val
  <2>1. CASE UNCHANGED tlbVars
    BY <2>1 DEF TlbIInv, tlbVars
  <2>2. CASE lettuce_mmu_init
    BY <2>2, DomainAIsKnown
       DEF lettuce_mmu_init, lettuce_mmu_invalidate_all, write_ttbr
  <2>3. CASE enabled /\ Switch
    <3>1. CASE \E domain \in KnownDomains \cup {InvalidDomain, -1} : lettuce_mmu_enter(domain)
      BY <2>3, <3>1 DEF TlbIInv, Switch, lettuce_mmu_enter, Known, write_ttbr
    <3>2. CASE \E domain \in KnownDomains : lettuce_elevator_asm_transition(domain)
      BY <2>3, <3>2 DEF TlbIInv, Switch, lettuce_elevator_asm_transition, write_ttbr
    <3> QED  BY <2>3, <3>1, <3>2 DEF Switch
  <2>4. CASE enabled /\ \E domain \in KnownDomains \cup {-1} : lettuce_mmu_invalidate_domain(domain)
    BY <2>4 DEF TlbIInv, lettuce_mmu_invalidate_domain
  <2>5. ASSUME enabled, NEW va \in VirtualPages, TlbFill(va)
        PROVE  \A e \in tlb' : \E d \in KnownDomains : CachedFrom(e, d)
    <3> DEFINE entry == [va |-> va, tag |-> TagOf(Table(ttbr0.root)[va]),
                         page |-> Table(ttbr0.root)[va]]
    <3>1. tlb' = tlb \cup {entry} /\ entry.page # Unmapped
      BY <2>5 DEF TlbFill
    <3>2. /\ current_domain \in KnownDomains
          /\ ttbr0.root = current_domain /\ ttbr0.asid = asid(current_domain)
      BY <2>5 DEF TlbIInv, lettuce_arch_domain_ttbr0_val, Known
    <3>3. CachedFrom(entry, current_domain)
      BY <3>1, <3>2 DEF CachedFrom, TagOf
    <3> QED  BY <2>5, <3>1, <3>2, <3>3 DEF TlbIInv
  <2>6. CASE enabled /\ \E va \in VirtualPages : TlbFill(va)
    BY <2>5, <2>6 DEF TlbIInv, TlbFill
  <2>7. CASE enabled /\ \E entry \in tlb : TlbEvict(entry)
    BY <2>7 DEF TlbIInv, TlbEvict
  <2> QED  BY <2>1, <2>2, <2>3, <2>4, <2>6, <2>7 DEF TlbNext
<1> QED  BY <1>1, <1>2, PTL DEF TlbSpec

\* Whatever is cached, an access is translated as the tables in force say.
LEMMA OneTranslation ==
    ASSUME TlbIInv, enabled, NEW va \in VirtualPages
    PROVE  Translations(va) = {Table(current_domain)[va]}
<1>1. /\ current_domain \in KnownDomains
      /\ ttbr0.root = current_domain /\ ttbr0.asid = asid(current_domain)
  BY DEF TlbIInv, lettuce_arch_domain_ttbr0_val, Known
<1>2. ASSUME NEW e \in Hits(va)
      PROVE  e.page = Table(current_domain)[va]
  <2>1. e \in tlb /\ e.va = va /\ e.tag \in {Global, asid(current_domain)}
    BY <1>1 DEF Hits
  <2>2. PICK d \in KnownDomains : CachedFrom(e, d)
    BY <2>1 DEF TlbIInv
  <2>3. CASE e.page.ng
    BY <1>1, <2>1, <2>2, <2>3, AsidsDiffer DEF CachedFrom
  <2>4. CASE ~e.page.ng
    BY <1>1, <2>1, <2>2, <2>4, GlobalPagesAgree DEF CachedFrom
  <2> QED  BY <2>3, <2>4
<1> QED  BY <1>1, <1>2 DEF Translations

\* "steady-state switching between static domains does NOT require global TLB
\* invalidation", for any domains and any TLB.
THEOREM TlbStaysCoherent == TlbSpec => []TlbCoherent
<1>1. TlbIInv => TlbCoherent
  <2> SUFFICES ASSUME TlbIInv, enabled, NEW va \in VirtualPages
               PROVE  Translations(va) = {Table(ttbr0.root)[va]}
    BY DEF TlbCoherent
  <2>1. ttbr0.root = current_domain
    BY DEF TlbIInv, lettuce_arch_domain_ttbr0_val, Known
  <2> QED BY <2>1, OneTranslation
<1> QED  BY <1>1, TlbInductive, PTL

\* The rights of a page at EL0, in any domain's tables.
LEMMA TableIsolates ==
    ASSUME NEW d \in KnownDomains, NEW va \in VirtualPages
    PROVE  /\ Table(d)[va].el0 # {} => va \in {Private(d), Stack(d), <<"code", 0>>,
                                              <<"shared", 0>>, <<"ro", 0>>}
           /\ ~({"w", "x"} \subseteq Table(d)[va].el0)
  BY DEF Table, Unmapped, PageDescriptor, device_block_descriptor, kernel_ram_block_descriptor,
         PrivatePage, CodePage, RoPage

\* EL0 reaches nothing of another domain, through tables or TLB.
THEOREM El0StaysIsolated == TlbSpec => []El0Isolated
<1>1. TlbIInv => El0Isolated
  <2> SUFFICES ASSUME TlbIInv, enabled, NEW va \in VirtualPages, NEW page \in Translations(va)
               PROVE  /\ page.el0 # {} => va \in {Private(current_domain), Stack(current_domain),
                                                 <<"code", 0>>, <<"shared", 0>>, <<"ro", 0>>}
                      /\ ~({"w", "x"} \subseteq page.el0)
    BY DEF El0Isolated
  <2>1. page = Table(current_domain)[va] /\ current_domain \in KnownDomains
    BY OneTranslation DEF TlbIInv
  <2> QED  BY <2>1, TableIsolates
<1> QED  BY <1>1, TlbInductive, PTL

-----------------------------------------------------------------------------
(***************************************************************************)
(* DynamicArray: type correctness.                                         *)
(***************************************************************************)
Cells == Items \cup {Garbage}

\* What is between head and the last element was stored there: ArrayTypeOK
\* alone would let a removal return Garbage.
ArrayInv ==
    /\ ArrayTypeOK
    /\ \A i \in 0 .. count - 1 : data[Actual(i)] \in Items

-----------------------------------------------------------------------------
\* The places of the elements lie in the allocation and are different.
LEMMA ActualPlace ==
    ASSUME ArrayTypeOK, capacity # 0, NEW i \in 0 .. capacity - 1
    PROVE  Actual(i) \in 0 .. capacity - 1
BY ArrayAssumption DEF ArrayTypeOK, Actual

LEMMA ActualDiffers ==
    ASSUME ArrayTypeOK, capacity # 0, NEW i \in 0 .. capacity - 1, NEW j \in 0 .. capacity - 1,
           Actual(i) = Actual(j)
    PROVE  i = j
<1>1. capacity \in Nat /\ head \in 0 .. capacity - 1
  BY ArrayAssumption DEF ArrayTypeOK
<1> QED BY <1>1 DEF Actual

\* There is an allocation exactly when there is capacity.
LEMMA Allocated ==
    ASSUME ArrayTypeOK
    PROVE  /\ capacity \in Nat /\ count \in Nat /\ count <= capacity
           /\ data = NULL <=> capacity = 0
           /\ data # NULL => /\ head \in 0 .. capacity - 1
                             /\ data \in [0 .. capacity - 1 -> Cells]
<1>1. capacity \in Nat /\ count \in Nat /\ count <= capacity
  BY ArrayAssumption DEF ArrayTypeOK
<1>2. ASSUME capacity # 0
      PROVE  data # NULL
  <2>1. capacity \in 1 .. MaxCapacity
    BY <1>2, ArrayAssumption DEF ArrayTypeOK
  <2>2. data \in [0 .. capacity - 1 -> Items \cup {Garbage}]
    BY <1>2 DEF ArrayTypeOK
  <2> QED BY <2>1, <2>2, ArrayAssumption, Zenon
<1>3. capacity = 0 => data = NULL
  BY DEF ArrayTypeOK
<1>4. capacity # 0 => head \in 0 .. capacity - 1 /\ data \in [0 .. capacity - 1 -> Cells]
  BY DEF ArrayTypeOK, Cells
<1> QED BY <1>1, <1>2, <1>3, <1>4

\* Where resize does not report overflow, the larger allocation fits and has
\* room for one more element.
LEMMA GrowthFits ==
    ASSUME ArrayTypeOK, CanGrow
    PROVE  capacity * GrowthFactor \in capacity + 1 .. MaxCapacity
<1> DEFINE most == (MaxCapacity \div GrowthFactor)
<1>1. /\ capacity \in Nat \ {0} /\ GrowthFactor \in Nat /\ GrowthFactor >= 2
      /\ MaxCapacity \in Nat /\ capacity <= most
  BY ArrayAssumption DEF ArrayTypeOK, CanGrow
<1>2. most \in Nat /\ most * GrowthFactor <= MaxCapacity
  BY <1>1
<1> HIDE DEF most
<1>3. capacity * GrowthFactor <= most * GrowthFactor
  BY <1>1, <1>2
<1>4. capacity * GrowthFactor >= capacity * 2
  BY <1>1
<1>5. capacity * GrowthFactor \in Nat
  BY <1>1
<1> QED BY <1>1, <1>2, <1>3, <1>4, <1>5

-----------------------------------------------------------------------------
LEMMA InitArray == Init => ArrayInv
<1> SUFFICES ASSUME Init PROVE ArrayInv
  OBVIOUS
<1>1. ArrayTypeOK
  BY ArrayAssumption DEF Init, ArrayTypeOK, Memory
<1> QED BY <1>1 DEF Init, ArrayInv

LEMMA SetArray ==
    ASSUME ArrayInv, NEW item \in Items, NEW index \in 0 .. MaxCapacity, array_set(index, item)
    PROVE  ArrayInv'
<1>1. ArrayTypeOK
  BY DEF ArrayInv
<1>2. /\ data \in [0 .. capacity - 1 -> Cells]
      /\ Actual(index) \in 0 .. capacity - 1
      /\ capacity \in Nat \ {0} /\ count \in Nat /\ count <= capacity
  BY <1>1, Allocated, ActualPlace DEF array_set
<1>3. \A i : Actual(i)' = Actual(i)
  BY DEF array_set, Actual
<1>4. ArrayTypeOK'
  BY <1>1, <1>2 DEF ArrayTypeOK, array_set, Cells
<1>5. ASSUME NEW i \in 0 .. count - 1
      PROVE  data'[Actual(i)] \in Items
  <2>1. Actual(i) \in 0 .. capacity - 1
    BY <1>1, <1>2, ActualPlace
  <2> QED BY <1>2, <2>1 DEF ArrayInv, array_set
<1> QED BY <1>3, <1>4, <1>5 DEF ArrayInv, array_set

LEMMA PushArray ==
    ASSUME ArrayInv, NEW item \in Items, array_push(item)
    PROVE  ArrayInv'
<1>1. ArrayTypeOK
  BY DEF ArrayInv
<1>2. CASE PushIntoFree(item)
  <2>1. /\ data \in [0 .. capacity - 1 -> Cells]
        /\ Actual(count) \in 0 .. capacity - 1
        /\ capacity \in Nat \ {0} /\ count \in Nat /\ count < capacity
    BY <1>1, <1>2, Allocated, ActualPlace DEF PushIntoFree
  <2>2. \A i : Actual(i)' = Actual(i)
    BY <1>2 DEF PushIntoFree, Actual
  <2>3. ArrayTypeOK'
    BY <1>1, <1>2, <2>1 DEF ArrayTypeOK, PushIntoFree, Cells
  <2>4. ASSUME NEW i \in 0 .. count
        PROVE  data'[Actual(i)] \in Items
    <3>1. Actual(i) \in 0 .. capacity - 1
      BY <1>1, <2>1, ActualPlace
    <3>2. CASE i = count
      BY <1>2, <2>1, <3>2 DEF PushIntoFree
    <3>3. CASE i # count
      <4>1. i \in 0 .. count - 1
        BY <2>1, <3>3
      <4> QED BY <1>2, <2>1, <3>1, <4>1 DEF ArrayInv, PushIntoFree
    <3> QED BY <3>2, <3>3
  <2>5. count' - 1 = count
    BY <1>2, <2>1 DEF PushIntoFree
  <2> QED BY <2>2, <2>3, <2>4, <2>5 DEF ArrayInv
<1>3. CASE PushAfterResize(item)
  <2> DEFINE larger == capacity * GrowthFactor
  <2>1. /\ data \in [0 .. capacity - 1 -> Cells]
        /\ capacity \in Nat \ {0} /\ count = capacity
        /\ MaxCapacity \in Nat /\ larger \in capacity + 1 .. MaxCapacity
    BY <1>1, <1>3, Allocated, GrowthFits, ArrayAssumption DEF PushAfterResize
  <2>2. \A i \in 0 .. count - 1 : data[Actual(i)] \in Items
    BY DEF ArrayInv
  <2>3. Grown = [i \in 0 .. larger - 1 |-> IF i < count THEN data[Actual(i)] ELSE Garbage]
    BY DEF Grown
  <2>4. capacity' = larger /\ count' = count + 1 /\ head' = 0 /\ out' = out
    BY <1>3 DEF PushAfterResize
  <2> HIDE DEF larger
  <2>5. /\ Grown \in [0 .. larger - 1 -> Cells]
        /\ \A i \in 0 .. count - 1 : Grown[i] = data[Actual(i)]
    BY <2>1, <2>2, <2>3 DEF Cells
  <2>6. /\ data' \in [0 .. larger - 1 -> Cells]
        /\ \A i \in 0 .. count : data'[i] \in Items
    BY <1>3, <2>1, <2>2, <2>5 DEF PushAfterResize, Cells
  <2>7. ArrayTypeOK'
    BY <1>1, <2>1, <2>4, <2>6 DEF ArrayTypeOK, Cells
  <2>8. \A i \in 0 .. count : Actual(i)' = i
    BY <2>1, <2>4 DEF Actual
  <2> QED BY <2>1, <2>4, <2>6, <2>7, <2>8 DEF ArrayInv
<1>4. CASE PushAfterInit(item)
  <2>1. /\ InitialCapacity \in Nat \ {0} /\ MaxCapacity \in Nat
        /\ InitialCapacity <= MaxCapacity
    BY ArrayAssumption
  <2>2. data' \in [0 .. InitialCapacity - 1 -> Cells] /\ data'[0] = item
    BY <1>4, <2>1 DEF PushAfterInit, Memory, Cells
  <2>3. ArrayTypeOK'
    BY <1>1, <1>4, <2>1, <2>2 DEF ArrayTypeOK, PushAfterInit, Cells
  <2>4. Actual(0)' = 0
    BY <1>4, <2>1 DEF PushAfterInit, Actual
  <2> QED BY <1>4, <2>2, <2>3, <2>4 DEF ArrayInv, PushAfterInit
<1>5. CASE PushFails
  <2>1. head' = head /\ count' = count /\ capacity' = capacity /\ data' = data /\ out' = out
    BY <1>1, <1>5, Allocated DEF PushFails, vars, ArrayTypeOK
  <2> QED BY <2>1 DEF ArrayInv, ArrayTypeOK, Actual
<1> QED BY <1>2, <1>3, <1>4, <1>5 DEF array_push

LEMMA RemoveArray ==
    ASSUME ArrayInv, array_pop \/ array_dequeue
    PROVE  ArrayInv'
<1>1. ArrayTypeOK
  BY DEF ArrayInv
<1>2. CASE Empty /\ out' = NULL /\ UNCHANGED <<head, count, capacity, data>>
  BY <1>2 DEF ArrayInv, ArrayTypeOK, Actual
<1>3. ASSUME ~Empty
      PROVE  /\ capacity \in Nat \ {0} /\ count \in 1 .. capacity
             /\ head \in 0 .. capacity - 1 /\ capacity <= MaxCapacity /\ MaxCapacity \in Nat
             /\ Actual(0) = head
             /\ data[head] \in Items /\ data[Actual(count - 1)] \in Items
  <2>1. /\ capacity \in Nat \ {0} /\ count \in 1 .. capacity
        /\ head \in 0 .. capacity - 1 /\ capacity <= MaxCapacity /\ MaxCapacity \in Nat
    BY <1>1, <1>3, Allocated, ArrayAssumption DEF Empty, ArrayTypeOK
  <2>2. Actual(0) = head
    BY <2>1 DEF Actual
  <2>3. 0 \in 0 .. count - 1 /\ count - 1 \in 0 .. count - 1
    BY <2>1
  <2> QED BY <2>1, <2>2, <2>3 DEF ArrayInv
<1>4. CASE array_pop /\ ~Empty
  <2>1. ArrayTypeOK'
    BY <1>1, <1>3, <1>4 DEF array_pop, ArrayTypeOK
  <2>2. \A i : Actual(i)' = Actual(i)
    BY <1>4 DEF array_pop, Actual
  <2>3. \A i \in 0 .. count' - 1 : i \in 0 .. count - 1
    BY <1>3, <1>4 DEF array_pop
  <2>4. data' = data
    BY <1>4 DEF array_pop
  <2> QED BY <2>1, <2>2, <2>3, <2>4 DEF ArrayInv
<1>5. CASE array_dequeue /\ ~Empty
  <2>1. ArrayTypeOK'
    BY <1>1, <1>3, <1>5 DEF array_dequeue, NextHead, ArrayTypeOK
  <2>2. \A i \in 0 .. count' - 1 : i + 1 \in 0 .. count - 1 /\ Actual(i)' = Actual(i + 1)
    BY <1>3, <1>5 DEF array_dequeue, NextHead, Actual
  <2>3. data' = data
    BY <1>5 DEF array_dequeue
  <2> QED BY <2>1, <2>2, <2>3 DEF ArrayInv
<1> QED BY <1>2, <1>4, <1>5 DEF array_pop, array_dequeue

LEMMA FreeArray == ASSUME ArrayInv, array_free PROVE ArrayInv'
BY ArrayAssumption DEF ArrayInv, ArrayTypeOK, array_free

LEMMA NextArray == ArrayInv /\ [Next]_vars => ArrayInv'
<1> SUFFICES ASSUME ArrayInv, [Next]_vars PROVE ArrayInv'
  OBVIOUS
<1>1. CASE UNCHANGED vars
  BY <1>1 DEF vars, ArrayInv, ArrayTypeOK, Actual
<1> QED BY <1>1, SetArray, PushArray, RemoveArray, FreeArray DEF Next

LEMMA ArrayInductive == Spec => []ArrayInv
BY InitArray, NextArray, PTL DEF Spec

\* However the operations follow each other and whichever allocations fail,
\* no index an operation computes leaves the allocation and what a removal
\* returns was stored, for every capacity, growth factor and limit.
THEOREM ArrayTypeCorrect == Spec => []ArrayTypeOK
<1>1. ArrayInv => ArrayTypeOK
  BY DEF ArrayInv
<1> QED BY <1>1, ArrayInductive, PTL

-----------------------------------------------------------------------------
(***************************************************************************)
(* Refinement of Deque.  contents is a sequence of items whose i-th is the *)
(* one array_get(i - 1) returns; each operation is compared with Deque's   *)
(* element by element.                                                     *)
(***************************************************************************)
ContentsOK ==
    /\ contents \in Seq(Items) /\ Len(contents) = count /\ count \in Nat
    /\ \A i \in 1 .. count : contents[i] = data[Actual(i - 1)]
    /\ contents = <<>> <=> count = 0

\* Sequences of the same length with the same elements are equal.
LEMMA SameSequence ==
    ASSUME NEW S, NEW s \in Seq(S), NEW t \in Seq(S), Len(s) = Len(t),
           \A i \in 1 .. Len(s) : s[i] = t[i]
    PROVE  s = t
OBVIOUS

LEMMA ContentsSequence == ArrayInv => ContentsOK
<1> SUFFICES ASSUME ArrayInv PROVE ContentsOK
  OBVIOUS
<1>1. count \in Nat
  BY Allocated DEF ArrayInv
<1>2. \A i \in 1 .. count : data[Actual(i - 1)] \in Items
  BY <1>1 DEF ArrayInv
<1>3. contents \in [1 .. count -> Items]
  BY <1>2, Zenon DEF contents
<1>4. contents \in Seq(Items) /\ Len(contents) = count
  BY <1>1, <1>3
<1> QED BY <1>1, <1>4 DEF contents, ContentsOK

LEMMA ContentsAfter == ArrayInv' => ContentsOK'
BY ContentsSequence, PTL

\* (n is count before the step: Actual(count)' would be a place of count'.)
LEMMA PushRefines ==
    ASSUME ArrayInv, ArrayInv', NEW item \in Items, array_push(item)
    PROVE  Abstract!Push(item) \/ UNCHANGED <<contents, out>>
<1>1. ArrayTypeOK /\ ContentsOK /\ ContentsOK'
  BY ContentsSequence, ContentsAfter DEF ArrayInv
<1> PICK n \in Nat : n = count
  BY <1>1 DEF ContentsOK
<1>2. ASSUME count' = n + 1, data'[Actual(n)'] = item, out' = out,
             \A i \in 0 .. n - 1 : data'[Actual(i)'] = data[Actual(i)]
      PROVE  Abstract!Push(item)
  <2> DEFINE appended == Append(contents, item)
  <2>1. /\ appended \in Seq(Items) /\ Len(appended) = n + 1
        /\ \A i \in 1 .. n : appended[i] = contents[i]
        /\ appended[n + 1] = item
    BY <1>1 DEF ContentsOK
  <2>2. contents' \in Seq(Items) /\ Len(contents') = n + 1
    BY <1>1, <1>2 DEF ContentsOK
  <2> HIDE DEF appended
  <2>3. ASSUME NEW i \in 1 .. n + 1
        PROVE  contents'[i] = appended[i]
    <3>1. contents'[i] = data'[Actual(i - 1)']
      BY <1>1, <1>2 DEF ContentsOK
    <3>2. CASE i = n + 1
      <4>1. i - 1 = n
        BY <1>1, <3>2 DEF ContentsOK
      <4> QED BY <1>2, <2>1, <3>1, <3>2, <4>1
    <3>3. CASE i # n + 1
      <4>1. i \in 1 .. n /\ i - 1 \in 0 .. n - 1
        BY <1>1, <3>3 DEF ContentsOK
      <4> QED BY <1>1, <1>2, <2>1, <3>1, <4>1, Zenon DEF ContentsOK
    <3> QED BY <3>2, <3>3
  <2>4. contents' = appended
    BY <2>1, <2>2, <2>3, SameSequence
  <2> QED BY <1>2, <2>4 DEF Abstract!Push, appended
<1>3. CASE PushIntoFree(item)
  <2>1. /\ data \in [0 .. capacity - 1 -> Cells]
        /\ capacity \in Nat \ {0} /\ count \in Nat /\ count < capacity
    BY <1>1, <1>3, Allocated DEF PushIntoFree
  <2>2. \A i : Actual(i)' = Actual(i)
    BY <1>3 DEF PushIntoFree, Actual
  <2>3. Actual(n) \in 0 .. capacity - 1
    BY <1>1, <2>1, ActualPlace
  <2>4. ASSUME NEW i \in 0 .. n - 1
        PROVE  data'[Actual(i)] = data[Actual(i)]
    <3>1. i \in 0 .. capacity - 1 /\ n \in 0 .. capacity - 1 /\ i # n
      BY <2>1
    <3>2. Actual(i) \in 0 .. capacity - 1 /\ Actual(i) # Actual(n)
      BY <1>1, <2>1, <3>1, ActualPlace, ActualDiffers
    <3> QED BY <1>3, <2>1, <3>2 DEF PushIntoFree
  <2>5. data'[Actual(n)] = item
    BY <1>3, <2>1, <2>3 DEF PushIntoFree
  <2> QED BY <1>2, <1>3, <2>2, <2>4, <2>5 DEF PushIntoFree
<1>4. CASE PushAfterResize(item)
  <2>1. /\ capacity \in Nat \ {0} /\ count = capacity
        /\ capacity * GrowthFactor \in Nat /\ capacity < capacity * GrowthFactor
    BY <1>1, <1>4, Allocated, GrowthFits, ArrayAssumption DEF PushAfterResize
  <2>2. \A i \in 0 .. n : Actual(i)' = i
    BY <1>4, <2>1 DEF Actual, PushAfterResize
  <2>3. \A i \in 0 .. n - 1 : Grown[i] = data[Actual(i)]
    BY <2>1 DEF Grown
  <2>4. n \in DOMAIN Grown /\ \A i \in 0 .. n - 1 : i \in DOMAIN Grown /\ i # n
    BY <2>1 DEF Grown
  <2>5. data'[n] = item /\ \A i \in 0 .. n - 1 : data'[i] = Grown[i]
    BY <1>4, <2>4 DEF PushAfterResize
  <2>6. \A i \in 0 .. n - 1 : i \in 0 .. n
    BY <2>1
  <2>7. n \in 0 .. n
    BY <2>1
  <2>8. count' = n + 1 /\ out' = out
    BY <1>4 DEF PushAfterResize
  <2> QED BY <1>2, <2>2, <2>3, <2>5, <2>6, <2>7, <2>8
<1>5. CASE PushAfterInit(item)
  <2>1. n = 0
    BY <1>1, <1>5, Allocated DEF PushAfterInit
  <2>2. Actual(0)' = 0 /\ data'[0] = item
    BY <1>5, ArrayAssumption DEF PushAfterInit, Actual, Memory
  <2> QED BY <1>2, <1>5, <2>1, <2>2 DEF PushAfterInit
<1>6. CASE PushFails
  <2>1. head' = head /\ count' = count /\ capacity' = capacity /\ data' = data /\ out' = out
    BY <1>1, <1>6, Allocated DEF PushFails, vars, ArrayTypeOK
  <2> QED BY <2>1 DEF contents, Actual
<1> QED BY <1>3, <1>4, <1>5, <1>6 DEF array_push

LEMMA SetRefines ==
    ASSUME ArrayInv, ArrayInv', NEW item \in Items, NEW index \in 0 .. MaxCapacity,
           array_set(index, item)
    PROVE  \E i \in 1 .. Len(contents) : Abstract!Set(i, item)
<1>1. ArrayTypeOK /\ ContentsOK /\ ContentsOK'
  BY ContentsSequence, ContentsAfter DEF ArrayInv
<1>2. /\ data \in [0 .. capacity - 1 -> Cells]
      /\ capacity \in Nat \ {0} /\ count \in Nat /\ count <= capacity
      /\ index \in Nat /\ index < count /\ count' = count /\ out' = out
  BY <1>1, Allocated DEF array_set
<1>3. \A i : Actual(i)' = Actual(i)
  BY DEF array_set, Actual
<1>4. index + 1 \in 1 .. Len(contents)
  BY <1>1, <1>2 DEF ContentsOK
<1> DEFINE updated == [contents EXCEPT ![index + 1] = item]
<1>5. /\ updated \in Seq(Items) /\ Len(updated) = count
      /\ \A i \in 1 .. count : updated[i] = IF i = index + 1 THEN item ELSE contents[i]
  BY <1>1, <1>4 DEF ContentsOK
<1> HIDE DEF updated
<1>6. ASSUME NEW i \in 1 .. count
      PROVE  contents'[i] = updated[i]
  <2>1. contents'[i] = data'[Actual(i - 1)] /\ contents[i] = data[Actual(i - 1)]
    BY <1>1, <1>2, <1>3 DEF ContentsOK
  <2>2. i - 1 \in 0 .. capacity - 1 /\ index \in 0 .. capacity - 1
    BY <1>2
  <2>3. Actual(i - 1) \in 0 .. capacity - 1 /\ (i - 1 # index => Actual(i - 1) # Actual(index))
    BY <1>1, <1>2, <2>2, ActualPlace, ActualDiffers
  <2>4. CASE i = index + 1
    <3>1. i - 1 = index
      BY <1>2, <2>4
    <3> QED BY <1>2, <1>5, <2>1, <2>3, <2>4, <3>1 DEF array_set
  <2>5. CASE i # index + 1
    <3>1. i - 1 # index
      BY <1>2, <2>5
    <3> QED BY <1>2, <1>5, <2>1, <2>3, <2>5, <3>1 DEF array_set
  <2> QED BY <2>4, <2>5
<1>7. contents' \in Seq(Items) /\ Len(contents') = count
  BY <1>1, <1>2 DEF ContentsOK
<1>8. contents' = updated
  BY <1>5, <1>6, <1>7, SameSequence
<1> QED BY <1>2, <1>4, <1>8, Zenon DEF Abstract!Set, updated

LEMMA PopRefines ==
    ASSUME ArrayInv, ArrayInv', array_pop
    PROVE  Abstract!Pop \/ Abstract!NothingToRemove
<1>1. ArrayTypeOK /\ ContentsOK /\ ContentsOK'
  BY ContentsSequence, ContentsAfter DEF ArrayInv
<1>2. CASE Empty /\ out' = NULL /\ UNCHANGED <<head, count, capacity, data>>
  <2>1. contents = <<>>
    BY <1>1, <1>2, Allocated DEF Empty, ContentsOK
  <2>2. contents' = contents
    BY <1>2 DEF contents, Actual
  <2> QED BY <1>2, <2>1, <2>2 DEF Abstract!NothingToRemove
<1>3. CASE ~Empty /\ array_pop
  <2> PICK n \in Nat : n = count - 1
    BY <1>1, <1>3 DEF ContentsOK, Empty
  <2>1. count = n + 1 /\ count' = n /\ contents # <<>> /\ out' = data[Actual(n)]
    BY <1>1, <1>3 DEF array_pop, ContentsOK
  <2>2. out' = contents[Len(contents)]
    BY <1>1, <2>1 DEF ContentsOK
  <2> DEFINE front == SubSeq(contents, 1, n)
  <2>3. \A i \in 1 .. n : contents[i] \in Items
    BY <1>1, <2>1 DEF ContentsOK
  <2>4. /\ front \in Seq(Items) /\ Len(front) = n
        /\ \A i \in 1 .. n : front[i] = contents[i]
    <3>1. /\ front \in Seq(Items) /\ DOMAIN front = 1 .. n
          /\ \A i \in 1 .. n : front[i] = contents[i]
      BY <1>1, <2>1 DEF ContentsOK
    <3> HIDE DEF front
    <3> QED BY <3>1
  <2> HIDE DEF front
  <2>5. \A i : Actual(i)' = Actual(i)
    BY <1>3 DEF array_pop, Actual
  <2>6. data' = data
    BY <1>3 DEF array_pop
  <2>7. ASSUME NEW i \in 1 .. n
        PROVE  contents'[i] = front[i]
    <3>1. contents'[i] = data[Actual(i - 1)']
      BY <1>1, <2>1, <2>6 DEF ContentsOK
    <3>2. contents[i] = data[Actual(i - 1)]
      BY <1>1, <2>1 DEF ContentsOK
    <3> QED BY <2>4, <2>5, <3>1, <3>2
  <2>8. contents' = front
    BY <1>1, <2>1, <2>4, <2>7, SameSequence DEF ContentsOK
  <2>9. n = Len(contents) - 1
    BY <1>1, <2>1 DEF ContentsOK
  <2> QED BY <2>1, <2>2, <2>8, <2>9 DEF Abstract!Pop, front
<1> QED BY <1>2, <1>3 DEF array_pop

LEMMA DequeueRefines ==
    ASSUME ArrayInv, ArrayInv', array_dequeue
    PROVE  Abstract!Dequeue \/ Abstract!NothingToRemove
<1>1. ArrayTypeOK /\ ContentsOK /\ ContentsOK'
  BY ContentsSequence, ContentsAfter DEF ArrayInv
<1>2. CASE Empty /\ out' = NULL /\ UNCHANGED <<head, count, capacity, data>>
  <2>1. contents = <<>>
    BY <1>1, <1>2, Allocated DEF Empty, ContentsOK
  <2>2. contents' = contents
    BY <1>2 DEF contents, Actual
  <2> QED BY <1>2, <2>1, <2>2 DEF Abstract!NothingToRemove
<1>3. CASE ~Empty /\ array_dequeue
  <2> PICK n \in Nat : n = count - 1
    BY <1>1, <1>3 DEF ContentsOK, Empty
  <2>1. /\ count = n + 1 /\ count' = n /\ contents # <<>> /\ data' = data
        /\ out' = data[head] /\ head' = NextHead /\ capacity' = capacity
    BY <1>1, <1>3 DEF array_dequeue, ContentsOK
  <2>2. capacity \in Nat /\ head \in 0 .. capacity - 1 /\ n < capacity
    BY <1>1, <1>3, <2>1, Allocated DEF Empty
  <2>3. Head(contents) = contents[1]
    BY <1>1, <2>1 DEF ContentsOK
  <2>4. contents[1] = data[Actual(0)] /\ Actual(0) = head
    BY <1>1, <2>1, <2>2 DEF ContentsOK, Actual
  <2> DEFINE tail == Tail(contents)
  <2>5. /\ tail \in Seq(Items) /\ Len(tail) = n
        /\ \A i \in 1 .. n : tail[i] = contents[i + 1]
    BY <1>1, <2>1 DEF ContentsOK
  <2> HIDE DEF tail
  <2>6. \A i \in 0 .. n - 1 : Actual(i)' = Actual(i + 1)
    BY <2>1, <2>2 DEF NextHead, Actual
  <2>7. ASSUME NEW i \in 1 .. n
        PROVE  contents'[i] = tail[i]
    <3>1. contents'[i] = data[Actual(i - 1)']
      BY <1>1, <2>1 DEF ContentsOK
    <3>2. Actual(i - 1)' = Actual(i)
      BY <2>6
    <3>3. i + 1 \in 1 .. count /\ (i + 1) - 1 = i
      BY <2>1
    <3>4. contents[i + 1] = data[Actual(i)]
      BY <1>1, <3>3 DEF ContentsOK
    <3> QED BY <2>5, <3>1, <3>2, <3>4
  <2>8. contents' = tail
    BY <1>1, <2>1, <2>5, <2>7, SameSequence DEF ContentsOK
  <2> QED BY <2>1, <2>3, <2>4, <2>8 DEF Abstract!Dequeue, tail
<1> QED BY <1>2, <1>3 DEF array_dequeue

LEMMA FreeRefines == ASSUME ArrayInv', array_free PROVE Abstract!Clear
<1>1. ContentsOK'
  BY ContentsAfter
<1>2. contents' = <<>>
  BY <1>1 DEF ContentsOK, array_free
<1> QED BY <1>2 DEF Abstract!Clear, array_free

\* Wherever the elements lie in the circle, and however often it was grown in
\* the middle of a wrap or failed to grow, every operation of the array is the
\* one its API describes on a sequence, or changes nothing, for every
\* capacity, growth factor and limit.
THEOREM ArrayImplementsDeque == Spec => ImplementsDeque
<1>1. Init => Abstract!Init
  <2> SUFFICES ASSUME Init PROVE Abstract!Init
    OBVIOUS
  <2>1. ContentsOK
    BY InitArray, ContentsSequence
  <2> QED BY <2>1 DEF Init, ContentsOK, Abstract!Init
<1>2. ArrayInv /\ ArrayInv' /\ [Next]_vars => [Abstract!Next]_<<contents, out>>
  <2> SUFFICES ASSUME ArrayInv, ArrayInv', [Next]_vars
               PROVE  Abstract!Next \/ UNCHANGED <<contents, out>>
    OBVIOUS
  <2>1. CASE UNCHANGED vars
    BY <2>1 DEF vars, contents, Actual
  <2>2. ASSUME NEW item \in Items, array_push(item)
        PROVE  Abstract!Next \/ UNCHANGED <<contents, out>>
    BY <2>2, PushRefines DEF Abstract!Next
  <2>3. ASSUME NEW item \in Items, NEW index \in 0 .. MaxCapacity, array_set(index, item)
        PROVE  Abstract!Next
    BY <2>3, SetRefines DEF Abstract!Next
  <2>4. CASE array_pop
    BY <2>4, PopRefines DEF Abstract!Next
  <2>5. CASE array_dequeue
    BY <2>5, DequeueRefines DEF Abstract!Next
  <2>6. CASE array_free
    BY <2>6, FreeRefines DEF Abstract!Next
  <2> QED BY <2>1, <2>2, <2>3, <2>4, <2>5, <2>6 DEF Next
<1> QED BY <1>1, <1>2, ArrayInductive, PTL DEF Spec, ImplementsDeque, Abstract!Spec
=============================================================================
