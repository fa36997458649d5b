-------------------------------- MODULE Tlb ---------------------------------
(***************************************************************************)
(* The translation tables Mmu switches between, and the translation        *)
(* lookaside buffer (TLB) the hardware keeps of them.  The TLB may cache   *)
(* any translation of the tables in force at any time, keeps it across     *)
(* domain switches, and may drop it again; mmu.c relies on ASIDs to make   *)
(* that harmless and does not invalidate on a switch.                      *)
(***************************************************************************)
EXTENDS Mmu, FiniteSets

CONSTANT TlbSize        \* bound: entries cached at one time

ASSUME TlbAssumption == TlbSize \in Nat \ {0}

VARIABLES tlb,          \* set of [va, tag, page]; tag is an ASID or Global
          enabled       \* SCTLR_EL1.M

tlbVars == <<current_domain, ttbr0, tlb, enabled>>

Private(domain) == <<"private", domain>>
Stack(domain) == <<"stack", domain>>
Common == {<<"device", 0>>, <<"kernel", 0>>, <<"code", 0>>, <<"shared", 0>>, <<"ro", 0>>}
VirtualPages == Common \cup {Private(d) : d \in KnownDomains} \cup {Stack(d) : d \in KnownDomains}

\* A page's descriptor: the rights at EL0 and EL1, and whether it is non-global.
PageDescriptor(el0, el1, ng) == [el0 |-> el0, el1 |-> el1, ng |-> ng]
Unmapped == PageDescriptor({}, {}, FALSE)
device_block_descriptor == PageDescriptor({}, {"r", "w"}, FALSE)
kernel_ram_block_descriptor == PageDescriptor({}, {"r", "w", "x"}, FALSE)
PrivatePage == PageDescriptor({"r", "w"}, {"r", "w"}, TRUE)
CodePageWritable == PageDescriptor({"r", "w", "x"}, {"r", "w"}, TRUE)  \* mutant
CodePage == PageDescriptor({"r", "x"}, {"r"}, TRUE)
RoPage == PageDescriptor({"r"}, {"r"}, TRUE)

\* init_domain_tables; only domain A is given the read-only test page.
Table(domain) ==
    [va \in VirtualPages |->
       IF va = <<"device", 0>> THEN device_block_descriptor
       ELSE IF va = <<"kernel", 0>> THEN kernel_ram_block_descriptor
       ELSE IF va \in {Private(domain), Stack(domain), <<"shared", 0>>} THEN PrivatePage
       ELSE IF va = <<"code", 0>> THEN CodePage
       ELSE IF va = <<"ro", 0>> /\ domain = DomainA THEN RoPage
       ELSE Unmapped]

Global == 0
TagOf(page) == IF page.ng THEN ttbr0.asid ELSE Global

\* What reset or a boot loader may have left in the TLB.
Stale == [va : VirtualPages, tag : {Global, asid(DomainA)},
          page : {PageDescriptor({"r", "w"}, {"r", "w"}, TRUE)}]

TlbInit ==
    /\ MmuInit
    /\ enabled = FALSE
    /\ \E entry \in Stale : tlb = {entry}

InvalidateNothing == tlb' = tlb                        \* mutant
lettuce_mmu_invalidate_all == tlb' = {}

lettuce_mmu_init ==
    /\ ~enabled
    /\ lettuce_mmu_invalidate_all
    /\ write_ttbr(lettuce_arch_domain_ttbr0_val(DomainA))
    /\ enabled' = TRUE
    /\ current_domain' = DomainA

\* lettuce_mmu_invalidate_domain: of a domain that is not known, nothing.
lettuce_mmu_invalidate_domain(domain) ==
    /\ tlb' = IF Known(domain) THEN {e \in tlb : e.tag # asid(domain)} ELSE tlb
    /\ UNCHANGED <<current_domain, ttbr0, enabled>>

\* The hardware walks the tables in force, for an access or ahead of one.
TlbFill(va) ==
    /\ Cardinality(tlb) < TlbSize
    /\ LET page == Table(ttbr0.root)[va] IN
         /\ page # Unmapped
         /\ tlb' = tlb \cup {[va |-> va, tag |-> TagOf(page), page |-> page]}
    /\ UNCHANGED <<current_domain, ttbr0, enabled>>

TlbEvict(entry) ==
    /\ tlb' = tlb \ {entry}
    /\ UNCHANGED <<current_domain, ttbr0, enabled>>

Switch ==
    /\ \/ \E domain \in KnownDomains \cup {InvalidDomain, -1} : lettuce_mmu_enter(domain)
       \/ \E domain \in KnownDomains : lettuce_elevator_asm_transition(domain)
    /\ UNCHANGED <<tlb, enabled>>

TlbNext ==
    \/ lettuce_mmu_init
    \/ /\ enabled
       /\ \/ Switch
          \/ \E domain \in KnownDomains \cup {-1} : lettuce_mmu_invalidate_domain(domain)
          \/ \E va \in VirtualPages : TlbFill(va)
          \/ \E entry \in tlb : TlbEvict(entry)

TlbSpec == TlbInit /\ [][TlbNext]_tlbVars

-----------------------------------------------------------------------------
\* What an access to va may be translated with: the cached entries that match,
\* or the table itself.
Hits(va) == {e \in tlb : e.va = va /\ e.tag \in {Global, ttbr0.asid}}
Translations(va) == {Table(ttbr0.root)[va]} \cup {e.page : e \in Hits(va)}

\* "steady-state switching between static domains does NOT require global TLB
\* invalidation": no entry cached earlier, under whatever domain, and nothing
\* from before boot, gives another translation than the tables now in force.
TlbCoherent ==
    enabled => \A va \in VirtualPages : Translations(va) = {Table(ttbr0.root)[va]}

\* EL0 code in one domain has no access, through tables or TLB, to another
\* domain's private page or stack, to the kernel or to devices, and can
\* execute nothing that it can write.
El0Isolated ==
    enabled =>
      \A va \in VirtualPages : \A page \in Translations(va) :
        /\ page.el0 # {} => va \in {Private(current_domain), Stack(current_domain),
                                    <<"code", 0>>, <<"shared", 0>>, <<"ro", 0>>}
        /\ ~({"w", "x"} \subseteq page.el0)
=============================================================================
