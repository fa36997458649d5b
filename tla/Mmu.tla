-------------------------------- MODULE Mmu ---------------------------------
(***************************************************************************)
(* Protection domains on ARM64 (kernel/arch/arm64/mmu.c): the translation  *)
(* tables of every domain, the address space identifier (ASID) that tags   *)
(* them, and the switch between domains, both in C and by the Elevator's   *)
(* assembly (kernel/arch/arm64/elevator.S).                                *)
(*                                                                         *)
(* A virtual page is named by its use.  Physical addresses, levels of the  *)
(* tables and memory attributes other than access rights are left out.     *)
(***************************************************************************)
EXTENDS Integers, Sequences

CONSTANT ArchDomains    \* the ids of arch_domains, in order: A, B, C

ASSUME MmuAssumption ==
    /\ ArchDomains \in Seq(Nat \ {0}) /\ ArchDomains # <<>>
    /\ \A i, j \in 1 .. Len(ArchDomains) : ArchDomains[i] = ArchDomains[j] => i = j

VARIABLES
    current_domain,   \* what the kernel believes
    ttbr0             \* TTBR0_EL1: the root table and the ASID in force

DomainA == ArchDomains[1]
KnownDomains == {ArchDomains[i] : i \in 1 .. Len(ArchDomains)}
InvalidDomain == 0

\* arch_domain_lookup(domain) is not NULL
Known(domain) == domain \in KnownDomains

NoTtbr == [root |-> InvalidDomain, asid |-> 0]

asid(domain) == CHOOSE i \in 1 .. Len(ArchDomains) : ArchDomains[i] = domain

lettuce_arch_domain_ttbr0_val(domain) ==
    IF Known(domain) THEN [root |-> domain, asid |-> asid(domain)] ELSE NoTtbr

write_ttbr(value) == ttbr0' = value

MmuInit == current_domain = InvalidDomain /\ ttbr0 = NoTtbr

\* lettuce_mmu_init as it leaves the two variables.
Booted == current_domain = DomainA /\ ttbr0 = lettuce_arch_domain_ttbr0_val(DomainA)

EnterWithoutTtbr(domain) ==              \* mutant: the tables are not switched
    current_domain' = domain /\ UNCHANGED ttbr0
lettuce_mmu_enter(domain) ==
    IF domain \in {current_domain, InvalidDomain} \/ ~Known(domain)
    THEN UNCHANGED <<current_domain, ttbr0>>
    ELSE /\ write_ttbr(lettuce_arch_domain_ttbr0_val(domain))
         /\ current_domain' = domain

lettuce_mmu_leave(previous_domain) == lettuce_mmu_enter(previous_domain)

\* lettuce_mmu_set_current_domain, then the assembly's own TTBR0 write.
lettuce_elevator_asm_transition(target_domain) ==
    /\ current_domain' = target_domain
    /\ write_ttbr(lettuce_arch_domain_ttbr0_val(target_domain))
=============================================================================
