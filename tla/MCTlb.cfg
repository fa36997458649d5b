SPECIFICATION TlbSpec
CONSTANTS
    ArchDomains <- MCArchDomains
    TlbSize = 4
INVARIANTS
    TlbCoherent
    El0Isolated
