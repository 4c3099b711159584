---------------------------- MODULE MCAuditReplay ----------------------------
EXTENDS AuditReplay, TLC

Symmetry == Permutations(Names) \cup Permutations(Labels)

\* No property but TypeOK is about rows that look like one another.
Distinct == ~twins
=============================================================================
