------------------------------- MODULE MCBoot -------------------------------
EXTENDS Boot

\* Core 0 alone, as with psci_cpu_on, or all cores at once.
ByPsci    == {0}
Resets    == {ByPsci, Cores}

\* No core fails its check, or one of the others does.
Failures  == {{}, {1}}
=============================================================================
