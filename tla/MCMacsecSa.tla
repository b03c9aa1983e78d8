------------------------------ MODULE MCMacsecSa ------------------------------
\* Symmetry of the SAs for the runs of MacsecSa: they differ by index only.
EXTENDS MacsecSa, TLC

SaSymmetry == Permutations(SAs)
===============================================================================
