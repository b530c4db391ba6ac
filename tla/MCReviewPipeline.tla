---------------------------- MODULE MCReviewPipeline ----------------------------
EXTENDS ReviewPipeline
\* The chains are interchangeable, and so are the checks.
ChainSymmetry == Permutations(Chains) \cup Permutations(Checks)
=============================================================================
