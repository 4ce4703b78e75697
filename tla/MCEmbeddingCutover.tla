-------------------------- MODULE MCEmbeddingCutover --------------------------
EXTENDS EmbeddingCutover, TLC

\* Administrators' requests and models are interchangeable in the safety runs.
Symmetry == Permutations(Admins) \cup Permutations(Models)
=============================================================================
