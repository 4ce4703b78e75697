----------------------------- MODULE MCIdentity -----------------------------
EXTENDS Identity, TLC

\* E-mails and requests are interchangeable.
Symmetry == Permutations(Emails) \cup Permutations(Requests)
=============================================================================
