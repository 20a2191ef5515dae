----------------------------- MODULE MCChatRun -----------------------------
EXTENDS ChatRun, TLC

\* Requests are interchangeable: no definition distinguishes two of them.
Symmetry == Permutations(Reqs)
=============================================================================
