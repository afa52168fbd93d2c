--------------------------- MODULE MCChatSummary ---------------------------
EXTENDS ChatSummaryInv, TLC

Symmetry == Permutations(Requests) \cup Permutations(Workers)
=============================================================================
