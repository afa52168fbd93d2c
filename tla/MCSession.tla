----------------------------- MODULE MCSession -----------------------------
(***************************************************************************)
(* Session and HistoryPage on small instances.  They share no state, so a  *)
(* behaviour is one of one of them, and `which` says of which.             *)
(***************************************************************************)
EXTENDS Session, HistoryPage, TLC

VARIABLE which

MCInit ==
    /\ which \in {"tokens", "history"}
    /\ which = "history" \/ (stored = <<>> /\ query = NoSession)
    /\ Init /\ HistoryInit

OfTokens == which = "tokens" /\ Next /\ UNCHANGED <<which, pageVars>>
OfHistory == which = "history" /\ HistoryNext /\ UNCHANGED <<which, vars>>

MCNext == OfTokens \/ OfHistory

MCSpec == MCInit /\ [][MCNext]_<<which, vars, pageVars>>

Symmetry == Permutations(Requests) \cup Permutations(HistorySessions)
=============================================================================
