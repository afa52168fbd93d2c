--------------------------- MODULE ChatSummaryInv ---------------------------
(***************************************************************************)
(* The inductive invariant of ChatSummary, in named parts.                 *)
(***************************************************************************)
EXTENDS ChatSummary

(* Histories are finite. *)
Finite ==
    /\ IsFiniteSet(visible)
    /\ \A r \in Requests : IsFiniteSet(hist[r])

(* No stamp is given out twice. *)
Stamps ==
    /\ \A m \in visible : m <= clock
    /\ \A r \in Requests : pc[r] = "inserted" => stamp[r] <= clock /\ stamp[r] \notin visible
    /\ \A r, o \in Requests :
          r # o /\ pc[r] = "inserted" /\ pc[o] = "inserted" => stamp[r] # stamp[o]

(* late[r] bounds the messages committed behind an uncommitted one. *)
Lateness ==
    \A r \in Requests :
        /\ late[r] <= Overlap
        /\ pc[r] = "inserted" => Cardinality({x \in visible : x > stamp[r]}) <= late[r]

(* A session that does not exist has no messages, and nobody works on it. *)
Unborn ==
    life = "none" => /\ visible = {}
                     /\ \A r \in Requests : pc[r] = "idle"

(* The first n messages of V stay the first ones: Keep messages, less the  *)
(* one that was being added, follow them.                                  *)
Settled(n, V) == n = 0 \/ n + Keep <= Cardinality(V) + 1

(* The summary s covers the first messages of V. *)
Covers(s, V) ==
    /\ Settled(s.watermark, V)
    /\ s.summary = First(s.watermark, V)

(* The old messages of the history h are still the first of V. *)
OldIsPrefix(h, V) ==
    /\ Settled(OldCount(h), V)
    /\ \A k \in 0 .. OldCount(h) : First(k, h) = First(k, V)

(* Every summary that is stored, held or about to be stored is a prefix. *)
Coverage ==
    life # "deleted" =>
        /\ Covers(row, visible)
        /\ \A r \in Requests : Covers(snap[r], visible) /\ OldIsPrefix(hist[r], visible)
        /\ \A w \in Workers : running[w] # NoTask => Covers(running[w].refreshed, visible)
        /\ \A i \in DOMAIN queue : Covers(queue[i].refreshed, visible)

(* A deleted session has no messages. *)
Gone == life = "deleted" => visible = {}

(* The summary s and the messages after its watermark make up h. *)
Fits(h, s) ==
    IF s.watermark < OldCount(h)
    THEN s.summary = First(s.watermark, h)
    ELSE OldMessages(h) \subseteq s.summary

Fitting ==
    \A r \in Requests :
        pc[r] = "building" => Fits(hist[r], snap[r])

(* A refresh that runs on the pool covers more than the row it expects. *)
Advances(t) == t.refreshed.watermark >= t.expected.watermark + Refresh

TasksAdvance ==
    /\ \A w \in Workers : running[w] # NoTask => Advances(running[w])
    /\ \A i \in DOMAIN queue : Advances(queue[i])

(* The inductive invariant: what every step of the turns, the pool and the *)
(* other writers preserves.                                                *)
IInv ==
    /\ TypeOK /\ Finite /\ Stamps /\ Lateness /\ Unborn /\ Gone
    /\ Coverage /\ Fitting /\ TasksAdvance
    /\ PromptComplete /\ RepeatsOnlyRecent
=============================================================================
