-------------------------- MODULE ChatSummaryProofs --------------------------
(***************************************************************************)
(* For every number of requests and pool threads, every threshold and      *)
(* every window: the stored summary covers a prefix of the session, no     *)
(* prompt loses a message or repeats an old one, and no refresh moves the  *)
(* summary back.                                                           *)
(***************************************************************************)
EXTENDS ChatSummaryInv, FiniteSetTheorems, TLAPS

-----------------------------------------------------------------------------
(***************************************************************************)
(* Ranks in a finite history.                                              *)
(***************************************************************************)

(* A rank is a number, and at least one for a message of the history. *)
LEMMA RankType ==
    ASSUME NEW S \in SUBSET Nat, IsFiniteSet(S), NEW m \in Nat
    PROVE  /\ Rank(m, S) \in Nat
           /\ m \in S => Rank(m, S) >= 1
<1> DEFINE B == {x \in S : x <= m}
<1>1. IsFiniteSet(B) /\ Cardinality(B) \in Nat
    BY FS_Subset, FS_CardinalityType
<1>2. ASSUME m \in S PROVE Cardinality(B) # 0
    <2>1. m \in B
        BY <1>2
    <2>2. QED
        BY <2>1, <1>1, FS_EmptySet
<1>3. QED
    BY <1>1, <1>2 DEF Rank

(* The first zero messages are none. *)
LEMMA FirstZero ==
    ASSUME NEW S \in SUBSET Nat, IsFiniteSet(S)
    PROVE  First(0, S) = {}
<1>1. \A m \in S : Rank(m, S) \in Nat /\ Rank(m, S) >= 1
    BY RankType
<1>2. ASSUME NEW m \in S PROVE ~(Rank(m, S) <= 0)
    BY <1>1
<1>3. QED
    BY <1>2 DEF First

(* A longer prefix contains a shorter one. *)
LEMMA FirstMonotone ==
    ASSUME NEW S \in SUBSET Nat, IsFiniteSet(S),
           NEW j \in Nat, NEW k \in Nat, j <= k
    PROVE  First(j, S) \subseteq First(k, S)
<1>1. \A m \in S : Rank(m, S) \in Nat
    BY RankType
<1>2. ASSUME NEW m \in S, Rank(m, S) <= j PROVE Rank(m, S) <= k
    BY <1>1, <1>2
<1>3. QED
    BY <1>2 DEF First

(* Messages that have at least w messages of V before them do not disturb  *)
(* the first w messages of V.                                              *)
LEMMA FirstStable ==
    ASSUME NEW V \in SUBSET Nat, IsFiniteSet(V),
           NEW N \in SUBSET Nat, IsFiniteSet(N),
           NEW w \in Nat,
           \A s \in N : s \notin V /\ Cardinality({x \in V : x < s}) >= w
    PROVE  First(w, V \cup N) = First(w, V)
<1>1. IsFiniteSet(V \cup N)
    BY FS_Union
<1>2. ASSUME NEW m \in V \cup N, Rank(m, V \cup N) <= w
      PROVE  m \in V /\ Rank(m, V) <= w
    <2>1. m \notin N
        <3> SUFFICES ASSUME m \in N PROVE FALSE
            OBVIOUS
        <3> DEFINE A == {x \in V : x < m}
                   B == {x \in V \cup N : x <= m}
        <3>1. IsFiniteSet(A) /\ Cardinality(A) \in Nat /\ Cardinality(A) >= w
            BY FS_Subset, FS_CardinalityType
        <3>0. m \in Nat /\ \A x \in V : x \in Nat
            OBVIOUS
        <3>2. m \notin A /\ A \cup {m} \subseteq B
            <4>1. m \notin A
                BY <3>0
            <4>2. m \in B
                BY <3>0
            <4>3. \A x \in A : x \in B
                BY <3>0
            <4>4. QED
                BY <4>1, <4>2, <4>3
        <3>3. Cardinality(A \cup {m}) = Cardinality(A) + 1
            BY <3>1, <3>2, FS_AddElement
        <3>4. IsFiniteSet(B) /\ Cardinality(B) \in Nat
            BY <1>1, FS_Subset, FS_CardinalityType
        <3>5. Cardinality(A \cup {m}) <= Cardinality(B)
            BY <3>2, <3>4, FS_Subset
        <3>6. Cardinality(B) <= w
            BY <1>2 DEF Rank
        <3>7. QED
            BY <3>1, <3>3, <3>4, <3>5, <3>6
    <2>2. {x \in V : x <= m} \subseteq {x \in V \cup N : x <= m}
        OBVIOUS
    <2>3. IsFiniteSet({x \in V \cup N : x <= m})
        BY <1>1, FS_Subset
    <2>4. Rank(m, V) <= Rank(m, V \cup N)
        BY <2>2, <2>3, FS_Subset DEF Rank
    <2>5. Rank(m, V) \in Nat /\ Rank(m, V \cup N) \in Nat
        BY <1>1, RankType
    <2>6. QED
        BY <1>2, <2>1, <2>4, <2>5
<1>3. ASSUME NEW m \in V, Rank(m, V) <= w
      PROVE  Rank(m, V \cup N) <= w
    <2>1. \A s \in N : ~(s <= m)
        <3> SUFFICES ASSUME NEW s \in N, s <= m PROVE FALSE
            OBVIOUS
        <3> DEFINE A == {x \in V : x < s}
                   B == {x \in V : x <= m}
        <3>1. IsFiniteSet(A) /\ Cardinality(A) \in Nat /\ Cardinality(A) >= w
            BY FS_Subset, FS_CardinalityType
        <3>2. s \in Nat /\ m \in Nat /\ \A x \in V : x \in Nat
            OBVIOUS
        <3>3. m \notin A /\ A \cup {m} \subseteq B
            <4>1. m \notin A
                BY <3>2
            <4>2. m \in B
                BY <3>2
            <4>3. \A x \in A : x \in B
                BY <3>2
            <4>4. QED
                BY <4>1, <4>2, <4>3
        <3>4. Cardinality(A \cup {m}) = Cardinality(A) + 1
            BY <3>1, <3>3, FS_AddElement
        <3>5. IsFiniteSet(B) /\ Cardinality(B) \in Nat
            BY FS_Subset, FS_CardinalityType
        <3>6. Cardinality(A \cup {m}) <= Cardinality(B)
            BY <3>3, <3>5, FS_Subset
        <3>7. Cardinality(B) <= w
            BY <1>3 DEF Rank
        <3>8. QED
            BY <3>1, <3>4, <3>5, <3>6, <3>7
    <2>2. {x \in V \cup N : x <= m} = {x \in V : x <= m}
        BY <2>1
    <2>3. QED
        BY <1>3, <2>2 DEF Rank
<1>4. QED
    BY <1>2, <1>3 DEF First

(* A message that is not in V splits V into what is before and after it. *)
LEMMA BeforeAfter ==
    ASSUME NEW V \in SUBSET Nat, IsFiniteSet(V), NEW s \in Nat, s \notin V
    PROVE  /\ Cardinality({x \in V : x < s}) \in Nat
           /\ Cardinality({x \in V : x > s}) \in Nat
           /\ Cardinality(V) = Cardinality({x \in V : x < s})
                                 + Cardinality({x \in V : x > s})
<1> DEFINE A == {x \in V : x < s}
           B == {x \in V : x > s}
<1>1. IsFiniteSet(A) /\ IsFiniteSet(B)
    BY FS_Subset
<1>2. Cardinality(A) \in Nat /\ Cardinality(B) \in Nat /\ Cardinality(V) \in Nat
    BY <1>1, FS_CardinalityType
<1>3. A \cup B = V
    <2>1. ASSUME NEW x \in V PROVE x < s \/ x > s
        <3>1. x \in Nat /\ x # s
            OBVIOUS
        <3>2. QED
            BY <3>1
    <2>2. QED
        BY <2>1
<1>4. A \cap B = {}
    <2>1. ASSUME NEW x \in V PROVE ~(x < s /\ x > s)
        OBVIOUS
    <2>2. QED
        BY <2>1
<1>5. Cardinality(A \cup B) = Cardinality(A) + Cardinality(B) - Cardinality(A \cap B)
    BY <1>1, FS_Union
<1>6. Cardinality(A \cap B) = 0
    BY <1>4, FS_EmptySet
<1>7. Cardinality(V) = Cardinality(A \cup B)
    BY <1>3, Zenon
<1>8. Cardinality(V) = Cardinality(A) + Cardinality(B)
    BY <1>2, <1>5, <1>6, <1>7
<1>9. QED
    BY <1>2, <1>8

-----------------------------------------------------------------------------
(***************************************************************************)
(* Types.                                                                  *)
(***************************************************************************)

(* What is computed from a finite history has the type of what is stored.  *)
LEMMA HistoryTypes ==
    ASSUME NEW h \in SUBSET Nat, IsFiniteSet(h)
    PROVE  /\ Cardinality(h) \in Nat
           /\ OldCount(h) \in Nat
           /\ Refreshed(h) \in Summaries
           /\ FullPrompt(h) \in Prompts
           /\ \A s \in Summaries : /\ Prompt(h, s) \in Prompts
                                   /\ Task(h, s) \in TaskRecords
<1>1. Cardinality(h) \in Nat
    BY FS_CardinalityType
<1>2. OldCount(h) \in Nat
    BY <1>1, SummaryAssumption DEF OldCount, HistoryLen
<1>3. Refreshed(h) \in Summaries
    BY <1>2 DEF Refreshed, OldMessages, First, Summaries
<1>4. QED
    BY <1>1, <1>2, <1>3 DEF FullPrompt, Prompt, Prompts, Summaries, Task, TaskRecords

LEMMA InitTypes == Init => TypeOK /\ Finite
<1> SUFFICES ASSUME Init PROVE TypeOK /\ Finite
    OBVIOUS
<1>1. Finite
    BY FS_EmptySet DEF Init, Finite
<1>2. QED
    BY <1>1 DEF Init, TypeOK, NoSummary, NoPrompt, Summaries, Prompts

(* The end of a request resets its locals to typed values. *)
LEMMA FinishTypes ==
    ASSUME TypeOK, Finite, NEW r \in Requests, Finish(r)
    PROVE  /\ pc' \in [Requests -> {"idle", "loaded", "building", "conflict",
                                    "replying", "inserted"}]
           /\ snap' \in [Requests -> Summaries]
           /\ hist' \in [Requests -> SUBSET Nat]
           /\ prompt' \in [Requests -> Prompts]
           /\ stamp' \in [Requests -> Nat]
           /\ \A o \in Requests : IsFiniteSet(hist'[o])
BY FS_EmptySet DEF Finish, TypeOK, Finite, NoSummary, NoPrompt, Summaries, Prompts

(* A turn preserves the types. *)
LEMMA TurnTypes ==
    ASSUME TypeOK, Finite, NEW r \in Requests, Turn(r)
    PROVE  TypeOK' /\ Finite'
<1> USE SummaryAssumption DEF TypeOK, Finite, poolVars
<1>0. /\ Cardinality(hist[r]) \in Nat
      /\ OldCount(hist[r]) \in Nat
      /\ Refreshed(hist[r]) \in Summaries
      /\ FullPrompt(hist[r]) \in Prompts
      /\ \A s \in Summaries : /\ Prompt(hist[r], s) \in Prompts
                              /\ Task(hist[r], s) \in TaskRecords
    BY HistoryTypes
<1>1. CASE LoadSession(r)
    BY <1>1 DEF LoadSession
<1>2. CASE ReadHistory(r)
    BY <1>2 DEF ReadHistory
<1>3. CASE BuildFull(r)
    BY <1>0, <1>3 DEF BuildFull, Send
<1>4. CASE BuildCached(r)
    BY <1>0, <1>4 DEF BuildCached, Send
<1>5. CASE BuildAsync(r)
    <2>1. queue' \in Seq(TaskRecords)
        <3>1. Task(hist[r], snap[r]) \in TaskRecords
            BY <1>0
        <3>2. queue' = queue \/ queue' = Append(queue, Task(hist[r], snap[r]))
            BY <1>5 DEF BuildAsync
        <3>3. ASSUME NEW T, NEW q \in Seq(T), NEW t \in T PROVE Append(q, t) \in Seq(T)
            OBVIOUS
        <3>4. queue \in Seq(TaskRecords)
            OBVIOUS
        <3>5. Append(queue, Task(hist[r], snap[r])) \in Seq(TaskRecords)
            BY <3>1, <3>3, <3>4, Zenon
        <3>6. QED
            BY <3>2, <3>4, <3>5, Zenon
    <2>2. QED
        BY <1>0, <1>5, <2>1 DEF BuildAsync, Send
<1>6. CASE SyncPersist(r)
    BY <1>0, <1>6 DEF SyncPersist, Send
<1>7. CASE SyncConflict(r)
    BY <1>7 DEF SyncConflict
<1>8. CASE ResolveConflict(r)
    <2>1. NoSummary \in Summaries
        BY DEF NoSummary, Summaries
    <2>2. prompt' \in [Requests -> Prompts]
        BY <1>0, <1>8, <2>1 DEF ResolveConflict, Send
    <2>3. QED
        BY <1>8, <2>2 DEF ResolveConflict, Send
<1>9. CASE TurnFails(r)
    BY <1>9, FinishTypes DEF TurnFails
<1>10. CASE InsertUserMessage(r)
    BY <1>10 DEF InsertUserMessage
<1>11. CASE CommitTurn(r)
    <2>1. IsFiniteSet(visible')
        <3>1. IsFiniteSet({stamp[r]}) /\ IsFiniteSet({clock + 1})
            BY FS_Singleton
        <3>2. visible' = visible \cup {stamp[r]} \cup {clock + 1}
            BY <1>11 DEF CommitTurn
        <3>3. QED
            BY <3>2, FS_AddElement
    <2>2. late' \in [Requests -> Nat]
        BY <1>11 DEF CommitTurn, Behind
    <2>3. visible' \in SUBSET Nat /\ clock' \in Nat
        <3>1. stamp[r] \in Nat /\ clock + 1 \in Nat
            OBVIOUS
        <3>2. clock' = clock + 1 /\ visible' = visible \cup {stamp[r], clock + 1}
            BY <1>11 DEF CommitTurn
        <3>3. QED
            BY <3>1, <3>2
    <2>4. Finish(r) /\ UNCHANGED <<life, row, poolVars>>
        BY <1>11 DEF CommitTurn
    <2>5. QED
        BY <2>1, <2>2, <2>3, <2>4, FinishTypes
<1>12. CASE RollBackTurn(r)
    BY <1>12, FinishTypes DEF RollBackTurn
<1>13. QED
    BY <1>1, <1>2, <1>3, <1>4, <1>5, <1>6, <1>7, <1>8, <1>9, <1>10, <1>11,
       <1>12 DEF Turn

(* The pool and the other writers preserve the types. *)
LEMMA OtherTypes ==
    ASSUME TypeOK, Finite,
           \/ \E w \in Workers : Pool(w)
           \/ CreateSession \/ FollowUpMessage \/ DeleteSession \/ Restart
    PROVE  TypeOK' /\ Finite'
<1> USE SummaryAssumption DEF TypeOK, Finite, poolVars, requestVars
<1>1. ASSUME NEW w \in Workers, TaskStart(w) PROVE TypeOK' /\ Finite'
    <2>1. Head(queue) \in TaskRecords /\ Tail(queue) \in Seq(TaskRecords)
        BY <1>1 DEF TaskStart
    <2>2. QED
        BY <1>1, <2>1 DEF TaskStart
<1>2. ASSUME NEW w \in Workers, TaskEnd(w) PROVE TypeOK' /\ Finite'
    <2>1. running[w].refreshed \in Summaries
        BY <1>2 DEF TaskEnd, TaskRecords
    <2>2. QED
        BY <1>2, <2>1 DEF TaskEnd
<1>3. ASSUME NEW w \in Workers, TaskFails(w) PROVE TypeOK' /\ Finite'
    BY <1>3 DEF TaskFails
<1>4. CASE CreateSession
    <2>1. PICK n \in {1, 2} : clock' = clock + n /\ visible' = (clock + 1) .. (clock + n)
        BY <1>4 DEF CreateSession
    <2>2. IsFiniteSet(visible') /\ visible' \in SUBSET Nat /\ clock' \in Nat
        BY <2>1, FS_Interval
    <2>3. QED
        BY <1>4, <2>2 DEF CreateSession
<1>5. CASE FollowUpMessage
    <2>1. IsFiniteSet(visible')
        BY <1>5, FS_AddElement DEF FollowUpMessage
    <2>2. QED
        BY <1>5, <2>1 DEF FollowUpMessage
<1>6. CASE DeleteSession
    BY <1>6, FS_EmptySet DEF DeleteSession, NoSummary, Summaries
<1>7. CASE Restart
    BY <1>7, FS_EmptySet DEF Restart, NoSummary, NoPrompt, Summaries, Prompts
<1>8. QED
    BY <1>1, <1>2, <1>3, <1>4, <1>5, <1>6, <1>7 DEF Pool

LEMMA NextTypes == TypeOK /\ Finite /\ [Next]_vars => TypeOK' /\ Finite'
<1> SUFFICES ASSUME TypeOK, Finite, [Next]_vars PROVE TypeOK' /\ Finite'
    OBVIOUS
<1>1. CASE \E r \in Requests : Turn(r)
    BY <1>1, TurnTypes
<1>2. CASE UNCHANGED vars
    BY <1>2 DEF TypeOK, Finite, vars
<1>3. CASE ~(\E r \in Requests : Turn(r)) /\ Next
    BY <1>3, OtherTypes DEF Next
<1>4. QED
    BY <1>1, <1>2, <1>3

(* Every reachable state of the row, the request threads and the pool is   *)
(* well typed, whatever the number of threads and the bounds.              *)
THEOREM TypeCorrect == Spec => []TypeOK
<1>1. Init => TypeOK /\ Finite
    BY InitTypes
<1>2. TypeOK /\ Finite /\ [Next]_vars => (TypeOK /\ Finite)'
    BY NextTypes
<1>3. QED
    BY <1>1, <1>2, PTL DEF Spec

-----------------------------------------------------------------------------
(***************************************************************************)
(* Stamps and lateness.                                                    *)
(***************************************************************************)

(* The steps that commit no message and stamp none. *)
Still ==
    /\ visible' \subseteq visible
    /\ life' # "deleted" => visible' = visible
    /\ clock' = clock
    /\ \A o \in Requests :
          /\ late'[o] \in {late[o], 0}
          /\ pc'[o] = "inserted" => /\ pc[o] = "inserted"
                                    /\ stamp'[o] = stamp[o]
                                    /\ late'[o] = late[o]

LEMMA StillSteps ==
    ASSUME TypeOK, [Next]_vars
    PROVE  \/ Still
           \/ \E r \in Requests : InsertUserMessage(r) \/ CommitTurn(r)
           \/ CreateSession \/ FollowUpMessage
<1> USE DEF TypeOK, Still, poolVars, requestVars
<1>1. ASSUME NEW r \in Requests, LoadSession(r) PROVE Still
    BY <1>1 DEF LoadSession
<1>2. ASSUME NEW r \in Requests, ReadHistory(r) PROVE Still
    BY <1>2 DEF ReadHistory
<1>3. ASSUME NEW r \in Requests, BuildFull(r) PROVE Still
    BY <1>3 DEF BuildFull, Send
<1>4. ASSUME NEW r \in Requests, BuildCached(r) PROVE Still
    BY <1>4 DEF BuildCached, Send
<1>5. ASSUME NEW r \in Requests, BuildAsync(r) PROVE Still
    BY <1>5 DEF BuildAsync, Send
<1>6. ASSUME NEW r \in Requests, SyncPersist(r) PROVE Still
    BY <1>6 DEF SyncPersist, Send
<1>7. ASSUME NEW r \in Requests, SyncConflict(r) PROVE Still
    BY <1>7 DEF SyncConflict
<1>8. ASSUME NEW r \in Requests, ResolveConflict(r) PROVE Still
    BY <1>8 DEF ResolveConflict, Send
<1>9. ASSUME NEW r \in Requests, TurnFails(r) PROVE Still
    BY <1>9 DEF TurnFails, Finish
<1>10. ASSUME NEW r \in Requests, RollBackTurn(r) PROVE Still
    BY <1>10 DEF RollBackTurn, Finish
<1>11. ASSUME NEW w \in Workers, Pool(w) PROVE Still
    BY <1>11 DEF Pool, TaskStart, TaskEnd, TaskFails
<1>12. CASE DeleteSession
    BY <1>12 DEF DeleteSession
<1>13. CASE Restart
    BY <1>13 DEF Restart
<1>14. CASE UNCHANGED vars
    BY <1>14 DEF vars
<1>15. QED
    BY <1>1, <1>2, <1>3, <1>4, <1>5, <1>6, <1>7, <1>8, <1>9, <1>10, <1>11,
       <1>12, <1>13, <1>14 DEF Next, Turn

(* A request that has stamped its message works on a session that exists.  *)
LEMMA NextUnborn ==
    ASSUME TypeOK, Unborn, [Next]_vars
    PROVE  Unborn'
<1> USE DEF TypeOK, Unborn, poolVars, requestVars
<1>1. SUFFICES ASSUME life' = "none"
               PROVE  visible' = {} /\ \A o \in Requests : pc'[o] = "idle"
    OBVIOUS
<1>2. life = "none"
    <2>1. ASSUME NEW r \in Requests, Turn(r) PROVE life' = life
        BY <2>1 DEF Turn, LoadSession, ReadHistory, BuildFull, BuildCached,
           BuildAsync, SyncPersist, SyncConflict, ResolveConflict, TurnFails,
           InsertUserMessage, CommitTurn, RollBackTurn
    <2>2. ASSUME NEW w \in Workers, Pool(w) PROVE life' = life
        BY <2>2 DEF Pool, TaskStart, TaskEnd, TaskFails
    <2>3. QED
        BY <1>1, <2>1, <2>2 DEF Next, vars, CreateSession, FollowUpMessage,
           DeleteSession, Restart
<1>3. visible = {} /\ \A o \in Requests : pc[o] = "idle"
    BY <1>2
<1>4. ASSUME NEW r \in Requests, Turn(r) PROVE FALSE
    BY <1>2, <1>3, <1>4 DEF Turn, LoadSession, ReadHistory, BuildFull, BuildCached,
       BuildAsync, SyncPersist, SyncConflict, SyncRefreshing, ResolveConflict,
       TurnFails, InsertUserMessage, CommitTurn, RollBackTurn
<1>5. ASSUME NEW w \in Workers, Pool(w) PROVE pc' = pc /\ visible' = visible
    BY <1>5 DEF Pool, TaskStart, TaskEnd, TaskFails
<1>6. QED
    BY <1>1, <1>2, <1>3, <1>4, <1>5 DEF Next, vars, CreateSession,
       FollowUpMessage, DeleteSession, Restart

(* Two more messages are at most two more behind a stamp. *)
LEMMA CountBehind ==
    ASSUME NEW V \in SUBSET Nat, IsFiniteSet(V), NEW a \in Nat, NEW b \in Nat, NEW s \in Nat
    PROVE  /\ Cardinality({x \in V : x > s}) \in Nat
           /\ Cardinality({x \in V \cup {a} : x > s}) <= Cardinality({x \in V : x > s}) + 1
           /\ Cardinality({x \in V \cup {a, b} : x > s}) <= Cardinality({x \in V : x > s}) + 2
<1> DEFINE A == {x \in V : x > s}
           A1 == A \cup {a}
           A2 == A1 \cup {b}
           B1 == {x \in V \cup {a} : x > s}
           B2 == {x \in V \cup {a, b} : x > s}
<1>1. IsFiniteSet(A) /\ Cardinality(A) \in Nat
    BY FS_Subset, FS_CardinalityType
<1>2. /\ IsFiniteSet(A1) /\ Cardinality(A1) \in Nat
      /\ Cardinality(A1) <= Cardinality(A) + 1
    <2>1. /\ IsFiniteSet(A1)
          /\ Cardinality(A1) = IF a \in A THEN Cardinality(A) ELSE Cardinality(A) + 1
        BY <1>1, FS_AddElement
    <2>2. QED
        BY <1>1, <2>1
<1>3. /\ IsFiniteSet(A2) /\ Cardinality(A2) \in Nat
      /\ Cardinality(A2) <= Cardinality(A1) + 1
    <2>1. /\ IsFiniteSet(A2)
          /\ Cardinality(A2) = IF b \in A1 THEN Cardinality(A1) ELSE Cardinality(A1) + 1
        BY <1>2, FS_AddElement
    <2>2. QED
        BY <1>2, <2>1
<1>4. B1 \in SUBSET A1 /\ B2 \in SUBSET A2
    OBVIOUS
<1>5. IsFiniteSet(B1) /\ Cardinality(B1) <= Cardinality(A1)
    BY <1>2, <1>4, FS_Subset
<1>6. IsFiniteSet(B2) /\ Cardinality(B2) <= Cardinality(A2)
    BY <1>3, <1>4, FS_Subset
<1>7. Cardinality(B1) \in Nat /\ Cardinality(B2) \in Nat
    BY <1>5, <1>6, FS_CardinalityType
<1>8. Cardinality(B1) <= Cardinality(A) + 1 /\ Cardinality(B2) <= Cardinality(A) + 2
    <2> HIDE DEF A, A1, A2, B1, B2
    <2> QED
        BY <1>1, <1>2, <1>3, <1>5, <1>6, <1>7
<1>9. QED
    BY <1>1, <1>8

(* Nothing is behind a stamp that is at least as late as the clock. *)
LEMMA NothingBehind ==
    ASSUME TypeOK, Stamps, NEW s \in Nat, s >= clock
    PROVE  Cardinality({x \in visible : x > s}) = 0
<1>1. {x \in visible : x > s} = {}
    <2>1. ASSUME NEW x \in visible PROVE ~(x > s)
        <3>1. x \in Nat /\ x <= clock /\ clock \in Nat
            BY DEF TypeOK, Stamps
        <3>2. QED
            BY <3>1
    <2>2. QED
        BY <2>1
<1>2. QED
    BY <1>1, FS_EmptySet

(* Stamps stay apart, and late[r] keeps counting what is behind stamp[r].  *)
LEMMA NextStamps ==
    ASSUME TypeOK, Finite, Stamps, Lateness, Unborn, [Next]_vars
    PROVE  Stamps' /\ Lateness'
<1> USE SummaryAssumption
<1>0. /\ TypeOK' /\ Finite'
      /\ clock \in Nat /\ visible \in SUBSET Nat
      /\ \A x \in visible : x \in Nat
      /\ \A o \in Requests : stamp[o] \in Nat /\ late[o] \in Nat /\ stamp'[o] \in Nat
    BY NextTypes DEF TypeOK
<1>1. CASE Still
    <2>1. Stamps'
        BY <1>0, <1>1 DEF Still, Stamps
    <2>2. ASSUME NEW o \in Requests, pc'[o] = "inserted"
          PROVE  Cardinality({x \in visible' : x > stamp'[o]}) <= late'[o]
        <3>1. pc[o] = "inserted" /\ stamp'[o] = stamp[o] /\ late'[o] = late[o]
            BY <1>1, <2>2 DEF Still
        <3>2. {x \in visible' : x > stamp'[o]} \in SUBSET {x \in visible : x > stamp[o]}
            BY <1>1, <3>1 DEF Still
        <3>3. IsFiniteSet({x \in visible : x > stamp[o]})
            BY FS_Subset DEF Finite
        <3>4. /\ Cardinality({x \in visible' : x > stamp'[o]})
                    <= Cardinality({x \in visible : x > stamp[o]})
              /\ IsFiniteSet({x \in visible' : x > stamp'[o]})
            BY <3>2, <3>3, FS_Subset
        <3>5. /\ Cardinality({x \in visible' : x > stamp'[o]}) \in Nat
              /\ Cardinality({x \in visible : x > stamp[o]}) \in Nat
            BY <3>3, <3>4, FS_CardinalityType
        <3>6. Cardinality({x \in visible : x > stamp[o]}) <= late[o]
            BY <3>1 DEF Lateness
        <3>7. QED
            BY <1>0, <3>1, <3>4, <3>5, <3>6
    <2>3. ASSUME NEW o \in Requests PROVE late'[o] <= Overlap
        <3>1. late'[o] = late[o] \/ late'[o] = 0
            BY <1>1 DEF Still
        <3>2. late[o] <= Overlap
            BY DEF Lateness
        <3>3. QED
            BY <3>1, <3>2
    <2>4. QED
        BY <2>1, <2>2, <2>3 DEF Lateness
<1>2. ASSUME NEW r \in Requests, InsertUserMessage(r) PROVE Stamps' /\ Lateness'
    <2>1. /\ visible' = visible /\ clock' = clock + 1 /\ late' = late
          /\ pc' = [pc EXCEPT ![r] = "inserted"]
          /\ stamp' = [stamp EXCEPT ![r] = clock + 1]
        BY <1>2 DEF InsertUserMessage
    <2>2. /\ pc'[r] = "inserted" /\ stamp'[r] = clock + 1
          /\ \A o \in Requests : o # r => pc'[o] = pc[o] /\ stamp'[o] = stamp[o]
        BY <2>1 DEF TypeOK
    <2>3. clock + 1 \notin visible
        BY <1>0 DEF Stamps
    <2>4. Stamps'
        BY <1>0, <2>1, <2>2, <2>3 DEF Stamps
    <2>5. Cardinality({x \in visible' : x > stamp'[r]}) = 0
        <3>1. Cardinality({x \in visible : x > clock + 1}) = 0
            BY <1>0, NothingBehind
        <3>2. QED
            BY <2>1, <2>2, <3>1
    <2>6. ASSUME NEW o \in Requests
          PROVE  /\ late'[o] <= Overlap
                 /\ pc'[o] = "inserted" =>
                      Cardinality({x \in visible' : x > stamp'[o]}) <= late'[o]
        <3>1. late'[o] = late[o] /\ late[o] <= Overlap
            BY <2>1 DEF Lateness
        <3>2. CASE o = r
            BY <1>0, <2>5, <3>1, <3>2
        <3>3. CASE o # r
            BY <2>1, <2>2, <3>1, <3>3 DEF Lateness
        <3>4. QED
            BY <3>1, <3>2, <3>3
    <2>7. QED
        BY <2>4, <2>6 DEF Lateness
<1>3. ASSUME NEW r \in Requests, CommitTurn(r) PROVE Stamps' /\ Lateness'
    <2>1. /\ pc[r] = "inserted" /\ clock' = clock + 1
          /\ visible' = visible \cup {stamp[r], clock + 1}
          /\ pc' = [pc EXCEPT ![r] = "idle"]
          /\ stamp' = [stamp EXCEPT ![r] = 0]
        BY <1>3 DEF CommitTurn, Finish
    <2>2. /\ pc'[r] = "idle"
          /\ \A o \in Requests : o # r => pc'[o] = pc[o] /\ stamp'[o] = stamp[o]
        BY <2>1 DEF TypeOK
    <2>3. /\ late'[r] = 0
          /\ \A o \in Requests : o # r /\ pc[o] = "inserted" =>
                late'[o] = late[o] + 2 /\ late[o] + 2 <= Overlap
          /\ \A o \in Requests : o # r /\ pc[o] # "inserted" => late'[o] = late[o]
        BY <1>3 DEF CommitTurn, Behind
    <2>4. Stamps'
        BY <1>0, <2>1, <2>2 DEF Stamps
    <2>5. ASSUME NEW o \in Requests, pc'[o] = "inserted"
          PROVE  Cardinality({x \in visible' : x > stamp'[o]}) <= late'[o]
        <3>1. o # r /\ pc[o] = "inserted" /\ stamp'[o] = stamp[o] /\ late'[o] = late[o] + 2
            BY <2>2, <2>3, <2>5
        <3>2. /\ Cardinality({x \in visible : x > stamp[o]}) \in Nat
              /\ Cardinality({x \in visible \cup {stamp[r], clock + 1} : x > stamp[o]})
                    <= Cardinality({x \in visible : x > stamp[o]}) + 2
            <4>1. /\ visible \in SUBSET Nat /\ IsFiniteSet(visible)
                  /\ stamp[r] \in Nat /\ clock + 1 \in Nat /\ stamp[o] \in Nat
                BY <1>0 DEF Finite
            <4>2. /\ Cardinality({x \in visible : x > stamp[o]}) \in Nat
                  /\ Cardinality({x \in visible \cup {stamp[r]} : x > stamp[o]})
                        <= Cardinality({x \in visible : x > stamp[o]}) + 1
                  /\ Cardinality({x \in visible \cup {stamp[r], clock + 1} : x > stamp[o]})
                        <= Cardinality({x \in visible : x > stamp[o]}) + 2
                BY <4>1, CountBehind, ZenonT(30)
            <4>3. QED
                BY <4>2
        <3>3. Cardinality({x \in visible : x > stamp[o]}) <= late[o]
            BY <3>1 DEF Lateness
        <3>4. {x \in visible' : x > stamp'[o]}
                 = {x \in visible \cup {stamp[r], clock + 1} : x > stamp[o]}
            BY <2>1, <3>1
        <3>5. IsFiniteSet({x \in visible' : x > stamp'[o]})
            BY <1>0, FS_Subset DEF Finite
        <3>6. Cardinality({x \in visible' : x > stamp'[o]}) \in Nat
            BY <3>5, FS_CardinalityType
        <3>7. Cardinality({x \in visible' : x > stamp'[o]})
                 <= Cardinality({x \in visible : x > stamp[o]}) + 2
            BY <2>1, <3>1, <3>2
        <3>8. QED
            BY <1>0, <3>1, <3>2, <3>3, <3>6, <3>7
    <2>6. ASSUME NEW o \in Requests PROVE late'[o] <= Overlap
        <3>1. late[o] <= Overlap
            BY DEF Lateness
        <3>2. late'[o] \in {0, late[o]} \/ (late'[o] = late[o] + 2 /\ late[o] + 2 <= Overlap)
            BY <2>3
        <3>3. QED
            BY <3>1, <3>2
    <2>7. QED
        BY <2>4, <2>5, <2>6 DEF Lateness
<1>4. CASE FollowUpMessage
    <2>1. /\ clock' = clock + 1 /\ visible' = visible \cup {clock + 1}
          /\ pc' = pc /\ stamp' = stamp
          /\ \A o \in Requests : pc[o] = "inserted" =>
                late'[o] = late[o] + 1 /\ late[o] + 1 <= Overlap
          /\ \A o \in Requests : pc[o] # "inserted" => late'[o] = late[o]
        BY <1>4 DEF FollowUpMessage
    <2>2. Stamps'
        BY <1>0, <2>1 DEF Stamps
    <2>3. ASSUME NEW o \in Requests, pc[o] = "inserted"
          PROVE  Cardinality({x \in visible' : x > stamp'[o]}) <= late'[o]
        <3>1. /\ Cardinality({x \in visible : x > stamp[o]}) \in Nat
              /\ Cardinality({x \in visible \cup {clock + 1} : x > stamp[o]})
                    <= Cardinality({x \in visible : x > stamp[o]}) + 1
            <4>1. /\ visible \in SUBSET Nat /\ IsFiniteSet(visible)
                  /\ clock + 1 \in Nat /\ stamp[o] \in Nat
                BY <1>0 DEF Finite
            <4>2. /\ Cardinality({x \in visible : x > stamp[o]}) \in Nat
                  /\ Cardinality({x \in visible \cup {clock + 1} : x > stamp[o]})
                        <= Cardinality({x \in visible : x > stamp[o]}) + 1
                  /\ Cardinality({x \in visible \cup {clock + 1, clock + 1} : x > stamp[o]})
                        <= Cardinality({x \in visible : x > stamp[o]}) + 2
                BY <4>1, CountBehind, ZenonT(30)
            <4>3. QED
                BY <4>2
        <3>2. Cardinality({x \in visible : x > stamp[o]}) <= late[o] /\ late'[o] = late[o] + 1
            BY <2>1, <2>3 DEF Lateness
        <3>3. IsFiniteSet({x \in visible' : x > stamp'[o]})
            BY <1>0, FS_Subset DEF Finite
        <3>4. Cardinality({x \in visible' : x > stamp'[o]}) \in Nat
            BY <3>3, FS_CardinalityType
        <3>5. Cardinality({x \in visible' : x > stamp'[o]})
                 <= Cardinality({x \in visible : x > stamp[o]}) + 1
            BY <2>1, <3>1
        <3>6. QED
            BY <1>0, <3>1, <3>2, <3>4, <3>5
    <2>4. ASSUME NEW o \in Requests PROVE late'[o] <= Overlap
        <3>1. late[o] <= Overlap
            BY DEF Lateness
        <3>2. late'[o] = late[o] \/ (late'[o] = late[o] + 1 /\ late[o] + 1 <= Overlap)
            BY <2>1
        <3>3. QED
            BY <3>1, <3>2
    <2>5. QED
        BY <2>1, <2>2, <2>3, <2>4 DEF Lateness
<1>5. CASE CreateSession
    <2>1. \A o \in Requests : pc[o] = "idle"
        BY <1>5 DEF CreateSession, Unborn
    <2>2. PICK n \in {1, 2} : clock' = clock + n /\ visible' = (clock + 1) .. (clock + n)
        BY <1>5 DEF CreateSession
    <2>3. pc' = pc /\ late' = late
        BY <1>5 DEF CreateSession, requestVars
    <2>4. \A m \in visible' : m <= clock'
        BY <1>0, <2>2
    <2>5. QED
        BY <2>1, <2>3, <2>4 DEF Stamps, Lateness
<1>6. QED
    BY <1>1, <1>2, <1>3, <1>4, <1>5, StillSteps

-----------------------------------------------------------------------------
(***************************************************************************)
(* Prefixes.                                                               *)
(***************************************************************************)

(* Where fewer than Keep messages are behind each message of N, a settled  *)
(* prefix of V is a settled prefix of V with N.                            *)
LEMMA GrowthStable ==
    ASSUME NEW V \in SUBSET Nat, IsFiniteSet(V),
           NEW N \in SUBSET Nat, IsFiniteSet(N),
           \A s \in N : s \notin V /\ Cardinality({x \in V : x > s}) <= Overlap,
           NEW w \in Nat, Settled(w, V)
    PROVE  Settled(w, V \cup N) /\ First(w, V \cup N) = First(w, V)
<1>1. IsFiniteSet(V \cup N) /\ Cardinality(V \cup N) \in Nat /\ Cardinality(V) \in Nat
    BY FS_Union, FS_CardinalityType
<1>2. Cardinality(V) <= Cardinality(V \cup N)
    <2>1. V \in SUBSET (V \cup N)
        OBVIOUS
    <2>2. QED
        BY <1>1, <2>1, FS_Subset, Zenon
<1>3. Settled(w, V \cup N)
    BY <1>1, <1>2, SummaryAssumption DEF Settled
<1>4. ASSUME NEW s \in N
      PROVE  s \notin V /\ Cardinality({x \in V : x < s}) >= w
    <2>1. s \in Nat /\ s \notin V /\ Cardinality({x \in V : x > s}) <= Overlap
        BY <1>4
    <2>2. /\ Cardinality({x \in V : x < s}) \in Nat
          /\ Cardinality({x \in V : x > s}) \in Nat
          /\ Cardinality(V) = Cardinality({x \in V : x < s})
                                + Cardinality({x \in V : x > s})
        BY <2>1, BeforeAfter, Zenon
    <2>3. QED
        BY <1>1, <2>1, <2>2, SummaryAssumption, OverlapAssumption DEF Settled
<1>5. First(w, V \cup N) = First(w, V)
    BY <1>4, FirstStable
<1>6. QED
    BY <1>3, <1>5

(* No step but the deletion of the session disturbs a settled prefix. *)
LEMMA NextGrowth ==
    ASSUME TypeOK, Finite, Stamps, Lateness, Unborn, [Next]_vars, life' # "deleted",
           NEW w \in Nat, Settled(w, visible)
    PROVE  Settled(w, visible') /\ First(w, visible') = First(w, visible)
<1>0. /\ visible \in SUBSET Nat /\ IsFiniteSet(visible) /\ clock \in Nat
      /\ \A o \in Requests : stamp[o] \in Nat /\ late[o] \in Nat
    BY DEF TypeOK, Finite
<1>1. CASE visible' = visible
    BY <1>1
<1>2. ASSUME NEW r \in Requests, CommitTurn(r)
      PROVE  Settled(w, visible') /\ First(w, visible') = First(w, visible)
    <2> DEFINE N == {stamp[r], clock + 1}
    <2>1. visible' = visible \cup N /\ pc[r] = "inserted"
        BY <1>2 DEF CommitTurn
    <2>2. N \in SUBSET Nat /\ IsFiniteSet(N)
        <3>1. IsFiniteSet({stamp[r]} \cup {clock + 1})
            BY FS_Singleton, FS_AddElement
        <3>2. N = {stamp[r]} \cup {clock + 1}
            OBVIOUS
        <3>3. IsFiniteSet(N)
            BY <3>1, <3>2, Zenon
        <3>4. stamp[r] \in Nat /\ clock + 1 \in Nat
            BY <1>0
        <3>5. QED
            BY <3>3, <3>4
    <2>3. stamp[r] \notin visible /\ clock + 1 \notin visible
        BY <1>0, <2>1 DEF Stamps
    <2>4. Cardinality({x \in visible : x > clock + 1}) = 0
        BY <1>0, NothingBehind
    <2>5. Cardinality({x \in visible : x > stamp[r]}) <= late[r] /\ late[r] <= Overlap
        BY <2>1 DEF Lateness
    <2>6. Cardinality({x \in visible : x > stamp[r]}) \in Nat
        BY <1>0, FS_Subset, FS_CardinalityType
    <2>7. Cardinality({x \in visible : x > stamp[r]}) <= Overlap
        BY <1>0, <2>5, <2>6, SummaryAssumption
    <2>8. \A s \in N : s \notin visible /\ Cardinality({x \in visible : x > s}) <= Overlap
        BY <2>3, <2>4, <2>7, SummaryAssumption
    <2>9. QED
        BY <1>0, <2>1, <2>2, <2>8, GrowthStable
<1>3. CASE FollowUpMessage
    <2> DEFINE N == {clock + 1}
    <2>1. visible' = visible \cup N
        BY <1>3 DEF FollowUpMessage
    <2>2. N \in SUBSET Nat /\ IsFiniteSet(N)
        <3>1. IsFiniteSet(N)
            BY FS_Singleton, Zenon
        <3>2. clock + 1 \in Nat
            BY <1>0
        <3>3. QED
            BY <3>1, <3>2
    <2>3. clock + 1 \notin visible
        BY <1>0 DEF Stamps
    <2>4. Cardinality({x \in visible : x > clock + 1}) = 0
        BY <1>0, NothingBehind
    <2>5. \A s \in N : s \notin visible /\ Cardinality({x \in visible : x > s}) <= Overlap
        BY <2>3, <2>4, SummaryAssumption
    <2>6. QED
        BY <1>0, <2>1, <2>2, <2>5, GrowthStable
<1>4. CASE CreateSession
    <2>1. PICK n \in {1, 2} : clock' = clock + n /\ visible' = (clock + 1) .. (clock + n)
        BY <1>4 DEF CreateSession
    <2> DEFINE N == (clock + 1) .. (clock + n)
    <2>2. visible = {}
        BY <1>4 DEF CreateSession, Unborn
    <2>3. visible' = visible \cup N
        BY <2>1, <2>2
    <2>4. N \in SUBSET Nat /\ IsFiniteSet(N)
        BY <1>0, FS_Interval
    <2>5. \A s \in N : s \notin visible /\ Cardinality({x \in visible : x > s}) <= Overlap
        BY <2>2, FS_EmptySet, SummaryAssumption
    <2>6. QED
        BY <1>0, <2>3, <2>4, <2>5, GrowthStable
<1>5. QED
    <2>1. CASE Still
        BY <1>1, <2>1 DEF Still
    <2>2. ASSUME NEW r \in Requests, InsertUserMessage(r) PROVE visible' = visible
        BY <2>2 DEF InsertUserMessage
    <2>3. QED
        BY <1>1, <1>2, <1>3, <1>4, <2>1, <2>2, StillSteps

-----------------------------------------------------------------------------
(***************************************************************************)
(* Where each piece of state comes from.                                   *)
(***************************************************************************)
RowSource ==
    \/ row' = row
    \/ \E r \in Requests : row' = Refreshed(hist[r])
    \/ \E w \in Workers : running[w] # NoTask /\ row' = running[w].refreshed

SnapSource ==
    \A r \in Requests :
        \/ snap'[r] = snap[r] \/ snap'[r] = row \/ snap'[r] = NoSummary
        \/ snap'[r] = Refreshed(hist[r])

HistSource ==
    \A r \in Requests :
        \/ hist'[r] = hist[r] \/ hist'[r] = {}
        \/ hist'[r] = visible /\ visible' = visible

RunningSource ==
    \A w \in Workers :
        \/ running'[w] = running[w] \/ running'[w] = NoTask
        \/ queue # <<>> /\ running'[w] = Head(queue)

QueueSource ==
    \/ queue' \in {queue, <<>>}
    \/ queue # <<>> /\ queue' = Tail(queue)
    \/ \E r \in Requests : /\ queue' = Append(queue, Task(hist[r], snap[r]))
                           /\ NeedsRefresh(hist[r], snap[r])
                           /\ snap[r].summary # {}

LEMMA RowFrom == TypeOK /\ [Next]_vars /\ life' # "deleted" => RowSource
<1> SUFFICES ASSUME TypeOK, [Next]_vars, life' # "deleted" PROVE RowSource
    OBVIOUS
<1> USE DEF poolVars, requestVars
<1>1. ASSUME NEW r \in Requests, Turn(r), ~SyncPersist(r) PROVE row' = row
    BY <1>1 DEF Turn, LoadSession, ReadHistory, BuildFull, BuildCached,
       BuildAsync, SyncConflict, ResolveConflict, TurnFails,
       InsertUserMessage, CommitTurn, RollBackTurn
<1>2. ASSUME NEW r \in Requests, SyncPersist(r) PROVE row' = Refreshed(hist[r])
    BY <1>2 DEF SyncPersist
<1>3. ASSUME NEW w \in Workers, Pool(w)
      PROVE  row' = row \/ (running[w] # NoTask /\ row' = running[w].refreshed)
    BY <1>3 DEF Pool, TaskStart, TaskEnd, TaskFails
<1>4. QED
    BY <1>1, <1>2, <1>3 DEF RowSource, Next, vars, CreateSession,
       FollowUpMessage, DeleteSession, Restart

LEMMA SnapFrom == TypeOK /\ [Next]_vars => SnapSource
<1> SUFFICES ASSUME TypeOK, [Next]_vars, NEW o \in Requests
             PROVE  \/ snap'[o] = snap[o] \/ snap'[o] = row \/ snap'[o] = NoSummary
                    \/ snap'[o] = Refreshed(hist[o])
    BY DEF SnapSource
<1> USE DEF TypeOK, poolVars, requestVars
<1>1. ASSUME NEW r \in Requests, LoadSession(r) PROVE snap'[o] \in {snap[o], row}
    BY <1>1 DEF LoadSession
<1>2. ASSUME NEW r \in Requests, SyncPersist(r)
      PROVE  snap'[o] \in {snap[o], Refreshed(hist[o])}
    BY <1>2 DEF SyncPersist
<1>3. ASSUME NEW r \in Requests, Finish(r) PROVE snap'[o] \in {snap[o], NoSummary}
    BY <1>3 DEF Finish
<1>4. ASSUME NEW r \in Requests, Turn(r), ~LoadSession(r), ~SyncPersist(r), ~Finish(r)
      PROVE  snap' = snap
    BY <1>4 DEF Turn, ReadHistory, BuildFull, BuildCached, BuildAsync,
       SyncConflict, ResolveConflict, TurnFails, InsertUserMessage, CommitTurn,
       RollBackTurn
<1>5. ASSUME NEW w \in Workers, Pool(w) PROVE snap' = snap
    BY <1>5 DEF Pool, TaskStart, TaskEnd, TaskFails
<1>6. CASE Restart
    BY <1>6 DEF Restart
<1>7. QED
    BY <1>1, <1>2, <1>3, <1>4, <1>5, <1>6 DEF Next, vars, CreateSession,
       FollowUpMessage, DeleteSession

LEMMA HistFrom == TypeOK /\ [Next]_vars => HistSource
<1> SUFFICES ASSUME TypeOK, [Next]_vars, NEW o \in Requests
             PROVE  \/ hist'[o] = hist[o] \/ hist'[o] = {}
                    \/ hist'[o] = visible /\ visible' = visible
    BY DEF HistSource
<1> USE DEF TypeOK, poolVars, requestVars
<1>1. ASSUME NEW r \in Requests, ReadHistory(r)
      PROVE  hist'[o] \in {hist[o], visible} /\ visible' = visible
    BY <1>1 DEF ReadHistory
<1>2. ASSUME NEW r \in Requests, Finish(r) PROVE hist'[o] = hist[o] \/ hist'[o] = {}
    BY <1>2 DEF Finish
<1>3. ASSUME NEW r \in Requests, Turn(r), ~ReadHistory(r), ~Finish(r)
      PROVE  hist' = hist
    BY <1>3 DEF Turn, LoadSession, BuildFull, BuildCached, BuildAsync,
       SyncPersist, SyncConflict, ResolveConflict, TurnFails, InsertUserMessage,
       CommitTurn, RollBackTurn
<1>4. ASSUME NEW w \in Workers, Pool(w) PROVE hist' = hist
    BY <1>4 DEF Pool, TaskStart, TaskEnd, TaskFails
<1>5. CASE Restart
    BY <1>5 DEF Restart
<1>6. QED
    BY <1>1, <1>2, <1>3, <1>4, <1>5 DEF Next, vars, CreateSession,
       FollowUpMessage, DeleteSession

LEMMA RunningFrom == TypeOK /\ [Next]_vars => RunningSource
<1> SUFFICES ASSUME TypeOK, [Next]_vars, NEW v \in Workers
             PROVE  \/ running'[v] = running[v] \/ running'[v] = NoTask
                    \/ queue # <<>> /\ running'[v] = Head(queue)
    BY DEF RunningSource
<1> USE DEF TypeOK, poolVars, requestVars
<1>1. ASSUME NEW r \in Requests, Turn(r) PROVE running' = running
    BY <1>1 DEF Turn, LoadSession, ReadHistory, BuildFull, BuildCached,
       BuildAsync, SyncPersist, SyncConflict, ResolveConflict, TurnFails,
       InsertUserMessage, CommitTurn, RollBackTurn
<1>2. ASSUME NEW w \in Workers, TaskStart(w)
      PROVE  running'[v] = running[v] \/ (queue # <<>> /\ running'[v] = Head(queue))
    BY <1>2 DEF TaskStart
<1>3. ASSUME NEW w \in Workers, TaskEnd(w) \/ TaskFails(w)
      PROVE  running'[v] = running[v] \/ running'[v] = NoTask
    BY <1>3 DEF TaskEnd, TaskFails
<1>4. CASE Restart
    BY <1>4 DEF Restart
<1>5. QED
    BY <1>1, <1>2, <1>3, <1>4 DEF Next, vars, Pool, CreateSession,
       FollowUpMessage, DeleteSession

LEMMA QueueFrom == TypeOK /\ [Next]_vars => QueueSource
<1> SUFFICES ASSUME TypeOK, [Next]_vars PROVE QueueSource
    OBVIOUS
<1> USE DEF poolVars, requestVars
<1>1. ASSUME NEW r \in Requests, BuildAsync(r) PROVE QueueSource
    BY <1>1 DEF BuildAsync, QueueSource
<1>2. ASSUME NEW r \in Requests, Turn(r), ~BuildAsync(r) PROVE queue' = queue
    BY <1>2 DEF Turn, LoadSession, ReadHistory, BuildFull, BuildCached,
       SyncPersist, SyncConflict, ResolveConflict, TurnFails,
       InsertUserMessage, CommitTurn, RollBackTurn
<1>3. ASSUME NEW w \in Workers, Pool(w)
      PROVE  queue' = queue \/ (queue # <<>> /\ queue' = Tail(queue))
    BY <1>3 DEF Pool, TaskStart, TaskEnd, TaskFails
<1>4. QED
    BY <1>1, <1>2, <1>3 DEF QueueSource, Next, vars, CreateSession,
       FollowUpMessage, DeleteSession, Restart

(* What holds of the queue's tasks and of a new one holds of the queue.    *)
LEMMA QueueSources ==
    ASSUME NEW P, NEW q \in Seq(TaskRecords), NEW q2, NEW t \in TaskRecords,
           \A i \in DOMAIN q : q[i] \in P,
           \/ q2 \in {q, <<>>}
           \/ q # <<>> /\ q2 = Tail(q)
           \/ q2 = Append(q, t) /\ t \in P
    PROVE  \A i \in DOMAIN q2 : q2[i] \in P
<1>1. CASE q2 = q
    BY <1>1
<1>2. CASE q2 = <<>>
    BY <1>2
<1>3. CASE q # <<>> /\ q2 = Tail(q)
    <2>1. /\ Len(q2) = Len(q) - 1
          /\ \A i \in 1 .. Len(q2) : q2[i] = q[i + 1]
          /\ q2 \in Seq(TaskRecords)
        BY <1>3
    <2>2. QED
        BY <2>1
<1>4. CASE q2 = Append(q, t) /\ t \in P
    <2>1. /\ Len(q2) = Len(q) + 1
          /\ \A i \in 1 .. Len(q) : q2[i] = q[i]
          /\ q2[Len(q) + 1] = t
          /\ q2 \in Seq(TaskRecords)
        BY <1>4
    <2>2. QED
        BY <1>4, <2>1
<1>5. QED
    BY <1>1, <1>2, <1>3, <1>4

-----------------------------------------------------------------------------
(***************************************************************************)
(* Coverage.                                                               *)
(***************************************************************************)

LEMMA NothingCovered ==
    ASSUME NEW V \in SUBSET Nat, IsFiniteSet(V)
    PROVE  Covers(NoSummary, V) /\ OldIsPrefix({}, V)
<1>1. First(0, V) = {} /\ First(0, {}) = {}
    BY FirstZero, FS_EmptySet
<1>2. OldCount({}) = 0
    BY FS_EmptySet, SummaryAssumption DEF OldCount, HistoryLen
<1>3. \A k \in 0 .. OldCount({}) : k = 0
    BY <1>2
<1>4. QED
    BY <1>1, <1>2, <1>3 DEF Covers, NoSummary, OldIsPrefix, Settled

(* A refresh over a history whose old messages are a prefix covers one.    *)
LEMMA RefreshedCovers ==
    ASSUME NEW V \in SUBSET Nat, NEW h \in SUBSET Nat, IsFiniteSet(h), OldIsPrefix(h, V)
    PROVE  Covers(Refreshed(h), V)
<1>1. OldCount(h) \in Nat
    BY HistoryTypes
<1>2. OldCount(h) \in 0 .. OldCount(h)
    BY <1>1
<1>3. QED
    BY <1>2 DEF OldIsPrefix, Covers, Refreshed, OldMessages

(* The history a request reads is the session. *)
LEMMA ReadIsPrefix ==
    ASSUME NEW V \in SUBSET Nat, IsFiniteSet(V)
    PROVE  OldIsPrefix(V, V)
<1>1. Cardinality(V) \in Nat
    BY FS_CardinalityType
<1>2. Settled(OldCount(V), V)
    BY <1>1, SummaryAssumption DEF Settled, OldCount, HistoryLen
<1>3. QED
    BY <1>2 DEF OldIsPrefix

LEMMA NextCoverage ==
    ASSUME TypeOK, Finite, Stamps, Lateness, Unborn, Coverage, [Next]_vars
    PROVE  Coverage'
<1>0. SUFFICES ASSUME life' # "deleted"
      PROVE  /\ Covers(row', visible')
             /\ \A r \in Requests : /\ Covers(snap'[r], visible')
                                    /\ OldIsPrefix(hist'[r], visible')
             /\ \A w \in Workers : running'[w] # NoTask =>
                                      Covers(running'[w].refreshed, visible')
             /\ \A i \in DOMAIN queue' : Covers(queue'[i].refreshed, visible')
    BY DEF Coverage
<1>1. life # "deleted"
    <2>1. ASSUME NEW r \in Requests, Turn(r) PROVE life' = life
        BY <2>1 DEF Turn, LoadSession, ReadHistory, BuildFull, BuildCached,
           BuildAsync, SyncPersist, SyncConflict, ResolveConflict, TurnFails,
           InsertUserMessage, CommitTurn, RollBackTurn
    <2>2. ASSUME NEW w \in Workers, Pool(w) PROVE life' = life
        BY <2>2 DEF Pool, TaskStart, TaskEnd, TaskFails
    <2>3. QED
        BY <1>0, <2>1, <2>2 DEF Next, vars, CreateSession, FollowUpMessage,
           DeleteSession, Restart
<1>2. /\ TypeOK' /\ Finite'
      /\ visible \in SUBSET Nat /\ IsFiniteSet(visible)
      /\ visible' \in SUBSET Nat /\ IsFiniteSet(visible')
      /\ \A r \in Requests : hist[r] \in SUBSET Nat /\ IsFiniteSet(hist[r])
    BY NextTypes DEF TypeOK, Finite
<1>3. \A w \in Nat : Settled(w, visible) =>
          Settled(w, visible') /\ First(w, visible') = First(w, visible)
    BY <1>0, NextGrowth
<1>4. ASSUME NEW s \in Summaries, Covers(s, visible) PROVE Covers(s, visible')
    <2>1. s.watermark \in Nat
        BY DEF Summaries
    <2>2. QED
        BY <1>3, <1>4, <2>1 DEF Covers
<1>5. ASSUME NEW r \in Requests PROVE OldIsPrefix(hist[r], visible')
    <2>1. OldCount(hist[r]) \in Nat /\ OldIsPrefix(hist[r], visible)
        BY <1>1, <1>2, HistoryTypes DEF Coverage
    <2>2. ASSUME NEW k \in 0 .. OldCount(hist[r])
          PROVE  First(k, hist[r]) = First(k, visible')
        <3>1. Settled(k, visible) /\ k \in Nat
            <4>1. Cardinality(visible) \in Nat
                BY <1>2, FS_CardinalityType
            <4>2. QED
                BY <2>1, <4>1, SummaryAssumption DEF OldIsPrefix, Settled
        <3>2. First(k, visible') = First(k, visible)
            BY <1>3, <3>1
        <3>3. First(k, hist[r]) = First(k, visible)
            BY <2>1 DEF OldIsPrefix
        <3>4. QED
            BY <3>2, <3>3, Zenon
    <2>3. Settled(OldCount(hist[r]), visible')
        BY <1>3, <2>1 DEF OldIsPrefix
    <2>4. QED
        BY <2>2, <2>3 DEF OldIsPrefix
<1>6. /\ row \in Summaries /\ Covers(row, visible)
      /\ \A r \in Requests : /\ snap[r] \in Summaries /\ Covers(snap[r], visible)
                             /\ Refreshed(hist[r]) \in Summaries
      /\ \A w \in Workers : running[w] # NoTask =>
                               /\ running[w].refreshed \in Summaries
                               /\ Covers(running[w].refreshed, visible)
      /\ \A i \in DOMAIN queue : /\ queue[i] \in TaskRecords
                                 /\ queue[i].refreshed \in Summaries
                                 /\ Covers(queue[i].refreshed, visible)
    <2>1. \A r \in Requests : Refreshed(hist[r]) \in Summaries
        BY <1>2, HistoryTypes
    <2>2. \A i \in DOMAIN queue : queue[i] \in TaskRecords
        BY DEF TypeOK
    <2>3. \A t \in TaskRecords : t.refreshed \in Summaries
        BY DEF TaskRecords
    <2>4. \A w \in Workers : running[w] # NoTask => running[w] \in TaskRecords
        BY DEF TypeOK
    <2>5. row \in Summaries /\ \A r \in Requests : snap[r] \in Summaries
        BY DEF TypeOK
    <2>6. QED
        BY <1>1, <2>1, <2>2, <2>3, <2>4, <2>5 DEF Coverage
<1>7. \A r \in Requests : Covers(Refreshed(hist[r]), visible')
    BY <1>2, <1>5, RefreshedCovers
<1>8. Covers(NoSummary, visible') /\ OldIsPrefix({}, visible')
    BY <1>2, NothingCovered
<1>9. Covers(row, visible')
    BY <1>4, <1>6
<1>10. \A w \in Workers : running[w] # NoTask => Covers(running[w].refreshed, visible')
    BY <1>4, <1>6
<1>11. \A i \in DOMAIN queue : Covers(queue[i].refreshed, visible')
    BY <1>4, <1>6
<1>12. Covers(row', visible')
    BY <1>0, <1>7, <1>9, <1>10, RowFrom, Zenon DEF RowSource
<1>13. ASSUME NEW r \in Requests PROVE Covers(snap'[r], visible')
    <2>1. Covers(snap[r], visible')
        BY <1>4, <1>6
    <2>2. \/ snap'[r] = snap[r] \/ snap'[r] = row \/ snap'[r] = NoSummary
          \/ snap'[r] = Refreshed(hist[r])
        BY SnapFrom DEF SnapSource
    <2>3. QED
        BY <1>7, <1>8, <1>9, <2>1, <2>2, Zenon
<1>14. ASSUME NEW r \in Requests PROVE OldIsPrefix(hist'[r], visible')
    <2>1. OldIsPrefix(visible', visible')
        BY <1>2, ReadIsPrefix
    <2>2. \/ hist'[r] = hist[r] \/ hist'[r] = {}
          \/ hist'[r] = visible /\ visible' = visible
        BY HistFrom DEF HistSource
    <2>3. QED
        BY <1>5, <1>8, <2>1, <2>2, Zenon
<1>15. ASSUME NEW w \in Workers, running'[w] # NoTask
       PROVE  Covers(running'[w].refreshed, visible')
    <2>1. \/ running'[w] = running[w] \/ running'[w] = NoTask
          \/ queue # <<>> /\ running'[w] = Head(queue)
        BY RunningFrom DEF RunningSource
    <2>2. ASSUME queue # <<>> PROVE Covers(Head(queue).refreshed, visible')
        <3>1. 1 \in DOMAIN queue /\ Head(queue) = queue[1]
            BY <2>2 DEF TypeOK
        <3>2. QED
            BY <1>11, <3>1
    <2>3. QED
        BY <1>10, <1>15, <2>1, <2>2, Zenon
<1>16. \A i \in DOMAIN queue' : Covers(queue'[i].refreshed, visible')
    <2> DEFINE P == {t \in TaskRecords : Covers(t.refreshed, visible')}
    <2>1. \A i \in DOMAIN queue : queue[i] \in P
        BY <1>6, <1>11
    <2>2. ASSUME NEW r \in Requests PROVE Task(hist[r], snap[r]) \in P
        <3>1. Task(hist[r], snap[r]) \in TaskRecords
            BY <1>2, <1>6, HistoryTypes
        <3>2. Task(hist[r], snap[r]).refreshed = Refreshed(hist[r])
            BY DEF Task
        <3>3. QED
            BY <1>7, <3>1, <3>2
    <2>3. queue \in Seq(TaskRecords)
        BY DEF TypeOK
    <2>4. \A i \in DOMAIN queue' : queue'[i] \in P
        <3>1. CASE queue' \in {queue, <<>>} \/ (queue # <<>> /\ queue' = Tail(queue))
            <4> HIDE DEF P
            <4>1. CASE queue' = queue
                BY <2>1, <4>1
            <4>2. CASE queue' = <<>>
                BY <4>2
            <4>3. CASE queue # <<>> /\ queue' = Tail(queue)
                BY <2>1, <2>3, <4>3
            <4>4. QED
                BY <3>1, <4>1, <4>2, <4>3
        <3>2. ASSUME NEW r \in Requests, queue' = Append(queue, Task(hist[r], snap[r]))
              PROVE  \A i \in DOMAIN queue' : queue'[i] \in P
            <4> HIDE DEF P
            <4>1. Task(hist[r], snap[r]) \in P /\ Task(hist[r], snap[r]) \in TaskRecords
                BY <2>2 DEF P
            <4>2. QED
                BY <2>1, <2>3, <3>2, <4>1, QueueSources
        <3>3. QED
            BY <3>1, <3>2, QueueFrom DEF QueueSource
    <2>5. QED
        BY <2>4
<1>17. QED
    BY <1>12, <1>13, <1>14, <1>15, <1>16

-----------------------------------------------------------------------------
(***************************************************************************)
(* Prompts.                                                                *)
(***************************************************************************)

(* A summary and a history that come from one session fit together. *)
LEMMA PrefixFits ==
    ASSUME NEW V \in SUBSET Nat, IsFiniteSet(V),
           NEW h \in SUBSET Nat, IsFiniteSet(h), OldIsPrefix(h, V),
           NEW s \in Summaries, Covers(s, V)
    PROVE  Fits(h, s)
<1>1. s.watermark \in Nat /\ OldCount(h) \in Nat
    BY HistoryTypes DEF Summaries
<1>2. CASE s.watermark < OldCount(h)
    <2>1. s.watermark \in 0 .. OldCount(h)
        BY <1>1, <1>2
    <2>2. First(s.watermark, h) = First(s.watermark, V)
        BY <2>1 DEF OldIsPrefix
    <2>3. QED
        BY <1>2, <2>2 DEF Fits, Covers
<1>3. CASE ~(s.watermark < OldCount(h))
    <2>1. OldCount(h) \in 0 .. OldCount(h) /\ OldCount(h) <= s.watermark
        BY <1>1, <1>3
    <2>2. First(OldCount(h), h) = First(OldCount(h), V)
        BY <2>1 DEF OldIsPrefix
    <2>3. First(OldCount(h), V) \subseteq First(s.watermark, V)
        BY <1>1, <2>1, FirstMonotone
    <2>4. QED
        BY <1>3, <2>2, <2>3 DEF Fits, Covers, OldMessages
<1>4. QED
    BY <1>2, <1>3

(* A request's own refresh fits its history. *)
LEMMA RefreshedFits ==
    ASSUME NEW h \in SUBSET Nat, IsFiniteSet(h)
    PROVE  Fits(h, Refreshed(h))
<1>1. OldCount(h) \in Nat
    BY HistoryTypes
<1>2. QED
    BY <1>1 DEF Fits, Refreshed

(* A prompt built from parts that fit is complete and repeats no old one.  *)
PromptGood(h, p) ==
    /\ h \subseteq p.summarised \cup p.verbatim
    /\ p.summarised \cap p.verbatim \cap OldMessages(h) = {}

LEMMA FitsGood ==
    ASSUME NEW h, NEW s, Fits(h, s)
    PROVE  PromptGood(h, Prompt(h, s))
<1>1. CASE s.watermark < OldCount(h)
    BY <1>1 DEF Fits, Prompt, Skipped, PromptGood
<1>2. CASE ~(s.watermark < OldCount(h))
    BY <1>2 DEF Fits, Prompt, Skipped, PromptGood, OldMessages
<1>3. QED
    BY <1>1, <1>2

LEMMA NextGone ==
    ASSUME TypeOK, Gone, [Next]_vars
    PROVE  Gone'
<1> USE DEF Gone, poolVars, requestVars
<1>1. ASSUME NEW r \in Requests, Turn(r)
      PROVE  life' = life /\ (visible' = visible \/ life = "live")
    BY <1>1 DEF Turn, LoadSession, ReadHistory, BuildFull, BuildCached,
       BuildAsync, SyncPersist, SyncConflict, ResolveConflict, TurnFails,
       InsertUserMessage, CommitTurn, RollBackTurn
<1>2. ASSUME NEW w \in Workers, Pool(w) PROVE life' = life /\ visible' = visible
    BY <1>2 DEF Pool, TaskStart, TaskEnd, TaskFails
<1>3. QED
    BY <1>1, <1>2 DEF Next, vars, CreateSession, FollowUpMessage,
       DeleteSession, Restart

(* What a request builds from fits, from the read of the history on. *)
LEMMA NextFitting ==
    ASSUME TypeOK, Finite, Coverage, Gone, Fitting, [Next]_vars
    PROVE  Fitting'
<1> USE DEF Fitting, TypeOK, poolVars, requestVars
<1>1. ASSUME NEW r \in Requests, ReadHistory(r) PROVE Fitting'
    <2>1. /\ pc' = [pc EXCEPT ![r] = "building"]
          /\ hist' = [hist EXCEPT ![r] = visible] /\ snap' = snap
        BY <1>1 DEF ReadHistory
    <2>2. Fits(visible, snap[r])
        <3>1. CASE life = "deleted"
            <4>1. visible = {} /\ OldCount({}) = 0 /\ First(0, {}) = {}
                <5>1. visible = {}
                    BY <3>1 DEF Gone
                <5>2. OldCount({}) = 0
                    BY FS_EmptySet, SummaryAssumption DEF OldCount, HistoryLen
                <5>3. First(0, {}) = {}
                    BY DEF First
                <5>4. QED
                    BY <5>1, <5>2, <5>3
            <4>2. snap[r].watermark \in Nat
                BY DEF Summaries
            <4>3. QED
                BY <4>1, <4>2 DEF Fits, OldMessages
        <3>2. CASE life # "deleted"
            <4>1. OldIsPrefix(visible, visible)
                BY ReadIsPrefix DEF Finite
            <4>2. Covers(snap[r], visible)
                BY <3>2 DEF Coverage
            <4>3. visible \in SUBSET Nat /\ IsFiniteSet(visible) /\ snap[r] \in Summaries
                BY DEF Finite
            <4>4. QED
                BY <4>1, <4>2, <4>3, PrefixFits
        <3>3. QED
            BY <3>1, <3>2
    <2>3. QED
        BY <2>1, <2>2
<1>2. ASSUME NEW r \in Requests, LoadSession(r) PROVE Fitting'
    BY <1>2 DEF LoadSession
<1>3. ASSUME NEW r \in Requests, BuildFull(r) \/ BuildCached(r) \/ BuildAsync(r)
      PROVE  Fitting'
    BY <1>3 DEF BuildFull, BuildCached, BuildAsync, Send
<1>4. ASSUME NEW r \in Requests, SyncPersist(r) PROVE Fitting'
    BY <1>4 DEF SyncPersist, Send
<1>5. ASSUME NEW r \in Requests, SyncConflict(r) \/ ResolveConflict(r) PROVE Fitting'
    BY <1>5 DEF SyncConflict, ResolveConflict, Send
<1>6. ASSUME NEW r \in Requests, TurnFails(r) \/ CommitTurn(r) \/ RollBackTurn(r)
      PROVE  Fitting'
    BY <1>6 DEF TurnFails, CommitTurn, RollBackTurn, Finish
<1>7. ASSUME NEW r \in Requests, InsertUserMessage(r) PROVE Fitting'
    BY <1>7 DEF InsertUserMessage
<1>8. ASSUME NEW w \in Workers, Pool(w) PROVE Fitting'
    BY <1>8 DEF Pool, TaskStart, TaskEnd, TaskFails
<1>9. CASE Restart
    BY <1>9 DEF Restart
<1>10. CASE CreateSession \/ FollowUpMessage \/ DeleteSession \/ UNCHANGED vars
    BY <1>10 DEF CreateSession, FollowUpMessage, DeleteSession, vars
<1>11. QED
    BY <1>1, <1>2, <1>3, <1>4, <1>5, <1>6, <1>7, <1>8, <1>9, <1>10 DEF Next, Turn

LEMMA NextTasksAdvance ==
    ASSUME TypeOK, Finite, TasksAdvance, [Next]_vars
    PROVE  TasksAdvance'
<1> DEFINE P == {t \in TaskRecords : Advances(t)}
<1>1. queue \in Seq(TaskRecords) /\ \A i \in DOMAIN queue : queue[i] \in P
    BY DEF TypeOK, TasksAdvance
<1>2. ASSUME NEW r \in Requests, NeedsRefresh(hist[r], snap[r]), snap[r].summary # {}
      PROVE  Task(hist[r], snap[r]) \in P
    <2>1. /\ Task(hist[r], snap[r]) \in TaskRecords /\ OldCount(hist[r]) \in Nat
          /\ snap[r].watermark \in Nat
        BY HistoryTypes DEF TypeOK, Finite, Summaries
    <2>2. QED
        BY <1>2, <2>1, SummaryAssumption DEF NeedsRefresh, Advances, Task, Refreshed
<1>3. \A i \in DOMAIN queue' : queue'[i] \in P
    <2> HIDE DEF P
    <2>1. CASE queue' = queue
        BY <1>1, <2>1
    <2>2. CASE queue' = <<>>
        BY <2>2
    <2>3. CASE queue # <<>> /\ queue' = Tail(queue)
        BY <1>1, <2>3
    <2>4. ASSUME NEW r \in Requests, queue' = Append(queue, Task(hist[r], snap[r])),
                 NeedsRefresh(hist[r], snap[r]), snap[r].summary # {}
          PROVE  \A i \in DOMAIN queue' : queue'[i] \in P
        <3>1. Task(hist[r], snap[r]) \in P /\ Task(hist[r], snap[r]) \in TaskRecords
            BY <1>2, <2>4 DEF P
        <3>2. QED
            BY <1>1, <2>4, <3>1, QueueSources
    <2>5. QED
        BY <2>1, <2>2, <2>3, <2>4, QueueFrom DEF QueueSource
<1>4. ASSUME NEW w \in Workers, running'[w] # NoTask PROVE Advances(running'[w])
    <2>1. \/ running'[w] = running[w] \/ running'[w] = NoTask
          \/ queue # <<>> /\ running'[w] = Head(queue)
        BY RunningFrom DEF RunningSource
    <2>2. ASSUME queue # <<>> PROVE Advances(Head(queue))
        <3>1. 1 \in DOMAIN queue /\ Head(queue) = queue[1]
            BY <1>1, <2>2
        <3>2. QED
            BY <1>1, <3>1
    <2>3. running[w] # NoTask => Advances(running[w])
        BY DEF TasksAdvance
    <2>4. QED
        BY <1>4, <2>1, <2>2, <2>3, Zenon
<1>5. QED
    BY <1>3, <1>4 DEF TasksAdvance

(* The step that sends a prompt sends a good one, and it stays what it is. *)
LEMMA NextPrompts ==
    ASSUME TypeOK, Finite, Unborn, Coverage, Fitting, PromptComplete,
           RepeatsOnlyRecent, [Next]_vars
    PROVE  PromptComplete' /\ RepeatsOnlyRecent'
<1> DEFINE Sent(o) == pc[o] \in {"replying", "inserted"}
<1> SUFFICES ASSUME NEW o \in Requests, Sent(o)' PROVE PromptGood(hist'[o], prompt'[o])
    BY DEF PromptComplete, RepeatsOnlyRecent, PromptGood
<1> USE DEF TypeOK, poolVars, requestVars
<1>0. Sent(o) => PromptGood(hist[o], prompt[o])
    BY DEF PromptComplete, RepeatsOnlyRecent, PromptGood
<1>1. ASSUME NEW r \in Requests, NEW p, Send(r, p), hist' = hist,
             o = r => PromptGood(hist[r], p)
      PROVE  PromptGood(hist'[o], prompt'[o])
    BY <1>0, <1>1 DEF Send
<1>2. ASSUME NEW r \in Requests, BuildFull(r) PROVE PromptGood(hist'[o], prompt'[o])
    <2>1. PromptGood(hist[r], FullPrompt(hist[r]))
        BY DEF PromptGood, FullPrompt
    <2>2. Send(r, FullPrompt(hist[r])) /\ hist' = hist
        BY <1>2 DEF BuildFull
    <2>3. QED
        BY <1>1, <2>1, <2>2
<1>3. ASSUME NEW r \in Requests, BuildCached(r) \/ BuildAsync(r)
      PROVE  PromptGood(hist'[o], prompt'[o])
    <2>1. /\ Send(r, Prompt(hist[r], snap[r])) /\ hist' = hist
          /\ pc[r] = "building"
        BY <1>3 DEF BuildCached, BuildAsync
    <2>2. PromptGood(hist[r], Prompt(hist[r], snap[r]))
        BY <2>1, FitsGood DEF Fitting
    <2>3. QED
        BY <1>1, <2>1, <2>2
<1>4. ASSUME NEW r \in Requests, SyncPersist(r) PROVE PromptGood(hist'[o], prompt'[o])
    <2>1. Send(r, Prompt(hist[r], Refreshed(hist[r]))) /\ hist' = hist
        BY <1>4 DEF SyncPersist
    <2>2. PromptGood(hist[r], Prompt(hist[r], Refreshed(hist[r])))
        BY RefreshedFits, FitsGood DEF Finite
    <2>3. QED
        BY <1>1, <2>1, <2>2
<1>5. ASSUME NEW r \in Requests, ResolveConflict(r) PROVE PromptGood(hist'[o], prompt'[o])
    <2> DEFINE stored == IF life = "live" THEN row ELSE NoSummary
               used == IF stored.summary # {} THEN stored ELSE Refreshed(hist[r])
    <2>1. Send(r, Prompt(hist[r], used)) /\ hist' = hist
        BY <1>5 DEF ResolveConflict
    <2>2. Fits(hist[r], used)
        <3>1. CASE life = "live" /\ row.summary # {}
            <4>1. used = row
                BY <3>1
            <4>2. /\ visible \in SUBSET Nat /\ IsFiniteSet(visible)
                  /\ hist[r] \in SUBSET Nat /\ IsFiniteSet(hist[r])
                  /\ row \in Summaries
                  /\ OldIsPrefix(hist[r], visible) /\ Covers(row, visible)
                BY <3>1 DEF Finite, Coverage
            <4>3. Fits(hist[r], row)
                BY <4>2, PrefixFits
            <4>4. QED
                BY <4>1, <4>3
        <3>2. CASE ~(life = "live" /\ row.summary # {})
            <4>1. used = Refreshed(hist[r])
                BY <3>2 DEF NoSummary
            <4>2. Fits(hist[r], Refreshed(hist[r]))
                BY RefreshedFits DEF Finite
            <4>3. QED
                BY <4>1, <4>2
        <3>3. QED
            BY <3>1, <3>2
    <2>3. PromptGood(hist[r], Prompt(hist[r], used))
        BY <2>2, FitsGood
    <2>4. QED
        <3> HIDE DEF used
        <3> QED
            BY <1>1, <2>1, <2>3
<1>6. ASSUME NEW r \in Requests,
             LoadSession(r) \/ ReadHistory(r) \/ SyncConflict(r) \/ InsertUserMessage(r)
      PROVE  PromptGood(hist'[o], prompt'[o])
    BY <1>0, <1>6 DEF LoadSession, ReadHistory, SyncConflict, InsertUserMessage
<1>7. ASSUME NEW r \in Requests, TurnFails(r) \/ CommitTurn(r) \/ RollBackTurn(r)
      PROVE  PromptGood(hist'[o], prompt'[o])
    BY <1>0, <1>7 DEF TurnFails, CommitTurn, RollBackTurn, Finish
<1>8. ASSUME NEW w \in Workers, Pool(w) PROVE PromptGood(hist'[o], prompt'[o])
    BY <1>0, <1>8 DEF Pool, TaskStart, TaskEnd, TaskFails
<1>9. CASE Restart
    BY <1>9 DEF Restart
<1>10. CASE CreateSession \/ FollowUpMessage \/ DeleteSession \/ UNCHANGED vars
    BY <1>0, <1>10 DEF CreateSession, FollowUpMessage, DeleteSession, vars
<1>11. QED
    BY <1>2, <1>3, <1>4, <1>5, <1>6, <1>7, <1>8, <1>9, <1>10 DEF Next, Turn

-----------------------------------------------------------------------------
(***************************************************************************)
(* The inductive invariant and what it gives.                              *)
(***************************************************************************)

LEMMA InitInvariant == Init => IInv
<1> SUFFICES ASSUME Init PROVE IInv
    OBVIOUS
<1>1. TypeOK /\ Finite
    BY InitTypes
<1>2. /\ visible = {} /\ life = "none" /\ row = NoSummary /\ queue = <<>>
      /\ \A r \in Requests : /\ pc[r] = "idle" /\ snap[r] = NoSummary
                             /\ hist[r] = {} /\ late[r] = 0
      /\ \A w \in Workers : running[w] = NoTask
    BY DEF Init
<1>3. Covers(NoSummary, {}) /\ OldIsPrefix({}, {})
    BY NothingCovered, FS_EmptySet
<1>4. Coverage
    <2>1. Covers(row, visible)
        BY <1>2, <1>3, Zenon
    <2>2. ASSUME NEW r \in Requests
          PROVE  Covers(snap[r], visible) /\ OldIsPrefix(hist[r], visible)
        BY <1>2, <1>3, Zenon
    <2>3. \A i \in DOMAIN queue : FALSE
        BY <1>2
    <2>4. QED
        BY <1>2, <2>1, <2>2, <2>3 DEF Coverage
<1>5. Lateness
    BY <1>2, SummaryAssumption DEF Lateness
<1>6. QED
    BY <1>1, <1>2, <1>4, <1>5 DEF IInv, Stamps, Unborn, Gone, Fitting,
       TasksAdvance, PromptComplete, RepeatsOnlyRecent

LEMMA NextInvariant == IInv /\ [Next]_vars => IInv'
<1> SUFFICES ASSUME IInv, [Next]_vars PROVE IInv'
    OBVIOUS
<1> USE DEF IInv
<1>1. TypeOK' /\ Finite'
    BY NextTypes
<1>2. Stamps' /\ Lateness'
    BY NextStamps
<1>3. Unborn' /\ Gone'
    BY NextUnborn, NextGone
<1>4. Coverage'
    BY NextCoverage
<1>5. Fitting' /\ TasksAdvance'
    BY NextFitting, NextTasksAdvance
<1>6. PromptComplete' /\ RepeatsOnlyRecent'
    BY NextPrompts
<1>7. QED
    BY <1>1, <1>2, <1>3, <1>4, <1>5, <1>6

(* A settled prefix is no longer than the session. *)
LEMMA CoverageCounts == IInv => SummaryCoversPrefix
<1> SUFFICES ASSUME IInv, life = "live"
             PROVE  /\ row.watermark <= Cardinality(visible)
                    /\ row.summary = First(row.watermark, visible)
    BY DEF SummaryCoversPrefix
<1>1. Covers(row, visible) /\ Cardinality(visible) \in Nat /\ row.watermark \in Nat
    BY FS_CardinalityType DEF IInv, Coverage, TypeOK, Finite, Summaries
<1>2. QED
    BY <1>1, SummaryAssumption DEF Covers, Settled

(* The stored summary always covers exactly the first messages of the      *)
(* session that its watermark counts, however turns, refreshes, late       *)
(* commits and restarts interleave.                                        *)
THEOREM SummaryIsPrefix == Spec => []SummaryCoversPrefix
<1>1. Spec => []IInv
    BY InitInvariant, NextInvariant, PTL DEF Spec
<1>2. QED
    BY <1>1, CoverageCounts, PTL

(* No prompt drops a message of the history it was built from. *)
THEOREM PromptsComplete == Spec => []PromptComplete
<1>1. Spec => []IInv
    BY InitInvariant, NextInvariant, PTL DEF Spec
<1>2. IInv => PromptComplete
    BY DEF IInv
<1>3. QED
    BY <1>1, <1>2, PTL

(* No prompt says an old message twice. *)
THEOREM PromptsRepeatOnlyRecent == Spec => []RepeatsOnlyRecent
<1>1. Spec => []IInv
    BY InitInvariant, NextInvariant, PTL DEF Spec
<1>2. IInv => RepeatsOnlyRecent
    BY DEF IInv
<1>3. QED
    BY <1>1, <1>2, PTL

(* Whoever writes the summary of a live session moves it on by at least    *)
(* Refresh messages, or writes the first one.                              *)
THEOREM RefreshesAdvance == Spec => RefreshAdvances
<1> DEFINE A == row' # row /\ life' = "live" =>
                   \/ row.summary = {}
                   \/ row'.watermark >= row.watermark + Refresh
<1>1. Spec => []IInv
    BY InitInvariant, NextInvariant, PTL DEF Spec
<1>2. IInv /\ [Next]_vars => [A]_vars
    <2> SUFFICES ASSUME IInv, [Next]_vars, row' # row, life' = "live", row.summary # {}
                 PROVE  row'.watermark >= row.watermark + Refresh
        BY DEF vars
    <2> USE DEF poolVars, requestVars
    <2>1. ASSUME NEW r \in Requests, Turn(r) PROVE FALSE
        BY <2>1 DEF Turn, LoadSession, ReadHistory, BuildFull, BuildCached,
           BuildAsync, SyncPersist, SyncRefreshing, Persists, SyncConflict,
           ResolveConflict, TurnFails, InsertUserMessage, CommitTurn, RollBackTurn
    <2>2. ASSUME NEW w \in Workers, Pool(w)
          PROVE  row'.watermark >= row.watermark + Refresh
        <3>1. /\ running[w] # NoTask
              /\ row = running[w].expected /\ row' = running[w].refreshed
            BY <2>2 DEF Pool, TaskStart, TaskEnd, TaskFails, Persists
        <3>2. Advances(running[w])
            BY <3>1 DEF IInv, TasksAdvance
        <3>3. QED
            BY <3>1, <3>2 DEF Advances
    <2>3. QED
        BY <2>1, <2>2 DEF Next, vars, CreateSession, FollowUpMessage,
           DeleteSession, Restart
<1>3. QED
    BY <1>1, <1>2, PTL DEF Spec, RefreshAdvances
=============================================================================
