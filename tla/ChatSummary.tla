----------------------------- MODULE ChatSummary -----------------------------
(***************************************************************************)
(* The rolling history summary of one chat session: the send_message and   *)
(* stream_send_message turns that read the session row and its messages,   *)
(* build a prompt from them, refresh the summary in the request or on the  *)
(* background pool, and store the turn; against a deletion of the session  *)
(* and a restart of the server process.                                    *)
(*                                                                         *)
(* A message is its created_at stamp, so the history order is the order of *)
(* Nat, and a summary text is the set of messages it was written from; ""  *)
(* is {}.  The message a turn is about to add is the last one of the       *)
(* history it builds its prompt from, and is not stored yet.               *)
(***************************************************************************)
EXTENDS Integers, Sequences, FiniteSets

CONSTANTS Requests,   (* threads that serve chat requests                     *)
          Workers,    (* threads of the summary refresh pool                  *)
          NoTask,     (* what a pool thread holds when it is free             *)
          Threshold,  (* CHAT_HISTORY_MAX_MESSAGES                            *)
          Keep,       (* SUMMARY_RECENT_MESSAGES_KEEP                         *)
          Refresh,    (* SUMMARY_REFRESH_THRESHOLD                            *)
          Overlap,    (* messages that may be committed to the session while  *)
                      (* a turn has stamped its message and not committed it  *)
          MaxStamp,   (* bound: stamps given out                              *)
          MaxQueue,   (* bound: tasks waiting for the pool                    *)
          Faults      (* may the provider fail, a client leave, the process   *)
                      (* restart                                              *)

ASSUME SummaryAssumption ==
    /\ Threshold \in Nat
    /\ Keep \in Nat \ {0}
    /\ Refresh \in Nat \ {0}
    /\ Overlap \in Nat
    /\ MaxStamp \in Nat
    /\ MaxQueue \in Nat
    /\ Faults \in BOOLEAN

(* The timing the window of recent messages has to cover: fewer than Keep  *)
(* messages are committed between the stamp of a message and its commit.   *)
ASSUME OverlapAssumption == Overlap < Keep

VARIABLES
    life,      (* of the session row: none, live or deleted                   *)
    visible,   (* committed messages of the session                           *)
    row,       (* history_summary and history_summary_watermark, as stored    *)
    clock,     (* the last created_at given out                               *)
    pc,        (* where each request is                                       *)
    snap,      (* the session row as each request loaded it                   *)
    hist,      (* the messages each request read                              *)
    prompt,    (* what each request sends: messages summarised and verbatim   *)
    stamp,     (* the created_at of each uncommitted user message             *)
    late,      (* messages committed since that stamp                         *)
    queue,     (* tasks submitted to the pool                                 *)
    running    (* the task each pool thread runs                              *)

requestVars == <<pc, snap, hist, prompt, stamp, late>>
poolVars == <<queue, running>>
vars == <<life, visible, row, clock, pc, snap, hist, prompt, stamp, late,
          queue, running>>

(***************************************************************************)
(* The history in created_at order.                                        *)
(***************************************************************************)
Rank(m, S) == Cardinality({x \in S : x <= m})
First(n, S) == {m \in S : Rank(m, S) <= n}

NoSummary == [summary |-> {}, watermark |-> 0]
NoPrompt == [summarised |-> {}, verbatim |-> {}]

(* len(full_history): the stored messages and the new one *)
HistoryLen(h) == Cardinality(h) + 1
(* len(full_history[:-SUMMARY_RECENT_MESSAGES_KEEP]) *)
OldCountUnclamped(h) == HistoryLen(h) - Keep
OldCount(h) == IF HistoryLen(h) > Keep THEN HistoryLen(h) - Keep ELSE 0
OldMessages(h) == First(OldCount(h), h)

Exceeds(h) == HistoryLen(h) > Threshold
NeedsRefresh(h, s) ==
    \/ s.summary = {}
    \/ OldCount(h) - s.watermark >= Refresh

(* What a refresh over the history h would store. *)
RefreshedMiscounted(h) == [summary |-> OldMessages(h), watermark |-> OldCount(h) + 1]
Refreshed(h) == [summary |-> OldMessages(h), watermark |-> OldCount(h)]

(* The summary message, the old messages after the watermark, the recent   *)
(* ones.                                                                   *)
SkippedIgnoringWatermark(h, s) == IF s.watermark < OldCount(h) THEN 0 ELSE OldCount(h)
Skipped(h, s) == IF s.watermark < OldCount(h) THEN s.watermark ELSE OldCount(h)
Prompt(h, s) == [summarised |-> s.summary,
                 verbatim   |-> h \ First(Skipped(h, s), h)]
FullPrompt(h) == [summarised |-> {}, verbatim |-> h]

TaskSwapped(h, s) == [expected |-> Refreshed(h), refreshed |-> s]
Task(h, s) == [expected |-> s, refreshed |-> Refreshed(h)]
Tasks == {running[w] : w \in Workers} \cup {queue[i] : i \in DOMAIN queue}

(* One conditional UPDATE: the row still holds what the writer expects. *)
PersistsUnconditionally(expected) == life = "live"
Persists(expected) == life = "live" /\ row = expected

-----------------------------------------------------------------------------
Init ==
    /\ life = "none"
    /\ visible = {}
    /\ row = NoSummary
    /\ clock = 0
    /\ pc = [r \in Requests |-> "idle"]
    /\ snap = [r \in Requests |-> NoSummary]
    /\ hist = [r \in Requests |-> {}]
    /\ prompt = [r \in Requests |-> NoPrompt]
    /\ stamp = [r \in Requests |-> 0]
    /\ late = [r \in Requests |-> 0]
    /\ queue = <<>>
    /\ running = [w \in Workers |-> NoTask]

(* The request ends; the locals of its thread are gone. *)
Finish(r) ==
    /\ pc' = [pc EXCEPT ![r] = "idle"]
    /\ snap' = [snap EXCEPT ![r] = NoSummary]
    /\ hist' = [hist EXCEPT ![r] = {}]
    /\ prompt' = [prompt EXCEPT ![r] = NoPrompt]
    /\ stamp' = [stamp EXCEPT ![r] = 0]

(* n messages become visible to everyone: turns still uncommitted fall     *)
(* behind, and by assumption none falls more than Overlap behind.          *)
Behind(n, r) ==
    LET waiting == {o \in Requests \ {r} : pc[o] = "inserted"}
    IN  /\ \A o \in waiting : late[o] + n <= Overlap
        /\ late' = [o \in Requests |->
                       IF o = r THEN 0
                       ELSE IF o \in waiting THEN late[o] + n ELSE late[o]]

(***************************************************************************)
(* A turn.                                                                 *)
(***************************************************************************)
LoadSession(r) ==
    /\ pc[r] = "idle"
    /\ life = "live"
    /\ pc' = [pc EXCEPT ![r] = "loaded"]
    /\ snap' = [snap EXCEPT ![r] = row]
    /\ UNCHANGED <<life, visible, row, clock, hist, prompt, stamp, late, poolVars>>

ReadHistory(r) ==
    /\ pc[r] = "loaded"
    /\ pc' = [pc EXCEPT ![r] = "building"]
    /\ hist' = [hist EXCEPT ![r] = visible]
    /\ UNCHANGED <<life, visible, row, clock, snap, prompt, stamp, late, poolVars>>

Send(r, p) ==
    /\ pc' = [pc EXCEPT ![r] = "replying"]
    /\ prompt' = [prompt EXCEPT ![r] = p]

BuildFull(r) ==
    /\ pc[r] = "building"
    /\ ~Exceeds(hist[r])
    /\ Send(r, FullPrompt(hist[r]))
    /\ UNCHANGED <<life, visible, row, clock, snap, hist, stamp, late, poolVars>>

BuildCached(r) ==
    /\ pc[r] = "building"
    /\ Exceeds(hist[r])
    /\ ~NeedsRefresh(hist[r], snap[r])
    /\ Send(r, Prompt(hist[r], snap[r]))
    /\ UNCHANGED <<life, visible, row, clock, snap, hist, stamp, late, poolVars>>

(* A summary exists: the refresh goes to the pool, the prompt uses what    *)
(* the row held.  A submission that fails is logged and forgotten.         *)
BuildAsync(r) ==
    /\ pc[r] = "building"
    /\ Exceeds(hist[r])
    /\ NeedsRefresh(hist[r], snap[r])
    /\ snap[r].summary # {}
    /\ Send(r, Prompt(hist[r], snap[r]))
    /\ \/ /\ Len(queue) < MaxQueue
          /\ queue' = Append(queue, Task(hist[r], snap[r]))
       \/ /\ Faults \/ Len(queue) >= MaxQueue
          /\ queue' = queue
    /\ UNCHANGED <<life, visible, row, clock, snap, hist, stamp, late, running>>

(* No summary yet: the request itself asks the provider for one, then      *)
(* stores it if the row is still as it was loaded.                         *)
SyncRefreshing(r) ==
    /\ pc[r] = "building"
    /\ Exceeds(hist[r])
    /\ snap[r].summary = {}

SyncPersist(r) ==
    /\ SyncRefreshing(r)
    /\ Persists(snap[r])
    /\ row' = Refreshed(hist[r])
    /\ snap' = [snap EXCEPT ![r] = Refreshed(hist[r])]
    /\ Send(r, Prompt(hist[r], Refreshed(hist[r])))
    /\ UNCHANGED <<life, visible, clock, hist, stamp, late, poolVars>>

SyncConflict(r) ==
    /\ SyncRefreshing(r)
    /\ ~Persists(snap[r])
    /\ pc' = [pc EXCEPT ![r] = "conflict"]
    /\ UNCHANGED <<life, visible, row, clock, snap, hist, prompt, stamp, late, poolVars>>

(* Another request stored its summary first: use that one, or, when the    *)
(* session is gone, the one this request asked for.                        *)
ResolveConflictOwnWatermark(r) ==
    /\ pc[r] = "conflict"
    /\ LET stored == IF life = "live" THEN row ELSE NoSummary
           used == IF stored.summary # {}
                   THEN [stored EXCEPT !.watermark = OldCount(hist[r])]
                   ELSE Refreshed(hist[r])
       IN  Send(r, Prompt(hist[r], used))
    /\ UNCHANGED <<life, visible, row, clock, snap, hist, stamp, late, poolVars>>
ResolveConflict(r) ==
    /\ pc[r] = "conflict"
    /\ LET stored == IF life = "live" THEN row ELSE NoSummary
           used == IF stored.summary # {} THEN stored ELSE Refreshed(hist[r])
       IN  Send(r, Prompt(hist[r], used))
    /\ UNCHANGED <<life, visible, row, clock, snap, hist, stamp, late, poolVars>>

(* The provider fails while summarising or while replying, the client      *)
(* leaves a stream, or a stream ends empty: nothing of the turn is stored. *)
TurnFails(r) ==
    /\ Faults
    /\ pc[r] \in {"building", "replying"}
    /\ pc[r] = "building" => SyncRefreshing(r)
    /\ Finish(r)
    /\ UNCHANGED <<life, visible, row, clock, late, poolVars>>

(* The transaction of the turn: the user message gets its stamp ...        *)
InsertUserMessage(r) ==
    /\ pc[r] = "replying"
    /\ life = "live"
    /\ clock + 2 <= MaxStamp
    /\ pc' = [pc EXCEPT ![r] = "inserted"]
    /\ clock' = clock + 1
    /\ stamp' = [stamp EXCEPT ![r] = clock + 1]
    /\ UNCHANGED <<life, visible, row, snap, hist, prompt, late, poolVars>>

(* ... and, with the session row locked, the reply gets a later one and    *)
(* both become visible.                                                    *)
CommitTurn(r) ==
    /\ pc[r] = "inserted"
    /\ life = "live"
    /\ clock + 1 <= MaxStamp
    /\ Behind(2, r)
    /\ clock' = clock + 1
    /\ visible' = visible \cup {stamp[r], clock + 1}
    /\ Finish(r)
    /\ UNCHANGED <<life, row, poolVars>>

(* The session went away (no row to validate against or to update), or the *)
(* database refused: the transaction is rolled back.                       *)
RollBackTurn(r) ==
    /\ \/ pc[r] = "replying" /\ life = "deleted"
       \/ pc[r] = "inserted" /\ (life = "deleted" \/ Faults)
    /\ Finish(r)
    /\ late' = [late EXCEPT ![r] = 0]
    /\ UNCHANGED <<life, visible, row, clock, poolVars>>

-----------------------------------------------------------------------------
(***************************************************************************)
(* Other writers of the session.                                           *)
(***************************************************************************)

(* A first turn creates the session and its two messages, llm_generate the *)
(* session and its one bootstrap message, each in one transaction.         *)
CreateSession ==
    /\ life = "none"
    /\ \E n \in {1, 2} :
          /\ n <= MaxStamp
          /\ clock' = clock + n
          /\ visible' = (clock + 1) .. (clock + n)
    /\ life' = "live"
    /\ UNCHANGED <<row, requestVars, poolVars>>

(* llm_generate on an existing session appends its follow-up prompt.       *)
FollowUpMessage ==
    /\ life = "live"
    /\ clock + 1 <= MaxStamp
    /\ \A o \in Requests : pc[o] = "inserted" => late[o] + 1 <= Overlap
    /\ late' = [o \in Requests |-> IF pc[o] = "inserted" THEN late[o] + 1 ELSE late[o]]
    /\ clock' = clock + 1
    /\ visible' = visible \cup {clock + 1}
    /\ UNCHANGED <<life, row, pc, snap, hist, prompt, stamp, poolVars>>

DeleteSession ==
    /\ life = "live"
    /\ life' = "deleted"
    /\ visible' = {}
    /\ row' = NoSummary
    /\ UNCHANGED <<clock, requestVars, poolVars>>

(***************************************************************************)
(* The pool.                                                               *)
(***************************************************************************)
TaskStart(w) ==
    /\ running[w] = NoTask
    /\ queue # <<>>
    /\ running' = [running EXCEPT ![w] = Head(queue)]
    /\ queue' = Tail(queue)
    /\ UNCHANGED <<life, visible, row, clock, requestVars>>

(* The provider answered: the task's one UPDATE finds the row as expected  *)
(* or changes nothing.                                                     *)
TaskEnd(w) ==
    /\ running[w] # NoTask
    /\ row' = IF Persists(running[w].expected) THEN running[w].refreshed ELSE row
    /\ running' = [running EXCEPT ![w] = NoTask]
    /\ UNCHANGED <<life, visible, clock, queue, requestVars>>

TaskFails(w) ==
    /\ Faults
    /\ running[w] # NoTask
    /\ running' = [running EXCEPT ![w] = NoTask]
    /\ UNCHANGED <<life, visible, row, clock, queue, requestVars>>

(* The server process is replaced: threads, pool and open transactions are *)
(* lost, committed rows are not.                                           *)
Restart ==
    /\ Faults
    /\ pc' = [r \in Requests |-> "idle"]
    /\ snap' = [r \in Requests |-> NoSummary]
    /\ hist' = [r \in Requests |-> {}]
    /\ prompt' = [r \in Requests |-> NoPrompt]
    /\ stamp' = [r \in Requests |-> 0]
    /\ late' = [r \in Requests |-> 0]
    /\ queue' = <<>>
    /\ running' = [w \in Workers |-> NoTask]
    /\ UNCHANGED <<life, visible, row, clock>>

-----------------------------------------------------------------------------
Turn(r) ==
    \/ LoadSession(r) \/ ReadHistory(r)
    \/ BuildFull(r) \/ BuildCached(r) \/ BuildAsync(r)
    \/ SyncPersist(r) \/ SyncConflict(r) \/ ResolveConflict(r)
    \/ TurnFails(r)
    \/ InsertUserMessage(r) \/ CommitTurn(r) \/ RollBackTurn(r)

Pool(w) == TaskStart(w) \/ TaskEnd(w) \/ TaskFails(w)

Next ==
    \/ \E r \in Requests : Turn(r)
    \/ \E w \in Workers : Pool(w)
    \/ CreateSession \/ FollowUpMessage \/ DeleteSession
    \/ Restart

Spec == Init /\ [][Next]_vars

(* The pool's threads run what they are given; clients owe nothing. *)
FairSpec == Spec /\ \A w \in Workers : WF_vars(TaskStart(w)) /\ WF_vars(TaskEnd(w))

-----------------------------------------------------------------------------
(***************************************************************************)
(* Properties.                                                             *)
(***************************************************************************)
Summaries == [summary : SUBSET Nat, watermark : Nat]
Prompts == [summarised : SUBSET Nat, verbatim : SUBSET Nat]
TaskRecords == [expected : Summaries, refreshed : Summaries]

(* Types of the stored row, of the request threads and of the pool. *)
TypeOK ==
    /\ life \in {"none", "live", "deleted"}
    /\ visible \in SUBSET Nat
    /\ row \in Summaries
    /\ clock \in Nat
    /\ pc \in [Requests -> {"idle", "loaded", "building", "conflict",
                            "replying", "inserted"}]
    /\ snap \in [Requests -> Summaries]
    /\ hist \in [Requests -> SUBSET Nat]
    /\ prompt \in [Requests -> Prompts]
    /\ stamp \in [Requests -> Nat]
    /\ late \in [Requests -> Nat]
    /\ queue \in Seq(TaskRecords)
    /\ running \in [Workers -> TaskRecords \cup {NoTask}]

(* The stored watermark counts exactly the messages the stored summary was *)
(* written from, and they are the oldest of the session: also after a      *)
(* message stamped before the refresh became visible after it.             *)
SummaryCoversPrefix ==
    life = "live" => /\ row.watermark <= Cardinality(visible)
                     /\ row.summary = First(row.watermark, visible)

(* build_history_with_summary drops nothing: every message the request     *)
(* read is in the summary it sends or is sent word for word, also when the *)
(* summary came from another request after a conflict.                     *)
PromptComplete ==
    \A r \in Requests :
        pc[r] \in {"replying", "inserted"} =>
            hist[r] \subseteq prompt[r].summarised \cup prompt[r].verbatim

(* The prompt says a message twice, in the summary and word for word, only *)
(* inside the window of recent messages: an old message appears once.      *)
RepeatsOnlyRecent ==
    \A r \in Requests :
        pc[r] \in {"replying", "inserted"} =>
            prompt[r].summarised \cap prompt[r].verbatim \cap OldMessages(hist[r]) = {}

(* A stored summary is replaced only by one that covers at least Refresh   *)
(* more messages: neither a slow request nor a slow pool task puts an      *)
(* older summary back, and no refresh is stored twice.                     *)
RefreshAdvances ==
    [][row' # row /\ life' = "live" =>
          \/ row.summary = {}
          \/ row'.watermark >= row.watermark + Refresh]_vars

(* A refresh given to the pool is not lost to a race: either it or another *)
(* refresh moves the watermark on (the provider answering, the session     *)
(* staying).                                                               *)
RefreshProgress ==
    \A n \in 0 .. MaxStamp :
        (\E t \in Tasks \ {NoTask} : t.expected.watermark = n)
            ~> (row.watermark > n \/ life = "deleted")
=============================================================================
