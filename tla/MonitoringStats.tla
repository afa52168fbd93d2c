-------------------------- MODULE MonitoringStats --------------------------
(***************************************************************************)
(* The metrics of one server process: every request that is answered is    *)
(* recorded, and every stats answer is a snapshot of what was recorded.    *)
(* Between the two lie the cache of MonitoringService, the cache of        *)
(* RedisMetricsRepository, and the switch of ResilientMetricsRepository    *)
(* from Redis to memory, which is never undone.                            *)
(*                                                                         *)
(* The threads of the process share the caches without a lock.  Fields     *)
(* are read and written one by one under the interpreter's lock, which     *)
(* CPython 3.12 hands over at calls: assignments with no call between      *)
(* them are one step, and a call ends a step.  A request is recorded once  *)
(* and is known by the thread that records it; other processes record in   *)
(* the same Redis and do not touch the caches of this one.                 *)
(***************************************************************************)
EXTENDS Integers

CONSTANTS Recorders,      (* requests to be recorded                         *)
          Readers,        (* threads that ask for stats, again and again     *)
          StatsTTL,       (* MONITORING_STATS_CACHE_TTL_SECONDS              *)
          SnapshotTTL,    (* MONITORING_REDIS_SNAPSHOT_CACHE_TTL_SECONDS     *)
          Stall,          (* longest time from a call's start to its end     *)
          StatsHorizon,   (* bound: the clock stops here                     *)
          Nothing         (* stands for None                                 *)

ASSUME MonitoringStatsAssumption ==
    /\ StatsTTL \in Nat /\ SnapshotTTL \in Nat
    /\ Stall \in Nat /\ StatsHorizon \in Nat
    /\ Recorders \cap Readers = {}
    /\ Nothing \notin [seen : SUBSET Recorders, time : Nat]

VARIABLES
    clock,     (* seconds                                                    *)
    redis,     (* requests counted in Redis                                  *)
    memory,    (* requests counted in the fallback repository                *)
    storedAt,  (* when each request was counted last                         *)
    degraded,  (* _degraded_to_fallback                                      *)
    snapshot,  (* _snapshot_cache, with the time it was asked for            *)
    payload,   (* _cached_stats_payload and _json, with _cached_stats_at     *)
    step,      (* where each thread is                                       *)
    began,     (* the clock each thread read when its call began             *)
    asked,     (* the clock a reader read in get_snapshot                    *)
    view,      (* the requests in the snapshot a reader builds or answers    *)
    raced,     (* requests recorded while a reader was building, or          *)
               (* recorded by another process                                *)
    due        (* for each reader, the other requests recorded before its    *)
               (* call began                                                 *)

storeVars == <<redis, memory, storedAt, degraded>>
cacheVars == <<snapshot, payload>>
readerVars == <<asked, view, due>>
statsVars == <<clock, storeVars, cacheVars, step, began, readerVars, raced>>

StatsThreads == Recorders \cup Readers
Taken(S, t) == [seen |-> S, time |-> t]
AtRest == {"idle", "done", "failed"}
(* A snapshot is being made, or made and not yet kept. *)
Building == {"dispatch", "primary", "lookup", "query", "fill", "keep",
             "failing", "fallback", "publish"}

StatsInit ==
    /\ clock = 0
    /\ redis = {} /\ memory = {}
    /\ storedAt = [r \in Recorders |-> 0]
    /\ degraded = FALSE
    /\ snapshot = Nothing /\ payload = Nothing
    /\ step = [t \in StatsThreads |-> "idle"]
    /\ began = [t \in StatsThreads |-> 0]
    /\ asked = [s \in Readers |-> 0]
    /\ view = [s \in Readers |-> {}]
    /\ raced = {}
    /\ due = [s \in Readers |-> {}]

StepTo(t, l) == step' = [step EXCEPT ![t] = l]
Moves(t, from, to) == step[t] = from /\ StepTo(t, to)
Store(r) == storedAt' = [storedAt EXCEPT ![r] = clock]
See(s, S) == view' = [view EXCEPT ![s] = S]

(* Recorders whose request is on its way, and readers that are building,   *)
(* spoil each other: what is built need not hold what is recorded.         *)
OnTheWay == {r \in Recorders : step[r] \notin AtRest}
Spoiled(t) ==
    IF t \in Recorders
    THEN IF \E s \in Readers : step[s] \in Building THEN {t} ELSE {}
    ELSE OnTheWay

-----------------------------------------------------------------------------
(* The response is there, or the view raised: the middleware, or           *)
(* track_auth_metric, records it.  Requests for monitoring/ are not.       *)
RecordBegin(r) ==
    /\ Moves(r, "idle", "dispatch")
    /\ began' = [began EXCEPT ![r] = clock]
    /\ raced' = raced \cup Spoiled(r)
    /\ UNCHANGED <<clock, storeVars, cacheVars, readerVars>>

(* _run_with_fallback: which repository is asked. *)
Dispatch(t) ==
    /\ Moves(t, "dispatch", IF degraded THEN "fallback" ELSE "primary")
    /\ UNCHANGED <<clock, storeVars, cacheVars, began, readerVars, raced>>

(* record_request and record_event drop the snapshot first ... *)
RecordInvalidateForgotten(r) ==
    /\ r \in Recorders
    /\ Moves(r, "primary", "send")
    /\ UNCHANGED <<clock, storeVars, cacheVars, began, readerVars, raced>>
RecordInvalidate(r) ==
    /\ r \in Recorders
    /\ Moves(r, "primary", "send")
    /\ snapshot' = Nothing
    /\ UNCHANGED <<clock, storeVars, payload, began, readerVars, raced>>

(* ... and send one transaction. *)
RecordSend(r) ==
    /\ Moves(r, "send", "drop")
    /\ redis' = redis \cup {r}
    /\ Store(r)
    /\ UNCHANGED <<clock, memory, degraded, cacheVars, began, readerVars,
                   raced>>

(* It fails, or times out when Redis has already done it. *)
RecordSendFails(r) ==
    /\ Moves(r, "send", "failing")
    /\ \/ UNCHANGED <<redis, storedAt>>
       \/ redis' = redis \cup {r} /\ Store(r)
    /\ UNCHANGED <<clock, memory, degraded, cacheVars, began, readerVars,
                   raced>>

MarkDegraded(t) ==
    /\ Moves(t, "failing", "fallback")
    /\ degraded' = TRUE
    /\ UNCHANGED <<clock, redis, memory, storedAt, cacheVars, began,
                   readerVars, raced>>

(* InMemoryMetricsRepository.record_request and record_event, under the    *)
(* repository's lock.                                                      *)
RecordInMemory(r) ==
    /\ r \in Recorders
    /\ Moves(r, "fallback", "drop")
    /\ memory' = memory \cup {r}
    /\ Store(r)
    /\ UNCHANGED <<clock, redis, degraded, cacheVars, began, readerVars,
                   raced>>

(* _invalidate_stats_cache *)
DropStats(r) ==
    /\ Moves(r, "drop", "done")
    /\ payload' = Nothing
    /\ UNCHANGED <<clock, storeVars, snapshot, began, readerVars, raced>>

(* Another process records a request in the same Redis. *)
RecordElsewhere(r) ==
    /\ Moves(r, "idle", "done")
    /\ redis' = redis \cup {r}
    /\ Store(r)
    /\ raced' = raced \cup {r}
    /\ UNCHANGED <<clock, memory, degraded, cacheVars, began, readerVars>>

-----------------------------------------------------------------------------
(* stats and stats_json: the clock is read, then the cache is judged, then *)
(* its fields are read again.                                              *)
StatsBegin(s) ==
    /\ step[s] \in AtRest
    /\ StepTo(s, "judge")
    /\ began' = [began EXCEPT ![s] = clock]
    /\ See(s, {})
    /\ due' = [due EXCEPT ![s] = {r \in Recorders : step[r] = "done"} \ raced]
    /\ UNCHANGED <<clock, storeVars, cacheVars, asked, raced>>

StatsFresh(t) ==
    /\ payload # Nothing
    /\ StatsTTL > 0
    /\ t - payload.time <= StatsTTL

StatsJudge(s) ==
    /\ Moves(s, "judge", IF StatsFresh(began[s]) THEN "hit" ELSE "dispatch")
    /\ raced' = raced \cup Spoiled(s)
    /\ UNCHANGED <<clock, storeVars, cacheVars, began, readerVars>>

StatsHit(s) ==
    /\ payload # Nothing
    /\ Moves(s, "hit", "done")
    /\ See(s, payload.seen)
    /\ UNCHANGED <<clock, storeVars, cacheVars, began, asked, due, raced>>

(* The assertion fails: the cache was dropped after it was judged. *)
StatsHitFails(s) ==
    /\ payload = Nothing
    /\ Moves(s, "hit", "failed")
    /\ UNCHANGED <<clock, storeVars, cacheVars, began, readerVars, raced>>

(* RedisMetricsRepository.get_snapshot *)
SnapshotBegin(s) ==
    /\ s \in Readers
    /\ Moves(s, "primary", "lookup")
    /\ asked' = [asked EXCEPT ![s] = clock]
    /\ UNCHANGED <<clock, storeVars, cacheVars, began, view, due, raced>>

(* _snapshot_cache_expires_at_ms is the time asked plus the TTL. *)
SnapshotFresh(t) ==
    /\ snapshot # Nothing
    /\ t <= snapshot.time + SnapshotTTL

SnapshotLookup(s) ==
    /\ step[s] = "lookup"
    /\ IF SnapshotFresh(asked[s])
       THEN StepTo(s, "publish") /\ See(s, snapshot.seen)
       ELSE StepTo(s, "query") /\ UNCHANGED view
    /\ UNCHANGED <<clock, storeVars, cacheVars, began, asked, due, raced>>

(* The first transaction reads the routes, the auth events and the buckets *)
(* of the series, the second the counters of those routes: a request       *)
(* recorded in between is counted if its route was known before.           *)
SnapshotQuery(s) ==
    /\ Moves(s, "query", "fill")
    /\ See(s, redis)
    /\ UNCHANGED <<clock, storeVars, cacheVars, began, asked, due, raced>>

SnapshotFill(s) ==
    /\ Moves(s, "fill", "keep")
    /\ \E S \in SUBSET redis : See(s, view[s] \cup S)
    /\ UNCHANGED <<clock, storeVars, cacheVars, began, asked, due, raced>>

SnapshotFails(s) ==
    /\ step[s] \in {"query", "fill"}
    /\ StepTo(s, "failing")
    /\ UNCHANGED <<clock, storeVars, cacheVars, began, readerVars, raced>>

SnapshotKeepLate(s) ==
    /\ Moves(s, "keep", "publish")
    /\ snapshot' = IF SnapshotTTL > 0 THEN Taken(view[s], clock) ELSE Nothing
    /\ UNCHANGED <<clock, storeVars, payload, began, readerVars, raced>>
SnapshotKeep(s) ==
    /\ Moves(s, "keep", "publish")
    /\ snapshot' = IF SnapshotTTL > 0 THEN Taken(view[s], asked[s])
                                      ELSE Nothing
    /\ UNCHANGED <<clock, storeVars, payload, began, readerVars, raced>>

(* InMemoryMetricsRepository.get_snapshot *)
SnapshotFromMemory(s) ==
    /\ s \in Readers
    /\ Moves(s, "fallback", "publish")
    /\ See(s, memory)
    /\ UNCHANGED <<clock, storeVars, cacheVars, began, asked, due, raced>>

(* _resolve_stats_payload keeps what was built under the time the call     *)
(* began, over whatever is there.                                          *)
StatsPublish(s) ==
    /\ Moves(s, "publish", "done")
    /\ payload' = Taken(view[s], began[s])
    /\ UNCHANGED <<clock, storeVars, snapshot, began, readerVars, raced>>

-----------------------------------------------------------------------------
(* A call takes at most Stall seconds. *)
StatsTick ==
    /\ clock < StatsHorizon
    /\ \A t \in StatsThreads : step[t] \notin AtRest => clock < began[t] + Stall
    /\ clock' = clock + 1
    /\ UNCHANGED <<storeVars, cacheVars, step, began, readerVars, raced>>

RecorderNext(r) ==
    \/ RecordBegin(r) \/ RecordInvalidate(r) \/ RecordSend(r)
    \/ RecordSendFails(r) \/ RecordInMemory(r) \/ DropStats(r)
    \/ RecordElsewhere(r)

ReaderNext(s) ==
    \/ StatsBegin(s) \/ StatsJudge(s) \/ StatsHit(s) \/ StatsHitFails(s)
    \/ SnapshotBegin(s) \/ SnapshotLookup(s) \/ SnapshotQuery(s)
    \/ SnapshotFill(s) \/ SnapshotFails(s) \/ SnapshotKeep(s)
    \/ SnapshotFromMemory(s) \/ StatsPublish(s)

StatsNext ==
    \/ \E r \in Recorders : RecorderNext(r)
    \/ \E s \in Readers : ReaderNext(s)
    \/ \E t \in StatsThreads : Dispatch(t) \/ MarkDegraded(t)
    \/ StatsTick

StatsSpec == StatsInit /\ [][StatsNext]_statsVars

-----------------------------------------------------------------------------
StatsStep == AtRest \cup Building \cup {"send", "drop", "judge", "hit"}
Cached == {Nothing} \cup [seen : SUBSET Recorders, time : Nat]

(* Types: what the caches hold, where the threads are. *)
StatsTypeOK ==
    /\ clock \in Nat
    /\ redis \subseteq Recorders /\ memory \subseteq Recorders
    /\ storedAt \in [Recorders -> Nat]
    /\ degraded \in BOOLEAN
    /\ snapshot \in Cached /\ payload \in Cached
    /\ step \in [StatsThreads -> StatsStep]
    /\ began \in [StatsThreads -> Nat]
    /\ asked \in [Readers -> Nat]
    /\ view \in [Readers -> SUBSET Recorders]
    /\ raced \subseteq Recorders
    /\ due \in [Readers -> SUBSET Recorders]

Larger(a, b) == IF a < b THEN b ELSE a

(* Two caches on top of each other, filled and dropped in any order by any *)
(* thread: an answer holds every request that was counted longer ago than  *)
(* both caches may keep it, whatever process recorded it.  Only requests   *)
(* counted in Redis before this process gave it up are excepted.           *)
BoundedStaleness ==
    \A s \in Readers : step[s] = "done" =>
        \A r \in redis \cup memory :
            storedAt[r] + SnapshotTTL + Larger(StatsTTL, Stall) < began[s]
            => r \in view[s] \/ (degraded /\ r \notin memory)

(* A reader sees at once what was recorded before it asked, in spite of    *)
(* the caches, unless the request was recorded by another process or while *)
(* an answer was being built.                                              *)
FreshUnlessRaced ==
    \A s \in Readers : step[s] = "done" =>
        \A r \in due[s] : r \in view[s] \/ (degraded /\ r \notin memory)
=============================================================================
