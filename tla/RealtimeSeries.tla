--------------------------- MODULE RealtimeSeries ---------------------------
(***************************************************************************)
(* The time series of a metrics snapshot: requests per bucket over the     *)
(* last minutes, as InMemoryMetricsRepository computes it from a queue of  *)
(* requests and RedisMetricsRepository from one hash per bucket.  Requests *)
(* are stored in any order: a request is built, with its time, before it   *)
(* is stored, and another may be stored in between.                        *)
(***************************************************************************)
EXTENDS Integers, Sequences, FiniteSets

CONSTANTS WindowSeconds,  (* MONITORING_REALTIME_WINDOW_SECONDS              *)
          BucketSeconds,  (* MONITORING_REALTIME_BUCKET_SECONDS              *)
          MaxRecords,     (* MONITORING_MAX_REALTIME_RECORDS                 *)
          Lag,            (* bound: seconds from building to storing         *)
          SeriesHorizon,  (* bound: the clock stops here                     *)
          MaxStored       (* bound: requests stored                          *)

ASSUME RealtimeSeriesAssumption ==
    /\ WindowSeconds \in Nat /\ BucketSeconds \in Nat /\ MaxRecords \in Nat
    /\ Lag \in Nat /\ SeriesHorizon \in Nat /\ MaxStored \in Nat

VARIABLES
    wall,      (* seconds                                                    *)
    stored,    (* the created_at of the requests stored, in that order       *)
    recent,    (* the indices of those in _recent_requests                   *)
    bucketOf,  (* the bucket hash each one was counted in                    *)
    crowded    (* was a request dropped for MaxRecords                       *)

seriesVars == <<wall, stored, recent, bucketOf, crowded>>

(* _build_realtime_series_config: at least a second, a bucket at most the  *)
(* window, at least one record.                                            *)
AtLeastOne(n) == IF n < 1 THEN 1 ELSE n
SeriesWindow == AtLeastOne(WindowSeconds)
SeriesBucket == IF AtLeastOne(BucketSeconds) > SeriesWindow
                THEN SeriesWindow ELSE AtLeastOne(BucketSeconds)
Capacity == AtLeastOne(MaxRecords)
BucketCount == (SeriesWindow + SeriesBucket - 1) \div SeriesBucket
EffectiveWindow == BucketCount * SeriesBucket

SeriesInit ==
    /\ wall = 0
    /\ stored = <<>> /\ recent = <<>> /\ bucketOf = <<>>
    /\ crowded = FALSE

-----------------------------------------------------------------------------
(* Redis: the bucket that was current just before now, and the oldest one  *)
(* of the window.  Seconds are whole here, and the code's epsilon is less. *)
Floor(t) == (t \div SeriesBucket) * SeriesBucket
CurrentBucket(t) == Floor(t - 1)
OldestBucketLate(t) == CurrentBucket(t) - (BucketCount - 2) * SeriesBucket
OldestBucket(t) == CurrentBucket(t) - (BucketCount - 1) * SeriesBucket
RecordBucket(created, t) ==
    IF Floor(created) < CurrentBucket(t) THEN Floor(created)
                                         ELSE CurrentBucket(t)

(* The requests in the buckets a snapshot asks for. *)
RedisSeries ==
    {i \in DOMAIN stored : /\ OldestBucket(wall) <= bucketOf[i]
                           /\ bucketOf[i] <= CurrentBucket(wall)}

-----------------------------------------------------------------------------
(* Memory: the queue is cut to MaxRecords, then to the window, from its    *)
(* head on and only as long as the head is too old.                        *)
Cut(q) == IF Len(q) > Capacity THEN Tail(q) ELSE q
TooOld(i) == stored'[i] < wall - SeriesWindow
FirstKept(q) ==
    CHOOSE n \in 1 .. Len(q) + 1 :
        /\ \A m \in 1 .. n - 1 : TooOld(q[m])
        /\ n <= Len(q) => ~TooOld(q[n])
Pruned(q) == SubSeq(q, FirstKept(q), Len(q))

(* build_points drops what is older than the buckets reach. *)
MemorySeries ==
    {i \in DOMAIN stored :
        /\ \E n \in DOMAIN recent : recent[n] = i
        /\ stored[i] >= wall - EffectiveWindow}

-----------------------------------------------------------------------------
(* record_request of either repository. *)
StoreRequest(created) ==
    /\ Len(stored) < MaxStored
    /\ stored' = Append(stored, created)
    /\ bucketOf' = Append(bucketOf, RecordBucket(created, wall))
    /\ LET queue == Append(recent, Len(stored) + 1)
       IN  /\ recent' = Pruned(Cut(queue))
           /\ crowded' = (crowded \/ Cut(queue) # queue)
    /\ UNCHANGED wall

(* get_snapshot prunes too. *)
ReadSeries ==
    /\ UNCHANGED <<wall, stored, bucketOf, crowded>>
    /\ recent' = Pruned(recent)

SeriesTick ==
    /\ wall < SeriesHorizon
    /\ wall' = wall + 1
    /\ UNCHANGED <<stored, recent, bucketOf, crowded>>

SeriesNext ==
    \/ \E created \in (wall - Lag) .. wall : StoreRequest(created)
    \/ ReadSeries
    \/ SeriesTick

SeriesSpec == SeriesInit /\ [][SeriesNext]_seriesVars

-----------------------------------------------------------------------------
SeriesTypeOK ==
    /\ wall \in Nat
    /\ stored \in Seq(Int) /\ bucketOf \in Seq(Int)
    /\ recent \in Seq(1 .. Len(stored))
    /\ Len(bucketOf) = Len(stored)
    /\ crowded \in BOOLEAN

(* Both series count every request of the window, whatever order they are *)
(* stored in, and none that is older than the buckets reach.  Memory: if   *)
(* there is room for them.  Redis: the last of its fixed buckets is not    *)
(* over yet, so the window is short by at most one bucket; a request at    *)
(* the very start of a bucket is where a snapshot of that moment looks.    *)
SeriesCoverWindow ==
    \A i \in DOMAIN stored :
        /\ stored[i] >= wall - SeriesWindow => i \in MemorySeries \/ crowded
        /\ stored[i] > wall - (BucketCount - 1) * SeriesBucket
           => i \in RedisSeries
        /\ i \in MemorySeries \cup RedisSeries
           => stored[i] >= wall - EffectiveWindow
=============================================================================
