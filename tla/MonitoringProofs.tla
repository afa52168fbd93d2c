-------------------------- MODULE MonitoringProofs --------------------------
(***************************************************************************)
(* What monitoring promises: that no outage is silent (for any number of   *)
(* probes, any cooldown and any clock), that the figures it answers are    *)
(* behind by no more than its caches allow and lack nothing recorded       *)
(* before unless two threads raced (for any number of requests, any of the *)
(* cache lives and any delay), and that the time series count the requests *)
(* of their window in whatever order these are stored (for any window,     *)
(* bucket and number of requests).                                         *)
(*                                                                         *)
(* A probe keeps quiet because of the last status and the time of the last *)
(* alert, and these two are written in different steps, by threads that    *)
(* may be anywhere in between: that they speak of one alert has to be      *)
(* proved. AlertInv says they do not contradict each other: the alert of   *)
(* the last status was begun, and not before any alert whose time is kept  *)
(* or about to be kept was judged.                                         *)
(***************************************************************************)
EXTENDS ReadinessAlerts, MonitoringStats, RealtimeSeries,
        WellFoundedInduction, SequenceTheorems, TLAPS

Bad == {"degraded", "down"}

(* Nothing is remembered of the future. *)
NotAhead ==
    /\ \A p \in Probes : judged[p] <= hour
    /\ \A s \in Status : alertedAt[s] # None => alertedAt[s] <= hour
    /\ lastAlert # None => lastAlert <= hour

(* The time of the last alert, and those a probe is about to write, are    *)
(* covered by the alert of the last status.                                *)
StatusAlerted ==
    lastStatus \in Bad =>
        /\ alertedAt[lastStatus] # None
        /\ lastAlert # None => lastAlert <= alertedAt[lastStatus]
        /\ \A p \in Probes :
              place[p] = "sending" => judged[p] <= alertedAt[lastStatus]

OnlyBadIsJudged ==
    \A p \in Probes : place[p] \in {"judge", "send", "quiet"} => result[p] \in Bad

AlertInv == AlertTypeOK /\ NotAhead /\ StatusAlerted /\ OnlyBadIsJudged /\ NoSilentOutage

LEMMA AlertInvInit == AlertInit => AlertInv
<1> SUFFICES ASSUME AlertInit PROVE AlertInv
  OBVIOUS
<1>1. AlertTypeOK
  BY DEF AlertInit, AlertTypeOK, ProbePlace, Status
<1>2. NotAhead /\ OnlyBadIsJudged /\ NoSilentOutage
  BY DEF AlertInit, NotAhead, OnlyBadIsJudged, NoSilentOutage
<1>3. StatusAlerted
  BY ReadinessAlertsAssumption DEF AlertInit, StatusAlerted, Bad
<1> QED  BY <1>1, <1>2, <1>3 DEF AlertInv

(* StatusOf is never anything else than a status. *)
LEMMA StatusOfIsStatus == \A failed : StatusOf(failed) \in Status
  BY DEF StatusOf, Status

LEMMA AlertTypeStep == AlertTypeOK /\ [AlertNext]_alertVars => AlertTypeOK'
<1> SUFFICES ASSUME AlertTypeOK, [AlertNext]_alertVars PROVE AlertTypeOK'
  OBVIOUS
<1> USE DEF AlertTypeOK, Probing, PlaceAt, ProbePlace, sharedVars, probeVars
<1>1. ASSUME NEW p \in Probes, AskReady(p) PROVE AlertTypeOK'
  BY <1>1 DEF AskReady
<1>2. ASSUME NEW p \in Probes, AskSnapshot(p) PROVE AlertTypeOK'
  BY <1>2 DEF AskSnapshot
<1>3. ASSUME NEW p \in Probes, JudgeFresh(p) PROVE AlertTypeOK'
  BY <1>3 DEF JudgeFresh
<1>4. ASSUME NEW p \in Probes, AnswerCached(p) PROVE AlertTypeOK'
  BY <1>4 DEF AnswerCached, Forget, Status
<1>5. ASSUME NEW p \in Probes, RunChecks(p) PROVE AlertTypeOK'
  <2> PICK failed \in SUBSET Checks : result' = [result EXCEPT ![p] = StatusOf(failed)]
    BY <1>5 DEF RunChecks
  <2> QED  BY <1>5, StatusOfIsStatus DEF RunChecks
<1>6. ASSUME NEW p \in Probes, ResultOk(p) PROVE AlertTypeOK'
  BY <1>6 DEF ResultOk, Status
<1>7. ASSUME NEW p \in Probes, ResultNotOk(p) PROVE AlertTypeOK'
  BY <1>7 DEF ResultNotOk
<1>8. ASSUME NEW p \in Probes, JudgeAlert(p) PROVE AlertTypeOK'
  BY <1>8 DEF JudgeAlert
<1>9. ASSUME NEW p \in Probes, KeepQuiet(p) PROVE AlertTypeOK'
  BY <1>9 DEF KeepQuiet
<1>10. ASSUME NEW p \in Probes, SendAlert(p) PROVE AlertTypeOK'
  BY <1>10 DEF SendAlert
<1>11. ASSUME NEW p \in Probes, AlertSent(p) PROVE AlertTypeOK'
  BY <1>11 DEF AlertSent
<1>12. ASSUME NEW p \in Probes, AnswerProbe(p) PROVE AlertTypeOK'
  BY <1>12 DEF AnswerProbe, Forget, Status
<1>13. CASE AlertTick
  BY <1>13 DEF AlertTick
<1>14. CASE UNCHANGED alertVars
  BY <1>14 DEF alertVars
<1> QED
  BY <1>1, <1>2, <1>3, <1>4, <1>5, <1>6, <1>7, <1>8, <1>9, <1>10, <1>11, <1>12,
     <1>13, <1>14 DEF AlertNext, ProbeNext

LEMMA AlertInvStep == AlertInv /\ [AlertNext]_alertVars => AlertInv'
<1> SUFFICES ASSUME AlertInv, [AlertNext]_alertVars PROVE AlertInv'
  OBVIOUS
<1>0. AlertTypeOK /\ AlertTypeOK'
  BY AlertTypeStep DEF AlertInv
<1> DEFINE Kept == NotAhead /\ StatusAlerted /\ OnlyBadIsJudged /\ NoSilentOutage
<1> USE <1>0, ReadinessAlertsAssumption
    DEF AlertTypeOK, NotAhead, StatusAlerted, OnlyBadIsJudged, NoSilentOutage,
        Probing, PlaceAt, sharedVars, probeVars, Status, Bad
<1>q. Kept
  BY DEF AlertInv
<1> USE <1>q
<1>1. ASSUME NEW p \in Probes, AskReady(p) PROVE Kept'
  BY <1>1 DEF AskReady
<1>2. ASSUME NEW p \in Probes, AskSnapshot(p) PROVE Kept'
  BY <1>2 DEF AskSnapshot
<1>3. ASSUME NEW p \in Probes, JudgeFresh(p) PROVE Kept'
  BY <1>3 DEF JudgeFresh
<1>4. ASSUME NEW p \in Probes, AnswerCached(p) PROVE Kept'
  BY <1>4 DEF AnswerCached, Forget
<1>5. ASSUME NEW p \in Probes, RunChecks(p) PROVE Kept'
  BY <1>5 DEF RunChecks
<1>6. ASSUME NEW p \in Probes, ResultOk(p) PROVE Kept'
  BY <1>6 DEF ResultOk
<1>7. ASSUME NEW p \in Probes, ResultNotOk(p) PROVE Kept'
  BY <1>7 DEF ResultNotOk
<1>8. ASSUME NEW p \in Probes, JudgeAlert(p) PROVE Kept'
  <2>1. CASE ShouldSend(p)
    BY <1>8, <2>1 DEF JudgeAlert
  <2>2. CASE ~ShouldSend(p)
    <3>1. /\ lastStatus = result[p] /\ result[p] \in Bad
          /\ alertedAt[result[p]] \in Nat
          /\ lastAlert \in Nat /\ lastAlert <= alertedAt[result[p]]
          /\ judged[p] \in Nat /\ judged[p] - lastAlert < Cooldown
      BY <1>8, <2>2 DEF JudgeAlert, ShouldSend
    <3>2. judged[p] - alertedAt[result[p]] < Cooldown
      BY <3>1
    <3> QED  BY <1>8, <2>2, <3>1, <3>2 DEF JudgeAlert
  <2> QED  BY <2>1, <2>2
<1>9. ASSUME NEW p \in Probes, KeepQuiet(p) PROVE Kept'
  BY <1>9 DEF KeepQuiet
<1>10. ASSUME NEW p \in Probes, SendAlert(p) PROVE Kept'
  <2>1. NotAhead' /\ OnlyBadIsJudged'
    BY <1>10 DEF SendAlert
  <2>2. StatusAlerted'
    <3>1. result[p] \in Bad /\ alertedAt' = [alertedAt EXCEPT ![result[p]] = hour]
      BY <1>10 DEF SendAlert
    <3>2. alertedAt'[lastStatus'] = hour /\ hour \in Nat
      BY <1>10, <3>1 DEF SendAlert
    <3>3. lastAlert # None => lastAlert <= hour
      OBVIOUS
    <3> QED  BY <1>10, <3>2, <3>3 DEF SendAlert
  <2>3. ASSUME NEW q \in Probes, place'[q] = "quiet"
        PROVE  alertedAt'[result'[q]] # None
               /\ judged'[q] - alertedAt'[result'[q]] < Cooldown
    BY <1>10, <2>3 DEF SendAlert
  <2> QED  BY <2>1, <2>2, <2>3
<1>11. ASSUME NEW p \in Probes, AlertSent(p) PROVE Kept'
  BY <1>11 DEF AlertSent
<1>12. ASSUME NEW p \in Probes, AnswerProbe(p) PROVE Kept'
  BY <1>12 DEF AnswerProbe, Forget
<1>13. ASSUME AlertTick PROVE Kept'
  BY <1>13 DEF AlertTick
<1>14. ASSUME UNCHANGED alertVars PROVE Kept'
  BY <1>14 DEF alertVars
<1> HIDE DEF Kept, AlertTypeOK, NotAhead, StatusAlerted, OnlyBadIsJudged, NoSilentOutage,
    Probing, PlaceAt, sharedVars, probeVars, Status, Bad
<1>15. Kept'
  BY <1>1, <1>2, <1>3, <1>4, <1>5, <1>6, <1>7, <1>8, <1>9, <1>10, <1>11, <1>12,
     <1>13, <1>14 DEF AlertNext, ProbeNext
<1> QED  BY <1>0, <1>15 DEF AlertInv, Kept

(* Every variable keeps its type, for any number of probes. *)
THEOREM AlertTypeCorrect == AlertSpec => []AlertTypeOK
<1>1. AlertInv => AlertTypeOK
  BY DEF AlertInv
<1> QED  BY AlertInvInit, AlertInvStep, <1>1, PTL DEF AlertSpec

(* A result is kept from the operators only when an alert of the same      *)
(* status was begun less than a cooldown before it was judged, however     *)
(* many probes run _notify_if_readiness_non_ok at once.                    *)
THEOREM OutagesReported == AlertSpec => []NoSilentOutage
<1>1. AlertInv => NoSilentOutage
  BY DEF AlertInv
<1> QED  BY AlertInvInit, AlertInvStep, <1>1, PTL DEF AlertSpec

-----------------------------------------------------------------------------
(***************************************************************************)
(* The figures. An answer comes out of two caches, one over the other, and *)
(* out of Redis or memory. StaleInv follows a count through them: what a   *)
(* snapshot, a reader's view and the cached answer hold of it, each as of  *)
(* its own time. FreshInv says the same of recorders whose invalidation    *)
(* was not undone: no cache can hold an answer without them.               *)
(***************************************************************************)

(* Times are of the past, and no call is older than Stall.                 *)
Timely ==
    /\ \A t \in StatsThreads :
          /\ began[t] <= clock
          /\ step[t] \notin AtRest => clock <= began[t] + Stall
    /\ \A s \in Readers : asked[s] <= clock
    /\ snapshot # Nothing => snapshot.time <= clock
    /\ payload # Nothing => payload.time <= clock
    /\ \A r \in Recorders : storedAt[r] <= clock

OnPrimary == {"primary", "lookup", "query", "fill", "keep", "failing"}

(* Memory is written and read only once Redis was given up, so what it     *)
(* holds is younger than any call that still asks Redis.                   *)
MemoryIsLate ==
    /\ memory # {} => degraded
    /\ \A t \in StatsThreads : step[t] = "fallback" => degraded
    /\ \A s \in Readers : step[s] \in OnPrimary =>
          \A r \in memory : began[s] <= storedAt[r]
    /\ \A s \in Readers : step[s] \in {"lookup", "query", "fill",
       "keep"} => began[s] <= asked[s]

(* A snapshot holds what Redis had counted when it was asked for.          *)
SnapshotHolds(S, t) == \A r \in redis : storedAt[r] < t => r \in S
SnapshotsHold ==
    /\ snapshot # Nothing => SnapshotHolds(snapshot.seen, snapshot.time)
    /\ \A s \in Readers :
          step[s] \in {"fill", "keep"} => SnapshotHolds(view[s], asked[s])

(* An answer may be behind a time t by what the snapshot's cache allows.   *)
Holds(S, t) ==
    \A r \in redis \cup memory :
        storedAt[r] + SnapshotTTL < t => r \in S \/ (degraded /\ r \notin memory)
AnswersHold ==
    /\ payload # Nothing => Holds(payload.seen, payload.time)
    /\ \A s \in Readers : step[s] = "publish" => Holds(view[s], began[s])

(* What is there when a call takes it from the cache, whoever put it there.*)
HitIsRecent ==
    \A s \in Readers :
        step[s] = "hit" /\ payload # Nothing =>
            began[s] <= payload.time + Larger(StatsTTL, Stall)

(* The inductive invariant.                                                *)
StaleInv ==
    /\ StatsTypeOK /\ Timely /\ MemoryIsLate /\ SnapshotsHold /\ AnswersHold
    /\ HitIsRecent /\ BoundedStaleness

-----------------------------------------------------------------------------
LEMMA ThreadSets ==
    /\ \A r \in Recorders : r \in StatsThreads
    /\ \A s \in Readers : s \in StatsThreads /\ s \notin Recorders
BY MonitoringStatsAssumption DEF StatsThreads

LEMMA TakenCached ==
    ASSUME NEW S \in SUBSET Recorders, NEW t \in Nat
    PROVE  /\ Taken(S, t) \in Cached /\ Taken(S, t) # Nothing
           /\ Taken(S, t).seen = S /\ Taken(S, t).time = t
BY MonitoringStatsAssumption DEF Taken, Cached

LEMMA CachedParts ==
    ASSUME NEW c \in Cached, c # Nothing
    PROVE  c.seen \in SUBSET Recorders /\ c.time \in Nat
BY DEF Cached

LEMMA LargerBounds ==
    /\ Larger(StatsTTL, Stall) \in Nat
    /\ StatsTTL <= Larger(StatsTTL, Stall) /\ Stall <= Larger(StatsTTL, Stall)
BY MonitoringStatsAssumption DEF Larger

LEMMA StatsTypeStep == StatsTypeOK /\ [StatsNext]_statsVars => StatsTypeOK'
<1> SUFFICES ASSUME StatsTypeOK, [StatsNext]_statsVars PROVE StatsTypeOK'
  OBVIOUS
<1> DEFINE T == /\ clock \in Nat
                /\ redis \subseteq Recorders /\ memory \subseteq Recorders
                /\ storedAt \in [Recorders -> Nat]
                /\ snapshot \in Cached /\ payload \in Cached
                /\ began \in [StatsThreads -> Nat]
                /\ asked \in [Readers -> Nat]
                /\ view \in [Readers -> SUBSET Recorders]
                /\ raced \subseteq Recorders
                /\ due \in [Readers -> SUBSET Recorders]
<1>0. T /\ step \in [StatsThreads -> StatsStep] /\ degraded \in BOOLEAN
  BY DEF StatsTypeOK
<1>a. step' \in [StatsThreads -> StatsStep]
  BY <1>0 DEF StatsNext, RecorderNext, ReaderNext, RecordBegin, RecordInvalidate, RecordSend,
     RecordSendFails, RecordInMemory, DropStats, RecordElsewhere, StatsBegin, StatsJudge,
     StatsHit, StatsHitFails, SnapshotBegin, SnapshotLookup, SnapshotQuery, SnapshotFill,
     SnapshotFails, SnapshotKeep, SnapshotFromMemory, StatsPublish, Dispatch, MarkDegraded,
     StatsTick, statsVars, StepTo, Moves, StatsStep, AtRest, Building
<1>b. degraded' \in BOOLEAN
  BY <1>0 DEF StatsNext, RecorderNext, ReaderNext, RecordBegin, RecordInvalidate, RecordSend,
     RecordSendFails, RecordInMemory, DropStats, RecordElsewhere, StatsBegin, StatsJudge,
     StatsHit, StatsHitFails, SnapshotBegin, SnapshotLookup, SnapshotQuery, SnapshotFill,
     SnapshotFails, SnapshotKeep, SnapshotFromMemory, StatsPublish, Dispatch, MarkDegraded,
     StatsTick, statsVars, storeVars
<1>c. \A t \in StatsThreads : Spoiled(t) \subseteq Recorders
  BY DEF Spoiled, OnTheWay
<1>d. Nothing \in Cached
  BY DEF Cached
<1> USE <1>0, <1>c, <1>d, ThreadSets DEF storeVars, cacheVars, readerVars, Store, See
<1>1. ASSUME NEW r \in Recorders, RecordBegin(r) PROVE T'
  BY <1>1 DEF RecordBegin
<1>2. ASSUME NEW r \in Recorders, RecordInvalidate(r) PROVE T'
  BY <1>2 DEF RecordInvalidate
<1>3. ASSUME NEW r \in Recorders, RecordSend(r) PROVE T'
  BY <1>3 DEF RecordSend
<1>4. ASSUME NEW r \in Recorders, RecordSendFails(r) PROVE T'
  BY <1>4 DEF RecordSendFails
<1>5. ASSUME NEW r \in Recorders, RecordInMemory(r) PROVE T'
  BY <1>5 DEF RecordInMemory
<1>6. ASSUME NEW r \in Recorders, DropStats(r) PROVE T'
  BY <1>6 DEF DropStats
<1>7. ASSUME NEW r \in Recorders, RecordElsewhere(r) PROVE T'
  BY <1>7 DEF RecordElsewhere
<1>8. ASSUME NEW s \in Readers, StatsBegin(s) PROVE T'
  BY <1>8 DEF StatsBegin
<1>9. ASSUME NEW s \in Readers, StatsJudge(s) PROVE T'
  BY <1>9 DEF StatsJudge
<1>10. ASSUME NEW s \in Readers, StatsHit(s) PROVE T'
  BY <1>10, CachedParts DEF StatsHit
<1>11. ASSUME NEW s \in Readers, StatsHitFails(s) PROVE T'
  BY <1>11 DEF StatsHitFails
<1>12. ASSUME NEW s \in Readers, SnapshotBegin(s) PROVE T'
  BY <1>12 DEF SnapshotBegin
<1>13. ASSUME NEW s \in Readers, SnapshotLookup(s) PROVE T'
  BY <1>13, CachedParts DEF SnapshotLookup, SnapshotFresh
<1>14. ASSUME NEW s \in Readers, SnapshotQuery(s) PROVE T'
  BY <1>14 DEF SnapshotQuery
<1>15. ASSUME NEW s \in Readers, SnapshotFill(s) PROVE T'
  BY <1>15 DEF SnapshotFill
<1>16. ASSUME NEW s \in Readers, SnapshotFails(s) PROVE T'
  BY <1>16 DEF SnapshotFails
<1>17. ASSUME NEW s \in Readers, SnapshotKeep(s) PROVE T'
  BY <1>17, TakenCached DEF SnapshotKeep
<1>18. ASSUME NEW s \in Readers, SnapshotFromMemory(s) PROVE T'
  BY <1>18 DEF SnapshotFromMemory
<1>19. ASSUME NEW s \in Readers, StatsPublish(s) PROVE T'
  BY <1>19, TakenCached DEF StatsPublish
<1>20. ASSUME NEW t \in StatsThreads, Dispatch(t) PROVE T'
  BY <1>20 DEF Dispatch
<1>21. ASSUME NEW t \in StatsThreads, MarkDegraded(t) PROVE T'
  BY <1>21 DEF MarkDegraded
<1>22. ASSUME StatsTick PROVE T'
  BY <1>22 DEF StatsTick
<1>23. ASSUME UNCHANGED statsVars PROVE T'
  BY <1>23 DEF statsVars
<1> HIDE DEF T
<1> QED
  <2>1. T'
    BY <1>1, <1>2, <1>3, <1>4, <1>5, <1>6, <1>7, <1>8, <1>9, <1>10, <1>11, <1>12,
       <1>13, <1>14, <1>15, <1>16, <1>17, <1>18, <1>19, <1>20, <1>21, <1>22, <1>23
          DEF StatsNext, RecorderNext, ReaderNext
  <2> QED  BY <1>a, <1>b, <2>1 DEF StatsTypeOK, T

LEMMA StaleInvStep == StaleInv /\ [StatsNext]_statsVars => StaleInv'
<1> SUFFICES ASSUME StaleInv, [StatsNext]_statsVars PROVE StaleInv'
  OBVIOUS
<1>0. StatsTypeOK /\ StatsTypeOK'
  BY StatsTypeStep DEF StaleInv
<1> DEFINE Kept == /\ Timely /\ MemoryIsLate /\ SnapshotsHold
                   /\ AnswersHold /\ HitIsRecent /\ BoundedStaleness
<1>k. Kept
  BY DEF StaleInv
<1> USE <1>0, <1>k, ThreadSets, MonitoringStatsAssumption, LargerBounds, CachedParts,
   TakenCached
    DEF StatsTypeOK, Timely, MemoryIsLate, SnapshotsHold, SnapshotHolds, AnswersHold,
       Holds, HitIsRecent, BoundedStaleness,
    storeVars, cacheVars, readerVars, Store, See, Moves, StepTo, AtRest, Building, OnPrimary
<1>1. ASSUME NEW r \in Recorders, RecordBegin(r) PROVE Kept'
  BY <1>1 DEF RecordBegin
<1>2. ASSUME NEW r \in Recorders, RecordInvalidate(r) PROVE Kept'
  BY <1>2 DEF RecordInvalidate
<1>3. ASSUME NEW r \in Recorders, RecordSend(r) PROVE Kept'
  BY <1>3 DEF RecordSend
<1>4. ASSUME NEW r \in Recorders, RecordSendFails(r) PROVE Kept'
  BY <1>4 DEF RecordSendFails
<1>5. ASSUME NEW r \in Recorders, RecordInMemory(r) PROVE Kept'
  BY <1>5 DEF RecordInMemory
<1>6. ASSUME NEW r \in Recorders, DropStats(r) PROVE Kept'
  BY <1>6 DEF DropStats
<1>7. ASSUME NEW r \in Recorders, RecordElsewhere(r) PROVE Kept'
  BY <1>7 DEF RecordElsewhere
<1>8. ASSUME NEW s \in Readers, StatsBegin(s) PROVE Kept'
  BY <1>8 DEF StatsBegin
<1>9. ASSUME NEW s \in Readers, StatsJudge(s) PROVE Kept'
  <2>1. StatsFresh(began[s]) =>
           payload # Nothing /\ began[s] <= payload.time + Larger(StatsTTL, Stall)
    BY DEF StatsFresh
  <2> QED  BY <1>9, <2>1 DEF StatsJudge
<1>10. ASSUME NEW s \in Readers, StatsHit(s) PROVE Kept'
  BY <1>10 DEF StatsHit
<1>11. ASSUME NEW s \in Readers, StatsHitFails(s) PROVE Kept'
  BY <1>11 DEF StatsHitFails
<1>12. ASSUME NEW s \in Readers, SnapshotBegin(s) PROVE Kept'
  BY <1>12 DEF SnapshotBegin
<1>13. ASSUME NEW s \in Readers, SnapshotLookup(s) PROVE Kept'
  <2>1. CASE SnapshotFresh(asked[s])
    <3>1. /\ snapshot # Nothing /\ snapshot.seen \in SUBSET Recorders /\ snapshot.time \in Nat
          /\ asked[s] <= snapshot.time + SnapshotTTL
          /\ step[s] = "lookup" /\ began[s] <= asked[s]
      BY <1>13, <2>1 DEF SnapshotLookup, SnapshotFresh
    <3>2. \A r \in redis \cup memory :
             storedAt[r] + SnapshotTTL < began[s] => r \in snapshot.seen
      BY <3>1
    <3>3. view' = [view EXCEPT ![s] = snapshot.seen] /\ step' = [step EXCEPT ![s] = "publish"]
          /\ UNCHANGED <<clock, storeVars, cacheVars, began, asked, due, raced>>
      BY <1>13, <2>1 DEF SnapshotLookup
    <3> QED  BY <3>1, <3>2, <3>3
  <2>2. CASE ~SnapshotFresh(asked[s])
    BY <1>13, <2>2 DEF SnapshotLookup
  <2> QED  BY <2>1, <2>2
<1>14. ASSUME NEW s \in Readers, SnapshotQuery(s) PROVE Kept'
  BY <1>14 DEF SnapshotQuery
<1>15. ASSUME NEW s \in Readers, SnapshotFill(s) PROVE Kept'
  BY <1>15 DEF SnapshotFill
<1>16. ASSUME NEW s \in Readers, SnapshotFails(s) PROVE Kept'
  BY <1>16 DEF SnapshotFails
<1>17. ASSUME NEW s \in Readers, SnapshotKeep(s) PROVE Kept'
  BY <1>17 DEF SnapshotKeep
<1>18. ASSUME NEW s \in Readers, SnapshotFromMemory(s) PROVE Kept'
  BY <1>18 DEF SnapshotFromMemory
<1>19. ASSUME NEW s \in Readers, StatsPublish(s) PROVE Kept'
  BY <1>19 DEF StatsPublish
<1>20. ASSUME NEW t \in StatsThreads, Dispatch(t) PROVE Kept'
  BY <1>20 DEF Dispatch
<1>21. ASSUME NEW t \in StatsThreads, MarkDegraded(t) PROVE Kept'
  BY <1>21 DEF MarkDegraded
<1>22. ASSUME StatsTick PROVE Kept'
  BY <1>22 DEF StatsTick
<1>23. ASSUME UNCHANGED statsVars PROVE Kept'
  BY <1>23 DEF statsVars
<1> HIDE DEF Kept
<1> QED
  <2>1. Kept'
    BY <1>1, <1>2, <1>3, <1>4, <1>5, <1>6, <1>7, <1>8, <1>9, <1>10, <1>11, <1>12,
       <1>13, <1>14, <1>15, <1>16, <1>17, <1>18, <1>19, <1>20, <1>21, <1>22, <1>23
    DEF StatsNext, RecorderNext, ReaderNext
  <2> QED  BY <2>1, <1>0 DEF StaleInv, Kept

LEMMA StaleInvInit == StatsInit => StaleInv
<1> SUFFICES ASSUME StatsInit PROVE StaleInv
  OBVIOUS
<1>1. StatsTypeOK
  BY MonitoringStatsAssumption DEF StatsInit, StatsTypeOK, Cached, StatsStep, AtRest
<1>2. Timely /\ MemoryIsLate /\ SnapshotsHold /\ AnswersHold /\ HitIsRecent /\ BoundedStaleness
  BY ThreadSets, MonitoringStatsAssumption DEF StatsInit, AtRest, Timely, MemoryIsLate,
     SnapshotsHold,
     SnapshotHolds, AnswersHold, Holds, HitIsRecent, BoundedStaleness, OnPrimary
<1> QED  BY <1>1, <1>2 DEF StaleInv

(* The figures answered are never behind those recorded by more than the   *)
(* caches last, and the time one call may take, for any number of          *)
(* recorders and readers and any such times.                               *)
THEOREM StatsAreBoundedlyStale == StatsSpec => []BoundedStaleness
<1>1. StaleInv => BoundedStaleness
  BY DEF StaleInv
<1> QED  BY StaleInvInit, StaleInvStep, <1>1, PTL DEF StatsSpec

-----------------------------------------------------------------------------
(* A request that meets no reader while it is recorded finds nobody        *)
(* building, and the snapshot stays dropped until it is sent.              *)
WayIsClear ==
    \A r \in Recorders \ raced : step[r] \notin AtRest =>
        /\ \A s \in Readers : step[s] \notin Building
        /\ step[r] = "send" => snapshot = Nothing

(* Such a request, once counted, is in one of the repositories; memory is  *)
(* asked from then on if it is there, and the snapshots of Redis hold it   *)
(* if it is not.                                                           *)
Counted == {r \in Recorders \ raced : step[r] \in {"drop", "done"}}
CountedIsFound ==
    /\ \A r \in Counted :
          /\ r \in redis \cup memory
          /\ r \notin memory /\ snapshot # Nothing => r \in snapshot.seen
    /\ \A r \in memory \ raced, s \in Readers :
          step[s] \notin {"primary", "lookup", "query", "fill", "keep"}

(* What was recorded undisturbed, and what an answer under way or kept     *)
(* must show of it.                                                        *)
Recorded == {r \in Recorders \ raced : step[r] = "done"}
Shows(S) == \A r \in Recorded : r \in S \/ (degraded /\ r \notin memory)
RecordedIsShown ==
    /\ \A s \in Readers :
          /\ due[s] \subseteq Recorded
          /\ step[s] \in {"fill", "keep"} => Recorded \ memory \subseteq view[s]
          /\ step[s] = "publish" => Shows(view[s])
    /\ payload # Nothing => Shows(payload.seen)

(* The inductive invariant, on top of StaleInv.                            *)
FreshInv == WayIsClear /\ CountedIsFound /\ RecordedIsShown /\ FreshUnlessRaced

LEMMA FreshInvStep == StaleInv /\ FreshInv /\ [StatsNext]_statsVars => FreshInv'
<1> SUFFICES ASSUME StaleInv, FreshInv, [StatsNext]_statsVars PROVE FreshInv'
  OBVIOUS
<1>0. StatsTypeOK /\ MemoryIsLate
  BY DEF StaleInv
<1> DEFINE Kept == WayIsClear /\ CountedIsFound /\ RecordedIsShown /\ FreshUnlessRaced
<1>k. Kept
  BY DEF FreshInv
<1> USE <1>0, <1>k, ThreadSets, MonitoringStatsAssumption, CachedParts, TakenCached
    DEF StatsTypeOK, MemoryIsLate, WayIsClear, Counted, CountedIsFound, Recorded,
       Shows, RecordedIsShown, FreshUnlessRaced,
    storeVars, cacheVars, readerVars, Store, See, Moves, StepTo, AtRest, Building,
       OnPrimary, Spoiled, OnTheWay
<1>1. ASSUME NEW r \in Recorders, RecordBegin(r) PROVE Kept'
  BY <1>1 DEF RecordBegin
<1>2. ASSUME NEW r \in Recorders, RecordInvalidate(r) PROVE Kept'
  BY <1>2 DEF RecordInvalidate
<1>3. ASSUME NEW r \in Recorders, RecordSend(r) PROVE Kept'
  BY <1>3 DEF RecordSend
<1>4. ASSUME NEW r \in Recorders, RecordSendFails(r) PROVE Kept'
  BY <1>4 DEF RecordSendFails
<1>5. ASSUME NEW r \in Recorders, RecordInMemory(r) PROVE Kept'
  BY <1>5 DEF RecordInMemory
<1>6. ASSUME NEW r \in Recorders, DropStats(r) PROVE Kept'
  BY <1>6 DEF DropStats
<1>7. ASSUME NEW r \in Recorders, RecordElsewhere(r) PROVE Kept'
  BY <1>7 DEF RecordElsewhere
<1>8. ASSUME NEW s \in Readers, StatsBegin(s) PROVE Kept'
  BY <1>8 DEF StatsBegin
<1>9. ASSUME NEW s \in Readers, StatsJudge(s) PROVE Kept'
  BY <1>9 DEF StatsJudge
<1>10. ASSUME NEW s \in Readers, StatsHit(s) PROVE Kept'
  BY <1>10 DEF StatsHit
<1>11. ASSUME NEW s \in Readers, StatsHitFails(s) PROVE Kept'
  BY <1>11 DEF StatsHitFails
<1>12. ASSUME NEW s \in Readers, SnapshotBegin(s) PROVE Kept'
  BY <1>12 DEF SnapshotBegin
<1>13. ASSUME NEW s \in Readers, SnapshotLookup(s) PROVE Kept'
  <2>1. CASE SnapshotFresh(asked[s])
    <3>1. /\ snapshot # Nothing /\ snapshot.seen \in SUBSET Recorders /\ step[s] = "lookup"
      BY <1>13, <2>1 DEF SnapshotLookup, SnapshotFresh
    <3>2. Shows(snapshot.seen) /\ memory \cap Counted = {}
      BY <3>1
    <3>3. view' = [view EXCEPT ![s] = snapshot.seen] /\ step' = [step EXCEPT ![s] = "publish"]
          /\ UNCHANGED <<clock, storeVars, cacheVars, began, asked, due, raced>>
      BY <1>13, <2>1 DEF SnapshotLookup
    <3> QED  BY <3>1, <3>2, <3>3
  <2>2. CASE ~SnapshotFresh(asked[s])
    BY <1>13, <2>2 DEF SnapshotLookup
  <2> QED  BY <2>1, <2>2
<1>14. ASSUME NEW s \in Readers, SnapshotQuery(s) PROVE Kept'
  BY <1>14 DEF SnapshotQuery
<1>15. ASSUME NEW s \in Readers, SnapshotFill(s) PROVE Kept'
  BY <1>15 DEF SnapshotFill
<1>16. ASSUME NEW s \in Readers, SnapshotFails(s) PROVE Kept'
  BY <1>16 DEF SnapshotFails
<1>17. ASSUME NEW s \in Readers, SnapshotKeep(s) PROVE Kept'
  BY <1>17 DEF SnapshotKeep
<1>18. ASSUME NEW s \in Readers, SnapshotFromMemory(s) PROVE Kept'
  BY <1>18 DEF SnapshotFromMemory
<1>19. ASSUME NEW s \in Readers, StatsPublish(s) PROVE Kept'
  BY <1>19 DEF StatsPublish
<1>20. ASSUME NEW t \in StatsThreads, Dispatch(t) PROVE Kept'
  BY <1>20 DEF Dispatch
<1>21. ASSUME NEW t \in StatsThreads, MarkDegraded(t) PROVE Kept'
  BY <1>21 DEF MarkDegraded
<1>22. ASSUME StatsTick PROVE Kept'
  BY <1>22 DEF StatsTick
<1>23. ASSUME UNCHANGED statsVars PROVE Kept'
  BY <1>23 DEF statsVars
<1> HIDE DEF Kept
<1> QED
  <2>1. Kept'
    BY <1>1, <1>2, <1>3, <1>4, <1>5, <1>6, <1>7, <1>8, <1>9, <1>10, <1>11, <1>12,
       <1>13, <1>14, <1>15, <1>16, <1>17, <1>18, <1>19, <1>20, <1>21, <1>22, <1>23
    DEF StatsNext, RecorderNext, ReaderNext
  <2> QED  BY <2>1 DEF FreshInv, Kept

LEMMA FreshInvInit == StatsInit => FreshInv
BY ThreadSets DEF StatsInit, FreshInv, WayIsClear, Counted, CountedIsFound, Recorded,
   RecordedIsShown, FreshUnlessRaced, AtRest, Building

(* Whoever asks after a request was recorded finds it in the figures,      *)
(* unless an answer was being built meanwhile, another process recorded    *)
(* it, or this one gave up the Redis that counted it: for any number of    *)
(* recorders and readers.                                                  *)
THEOREM StatsAreFreshUnlessRaced == StatsSpec => []FreshUnlessRaced
<1>1. FreshInv => FreshUnlessRaced
  BY DEF FreshInv
<1> QED  BY StaleInvInit, StaleInvStep, FreshInvInit, FreshInvStep, <1>1, PTL DEF StatsSpec

-----------------------------------------------------------------------------
(***************************************************************************)
(* The time series. A request is stored with the time it began, so         *)
(* requests may be stored out of order, and the queue in memory is pruned  *)
(* only as far as the first that is young enough. SeriesInv says that each *)
(* request is in the bucket of its time, or in the one before, and that    *)
(* the queue misses only what has left the window.                         *)
(***************************************************************************)

(* The order of the numbers, as a relation the library's theorems speak    *)
(* of.                                                                     *)
LEMMA LessIsWellFounded ==
    \E R : IsWellFoundedOn(R, Nat) /\ \A x, y \in Nat : y < x => <<y, x>> \in R
<1>1. \A x, y \in Nat : y < x => <<y,x>> \in OpToRel(<, Nat)
  BY DEF OpToRel
<1> QED BY <1>1, NatLessThanWellFounded, Zenon

(* Of any set of numbers that is not empty one is the least.               *)
LEMMA LeastNat ==
    ASSUME NEW T \in SUBSET Nat, T # {}
    PROVE  \E x \in T : \A y \in T : x <= y
<1> PICK R : IsWellFoundedOn(R, Nat) /\ \A x, y \in Nat : y < x => <<y, x>> \in R
  BY LessIsWellFounded
<1>2. \E x \in T : \A y \in T : ~ (<<y, x>> \in R)
  BY WFMin
<1>3. PICK x \in T : \A y \in T : ~ (<<y, x>> \in R)
  BY <1>2
<1>4. \A y \in T : ~(y < x)
  BY <1>3, Zenon
<1> QED BY <1>4

(* The lengths the configuration leaves are positive.                      *)
LEMMA SeriesLengths ==
    /\ SeriesWindow \in Nat \ {0} /\ SeriesBucket \in Nat \ {0}
    /\ BucketCount \in Nat /\ EffectiveWindow \in Nat
    /\ EffectiveWindow >= SeriesWindow
<1>1. SeriesWindow \in Nat \ {0} /\ SeriesBucket \in Nat \ {0}
  BY RealtimeSeriesAssumption DEF SeriesWindow, SeriesBucket, AtLeastOne
<1> DEFINE w == SeriesWindow  b == SeriesBucket
<1>2. w \in Nat \ {0} /\ b \in Nat \ {0}
  BY <1>1
<1>3. BucketCount = (w + b - 1) \div b
  BY DEF BucketCount
<1> HIDE DEF w, b
<1>4. /\ (w + b - 1) \div b \in Nat
      /\ b * ((w + b - 1) \div b) >= w
  BY <1>2
<1> QED  BY <1>1, <1>2, <1>3, <1>4 DEF EffectiveWindow, w, b

(* Floor rounds down to a multiple of the bucket and keeps the order.      *)
LEMMA FloorBounds ==
    ASSUME NEW t \in Int
    PROVE  Floor(t) \in Int /\ Floor(t) <= t /\ t < Floor(t) + SeriesBucket
BY SeriesLengths DEF Floor

LEMMA FloorAhead ==
    ASSUME NEW t \in Int, NEW u \in Int, NEW k \in Int, u <= t + k * SeriesBucket
    PROVE  Floor(u) <= Floor(t) + k * SeriesBucket
<1> DEFINE b == SeriesBucket  q == t \div b  p == u \div b
<1>1. b \in Nat \ {0}
  BY SeriesLengths
<1>2. q \in Int /\ p \in Int /\ t < b * q + b /\ b * p <= u
  BY <1>1
<1>3. Floor(u) = b * p /\ Floor(t) = b * q /\ u <= t + k * b
  BY <1>1, <1>2 DEF Floor
<1> HIDE DEF b, q, p
<1>4. b * p < b * (q + k + 1)
  BY <1>1, <1>2, <1>3
<1>5. p < q + k + 1
  BY <1>1, <1>2, <1>4
<1>6. b * p <= b * (q + k)
  BY <1>1, <1>2, <1>5
<1> QED  BY <1>1, <1>2, <1>3, <1>6 DEF b

LEMMA FloorOrder ==
    ASSUME NEW t \in Int, NEW u \in Int, u <= t PROVE Floor(u) <= Floor(t)
<1>1. Floor(u) <= Floor(t) + 0 * SeriesBucket
  <2>1. SeriesBucket \in Nat /\ 0 \in Int
    BY SeriesLengths
  <2>2. u <= t + 0 * SeriesBucket
    BY <2>1
  <2> QED  BY <2>1, <2>2, FloorAhead
<1>2. Floor(t) \in Int /\ SeriesBucket \in Nat
  BY SeriesLengths, FloorBounds
<1> QED  BY <1>1, <1>2

LEMMA AppendFacts ==
    ASSUME NEW S, NEW q \in Seq(S), NEW e \in S
    PROVE  /\ Append(q, e) \in Seq(S) /\ Len(Append(q, e)) = Len(q) + 1
           /\ Len(q) \in Nat /\ DOMAIN q = 1 .. Len(q)
           /\ DOMAIN Append(q, e) = 1 .. Len(q) + 1
           /\ \A n \in 1 .. Len(q) : Append(q, e)[n] = q[n]
           /\ Append(q, e)[Len(q) + 1] = e
BY AppendProperties, LenProperties

(* What is left of a sequence from some place on.                          *)
LEMMA SuffixFacts ==
    ASSUME NEW S, NEW q \in Seq(S), NEW first \in 1 .. Len(q) + 1
    PROVE  /\ SubSeq(q, first, Len(q)) \in Seq(S)
           /\ \A n \in first .. Len(q) :
                 \E m \in DOMAIN SubSeq(q, first, Len(q)) : SubSeq(q, first, Len(q))[m] = q[n]
<1>1. Len(q) \in Nat /\ first \in Nat /\ \A m \in first .. Len(q) : q[m] \in S
  BY LenProperties, ElementOfSeq
<1> DEFINE rest == SubSeq(q, first, Len(q))
<1>2. /\ rest \in Seq(S)
      /\ Len(rest) = IF first <= Len(q) THEN Len(q) - first + 1 ELSE 0
      /\ \A m \in 1 .. Len(q) - first + 1 : rest[m] = q[first + m - 1]
  BY <1>1, SubSeqProperties
<1> HIDE DEF rest
<1>3. ASSUME NEW n \in first .. Len(q) PROVE \E m \in DOMAIN rest : rest[m] = q[n]
  <2>1. n - first + 1 \in 1 .. Len(q) - first + 1 /\ first + (n - first + 1) - 1 = n
    BY <1>1
  <2>2. n - first + 1 \in 1 .. Len(rest) /\ rest[n - first + 1] = q[n]
    BY <1>1, <1>2, <2>1
  <2>3. DOMAIN rest = 1 .. Len(rest)
    BY <1>2, LenProperties
  <2> QED  BY <2>2, <2>3
<1> QED  BY <1>2, <1>3 DEF rest

(* Pruning takes only what is too old, and keeps the rest.                 *)
LEMMA PrunedKeeps ==
    ASSUME wall \in Nat, stored' \in Seq(Int), NEW q \in Seq(1 .. Len(stored'))
    PROVE  /\ Pruned(q) \in Seq(1 .. Len(stored'))
           /\ \A n \in DOMAIN q :
                 TooOld(q[n]) \/ \E m \in DOMAIN Pruned(q) : Pruned(q)[m] = q[n]
<1> DEFINE first == FirstKept(q)
           N == {n \in 1 .. Len(q) + 1 : n <= Len(q) => ~TooOld(q[n])}
           Good(n) == /\ \A m \in 1 .. n - 1 : TooOld(q[m])
                      /\ n <= Len(q) => ~TooOld(q[n])
<1>1. \E x \in N : \A y \in N : x <= y
  <2>1. Len(q) + 1 \in N /\ N \in SUBSET Nat
    OBVIOUS
  <2> QED  BY <2>1, LeastNat
<1>2. \E x \in 1 .. Len(q) + 1 : Good(x)
  <2>1. PICK x \in N : \A y \in N : x <= y
    BY <1>1
  <2>2. ASSUME NEW m \in 1 .. x - 1 PROVE TooOld(q[m])
    BY <2>1, <2>2
  <2> QED  BY <2>1, <2>2
<1>3. first \in 1 .. Len(q) + 1 /\ \A m \in 1 .. first - 1 : TooOld(q[m])
  BY <1>2 DEF FirstKept
<1> HIDE DEF first
<1>4. Pruned(q) = SubSeq(q, first, Len(q))
  BY DEF Pruned, first
<1>5. /\ Pruned(q) \in Seq(1 .. Len(stored'))
      /\ \A n \in first .. Len(q) : \E m \in DOMAIN Pruned(q) : Pruned(q)[m] = q[n]
  <2> DEFINE S == 1 .. Len(stored')
  <2>1. q \in Seq(S)
    OBVIOUS
  <2> HIDE DEF S
  <2>2. /\ Pruned(q) \in Seq(S)
        /\ \A n \in first .. Len(q) : \E m \in DOMAIN Pruned(q) : Pruned(q)[m] = q[n]
    BY <1>3, <1>4, <2>1, SuffixFacts
  <2> QED  BY <2>2 DEF S
<1>6. ASSUME NEW n \in DOMAIN q, ~TooOld(q[n])
      PROVE  \E m \in DOMAIN Pruned(q) : Pruned(q)[m] = q[n]
  <2>1. n \in 1 .. Len(q) /\ Len(q) \in Nat /\ first \in Nat
    BY <1>3, LenProperties
  <2>2. n >= first
    BY <1>3, <1>6, <2>1
  <2> QED  BY <1>5, <2>1, <2>2
<1> QED  BY <1>5, <1>6

(* Each request is in the bucket of its time, or in the one before if that *)
(* was the current one at the very start of its own; the queue misses only *)
(* what has left the window, unless it was full.                           *)
InItsBucket ==
    \A i \in DOMAIN stored :
        /\ stored[i] <= wall
        /\ Floor(stored[i] - 1) <= bucketOf[i] /\ bucketOf[i] <= Floor(stored[i])
        /\ bucketOf[i] <= CurrentBucket(wall)
KeptOrOld ==
    \A i \in DOMAIN stored :
        \/ stored[i] < wall - SeriesWindow
        \/ crowded
        \/ \E n \in DOMAIN recent : recent[n] = i
(* The inductive invariant.                                                *)
SeriesInv == SeriesTypeOK /\ InItsBucket /\ KeptOrOld

LEMMA SeriesInvInit == SeriesInit => SeriesInv
<1> SUFFICES ASSUME SeriesInit PROVE SeriesInv
  OBVIOUS
<1>1. stored = <<>> /\ recent = <<>> /\ bucketOf = <<>> /\ wall = 0 /\ crowded = FALSE
  BY DEF SeriesInit
<1>2. crowded \in BOOLEAN
  BY <1>1
<1>3. SeriesTypeOK
  BY <1>1, <1>2, EmptySeq DEF SeriesTypeOK
<1>4. DOMAIN stored = {}
  BY <1>1
<1> QED  BY <1>3, <1>4 DEF SeriesInv, InItsBucket, KeptOrOld

LEMMA SeriesInvStore ==
    ASSUME SeriesInv, NEW created \in (wall - Lag) .. wall, StoreRequest(created)
    PROVE  SeriesInv'
<1> DEFINE queue == Append(recent, Len(stored) + 1)
           k == Len(stored) + 1
<1>0. /\ wall \in Nat /\ created \in Int /\ created <= wall /\ k \in Nat
      /\ stored \in Seq(Int) /\ bucketOf \in Seq(Int) /\ Len(bucketOf) = Len(stored)
      /\ recent \in Seq(1 .. Len(stored)) /\ crowded \in BOOLEAN
  BY RealtimeSeriesAssumption DEF SeriesInv, SeriesTypeOK
<1>1. /\ stored' = Append(stored, created) /\ wall' = wall
      /\ bucketOf' = Append(bucketOf, RecordBucket(created, wall))
      /\ recent' = Pruned(Cut(queue))
      /\ crowded' = (crowded \/ Cut(queue) # queue)
  BY DEF StoreRequest
<1>2. stored' \in Seq(Int) /\ Len(stored') = k
  BY <1>0, <1>1
<1>3. queue \in Seq(1 .. k) /\ Cut(queue) \in Seq(1 .. Len(stored'))
  <2>1. recent \in Seq(1 .. k) /\ k \in 1 .. k
    BY <1>0, SeqMonotonic
  <2>2. queue \in Seq(1 .. k) /\ queue # <<>>
    <3> DEFINE S == 1 .. k
    <3>1. recent \in Seq(S) /\ k \in S
      BY <2>1
    <3> HIDE DEF S
    <3>2. queue \in Seq(S) /\ queue # <<>>
      BY <3>1, AppendProperties
    <3> QED  BY <3>2 DEF S
  <2>3. Tail(queue) \in Seq(1 .. k)
    BY <2>2, HeadTailProperties
  <2> QED  BY <1>2, <2>2, <2>3 DEF Cut
<1>4. /\ recent' \in Seq(1 .. Len(stored'))
      /\ \A n \in DOMAIN Cut(queue) :
            \/ TooOld(Cut(queue)[n])
            \/ \E m \in DOMAIN recent' : recent'[m] = Cut(queue)[n]
  BY <1>0, <1>1, <1>2, <1>3, PrunedKeeps
<1>5. /\ RecordBucket(created, wall) \in Int
      /\ Floor(created - 1) <= RecordBucket(created, wall)
      /\ RecordBucket(created, wall) <= Floor(created)
      /\ RecordBucket(created, wall) <= CurrentBucket(wall)
  <2>1. Floor(created - 1) <= Floor(created) /\ Floor(created - 1) <= Floor(wall - 1)
    BY <1>0, FloorOrder
  <2>2. Floor(created) \in Int /\ Floor(wall - 1) \in Int
    BY <1>0, FloorBounds
  <2> QED  BY <2>1, <2>2 DEF RecordBucket, CurrentBucket
<1>9. /\ DOMAIN stored = 1 .. Len(stored) /\ DOMAIN stored' = 1 .. k
      /\ \A i \in 1 .. Len(stored) : stored'[i] = stored[i] /\ bucketOf'[i] = bucketOf[i]
      /\ stored'[k] = created /\ bucketOf'[k] = RecordBucket(created, wall)
  BY <1>0, <1>1, <1>2, <1>5, AppendProperties, LenProperties
<1>10. /\ DOMAIN recent = 1 .. Len(recent) /\ Len(recent) \in Nat
       /\ DOMAIN queue = 1 .. Len(recent) + 1
       /\ \A n \in 1 .. Len(recent) : queue[n] = recent[n]
       /\ queue[Len(recent) + 1] = k
  <2>1. recent \in Seq(1 .. k) /\ k \in 1 .. k
    BY <1>0, SeqMonotonic
  <2> QED  BY <2>1, AppendFacts
<1>6. SeriesTypeOK'
  <2>1. crowded' \in BOOLEAN
    BY <1>0, <1>1
  <2> QED  BY <1>0, <1>1, <1>2, <1>4, <1>5, <2>1 DEF SeriesTypeOK
<1>7. InItsBucket'
  <2> SUFFICES ASSUME NEW i \in 1 .. k
               PROVE  /\ stored'[i] <= wall
                      /\ Floor(stored'[i] - 1) <= bucketOf'[i]
                      /\ bucketOf'[i] <= Floor(stored'[i])
                      /\ bucketOf'[i] <= CurrentBucket(wall)
    BY <1>1, <1>2, LenProperties DEF InItsBucket, CurrentBucket, Floor
  <2>1. CASE i = k
    BY <1>0, <1>5, <1>9, <2>1
  <2>2. CASE i # k
    <3>1. i \in 1 .. Len(stored)
      BY <1>0, <2>2
    <3> QED  BY <1>9, <3>1 DEF SeriesInv, InItsBucket
  <2> QED  BY <2>1, <2>2
<1>8. KeptOrOld'
  <2> SUFFICES ASSUME NEW i \in DOMAIN stored', ~crowded', stored'[i] >= wall - SeriesWindow
               PROVE  \E n \in DOMAIN recent' : recent'[n] = i
    <3>1. \A i \in 1 .. k : stored'[i] \in Int
      BY <1>2, ElementOfSeq
    <3>2. \A i \in 1 .. k :
             stored'[i] >= wall - SeriesWindow \/ stored'[i] < wall - SeriesWindow
      BY <1>0, <3>1, SeriesLengths
    <3> QED  BY <1>1, <1>9, <3>2, Zenon DEF KeptOrOld
  <2>1. ~crowded /\ Cut(queue) = queue
    BY <1>0, <1>1
  <2>2. \E n \in DOMAIN queue : queue[n] = i
    <3>1. CASE i = k
      BY <1>10, <3>1
    <3>2. CASE i # k
      <4>1. i \in DOMAIN stored /\ stored[i] = stored'[i]
        <5>1. i \in 1 .. Len(stored)
          <6>1. i \in 1 .. k /\ Len(stored) \in Nat
            BY <1>0, <1>9, LenProperties
          <6> QED  BY <3>2, <6>1
        <5> QED  BY <1>9, <5>1
      <4>2. PICK n \in DOMAIN recent : recent[n] = i
        <5>1. stored[i] \in Int
          BY <1>0, <4>1, <1>9, ElementOfSeq
        <5>2. ~(stored[i] < wall - SeriesWindow)
          BY <1>0, <4>1, <5>1, SeriesLengths
        <5> QED  BY <2>1, <4>1, <5>2, Zenon DEF SeriesInv, KeptOrOld
      <4>3. n \in DOMAIN queue /\ queue[n] = i
        BY <1>10, <4>2
      <4> QED  BY <4>3
    <3> QED  BY <3>1, <3>2
  <2>3. ~TooOld(i)
    <3>1. stored'[i] \in Int
      BY <1>2, <1>9, ElementOfSeq
    <3> QED  BY <1>0, <3>1, SeriesLengths DEF TooOld
  <2> QED  BY <1>4, <2>1, <2>2, <2>3
<1> QED  BY <1>6, <1>7, <1>8 DEF SeriesInv

LEMMA SeriesInvRead == SeriesInv /\ ReadSeries => SeriesInv'
<1> SUFFICES ASSUME SeriesInv, ReadSeries PROVE SeriesInv'
  OBVIOUS
<1>0. /\ wall \in Nat /\ stored \in Seq(Int)
      /\ recent \in Seq(1 .. Len(stored)) /\ crowded \in BOOLEAN
  BY DEF SeriesInv, SeriesTypeOK
<1>1. /\ UNCHANGED <<wall, stored, bucketOf, crowded>>
      /\ recent' = Pruned(recent)
  BY DEF ReadSeries
<1>2. /\ recent' \in Seq(1 .. Len(stored'))
      /\ \A n \in DOMAIN recent :
            TooOld(recent[n]) \/ \E m \in DOMAIN recent' : recent'[m] = recent[n]
  BY <1>0, <1>1, PrunedKeeps
<1>3. SeriesTypeOK'
  <2>1. crowded' \in BOOLEAN
    BY <1>0, <1>1
  <2> QED  BY <1>1, <1>2, <2>1 DEF SeriesInv, SeriesTypeOK
<1>4. InItsBucket'
  BY <1>1 DEF SeriesInv, InItsBucket, CurrentBucket
<1>5. KeptOrOld'
  <2>1. \A i \in DOMAIN stored : stored[i] \in Int
    BY <1>0, LenProperties, ElementOfSeq
  <2>2. ASSUME NEW i \in DOMAIN stored, ~crowded, stored[i] >= wall - SeriesWindow
        PROVE  \E m \in DOMAIN recent' : recent'[m] = i
    <3>1. PICK n \in DOMAIN recent : recent[n] = i
      <4>1. ~(stored[i] < wall - SeriesWindow)
        BY <1>0, <2>1, <2>2, SeriesLengths
      <4> QED  BY <2>2, <4>1, Zenon DEF SeriesInv, KeptOrOld
    <3>2. ~TooOld(i)
      BY <1>0, <1>1, <2>1, <2>2, SeriesLengths DEF TooOld
    <3> QED  BY <1>2, <3>1, <3>2
  <2> QED  BY <1>0, <1>1, <2>1, <2>2, SeriesLengths DEF KeptOrOld
<1> QED  BY <1>3, <1>4, <1>5 DEF SeriesInv

LEMMA SeriesInvTick == SeriesInv /\ SeriesTick => SeriesInv'
<1> SUFFICES ASSUME SeriesInv, SeriesTick PROVE SeriesInv'
  OBVIOUS
<1>0. /\ wall \in Nat /\ stored \in Seq(Int) /\ bucketOf \in Seq(Int)
      /\ Len(bucketOf) = Len(stored)
  BY DEF SeriesInv, SeriesTypeOK
<1>1. wall' = wall + 1 /\ UNCHANGED <<stored, recent, bucketOf, crowded>>
  BY DEF SeriesTick
<1>2. SeriesTypeOK'
  <2>1. crowded' \in BOOLEAN
    BY <1>1 DEF SeriesInv, SeriesTypeOK
  <2> QED  BY <1>0, <1>1, <2>1 DEF SeriesInv, SeriesTypeOK
<1>3. InItsBucket'
  <2>1. /\ CurrentBucket(wall) \in Int /\ CurrentBucket(wall') \in Int
        /\ CurrentBucket(wall) <= CurrentBucket(wall')
    BY <1>0, <1>1, FloorBounds, FloorOrder DEF CurrentBucket
  <2> QED  BY <1>0, <1>1, <2>1 DEF SeriesInv, InItsBucket
<1>4. KeptOrOld'
  BY <1>0, <1>1, SeriesLengths DEF SeriesInv, KeptOrOld
<1> QED  BY <1>2, <1>3, <1>4 DEF SeriesInv

LEMMA SeriesInvCovers == SeriesInv => SeriesCoverWindow
<1> SUFFICES ASSUME SeriesInv, NEW i \in DOMAIN stored
             PROVE  /\ stored[i] >= wall - SeriesWindow => i \in MemorySeries \/ crowded
                    /\ stored[i] > wall - (BucketCount - 1) * SeriesBucket
                       => i \in RedisSeries
                    /\ i \in MemorySeries \cup RedisSeries
                       => stored[i] >= wall - EffectiveWindow
  BY DEF SeriesCoverWindow
<1>0. wall \in Nat /\ stored[i] \in Int /\ bucketOf[i] \in Int
  BY DEF SeriesInv, SeriesTypeOK
<1>1. /\ stored[i] <= wall
      /\ Floor(stored[i] - 1) <= bucketOf[i] /\ bucketOf[i] <= Floor(stored[i])
      /\ bucketOf[i] <= CurrentBucket(wall)
  BY DEF SeriesInv, InItsBucket
<1> DEFINE k == BucketCount - 1
<1>2. /\ k \in Int /\ k * SeriesBucket \in Int
      /\ EffectiveWindow = k * SeriesBucket + SeriesBucket
  BY SeriesLengths DEF EffectiveWindow
<1>3. OldestBucket(wall) = Floor(wall - 1) - k * SeriesBucket
  BY DEF OldestBucket, CurrentBucket
<1>4. /\ Floor(wall - 1) \in Int /\ wall - 1 < Floor(wall - 1) + SeriesBucket
      /\ Floor(stored[i]) \in Int /\ Floor(stored[i]) <= stored[i]
      /\ Floor(stored[i] - 1) \in Int
  BY <1>0, FloorBounds
<1>5. stored[i] >= wall - SeriesWindow => i \in MemorySeries \/ crowded
  BY <1>0, SeriesLengths DEF SeriesInv, KeptOrOld, MemorySeries
<1>6. stored[i] > wall - k * SeriesBucket => i \in RedisSeries
  <2> SUFFICES ASSUME stored[i] > wall - k * SeriesBucket
               PROVE  OldestBucket(wall) <= bucketOf[i]
    BY <1>1 DEF RedisSeries
  <2>1. wall - 1 <= (stored[i] - 1) + k * SeriesBucket
    BY <1>0, <1>2
  <2>2. Floor(wall - 1) <= Floor(stored[i] - 1) + k * SeriesBucket
    BY <1>0, <1>2, <2>1, FloorAhead
  <2> HIDE DEF k
  <2> QED  BY <1>0, <1>1, <1>2, <1>3, <1>4, <2>2
<1>7. i \in RedisSeries => stored[i] >= wall - EffectiveWindow
  <2> SUFFICES ASSUME OldestBucket(wall) <= bucketOf[i]
     PROVE stored[i] >= wall - EffectiveWindow
    BY DEF RedisSeries
  <2> HIDE DEF k
  <2>1. wall - 1 < bucketOf[i] + k * SeriesBucket + SeriesBucket
    BY <1>0, <1>2, <1>3, <1>4, SeriesLengths
  <2> QED  BY <1>0, <1>1, <1>2, <1>4, <2>1, SeriesLengths
<1>8. i \in MemorySeries => stored[i] >= wall - EffectiveWindow
  BY DEF MemorySeries
<1> QED  BY <1>5, <1>6, <1>7, <1>8

(* Both time series count every request of the window, whatever order they *)
(* are stored in, and none older than the buckets reach.                   *)
THEOREM SeriesAlwaysCoverWindow == SeriesSpec => []SeriesCoverWindow
<1>1. ASSUME SeriesInv, [SeriesNext]_seriesVars PROVE SeriesInv'
  <2>1. CASE UNCHANGED seriesVars
    <3>1. crowded' \in BOOLEAN
      BY <1>1, <2>1 DEF seriesVars, SeriesInv, SeriesTypeOK
    <3>2. SeriesTypeOK'
      BY <1>1, <2>1, <3>1 DEF seriesVars, SeriesInv, SeriesTypeOK
    <3> QED  BY <1>1, <2>1, <3>2 DEF seriesVars, SeriesInv, InItsBucket, KeptOrOld,
       CurrentBucket
  <2> QED  BY <1>1, <2>1, SeriesInvStore, SeriesInvRead, SeriesInvTick DEF SeriesNext
<1> QED  BY SeriesInvInit, <1>1, SeriesInvCovers, PTL DEF SeriesSpec
=============================================================================
