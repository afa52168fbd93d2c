-------------------------- MODULE ReadinessAlerts --------------------------
(***************************************************************************)
(* Readiness of one server process: /monitoring/ready/ runs the health     *)
(* checks, /monitoring/snapshot/ takes a recent result from a cache or     *)
(* runs them, and a result that is not ok is sent to the operators, unless *)
(* the same status was sent within the cooldown.  The threads share the    *)
(* cache, the last status and the time of the last alert without a lock;   *)
(* steps are cut at calls, as in MonitoringStats.                          *)
(***************************************************************************)
EXTENDS Integers

CONSTANTS Probes,        (* threads that answer one readiness or snapshot    *)
                         (* request after another                            *)
          ReadinessTTL,  (* MONITORING_SNAPSHOT_READINESS_CACHE_TTL_SECONDS  *)
          Cooldown,      (* MONITORING_READINESS_ALERT_COOLDOWN_SECONDS      *)
          AlertHorizon,  (* bound: the clock stops here                      *)
          None           (* stands for None                                  *)

ASSUME ReadinessAlertsAssumption ==
    /\ ReadinessTTL \in Nat /\ Cooldown \in Nat /\ AlertHorizon \in Nat
    /\ None \notin Nat /\ None \notin {"ok", "degraded", "down"}

VARIABLES
    hour,        (* seconds                                                  *)
    lastStatus,  (* _last_readiness_status                                   *)
    lastAlert,   (* _last_readiness_alert_time                               *)
    readiness,   (* when the result in _cached_snapshot_readiness was asked  *)
                 (* for, its _at                                             *)
    place,       (* where each probe is                                      *)
    asks,        (* what it was asked: "ready" or "snapshot"                 *)
    came,        (* the clock it read in snapshot_readiness                  *)
    result,      (* the status its checks gave                               *)
    judged,      (* the clock it read to judge the alert                     *)
    alertedAt    (* when the last alert of each status was begun             *)

sharedVars == <<lastStatus, lastAlert, readiness>>
probeVars == <<asks, came, result, judged>>
alertVars == <<hour, sharedVars, place, probeVars, alertedAt>>

Checks == {"critical", "other"}
Status == {"ok", "degraded", "down"}

(* _resolve_status, from the checks that failed; 503 unless "ok". *)
StatusOf(failed) ==
    IF "critical" \in failed THEN "down"
    ELSE IF "other" \in failed THEN "degraded" ELSE "ok"

AlertInit ==
    /\ hour = 0
    /\ lastStatus = None /\ lastAlert = None /\ readiness = None
    /\ place = [p \in Probes |-> "rest"]
    /\ asks = [p \in Probes |-> "ready"]
    /\ came = [p \in Probes |-> 0]
    /\ result = [p \in Probes |-> "ok"]
    /\ judged = [p \in Probes |-> 0]
    /\ alertedAt = [s \in Status |-> None]

PlaceAt(p, l) == place' = [place EXCEPT ![p] = l]
Probing(p, from, to) == place[p] = from /\ PlaceAt(p, to)

(* A request is answered, and what it knew is gone. *)
Forget(p) ==
    /\ asks' = [asks EXCEPT ![p] = "ready"]
    /\ came' = [came EXCEPT ![p] = 0]
    /\ result' = [result EXCEPT ![p] = "ok"]
    /\ judged' = [judged EXCEPT ![p] = 0]

-----------------------------------------------------------------------------
(* readiness() drops the cached result and runs the checks. *)
AskReady(p) ==
    /\ Probing(p, "rest", "checks")
    /\ readiness' = None
    /\ asks' = [asks EXCEPT ![p] = "ready"]
    /\ UNCHANGED <<hour, lastStatus, lastAlert, came, result, judged,
                   alertedAt>>

(* snapshot_readiness() reads the clock, judges the cached result, and     *)
(* reads it again.                                                         *)
AskSnapshot(p) ==
    /\ Probing(p, "rest", "fresh")
    /\ asks' = [asks EXCEPT ![p] = "snapshot"]
    /\ came' = [came EXCEPT ![p] = hour]
    /\ UNCHANGED <<hour, sharedVars, result, judged, alertedAt>>

ReadinessFresh(t) ==
    /\ readiness # None
    /\ ReadinessTTL > 0
    /\ t - readiness <= ReadinessTTL

JudgeFresh(p) ==
    /\ Probing(p, "fresh", IF ReadinessFresh(came[p]) THEN "cached"
                                                      ELSE "checks")
    /\ UNCHANGED <<hour, sharedVars, probeVars, alertedAt>>

(* The cached result; or an assertion error, when it is gone. *)
AnswerCached(p) ==
    /\ Probing(p, "cached", "rest")
    /\ Forget(p)
    /\ UNCHANGED <<hour, sharedVars, alertedAt>>

-----------------------------------------------------------------------------
(* The checks run, each as its dependency is at the moment. *)
RunChecks(p) ==
    /\ Probing(p, "checks", "result")
    /\ \E failed \in SUBSET Checks :
          result' = [result EXCEPT ![p] = StatusOf(failed)]
    /\ UNCHANGED <<hour, sharedVars, asks, came, judged, alertedAt>>

(* _notify_if_readiness_non_ok *)
ResultOk(p) ==
    /\ result[p] = "ok"
    /\ Probing(p, "result", "end")
    /\ lastStatus' = "ok"
    /\ UNCHANGED <<hour, lastAlert, readiness, probeVars, alertedAt>>

ResultNotOk(p) ==
    /\ result[p] # "ok"
    /\ Probing(p, "result", "judge")
    /\ judged' = [judged EXCEPT ![p] = hour]
    /\ UNCHANGED <<hour, sharedVars, asks, came, result, alertedAt>>

(* _should_send_readiness_alert *)
ShouldSend(p) ==
    \/ lastStatus # result[p]
    \/ lastAlert = None
    \/ judged[p] - lastAlert >= Cooldown

JudgeAlert(p) ==
    /\ Probing(p, "judge", IF ShouldSend(p) THEN "send" ELSE "quiet")
    /\ UNCHANGED <<hour, sharedVars, probeVars, alertedAt>>

KeepQuietSliding(p) ==
    /\ Probing(p, "quiet", "end")
    /\ lastAlert' = judged[p]
    /\ UNCHANGED <<hour, lastStatus, readiness, probeVars, alertedAt>>
KeepQuiet(p) ==
    /\ Probing(p, "quiet", "end")
    /\ UNCHANGED <<hour, sharedVars, probeVars, alertedAt>>

(* The status is kept, and the notifier called. *)
SendAlert(p) ==
    /\ Probing(p, "send", "sending")
    /\ lastStatus' = result[p]
    /\ alertedAt' = [alertedAt EXCEPT ![result[p]] = hour]
    /\ UNCHANGED <<hour, lastAlert, readiness, probeVars>>

(* It returns; whether it failed makes no difference. *)
AlertSent(p) ==
    /\ Probing(p, "sending", "end")
    /\ lastAlert' = judged[p]
    /\ UNCHANGED <<hour, lastStatus, readiness, probeVars, alertedAt>>

(* snapshot_readiness keeps the result under the time it was asked. *)
AnswerProbe(p) ==
    /\ Probing(p, "end", "rest")
    /\ readiness' = IF asks[p] = "ready" THEN readiness ELSE came[p]
    /\ Forget(p)
    /\ UNCHANGED <<hour, lastStatus, lastAlert, alertedAt>>

-----------------------------------------------------------------------------
AlertTick ==
    /\ hour < AlertHorizon
    /\ hour' = hour + 1
    /\ UNCHANGED <<sharedVars, place, probeVars, alertedAt>>

ProbeNext(p) ==
    \/ AskReady(p) \/ AskSnapshot(p) \/ JudgeFresh(p) \/ AnswerCached(p)
    \/ RunChecks(p) \/ ResultOk(p) \/ ResultNotOk(p) \/ JudgeAlert(p) \/ KeepQuiet(p)
    \/ SendAlert(p) \/ AlertSent(p) \/ AnswerProbe(p)

AlertNext == (\E p \in Probes : ProbeNext(p)) \/ AlertTick

AlertSpec == AlertInit /\ [][AlertNext]_alertVars

-----------------------------------------------------------------------------
ProbePlace == {"rest", "fresh", "cached", "checks", "result", "judge",
               "quiet", "send", "sending", "end"}

AlertTypeOK ==
    /\ hour \in Nat
    /\ lastStatus \in Status \cup {None}
    /\ lastAlert \in Nat \cup {None}
    /\ readiness \in Nat \cup {None}
    /\ place \in [Probes -> ProbePlace]
    /\ asks \in [Probes -> {"ready", "snapshot"}]
    /\ came \in [Probes -> Nat]
    /\ result \in [Probes -> Status]
    /\ judged \in [Probes -> Nat]
    /\ alertedAt \in [Status -> Nat \cup {None}]

(* Whatever the threads do to each other, no outage goes unreported: a     *)
(* result that is not sent, because its status was sent before, has an     *)
(* alert of that very status begun less than a cooldown ago.               *)
NoSilentOutage ==
    \A p \in Probes : place[p] = "quiet" =>
        /\ alertedAt[result[p]] # None
        /\ judged[p] - alertedAt[result[p]] < Cooldown
=============================================================================
