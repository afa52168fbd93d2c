--------------------------- MODULE MCRateLimiter ---------------------------
(***************************************************************************)
(* What stands around the requests and watches the server, on small        *)
(* instances: RateLimiter, LoginAttempts, RealtimeSeries, ReadinessAlerts  *)
(* and Dashboard.  They share no state, so a behaviour is one of one of    *)
(* them, and `which` says of which.                                        *)
(***************************************************************************)
EXTENDS RateLimiter, LoginAttempts, RealtimeSeries, ReadinessAlerts, Dashboard, TLC

VARIABLE which

MCInit ==
    /\ which \in {"limiter", "logins", "series", "alerts", "dashboard"}
    /\ Init /\ LoginInit /\ SeriesInit /\ AlertInit /\ DashInit

OfLimiter ==
    /\ which = "limiter" /\ Next
    /\ UNCHANGED <<which, loginVars, seriesVars, alertVars, dashVars>>
OfLogins ==
    /\ which = "logins" /\ LoginNext
    /\ UNCHANGED <<which, vars, seriesVars, alertVars, dashVars>>
OfSeries ==
    /\ which = "series" /\ SeriesNext
    /\ UNCHANGED <<which, vars, loginVars, alertVars, dashVars>>
OfAlerts ==
    /\ which = "alerts" /\ AlertNext
    /\ UNCHANGED <<which, vars, loginVars, seriesVars, dashVars>>
OfDashboard ==
    /\ which = "dashboard" /\ DashNext
    /\ UNCHANGED <<which, vars, loginVars, seriesVars, alertVars>>

MCNext == OfLimiter \/ OfLogins \/ OfSeries \/ OfAlerts \/ OfDashboard

MCSpec ==
    MCInit /\ [][MCNext]_<<which, vars, loginVars, seriesVars, alertVars, dashVars>>

(* The types of all of them. *)
MCTypeOK == TypeOK /\ LoginTypeOK /\ SeriesTypeOK /\ AlertTypeOK /\ DashTypeOK

Symmetry == Permutations(Requests) \cup Permutations(Logins) \cup Permutations(Probes)
=============================================================================
