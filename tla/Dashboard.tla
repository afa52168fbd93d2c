----------------------------- MODULE Dashboard -----------------------------
(***************************************************************************)
(* The monitoring page: useMonitoringDashboardModel over                   *)
(* services/monitoring.  One load at a time fetches the page and opens an  *)
(* event stream; polling and retries start loads while there is no stream; *)
(* hiding the tab closes the stream, showing it starts a load.  JavaScript *)
(* runs callbacks one at a time, so a step ends at an await; the answers,  *)
(* the stream's events and the user come in any order.                     *)
(***************************************************************************)
EXTENDS Naturals

CONSTANT MaxStreams  (* bound: streams opened *)

ASSUME DashboardAssumption == MaxStreams \in Nat

VARIABLES
    visible,   (* is the tab visible                                         *)
    mounted,   (* isMountedRef                                               *)
    booted,    (* hasBootstrappedSnapshotRef                                 *)
    load,      (* what the load in flight waits for, or "none"               *)
    handle,    (* monitoringStreamRef: the stream it closes, 0 for null      *)
    active,    (* hasActiveStatsStream                                       *)
    stream,    (* each stream: "unused", "open", "ended" by the server, or   *)
               (* "closed" by the page                                       *)
    opened,    (* streams opened so far                                      *)
    retrying,  (* is a retry scheduled: nextRetryAtMs                        *)
    stats,     (* are figures shown                                          *)
    early      (* streams that ended before they were installed              *)

pageVars == <<visible, mounted>>
streamVars == <<handle, active, stream>>
shownVars == <<retrying, stats>>
dashVars == <<pageVars, booted, load, streamVars, opened, shownVars, early>>

Streams == 1 .. MaxStreams
(* A load that began with the snapshot opens its stream first, *)
(* and counts as successful before it has.                     *)
Opening == {"opening", "first opening"}
Installing == {"install", "first install"}
Waiting == {"snapshot", "access", "ready"} \cup Opening

DashInit ==
    /\ visible \in BOOLEAN /\ mounted = TRUE
    /\ booted = FALSE
    /\ load = "snapshot"
    /\ handle = 0 /\ active = FALSE
    /\ stream = [n \in Streams |-> "unused"]
    /\ opened = 0
    /\ retrying = FALSE /\ stats = FALSE
    /\ early = {}

(* stopMonitoringStatsStream, on a page that is mounted or not. *)
Stopped(streams) ==
    IF handle # 0 /\ streams[handle] = "open"
    THEN [streams EXCEPT ![handle] = "closed"] ELSE streams
StopStream(stays) ==
    /\ stream' = Stopped(stream)
    /\ handle' = 0
    /\ active' = (active /\ ~stays)

MarkSuccessfulLoad == retrying' = FALSE
ScheduleRetry == retrying' = TRUE

(* loadDashboard: nothing while a load is in flight. *)
Load(background) ==
    load' = IF load # "none" THEN load
            ELSE IF background \/ booted THEN "access" ELSE "snapshot"

-----------------------------------------------------------------------------
(* loadWithAuthenticatedSnapshot: the server gives readiness and stats     *)
(* only to those who are allowed to see them.                              *)
SnapshotAnswers(allowed) ==
    /\ load = "snapshot"
    /\ booted' = TRUE
    /\ IF mounted
       THEN /\ StopStream(TRUE)
            /\ stats' = allowed /\ MarkSuccessfulLoad
       ELSE UNCHANGED <<streamVars, shownVars>>
    /\ load' = IF mounted /\ allowed THEN "first opening" ELSE "none"
    /\ UNCHANGED <<pageVars, opened, early>>

(* loadWithoutSnapshot *)
AccessAnswers(allowed) ==
    /\ load = "access"
    /\ IF mounted /\ ~allowed
       THEN /\ StopStream(TRUE)
            /\ stats' = FALSE /\ MarkSuccessfulLoad
       ELSE UNCHANGED <<streamVars, shownVars>>
    /\ load' = IF mounted /\ allowed THEN "ready" ELSE "none"
    /\ UNCHANGED <<pageVars, booted, opened, early>>

(* loadStatsForAuthorizedRequest opens a stream if there is none. *)
ReadyAnswers ==
    /\ load = "ready"
    /\ load' = IF mounted /\ handle = 0 THEN "opening" ELSE "none"
    /\ retrying' = (retrying /\ (~mounted \/ handle = 0))
    /\ UNCHANGED <<pageVars, booted, streamVars, opened, stats, early>>

(* The stream's response is there and is being read; whoever asked for it  *)
(* has not been told yet.                                                  *)
StreamOpens ==
    /\ load \in Opening
    /\ opened < MaxStreams
    /\ opened' = opened + 1
    /\ stream' = [stream EXCEPT ![opened + 1] = "open"]
    /\ load' = IF load = "opening" THEN "install" ELSE "first install"
    /\ UNCHANGED <<pageVars, booted, handle, active, shownVars, early>>

(* startMonitoringStatsStream, after its await. *)
InstallUnmounted ==
    /\ load \in Installing
    /\ handle' = opened /\ active' = TRUE
    /\ retrying' = (retrying /\ load = "first install")
    /\ load' = "none"
    /\ UNCHANGED <<pageVars, booted, stream, opened, stats, early>>
Install ==
    /\ load \in Installing
    /\ IF mounted
       THEN /\ handle' = opened /\ active' = TRUE
            /\ retrying' = (retrying /\ load = "first install")
            /\ UNCHANGED stream
       ELSE /\ stream' = [stream EXCEPT ![opened] =
                             IF @ = "open" THEN "closed" ELSE @]
            /\ UNCHANGED <<handle, active, retrying>>
    /\ load' = "none"
    /\ UNCHANGED <<pageVars, booted, opened, stats, early>>

(* A request of the load fails. *)
LoadFails ==
    /\ load \in Waiting
    /\ IF mounted
       THEN /\ StopStream(TRUE)
            /\ stats' = FALSE /\ ScheduleRetry
       ELSE UNCHANGED <<streamVars, shownVars>>
    /\ load' = "none"
    /\ UNCHANGED <<pageVars, booted, opened, early>>

-----------------------------------------------------------------------------
(* A frame of an open stream: onPayload. *)
StreamPayload(n) ==
    /\ stream[n] = "open"
    /\ mounted
    /\ stats' = TRUE /\ MarkSuccessfulLoad
    /\ UNCHANGED <<pageVars, booted, load, streamVars, opened, early>>

(* The server ends the stream, or it breaks: onError stops whatever stream *)
(* is installed, then a last frame may still be shown.                     *)
StreamEnds(n) ==
    /\ stream[n] = "open"
    /\ early' = IF load \in Installing /\ n = opened
                THEN early \cup {n} ELSE early
    /\ LET ended == [stream EXCEPT ![n] = "ended"]
       IN  IF mounted
           THEN /\ stream' = Stopped(ended)
                /\ handle' = 0 /\ active' = FALSE
                /\ \/ ScheduleRetry /\ UNCHANGED stats
                   \/ MarkSuccessfulLoad /\ stats' = TRUE
           ELSE stream' = ended /\ UNCHANGED <<handle, active, shownVars>>
    /\ UNCHANGED <<pageVars, booted, load, opened>>

(* A frame that had been read when the stream was closed. *)
LateFrame(n) ==
    /\ stream[n] = "closed"
    /\ stream' = [stream EXCEPT ![n] = "ended"]
    /\ IF mounted THEN stats' = TRUE /\ MarkSuccessfulLoad
                  ELSE UNCHANGED shownVars
    /\ UNCHANGED <<pageVars, booted, load, handle, active, opened, early>>

-----------------------------------------------------------------------------
(* handleVisibilityChange *)
Hide ==
    /\ mounted /\ visible
    /\ visible' = FALSE
    /\ StopStream(TRUE)
    /\ UNCHANGED <<mounted, booted, load, opened, shownVars, early>>

Show ==
    /\ mounted /\ ~visible
    /\ visible' = TRUE
    /\ Load(TRUE)
    /\ UNCHANGED <<mounted, booted, streamVars, opened, shownVars, early>>

(* The polling interval, which runs while there is no stream, and the      *)
(* retry timeout.                                                          *)
Poll ==
    /\ mounted /\ visible
    /\ ~active \/ retrying
    /\ Load(TRUE)
    /\ UNCHANGED <<pageVars, booted, streamVars, opened, shownVars, early>>

(* The refresh button. *)
Refresh ==
    /\ mounted /\ visible
    /\ Load(TRUE)
    /\ UNCHANGED <<pageVars, booted, streamVars, opened, shownVars, early>>

Unmount ==
    /\ mounted
    /\ mounted' = FALSE
    /\ StopStream(FALSE)
    /\ UNCHANGED <<visible, booted, load, opened, shownVars, early>>

DashNext ==
    \/ \E allowed \in BOOLEAN : SnapshotAnswers(allowed) \/ AccessAnswers(allowed)
    \/ ReadyAnswers \/ StreamOpens \/ Install \/ LoadFails
    \/ \E n \in Streams : StreamPayload(n) \/ StreamEnds(n) \/ LateFrame(n)
    \/ Hide \/ Show \/ Poll \/ Refresh \/ Unmount

DashSpec == DashInit /\ [][DashNext]_dashVars

-----------------------------------------------------------------------------
DashTypeOK ==
    /\ visible \in BOOLEAN /\ mounted \in BOOLEAN /\ booted \in BOOLEAN
    /\ load \in Waiting \cup Installing \cup {"none"}
    /\ opened \in 0 .. MaxStreams
    /\ handle \in 0 .. opened
    /\ active \in BOOLEAN
    /\ stream \in [Streams -> {"unused", "open", "ended", "closed"}]
    /\ retrying \in BOOLEAN /\ stats \in BOOLEAN
    /\ early \in SUBSET Streams

(* No stream is left open behind the page's back: an open stream is the    *)
(* one the page holds, or the load in flight has just opened it and will   *)
(* hand it over, or close it when the page is gone.                        *)
StreamsOwned ==
    \A n \in Streams : stream[n] = "open" =>
        \/ handle = n /\ mounted
        \/ load \in Installing /\ n = opened

(* A page that trusts its stream, and so does not poll, has one that is    *)
(* open, unless it had ended before it was handed over.                    *)
TrustedStreamLives ==
    active /\ mounted => handle # 0 /\ (stream[handle] = "open" \/ handle \in early)

(* So no stream is lost and none is believed in vain. *)
StreamsTrue == StreamsOwned /\ TrustedStreamLives
=============================================================================
