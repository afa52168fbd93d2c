---------------------------- MODULE PagesProofs -----------------------------
(***************************************************************************)
(* What the pages promise, whatever answers and clicks cross: the          *)
(* monitoring page never loses a stream that is open and never waits for   *)
(* figures from one that is not (StreamsTrue, for any number of streams),  *)
(* what the convert page shows, saves and follows up on is of the last     *)
(* conversion (PageTrue, for any number of conversions), and the page of   *)
(* the schemas shows the rows there are (SchemasTrue, for any number of    *)
(* requests).                                                              *)
(*                                                                         *)
(* StreamsTrue is not inductive. Opening a stream while another is held,   *)
(* or handing over one whose end went unnoticed, would break it:           *)
(* StreamsInv adds that a load opens a stream only while none is held,     *)
(* that one about to be handed over is open or known to have ended early,  *)
(* and that those not opened yet are unused.                               *)
(***************************************************************************)
EXTENDS Dashboard, ConvertFlow, CustomSchemas, FiniteSetTheorems,
        FunctionTheorems, TLAPS

NoneHeldWhileOpening == load \in Opening \cup Installing => handle = 0

HandOverKnown ==
    load \in Installing =>
        opened # 0 /\ (stream[opened] = "open" \/ opened \in early)

FreshUnused == \A n \in Streams : n > opened => stream[n] = "unused"

StreamsInv ==
    DashTypeOK /\ NoneHeldWhileOpening /\ HandOverKnown /\ FreshUnused /\ StreamsTrue

(* What stopMonitoringStatsStream leaves: the stream held is not open, and *)
(* no other has changed.                                                   *)
LEMMA StoppedCloses ==
    ASSUME NEW streams \in [Streams -> {"unused", "open", "ended", "closed"}],
           handle \in 0 .. opened, opened \in 0 .. MaxStreams
    PROVE  /\ Stopped(streams) \in [Streams -> {"unused", "open", "ended", "closed"}]
           /\ handle # 0 => Stopped(streams)[handle] # "open"
           /\ \A n \in Streams : n # handle => Stopped(streams)[n] = streams[n]
           /\ \A n \in Streams : Stopped(streams)[n] = "unused" <=> streams[n] = "unused"
           /\ \A n \in Streams : Stopped(streams)[n] = "open" => streams[n] = "open"
<1>1. CASE handle # 0 /\ streams[handle] = "open"
  BY <1>1, DashboardAssumption DEF Stopped, Streams
<1>2. CASE ~(handle # 0 /\ streams[handle] = "open")
  BY <1>2 DEF Stopped
<1> QED  BY <1>1, <1>2

(* The bounds of a stream held and of a stream to be handed over. *)
LEMMA Ranges ==
    ASSUME StreamsInv
    PROVE  /\ opened \in Nat /\ opened <= MaxStreams
           /\ handle \in Nat /\ handle <= opened
           /\ handle # 0 => handle \in Streams
           /\ opened # 0 => opened \in Streams
<1>1. opened \in 0 .. MaxStreams /\ handle \in 0 .. opened
  BY DEF StreamsInv, DashTypeOK
<1> QED  BY <1>1, DashboardAssumption DEF Streams

LEMMA NoStreamIsZero == \A n \in Streams : n # 0
  BY DEF Streams

(* Nothing is open while a stream is asked for. *)
LEMMA NothingOpenYet ==
    ASSUME StreamsInv, load \in Opening
    PROVE  handle = 0 /\ \A n \in Streams : stream[n] # "open"
<1>1. load \notin Installing
  BY DEF Opening, Installing
<1>2. handle = 0
  BY DEF StreamsInv, NoneHeldWhileOpening
<1>3. \A n \in Streams : n # 0
  BY DEF Streams
<1> QED  BY <1>1, <1>2, <1>3 DEF StreamsInv, StreamsTrue, StreamsOwned

LEMMA HandedOver ==
    ASSUME StreamsInv, load \in Installing
    PROVE  /\ handle = 0 /\ opened \in Streams
           /\ stream[opened] = "open" \/ opened \in early
<1>1. handle = 0 /\ opened # 0 /\ (stream[opened] = "open" \/ opened \in early)
  BY DEF StreamsInv, NoneHeldWhileOpening, HandOverKnown
<1> QED  BY <1>1, Ranges

LEMMA StreamsInvInit == DashInit => StreamsInv
<1> SUFFICES ASSUME DashInit PROVE StreamsInv
  OBVIOUS
<1> USE DashboardAssumption DEF DashInit
<1>1. DashTypeOK
  <2>1. 0 \in 0 .. MaxStreams /\ 0 \in 0 .. 0
    OBVIOUS
  <2> QED  BY <2>1 DEF DashTypeOK, Waiting
<1>2. NoneHeldWhileOpening /\ HandOverKnown /\ FreshUnused
  BY DEF NoneHeldWhileOpening, HandOverKnown, FreshUnused, Opening, Installing
<1>3. StreamsTrue
  BY DEF StreamsTrue, StreamsOwned, TrustedStreamLives
<1> QED  BY <1>1, <1>2, <1>3 DEF StreamsInv

LoadPlaces == Waiting \cup Installing \cup {"none"}

(* The types of what the streams do not depend on, after a step. *)
PageTypes ==
    /\ visible \in BOOLEAN /\ mounted \in BOOLEAN /\ booted \in BOOLEAN
    /\ load \in LoadPlaces
    /\ retrying \in BOOLEAN /\ stats \in BOOLEAN

(* A step that leaves the streams alone keeps them true, if it begins to   *)
(* open one only when none is held.                                        *)
LEMMA UndisturbedKept ==
    ASSUME StreamsInv, PageTypes', mounted' = mounted,
           UNCHANGED <<streamVars, opened, early>>,
           load' \in Installing <=> load \in Installing,
           load' \in Opening => handle = 0
    PROVE  StreamsInv'
<1> USE DEF streamVars
<1>1. DashTypeOK'
  BY DEF StreamsInv, DashTypeOK, PageTypes, LoadPlaces
<1>2. NoneHeldWhileOpening' /\ HandOverKnown' /\ FreshUnused'
  BY DEF StreamsInv, NoneHeldWhileOpening, HandOverKnown, FreshUnused
<1>3. StreamsOwned'
  <2> SUFFICES ASSUME NEW n \in Streams, stream[n] = "open"
               PROVE  (handle = n /\ mounted) \/ (load' \in Installing /\ n = opened)
    BY DEF StreamsOwned
  <2>1. (handle = n /\ mounted) \/ (load \in Installing /\ n = opened)
    BY DEF StreamsInv, StreamsTrue, StreamsOwned
  <2> QED  BY <2>1
<1>4. TrustedStreamLives'
  BY DEF StreamsInv, StreamsTrue, TrustedStreamLives
<1> QED  BY <1>1, <1>2, <1>3, <1>4 DEF StreamsInv, StreamsTrue

(* A step that stops the stream held keeps the others. *)
LEMMA StopKept ==
    ASSUME StreamsInv, PageTypes', mounted' => mounted,
           stream' = Stopped(stream), handle' = 0,
           active' \in BOOLEAN, mounted' => ~active',
           UNCHANGED <<opened, early>>,
           load' \in Installing <=> load \in Installing
    PROVE  StreamsInv'
<1>0. /\ stream' \in [Streams -> {"unused", "open", "ended", "closed"}]
      /\ handle # 0 => stream'[handle] # "open"
      /\ \A n \in Streams : n # handle => stream'[n] = stream[n]
      /\ \A n \in Streams : stream'[n] = "unused" <=> stream[n] = "unused"
      /\ \A n \in Streams : stream'[n] = "open" => stream[n] = "open"
  BY StoppedCloses DEF StreamsInv, DashTypeOK
<1>1. DashTypeOK'
  BY <1>0 DEF StreamsInv, DashTypeOK, PageTypes, LoadPlaces
<1>2. NoneHeldWhileOpening' /\ FreshUnused'
  BY <1>0 DEF StreamsInv, NoneHeldWhileOpening, FreshUnused
<1>3. HandOverKnown'
  <2> SUFFICES ASSUME load \in Installing
               PROVE  opened # 0 /\ (stream'[opened] = "open" \/ opened \in early)
    BY DEF HandOverKnown
  <2>1. handle = 0 /\ opened \in Streams
    BY DashboardAssumption
    DEF StreamsInv, DashTypeOK, NoneHeldWhileOpening, HandOverKnown, Streams
  <2> QED  BY <1>0, <2>1 DEF StreamsInv, HandOverKnown, Streams
<1>4. StreamsOwned'
  <2> SUFFICES ASSUME NEW n \in Streams, stream'[n] = "open"
               PROVE  load \in Installing /\ n = opened
    BY DEF StreamsOwned
  <2>1. stream[n] = "open" /\ n # 0
    BY <1>0 DEF Streams
  <2>2. handle # n
    BY <1>0, <2>1
  <2> QED  BY <2>1, <2>2 DEF StreamsInv, StreamsTrue, StreamsOwned
<1>5. TrustedStreamLives'
  BY DEF TrustedStreamLives
<1> QED  BY <1>1, <1>2, <1>3, <1>4, <1>5 DEF StreamsInv, StreamsTrue

LEMMA StreamsInvStep == StreamsInv /\ [DashNext]_dashVars => StreamsInv'
<1> SUFFICES ASSUME StreamsInv, [DashNext]_dashVars PROVE StreamsInv'
  OBVIOUS
<1>0. PageTypes
  BY DEF StreamsInv, DashTypeOK, PageTypes, LoadPlaces
<1> USE DEF pageVars, shownVars
<1>1. ASSUME NEW allowed \in BOOLEAN, SnapshotAnswers(allowed) PROVE StreamsInv'
  <2>1. CASE mounted
    <3>1. /\ stream' = Stopped(stream) /\ handle' = 0 /\ active' = FALSE
          /\ UNCHANGED <<opened, early, mounted>>
      BY <1>1, <2>1 DEF SnapshotAnswers, StopStream, MarkSuccessfulLoad
    <3>2. PageTypes'
      BY <1>0, <1>1, <2>1 DEF SnapshotAnswers, StopStream, MarkSuccessfulLoad,
         PageTypes, LoadPlaces, Waiting, Opening, Installing
    <3>3. load' \notin Installing /\ load \notin Installing
      BY <1>1 DEF SnapshotAnswers, Waiting, Opening, Installing
    <3> QED  BY <3>1, <3>2, <3>3, StopKept
  <2>2. CASE ~mounted
    <3>1. PageTypes'
      BY <1>0, <1>1, <2>2 DEF SnapshotAnswers, PageTypes, LoadPlaces, Waiting, Opening,
         Installing
    <3>2. load' \notin Installing \cup Opening /\ load \notin Installing
      BY <1>1, <2>2 DEF SnapshotAnswers, Waiting, Opening, Installing
    <3>3. UNCHANGED <<mounted, streamVars, opened, early>>
      BY <1>1, <2>2 DEF SnapshotAnswers
    <3> QED  BY <3>1, <3>2, <3>3, UndisturbedKept
  <2> QED  BY <2>1, <2>2
<1>2. ASSUME NEW allowed \in BOOLEAN, AccessAnswers(allowed) PROVE StreamsInv'
  <2>1. CASE mounted /\ ~allowed
    <3>1. /\ stream' = Stopped(stream) /\ handle' = 0 /\ active' = FALSE
          /\ UNCHANGED <<opened, early, mounted>>
      BY <1>2, <2>1 DEF AccessAnswers, StopStream, MarkSuccessfulLoad
    <3>2. PageTypes'
      BY <1>0, <1>2, <2>1 DEF AccessAnswers, StopStream, MarkSuccessfulLoad, PageTypes,
         LoadPlaces, Waiting, Opening, Installing
    <3>3. load' \notin Installing /\ load \notin Installing
      BY <1>2 DEF AccessAnswers, Waiting, Opening, Installing
    <3> QED  BY <3>1, <3>2, <3>3, StopKept
  <2>2. CASE ~(mounted /\ ~allowed)
    <3>1. PageTypes'
      BY <1>0, <1>2, <2>2 DEF AccessAnswers, PageTypes, LoadPlaces, Waiting, Opening,
         Installing
    <3>2. load' \notin Installing \cup Opening /\ load \notin Installing
      BY <1>2, <2>2 DEF AccessAnswers, Waiting, Opening, Installing
    <3>3. UNCHANGED <<mounted, streamVars, opened, early>>
      BY <1>2, <2>2 DEF AccessAnswers
    <3> QED  BY <3>1, <3>2, <3>3, UndisturbedKept
  <2> QED  BY <2>1, <2>2
<1>3. ASSUME ReadyAnswers PROVE StreamsInv'
  <2>1. PageTypes'
    BY <1>0, <1>3 DEF ReadyAnswers, PageTypes, LoadPlaces, Waiting, Opening, Installing
  <2>2. /\ load' \notin Installing /\ load \notin Installing
        /\ load' \in Opening => handle = 0
        /\ UNCHANGED <<mounted, streamVars, opened, early>>
    BY <1>3 DEF ReadyAnswers, Opening, Installing
  <2> QED  BY <2>1, <2>2, UndisturbedKept
<1>4. ASSUME StreamOpens PROVE StreamsInv'
  <2>0. load \in Opening /\ opened \in Nat /\ opened < MaxStreams
    BY <1>4, Ranges DEF StreamOpens
  <2>1. /\ opened' = opened + 1 /\ load' \in Installing
        /\ stream' = [stream EXCEPT ![opened + 1] = "open"]
        /\ UNCHANGED <<mounted, handle, active, early>>
    BY <1>4 DEF StreamOpens, streamVars, Installing
  <2>7. PageTypes'
    BY <1>0, <1>4 DEF StreamOpens, PageTypes, LoadPlaces, Waiting, Opening, Installing
  <2>2. handle = 0 /\ \A n \in Streams : stream[n] # "open"
    BY <2>0, NothingOpenYet
  <2>3. \A n \in Streams : stream'[n] = IF n = opened + 1 THEN "open" ELSE stream[n]
    BY <2>1 DEF StreamsInv, DashTypeOK
  <2>4. DashTypeOK'
    <3>1. opened' \in 0 .. MaxStreams /\ handle' \in 0 .. opened'
      BY <2>0, <2>1, <2>2, DashboardAssumption
    <3> QED  BY <2>1, <2>7, <3>1 DEF StreamsInv, DashTypeOK, PageTypes, LoadPlaces
  <2>5. NoneHeldWhileOpening' /\ HandOverKnown' /\ FreshUnused' /\ StreamsOwned'
    <3>1. opened + 1 \in Streams /\ stream'[opened + 1] = "open" /\ opened + 1 # 0
      BY <2>0, <2>3, DashboardAssumption DEF Streams
    <3>2. FreshUnused'
      BY <2>0, <2>1, <2>3 DEF StreamsInv, FreshUnused, Streams
    <3>3. StreamsOwned'
      BY <2>1, <2>2, <2>3 DEF StreamsOwned
    <3>4. NoneHeldWhileOpening' /\ HandOverKnown'
      BY <2>1, <2>2, <3>1 DEF NoneHeldWhileOpening, HandOverKnown
    <3> QED  BY <3>2, <3>3, <3>4
  <2>6. TrustedStreamLives'
    BY <2>1 DEF StreamsInv, StreamsTrue, TrustedStreamLives
  <2> QED  BY <2>4, <2>5, <2>6 DEF StreamsInv, StreamsTrue
<1>5. ASSUME Install PROVE StreamsInv'
  <2>0. /\ handle = 0 /\ opened \in Streams
        /\ stream[opened] = "open" \/ opened \in early
        /\ load' = "none" /\ UNCHANGED <<mounted, opened, early, visible, booted, stats>>
        /\ load \in Installing
    BY <1>5, HandedOver DEF Install, streamVars
  <2>1. CASE mounted
    <3>1. /\ handle' = opened /\ active' = TRUE /\ stream' = stream
          /\ retrying' \in BOOLEAN
      BY <1>5, <2>1 DEF Install
    <3>2. DashTypeOK'
      <4>1. opened \in 0 .. opened
        BY Ranges
      <4> QED  BY <2>0, <3>1, <4>1 DEF StreamsInv, DashTypeOK
    <3>3. NoneHeldWhileOpening' /\ HandOverKnown' /\ FreshUnused'
      BY <2>0, <3>1
      DEF StreamsInv, NoneHeldWhileOpening, HandOverKnown, FreshUnused, Opening, Installing
    <3>4. StreamsTrue'
      <4>1. \A n \in Streams : n # 0
        BY NoStreamIsZero
      <4>2. \A n \in Streams : stream[n] = "open" => n = opened
        BY <2>0, <4>1 DEF StreamsInv, StreamsTrue, StreamsOwned
      <4> QED  BY <2>0, <2>1, <3>1, <4>1, <4>2
               DEF StreamsTrue, StreamsOwned, TrustedStreamLives
    <3> QED  BY <3>2, <3>3, <3>4 DEF StreamsInv
  <2>2. CASE ~mounted
    <3>1. /\ stream' = [stream EXCEPT ![opened] = IF @ = "open" THEN "closed" ELSE @]
          /\ UNCHANGED <<handle, active, retrying>>
      BY <1>5, <2>2 DEF Install
    <3>2. \A n \in Streams :
             stream'[n] = IF n = opened /\ stream[n] = "open" THEN "closed" ELSE stream[n]
      BY <2>0, <3>1 DEF StreamsInv, DashTypeOK
    <3>3. DashTypeOK'
      BY <2>0, <3>1 DEF StreamsInv, DashTypeOK
    <3>4. NoneHeldWhileOpening' /\ HandOverKnown' /\ FreshUnused'
      BY <2>0, <3>1, <3>2
      DEF StreamsInv, NoneHeldWhileOpening, HandOverKnown, FreshUnused, Opening, Installing
    <3>5. StreamsTrue'
      BY <2>0, <2>2, <3>1, <3>2
      DEF StreamsInv, StreamsTrue, StreamsOwned, TrustedStreamLives
    <3> QED  BY <3>3, <3>4, <3>5 DEF StreamsInv
  <2> QED  BY <2>1, <2>2
<1>6. ASSUME LoadFails PROVE StreamsInv'
  <2>1. CASE mounted
    <3>1. /\ stream' = Stopped(stream) /\ handle' = 0 /\ active' = FALSE
          /\ UNCHANGED <<opened, early, mounted>>
      BY <1>6, <2>1 DEF LoadFails, StopStream, ScheduleRetry
    <3>2. PageTypes'
      BY <1>0, <1>6, <2>1 DEF LoadFails, StopStream, ScheduleRetry, PageTypes,
         LoadPlaces, Waiting, Opening, Installing
    <3>3. load' \notin Installing /\ load \notin Installing
      BY <1>6 DEF LoadFails, Waiting, Opening, Installing
    <3> QED  BY <3>1, <3>2, <3>3, StopKept
  <2>2. CASE ~mounted
    <3>1. PageTypes'
      BY <1>0, <1>6, <2>2 DEF LoadFails, PageTypes, LoadPlaces, Waiting, Opening, Installing
    <3>2. load' \notin Installing \cup Opening /\ load \notin Installing
      BY <1>6, <2>2 DEF LoadFails, Waiting, Opening, Installing
    <3>3. UNCHANGED <<mounted, streamVars, opened, early>>
      BY <1>6, <2>2 DEF LoadFails
    <3> QED  BY <3>1, <3>2, <3>3, UndisturbedKept
  <2> QED  BY <2>1, <2>2
<1>7. ASSUME NEW n \in Streams, StreamPayload(n) PROVE StreamsInv'
  <2>1. PageTypes'
    BY <1>0, <1>7 DEF StreamPayload, MarkSuccessfulLoad, PageTypes
  <2>2. load' \in Opening => handle = 0
    BY <1>7 DEF StreamPayload, StreamsInv, NoneHeldWhileOpening
  <2>3. UNCHANGED <<mounted, load, streamVars, opened, early>>
    BY <1>7 DEF StreamPayload
  <2> QED  BY <2>1, <2>2, <2>3, UndisturbedKept
<1>8. ASSUME NEW n \in Streams, StreamEnds(n) PROVE StreamsInv'
  <2> DEFINE ended == [stream EXCEPT ![n] = "ended"]
  <2>1. /\ ended \in [Streams -> {"unused", "open", "ended", "closed"}]
        /\ \A m \in Streams : ended[m] = IF m = n THEN "ended" ELSE stream[m]
    BY DEF StreamsInv, DashTypeOK
  <2>2. /\ stream[n] = "open" /\ UNCHANGED <<mounted, visible, booted, load, opened>>
        /\ early' = IF load \in Installing /\ n = opened THEN early \cup {n} ELSE early
    BY <1>8 DEF StreamEnds
  <2> HIDE DEF ended
  <2>3. CASE mounted
    <3>1. /\ stream' = Stopped(ended) /\ handle' = 0 /\ active' = FALSE
          /\ retrying' \in BOOLEAN /\ stats' \in BOOLEAN
      BY <1>0, <1>8, <2>3 DEF StreamEnds, ScheduleRetry, MarkSuccessfulLoad, ended, PageTypes
    <3>2. /\ stream' \in [Streams -> {"unused", "open", "ended", "closed"}]
          /\ handle # 0 => stream'[handle] # "open"
          /\ \A m \in Streams : m # handle => stream'[m] = ended[m]
          /\ \A m \in Streams : stream'[m] = "unused" <=> ended[m] = "unused"
          /\ \A m \in Streams : stream'[m] = "open" => ended[m] = "open"
      BY <2>1, <3>1, StoppedCloses DEF StreamsInv, DashTypeOK
    <3>3. DashTypeOK'
      <4>1. 0 \in 0 .. opened /\ early' \in SUBSET Streams
        BY <2>2, Ranges DEF StreamsInv, DashTypeOK
      <4> QED  BY <2>2, <3>1, <3>2, <4>1 DEF StreamsInv, DashTypeOK
    <3>4. NoneHeldWhileOpening' /\ FreshUnused'
      BY <2>1, <2>2, <3>1, <3>2 DEF StreamsInv, NoneHeldWhileOpening, FreshUnused
    <3>5. HandOverKnown'
      <4> SUFFICES ASSUME load \in Installing
                   PROVE  opened # 0 /\ (stream'[opened] = "open" \/ opened \in early')
        BY <2>2 DEF HandOverKnown
      <4>1. /\ handle = 0 /\ opened \in Streams /\ opened # 0
            /\ stream[opened] = "open" \/ opened \in early
        BY HandedOver, NoStreamIsZero
      <4> QED  BY <2>1, <2>2, <3>2, <4>1
    <3>6. StreamsOwned'
      <4> SUFFICES ASSUME NEW m \in Streams, stream'[m] = "open"
                   PROVE  load \in Installing /\ m = opened
        BY <2>2 DEF StreamsOwned
      <4>0. m # 0
        BY NoStreamIsZero
      <4>1. stream[m] = "open" /\ handle # m
        BY <2>1, <3>2, <4>0
      <4> QED  BY <4>1 DEF StreamsInv, StreamsTrue, StreamsOwned
    <3>7. TrustedStreamLives'
      BY <3>1 DEF TrustedStreamLives
    <3> QED  BY <3>3, <3>4, <3>5, <3>6, <3>7 DEF StreamsInv, StreamsTrue
  <2>4. CASE ~mounted
    <3>1. stream' = ended /\ UNCHANGED <<handle, active, retrying, stats>>
      BY <1>8, <2>4 DEF StreamEnds, ended
    <3>2. DashTypeOK'
      BY <2>1, <2>2, <3>1 DEF StreamsInv, DashTypeOK
    <3>3. NoneHeldWhileOpening' /\ FreshUnused'
      BY <2>1, <2>2, <3>1 DEF StreamsInv, NoneHeldWhileOpening, FreshUnused
    <3>5. HandOverKnown'
      BY <2>1, <2>2, <3>1, HandedOver DEF StreamsInv, HandOverKnown
    <3>4. StreamsTrue'
      BY <2>1, <2>2, <2>4, <3>1 DEF StreamsInv, StreamsTrue, StreamsOwned, TrustedStreamLives
    <3> QED  BY <3>2, <3>3, <3>4, <3>5 DEF StreamsInv
  <2> QED  BY <2>3, <2>4
<1>9. ASSUME NEW n \in Streams, LateFrame(n) PROVE StreamsInv'
  <2>1. /\ stream[n] = "closed" /\ stream' = [stream EXCEPT ![n] = "ended"]
        /\ UNCHANGED <<mounted, visible, booted, load, handle, active, opened, early>>
        /\ retrying' \in BOOLEAN /\ stats' \in BOOLEAN
    BY <1>0, <1>9 DEF LateFrame, MarkSuccessfulLoad, PageTypes, streamVars
  <2>2. \A m \in Streams : stream'[m] = IF m = n THEN "ended" ELSE stream[m]
    BY <2>1 DEF StreamsInv, DashTypeOK
  <2>3. DashTypeOK'
    BY <2>1 DEF StreamsInv, DashTypeOK
  <2>4. handle # 0 => handle \in Streams
    BY Ranges
  <2>5. load \in Installing => opened \in Streams
    BY HandedOver
  <2>6. NoneHeldWhileOpening' /\ HandOverKnown' /\ FreshUnused'
    BY <2>1, <2>2, <2>5 DEF StreamsInv, NoneHeldWhileOpening, HandOverKnown, FreshUnused
  <2>7. StreamsTrue'
    BY <2>1, <2>2, <2>4 DEF StreamsInv, StreamsTrue, StreamsOwned, TrustedStreamLives
  <2> QED  BY <2>3, <2>6, <2>7 DEF StreamsInv
<1>10. ASSUME Hide PROVE StreamsInv'
  <2>1. PageTypes'
    BY <1>0, <1>10 DEF Hide, PageTypes
  <2>2. /\ stream' = Stopped(stream) /\ handle' = 0 /\ active' = FALSE
        /\ UNCHANGED <<opened, early, mounted, load>>
    BY <1>10 DEF Hide, StopStream
  <2> QED  BY <2>1, <2>2, StopKept
<1>11. ASSUME Load(TRUE), UNCHANGED <<mounted, booted, streamVars, opened, early, shownVars>>,
              visible' \in BOOLEAN
       PROVE  StreamsInv'
  <2>1. PageTypes'
    BY <1>0, <1>11 DEF Load, PageTypes, LoadPlaces, Waiting, Opening, Installing
  <2>2. load' \in Installing <=> load \in Installing
    BY <1>11 DEF Load, Installing
  <2>3. load' \in Opening => handle = 0
    <3>1. load' \in Opening => load \in Opening
      BY <1>11 DEF Load, Opening
    <3> QED  BY <3>1 DEF StreamsInv, NoneHeldWhileOpening
  <2> QED  BY <1>11, <2>1, <2>2, <2>3, UndisturbedKept
<1>12. ASSUME Show \/ Poll \/ Refresh PROVE StreamsInv'
  <2>1. visible' \in BOOLEAN
    BY <1>0, <1>12 DEF Show, Poll, Refresh, PageTypes
  <2> QED  BY <1>11, <1>12, <2>1 DEF Show, Poll, Refresh
<1>13. ASSUME Unmount PROVE StreamsInv'
  <2>1. PageTypes'
    BY <1>0, <1>13 DEF Unmount, PageTypes
  <2>2. active' \in BOOLEAN
    BY <1>13 DEF Unmount, StopStream
  <2>3. /\ stream' = Stopped(stream) /\ handle' = 0 /\ mounted' = FALSE
        /\ UNCHANGED <<opened, early, load>>
    BY <1>13 DEF Unmount, StopStream
  <2> QED  BY <2>1, <2>2, <2>3, StopKept
<1>14. ASSUME UNCHANGED dashVars PROVE StreamsInv'
  <2>1. PageTypes'
    BY <1>0, <1>14 DEF dashVars, PageTypes
  <2>2. load' \in Opening => handle = 0
    BY <1>14 DEF dashVars, StreamsInv, NoneHeldWhileOpening
  <2>3. UNCHANGED <<mounted, load, streamVars, opened, early>>
    BY <1>14 DEF dashVars
  <2> QED  BY <2>1, <2>2, <2>3, UndisturbedKept
<1> QED
  BY <1>1, <1>2, <1>3, <1>4, <1>5, <1>6, <1>7, <1>8, <1>9, <1>10, <1>12, <1>13, <1>14
  DEF DashNext

(* Every variable keeps its type. *)
THEOREM DashTypeCorrect == DashSpec => []DashTypeOK
<1>1. StreamsInv => DashTypeOK
  BY DEF StreamsInv
<1> QED  BY StreamsInvInit, StreamsInvStep, <1>1, PTL DEF DashSpec

(* However answers, ends of streams, hiding and leaving the page follow    *)
(* each other, an open stream is held by the page or about to be handed to *)
(* it, and a page that does not poll has a live one, unless that had ended *)
(* before startMonitoringStatsStream went on.                              *)
THEOREM StreamsStayTrue == DashSpec => []StreamsTrue
<1>1. StreamsInv => StreamsTrue
  BY DEF StreamsInv
<1> QED  BY StreamsInvInit, StreamsInvStep, <1>1, PTL DEF DashSpec

-----------------------------------------------------------------------------
(***************************************************************************)
(* The convert page. PageTrue is not inductive: an answer that arrives     *)
(* when another conversion has been started, or a download of the one      *)
(* before, could reach the page. PageInv adds that conversions are         *)
(* numbered as they start, that a page that converts shows nothing to      *)
(* save, and that each download under way is of a conversion that is over  *)
(* and asks for the file of that one.                                      *)
(***************************************************************************)

Stages == {"unused", "validating", "generating", "over"}
Busy == {"validating", "generating"}

(* Conversions are numbered as they are started.                           *)
UnusedLater ==
    \A k \in Conversions : stageOf[k] = "unused" <=> k > current

(* A page that converts shows nothing yet that could be saved, and no      *)
(* download under way is of the conversion it waits for: each is of one    *)
(* that is over, and asks for the file of that one.                        *)
NothingWhileConverting == page.converting => page.output = 0 /\ page.csv = 0

DownloadsOfShown ==
    \A d \in downloads :
        /\ d.asked = d.id /\ d.file \in {0, d.asked}
        /\ stageOf[d.id] = "over"

(* The inductive invariant.                                                *)
PageInv ==
    /\ ConvertTypeOK /\ UnusedLater /\ NothingWhileConverting /\ DownloadsOfShown
    /\ PageTrue

(* The shape of what the page shows.                                       *)
PageType == [output : Shown, session : Shown, upload : Shown, csv : Shown,
             error : BOOLEAN, excelError : BOOLEAN, done : BOOLEAN, excel : BOOLEAN,
             converting : BOOLEAN, phase : {"idle", "validating", "generating"}]

LEMMA NumbersShown ==
    /\ 0 \in Shown
    /\ \A k \in Conversions : k \in Shown /\ k \in Nat /\ k # 0
    /\ \A n \in Shown : n \in Nat /\ (n = 0 \/ n \in Conversions)
BY ConvertAssumption DEF Shown, Conversions

LEMMA EmptyTyped == Empty \in PageType
BY NumbersShown DEF Empty, PageType

LEMMA BlankTyped == ASSUME page \in PageType PROVE Blank \in PageType
BY EmptyTyped DEF Blank, Empty, PageType

LEMMA BeginTyped ==
    ASSUME PageInv, page.output # 0, NEW kind \in {"csv", "excel"}
    PROVE  /\ Begin(kind) \in Downloads
           /\ Begin(kind).kind = kind
           /\ Begin(kind).id = current
           /\ Begin(kind).asked = current /\ page.output = current
           /\ Begin(kind).file \in {0, current}
<1>1. /\ page.output = current /\ page.session \in {0, current}
      /\ page.csv \in {0, current}
  BY DEF PageInv, PageTrue, PageConsistent, DownloadsFaithful
<1>2. current \in Shown /\ current \in Conversions
  BY <1>1, NumbersShown DEF PageInv, ConvertTypeOK
<1> QED  BY <1>1, <1>2, NumbersShown DEF Begin, Downloads

LEMMA PageInvInit == ConvertInit => PageInv
<1> SUFFICES ASSUME ConvertInit PROVE PageInv
  OBVIOUS
<1>1. ConvertTypeOK
  <2>1. stageOf \in [Conversions -> Stages]
    BY DEF ConvertInit, Stages
  <2>2. context \in [Conversions -> [output : Shown, session : Shown,
                                     upload : Shown, shown : Shown]]
    BY NumbersShown DEF ConvertInit, NoContext
  <2> QED  BY <2>1, <2>2, NumbersShown, EmptyTyped DEF ConvertInit, ConvertTypeOK,
     Stages, PageType
<1>2. UnusedLater /\ NothingWhileConverting /\ DownloadsOfShown
  BY NumbersShown DEF ConvertInit, UnusedLater, NothingWhileConverting, DownloadsOfShown, Empty
<1>3. PageConsistent
  BY DEF ConvertInit, PageConsistent, Empty
<1>4. DownloadsFaithful
  BY DEF ConvertInit, DownloadsFaithful, Empty, NoContext
<1> QED  BY <1>1, <1>2, <1>3, <1>4 DEF PageInv, PageTrue

(* An answer that is of no conversion but the last is aborted.             *)
LEMMA LastOrAborted ==
    ASSUME PageInv, NEW k \in Conversions, stageOf[k] # "unused", ~Aborted(k)
    PROVE  k = current
<1>1. k <= current
  BY NumbersShown DEF PageInv, UnusedLater, ConvertTypeOK
<1> QED  BY <1>1, NumbersShown DEF Aborted, PageInv, ConvertTypeOK

(* What a conversion's answer does to the page, if it does anything.       *)
LEMMA Answers ==
    ASSUME PageInv, NEW k \in Conversions, stageOf[k] \in Busy,
           NEW s \in {"generating", "over"}, Moved(k, s),
           UNCHANGED <<current, context, downloads, received>>,
           page' \in PageType,
           Aborted(k) => page' = page,
           ~Aborted(k) =>
              /\ page'.output \in {0, k} /\ page'.upload = page'.output
              /\ page'.session \in {0, page'.output}
              /\ page'.csv = page.csv /\ page'.excel = page.excel
              /\ s = "generating" => page'.converting /\ page'.phase = "generating"
              /\ s = "over" => ~page'.converting /\ page'.phase = "idle"
              /\ page'.converting => page'.output = 0
    PROVE  PageInv'
<1>0. stageOf \in [Conversions -> Stages] /\ k \in Nat /\ current \in Nat
  BY NumbersShown DEF PageInv, ConvertTypeOK, Stages
<1>1. stageOf' \in [Conversions -> Stages] /\ stageOf'[k] = s
  BY <1>0 DEF Moved, Stages
<1>2. \A j \in Conversions : j # k => stageOf'[j] = stageOf[j]
  BY <1>0 DEF Moved
<1>3. ConvertTypeOK'
  BY <1>1 DEF PageInv, ConvertTypeOK, PageType, Stages
<1>4. UnusedLater'
  BY <1>0, <1>1, <1>2 DEF PageInv, UnusedLater, Busy
<1>5. DownloadsOfShown'
  <2> SUFFICES ASSUME NEW d \in downloads
               PROVE  /\ d.asked = d.id /\ d.file \in {0, d.asked}
                      /\ stageOf'[d.id] = "over"
    BY DEF DownloadsOfShown
  <2>1. d.asked = d.id /\ d.file \in {0, d.asked} /\ stageOf[d.id] = "over"
        /\ d.asked \in Conversions
    BY DEF PageInv, DownloadsOfShown, ConvertTypeOK, Downloads
  <2>2. d.id # k
    BY <2>1 DEF Busy
  <2> QED  BY <2>1, <2>2, <1>2
<1>6. CASE Aborted(k)
  <2>1. k # current
    BY <1>0, <1>6 DEF Aborted
  <2>2. page' = page
    BY <1>6
  <2>3. PageConsistent'
    <3>1. current # 0 => stageOf'[current] = stageOf[current]
      BY <2>1, <1>2, NumbersShown DEF PageInv, ConvertTypeOK
    <3> QED  BY <2>2, <3>1 DEF PageInv, PageTrue, PageConsistent
  <2>4. DownloadsFaithful' /\ NothingWhileConverting'
    BY <2>2 DEF PageInv, PageTrue, DownloadsFaithful, NothingWhileConverting
  <2> QED  BY <1>3, <1>4, <1>5, <2>3, <2>4 DEF PageInv, PageTrue
<1>7. CASE ~Aborted(k)
  <2>1. k = current
    BY <1>7, LastOrAborted DEF Busy
  <2>2. page.converting
    BY <2>1, NumbersShown DEF PageInv, PageTrue, PageConsistent, Busy
  <2>3. page.csv = 0
    BY <2>2 DEF PageInv, NothingWhileConverting
  <2>4. PageConsistent'
    BY <1>1, <1>7, <2>1, NumbersShown DEF PageConsistent
  <2>5. DownloadsFaithful'
    <3>1. page'.csv = 0 /\ page'.excel = page.excel
      BY <1>7, <2>3
    <3> QED  BY <3>1 DEF PageInv, PageTrue, DownloadsFaithful
  <2>6. NothingWhileConverting'
    BY <1>7, <2>3 DEF NothingWhileConverting
  <2> QED  BY <1>3, <1>4, <1>5, <2>4, <2>5, <2>6 DEF PageInv, PageTrue
<1> QED  BY <1>6, <1>7

(* A download's step changes neither which conversion is shown nor whether *)
(* one is under way.                                                       *)
LEMMA SamePage ==
    ASSUME PageInv, UNCHANGED <<current, stageOf, context>>, page' \in PageType,
           downloads' \subseteq Downloads, received' \subseteq [asked : Conversions,
              file : Conversions],
           page'.output = page.output, page'.session = page.session,
           page'.upload = page.upload, page'.converting = page.converting,
           page'.phase = page.phase
    PROVE  ConvertTypeOK' /\ UnusedLater' /\ PageConsistent'
<1>1. ConvertTypeOK'
  BY DEF PageInv, ConvertTypeOK, PageType
<1>2. UnusedLater'
  BY DEF PageInv, UnusedLater
<1>3. PageConsistent'
  BY DEF PageInv, PageTrue, PageConsistent
<1> QED  BY <1>1, <1>2, <1>3

LEMMA SelectStep ==
    ASSUME PageInv, NEW prompted \in BOOLEAN, NEW tooLarge \in BOOLEAN,
           Select(prompted, tooLarge)
    PROVE  PageInv'
<1> DEFINE k == current + 1
           ctx == IF prompted THEN FollowUp ELSE NoContext
<1>1. /\ current \in Nat /\ k \in Conversions /\ k \in Shown /\ current' = k
      /\ context' = [context EXCEPT ![k] = ctx]
      /\ UNCHANGED <<downloads, received>>
  BY ConvertAssumption DEF Select, PageInv, ConvertTypeOK, Shown, Conversions
<1>2. PICK s \in {"validating", "generating", "over"} :
         /\ Moved(k, s)
         /\ page' \in PageType
         /\ page'.output = 0 /\ page'.session = 0 /\ page'.upload = 0
         /\ page'.csv = 0 /\ page'.excel = FALSE
         /\ page'.converting <=> s \in Busy
         /\ page'.phase = IF page'.converting THEN s ELSE "idle"
  BY EmptyTyped, Zenon, SMT DEF Select, Empty, Failed, Idle, PageType, Busy
<1>3. stageOf \in [Conversions -> Stages]
  BY DEF PageInv, ConvertTypeOK, Stages
<1>4. stageOf' \in [Conversions -> Stages] /\ stageOf'[k] = s
  BY <1>1, <1>2, <1>3 DEF Moved, Stages
<1>5. \A j \in Conversions : j # k => stageOf'[j] = stageOf[j]
  BY <1>2, <1>3 DEF Moved
<1>6. /\ ctx \in [output : Shown, session : Shown, upload : Shown, shown : Shown]
      /\ ctx.upload = ctx.shown /\ ctx.session \in {0, ctx.shown}
      /\ ctx.output = ctx.session
  <2>1. page \in PageType /\ page.upload = page.output /\ page.session \in {0, page.output}
    BY DEF PageInv, ConvertTypeOK, PageTrue, PageConsistent, PageType
  <2>2. CASE prompted
    BY <2>1, <2>2, NumbersShown DEF FollowUp, PageType
  <2>3. CASE ~prompted
    BY <2>3, NumbersShown DEF NoContext
  <2> QED  BY <2>2, <2>3
<1> HIDE DEF ctx
<1>7. ConvertTypeOK'
  BY <1>1, <1>2, <1>4, <1>6 DEF PageInv, ConvertTypeOK, PageType, Stages
<1>8. UnusedLater'
  <2> SUFFICES ASSUME NEW j \in Conversions PROVE stageOf'[j] = "unused" <=> j > k
    BY <1>1 DEF UnusedLater
  <2>1. j \in Nat /\ (stageOf[j] = "unused" <=> j > current)
    BY NumbersShown DEF PageInv, UnusedLater
  <2> QED  BY <1>1, <1>2, <1>4, <1>5, <2>1
<1>9. NothingWhileConverting'
  BY <1>2 DEF NothingWhileConverting
<1>10. DownloadsOfShown'
  <2> SUFFICES ASSUME NEW d \in downloads
               PROVE  /\ d.asked = d.id /\ d.file \in {0, d.asked}
                      /\ stageOf'[d.id] = "over"
    BY <1>1 DEF DownloadsOfShown
  <2>1. d.asked = d.id /\ d.file \in {0, d.asked} /\ stageOf[d.id] = "over"
        /\ d.asked \in Conversions
    BY DEF PageInv, DownloadsOfShown, ConvertTypeOK, Downloads
  <2>2. stageOf[k] = "unused"
    BY <1>1 DEF PageInv, UnusedLater
  <2> QED  BY <2>1, <2>2, <1>5
<1>11. PageConsistent'
  BY <1>1, <1>2, <1>4, NumbersShown DEF PageConsistent, Busy
<1>12. DownloadsFaithful'
  <2>1. \A j \in Conversions :
          /\ context'[j].upload = context'[j].shown
          /\ context'[j].session \in {0, context'[j].shown}
          /\ context'[j].output = context'[j].session
    BY <1>1, <1>6 DEF PageInv, ConvertTypeOK, PageTrue, DownloadsFaithful
  <2> QED  BY <1>1, <1>2, <2>1 DEF PageInv, PageTrue, DownloadsFaithful
<1> QED  BY <1>7, <1>8, <1>9, <1>10, <1>11, <1>12 DEF PageInv, PageTrue

LEMMA ConversionStep ==
    ASSUME PageInv, NEW k \in Conversions,
           Uploaded(k) \/ Errs(k) \/ \E kept \in BOOLEAN : Generated(k, kept)
    PROVE  PageInv'
<1>0. page \in PageType /\ k \in Shown
  BY NumbersShown DEF PageInv, ConvertTypeOK, PageType
<1>a. ASSUME ~Aborted(k), stageOf[k] \in Busy
      PROVE  page.output = 0 /\ page.upload = 0 /\ page.session = 0 /\ page.converting
  <2>1. k = current
    BY <1>a, LastOrAborted DEF Busy
  <2> QED
    BY <2>1, <1>a, NumbersShown DEF PageInv, PageTrue, PageConsistent,
       NothingWhileConverting, Busy
<1>1. CASE Uploaded(k)
  <2>1. CASE Aborted(k)
    BY <1>0, <1>1, <2>1, Answers DEF Uploaded, Busy
  <2>2. CASE ~Aborted(k)
    <3>1. page' = [page EXCEPT !.phase = "generating"] /\ Moved(k, "generating")
          /\ stageOf[k] \in Busy
      BY <1>1, <2>2 DEF Uploaded, Busy
    <3>2. page' \in PageType
      BY <1>0, <3>1 DEF PageType
    <3>3. /\ page'.output = 0 /\ page'.upload = 0 /\ page'.session = 0 /\ page'.converting
          /\ page'.csv = page.csv /\ page'.excel = page.excel /\ page'.phase = "generating"
      BY <1>0, <1>a, <2>2, <3>1 DEF PageType
    <3> QED  BY <1>1, <2>2, <3>1, <3>2, <3>3, Answers DEF Uploaded
  <2> QED  BY <2>1, <2>2
<1>2. CASE Errs(k)
  <2>1. CASE Aborted(k)
    BY <1>0, <1>2, <2>1, Answers DEF Errs, Busy
  <2>2. CASE ~Aborted(k)
    <3>1. page' = Failed(page) /\ Moved(k, "over") /\ stageOf[k] \in Busy
      BY <1>2, <2>2 DEF Errs, Busy
    <3>2. page' \in PageType
      BY <1>0, <3>1 DEF PageType, Failed, Idle
    <3>3. /\ page'.output = 0 /\ page'.upload = 0 /\ page'.session = 0
          /\ page'.converting = FALSE
          /\ page'.csv = page.csv /\ page'.excel = page.excel /\ page'.phase = "idle"
      BY <1>0, <1>a, <2>2, <3>1 DEF PageType, Failed, Idle
    <3> QED  BY <1>2, <2>2, <3>1, <3>2, <3>3, Answers DEF Errs
  <2> QED  BY <2>1, <2>2
<1>3. ASSUME NEW kept \in BOOLEAN, Generated(k, kept) PROVE PageInv'
  <2>1. CASE Aborted(k)
    BY <1>0, <1>3, <2>1, Answers DEF Generated, Busy
  <2>2. CASE ~Aborted(k)
    <3>1. /\ page' = [Idle(page) EXCEPT !.output = k, !.session = IF kept THEN k ELSE 0,
                                        !.upload = k]
          /\ Moved(k, "over") /\ stageOf[k] \in Busy
      BY <1>3, <2>2 DEF Generated, Busy
    <3>2. page' \in PageType
      BY <1>0, <3>1, NumbersShown DEF PageType, Idle
    <3>3. /\ page'.output = k /\ page'.upload = k /\ page'.session \in {0, k}
          /\ page'.converting = FALSE /\ page'.phase = "idle"
          /\ page'.csv = page.csv /\ page'.excel = page.excel
      BY <1>0, <3>1 DEF PageType, Idle
    <3> QED  BY <1>3, <2>2, <3>1, <3>2, <3>3, Answers DEF Generated
  <2> QED  BY <2>1, <2>2
<1> QED  BY <1>1, <1>2, <1>3

LEMMA ResetStep == ASSUME PageInv, Reset PROVE PageInv'
<1>1. page \in PageType /\ ~page.converting /\ page' = Blank
      /\ UNCHANGED <<current, stageOf, context, downloads, received>>
  BY DEF Reset, PageInv, ConvertTypeOK, PageType
<1>2. page' \in PageType
  BY <1>1, BlankTyped
<1>3. /\ page'.output = 0 /\ page'.session = 0 /\ page'.upload = 0 /\ page'.csv = 0
      /\ page'.excel = FALSE /\ page'.converting = page.converting /\ page'.phase = "idle"
  BY <1>1 DEF Blank, Empty
<1>4. ConvertTypeOK' /\ UnusedLater' /\ DownloadsOfShown'
  BY <1>1, <1>2 DEF PageInv, ConvertTypeOK, UnusedLater, DownloadsOfShown, PageType
<1>5. PageConsistent' /\ NothingWhileConverting'
  BY <1>1, <1>3 DEF PageInv, PageTrue, PageConsistent, NothingWhileConverting
<1>6. DownloadsFaithful'
  BY <1>1, <1>3 DEF PageInv, PageTrue, DownloadsFaithful
<1> QED  BY <1>4, <1>5, <1>6 DEF PageInv, PageTrue

LEMMA DownloadStep == ASSUME PageInv, DownloadCsv \/ DownloadExcel PROVE PageInv'
<1>1. PICK kind \in {"csv", "excel"} :
        /\ downloads' = downloads \cup {Begin(kind)}
        /\ kind = "csv" => page' = page
        /\ kind = "excel" =>
             page' = [page EXCEPT !.excelError = FALSE, !.done = FALSE, !.excel = TRUE]
  BY DEF DownloadCsv, DownloadExcel
<1>2. /\ page.output # 0 /\ ~page.converting
      /\ UNCHANGED <<current, stageOf, context, received>>
  BY DEF DownloadCsv, DownloadExcel
<1>3. page \in PageType
  BY DEF PageInv, ConvertTypeOK, PageType
<1>4. /\ page' \in PageType
      /\ page'.output = page.output /\ page'.session = page.session
      /\ page'.upload = page.upload /\ page'.converting = page.converting
      /\ page'.phase = page.phase /\ page'.csv = page.csv
      /\ kind = "csv" => page'.excel = page.excel
  BY <1>1, <1>3 DEF PageType
<1>5. /\ Begin(kind) \in Downloads /\ Begin(kind).kind = kind
      /\ Begin(kind).id = current /\ Begin(kind).asked = current /\ page.output = current
      /\ Begin(kind).file \in {0, current}
  BY <1>2, BeginTyped
<1>6. ConvertTypeOK' /\ UnusedLater' /\ PageConsistent'
  BY <1>1, <1>2, <1>4, <1>5, SamePage DEF PageInv, ConvertTypeOK
<1>7. NothingWhileConverting'
  BY <1>2, <1>4 DEF NothingWhileConverting
<1>8. stageOf[current] = "over"
  <2>1. current \in Conversions /\ stageOf[current] \in Stages
    BY <1>2, <1>5, NumbersShown DEF PageInv, ConvertTypeOK, Stages
  <2>2. stageOf[current] \notin Busy
    BY <1>2, <1>5 DEF PageInv, PageTrue, PageConsistent, Busy
  <2>3. stageOf[current] # "unused"
    BY <2>1, <1>5, NumbersShown DEF PageInv, UnusedLater
  <2> QED  BY <2>1, <2>2, <2>3 DEF Stages, Busy
<1>9. DownloadsOfShown'
  BY <1>1, <1>2, <1>5, <1>8 DEF PageInv, DownloadsOfShown
<1>10. DownloadsFaithful'
  <2>1. page'.excel => \E d \in downloads' : d.kind = "excel" /\ d.id = current'
    BY <1>1, <1>2, <1>4, <1>5 DEF PageInv, PageTrue, DownloadsFaithful
  <2> QED  BY <1>2, <1>4, <2>1 DEF PageInv, PageTrue, DownloadsFaithful
<1> QED  BY <1>6, <1>7, <1>9, <1>10 DEF PageInv, PageTrue

LEMMA ExportedStep == ASSUME PageInv, NEW d \in Downloads, Exported(d) PROVE PageInv'
<1> DEFINE done == [d EXCEPT !.file = d.asked]
<1>1. /\ d \in downloads /\ UNCHANGED <<current, stageOf, context, received>>
      /\ page \in PageType /\ downloads \subseteq Downloads
  BY DEF Exported, PageInv, ConvertTypeOK, PageType
<1>2. d.asked = d.id /\ d.asked \in Conversions /\ stageOf[d.id] = "over" /\ d.asked \in Shown
  BY <1>1, NumbersShown DEF PageInv, DownloadsOfShown, Downloads
<1>3. /\ done \in Downloads /\ done.kind = d.kind /\ done.id = d.id
      /\ done.asked = d.asked /\ done.file = d.asked
  BY <1>2 DEF Downloads
<1> HIDE DEF done
<1>4. CASE d.id = current
  <2>1. /\ downloads' = (downloads \ {d}) \cup {done}
        /\ page' = IF d.kind = "csv" THEN [page EXCEPT !.csv = d.asked] ELSE page
    BY <1>4 DEF Exported, done
  <2>2. /\ page' \in PageType
        /\ page'.output = page.output /\ page'.session = page.session
        /\ page'.upload = page.upload /\ page'.converting = page.converting
        /\ page'.phase = page.phase /\ page'.excel = page.excel
        /\ page'.csv \in {page.csv, d.asked}
    BY <1>1, <1>2, <2>1 DEF PageType
  <2>3. ConvertTypeOK' /\ UnusedLater' /\ PageConsistent'
    BY <1>1, <1>3, <2>1, <2>2, SamePage DEF PageInv, ConvertTypeOK
  <2>4. ~page.converting
    BY <1>2, <1>4 DEF PageInv, PageTrue, PageConsistent
  <2>5. NothingWhileConverting'
    BY <2>2, <2>4 DEF NothingWhileConverting
  <2>6. DownloadsOfShown'
    BY <1>1, <1>2, <1>3, <2>1 DEF PageInv, DownloadsOfShown
  <2>7. page'.output # 0 => page'.csv \in {0, page'.output}
    BY <1>2, <1>4, <2>2 DEF PageInv, PageTrue, PageConsistent, DownloadsFaithful
  <2>8. page'.excel => \E e \in downloads' : e.kind = "excel" /\ e.id = current
    <3> SUFFICES ASSUME page.excel
       PROVE \E e \in downloads' : e.kind = "excel" /\ e.id = current
      BY <2>2
    <3>1. PICK e \in downloads : e.kind = "excel" /\ e.id = current
      BY DEF PageInv, PageTrue, DownloadsFaithful
    <3> QED  BY <1>3, <2>1, <3>1
  <2> QED
    BY <1>1, <2>3, <2>5, <2>6, <2>7, <2>8 DEF PageInv, PageTrue, DownloadsFaithful
<1>5. CASE d.id # current
  <2>1. downloads' = downloads \ {d} /\ page' = page
    BY <1>5 DEF Exported
  <2>2. ConvertTypeOK' /\ UnusedLater' /\ PageConsistent'
    BY <1>1, <2>1, SamePage DEF PageInv, ConvertTypeOK
  <2>3. NothingWhileConverting' /\ DownloadsOfShown'
    BY <1>1, <2>1 DEF PageInv, NothingWhileConverting, DownloadsOfShown
  <2>4. DownloadsFaithful'
    BY <1>1, <1>5, <2>1 DEF PageInv, PageTrue, DownloadsFaithful
  <2> QED  BY <2>2, <2>3, <2>4 DEF PageInv, PageTrue
<1> QED  BY <1>4, <1>5

(* A download that ends, well or not, takes its spinner with it.           *)
LEMMA DownloadEnds ==
    ASSUME PageInv, NEW d \in Downloads, d \in downloads,
           UNCHANGED <<current, stageOf, context>>,
           downloads' = downloads \ {d},
           \/ received' = received
           \/ /\ d.file # 0
              /\ received' = received \cup {[asked |-> d.asked, file |-> d.file]},
           page' \in PageType,
           page'.output = page.output, page'.session = page.session,
           page'.upload = page.upload, page'.converting = page.converting,
           page'.phase = page.phase, page'.csv = page.csv,
           page'.excel => page.excel /\ ~(d.kind = "excel" /\ d.id = current)
    PROVE  PageInv'
<1>1. d.asked \in Conversions /\ (d.file = 0 \/ d.file = d.asked)
  BY DEF PageInv, DownloadsOfShown, Downloads
<1>2. \A f \in received' : f \in received \/ f = [asked |-> d.asked, file |-> d.asked]
  BY <1>1
<1>3. received' \subseteq [asked : Conversions, file : Conversions]
  BY <1>1, <1>2 DEF PageInv, ConvertTypeOK
<1>4. ConvertTypeOK' /\ UnusedLater' /\ PageConsistent'
  BY <1>3, SamePage DEF PageInv, ConvertTypeOK
<1>5. NothingWhileConverting' /\ DownloadsOfShown'
  BY DEF PageInv, NothingWhileConverting, DownloadsOfShown
<1>6. \A f \in received' : f.file = f.asked
  BY <1>2 DEF PageInv, PageTrue, DownloadsFaithful
<1>7. page'.excel => \E e \in downloads' : e.kind = "excel" /\ e.id = current
  BY DEF PageInv, PageTrue, DownloadsFaithful
<1> QED
  BY <1>4, <1>5, <1>6, <1>7 DEF PageInv, PageTrue, DownloadsFaithful

LEMMA ReceivedStep ==
    ASSUME PageInv, NEW d \in Downloads, Received(d) \/ DownloadFails(d) PROVE PageInv'
<1>1. page \in PageType
  BY DEF PageInv, ConvertTypeOK, PageType
<1>2. CASE Received(d)
  <2>1. /\ page' \in PageType
        /\ page'.output = page.output /\ page'.session = page.session
        /\ page'.upload = page.upload /\ page'.converting = page.converting
        /\ page'.phase = page.phase /\ page'.csv = page.csv
        /\ page'.excel => page.excel /\ ~(d.kind = "excel" /\ d.id = current)
    BY <1>1, <1>2 DEF Received, PageType
  <2> QED  BY <1>2, <2>1, DownloadEnds DEF Received
<1>3. CASE DownloadFails(d)
  <2>1. /\ page' \in PageType
        /\ page'.output = page.output /\ page'.session = page.session
        /\ page'.upload = page.upload /\ page'.converting = page.converting
        /\ page'.phase = page.phase /\ page'.csv = page.csv
        /\ page'.excel => page.excel /\ ~(d.kind = "excel" /\ d.id = current)
    BY <1>1, <1>3 DEF DownloadFails, PageType, Downloads
  <2> QED  BY <1>3, <2>1, DownloadEnds DEF DownloadFails
<1> QED  BY <1>2, <1>3

LEMMA PageInvStep == PageInv /\ [ConvertNext]_convertVars => PageInv'
<1> SUFFICES ASSUME PageInv, [ConvertNext]_convertVars PROVE PageInv'
  OBVIOUS
<1>1. ASSUME UNCHANGED convertVars PROVE PageInv'
  BY <1>1 DEF convertVars, PageInv, ConvertTypeOK, UnusedLater, NothingWhileConverting,
              DownloadsOfShown, PageTrue, PageConsistent, DownloadsFaithful
<1> QED
  BY <1>1, SelectStep, ConversionStep, ResetStep, DownloadStep, ExportedStep, ReceivedStep
  DEF ConvertNext

(* What the convert page shows, saves and follows up on is of the last     *)
(* conversion, however answers and clicks cross, for any number of them.   *)
THEOREM PageStaysTrue == ConvertSpec => []PageTrue
<1>1. PageInv => PageTrue
  BY DEF PageInv
<1> QED  BY PageInvInit, PageInvStep, <1>1, PTL DEF ConvertSpec

-----------------------------------------------------------------------------
(***************************************************************************)
(* The custom schemas.  How far the limit may be passed is not inductive:  *)
(* RoomKept counts with the rows what the requests that were checked may   *)
(* still add, a new row or one that was deleted since.  And the page and   *)
(* the rows differ, while nothing entangles them, only by the rows no list *)
(* has told it of and the changes that are done and not yet answered       *)
(* (Agrees), each of which is one the answer puts right (DueRight), since  *)
(* no two are of one schema (OneEach).                                     *)
(***************************************************************************)

SchemaRow == [id : Nat, name : SchemaNames]
AskType == [by : {"none", "page", "tab"},
            kind : {"none", "list", "create", "update", "delete"},
            id : Nat, name : SchemaNames \cup {NoName}]

SchemaTypes ==
    /\ rows \subseteq SchemaRow /\ IsFiniteSet(rows) /\ lastId \in Nat
    /\ at \in [SchemaRequests -> {"idle", "token", "sent", "checked", "failed", "done"}]
    /\ req \in [SchemaRequests -> AskType]
    /\ reading \in [SchemaRequests -> SUBSET SchemaRow]
    /\ BagToSet(shown) \subseteq SchemaRow

(* Nothing is known of a schema that was not created yet.                  *)
IdsKnown ==
    /\ \A row \in rows \cup BagToSet(shown) : row.id \in 1 .. lastId
    /\ \A r \in SchemaRequests : \A row \in reading[r] : row.id \in 1 .. lastId
    /\ modal.id \in 0 .. lastId /\ dialog \in 0 .. lastId /\ unseen \subseteq 1 .. lastId
    /\ \A r \in SchemaRequests : req[r].id \in 0 .. lastId

(* What a request asks for at each place.                                  *)
WellAsked ==
    \A r \in SchemaRequests :
        /\ at[r] = "idle" => req[r] = NoAsk
        /\ at[r] = "token" => ByPage(r)
        /\ req[r].kind = "none" => ~ByPage(r)
        /\ req[r].kind = "list" => at[r] # "checked" /\ req[r].id = 0
        /\ req[r].kind = "create" =>
              (at[r] = "done" <=> req[r].id # 0) /\ req[r].name \in SchemaNames
        /\ req[r].kind = "update" => req[r].id # 0 /\ req[r].name \in SchemaNames
        /\ req[r].kind = "delete" => req[r].id # 0 /\ at[r] # "checked"

RowsDiffer ==
    \A row, other \in rows : row.id = other.id \/ row.name = other.name => row = other

Checked(kind) == {r \in SchemaRequests : at[r] = "checked" /\ req[r].kind = kind}
Returning == {req[r].id : r \in Checked("update")}
RoomKept ==
    Cardinality(IdsOf(rows) \cup Returning) + Cardinality(Checked("create"))
        < MaxSchemas + Cardinality(SchemaRequests)

OneEach ==
    \A q, r \in SchemaRequests :
        q # r /\ ByPage(q) /\ ByPage(r) =>
            /\ req[q].kind # "list"
            /\ req[q].id = 0 \/ req[q].id # req[r].id

Unanswered(row) ==
    \E r \in SchemaRequests : Changing(r) /\ at[r] = "done" /\ req[r].id = row.id
Agrees ==
    /\ shown = SetToBag(BagToSet(shown))
    /\ \A row, other \in BagToSet(shown) : row.id = other.id => row = other
    /\ \A row \in rows : row.id \in unseen \/ Unanswered(row) \/ row \in BagToSet(shown)
    /\ \A row \in BagToSet(shown) :
          row.id \notin unseen /\ (Unanswered(row) \/ row \in rows)

DueRight ==
    \A r \in SchemaRequests : ByPage(r) =>
        /\ at[r] = "checked" /\ req[r].kind = "update" => req[r].id \in IdsOf(rows)
        /\ at[r] = "done" =>
              /\ req[r].kind = "create" =>
                    /\ RowOf(r) \in rows
                    /\ req[r].id \notin IdsOf(BagToSet(shown)) \cup unseen
              /\ req[r].kind = "update" =>
                    /\ RowOf(r) \in rows
                    /\ req[r].id \in IdsOf(BagToSet(shown)) \cup unseen
              /\ req[r].kind = "delete" => req[r].id \notin IdsOf(rows)
              /\ req[r].kind = "list" => reading[r] = rows

PageFollows == ~entangled => OneEach /\ Agrees /\ DueRight

SchemasInv ==
    SchemaTypes /\ IdsKnown /\ WellAsked /\ RowsDiffer /\ RoomKept /\ PageFollows

-----------------------------------------------------------------------------
(* The sets counted are finite, and the rows are as many as their ids.     *)
LEMMA RoomFinite ==
    ASSUME SchemaTypes
    PROVE  /\ IsFiniteSet(IdsOf(rows)) /\ IsFiniteSet(Returning)
           /\ \A kind : IsFiniteSet(Checked(kind))
           /\ Cardinality(Returning) <= Cardinality(Checked("update"))
           /\ RowsDiffer => Cardinality(IdsOf(rows)) = Cardinality(rows)
<1> DEFINE idOf == [row \in rows |-> row.id]
           asked == [r \in Checked("update") |-> req[r].id]
<1>1. \A kind : IsFiniteSet(Checked(kind))
  <2> TAKE kind
  <2>1. Checked(kind) \subseteq SchemaRequests
    BY DEF Checked
  <2> QED  BY <2>1, CustomSchemasAssumption, FS_Subset
<1>2. IsFiniteSet(rows)
  BY DEF SchemaTypes
<1>3. idOf \in Surjection(rows, IdsOf(rows))
  BY DEF Surjection, IdsOf
<1>4. asked \in Surjection(Checked("update"), Returning)
  BY DEF Surjection, Returning
<1>5. RowsDiffer => idOf \in Injection(rows, IdsOf(rows))
  BY DEF Injection, IsInjective, RowsDiffer, IdsOf
<1> HIDE DEF idOf, asked
<1>6. /\ IsFiniteSet(IdsOf(rows))
      /\ RowsDiffer => Cardinality(IdsOf(rows)) = Cardinality(rows)
  BY <1>2, <1>3, <1>5, FS_Surjection
<1>7. IsFiniteSet(Returning) /\ Cardinality(Returning) <= Cardinality(Checked("update"))
  BY <1>1, <1>4, FS_Surjection
<1> QED  BY <1>1, <1>6, <1>7

(* Most steps only take from what is counted.                              *)
LEMMA RoomMoved ==
    ASSUME SchemaTypes, RoomKept, IdsOf(rows') \subseteq IdsOf(rows) \cup Returning,
           Returning' \subseteq IdsOf(rows) \cup Returning,
           Checked("create")' \subseteq Checked("create")
    PROVE  RoomKept'
<1> DEFINE x == IdsOf(rows) \cup Returning
           y == IdsOf(rows') \cup Returning'
           c == Checked("create")
           d == Checked("create")'
           most == MaxSchemas + Cardinality(SchemaRequests)
<1>1. IsFiniteSet(x) /\ IsFiniteSet(c)
  BY RoomFinite, FS_Union
<1>2. Cardinality(x) + Cardinality(c) < most
  BY DEF RoomKept
<1>3. y \subseteq x /\ d \subseteq c
  OBVIOUS
<1>4. most \in Nat
  BY CustomSchemasAssumption, FS_CardinalityType
<1>5. RoomKept' <=> Cardinality(y) + Cardinality(d) < most
  BY DEF RoomKept, IdsOf
<1> HIDE DEF x, y, c, d, most
<1>6. /\ Cardinality(x) \in Nat /\ Cardinality(y) \in Nat /\ Cardinality(y) <= Cardinality(x)
      /\ Cardinality(c) \in Nat /\ Cardinality(d) \in Nat /\ Cardinality(d) <= Cardinality(c)
  BY <1>1, <1>3, FS_Subset, FS_CardinalityType
<1> QED  BY <1>2, <1>4, <1>5, <1>6

(* A request to create that passes the check finds fewer rows than the     *)
(* limit; every other request adds one at most.                            *)
LEMMA RoomForOne ==
    ASSUME SchemaTypes, RowsDiffer, NEW r \in SchemaRequests, Cardinality(rows) < MaxSchemas,
           req[r].kind = "create", at' = [at EXCEPT ![r] = "checked"], UNCHANGED <<rows, req>>
    PROVE  RoomKept'
<1> DEFINE x == IdsOf(rows)
           u == Checked("update")'
           d == Checked("create")'
           w == Returning'
           n == Cardinality(SchemaRequests)
<1>1. SchemaRequests \in SUBSET SchemaRequests /\ IsFiniteSet(SchemaRequests)
  BY CustomSchemasAssumption
<1>2. u \subseteq SchemaRequests /\ d \subseteq SchemaRequests /\ u \cap d = {}
  BY DEF Checked
<1>3. u = Checked("update") \ {r}
  BY DEF Checked, SchemaTypes
<1>4. w \subseteq Returning
  BY <1>3 DEF Returning
<1>5. IsFiniteSet(x) /\ Cardinality(x) = Cardinality(rows) /\ IsFiniteSet(Returning)
  BY RoomFinite
<1> DEFINE asked == [q \in u |-> req[q].id]
<1>6. asked \in Surjection(u, w)
  BY DEF Surjection, Returning
<1>7. RoomKept' <=> Cardinality(x \cup w) + Cardinality(d) < MaxSchemas + n
  BY DEF RoomKept, IdsOf
<1> HIDE DEF x, u, d, w, n, asked
<1>8. /\ IsFiniteSet(u) /\ IsFiniteSet(d) /\ IsFiniteSet(u \cup d)
      /\ u \cup d \subseteq SchemaRequests
  BY <1>1, <1>2, FS_Subset
<1>9. IsFiniteSet(w) /\ Cardinality(w) <= Cardinality(u)
  BY <1>6, <1>8, FS_Surjection
<1>10. Cardinality(x \cup w) <= Cardinality(x) + Cardinality(w)
  <2>1. Cardinality(x \cup w) = Cardinality(x) + Cardinality(w) - Cardinality(x \cap w)
    BY <1>5, <1>9, FS_Union
  <2>2. Cardinality(x \cap w) \in Nat
    BY <1>9, FS_Intersection, FS_CardinalityType
  <2>3. Cardinality(x) \in Nat /\ Cardinality(w) \in Nat
    BY <1>5, <1>9, FS_CardinalityType
  <2> QED  BY <2>1, <2>2, <2>3
<1>11. Cardinality(u) + Cardinality(d) <= n
  <2>1. Cardinality(u \cup d) = Cardinality(u) + Cardinality(d) - Cardinality({})
    BY <1>2, <1>8, FS_Union
  <2>2. Cardinality(u \cup d) <= n
    BY <1>1, <1>8, FS_Subset DEF n
  <2>3. Cardinality(u) \in Nat /\ Cardinality(d) \in Nat
    BY <1>8, FS_CardinalityType
  <2> QED  BY <2>1, <2>2, <2>3, FS_EmptySet
<1>12. /\ Cardinality(x) \in Nat /\ Cardinality(w) \in Nat /\ Cardinality(u) \in Nat
       /\ Cardinality(d) \in Nat /\ Cardinality(x \cup w) \in Nat /\ n \in Nat
  <2>1. IsFiniteSet(x \cup w)
    BY <1>5, <1>9, FS_Union
  <2> QED  BY <1>1, <1>5, <1>8, <1>9, <2>1, FS_CardinalityType DEF n
<1> QED  BY <1>5, <1>7, <1>9, <1>10, <1>11, <1>12, CustomSchemasAssumption

LEMMA RoomUsed ==
    ASSUME SchemaTypes, RoomKept, NEW r \in SchemaRequests, at[r] = "checked",
           req[r].kind = "create", NEW id,
           IdsOf(rows') = IdsOf(rows) \cup {id}, at' = [at EXCEPT ![r] = "done"],
           \A q \in SchemaRequests : req'[q].kind = req[q].kind,
           \A q \in SchemaRequests \ {r} : req'[q] = req[q]
    PROVE  RoomKept'
<1> DEFINE x == IdsOf(rows) \cup Returning
           y == IdsOf(rows') \cup Returning'
           c == Checked("create")
           d == Checked("create")'
           most == MaxSchemas + Cardinality(SchemaRequests)
<1>1. IsFiniteSet(x) /\ IsFiniteSet(c)
  BY RoomFinite, FS_Union
<1>2. Cardinality(x) + Cardinality(c) < most
  BY DEF RoomKept
<1>3. d = c \ {r} /\ r \in c
  BY DEF Checked, SchemaTypes
<1>4. Checked("update")' = Checked("update") /\ r \notin Checked("update")
  BY DEF Checked, SchemaTypes
<1>5. Returning' = Returning
  <2>1. \A q \in Checked("update") : req'[q] = req[q]
    BY <1>4 DEF Checked
  <2> QED  BY <1>4, <2>1 DEF Returning
<1>6. y = x \cup {id}
  BY <1>5
<1>7. RoomKept' <=> Cardinality(y) + Cardinality(d) < most
  BY DEF RoomKept, IdsOf
<1> HIDE DEF x, y, c, d
<1>8. Cardinality(d) = Cardinality(c) - 1
  BY <1>1, <1>3, FS_RemoveElement
<1>9. Cardinality(y) = IF id \in x THEN Cardinality(x) ELSE Cardinality(x) + 1
  BY <1>1, <1>6, FS_AddElement
<1>10. Cardinality(x) \in Nat /\ Cardinality(c) \in Nat
  BY <1>1, FS_CardinalityType
<1>11. most \in Nat
  BY CustomSchemasAssumption, FS_CardinalityType
<1> HIDE DEF most
<1> QED  BY <1>2, <1>7, <1>8, <1>9, <1>10, <1>11

-----------------------------------------------------------------------------
LEMMA NumberedRows ==
    ASSUME NEW n \in Nat, NEW f, NEW S, S = {[id |-> i, name |-> f[i]] : i \in 1 .. n}
    PROVE  IsFiniteSet(S) /\ Cardinality(S) <= n
<1> DEFINE row == [i \in 1 .. n |-> [id |-> i, name |-> f[i]]]
<1>1. row \in Surjection(1 .. n, S)
  BY DEF Surjection
<1>2. IsFiniteSet(1 .. n) /\ Cardinality(1 .. n) = n
  BY FS_Interval
<1> HIDE DEF row
<1> QED  BY <1>1, <1>2, FS_Surjection

LEMMA SchemasInvInit == SchemasInit => SchemasInv
<1> SUFFICES ASSUME SchemasInit PROVE SchemasInv
  OBVIOUS
<1>0. PICK n \in 0 .. MaxSchemas :
         /\ \E f \in [1 .. n -> SchemaNames] :
               /\ \A i, j \in 1 .. n : f[i] = f[j] => i = j
               /\ rows = {[id |-> i, name |-> f[i]] : i \in 1 .. n}
         /\ lastId = n
  BY DEF SchemasInit
<1>1. PICK f \in [1 .. n -> SchemaNames] :
         /\ \A i, j \in 1 .. n : f[i] = f[j] => i = j
         /\ rows = {[id |-> i, name |-> f[i]] : i \in 1 .. n}
  BY <1>0
<1>2. PICK first \in SchemaRequests :
         /\ at = [r \in SchemaRequests |-> IF r = first THEN "token" ELSE "idle"]
         /\ req = [r \in SchemaRequests |->
                      IF r = first THEN Asked("page", "list", 0, NoName) ELSE NoAsk]
  BY DEF SchemasInit
<1>5. /\ reading = [r \in SchemaRequests |-> {}] /\ shown = EmptyBag /\ unseen = IdsOf(rows)
      /\ modal.id = 0 /\ dialog = 0
  BY DEF SchemasInit
<1>3. n \in Nat /\ n <= MaxSchemas /\ IsFiniteSet(1 .. n) /\ Cardinality(1 .. n) = n
  <2>1. n \in Nat /\ n <= MaxSchemas
    BY CustomSchemasAssumption
  <2> QED  BY <2>1, FS_Interval
<1>4. BagToSet(shown) = {} /\ shown = SetToBag(BagToSet(shown))
  BY <1>5 DEF BagToSet, SetToBag, EmptyBag
<1>6. IsFiniteSet(rows) /\ Cardinality(rows) <= n
  BY <1>1, <1>3, NumberedRows
<1>7. \A r \in rows : r \in SchemaRow /\ r.id \in 1 .. n /\ r = [id |-> r.id, name |-> f[r.id]]
  BY <1>1, <1>3 DEF SchemaRow
<1>8. NoAsk \in AskType /\ Asked("page", "list", 0, NoName) \in AskType
  BY DEF NoAsk, Asked, AskType
<1>9. SchemaTypes
  <2>1. rows \subseteq SchemaRow /\ IsFiniteSet(rows) /\ lastId \in Nat
    BY <1>0, <1>3, <1>6, <1>7
  <2>2. at \in [SchemaRequests -> {"idle", "token", "sent", "checked", "failed", "done"}]
    BY <1>2
  <2>3. req \in [SchemaRequests -> AskType]
    BY <1>2, <1>8
  <2> QED  BY <2>1, <2>2, <2>3, <1>4, <1>5 DEF SchemaTypes
<1>10. IdsKnown /\ WellAsked
  <2>1. unseen \subseteq 1 .. lastId
    BY <1>0, <1>5, <1>7 DEF IdsOf
  <2>2. \A r \in SchemaRequests : req[r].id = 0
    BY <1>2 DEF NoAsk, Asked
  <2>3. IdsKnown
    BY <1>0, <1>3, <1>4, <1>5, <1>7, <2>1, <2>2 DEF IdsKnown
  <2>4. WellAsked
    BY <1>2 DEF WellAsked, NoAsk, Asked, ByPage
  <2> QED  BY <2>3, <2>4
<1>11. RowsDiffer
  BY <1>1, <1>7 DEF RowsDiffer
<1>12. RoomKept
  <2>1. Checked("create") = {} /\ Checked("update") = {}
    BY <1>2 DEF Checked
  <2>2. Returning = {}
    BY <2>1 DEF Returning
  <2>3. Cardinality(IdsOf(rows)) <= n /\ Cardinality(IdsOf(rows)) \in Nat
    BY <1>6, <1>9, <1>11, RoomFinite, FS_CardinalityType
  <2>4. Cardinality(SchemaRequests) \in Nat /\ Cardinality(SchemaRequests) # 0
    BY CustomSchemasAssumption, FS_EmptySet, FS_CardinalityType
  <2>5. IdsOf(rows) \cup Returning = IdsOf(rows)
    BY <2>2
  <2>6. Cardinality(Checked("create")) = 0
    BY <2>1, FS_EmptySet
  <2>7. Cardinality(IdsOf(rows)) + 0 < MaxSchemas + Cardinality(SchemaRequests)
    BY <1>3, <2>3, <2>4, CustomSchemasAssumption
  <2> QED  BY <2>5, <2>6, <2>7 DEF RoomKept
<1>13. PageFollows
  <2>1. OneEach
    BY <1>2 DEF OneEach, ByPage, NoAsk
  <2>2. Agrees
    BY <1>4, <1>5 DEF Agrees, IdsOf
  <2>3. DueRight
    BY <1>2 DEF DueRight
  <2> QED  BY <2>1, <2>2, <2>3 DEF PageFollows
<1> QED  BY <1>9, <1>10, <1>11, <1>12, <1>13 DEF SchemasInv

(* The form and the dialog open on what is shown, and change nothing else. *)
LEMMA FormStep ==
    ASSUME SchemasInv, NEW id \in Nat,
           OpenForm(id) \/ CloseForm \/ OpenDialog(id) \/ CloseDialog
    PROVE  SchemasInv'
<1>0. /\ \A row \in BagToSet(shown) : row.id \in 0 .. lastId
      /\ modal.id \in 0 .. lastId /\ dialog \in 0 .. lastId /\ lastId \in Nat
  BY DEF SchemasInv, IdsKnown, SchemaTypes
<1>1. UNCHANGED <<schemaRows, at, req, reading, shown, unseen, entangled>>
  BY DEF OpenForm, CloseForm, OpenDialog, CloseDialog
<1>2. modal'.id \in 0 .. lastId /\ dialog' \in 0 .. lastId
  BY <1>0 DEF OpenForm, CloseForm, OpenDialog, CloseDialog, IdsOf
<1>3. IdsKnown'
  BY <1>1, <1>2 DEF SchemasInv, IdsKnown, schemaRows
<1>4. SchemaTypes' /\ WellAsked' /\ RowsDiffer' /\ RoomKept'
  BY <1>1 DEF SchemasInv, SchemaTypes, WellAsked, RowsDiffer, RoomKept, Checked, Returning,
              ByPage, schemaRows
<1>5. (OneEach /\ Agrees /\ DueRight)' <=> OneEach /\ Agrees /\ DueRight
  BY <1>1 DEF OneEach, Agrees, DueRight, Unanswered, Changing, ByPage, RowOf, schemaRows
<1>6. PageFollows'
  BY <1>1, <1>5 DEF SchemasInv, PageFollows
<1> QED  BY <1>3, <1>4, <1>6 DEF SchemasInv

(* A request is made: the page's is of no schema that another of its       *)
(* requests is of, or the page is entangled.                               *)
LEMMA StartStep ==
    ASSUME SchemasInv, NEW r \in SchemaRequests, NEW what \in AskType, Start(r, what),
           what.by # "none", what.kind # "none", what.id \in 0 .. lastId,
           what.kind \in {"list", "create"} => what.id = 0,
           what.kind \in {"update", "delete"} => what.id # 0,
           what.kind \in {"create", "update"} => what.name \in SchemaNames
    PROVE  SchemasInv'
<1>0. SchemaTypes /\ IdsKnown /\ WellAsked /\ RowsDiffer /\ RoomKept
  BY DEF SchemasInv
<1>1. /\ at[r] = "idle" /\ req' = [req EXCEPT ![r] = what]
      /\ at' = [at EXCEPT ![r] = IF what.by = "page" THEN "token" ELSE "sent"]
      /\ UNCHANGED <<rows, lastId, shown, modal, dialog, reading, unseen>>
  BY DEF Start, schemaPage
<1>2. req[r] = NoAsk
  BY <1>0, <1>1 DEF WellAsked
<1>3. /\ \A q \in SchemaRequests \ {r} : req'[q] = req[q] /\ at'[q] = at[q]
      /\ req'[r] = what /\ at'[r] = IF what.by = "page" THEN "token" ELSE "sent"
  BY <1>0, <1>1 DEF SchemaTypes
<1>4. SchemaTypes'
  BY <1>0, <1>1 DEF SchemaTypes
<1>5. IdsKnown' /\ RowsDiffer'
  BY <1>0, <1>1, <1>3 DEF IdsKnown, RowsDiffer
<1>6. WellAsked'
  BY <1>0, <1>3 DEF WellAsked, ByPage
<1>7. RoomKept'
  <2>1. \A kind : Checked(kind)' = Checked(kind)
    BY <1>1, <1>3 DEF Checked
  <2>2. Returning' = Returning
    BY <2>1, <1>1, <1>3 DEF Returning, Checked
  <2> QED  BY <1>0, <1>1, <2>1, <2>2, RoomMoved
<1>8. ASSUME ~entangled' PROVE OneEach' /\ Agrees' /\ DueRight'
  <2>1. ~entangled /\ ~(what.by = "page" /\ Entangles(what))
    BY <1>8, Zenon DEF Start
  <2>2. OneEach /\ Agrees /\ DueRight
    BY <2>1 DEF SchemasInv, PageFollows
  <2>3. OneEach'
    BY <1>3, <2>1, <2>2 DEF OneEach, Entangles, ByPage
  <2>4. \A row : Unanswered(row)' <=> Unanswered(row)
    BY <1>1, <1>2, <1>3 DEF Unanswered, Changing, ByPage, NoAsk
  <2>5. Agrees'
    BY <1>1, <2>2, <2>4 DEF Agrees
  <2>6. DueRight'
    BY <1>1, <1>3, <2>2 DEF DueRight, ByPage, RowOf
  <2> QED  BY <2>3, <2>5, <2>6
<1>9. PageFollows'
  BY <1>8 DEF PageFollows
<1> QED  BY <1>4, <1>5, <1>6, <1>7, <1>9 DEF SchemasInv

(* A request moves on and nothing is written.                              *)
LEMMA PlaceMoved ==
    ASSUME SchemasInv, NEW r \in SchemaRequests, NEW place \in {"sent", "checked", "failed"},
           at[r] \in {"token", "sent", "checked"}, at' = [at EXCEPT ![r] = place],
           place = "checked" =>
              /\ req[r].kind \in {"create", "update"}
              /\ req[r].kind = "update" => req[r].id \in IdsOf(rows),
           RoomKept',
           UNCHANGED <<schemaRows, req, reading, shown, modal, dialog, unseen, entangled>>
    PROVE  SchemasInv'
<1>0. SchemaTypes /\ IdsKnown /\ WellAsked /\ RowsDiffer
  BY DEF SchemasInv
<1>1. \A q \in SchemaRequests : at'[q] = IF q = r THEN place ELSE at[q]
  BY <1>0 DEF SchemaTypes
<1>2. SchemaTypes' /\ IdsKnown' /\ RowsDiffer'
  BY <1>0 DEF SchemaTypes, IdsKnown, RowsDiffer, schemaRows
<1>3. WellAsked'
  BY <1>0, <1>1 DEF WellAsked, ByPage
<1>4. ASSUME OneEach, Agrees, DueRight PROVE OneEach' /\ Agrees' /\ DueRight'
  <2>1. OneEach'
    BY <1>4 DEF OneEach, ByPage
  <2>2. \A row : Unanswered(row)' <=> Unanswered(row)
    BY <1>1 DEF Unanswered, Changing, ByPage
  <2>3. Agrees'
    BY <1>4, <2>2 DEF Agrees, schemaRows
  <2>4. DueRight'
    BY <1>1, <1>4 DEF DueRight, ByPage, RowOf, schemaRows
  <2> QED  BY <2>1, <2>3, <2>4
<1>5. PageFollows'
  BY <1>4 DEF SchemasInv, PageFollows
<1> QED  BY <1>2, <1>3, <1>5 DEF SchemasInv

LEMMA SendStep ==
    ASSUME SchemasInv, NEW r \in SchemaRequests, SendRequest(r) PROVE SchemasInv'
<1>1. /\ at[r] = "token" /\ at' = [at EXCEPT ![r] = "sent"]
      /\ UNCHANGED <<schemaRows, req, reading, shown, modal, dialog, unseen, entangled>>
  BY DEF SendRequest
<1>2. \A kind : Checked(kind)' = Checked(kind)
  BY <1>1 DEF SchemasInv, SchemaTypes, Checked
<1>3. Returning' = Returning
  BY <1>1, <1>2 DEF Returning
<1>4. RoomKept'
  BY <1>1, <1>2, <1>3, RoomMoved DEF SchemasInv, schemaRows
<1> QED  BY <1>1, <1>4, PlaceMoved

LEMMA CheckStep ==
    ASSUME SchemasInv, NEW r \in SchemaRequests, Check(r) \/ SaveRefused(r) PROVE SchemasInv'
<1>0. SchemaTypes /\ WellAsked /\ RowsDiffer /\ RoomKept
  BY DEF SchemasInv
<1>1. PICK place \in {"checked", "failed"} : at' = [at EXCEPT ![r] = place]
                                              /\ (place = "checked" => Check(r))
  BY DEF Check, SaveRefused, To
<1>2. /\ at[r] \in {"sent", "checked"}
      /\ UNCHANGED <<schemaRows, req, reading, shown, modal, dialog, unseen, entangled>>
  BY DEF Check, SaveRefused, To, schemaPage
<1>3. at'[r] = place
  BY <1>0, <1>1 DEF SchemaTypes
<1>4. ASSUME place = "checked"
      PROVE  /\ req[r].kind \in {"create", "update"}
             /\ req[r].kind = "update" => req[r].id \in IdsOf(rows)
             /\ req[r].kind = "create" => ~AtLimit(Cardinality(rows))
  BY <1>0, <1>1, <1>3, <1>4 DEF Check, To, SchemaTypes
<1>5. \A q \in SchemaRequests : at'[q] = IF q = r THEN place ELSE at[q]
  BY <1>0, <1>1 DEF SchemaTypes
<1>6. RoomKept'
  <2>1. CASE place = "checked" /\ req[r].kind = "create"
    <3>1. Cardinality(rows) \in Nat
      BY <1>0, FS_CardinalityType DEF SchemaTypes
    <3>2. Cardinality(rows) < MaxSchemas
      BY <3>1, <1>4, <2>1, CustomSchemasAssumption DEF AtLimit
    <3> QED  BY <1>0, <1>1, <1>2, <2>1, <3>2, RoomForOne DEF schemaRows
  <2>2. CASE ~(place = "checked" /\ req[r].kind = "create")
    <3>1. Checked("create")' \subseteq Checked("create")
      BY <1>2, <1>5, <2>2 DEF Checked
    <3>2. \A q \in Checked("update")' :
             q \in Checked("update") \/ (q = r /\ req[r].id \in IdsOf(rows))
      BY <1>2, <1>4, <1>5, <2>2 DEF Checked
    <3>3. Returning' \subseteq IdsOf(rows) \cup Returning
      BY <1>2, <3>2 DEF Returning
    <3> QED  BY <1>0, <1>2, <3>1, <3>3, RoomMoved DEF schemaRows
  <2> QED  BY <2>1, <2>2
<1> QED  BY <1>1, <1>2, <1>4, <1>6, PlaceMoved

(* A row is made.  No other request knows of it.                           *)
LEMMA InsertStep ==
    ASSUME SchemasInv, NEW r \in SchemaRequests, Insert(r) PROVE SchemasInv'
<1>0. SchemaTypes /\ IdsKnown /\ WellAsked /\ RowsDiffer /\ RoomKept
  BY DEF SchemasInv
<1>m. PICK made : made = [id |-> lastId + 1, name |-> req[r].name]
  OBVIOUS
<1>1. /\ at[r] = "checked" /\ req[r].kind = "create" /\ ~NameTaken(r)
      /\ rows' = rows \cup {made} /\ lastId' = lastId + 1
      /\ req' = [req EXCEPT ![r].id = lastId'] /\ at' = [at EXCEPT ![r] = "done"]
      /\ UNCHANGED <<shown, modal, dialog, reading, unseen>>
  BY <1>m DEF Insert, schemaPage
<1>2. req[r].id = 0 /\ req[r].name \in SchemaNames /\ lastId \in Nat
  BY <1>0, <1>1 DEF WellAsked, SchemaTypes
<1>3. /\ \A q \in SchemaRequests \ {r} : req'[q] = req[q] /\ at'[q] = at[q]
      /\ at'[r] = "done" /\ req'[r].id = lastId + 1 /\ req'[r].kind = "create"
      /\ req'[r].by = req[r].by /\ req'[r].name = req[r].name
  BY <1>0, <1>1 DEF SchemaTypes, AskType
<1>4. made \in SchemaRow /\ made.id = lastId + 1 /\ made.name = req[r].name
  BY <1>2, <1>m DEF SchemaRow
<1>5. SchemaTypes'
  <2>1. IsFiniteSet(rows')
    BY <1>0, <1>1, FS_AddElement DEF SchemaTypes
  <2>2. rows' \subseteq SchemaRow /\ lastId' \in Nat
    BY <1>0, <1>1, <1>2, <1>4 DEF SchemaTypes
  <2>3. req' \in [SchemaRequests -> AskType]
    BY <1>0, <1>1, <1>2 DEF SchemaTypes, AskType
  <2>4. at' \in [SchemaRequests -> {"idle", "token", "sent", "checked", "failed", "done"}]
    BY <1>0, <1>1 DEF SchemaTypes
  <2> QED  BY <1>0, <1>1, <2>1, <2>2, <2>3, <2>4 DEF SchemaTypes
<1>6. IdsKnown'
  BY <1>0, <1>1, <1>2, <1>3, <1>4 DEF IdsKnown
<1>7. WellAsked'
  BY <1>0, <1>2, <1>3 DEF WellAsked, ByPage
<1>8. RowsDiffer'
  <2>1. \A row \in rows : row.id # made.id /\ row.name # made.name
    BY <1>0, <1>1, <1>2, <1>4 DEF IdsKnown, NameTaken
  <2> QED  BY <1>0, <1>1, <2>1 DEF RowsDiffer
<1>9. RoomKept'
  <2>1. IdsOf(rows') = IdsOf(rows) \cup {lastId + 1}
    BY <1>1, <1>4 DEF IdsOf
  <2> QED  BY <1>0, <1>1, <1>3, <2>1, RoomUsed
<1>10. ASSUME ~entangled' PROVE OneEach' /\ Agrees' /\ DueRight'
  <2>1. ~entangled /\ ByPage(r)
    BY <1>10, Zenon DEF Insert
  <2>2. OneEach /\ Agrees /\ DueRight
    BY <2>1 DEF SchemasInv, PageFollows
  <2>3. \A q \in SchemaRequests \ {r} :
           /\ req[q].id # lastId + 1
           /\ ByPage(q) => req[q].kind # "list"
    BY <1>0, <1>2, <2>1, <2>2 DEF IdsKnown, OneEach
  <2>4. OneEach'
    BY <1>3, <2>2, <2>3 DEF OneEach, ByPage
  <2>5. /\ \A row : Unanswered(row) => Unanswered(row)'
        /\ Unanswered(made)'
    <3>1. \A row : Unanswered(row) => Unanswered(row)'
      BY <1>1, <1>3 DEF Unanswered, Changing, ByPage
    <3>2. Unanswered(made)'
      BY <1>3, <1>4, <2>1 DEF Unanswered, Changing, ByPage
    <3> QED  BY <3>1, <3>2
  <2>6. Agrees'
    BY <1>1, <2>2, <2>5 DEF Agrees
  <2>7. lastId + 1 \notin unseen /\ \A row \in BagToSet(shown) : row.id # lastId + 1
    BY <1>0, <1>2 DEF IdsKnown
  <2>8. ASSUME NEW q \in SchemaRequests \ {r}, ByPage(q)
        PROVE  /\ at'[q] = "checked" /\ req'[q].kind = "update" => req'[q].id \in IdsOf(rows')
               /\ at'[q] = "done" =>
                    /\ req'[q].kind = "create" =>
                          /\ RowOf(q)' \in rows'
                          /\ req'[q].id \notin IdsOf(BagToSet(shown')) \cup unseen'
                    /\ req'[q].kind = "update" =>
                          /\ RowOf(q)' \in rows'
                          /\ req'[q].id \in IdsOf(BagToSet(shown')) \cup unseen'
                    /\ req'[q].kind = "delete" => req'[q].id \notin IdsOf(rows')
                    /\ req'[q].kind = "list" => reading'[q] = rows'
    <3>1. /\ req'[q] = req[q] /\ at'[q] = at[q] /\ RowOf(q)' = RowOf(q)
          /\ shown' = shown /\ unseen' = unseen
      BY <1>1, <1>3 DEF RowOf
    <3>2. \A id : id \in IdsOf(rows') <=> id \in IdsOf(rows) \/ id = lastId + 1
      BY <1>1, <1>4 DEF IdsOf
    <3> QED  BY <1>1, <2>2, <2>3, <2>8, <3>1, <3>2 DEF DueRight
  <2>9. /\ RowOf(r)' = made /\ made \in rows'
        /\ req'[r].id \notin IdsOf(BagToSet(shown')) \cup unseen'
    BY <1>m, <1>1, <1>3, <2>7 DEF RowOf, IdsOf
  <2>10. DueRight'
    BY <1>3, <2>8, <2>9 DEF DueRight, ByPage
  <2> QED  BY <2>4, <2>6, <2>10
<1>11. PageFollows'
  BY <1>10 DEF PageFollows
<1> QED  BY <1>5, <1>6, <1>7, <1>8, <1>9, <1>11 DEF SchemasInv

(* A row is written over or removed: by one request of the page at most,   *)
(* while nothing entangles it.                                             *)
LEMMA WriteStep ==
    ASSUME SchemasInv, NEW r \in SchemaRequests, Update(r) \/ Remove(r) PROVE SchemasInv'
<1>0. SchemaTypes /\ IdsKnown /\ WellAsked /\ RowsDiffer /\ RoomKept
  BY DEF SchemasInv
<1>m. PICK id, mine : id = req[r].id /\ mine = RowOf(r)
  OBVIOUS
<1>1. PICK new \in SUBSET {mine} :
        /\ rows' = {row \in rows : row.id # id} \cup new
        /\ \/ /\ req[r].kind = "update" /\ at[r] = "checked" /\ new = {mine}
              /\ ~NameTaken(r)
           \/ req[r].kind = "delete" /\ at[r] = "sent" /\ new = {}
  <2>1. CASE Update(r)
    BY <1>m, <2>1 DEF Update
  <2>2. CASE Remove(r)
    BY <1>m, <2>2 DEF Remove
  <2> QED  BY <2>1, <2>2
<1>2. /\ at' = [at EXCEPT ![r] = "done"]
      /\ UNCHANGED <<lastId, req, shown, modal, dialog, reading, unseen>>
  BY DEF Update, Remove, Took, To, schemaPage
<1>3. /\ \A q \in SchemaRequests : at'[q] = IF q = r THEN "done" ELSE at[q]
      /\ id # 0 /\ id \in 1 .. lastId /\ mine.id = id
      /\ new # {} => mine \in SchemaRow /\ mine.name = req[r].name
  <2>1. \A q \in SchemaRequests : at'[q] = IF q = r THEN "done" ELSE at[q]
    BY <1>0, <1>2 DEF SchemaTypes
  <2>2. id # 0 /\ id \in 0 .. lastId /\ lastId \in Nat
    BY <1>0, <1>1, <1>m DEF WellAsked, IdsKnown, SchemaTypes
  <2>3. mine.id = id /\ mine.name = req[r].name
    BY <1>m DEF RowOf
  <2>4. new # {} => mine \in SchemaRow
    BY <1>0, <1>1, <1>m, <2>2 DEF RowOf, SchemaRow, WellAsked
  <2> QED  BY <2>1, <2>2, <2>3, <2>4
<1>4. SchemaTypes'
  <2>1. IsFiniteSet(rows')
    <3>1. IsFiniteSet({row \in rows : row.id # id})
      BY <1>0, FS_Subset DEF SchemaTypes
    <3>2. IsFiniteSet(new)
      BY FS_Singleton, FS_Subset
    <3> QED  BY <1>1, <3>1, <3>2, FS_Union
  <2>2. rows' \subseteq SchemaRow
    BY <1>0, <1>1, <1>3 DEF SchemaTypes
  <2> QED  BY <1>0, <1>2, <2>1, <2>2 DEF SchemaTypes
<1>5. \A row \in rows' : (row \in rows /\ row.id # id) \/ (row = mine /\ new # {})
  BY <1>1
<1>6. IdsKnown'
  BY <1>0, <1>2, <1>3, <1>5 DEF IdsKnown
<1>7. WellAsked'
  BY <1>0, <1>1, <1>2, <1>3 DEF WellAsked, ByPage
<1>8. RowsDiffer'
  <2>1. new # {} => \A row \in rows : row.id # id => row.name # mine.name
    BY <1>1, <1>3, <1>m DEF NameTaken
  <2> QED  BY <1>0, <1>3, <1>5, <2>1 DEF RowsDiffer
<1>9. RoomKept'
  <2>1. /\ Checked("create")' \subseteq Checked("create")
        /\ Checked("update")' \subseteq Checked("update")
    BY <1>2, <1>3 DEF Checked
  <2>2. Returning' \subseteq Returning
    BY <1>2, <2>1 DEF Returning
  <2>3. new # {} => id \in Returning
    BY <1>1, <1>m DEF Returning, Checked
  <2>4. IdsOf(rows') \subseteq IdsOf(rows) \cup Returning
    BY <1>3, <1>5, <2>3 DEF IdsOf
  <2> QED  BY <1>0, <2>1, <2>2, <2>4, RoomMoved
<1>10. ASSUME ~entangled' PROVE OneEach' /\ Agrees' /\ DueRight'
  <2>1. ~entangled /\ ByPage(r)
    BY <1>10, Zenon DEF Update, Remove, Took
  <2>2. OneEach /\ Agrees /\ DueRight
    BY <2>1 DEF SchemasInv, PageFollows
  <2>3. OneEach'
    BY <1>2, <2>2 DEF OneEach, ByPage
  <2>4. \A q \in SchemaRequests \ {r} : ByPage(q) => req[q].kind # "list" /\ req[q].id # id
    BY <1>3, <1>m, <2>1, <2>2 DEF OneEach
  <2>5. \A row : Unanswered(row)' <=> Unanswered(row) \/ row.id = id
    <3>1. at[r] # "done" /\ Changing(r)
      BY <1>1, <2>1 DEF Changing
    <3> QED  BY <1>2, <1>3, <1>m, <3>1 DEF Unanswered, Changing, ByPage
  <2>6. Agrees'
    <3>1. \A row \in rows' : row.id \in unseen \/ Unanswered(row)' \/ row \in BagToSet(shown)
      BY <1>3, <1>5, <2>2, <2>5 DEF Agrees
    <3>2. \A row \in BagToSet(shown) :
             row.id \notin unseen /\ (Unanswered(row)' \/ row \in rows')
      BY <1>1, <2>2, <2>5 DEF Agrees
    <3> QED  BY <1>2, <2>2, <3>1, <3>2 DEF Agrees
  <2>7. req[r].kind = "update" => mine \in rows' /\ id \in IdsOf(BagToSet(shown)) \cup unseen
    <3>1. SUFFICES ASSUME req[r].kind = "update"
                   PROVE  id \in IdsOf(BagToSet(shown)) \cup unseen
      BY <1>1
    <3>2. PICK row \in rows : row.id = id
      BY <1>1, <1>m, <2>1, <2>2, <3>1 DEF DueRight, IdsOf
    <3>3. ~Unanswered(row)
      BY <1>1, <2>4, <3>2 DEF Unanswered, Changing
    <3> QED  BY <2>2, <3>2, <3>3 DEF Agrees, IdsOf
  <2>8. req[r].kind = "delete" => id \notin IdsOf(rows')
    BY <1>1 DEF IdsOf
  <2>9. \A i : i # id => (i \in IdsOf(rows') <=> i \in IdsOf(rows))
    BY <1>1, <1>3 DEF IdsOf
  <2>10. \A row : row.id # id => (row \in rows' <=> row \in rows)
    BY <1>1, <1>3
  <2>11. \A q \in SchemaRequests : /\ RowOf(q)' = RowOf(q) /\ RowOf(q).id = req[q].id
                                    /\ ByPage(q)' = ByPage(q)
    BY <1>2 DEF RowOf, ByPage
  <2>12. ASSUME NEW q \in SchemaRequests \ {r}, ByPage(q)
         PROVE  /\ at'[q] = "checked" /\ req[q].kind = "update" => req[q].id \in IdsOf(rows')
                /\ at'[q] = "done" =>
                     /\ req[q].kind = "create" =>
                           /\ RowOf(q) \in rows'
                           /\ req[q].id \notin IdsOf(BagToSet(shown)) \cup unseen
                     /\ req[q].kind = "update" =>
                           /\ RowOf(q) \in rows'
                           /\ req[q].id \in IdsOf(BagToSet(shown)) \cup unseen
                     /\ req[q].kind = "delete" => req[q].id \notin IdsOf(rows')
                     /\ req[q].kind = "list" => reading[q] = rows'
    BY <1>3, <2>2, <2>4, <2>9, <2>10, <2>11, <2>12 DEF DueRight
  <2>13. DueRight'
    BY <1>1, <1>2, <1>3, <1>m, <2>7, <2>8, <2>11, <2>12 DEF DueRight
  <2> QED  BY <2>3, <2>6, <2>13
<1>11. PageFollows'
  BY <1>10 DEF PageFollows
<1> QED  BY <1>4, <1>6, <1>7, <1>8, <1>9, <1>11 DEF SchemasInv

LEMMA ReadStep ==
    ASSUME SchemasInv, NEW r \in SchemaRequests, ReadList(r) PROVE SchemasInv'
<1>0. SchemaTypes /\ IdsKnown /\ WellAsked /\ RowsDiffer /\ RoomKept
  BY DEF SchemasInv
<1>1. /\ at[r] = "sent" /\ req[r].kind = "list" /\ at' = [at EXCEPT ![r] = "done"]
      /\ reading' = [reading EXCEPT ![r] = rows]
      /\ UNCHANGED <<rows, lastId, req, shown, modal, dialog, unseen, entangled>>
  BY DEF ReadList, To, schemaPage, schemaRows
<1>2. \A q \in SchemaRequests : /\ at'[q] = IF q = r THEN "done" ELSE at[q]
                                /\ reading'[q] = IF q = r THEN rows ELSE reading[q]
  BY <1>0, <1>1 DEF SchemaTypes
<1>3. SchemaTypes'
  BY <1>0, <1>1 DEF SchemaTypes
<1>4. IdsKnown' /\ WellAsked' /\ RowsDiffer'
  <2>1. IdsKnown'
    BY <1>0, <1>1, <1>2 DEF IdsKnown
  <2>2. WellAsked'
    BY <1>0, <1>1, <1>2 DEF WellAsked, ByPage
  <2> QED  BY <1>0, <1>1, <2>1, <2>2 DEF RowsDiffer
<1>5. RoomKept'
  <2>1. /\ Checked("create")' \subseteq Checked("create")
        /\ Checked("update")' \subseteq Checked("update")
    BY <1>1, <1>2 DEF Checked
  <2>2. Returning' \subseteq Returning
    BY <1>1, <2>1 DEF Returning
  <2> QED  BY <1>0, <1>1, <2>1, <2>2, RoomMoved
<1>6. ASSUME OneEach, Agrees, DueRight PROVE OneEach' /\ Agrees' /\ DueRight'
  <2>1. OneEach'
    BY <1>1, <1>6 DEF OneEach, ByPage
  <2>2. \A row : Unanswered(row)' <=> Unanswered(row)
    BY <1>1, <1>2 DEF Unanswered, Changing, ByPage
  <2>3. Agrees'
    BY <1>1, <1>6, <2>2 DEF Agrees
  <2>4. DueRight'
    BY <1>1, <1>2, <1>6 DEF DueRight, ByPage, RowOf
  <2> QED  BY <2>1, <2>3, <2>4
<1>7. PageFollows'
  BY <1>1, <1>6 DEF SchemasInv, PageFollows
<1> QED  BY <1>3, <1>4, <1>5, <1>7 DEF SchemasInv

-----------------------------------------------------------------------------
(* What the page shows after an answer.                                    *)
LEMMA AppliedWithin ==
    ASSUME SchemasInv, NEW r \in SchemaRequests, ByPage(r), at[r] = "done"
    PROVE  \A row \in BagToSet(Applied(r)) :
              row \in SchemaRow /\ row.id \in 1 .. lastId
<1>0. SchemaTypes /\ IdsKnown /\ WellAsked
  BY DEF SchemasInv
<1>1. req[r].kind \in {"create", "update"} =>
        RowOf(r) \in SchemaRow /\ RowOf(r).id \in 1 .. lastId
  BY <1>0 DEF RowOf, SchemaRow, WellAsked, IdsKnown, SchemaTypes
<1>2. /\ \A row \in BagToSet(shown) \cup reading[r] :
            row \in SchemaRow /\ row.id \in 1 .. lastId
      /\ BagToSet(Others(r)) \subseteq BagToSet(shown)
  BY <1>0 DEF SchemaTypes, IdsKnown, Others, BagToSet
<1>3. /\ \A b, c : BagToSet(b (+) c) = BagToSet(b) \cup BagToSet(c)
      /\ \A S : BagToSet(SetToBag(S)) = S
  BY DEF BagToSet, SetToBag, (+)
<1>4. BagToSet([row \in {RowOf(r)} |-> Cardinality(Copies(r))]) = {RowOf(r)}
  BY DEF BagToSet
<1>5. CASE req[r].kind = "create"
  BY <1>1, <1>2, <1>3, <1>5 DEF Applied
<1>6. CASE req[r].kind = "update"
  <2>1. Applied(r) = shown \/
        Applied(r) = Others(r) (+) [row \in {RowOf(r)} |-> Cardinality(Copies(r))]
    BY <1>6 DEF Applied
  <2>2. BagToSet(Applied(r)) \subseteq BagToSet(shown) \cup {RowOf(r)}
    BY <2>1, <1>2, <1>3, <1>4
  <2> QED  BY <1>1, <1>2, <1>6, <2>2
<1>7. CASE req[r].kind = "delete"
  BY <1>2, <1>7 DEF Applied
<1>8. CASE req[r].kind \notin {"create", "update", "delete"}
  <2>1. Applied(r) = SetToBag(reading[r])
    BY <1>8 DEF Applied
  <2> QED  BY <1>2, <1>3, <2>1
<1> QED  BY <1>5, <1>6, <1>7, <1>8

(* The answer to a change takes the schema's row off the page, and shows   *)
(* the row it made or changed, once, unless that is one the page does not  *)
(* know of.                                                                *)
LEMMA AppliedChange ==
    ASSUME SchemasInv, NEW r \in SchemaRequests, Changing(r), at[r] = "done",
           Agrees, DueRight
    PROVE  Applied(r) =
              SetToBag({row \in BagToSet(shown) : row.id # req[r].id}
                       \cup (IF req[r].kind = "delete" \/ req[r].id \in unseen
                             THEN {} ELSE {RowOf(r)}))
<1> DEFINE D == BagToSet(shown)
           kept == {row \in D : row.id # req[r].id}
           mine == RowOf(r)
<1>0. /\ shown = [row \in D |-> 1]
      /\ \A row, other \in D : row.id = other.id => row = other
      /\ \A row \in D : row.id \notin unseen
  BY DEF Agrees, SetToBag
<1>1. Others(r) = [row \in kept |-> 1] /\ BagToSet(Others(r)) = kept
  <2>1. Others(r) = [row \in kept |-> shown[row]]
    BY DEF Others, SameSchema
  <2> HIDE DEF D
  <2>2. \A row \in kept : shown[row] = 1
    BY <1>0
  <2> QED  BY <2>1, <2>2 DEF BagToSet
<1>2. mine \notin kept /\ mine.id = req[r].id
  BY DEF RowOf
<1>3. Others(r) (+) [row \in {mine} |-> 1] = SetToBag(kept \cup {mine})
  <2> HIDE DEF D, kept, mine
  <2> QED  BY <1>1, <1>2 DEF (+), SetToBag
<1>4. req[r].kind \in {"create", "update", "delete"}
  BY DEF SchemasInv, SchemaTypes, AskType, WellAsked, Changing
<1>5. CASE req[r].kind = "create"
  <2>1. req[r].id \notin IdsOf(D) \cup unseen
    BY <1>5 DEF DueRight, Changing
  <2>2. kept = D
    BY <2>1 DEF IdsOf
  <2>3. Others(r) = shown
    BY <1>0, <1>1, <2>2
  <2>4. Applied(r) = shown (+) [row \in {mine} |-> 1]
    BY <1>5 DEF Applied, SetToBag
  <2> QED  BY <1>3, <1>5, <2>1, <2>3, <2>4
<1>6. CASE req[r].kind = "update" /\ req[r].id \in unseen
  <2>1. kept = D
    BY <1>0, <1>6
  <2>2. Others(r) = shown
    BY <1>0, <1>1, <2>1
  <2>3. Copies(r) = {}
    BY <2>2 DEF Copies
  <2>4. Applied(r) = shown
    BY <1>6, <2>3 DEF Applied
  <2> QED  BY <1>0, <1>6, <2>1, <2>4 DEF SetToBag
<1>8. CASE req[r].kind = "update" /\ req[r].id \notin unseen
  <2>1. PICK old \in D : old.id = req[r].id
    BY <1>8 DEF DueRight, Changing, IdsOf
  <2>2. D \ kept = {old}
    BY <1>0, <2>1
  <2>3. BagToSet(shown) \ BagToSet(Others(r)) = {old} /\ shown[old] = 1
    BY <1>0, <1>1, <2>1, <2>2
  <2>4. Copies(r) = {old} \X (1 .. 1)
    BY <2>3 DEF Copies
  <2>5. Copies(r) = {<<old, 1>>}
    BY <2>4
  <2>6. Cardinality(Copies(r)) = 1 /\ Copies(r) # {}
    BY <2>5, FS_Singleton
  <2>7. Applied(r) = Others(r) (+) [row \in {mine} |-> 1]
    BY <1>8, <2>6 DEF Applied
  <2> QED  BY <1>3, <1>8, <2>7
<1>7. CASE req[r].kind = "delete"
  BY <1>1, <1>7 DEF Applied, SetToBag
<1> QED  BY <1>4, <1>5, <1>6, <1>7, <1>8

(* A request that is over is of nothing.                                   *)
LEMMA EndStep ==
    ASSUME SchemasInv, NEW r \in SchemaRequests,
           at[r] # "idle", at[r] # "checked", Forget(r), unseen' \subseteq 1 .. lastId,
           \A row \in BagToSet(shown') : row \in SchemaRow /\ row.id \in 1 .. lastId,
           modal' = modal \/ modal'.id = 0, dialog' = dialog \/ dialog' = 0,
           PageFollows'
    PROVE  SchemasInv'
<1>0. SchemaTypes /\ IdsKnown /\ WellAsked /\ RowsDiffer /\ RoomKept
  BY DEF SchemasInv
<1>1. /\ \A q \in SchemaRequests : /\ at'[q] = IF q = r THEN "idle" ELSE at[q]
                                   /\ req'[q] = IF q = r THEN NoAsk ELSE req[q]
                                   /\ reading'[q] = IF q = r THEN {} ELSE reading[q]
      /\ UNCHANGED <<rows, lastId>> /\ lastId \in Nat
  BY <1>0 DEF Forget, SchemaTypes, schemaRows
<1>2. NoAsk \in AskType /\ NoAsk.id = 0 /\ NoAsk.kind = "none" /\ NoAsk.by # "page"
  BY DEF NoAsk, AskType
<1>3. SchemaTypes'
  BY <1>0, <1>1, <1>2 DEF SchemaTypes, Forget
<1>4. IdsKnown'
  BY <1>0, <1>1, <1>2 DEF IdsKnown
<1>5. WellAsked'
  BY <1>0, <1>1, <1>2 DEF WellAsked, ByPage
<1>6. RowsDiffer'
  BY <1>0, <1>1 DEF RowsDiffer
<1>7. RoomKept'
  <2>1. \A kind : Checked(kind)' \subseteq Checked(kind)
    BY <1>1 DEF Checked
  <2>2. \A q \in Checked("update")' : req'[q].id = req[q].id
    BY <1>1 DEF Checked
  <2>3. Returning' \subseteq Returning
    BY <2>1, <2>2 DEF Returning
  <2> QED  BY <1>0, <1>1, <2>1, <2>3, RoomMoved
<1> QED  BY <1>3, <1>4, <1>5, <1>6, <1>7 DEF SchemasInv

LEMMA DroppedStep ==
    ASSUME SchemasInv, NEW r \in SchemaRequests, AnswerFails(r) \/ AnsweredElsewhere(r)
    PROVE  SchemasInv'
<1>0. SchemaTypes /\ IdsKnown
  BY DEF SchemasInv
<1>1. /\ at[r] \in {"sent", "failed", "done"} /\ Forget(r)
      /\ UNCHANGED <<shown, modal, dialog, unseen>>
  BY DEF AnswerFails, AnsweredElsewhere, schemaPage
<1>2. \A q \in SchemaRequests : /\ at'[q] = IF q = r THEN "idle" ELSE at[q]
                                /\ req'[q] = IF q = r THEN NoAsk ELSE req[q]
                                /\ reading'[q] = IF q = r THEN {} ELSE reading[q]
  BY <1>0, <1>1 DEF Forget, SchemaTypes
<1>3. rows' = rows /\ NoAsk.kind = "none" /\ NoAsk.by # "page"
  BY <1>1 DEF Forget, schemaRows, NoAsk
<1>4. ASSUME ~entangled' PROVE OneEach' /\ Agrees' /\ DueRight'
  <2>1. ~entangled /\ ~(at[r] = "done" /\ Changing(r))
    <3>1. CASE AnswerFails(r)
      BY <1>4, <3>1, Zenon DEF AnswerFails
    <3>2. CASE AnsweredElsewhere(r)
      <4>1. entangled' = entangled
        BY <3>2, Zenon DEF AnsweredElsewhere
      <4>2. ~Changing(r)
        BY <3>2 DEF AnsweredElsewhere, Changing, ByPage
      <4> QED  BY <1>4, <4>1, <4>2, Zenon
    <3> QED  BY <3>1, <3>2
  <2>2. OneEach /\ Agrees /\ DueRight
    BY <2>1 DEF SchemasInv, PageFollows
  <2>3. OneEach'
    BY <1>2, <1>3, <2>2 DEF OneEach, ByPage
  <2>4. \A row : Unanswered(row)' <=> Unanswered(row)
    BY <1>2, <1>3, <2>1 DEF Unanswered, Changing, ByPage
  <2>5. Agrees'
    BY <1>1, <1>3, <2>2, <2>4 DEF Agrees
  <2>6. DueRight'
    BY <1>1, <1>2, <1>3, <2>2 DEF DueRight, ByPage, RowOf
  <2> QED  BY <2>3, <2>5, <2>6
<1>5. PageFollows'
  BY <1>4 DEF PageFollows
<1>6. /\ unseen' \subseteq 1 .. lastId
      /\ \A row \in BagToSet(shown') : row \in SchemaRow /\ row.id \in 1 .. lastId
  BY <1>0, <1>1 DEF SchemaTypes, IdsKnown
<1> QED  BY <1>1, <1>5, <1>6, EndStep

(* Nothing is asked, and the page forgets what it showed if it was a list  *)
(* it wanted: then no other request of it is under way.                    *)
LEMMA NoTokenStep ==
    ASSUME SchemasInv, NEW r \in SchemaRequests, NoToken(r) PROVE SchemasInv'
<1>0. SchemaTypes /\ IdsKnown /\ WellAsked
  BY DEF SchemasInv
<1>1. /\ at[r] = "token" /\ ByPage(r) /\ Forget(r) /\ rows' = rows
      /\ UNCHANGED <<modal, dialog, entangled>>
  BY <1>0 DEF NoToken, Forget, schemaRows, WellAsked
<1>2. \A q \in SchemaRequests : /\ at'[q] = IF q = r THEN "idle" ELSE at[q]
                                /\ req'[q] = IF q = r THEN NoAsk ELSE req[q]
                                /\ reading'[q] = IF q = r THEN {} ELSE reading[q]
  BY <1>0, <1>1 DEF Forget, SchemaTypes
<1>3. NoAsk.kind = "none" /\ NoAsk.by # "page"
  BY DEF NoAsk
<1>4. \/ /\ req[r].kind = "list" /\ shown' = EmptyBag /\ unseen' = IdsOf(rows)
      \/ req[r].kind # "list" /\ UNCHANGED <<shown, unseen>>
  BY DEF NoToken
<1>5. BagToSet(EmptyBag) = {} /\ EmptyBag = SetToBag({})
  BY DEF BagToSet, SetToBag, EmptyBag
<1>6. ASSUME OneEach, Agrees, DueRight PROVE OneEach' /\ Agrees' /\ DueRight'
  <2>1. OneEach'
    BY <1>2, <1>3, <1>6 DEF OneEach, ByPage
  <2>2. CASE req[r].kind = "list"
    <3>1. \A q \in SchemaRequests : ~ByPage(q)'
      BY <1>1, <1>2, <1>3, <1>6, <2>2 DEF OneEach, ByPage
    <3>2. Agrees'
      BY <1>1, <1>4, <1>5, <2>2 DEF Agrees, IdsOf
    <3> QED  BY <2>1, <3>1, <3>2 DEF DueRight
  <2>3. CASE req[r].kind # "list"
    <3>1. \A row : Unanswered(row)' <=> Unanswered(row)
      BY <1>1, <1>2, <1>3 DEF Unanswered, Changing, ByPage
    <3>2. Agrees'
      BY <1>1, <1>4, <1>6, <2>3, <3>1 DEF Agrees
    <3>3. DueRight'
      BY <1>1, <1>2, <1>3, <1>4, <1>6, <2>3 DEF DueRight, ByPage, RowOf
    <3> QED  BY <2>1, <3>2, <3>3
  <2> QED  BY <2>2, <2>3
<1>7. PageFollows'
  BY <1>1, <1>6 DEF SchemasInv, PageFollows
<1>8. /\ unseen' \subseteq 1 .. lastId
      /\ \A row \in BagToSet(shown') : row \in SchemaRow /\ row.id \in 1 .. lastId
  BY <1>0, <1>4, <1>5 DEF SchemaTypes, IdsKnown, IdsOf
<1> QED  BY <1>1, <1>7, <1>8, EndStep

(* The page shows what was done, whatever is under way beside it.          *)
LEMMA AnswerStep ==
    ASSUME SchemasInv, NEW r \in SchemaRequests, Answer(r) PROVE SchemasInv'
<1>0. SchemaTypes /\ IdsKnown /\ WellAsked /\ RowsDiffer
  BY DEF SchemasInv
<1>1. /\ ByPage(r) /\ at[r] = "done" /\ Forget(r) /\ shown' = Applied(r)
      /\ modal' = modal \/ modal'.id = 0
      /\ dialog' = dialog \/ dialog' = 0
      /\ unseen' = IF req[r].kind = "list" THEN {} ELSE unseen
      /\ entangled' = entangled
  BY DEF Answer
<1>2. \A q \in SchemaRequests : /\ at'[q] = IF q = r THEN "idle" ELSE at[q]
                                /\ req'[q] = IF q = r THEN NoAsk ELSE req[q]
                                /\ reading'[q] = IF q = r THEN {} ELSE reading[q]
  BY <1>0, <1>1 DEF Forget, SchemaTypes
<1>3. rows' = rows /\ NoAsk.kind = "none" /\ NoAsk.by # "page"
  BY <1>1 DEF Forget, schemaRows, NoAsk
<1>m. PICK id, mine, kind : id = req[r].id /\ mine = RowOf(r) /\ kind = req[r].kind
  OBVIOUS
<1>4. ASSUME OneEach, Agrees, DueRight PROVE OneEach' /\ Agrees' /\ DueRight'
  <2>1. OneEach'
    BY <1>2, <1>3, <1>4 DEF OneEach, ByPage
  <2>2. \A S : BagToSet(SetToBag(S)) = S
    BY DEF BagToSet, SetToBag
  <2>3. CASE kind = "list"
    <3>1. \A q \in SchemaRequests \ {r} : ~ByPage(q)
      BY <1>1, <1>4, <1>m, <2>3 DEF OneEach
    <3>2. \A q \in SchemaRequests : ~ByPage(q)'
      BY <1>2, <1>3, <3>1 DEF ByPage
    <3>3. shown' = SetToBag(rows)
      BY <1>1, <1>4, <1>m, <2>3 DEF Applied, DueRight
    <3>4. Agrees'
      BY <1>0, <1>1, <1>3, <1>m, <2>2, <2>3, <3>3 DEF Agrees, RowsDiffer
    <3> QED  BY <2>1, <3>2, <3>4 DEF DueRight
  <2>4. CASE kind # "list"
    <3> DEFINE D == BagToSet(shown)
    <3>1. Changing(r)
      BY <1>1, <1>m, <2>4 DEF Changing
    <3>2. PICK S :
            /\ S = {row \in D : row.id # id}
                   \cup (IF kind = "delete" \/ id \in unseen THEN {} ELSE {mine})
            /\ shown' = SetToBag(S)
      BY <1>1, <1>4, <1>m, <3>1, AppliedChange
    <3>3. /\ BagToSet(shown') = S /\ mine.id = id /\ id # 0 /\ unseen' = unseen
          /\ kind \in {"create", "update", "delete"}
      BY <1>0, <1>1, <1>m, <2>2, <2>4, <3>2
      DEF RowOf, WellAsked, SchemaTypes, AskType
    <3>4. kind # "delete" => mine \in rows
      BY <1>1, <1>4, <1>m, <3>3 DEF DueRight
    <3>5. kind = "delete" => \A row \in rows : row.id # id
      BY <1>1, <1>4, <1>m DEF DueRight, IdsOf
    <3>6. \A row : Unanswered(row) => Unanswered(row)' \/ row.id = id
      BY <1>2, <1>m DEF Unanswered, Changing, ByPage
    <3>7. Agrees'
      <4>1. \A row, other \in S : row.id = other.id => row = other
        BY <1>4, <3>2, <3>3 DEF Agrees
      <4>2. \A row \in rows : row.id \in unseen \/ Unanswered(row)' \/ row \in S
        <5> SUFFICES ASSUME NEW row \in rows, row.id \notin unseen, ~Unanswered(row)'
                     PROVE  row \in S
          OBVIOUS
        <5>1. CASE row.id = id
          BY <1>0, <3>2, <3>3, <3>4, <3>5, <5>1 DEF RowsDiffer
        <5>2. CASE row.id # id
          BY <1>4, <3>2, <3>6, <5>2 DEF Agrees
        <5> QED  BY <5>1, <5>2
      <4>3. \A row \in S : row.id \notin unseen /\ (Unanswered(row)' \/ row \in rows)
        BY <1>4, <3>2, <3>3, <3>4, <3>6 DEF Agrees
      <4> QED  BY <1>3, <3>2, <3>3, <4>1, <4>2, <4>3 DEF Agrees
    <3>8. ASSUME NEW q \in SchemaRequests \ {r}, ByPage(q)
          PROVE  req[q].id # id /\ (req[q].id \in IdsOf(S) <=> req[q].id \in IdsOf(D))
      <4>1. req[q].id # id
        BY <1>1, <1>4, <1>m, <3>3, <3>8 DEF OneEach
      <4> QED  BY <3>2, <3>3, <4>1 DEF IdsOf
    <3>9. DueRight'
      BY <1>2, <1>3, <1>4, <3>3, <3>8 DEF DueRight, ByPage, RowOf
    <3> QED  BY <2>1, <3>7, <3>9
  <2> QED  BY <2>3, <2>4
<1>5. PageFollows'
  BY <1>1, <1>4 DEF SchemasInv, PageFollows
<1>6. /\ unseen' \subseteq 1 .. lastId
      /\ \A row \in BagToSet(shown') : row \in SchemaRow /\ row.id \in 1 .. lastId
  BY <1>0, <1>1, AppliedWithin DEF IdsKnown
<1> QED  BY <1>1, <1>5, <1>6, EndStep

LEMMA AskStep ==
    ASSUME SchemasInv, NEW r \in SchemaRequests, NEW id \in Nat,
           NEW name \in SchemaNames \cup {NoName},
           \/ name \in SchemaNames /\ (Submit(r, name) \/ ElsewhereAsked(r, id, name))
           \/ ConfirmDelete(r) \/ Reload(r)
    PROVE  SchemasInv'
<1>0. modal.id \in 0 .. lastId /\ dialog \in 0 .. lastId /\ lastId \in Nat
  BY DEF SchemasInv, SchemaTypes, IdsKnown
<1>1. PICK what \in {Asked(by, kind, of, called) :
                        by \in {"page", "tab"},
                        kind \in {"list", "create", "update", "delete"},
                        of \in 0 .. lastId, called \in {name, NoName}} :
        /\ Start(r, what)
        /\ what.kind \in {"list", "create"} <=> what.id = 0
        /\ what.kind \in {"create", "update"} => what.name \in SchemaNames
  <2>1. CASE name \in SchemaNames /\ Submit(r, name)
    <3>1. CASE modal.id = 0
      BY <1>0, <2>1, <3>1 DEF Submit, Asked
    <3>2. CASE modal.id # 0
      BY <1>0, <2>1, <3>2 DEF Submit, Asked
    <3> QED  BY <3>1, <3>2
  <2>2. CASE name \in SchemaNames /\ ElsewhereAsked(r, id, name)
    <3>1. CASE id # 0 /\ Start(r, Asked("tab", "delete", id, NoName))
      BY <1>0, <2>2, <3>1 DEF ElsewhereAsked, Asked
    <3>2. CASE id = 0 /\ Start(r, Asked("tab", "create", id, name))
      BY <1>0, <2>2, <3>2 DEF ElsewhereAsked, Asked
    <3>3. CASE id # 0 /\ Start(r, Asked("tab", "update", id, name))
      BY <1>0, <2>2, <3>3 DEF ElsewhereAsked, Asked
    <3> QED  BY <2>2, <3>1, <3>2, <3>3 DEF ElsewhereAsked
  <2>3. CASE ConfirmDelete(r)
    BY <1>0, <2>3 DEF ConfirmDelete, Asked
  <2>4. CASE Reload(r)
    BY <1>0, <2>4 DEF Reload, Asked
  <2> QED  BY <2>1, <2>2, <2>3, <2>4
<1>2. /\ what \in AskType /\ what.by # "none" /\ what.kind # "none"
      /\ what.id \in 0 .. lastId
  BY <1>0 DEF Asked, AskType
<1>3. /\ what.kind \in {"list", "create"} => what.id = 0
      /\ what.kind \in {"update", "delete"} => what.id # 0
      /\ what.kind \in {"create", "update"} => what.name \in SchemaNames
  BY <1>1
<1> HIDE DEF Start
<1> QED  BY <1>1, <1>2, <1>3, StartStep

LEMMA SchemasInvStep == SchemasInv /\ [SchemasNext]_schemaVars => SchemasInv'
<1> SUFFICES ASSUME SchemasInv, [SchemasNext]_schemaVars PROVE SchemasInv'
  OBVIOUS
<1>1. CASE UNCHANGED schemaVars
  <2>1. UNCHANGED <<rows, lastId, at, req, shown, modal, dialog, reading, unseen,
                    entangled>>
    BY <1>1 DEF schemaVars, schemaRows, schemaPage
  <2>2. SchemaTypes' /\ IdsKnown' /\ WellAsked' /\ RowsDiffer' /\ RoomKept'
    BY <2>1 DEF SchemasInv, SchemaTypes, IdsKnown, WellAsked, RowsDiffer, RoomKept, Checked,
                Returning, ByPage
  <2>3. (OneEach /\ Agrees /\ DueRight)' <=> OneEach /\ Agrees /\ DueRight
    BY <2>1 DEF OneEach, Agrees, DueRight, Unanswered, Changing, ByPage, RowOf
  <2>4. PageFollows'
    BY <2>1, <2>3 DEF SchemasInv, PageFollows
  <2> QED  BY <2>2, <2>4 DEF SchemasInv
<1>2. 0 .. MaxIds \subseteq Nat
  BY CustomSchemasAssumption
<1>3. ASSUME NEW id \in 0 .. MaxIds, OpenForm(id) \/ OpenDialog(id) PROVE SchemasInv'
  BY <1>2, <1>3, FormStep
<1>4. CASE CloseForm \/ CloseDialog
  BY <1>4, FormStep
<1>5. ASSUME NEW r \in SchemaRequests, NEW name \in SchemaNames, NEW id \in 0 .. MaxIds,
             ElsewhereAsked(r, id, name)
      PROVE  SchemasInv'
  BY <1>2, <1>5, AskStep
<1>6. ASSUME NEW r \in SchemaRequests, NEW name \in SchemaNames \cup {NoName},
             \/ name \in SchemaNames /\ Submit(r, name)
             \/ ConfirmDelete(r) \/ Reload(r)
      PROVE  SchemasInv'
  BY <1>6, AskStep
<1>7. ASSUME NEW r \in SchemaRequests,
             \/ NoToken(r) \/ SendRequest(r) \/ Check(r) \/ Insert(r) \/ Update(r)
             \/ SaveRefused(r) \/ Remove(r) \/ ReadList(r)
             \/ Answer(r) \/ AnswerFails(r) \/ AnsweredElsewhere(r)
      PROVE  SchemasInv'
  BY <1>7, NoTokenStep, SendStep, CheckStep, InsertStep, WriteStep, ReadStep, AnswerStep,
     DroppedStep
<1> QED
  BY <1>1, <1>3, <1>4, <1>5, <1>6, <1>7, Zenon DEF SchemasNext

(* However many requests of a user are under way at once, from the page    *)
(* and from other tabs: names and ids stay apart, the limit is passed by   *)
(* fewer than there are requests, and a page whose requests did not get in *)
(* each other's way shows the rows there are, or, where no list has come,  *)
(* those of them it made.                                                  *)
THEOREM SchemasStayTrue == SchemasSpec => []SchemasTrue
<1>1. SchemasInv => SchemasTrue
  <2> SUFFICES ASSUME SchemasInv PROVE SchemasTrue
    OBVIOUS
  <2>1. LimitNearlyKept
    <3> DEFINE x == IdsOf(rows) \cup Returning
               c == Checked("create")
    <3>1. /\ IsFiniteSet(x) /\ IsFiniteSet(c) /\ IdsOf(rows) \subseteq x
          /\ Cardinality(IdsOf(rows)) = Cardinality(rows)
      BY RoomFinite, FS_Union DEF SchemasInv
    <3>2. Cardinality(x) + Cardinality(c) < MaxSchemas + Cardinality(SchemaRequests)
      BY DEF SchemasInv, RoomKept
    <3> HIDE DEF x, c
    <3>3. /\ Cardinality(x) \in Nat /\ Cardinality(c) \in Nat
          /\ Cardinality(IdsOf(rows)) \in Nat /\ Cardinality(IdsOf(rows)) <= Cardinality(x)
      BY <3>1, FS_Subset, FS_CardinalityType
    <3>4. MaxSchemas + Cardinality(SchemaRequests) \in Nat
      BY CustomSchemasAssumption, FS_CardinalityType
    <3>5. Cardinality(rows) < MaxSchemas + Cardinality(SchemaRequests)
      BY <3>1, <3>2, <3>3, <3>4
    <3> QED  BY <3>5 DEF LimitNearlyKept, SchemasInv, RowsDiffer
  <2>2. ShownAreRows
    <3> SUFFICES ASSUME ~entangled, \A r \in SchemaRequests : ~ByPage(r)
                 PROVE  shown = SetToBag({row \in rows : row.id \notin unseen})
      BY DEF ShownAreRows
    <3>1. Agrees
      BY DEF SchemasInv, PageFollows
    <3>2. \A row : ~Unanswered(row)
      BY DEF Unanswered, Changing
    <3>3. BagToSet(shown) = {row \in rows : row.id \notin unseen}
      BY <3>1, <3>2 DEF Agrees
    <3> QED  BY <3>1, <3>3 DEF Agrees
  <2> QED  BY <2>1, <2>2 DEF SchemasTrue
<1> QED
  BY <1>1, SchemasInvInit, SchemasInvStep, PTL DEF SchemasSpec
=============================================================================
