---------------------------- MODULE LimitsProofs ----------------------------
(***************************************************************************)
(* What the two limiters promise. rate_limit, for every limit, window,     *)
(* delay and number of requests: no client is refused too early, and in a  *)
(* window whose requests are counted within a second of reading the clock  *)
(* exactly the first MaxRequests go through, because the entry of such a   *)
(* window cannot have expired.                                             *)
(*                                                                         *)
(* The failed login attempts, for every limit, window and number of logins *)
(* that overlap: an address is refused only after LoginLimit failures, and *)
(* guesses at most the limit and the other logins under way.               *)
(***************************************************************************)
EXTENDS RateLimiter, LoginAttempts, FiniteSetTheorems, TLAPS

(* The cache never shows more requests of a window than were counted.      *)
NeverAhead == \A b \in Bucket : entry[b].count <= counted[b]

(* A request that has not been counted is of the window it read, and in a  *)
(* window that is not slow it is at most a second late.                    *)
Waiting ==
    \A r \in Requests : pc[r] # "idle" =>
        /\ Start(bucket[r]) <= at[r] /\ at[r] < Reset(bucket[r])
        /\ at[r] <= now
        /\ bucket[r] \notin slow => now <= at[r] + Second

(* The entry of a window that is not slow counts every request, and        *)
(* outlives the window by a second.                                        *)
Exact ==
    \A b \in Bucket \ slow :
        /\ entry[b].count = counted[b]
        /\ counted[b] = 0 => entry[b].expires = 0
        /\ counted[b] > 0 => entry[b].expires >= Reset(b) + Second

(* Who found an entry there finds it again.                                *)
Found ==
    \A r \in Requests : bucket[r] \notin slow =>
        /\ pc[r] = "bumping" => counted[bucket[r]] > 0
        /\ pc[r] # "adding_again"

LimitInv == TypeOK /\ Waiting /\ Exact /\ Found /\ WindowLimit

-----------------------------------------------------------------------------
(* The bounds of a window are ticks, and an entry lives for the window and *)
(* a second.                                                               *)
LEMMA WindowBounds ==
    ASSUME NEW b \in Bucket
    PROVE  /\ Start(b) \in Nat
           /\ Reset(b) \in Nat
           /\ Reset(b) = Start(b) + Window * Second
           /\ Window * Second \in Nat
           /\ (Window + 1) * Second = Window * Second + Second
<1>1. Window * Second \in Nat
  BY RateLimiterAssumption
<1>2. b \in Nat
  BY RateLimiterAssumption DEF Bucket
<1>3. Start(b) \in Nat
  BY <1>1, <1>2 DEF Start
<1>4. (Window + 1) * Second = Window * Second + Second
  BY RateLimiterAssumption
<1> QED
  BY <1>1, <1>3, <1>4 DEF Reset

(* The variables keep their types.                                         *)
LEMMA TypePreserved == TypeOK /\ [Next]_vars => TypeOK'
<1> SUFFICES ASSUME TypeOK, [Next]_vars PROVE TypeOK'
  OBVIOUS
<1>0. 0 \in Bucket
  BY RateLimiterAssumption DEF Bucket
<1>1. CASE UNCHANGED vars
  BY <1>1 DEF TypeOK, vars, requestVars, tallyVars
<1>2. CASE Tick
  BY <1>2, <1>0 DEF TypeOK, Tick, NoVerdict, requestVars, tallyVars
<1>3. ASSUME NEW r \in Requests, Step(r) PROVE TypeOK'
  <2>1. CASE Arrive(r)
    BY <2>1, <1>0 DEF TypeOK, Arrive, Goto, NoVerdict, tallyVars
  <2>2. CASE AddFinds(r)
    BY <2>2, <1>0 DEF TypeOK, AddFinds, Goto, NoVerdict, tallyVars
  <2>3. CASE BumpFails(r)
    BY <2>3, <1>0 DEF TypeOK, BumpFails, Goto, NoVerdict, tallyVars
  <2>4. bucket[r] \in Bucket
    BY DEF TypeOK
  <2>5. FreshEntry(bucket[r]) \in [count : Nat, expires : Nat]
    <3>1. (Window + 1) * Second \in Nat
      BY RateLimiterAssumption
    <3> QED
      BY <3>1 DEF FreshEntry, TypeOK
  <2>6. ASSUME NEW n \in Nat, Judge(r, n)
        PROVE  /\ pc' \in [Requests -> {"idle", "adding", "bumping", "adding_again"}]
               /\ at' \in [Requests -> Nat]
               /\ bucket' \in [Requests -> Bucket]
               /\ counted' \in [Bucket -> Nat]
               /\ admitted' \in [Bucket -> Nat]
               /\ slow' \in SUBSET Bucket
               /\ verdict'.kind \in {"none", "admitted", "refused"}
               /\ verdict'.bucket \in Bucket
    BY <2>6, <2>4, <1>0 DEF TypeOK, Judge
  <2>7. CASE Add(r)
    BY <2>7, <2>4, <2>5, <2>6 DEF TypeOK, Add
  <2>8. CASE Bump(r)
    <3>1. entry[bucket[r]].count + 1 \in Nat
      BY <2>4 DEF TypeOK
    <3>2. entry' \in [Bucket -> [count : Nat, expires : Nat]]
      BY <2>8, <2>4, <3>1 DEF TypeOK, Bump
    <3> QED
      BY <2>8, <3>1, <3>2, <2>6 DEF TypeOK, Bump
  <2>9. CASE AddAgain(r)
    BY <2>9, <2>4, <2>5, <2>6 DEF TypeOK, AddAgain
  <2> QED
    BY <1>3, <2>1, <2>2, <2>3, <2>7, <2>8, <2>9 DEF Step
<1> QED
  BY <1>1, <1>2, <1>3 DEF Next

LEMMA InitType == Init => TypeOK
BY RateLimiterAssumption
   DEF Init, TypeOK, NoEntry, NoVerdict, Bucket

(* The cache never runs ahead of the requests, however late they are, and  *)
(* so no refusal comes too early.                                          *)
LEMMA NeverAheadPreserved ==
    TypeOK /\ NeverAhead /\ RefusedAtLimit /\ [Next]_vars
    => NeverAhead' /\ RefusedAtLimit'
<1> SUFFICES ASSUME TypeOK, NeverAhead, RefusedAtLimit, [Next]_vars
             PROVE  NeverAhead' /\ RefusedAtLimit'
  OBVIOUS
<1>1. CASE UNCHANGED vars
  BY <1>1 DEF NeverAhead, RefusedAtLimit, vars, tallyVars
<1>2. CASE Tick
  BY <1>2 DEF NeverAhead, RefusedAtLimit, Tick, tallyVars, NoVerdict
<1>3. ASSUME NEW r \in Requests, Step(r) PROVE NeverAhead' /\ RefusedAtLimit'
  <2>1. CASE Arrive(r)
    BY <2>1 DEF NeverAhead, RefusedAtLimit, Arrive, Goto, tallyVars, NoVerdict
  <2>2. CASE AddFinds(r)
    BY <2>2 DEF NeverAhead, RefusedAtLimit, AddFinds, Goto, tallyVars, NoVerdict
  <2>3. CASE BumpFails(r)
    BY <2>3 DEF NeverAhead, RefusedAtLimit, BumpFails, Goto, tallyVars, NoVerdict
  <2>4. PICK b \in Bucket : b = bucket[r]
    BY DEF TypeOK
  <2>5. ASSUME NEW n \in Nat, Judge(r, n), n <= counted[b] + 1
        PROVE  RefusedAtLimit'
    <3>1. counted' = [counted EXCEPT ![b] = @ + 1] /\ counted'[b] = counted[b] + 1
      BY <2>4, <2>5 DEF Judge, TypeOK
    <3>2. verdict'.kind = "refused" => n > MaxRequests /\ verdict'.bucket = b
      BY <2>4, <2>5, RateLimiterAssumption DEF Judge, Through
    <3> QED
      BY <3>1, <3>2, <2>5, RateLimiterAssumption DEF RefusedAtLimit, TypeOK
  <2>6. ASSUME NEW n \in Nat, Judge(r, n)
        PROVE  counted' = [counted EXCEPT ![b] = @ + 1]
    BY <2>4, <2>6 DEF Judge
  <2>7. CASE Add(r)
    <3>1. Judge(r, 1) /\ entry' = [entry EXCEPT ![b] = FreshEntry(b)]
      BY <2>7, <2>4 DEF Add
    <3>2. NeverAhead'
      BY <3>1, <2>6 DEF NeverAhead, TypeOK, FreshEntry
    <3>3. 1 <= counted[b] + 1
      BY DEF TypeOK
    <3> QED
      BY <3>1, <3>2, <3>3, <2>5
  <2>8. CASE Bump(r)
    <3>1. Judge(r, entry[b].count + 1) /\ entry' = [entry EXCEPT ![b].count = @ + 1]
      BY <2>8, <2>4 DEF Bump
    <3>2. entry[b].count + 1 \in Nat /\ entry[b].count + 1 <= counted[b] + 1
      BY DEF TypeOK, NeverAhead
    <3>3. NeverAhead'
      BY <3>1, <3>2, <2>6 DEF NeverAhead, TypeOK
    <3> QED
      BY <3>1, <3>2, <3>3, <2>5
  <2>9. CASE AddAgain(r)
    <3>1. Judge(r, 1) /\ entry' = IF Live(b) THEN entry
                                  ELSE [entry EXCEPT ![b] = FreshEntry(b)]
      BY <2>9, <2>4 DEF AddAgain
    <3>2. NeverAhead'
      BY <3>1, <2>6 DEF NeverAhead, TypeOK, FreshEntry
    <3>3. 1 <= counted[b] + 1
      BY DEF TypeOK
    <3> QED
      BY <3>1, <3>2, <3>3, <2>5
  <2> QED
    BY <1>3, <2>1, <2>2, <2>3, <2>7, <2>8, <2>9 DEF Step
<1> QED
  BY <1>1, <1>2, <1>3 DEF Next

(* A request is refused only after MaxRequests others of its window were   *)
(* counted (decorators.py:134): true of any delay.                         *)
THEOREM NobodyRefusedEarly == Spec => []RefusedAtLimit
<1>1. Init => TypeOK /\ NeverAhead /\ RefusedAtLimit
  BY InitType DEF Init, NeverAhead, RefusedAtLimit, NoEntry, NoVerdict
<1>2. TypeOK /\ NeverAhead /\ RefusedAtLimit /\ [Next]_vars
      => TypeOK' /\ NeverAhead' /\ RefusedAtLimit'
  BY TypePreserved, NeverAheadPreserved
<1> QED
  BY <1>1, <1>2, PTL DEF Spec

-----------------------------------------------------------------------------
(* While no request of a window is more than a second late, the entry of a *)
(* request that is about to be counted is there unless the request is its  *)
(* window's first.                                                         *)
LEMMA EntryOutlivesRequests ==
    ASSUME TypeOK, Waiting, Exact,
           NEW r \in Requests, pc[r] # "idle", bucket[r] \notin slow
    PROVE  Live(bucket[r]) <=> counted[bucket[r]] > 0
<1> DEFINE b == bucket[r]
<1>1. b \in Bucket
  BY DEF TypeOK
<1>2. Reset(b) \in Nat
  BY <1>1, WindowBounds
<1>3. at[r] < Reset(b) /\ now <= at[r] + Second
  BY DEF Waiting
<1>4. now < Reset(b) + Second
  BY <1>2, <1>3, RateLimiterAssumption DEF TypeOK
<1>5. counted[b] \in Nat /\ entry[b].expires \in Nat /\ now \in Nat
  BY <1>1 DEF TypeOK
<1>6. counted[b] > 0 => entry[b].expires >= Reset(b) + Second
  BY <1>1 DEF Exact
<1>7. counted[b] = 0 => entry[b].expires = 0
  BY <1>1 DEF Exact
<1> HIDE DEF b
<1>8. Live(b) <=> counted[b] > 0
  BY <1>2, <1>4, <1>5, <1>6, <1>7, RateLimiterAssumption DEF Live
<1> QED
  BY <1>8 DEF b

(* One step keeps the invariant of punctual requests.                      *)
LEMMA LimitPreserved ==
    LimitInv /\ [Next]_vars => LimitInv'
<1> SUFFICES ASSUME LimitInv, [Next]_vars PROVE LimitInv'
  OBVIOUS
<1> USE DEF LimitInv
<1>0. TypeOK'
  BY TypePreserved
<1>1. CASE UNCHANGED vars
  BY <1>0, <1>1 DEF vars, requestVars, tallyVars, Waiting, Exact, Found, WindowLimit
<1>2. CASE Tick
  <2>1. UNCHANGED <<entry, pc, at, bucket, counted, admitted>> /\ now' = now + 1
    BY <1>2 DEF Tick, requestVars
  <2>2. slow \subseteq slow'
    BY <1>2 DEF Tick
  <2>3. \A r \in Requests : pc[r] # "idle" /\ bucket[r] \notin slow'
                          => now + 1 <= at[r] + Second
    <3>1. \A r \in Requests : pc[r] # "idle" /\ now + 1 > at[r] + Second
                            => bucket[r] \in slow'
      BY <1>2, Zenon DEF Tick
    <3> QED
      BY <3>1, RateLimiterAssumption DEF TypeOK
  <2>4. Waiting'
    BY <2>1, <2>2, <2>3, RateLimiterAssumption DEF Waiting, TypeOK
  <2>5. Exact' /\ WindowLimit'
    BY <2>1, <2>2 DEF Exact, WindowLimit, Reset, Start
  <2>6. Found'
    BY <2>1, <2>2 DEF Found
  <2> QED
    BY <1>0, <2>4, <2>5, <2>6
<1>3. ASSUME NEW r \in Requests, Step(r) PROVE LimitInv'
  <2>1. CASE Arrive(r)
    <3>1. PICK b \in Bucket : /\ Start(b) <= now /\ now < Reset(b)
                              /\ bucket' = [bucket EXCEPT ![r] = b]
      BY <2>1 DEF Arrive
    <3>2. /\ at' = [at EXCEPT ![r] = now]
          /\ pc' = [pc EXCEPT ![r] = "adding"]
          /\ UNCHANGED <<now, entry, counted, admitted, slow>>
      BY <2>1 DEF Arrive, Goto, tallyVars
    <3>3. Waiting'
      BY <3>1, <3>2, RateLimiterAssumption DEF Waiting, TypeOK
    <3>4. Found'
      BY <3>1, <3>2 DEF Found, TypeOK
    <3> QED
      BY <1>0, <3>2, <3>3, <3>4 DEF Exact, WindowLimit
  <2>2. CASE AddFinds(r)
    <3>1. /\ pc[r] = "adding" /\ Live(bucket[r])
          /\ pc' = [pc EXCEPT ![r] = "bumping"]
          /\ UNCHANGED <<now, entry, at, bucket, counted, admitted, slow>>
      BY <2>2 DEF AddFinds, Goto, tallyVars
    <3>2. bucket[r] \notin slow => counted[bucket[r]] > 0
      BY <3>1, EntryOutlivesRequests
    <3>3. Waiting'
      BY <3>1 DEF Waiting, TypeOK
    <3>4. Found'
      BY <3>1, <3>2 DEF Found, TypeOK
    <3> QED
      BY <1>0, <3>1, <3>3, <3>4 DEF Exact, WindowLimit
  <2>3. CASE BumpFails(r)
    <3>1. /\ pc[r] = "bumping" /\ ~Live(bucket[r])
          /\ pc' = [pc EXCEPT ![r] = "adding_again"]
          /\ UNCHANGED <<now, entry, at, bucket, counted, admitted, slow>>
      BY <2>3 DEF BumpFails, Goto, tallyVars
    <3>2. bucket[r] \in slow
      BY <3>1, EntryOutlivesRequests DEF Found
    <3>3. Waiting'
      BY <3>1 DEF Waiting, TypeOK
    <3>4. Found'
      BY <3>1, <3>2 DEF Found, TypeOK
    <3> QED
      BY <1>0, <3>1, <3>3, <3>4 DEF Exact, WindowLimit
  <2>4. PICK b \in Bucket : b = bucket[r]
    BY DEF TypeOK
  <2>5. ASSUME NEW n \in Nat, Judge(r, n), pc[r] # "idle",
               now' = now, entry' \in [Bucket -> [count : Nat, expires : Nat]],
               \A c \in Bucket : c # b => entry'[c] = entry[c],
               b \notin slow => /\ n = counted[b] + 1
                               /\ entry'[b].count = n
                               /\ entry'[b].expires >= Reset(b) + Second
        PROVE  LimitInv'
    <3>1. /\ counted' = [counted EXCEPT ![b] = @ + 1]
          /\ admitted' = [admitted EXCEPT ![b] = IF Through(n) THEN @ + 1 ELSE @]
          /\ pc' = [pc EXCEPT ![r] = "idle"]
          /\ at' = [at EXCEPT ![r] = 0]
          /\ bucket' = [bucket EXCEPT ![r] = 0]
          /\ slow' = slow
      BY <2>4, <2>5 DEF Judge
    <3>2. Waiting'
      BY <2>5, <3>1 DEF Waiting, TypeOK
    <3>3. counted'[b] = counted[b] + 1 /\ \A c \in Bucket : c # b => counted'[c] = counted[c]
      BY <3>1 DEF TypeOK
    <3>4. Exact'
      <4> SUFFICES ASSUME NEW c \in Bucket, c \notin slow
                   PROVE  /\ entry'[c].count = counted'[c]
                          /\ counted'[c] = 0 => entry'[c].expires = 0
                          /\ counted'[c] > 0 => entry'[c].expires >= Reset(c) + Second
        BY <3>1 DEF Exact, Reset, Start
      <4>1. CASE c = b
        BY <4>1, <2>5, <3>3 DEF TypeOK
      <4>2. CASE c # b
        BY <4>2, <2>5, <3>3 DEF Exact
      <4> QED
        BY <4>1, <4>2
    <3>5. Found'
      <4> SUFFICES ASSUME NEW q \in Requests, bucket'[q] \notin slow
                   PROVE  /\ pc'[q] = "bumping" => counted'[bucket'[q]] > 0
                          /\ pc'[q] # "adding_again"
        BY <3>1 DEF Found
      <4>1. CASE q = r
        BY <4>1, <3>1 DEF TypeOK
      <4>2. CASE q # r
        <5>1. pc'[q] = pc[q] /\ bucket'[q] = bucket[q] /\ bucket[q] \in Bucket
          BY <4>2, <3>1 DEF TypeOK
        <5>2. counted'[bucket[q]] >= counted[bucket[q]]
          BY <5>1, <3>3 DEF TypeOK
        <5>3. counted[bucket[q]] \in Nat /\ counted'[bucket[q]] \in Nat
          BY <1>0, <5>1 DEF TypeOK
        <5>4. pc[q] = "bumping" => counted'[bucket[q]] > 0
          BY <5>1, <5>2, <5>3 DEF Found
        <5> QED
          BY <5>1, <5>4 DEF Found
      <4> QED
        BY <4>1, <4>2
    <3>6. WindowLimit'
      <4> SUFFICES ASSUME NEW c \in Bucket, c \notin slow
                   PROVE  admitted'[c] = IF counted'[c] <= MaxRequests
                                         THEN counted'[c] ELSE MaxRequests
        BY <3>1 DEF WindowLimit
      <4>1. CASE c = b
        <5>1. admitted'[b] = IF n <= MaxRequests THEN admitted[b] + 1 ELSE admitted[b]
          BY <3>1 DEF TypeOK, Through
        <5>2. admitted[b] = IF counted[b] <= MaxRequests THEN counted[b] ELSE MaxRequests
          BY <4>1 DEF WindowLimit
        <5>3. counted[b] \in Nat
          BY DEF TypeOK
        <5> QED
          BY <4>1, <2>5, <3>3, <5>1, <5>2, <5>3, RateLimiterAssumption
      <4>2. CASE c # b
        BY <4>2, <3>1, <3>3 DEF WindowLimit, TypeOK
      <4> QED
        BY <4>1, <4>2
    <3> QED
      BY <1>0, <3>2, <3>4, <3>5, <3>6
  <2>6. CASE Add(r)
    <3>1. /\ pc[r] = "adding" /\ ~Live(b) /\ Judge(r, 1) /\ now' = now
          /\ entry' = [entry EXCEPT ![b] = FreshEntry(b)]
      BY <2>6, <2>4 DEF Add
    <3>2. b \notin slow => counted[b] = 0
      BY <3>1, <2>4, EntryOutlivesRequests DEF TypeOK
    <3>3. Start(b) \in Nat /\ Start(b) <= now
      BY <3>1, <2>4, WindowBounds, RateLimiterAssumption DEF Waiting, TypeOK
    <3>4. now + (Window + 1) * Second >= Reset(b) + Second
      BY <3>3, WindowBounds, RateLimiterAssumption DEF TypeOK
    <3> QED
      BY <1>0, <3>1, <3>2, <3>4, <2>5 DEF FreshEntry, TypeOK
  <2>7. CASE Bump(r)
    <3>1. /\ pc[r] = "bumping" /\ Judge(r, entry[b].count + 1) /\ now' = now
          /\ entry' = [entry EXCEPT ![b].count = @ + 1]
      BY <2>7, <2>4 DEF Bump
    <3>2. b \notin slow => counted[b] > 0
      BY <3>1, <2>4 DEF Found
    <3>3. b \notin slow => /\ entry[b].count = counted[b]
                          /\ entry[b].expires >= Reset(b) + Second
      BY <3>2 DEF Exact
    <3>4. entry[b].count + 1 \in Nat
      BY DEF TypeOK
    <3> QED
      BY <1>0, <3>1, <3>3, <3>4, <2>5 DEF TypeOK
  <2>8. CASE AddAgain(r)
    <3>1. /\ pc[r] = "adding_again" /\ Judge(r, 1) /\ now' = now
          /\ entry' = IF Live(b) THEN entry ELSE [entry EXCEPT ![b] = FreshEntry(b)]
      BY <2>8, <2>4 DEF AddAgain
    <3>2. b \in slow
      BY <3>1, <2>4 DEF Found
    <3>3. \A c \in Bucket : c # b => entry'[c] = entry[c]
      BY <3>1 DEF TypeOK
    <3> QED
      BY <1>0, <3>1, <3>2, <3>3, <2>5 DEF TypeOK
  <2> QED
    BY <1>3, <2>1, <2>2, <2>3, <2>6, <2>7, <2>8 DEF Step
<1> QED
  BY <1>1, <1>2, <1>3 DEF Next

(* No window lets more than MaxRequests requests through, and none of the  *)
(* first MaxRequests is turned away, as long as its requests count         *)
(* themselves within a second of reading the clock (decorators.py:81-88).  *)
THEOREM LimitHolds == Spec => []WindowLimit
<1>1. Init => LimitInv
  <2> SUFFICES ASSUME Init PROVE LimitInv
    OBVIOUS
  <2>1. Waiting /\ Found
    BY DEF Init, Waiting, Found
  <2>2. Exact /\ WindowLimit
    BY RateLimiterAssumption DEF Init, Exact, WindowLimit, NoEntry
  <2> QED
    BY <2>1, <2>2, InitType DEF LimitInv
<1>2. LimitInv /\ [Next]_vars => LimitInv'
  BY LimitPreserved
<1>3. LimitInv => WindowLimit
  BY DEF LimitInv
<1> QED
  BY <1>1, <1>2, <1>3, PTL DEF Spec

-----------------------------------------------------------------------------
(***************************************************************************)
(* The failed login attempts of one address. The check and the count are   *)
(* two steps: AttemptsLimited is not inductive, because it does not say    *)
(* how many logins are past the check and still to be counted. RoomLeft    *)
(* bounds them together with the count, CountsAll ties the guesses of one  *)
(* life of the entry to its count, and CountedLately the failures it       *)
(* counts to the moments they happened.                                    *)
(***************************************************************************)

Spots == {"out", "password", "adding", "bumping", "setting", "resetting"}

(* The logins that are past the check and may still be counted.            *)
InFlight == {r \in Logins : spot[r] \in {"password", "adding", "bumping", "setting"}}

(* What the live entry counts, and the logins in flight, stay below the    *)
(* limit and all logins together.                                          *)
RoomLeft ==
    TallyLives =>
        tally.count + Cardinality(InFlight) < LoginLimit + Cardinality(Logins)

(* An entry that was not written over counts every failure of its life.    *)
CountsAll == TallyLives /\ ~reopened => guesses = tally.count

(* The failures an entry counts are the last there were, and are no older  *)
(* than the entry.                                                         *)
CountedLately ==
    TallyLives =>
        /\ tally.until <= moment + LoginWindow
        /\ tally.count <= Len(failedAt)
        /\ \A i \in 1 .. Len(failedAt) :
              i > Len(failedAt) - tally.count => failedAt[i] >= tally.until - LoginWindow

LoginInv == LoginTypeOK /\ RoomLeft /\ CountsAll /\ CountedLately /\ RefusalEarned

(* A login is counted among those in flight or is not; one more at most.   *)
LEMMA InFlightFinite ==
    /\ IsFiniteSet(InFlight)
    /\ Cardinality(InFlight) \in Nat /\ Cardinality(Logins) \in Nat
    /\ Cardinality(InFlight) <= Cardinality(Logins)
<1>1. InFlight \subseteq Logins
  BY DEF InFlight
<1> QED  BY <1>1, LoginAssumption, FS_Subset, FS_CardinalityType

LEMMA NextInFlightFinite ==
    /\ IsFiniteSet(InFlight')
    /\ Cardinality(InFlight') \in Nat /\ Cardinality(Logins) \in Nat
    /\ Cardinality(InFlight') <= Cardinality(Logins)
<1>1. InFlight' \subseteq Logins
  BY DEF InFlight
<1> QED  BY <1>1, LoginAssumption, FS_Subset, FS_CardinalityType

(* A login that has been counted is in flight no more.                     *)
LEMMA Landed ==
    ASSUME LoginTypeOK, NEW r \in Logins, r \in InFlight,
           spot' = [spot EXCEPT ![r] = "out"]
    PROVE  Cardinality(InFlight') = Cardinality(InFlight) - 1
<1>1. InFlight' = InFlight \ {r}
  BY DEF LoginTypeOK, InFlight
<1> QED  BY <1>1, InFlightFinite, FS_RemoveElement

(* A step in which nobody takes off.                                       *)
LEMMA NoneTakesOff ==
    ASSUME InFlight' \subseteq InFlight
    PROVE  Cardinality(InFlight') <= Cardinality(InFlight)
BY InFlightFinite, FS_Subset

LEMMA LoginInvInit == LoginInit => LoginInv
<1> SUFFICES ASSUME LoginInit PROVE LoginInv
  OBVIOUS
<1>1. LoginTypeOK
  <2>1. spot \in [Logins -> Spots]
    BY DEF LoginInit, Spots
  <2>2. tally \in [count : Nat, until : Nat]
    BY DEF LoginInit, NoTally
  <2>3. reopened \in BOOLEAN /\ refusal \in BOOLEAN
    BY DEF LoginInit
  <2>4. moment \in 0 .. LoginHorizon /\ guesses \in Nat /\ failedAt \in Seq(Nat)
    BY LoginAssumption DEF LoginInit
  <2> QED  BY <2>1, <2>2, <2>3, <2>4 DEF LoginTypeOK, Spots
<1>2. ~TallyLives
  BY DEF LoginInit, NoTally, TallyLives
<1> QED  BY <1>1, <1>2 DEF LoginInit, LoginInv, RoomLeft, CountsAll, CountedLately,
   RefusalEarned

LEMMA LoginTypeStep == LoginTypeOK /\ [LoginNext]_loginVars => LoginTypeOK'
<1> SUFFICES ASSUME LoginTypeOK, [LoginNext]_loginVars PROVE LoginTypeOK'
  OBVIOUS
<1> DEFINE Counts == /\ moment \in 0 .. LoginHorizon
                     /\ tally \in [count : Nat, until : Nat]
                     /\ guesses \in Nat /\ failedAt \in Seq(Nat)
<1>0. spot \in [Logins -> Spots] /\ Counts
  BY DEF LoginTypeOK, Spots
<1>1. spot' \in [Logins -> Spots]
  BY <1>0 DEF LoginNext, AskLogin, TryPassword, AddTally, BumpTally, BumpTallyFails,
         SetTally, ResetTally, LoginTick, LoginRestart, loginVars, Moves, Spots
<1>2. Counts'
  <2> USE <1>0, LoginAssumption DEF Moves, FailureCounted, historyVars, NoTally
  <2>1. ASSUME NEW r \in Logins, AskLogin(r) \/ TryPassword(r) PROVE Counts'
    BY <2>1 DEF AskLogin, TryPassword
  <2>2. ASSUME NEW r \in Logins, AddTally(r) PROVE Counts'
    BY <2>2 DEF AddTally
  <2>3. ASSUME NEW r \in Logins, BumpTally(r) PROVE Counts'
    BY <2>3 DEF BumpTally
  <2>4. ASSUME NEW r \in Logins, BumpTallyFails(r) PROVE Counts'
    BY <2>4 DEF BumpTallyFails
  <2>5. ASSUME NEW r \in Logins, SetTally(r) PROVE Counts'
    BY <2>5 DEF SetTally
  <2>6. ASSUME NEW r \in Logins, ResetTally(r) PROVE Counts'
    BY <2>6 DEF ResetTally
  <2>7. ASSUME LoginTick PROVE Counts'
    BY <2>7 DEF LoginTick
  <2>8. ASSUME LoginRestart PROVE Counts'
    BY <2>8 DEF LoginRestart
  <2>9. ASSUME UNCHANGED loginVars PROVE Counts'
    BY <2>9 DEF loginVars
  <2> HIDE DEF Counts
  <2> QED
    BY <2>1, <2>2, <2>3, <2>4, <2>5, <2>6, <2>7, <2>8, <2>9 DEF LoginNext
<1>3. reopened' \in BOOLEAN /\ refusal' \in BOOLEAN
  <2>1. TallyLives \in BOOLEAN /\ RateLimited \in BOOLEAN
    BY DEF TallyLives, RateLimited
  <2> QED
    BY <2>1 DEF LoginTypeOK, LoginNext, AskLogin, TryPassword, AddTally, BumpTally,
       BumpTallyFails, SetTally, ResetTally, LoginTick, LoginRestart, loginVars, historyVars
<1> QED  BY <1>1, <1>2, <1>3 DEF LoginTypeOK, Spots

(* A step that leaves the entry and the failures alone, and lets nobody    *)
(* take off.                                                               *)
LEMMA EntryAlone ==
    ASSUME LoginInv, UNCHANGED <<tally, historyVars>>, moment' \in Nat, moment' >= moment,
           InFlight' \subseteq InFlight
    PROVE  RoomLeft' /\ CountsAll' /\ CountedLately'
<1> USE DEF LoginInv, LoginTypeOK, historyVars
<1>1. TallyLives' => TallyLives
  BY DEF TallyLives
<1>2. RoomLeft'
  BY <1>1, NoneTakesOff, InFlightFinite, NextInFlightFinite, LoginAssumption DEF RoomLeft
<1>3. CountsAll'
  BY <1>1 DEF CountsAll
<1>4. CountedLately'
  BY <1>1, LoginAssumption DEF CountedLately
<1> QED  BY <1>2, <1>3, <1>4

(* What is left to show of a step that does not refuse.                    *)
LEMMA LoginInvStep == LoginInv /\ [LoginNext]_loginVars => LoginInv'
<1> SUFFICES ASSUME LoginInv, [LoginNext]_loginVars PROVE LoginInv'
  OBVIOUS
<1> DEFINE Kept == RoomLeft /\ CountsAll /\ CountedLately /\ RefusalEarned
<1>0. LoginTypeOK /\ LoginTypeOK'
  BY LoginTypeStep DEF LoginInv
<1>r. refusal' = FALSE => RefusalEarned'
  BY DEF RefusalEarned
<1>d. ~TallyLives' => RoomLeft' /\ CountsAll' /\ CountedLately'
  BY DEF RoomLeft, CountsAll, CountedLately
<1> USE <1>0 DEF LoginTypeOK
<1>1. ASSUME NEW r \in Logins, AskLogin(r) PROVE Kept'
  <2> USE <1>1 DEF AskLogin, Moves, historyVars
  <2>1. CASE RateLimited
    <3>1. InFlight' \subseteq InFlight
      BY <2>1 DEF InFlight
    <3>2. /\ tally.count >= LoginLimit /\ TallyLives
          /\ tally.count <= Len(failedAt)
          /\ \A i \in 1 .. Len(failedAt) :
              i > Len(failedAt) - tally.count => failedAt[i] >= tally.until - LoginWindow
      BY <2>1 DEF RateLimited, LoginInv, CountedLately
    <3> DEFINE k == Len(failedAt) - LoginLimit + 1
    <3>3. /\ Len(failedAt) >= LoginLimit
          /\ k \in 1 .. Len(failedAt) /\ k > Len(failedAt) - tally.count
      BY <3>2, LoginAssumption
    <3>4. failedAt[k] >= tally.until - LoginWindow /\ failedAt[k] \in Nat
      BY <3>2, <3>3
    <3>5. failedAt[k] > moment - LoginWindow
      BY <3>2, <3>4, LoginAssumption DEF TallyLives
    <3>6. RefusalEarned'
      BY <3>3, <3>5 DEF RefusalEarned
    <3> QED  BY <3>1, <3>6, EntryAlone
  <2>2. CASE ~RateLimited
    <3>1. RoomLeft'
      BY <2>2, NextInFlightFinite, LoginAssumption DEF RoomLeft, RateLimited, TallyLives
    <3>2. CountsAll' /\ CountedLately'
      BY DEF LoginInv, CountsAll, CountedLately, TallyLives
    <3> QED  BY <2>2, <3>1, <3>2, <1>r
  <2> QED  BY <2>1, <2>2
<1>2. ASSUME NEW r \in Logins, TryPassword(r) PROVE Kept'
  <2>1. InFlight' \subseteq InFlight
    BY <1>2 DEF TryPassword, Moves, InFlight
  <2> QED  BY <1>2, <2>1, <1>r, EntryAlone DEF TryPassword, Moves
<1>3. ASSUME NEW r \in Logins, AddTally(r) PROVE Kept'
  <2> USE <1>3 DEF AddTally, Moves
  <2>1. InFlight' \subseteq InFlight
    BY DEF InFlight
  <2>2. CASE TallyLives
    <3>1. UNCHANGED <<tally, historyVars>>
      BY <2>2 DEF historyVars
    <3> QED  BY <2>1, <3>1, <1>r, EntryAlone
  <2>3. CASE ~TallyLives
    <3>1. RoomLeft'
      BY <2>3, <2>1, NextInFlightFinite, LoginAssumption DEF RoomLeft
    <3>2. CountsAll'
      BY <2>3 DEF CountsAll
    <3>3. CountedLately'
      BY <2>3, LoginAssumption DEF CountedLately
    <3> QED  BY <3>1, <3>2, <3>3, <1>r
  <2> QED  BY <2>2, <2>3
<1>4. ASSUME NEW r \in Logins, BumpTally(r) PROVE Kept'
  <2> USE <1>4 DEF BumpTally, Moves, FailureCounted
  <2>1. Cardinality(InFlight') = Cardinality(InFlight) - 1
    BY Landed DEF InFlight
  <2>2. RoomLeft'
    BY <2>1, InFlightFinite, LoginAssumption DEF LoginInv, RoomLeft, TallyLives
  <2>3. CountsAll'
    BY DEF LoginInv, CountsAll, TallyLives
  <2>4. CountedLately'
    <3>1. /\ tally.until <= moment + LoginWindow /\ tally.count <= Len(failedAt)
          /\ \A i \in 1 .. Len(failedAt) :
                i > Len(failedAt) - tally.count => failedAt[i] >= tally.until - LoginWindow
      BY DEF LoginInv, CountedLately
    <3>2. /\ tally'.until = tally.until /\ tally'.count = tally.count + 1
          /\ Len(failedAt') = Len(failedAt) + 1
          /\ failedAt'[Len(failedAt')] = moment
          /\ \A i \in 1 .. Len(failedAt) : failedAt'[i] = failedAt[i]
      OBVIOUS
    <3>3. ASSUME NEW i \in 1 .. Len(failedAt'), i > Len(failedAt') - tally'.count
          PROVE  failedAt'[i] >= tally'.until - LoginWindow
      <4>1. CASE i = Len(failedAt')
        BY <4>1, <3>1, <3>2, LoginAssumption
      <4>2. CASE i \in 1 .. Len(failedAt)
        BY <4>2, <3>1, <3>2, <3>3
      <4> QED  BY <4>1, <4>2, <3>2
    <3> QED  BY <3>1, <3>2, <3>3 DEF CountedLately
  <2> QED  BY <2>2, <2>3, <2>4, <1>r
<1>5. ASSUME NEW r \in Logins, BumpTallyFails(r) PROVE Kept'
  <2>1. InFlight' \subseteq InFlight
    BY <1>5 DEF BumpTallyFails, Moves, InFlight
  <2> QED  BY <1>5, <2>1, <1>r, EntryAlone DEF BumpTallyFails, Moves
<1>6. ASSUME NEW r \in Logins, SetTally(r) PROVE Kept'
  <2> USE <1>6 DEF SetTally, Moves, FailureCounted
  <2>1. Cardinality(InFlight') = Cardinality(InFlight) - 1
    BY Landed DEF InFlight
  <2>2. RoomLeft'
    BY <2>1, InFlightFinite, LoginAssumption DEF RoomLeft
  <2>3. CountsAll'
    BY DEF CountsAll, TallyLives
  <2>4. CountedLately'
    BY LoginAssumption DEF CountedLately
  <2> QED  BY <2>2, <2>3, <2>4, <1>r
<1>7. ASSUME NEW r \in Logins, ResetTally(r) PROVE Kept'
  <2>1. ~TallyLives'
    BY <1>7 DEF ResetTally, Moves, NoTally, TallyLives
  <2> QED  BY <1>7, <2>1, <1>d, <1>r DEF ResetTally
<1>8. ASSUME LoginTick PROVE Kept'
  <2>1. InFlight' \subseteq InFlight
    BY <1>8 DEF LoginTick, InFlight
  <2> QED  BY <1>8, <2>1, <1>r, EntryAlone DEF LoginTick
<1>9. ASSUME LoginRestart PROVE Kept'
  <2>1. ~TallyLives'
    BY <1>9 DEF LoginRestart, NoTally, TallyLives
  <2> QED  BY <1>9, <2>1, <1>d, <1>r DEF LoginRestart
<1>10. ASSUME UNCHANGED loginVars PROVE Kept'
  <2>1. InFlight' \subseteq InFlight
    BY <1>10 DEF loginVars, InFlight
  <2>2. RefusalEarned'
    BY <1>10 DEF loginVars, historyVars, LoginInv, RefusalEarned
  <2> QED  BY <1>10, <2>1, <2>2, EntryAlone DEF loginVars
<1> HIDE DEF Kept
<1>11. Kept'
  BY <1>1, <1>2, <1>3, <1>4, <1>5, <1>6, <1>7, <1>8, <1>9, <1>10 DEF LoginNext
<1> QED  BY <1>0, <1>11 DEF LoginInv, Kept

(* Nobody is refused who was not earned it by LoginLimit failures within   *)
(* the window, and the guesses of an entry's life are bounded, for every   *)
(* limit, window and number of logins that run at once.                    *)
THEOREM AttemptsAreLimited == LoginSpec => []AttemptsLimited
<1>1. LoginInv => AttemptsLimited
  <2> SUFFICES ASSUME LoginInv PROVE AttemptsLimited
    OBVIOUS
  <2>1. GuessesBounded
    BY InFlightFinite, LoginAssumption
       DEF LoginInv, LoginTypeOK, RoomLeft, CountsAll, GuessesBounded
  <2> QED  BY <2>1 DEF LoginInv, AttemptsLimited
<1> QED  BY LoginInvInit, LoginInvStep, <1>1, PTL DEF LoginSpec
=============================================================================
