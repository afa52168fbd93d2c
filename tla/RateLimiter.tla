---------------------------- MODULE RateLimiter ----------------------------
(***************************************************************************)
(* The rate_limit decorator: a fixed window counted in the cache.  The     *)
(* requests are those of one client to one view, so a cache key is the     *)
(* number of a bucket.  Time is counted in ticks, Second of them to a      *)
(* second.  A request reads the clock, then tries cache.add, then          *)
(* cache.incr, then cache.add again, and the clock goes on in between.     *)
(***************************************************************************)
EXTENDS Integers

CONSTANTS Requests,     (* threads that serve the view                       *)
          MaxRequests,  (* max_requests of the decorator                     *)
          Window,       (* WINDOW_SECONDS[per]                               *)
          Second,       (* ticks in a second                                 *)
          Delay,        (* ticks from reading the clock to the count         *)
          Buckets,      (* bound: windows the clock runs through             *)
          MaxCounted    (* bound: requests counted in a bucket               *)

ASSUME RateLimiterAssumption ==
    /\ MaxRequests \in Nat \ {0}
    /\ Window \in Nat \ {0}
    /\ Second \in Nat \ {0}
    /\ Delay \in Nat
    /\ Buckets \in Nat \ {0}
    /\ MaxCounted \in Nat

VARIABLES
    now,       (* ticks                                                      *)
    entry,     (* the cache: count and expiry time of each bucket's key      *)
    pc,        (* where each request is                                      *)
    at,        (* the clock each request read                                *)
    bucket,    (* the bucket it belongs to                                   *)
    counted,   (* requests counted so far, per bucket                        *)
    admitted,  (* those that went through to the view                        *)
    slow,      (* buckets with a request that was not counted within a       *)
               (* second of reading the clock                                *)
    verdict    (* what this step answered, if it answered                    *)

requestVars == <<pc, at, bucket>>
tallyVars == <<counted, admitted, slow>>
vars == <<now, entry, requestVars, tallyVars, verdict>>

Bucket == 0 .. Buckets - 1
Start(b) == b * (Window * Second)
Reset(b) == Start(b) + Window * Second
NoEntry == [count |-> 0, expires |-> 0]
NoVerdict == [kind |-> "none", bucket |-> 0, wait |-> 0]
LongestWait == Window + 1

Live(b) == now < entry[b].expires

(* retry_after: whole seconds, rounded up, to the end of the window.       *)
RetryAfter(b, t) ==
    CHOOSE s \in 1 .. LongestWait :
        t + (s - 1) * Second < Reset(b) /\ Reset(b) <= t + s * Second

-----------------------------------------------------------------------------
Init ==
    /\ now = 0
    /\ entry = [b \in Bucket |-> NoEntry]
    /\ pc = [r \in Requests |-> "idle"]
    /\ at = [r \in Requests |-> 0]
    /\ bucket = [r \in Requests |-> 0]
    /\ counted = [b \in Bucket |-> 0]
    /\ admitted = [b \in Bucket |-> 0]
    /\ slow = {}
    /\ verdict = NoVerdict

Goto(r, l) == pc' = [pc EXCEPT ![r] = l] /\ verdict' = NoVerdict

(* current > max_requests is refused. *)
ThroughStrict(n) == n < MaxRequests
Through(n) == n <= MaxRequests

(* The request is number n of its bucket: on to the view, or refused.      *)
Judge(r, n) ==
    LET b == bucket[r] IN
    /\ counted' = [counted EXCEPT ![b] = @ + 1]
    /\ admitted' = [admitted EXCEPT ![b] = IF Through(n) THEN @ + 1 ELSE @]
    /\ verdict' = IF Through(n)
                  THEN [kind |-> "admitted", bucket |-> b, wait |-> 0]
                  ELSE [kind |-> "refused", bucket |-> b, wait |-> RetryAfter(b, at[r])]
    /\ pc' = [pc EXCEPT ![r] = "idle"]
    /\ at' = [at EXCEPT ![r] = 0]
    /\ bucket' = [bucket EXCEPT ![r] = 0]
    /\ UNCHANGED slow

(* monotonic(): the bucket is the window the clock is in.                  *)
Arrive(r) ==
    /\ pc[r] = "idle"
    /\ \E b \in Bucket :
          /\ Start(b) <= now /\ now < Reset(b)
          /\ bucket' = [bucket EXCEPT ![r] = b]
    /\ at' = [at EXCEPT ![r] = now]
    /\ Goto(r, "adding")
    /\ UNCHANGED <<now, entry, tallyVars>>

(* cache.add with a timeout of the window and one second.                  *)
FreshEntryUntimed(b) == [count |-> 1]
FreshEntryExact(b) == [count |-> 1, expires |-> now + Window * Second]
FreshEntry(b) == [count |-> 1, expires |-> now + (Window + 1) * Second]

Add(r) ==
    LET b == bucket[r] IN
    /\ pc[r] = "adding"
    /\ ~Live(b)
    /\ counted[b] < MaxCounted
    /\ entry' = [entry EXCEPT ![b] = FreshEntry(b)]
    /\ Judge(r, 1)
    /\ UNCHANGED now

AddFinds(r) ==
    /\ pc[r] = "adding"
    /\ Live(bucket[r])
    /\ Goto(r, "bumping")
    /\ UNCHANGED <<now, entry, at, bucket, tallyVars>>

(* cache.incr keeps the expiry time.                                       *)
Bump(r) ==
    LET b == bucket[r] IN
    /\ pc[r] = "bumping"
    /\ Live(b)
    /\ counted[b] < MaxCounted
    /\ entry' = [entry EXCEPT ![b].count = @ + 1]
    /\ Judge(r, entry[b].count + 1)
    /\ UNCHANGED now

(* The entry expired since cache.add: ValueError.                          *)
BumpFails(r) ==
    /\ pc[r] = "bumping"
    /\ ~Live(bucket[r])
    /\ Goto(r, "adding_again")
    /\ UNCHANGED <<now, entry, at, bucket, tallyVars>>

(* The second cache.add: its result is not looked at, the request counts   *)
(* as the first also when another one has added the key meanwhile.         *)
AddAgain(r) ==
    LET b == bucket[r] IN
    /\ pc[r] = "adding_again"
    /\ counted[b] < MaxCounted
    /\ entry' = IF Live(b) THEN entry ELSE [entry EXCEPT ![b] = FreshEntry(b)]
    /\ Judge(r, 1)
    /\ UNCHANGED now

(* A request is counted within Delay of reading the clock.                 *)
Tick ==
    /\ now + 1 < Start(Buckets)
    /\ \A r \in Requests : pc[r] # "idle" => now + 1 <= at[r] + Delay
    /\ now' = now + 1
    /\ slow' = slow \cup {bucket[r] : r \in {q \in Requests :
                                   pc[q] # "idle" /\ now + 1 > at[q] + Second}}
    /\ verdict' = NoVerdict
    /\ UNCHANGED <<entry, requestVars, counted, admitted>>

Step(r) == \/ Arrive(r) \/ Add(r) \/ AddFinds(r) \/ Bump(r) \/ BumpFails(r) \/ AddAgain(r)

Next == Tick \/ \E r \in Requests : Step(r)

Spec == Init /\ [][Next]_vars

-----------------------------------------------------------------------------
TypeOK ==
    /\ now \in Nat
    /\ entry \in [Bucket -> [count : Nat, expires : Nat]]
    /\ pc \in [Requests -> {"idle", "adding", "bumping", "adding_again"}]
    /\ at \in [Requests -> Nat]
    /\ bucket \in [Requests -> Bucket]
    /\ counted \in [Bucket -> Nat]
    /\ admitted \in [Bucket -> Nat]
    /\ slow \in SUBSET Bucket
    /\ verdict.kind \in {"none", "admitted", "refused"}
    /\ verdict.bucket \in Bucket

(* The first MaxRequests requests of a window go through and no other: the *)
(* count in the cache neither misses one nor starts over, whatever the     *)
(* order of the cache calls.  The spare second the entry outlives its      *)
(* window (decorators.py:82) covers requests counted within a second.      *)
WindowLimit ==
    \A b \in Bucket \ slow :
        admitted[b] = IF counted[b] <= MaxRequests THEN counted[b] ELSE MaxRequests

(* No request is refused before MaxRequests others of its window were      *)
(* counted, however late it is counted itself.                             *)
RefusedAtLimit ==
    verdict.kind = "refused" => counted[verdict.bucket] > MaxRequests
=============================================================================
