------------------------------ MODULE Session ------------------------------
(***************************************************************************)
(* The sessions of one verified user: token pairs in the storage of        *)
(* browsers, requests that sign in, refresh, call the API, sign out and    *)
(* change the password, the row's session_version and the refresh-token    *)
(* blacklist in the cache.  The tabs of a browser share its storage, and   *)
(* any number of requests of one browser may be under way.                 *)
(*                                                                         *)
(* A pair is made of its claims: the session version and the second it was *)
(* issued; both tokens of a pair expire by that second.  since is not in   *)
(* the token: it says how often the user had signed out when the           *)
(* credentials the pair descends from were checked.                        *)
(***************************************************************************)
EXTENDS Integers

CONSTANTS Requests,
          Browsers,
          AccessLife, RefreshLife,   (* seconds                              *)
          MaxTime,                   (* bound: seconds                       *)
          MaxSignOuts,               (* bound: sign-outs                     *)
          MaxBoots                   (* bound: server processes started      *)

ASSUME SessionAssumption ==
    /\ Browsers # {}
    /\ AccessLife \in Nat \ {0} /\ RefreshLife \in Nat \ {0}
    /\ AccessLife <= RefreshLife
    /\ MaxTime \in Nat /\ MaxSignOuts \in Nat /\ MaxBoots \in Nat

VARIABLES
    now,
    boot,        (* server processes started                                 *)
    version,     (* session_version of the row                               *)
    signouts,    (* sign-outs that took effect                               *)
    blacklist,   (* the cache: claims and expiry time of refused refreshes   *)
    retired,     (* the claims blacklisted since the server process started  *)
    store,       (* the pair in each browser's storage                       *)
    pc,          (* where each request is                                    *)
    browser,     (* whose it is                                              *)
    pair         (* the pair it carries, or brings back                      *)

serverVars == <<boot, version, signouts, blacklist, retired>>
vars == <<now, serverVars, store, pc, browser, pair>>

SomeBrowser == CHOOSE b \in Browsers : TRUE
NoPair == [version |-> 0, at |-> 0, since |-> 0]
AccessExpired(p) == now >= p.at + AccessLife
RefreshExpired(p) == now >= p.at + RefreshLife
Claims(p) == [version |-> p.version, at |-> p.at]

(* cache.get of the token's hash. *)
Blacklisted(p) ==
    \E b \in blacklist : b.claims = Claims(p) /\ now < b.until

(* The timeout is what the refresh token has left.                         *)
BlacklistingForAccessLife(p) ==
    blacklist \cup {[claims |-> Claims(p), until |-> p.at + AccessLife]}
Blacklisting(p) ==
    blacklist \cup {[claims |-> Claims(p), until |-> p.at + RefreshLife]}

(* JWTAuthentication. *)
Authentic(p) == ~AccessExpired(p) /\ p.version = version

-----------------------------------------------------------------------------
Init ==
    /\ now = 0 /\ boot = 1
    /\ version = 1 /\ signouts = 0
    /\ blacklist = {} /\ retired = {}
    /\ store = [b \in Browsers |-> NoPair]
    /\ pc = [r \in Requests |-> "idle"]
    /\ browser = [r \in Requests |-> SomeBrowser]
    /\ pair = [r \in Requests |-> NoPair]

Goto(r, l) == pc' = [pc EXCEPT ![r] = l]

Begin(r, b, l, p) ==
    /\ pc[r] = "idle"
    /\ Goto(r, l)
    /\ browser' = [browser EXCEPT ![r] = b]
    /\ pair' = [pair EXCEPT ![r] = p]
    /\ UNCHANGED <<now, serverVars, store>>

(* The response is there: the browser stores p, and the request is over.   *)
End(r, p) ==
    /\ store' = [store EXCEPT ![browser[r]] = p]
    /\ Goto(r, "idle")
    /\ browser' = [browser EXCEPT ![r] = SomeBrowser]
    /\ pair' = [pair EXCEPT ![r] = NoPair]
    /\ UNCHANGED <<now, serverVars>>

(***************************************************************************)
(* Signing in: the row is read with the credentials, the tokens are issued *)
(* for the version it had.                                                 *)
(***************************************************************************)
SignIn(r, b) ==
    Begin(r, b, "signing_in", [version |-> version, at |-> 0, since |-> signouts])

(* generate_tokens. *)
Issued(p) == [p EXCEPT !.at = now]

IssueFirst(r) ==
    /\ pc[r] = "signing_in"
    /\ pair' = [pair EXCEPT ![r] = Issued(pair[r])]
    /\ Goto(r, "signed_in")
    /\ UNCHANGED <<now, serverVars, store, browser>>

(***************************************************************************)
(* Refreshing, when the access token has expired: the blacklist is looked  *)
(* up, then the row is read.                                               *)
(***************************************************************************)
Refresh(r, b) ==
    /\ store[b] # NoPair
    /\ AccessExpired(store[b])
    /\ Begin(r, b, "refreshing", store[b])

LookUp(r) ==
    /\ pc[r] = "refreshing"
    /\ Goto(r, IF RefreshExpired(pair[r]) \/ Blacklisted(pair[r])
               THEN "refused" ELSE "comparing")
    /\ UNCHANGED <<now, serverVars, store, browser, pair>>

Compare(r) ==
    /\ pc[r] = "comparing"
    /\ Goto(r, IF pair[r].version = version THEN "issuing" ELSE "refused")
    /\ UNCHANGED <<now, serverVars, store, browser, pair>>

IssueRotating(r) ==
    /\ pc[r] = "issuing"
    /\ pair' = [pair EXCEPT ![r] = Issued(pair[r])]
    /\ blacklist' = Blacklisting(pair[r])
    /\ Goto(r, "refreshed")
    /\ UNCHANGED <<now, boot, version, signouts, retired, store, browser>>
Issue(r) ==
    /\ pc[r] = "issuing"
    /\ pair' = [pair EXCEPT ![r] = Issued(pair[r])]
    /\ Goto(r, "refreshed")
    /\ UNCHANGED <<now, serverVars, store, browser>>

(***************************************************************************)
(* Signing out and changing the password, with an access token and the     *)
(* refresh token in the body.                                              *)
(***************************************************************************)
SignOut(r, b) ==
    /\ store[b] # NoPair
    /\ Authentic(store[b])
    /\ Begin(r, b, "blacklisting", store[b])

(* A token blacklisted before is an error, and the version stays.          *)
Blacklist(r) ==
    /\ pc[r] = "blacklisting"
    /\ IF RefreshExpired(pair[r]) \/ Blacklisted(pair[r])
       THEN Goto(r, "denied") /\ UNCHANGED <<blacklist, retired>>
       ELSE /\ blacklist' = Blacklisting(pair[r])
            /\ retired' = retired \cup {Claims(pair[r])}
            /\ Goto(r, "bumping")
    /\ UNCHANGED <<now, boot, version, signouts, store, browser, pair>>

(* F("session_version") + 1: counted in the database.                      *)
BumpInMemory(r) ==
    /\ pc[r] = "bumping"
    /\ version' = pair[r].version + 1
    /\ signouts' = signouts + 1
    /\ Goto(r, "signed_out")
    /\ UNCHANGED <<now, boot, blacklist, retired, store, browser, pair>>
Bump(r) ==
    /\ pc[r] = "bumping"
    /\ signouts < MaxSignOuts
    /\ version' = version + 1
    /\ signouts' = signouts + 1
    /\ Goto(r, "signed_out")
    /\ UNCHANGED <<now, boot, blacklist, retired, store, browser, pair>>

ChangePassword(r, b) ==
    /\ store[b] # NoPair
    /\ Authentic(store[b])
    /\ Begin(r, b, "retiring", store[b])

(* The refresh token is blacklisted if it can be; errors are swallowed.    *)
Retire(r) ==
    /\ pc[r] = "retiring"
    /\ IF RefreshExpired(pair[r]) \/ Blacklisted(pair[r])
       THEN UNCHANGED <<blacklist, retired>>
       ELSE /\ blacklist' = Blacklisting(pair[r])
            /\ retired' = retired \cup {Claims(pair[r])}
    /\ Goto(r, "signed_out")
    /\ UNCHANGED <<now, boot, version, signouts, store, browser, pair>>

(***************************************************************************)
(* Any other call of the API: 401 makes the browser drop what it stores.   *)
(***************************************************************************)
Call(r, b) ==
    /\ store[b] # NoPair
    /\ ~AccessExpired(store[b])
    /\ Begin(r, b, "calling", store[b])

Authenticate(r) ==
    /\ pc[r] = "calling"
    /\ Goto(r, IF Authentic(pair[r]) THEN "accepted" ELSE "rejected")
    /\ UNCHANGED <<now, serverVars, store, browser, pair>>

(***************************************************************************)
(* What the browser does with the response.                                *)
(***************************************************************************)
Deliver(r) == pc[r] \in {"signed_in", "refreshed"} /\ End(r, pair[r])
Drop(r) == pc[r] \in {"signed_out", "refused", "rejected"} /\ End(r, NoPair)
Ignore(r) == pc[r] \in {"accepted", "denied"} /\ End(r, store[browser[r]])

(* No response arrives: a refresh drops the pair, any other call keeps it. *)
Lose(r) == pc[r] \in {"refreshed", "unrefreshed"} /\ End(r, NoPair)
Forget(r) == pc[r] \in {"signed_in", "signed_out", "unanswered"}
             /\ End(r, store[browser[r]])

(* The server process is replaced: the cache is empty, requests fail.      *)
Restart ==
    /\ boot < MaxBoots
    /\ boot' = boot + 1
    /\ blacklist' = {} /\ retired' = {}
    /\ pc' = [r \in Requests |->
                CASE pc[r] \in {"refreshing", "comparing", "issuing"} -> "unrefreshed"
                  [] pc[r] \in {"signing_in", "blacklisting", "bumping",
                                "retiring", "calling"} -> "unanswered"
                  [] OTHER -> pc[r]]
    /\ UNCHANGED <<now, version, signouts, store, browser, pair>>

Tick ==
    /\ now < MaxTime
    /\ now' = now + 1
    /\ UNCHANGED <<serverVars, store, pc, browser, pair>>

Step(r) ==
    \/ \E b \in Browsers : \/ SignIn(r, b) \/ Refresh(r, b) \/ SignOut(r, b)
                           \/ ChangePassword(r, b) \/ Call(r, b)
    \/ IssueFirst(r) \/ LookUp(r) \/ Compare(r) \/ Issue(r) \/ Blacklist(r)
    \/ Bump(r) \/ Retire(r) \/ Authenticate(r)
    \/ Deliver(r) \/ Drop(r) \/ Ignore(r) \/ Lose(r) \/ Forget(r)

Next == Restart \/ Tick \/ \E r \in Requests : Step(r)

Spec == Init /\ [][Next]_vars

-----------------------------------------------------------------------------
Locations == {"idle", "signing_in", "signed_in", "refreshing", "comparing", "issuing",
              "refreshed", "unrefreshed", "refused", "blacklisting", "bumping",
              "denied", "retiring", "signed_out", "calling", "accepted",
              "rejected", "unanswered"}

PairType == [version : Nat, at : Nat, since : Nat]
ClaimsType == [version : Nat, at : Nat]

TypeOK ==
    /\ now \in Nat /\ boot \in Nat
    /\ version \in Nat /\ signouts \in Nat
    /\ blacklist \subseteq [claims : ClaimsType, until : Nat]
    /\ retired \subseteq ClaimsType
    /\ store \in [Browsers -> PairType]
    /\ pc \in [Requests -> Locations]
    /\ browser \in [Requests -> Browsers]
    /\ pair \in [Requests -> PairType]

(* A pair the server still takes descends from credentials that were       *)
(* checked after the user's last sign-out: no refresh or sign-in that was  *)
(* under way, no second browser, no late response and no restart keeps a   *)
(* session alive across one (logout/http.py:35, services.py:318).          *)
SignedOutStaysOut ==
    /\ \A b \in Browsers :
          store[b].version = version => store[b].since = signouts
    /\ \A r \in Requests :
          pc[r] # "idle" /\ pair[r].version = version => pair[r].since = signouts

(* A refresh token that was blacklisted buys no new pair as long as the    *)
(* server process lives: the cache entry lasts as long as the token        *)
(* (logout/adapters.py:15-21).                                             *)
RetiredStaysRetired ==
    [][\A r \in Requests :
          pc[r] = "refreshing" /\ pc'[r] = "comparing"
          => Claims(pair[r]) \notin retired]_vars

(* A refresh is refused, and the browser drops its pair, only if the session *)
(* is over: tabs that refresh at the same time do not sign each other out     *)
(* (a refreshed token is not blacklisted, services.py:306-333).            *)
RefusedOnlyWhenOver ==
    [][\A r \in Requests :
          pc[r] \in {"refreshing", "comparing"} /\ pc'[r] = "refused"
          => \/ pair[r].since # signouts
             \/ RefreshExpired(pair[r])
             \/ Claims(pair[r]) \in retired]_vars
=============================================================================
