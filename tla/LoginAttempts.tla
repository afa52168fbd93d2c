--------------------------- MODULE LoginAttempts ---------------------------
(***************************************************************************)
(* The wrong passwords of one e-mail address: DjangoLoginFailureTracker    *)
(* counts them in the cache of the server process, and a login looks at    *)
(* the count before it checks the password.  Between the two any number of *)
(* other logins may run, and the entry may expire between the cache calls  *)
(* of one of them.                                                         *)
(***************************************************************************)
EXTENDS Integers, FiniteSets, Sequences

CONSTANTS Logins,        (* requests for the address, one after another each *)
          LoginLimit,    (* LOGIN_FAILURE_LIMIT                              *)
          LoginWindow,   (* LOGIN_RATE_LIMIT_WINDOW_SECONDS                  *)
          LoginHorizon   (* bound: the clock stops here                      *)

ASSUME LoginAssumption ==
    /\ IsFiniteSet(Logins)
    /\ LoginLimit \in Nat \ {0} /\ LoginWindow \in Nat \ {0} /\ LoginHorizon \in Nat

VARIABLES
    moment,     (* seconds                                                   *)
    tally,      (* the cache entry: failures counted, and when it expires    *)
    spot,       (* where each login is                                       *)
    guesses,    (* history: failures counted in the entry's life             *)
    failedAt,   (* history: when failures were counted, since the start or   *)
                (* the last successful login                                 *)
    reopened,   (* history: a count was written over in the entry's life     *)
    refusal     (* was the last step a refusal                               *)

historyVars == <<guesses, failedAt, reopened>>
loginVars == <<moment, tally, spot, historyVars, refusal>>

NoTally == [count |-> 0, until |-> 0]
TallyLives == moment < tally.until

LoginInit ==
    /\ moment = 0
    /\ tally = NoTally
    /\ spot = [r \in Logins |-> "out"]
    /\ guesses = 0 /\ failedAt = <<>> /\ reopened = FALSE
    /\ refusal = FALSE

Moves(r, from, to) ==
    /\ spot[r] = from
    /\ spot' = [spot EXCEPT ![r] = to]
    /\ UNCHANGED moment

FailureCounted(n) ==
    /\ guesses' = n
    /\ failedAt' = Append(failedAt, moment)

-----------------------------------------------------------------------------
(* is_rate_limited *)
RateLimitedLate == TallyLives /\ tally.count > LoginLimit
RateLimited == TallyLives /\ tally.count >= LoginLimit
AskLogin(r) ==
    /\ Moves(r, "out", IF RateLimited THEN "out" ELSE "password")
    /\ refusal' = RateLimited
    /\ UNCHANGED <<tally, historyVars>>

(* The user is looked up and the password checked: unknown, unverified or  *)
(* wrong is a failure to be recorded; else tokens are made, which may fail.*)
TryPassword(r) ==
    /\ \E outcome \in {"adding", "resetting", "out"} : Moves(r, "password", outcome)
    /\ refusal' = FALSE
    /\ UNCHANGED <<tally, historyVars>>

(* record_failure: add starts an entry at 0 unless there is one, incr      *)
(* keeps its expiry.                                                       *)
AddTally(r) ==
    /\ Moves(r, "adding", "bumping")
    /\ tally' = IF TallyLives THEN tally
                ELSE [count |-> 0, until |-> moment + LoginWindow]
    /\ guesses' = IF TallyLives THEN guesses ELSE 0
    /\ reopened' = (reopened /\ TallyLives)
    /\ refusal' = FALSE
    /\ UNCHANGED failedAt

BumpTally(r) ==
    /\ TallyLives
    /\ Moves(r, "bumping", "out")
    /\ tally' = [tally EXCEPT !.count = @ + 1]
    /\ FailureCounted(guesses + 1)
    /\ refusal' = FALSE
    /\ UNCHANGED reopened

(* The entry expired or was deleted since: ValueError. *)
BumpTallyFails(r) ==
    /\ ~TallyLives
    /\ Moves(r, "bumping", "setting")
    /\ refusal' = FALSE
    /\ UNCHANGED <<tally, historyVars>>

(* set: whatever is there by now is written over. *)
SetTally(r) ==
    /\ Moves(r, "setting", "out")
    /\ tally' = [count |-> 1, until |-> moment + LoginWindow]
    /\ reopened' = TallyLives
    /\ FailureCounted(IF TallyLives THEN guesses + 1 ELSE 1)
    /\ refusal' = FALSE

(* reset_failures *)
ResetTally(r) ==
    /\ Moves(r, "resetting", "out")
    /\ tally' = NoTally
    /\ guesses' = 0 /\ failedAt' = <<>> /\ reopened' = FALSE
    /\ refusal' = FALSE

-----------------------------------------------------------------------------
LoginTick ==
    /\ moment < LoginHorizon
    /\ moment' = moment + 1
    /\ refusal' = FALSE
    /\ UNCHANGED <<tally, spot, historyVars>>

(* The cache and the requests go with the server process. *)
LoginRestart ==
    /\ tally' = NoTally
    /\ spot' = [r \in Logins |-> "out"]
    /\ guesses' = 0 /\ failedAt' = <<>> /\ reopened' = FALSE
    /\ refusal' = FALSE
    /\ UNCHANGED moment

LoginNext ==
    \/ \E r \in Logins :
          \/ AskLogin(r) \/ TryPassword(r) \/ AddTally(r) \/ BumpTally(r)
          \/ BumpTallyFails(r) \/ SetTally(r) \/ ResetTally(r)
    \/ LoginTick \/ LoginRestart

LoginSpec == LoginInit /\ [][LoginNext]_loginVars

-----------------------------------------------------------------------------
LoginTypeOK ==
    /\ moment \in 0 .. LoginHorizon
    /\ tally \in [count : Nat, until : Nat]
    /\ spot \in [Logins -> {"out", "password", "adding", "bumping", "setting",
                            "resetting"}]
    /\ guesses \in Nat /\ failedAt \in Seq(Nat)
    /\ reopened \in BOOLEAN /\ refusal \in BOOLEAN

(* "Too many failed attempts": whoever is refused, LoginLimit failures     *)
(* were counted within the window before, since the server started and the *)
(* last login that succeeded; no interleaving of the cache calls invents   *)
(* one.                                                                    *)
RefusalEarned ==
    refusal =>
        /\ Len(failedAt) >= LoginLimit
        /\ failedAt[Len(failedAt) - LoginLimit + 1] > moment - LoginWindow

(* The logins that had passed the check when the limit was reached may     *)
(* still fail, and no more: in the life of an entry fewer than LoginLimit  *)
(* and as many as can run at once are counted, unless one that found the   *)
(* entry expired wrote over the count of another.                          *)
GuessesBounded ==
    TallyLives /\ ~reopened => guesses < LoginLimit + Cardinality(Logins)

AttemptsLimited == RefusalEarned /\ GuessesBounded
=============================================================================
