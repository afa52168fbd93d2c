--------------------------- MODULE SessionProofs ---------------------------
(***************************************************************************)
(* What holds of any number of browsers and requests, of any lifetimes of  *)
(* the tokens and over any number of restarts: no session outlives a       *)
(* sign-out, a retired refresh token stays retired, and a refresh is       *)
(* refused only when the session is over.  And of the history page of who  *)
(* is signed in: what it shows is true.                                    *)
(***************************************************************************)
EXTENDS Session, HistoryPage, FiniteSetTheorems, FunctionTheorems,
        SequenceTheorems, TLAPS

(* A pair carries the version that its sign-in found.                      *)
Sound(p) == p.version = p.since + 1

Versioned ==
    /\ version = signouts + 1
    /\ \A b \in Browsers : store[b] = NoPair \/ Sound(store[b])
    /\ \A r \in Requests : pc[r] # "idle" => Sound(pair[r])

(* The blacklist has an entry of every retired token, that lasts as long   *)
(* as the token, and no other.                                             *)
Listed ==
    /\ \A e \in blacklist : e.claims \in retired
    /\ \A c \in retired : \E e \in blacklist :
          e.claims = c /\ e.until >= c.at + RefreshLife

SessionInv == TypeOK /\ Versioned /\ Listed

-----------------------------------------------------------------------------
LEMMA SomeBrowserIsOne == SomeBrowser \in Browsers
BY SessionAssumption DEF SomeBrowser

LEMMA NoPairType == NoPair \in PairType
BY DEF NoPair, PairType

(* A request starts: the server is as before, and the request carries a    *)
(* sound pair.                                                             *)
LEMMA BeginKeeps ==
    ASSUME SessionInv, NEW r \in Requests, NEW b \in Browsers,
           NEW l \in Locations \ {"idle"}, NEW p \in PairType, Sound(p), Begin(r, b, l, p)
    PROVE  SessionInv'
<1>1. /\ pc' = [pc EXCEPT ![r] = l] /\ browser' = [browser EXCEPT ![r] = b]
      /\ pair' = [pair EXCEPT ![r] = p]
      /\ UNCHANGED <<now, boot, version, signouts, blacklist, retired, store>>
  BY DEF Begin, Goto, serverVars
<1>2. TypeOK'
  BY <1>1 DEF SessionInv, TypeOK
<1>3. Versioned'
  BY <1>1 DEF SessionInv, Versioned, TypeOK, Sound
<1>4. Listed'
  BY <1>1 DEF SessionInv, Listed
<1> QED
  BY <1>2, <1>3, <1>4 DEF SessionInv

(* A request ends: its browser stores a sound pair or none.                *)
LEMMA EndKeeps ==
    ASSUME SessionInv, NEW r \in Requests, NEW p \in PairType,
           p = NoPair \/ Sound(p), End(r, p)
    PROVE  SessionInv'
<1>1. /\ store' = [store EXCEPT ![browser[r]] = p]
      /\ pc' = [pc EXCEPT ![r] = "idle"]
      /\ browser' = [browser EXCEPT ![r] = SomeBrowser]
      /\ pair' = [pair EXCEPT ![r] = NoPair]
      /\ UNCHANGED <<now, boot, version, signouts, blacklist, retired>>
  BY DEF End, Goto, serverVars
<1>2. TypeOK'
  BY <1>1, SomeBrowserIsOne, NoPairType DEF SessionInv, TypeOK, Locations
<1>3. Versioned'
  BY <1>1 DEF SessionInv, Versioned, TypeOK, Sound
<1>4. Listed'
  BY <1>1 DEF SessionInv, Listed
<1> QED
  BY <1>2, <1>3, <1>4 DEF SessionInv

(* A request goes on within the server, with the pair it had or a fresh    *)
(* one of the same version.                                                *)
LEMMA GoOnKeeps ==
    ASSUME SessionInv, NEW r \in Requests, NEW l \in Locations, pc[r] # "idle",
           NEW p \in {pair[r], Issued(pair[r])},
           pc' = [pc EXCEPT ![r] = l], pair' = [pair EXCEPT ![r] = p],
           UNCHANGED <<now, serverVars, store, browser>>
    PROVE  SessionInv'
<1>1. pair[r] \in PairType /\ now \in Nat
  BY DEF SessionInv, TypeOK
<1>2. p \in PairType /\ p.version = pair[r].version /\ p.since = pair[r].since
  BY <1>1 DEF Issued, PairType
<1>3. Sound(p)
  BY <1>2 DEF SessionInv, Versioned, Sound
<1>4. UNCHANGED <<boot, version, signouts, blacklist, retired>>
  BY DEF serverVars
<1>5. TypeOK'
  BY <1>2, <1>4 DEF SessionInv, TypeOK
<1>6. Versioned'
  <2>1. \A q \in Requests : pc'[q] # "idle" => Sound(pair'[q])
    <3> SUFFICES ASSUME NEW q \in Requests, pc'[q] # "idle" PROVE Sound(pair'[q])
      OBVIOUS
    <3>1. CASE q = r
      <4>1. pair'[q] = p
        BY <3>1 DEF SessionInv, TypeOK
      <4> QED
        BY <4>1, <1>3
    <3>2. CASE q # r
      <4>1. pair'[q] = pair[q] /\ pc'[q] = pc[q]
        BY <3>2 DEF SessionInv, TypeOK
      <4> QED
        BY <4>1 DEF SessionInv, Versioned
    <3> QED
      BY <3>1, <3>2
  <2> QED
    BY <2>1, <1>4 DEF SessionInv, Versioned
<1>7. Listed'
  BY <1>4 DEF SessionInv, Listed
<1> QED
  BY <1>5, <1>6, <1>7 DEF SessionInv

(* Blacklisting a token that is not, lists it for as long as it lives.     *)
LEMMA BlacklistingLists ==
    ASSUME SessionInv, NEW p \in PairType,
           blacklist' = Blacklisting(p), retired' = retired \cup {Claims(p)}
    PROVE  /\ Listed'
           /\ blacklist' \subseteq [claims : ClaimsType, until : Nat]
           /\ retired' \subseteq ClaimsType
<1> DEFINE entry == [claims |-> Claims(p), until |-> p.at + RefreshLife]
<1>1. Claims(p) \in ClaimsType /\ Claims(p).at = p.at
  BY DEF Claims, ClaimsType, PairType
<1>2. entry \in [claims : ClaimsType, until : Nat]
  BY <1>1, SessionAssumption DEF PairType
<1>3. blacklist' = blacklist \cup {entry}
  BY DEF Blacklisting
<1>4. entry.claims = Claims(p) /\ entry.until >= Claims(p).at + RefreshLife
  BY <1>1, SessionAssumption DEF PairType
<1> HIDE DEF entry
<1>5. \A e \in blacklist' : e.claims \in retired'
  BY <1>3, <1>4 DEF SessionInv, Listed
<1>6. \A c \in retired' : \E e \in blacklist' :
          e.claims = c /\ e.until >= c.at + RefreshLife
  BY <1>3, <1>4 DEF SessionInv, Listed
<1> QED
  BY <1>1, <1>2, <1>3, <1>5, <1>6 DEF SessionInv, TypeOK, Listed

(* One step keeps the invariant.                                           *)
LEMMA SessionStep == SessionInv /\ [Next]_vars => SessionInv'
<1> SUFFICES ASSUME SessionInv, [Next]_vars PROVE SessionInv'
  OBVIOUS
<1>1. CASE UNCHANGED vars
  BY <1>1 DEF vars, serverVars, SessionInv, TypeOK, Versioned, Listed
<1>2. CASE Tick
  BY <1>2 DEF Tick, serverVars, SessionInv, TypeOK, Versioned, Listed
<1>3. CASE Restart
  <2>1. /\ blacklist' = {} /\ retired' = {} /\ boot' = boot + 1
        /\ UNCHANGED <<now, version, signouts, store, browser, pair>>
    BY <1>3 DEF Restart
  <2>2. pc' \in [Requests -> Locations]
    BY <1>3 DEF Restart, SessionInv, TypeOK, Locations
  <2>3. \A r \in Requests : pc'[r] # "idle" => pc[r] # "idle"
    BY <1>3 DEF Restart
  <2>4. TypeOK'
    BY <2>1, <2>2 DEF SessionInv, TypeOK
  <2>5. Versioned'
    BY <2>1, <2>3 DEF SessionInv, Versioned
  <2>6. Listed'
    BY <2>1 DEF Listed
  <2> QED
    BY <2>4, <2>5, <2>6 DEF SessionInv
<1>4. ASSUME NEW r \in Requests, Step(r) PROVE SessionInv'
  <2>0. /\ pair[r] \in PairType /\ store \in [Browsers -> PairType]
        /\ browser[r] \in Browsers /\ store[browser[r]] \in PairType
    BY DEF SessionInv, TypeOK
  <2>1. ASSUME NEW b \in Browsers, SignIn(r, b) PROVE SessionInv'
    <3> DEFINE p == [version |-> version, at |-> 0, since |-> signouts]
    <3>1. p \in PairType /\ Sound(p)
      BY DEF SessionInv, TypeOK, Versioned, PairType, Sound
    <3>2. Begin(r, b, "signing_in", p)
      BY <2>1 DEF SignIn
    <3> HIDE DEF p
    <3> QED
      BY <3>1, <3>2, BeginKeeps DEF Locations
  <2>2. ASSUME NEW b \in Browsers, NEW l \in Locations \ {"idle"}, store[b] # NoPair,
               Begin(r, b, l, store[b])
        PROVE  SessionInv'
    <3>1. store[b] \in PairType /\ Sound(store[b])
      BY <2>2 DEF SessionInv, TypeOK, Versioned
    <3> QED
      BY <2>2, <3>1, BeginKeeps
  <2>3. ASSUME NEW b \in Browsers,
               Refresh(r, b) \/ SignOut(r, b) \/ ChangePassword(r, b) \/ Call(r, b)
        PROVE  SessionInv'
    <3>1. PICK l \in {"refreshing", "blacklisting", "retiring", "calling"} :
              store[b] # NoPair /\ Begin(r, b, l, store[b])
      BY <2>3 DEF Refresh, SignOut, ChangePassword, Call
    <3>2. l \in Locations \ {"idle"}
      BY DEF Locations
    <3> QED
      BY <2>2, <3>1, <3>2
  <2>4. ASSUME NEW l \in Locations, pc[r] # "idle",
               NEW p \in {pair[r], Issued(pair[r])},
               pc' = [pc EXCEPT ![r] = l], pair' = [pair EXCEPT ![r] = p],
               UNCHANGED <<now, serverVars, store, browser>>
        PROVE  SessionInv'
    BY <2>4, GoOnKeeps
  <2>5. pair = [pair EXCEPT ![r] = pair[r]]
    BY DEF SessionInv, TypeOK
  <2>6. CASE IssueFirst(r)
    BY <2>6, <2>4 DEF IssueFirst, Goto, Locations
  <2>7. CASE LookUp(r)
    BY <2>7, <2>4, <2>5 DEF LookUp, Goto, Locations
  <2>8. CASE Compare(r)
    BY <2>8, <2>4, <2>5 DEF Compare, Goto, Locations
  <2>9. CASE Issue(r)
    BY <2>9, <2>4 DEF Issue, Goto, Locations
  <2>10. CASE Authenticate(r)
    BY <2>10, <2>4, <2>5 DEF Authenticate, Goto, Locations
  <2>11. CASE Blacklist(r) \/ Retire(r)
    <3>1. /\ pc[r] # "idle"
          /\ UNCHANGED <<now, boot, version, signouts, store, browser, pair>>
      BY <2>11 DEF Blacklist, Retire
    <3>2. PICK l \in Locations : pc' = [pc EXCEPT ![r] = l]
      BY <2>11 DEF Blacklist, Retire, Goto, Locations
    <3>3. \/ UNCHANGED <<blacklist, retired>>
          \/ blacklist' = Blacklisting(pair[r]) /\ retired' = retired \cup {Claims(pair[r])}
      BY <2>11 DEF Blacklist, Retire
    <3>4. /\ Listed'
          /\ blacklist' \subseteq [claims : ClaimsType, until : Nat]
          /\ retired' \subseteq ClaimsType
      <4>1. CASE UNCHANGED <<blacklist, retired>>
        BY <4>1 DEF SessionInv, TypeOK, Listed
      <4>2. CASE blacklist' = Blacklisting(pair[r]) /\ retired' = retired \cup {Claims(pair[r])}
        BY <4>2, <2>0, BlacklistingLists
      <4> QED
        BY <3>3, <4>1, <4>2
    <3>5. TypeOK'
      BY <3>1, <3>2, <3>4 DEF SessionInv, TypeOK
    <3>6. Versioned'
      BY <3>1, <3>2 DEF SessionInv, TypeOK, Versioned
    <3> QED
      BY <3>4, <3>5, <3>6 DEF SessionInv
  <2>12. CASE Bump(r)
    <3>1. /\ pc[r] = "bumping" /\ version' = version + 1 /\ signouts' = signouts + 1
          /\ pc' = [pc EXCEPT ![r] = "signed_out"]
          /\ UNCHANGED <<now, boot, blacklist, retired, store, browser, pair>>
      BY <2>12 DEF Bump, Goto
    <3>2. TypeOK'
      BY <3>1 DEF SessionInv, TypeOK, Locations
    <3>3. Versioned'
      BY <3>1 DEF SessionInv, TypeOK, Versioned
    <3>4. Listed'
      BY <3>1 DEF SessionInv, Listed
    <3> QED
      BY <3>2, <3>3, <3>4 DEF SessionInv
  <2>13. CASE Deliver(r)
    <3>1. Sound(pair[r]) /\ End(r, pair[r])
      BY <2>13 DEF Deliver, SessionInv, Versioned
    <3> QED
      BY <3>1, <2>0, EndKeeps
  <2>14. CASE Drop(r) \/ Lose(r)
    <3>1. End(r, NoPair)
      BY <2>14 DEF Drop, Lose
    <3> QED
      BY <3>1, NoPairType, EndKeeps
  <2>15. CASE Ignore(r) \/ Forget(r)
    <3>1. End(r, store[browser[r]])
      BY <2>15 DEF Ignore, Forget
    <3>2. store[browser[r]] = NoPair \/ Sound(store[browser[r]])
      BY <2>0 DEF SessionInv, Versioned
    <3> QED
      BY <3>1, <3>2, <2>0, EndKeeps
  <2> QED
    BY <1>4, <2>1, <2>3, <2>6, <2>7, <2>8, <2>9, <2>10, <2>11, <2>12, <2>13, <2>14, <2>15
       DEF Step
<1> QED
  BY <1>1, <1>2, <1>3, <1>4 DEF Next

(* The invariant holds throughout.                                         *)
LEMMA SessionInvariant == Spec => []SessionInv
<1>1. Init => SessionInv
  <2> SUFFICES ASSUME Init PROVE SessionInv
    OBVIOUS
  <2>1. TypeOK
    BY SomeBrowserIsOne, NoPairType DEF Init, TypeOK, Locations
  <2>2. Versioned
    BY DEF Init, Versioned
  <2>3. Listed
    BY DEF Init, Listed
  <2> QED
    BY <2>1, <2>2, <2>3 DEF SessionInv
<1> QED
  BY <1>1, SessionStep, PTL DEF Spec

-----------------------------------------------------------------------------
(* No pair that the server still takes is from before the user's last      *)
(* sign-out (logout/http.py:35, services.py:330).                          *)
THEOREM NoSessionOutlivesSignOut == Spec => []SignedOutStaysOut
<1>1. SessionInv => SignedOutStaysOut
  <2> SUFFICES ASSUME SessionInv PROVE SignedOutStaysOut
    OBVIOUS
  <2>1. version \in Nat /\ signouts \in Nat /\ version = signouts + 1
    BY DEF SessionInv, TypeOK, Versioned
  <2>2. ASSUME NEW p \in PairType, p = NoPair \/ Sound(p), p.version = version
        PROVE  p.since = signouts
    BY <2>1, <2>2 DEF NoPair, Sound, PairType
  <2>3. \A b \in Browsers : store[b] \in PairType /\ (store[b] = NoPair \/ Sound(store[b]))
    BY DEF SessionInv, TypeOK, Versioned
  <2>4. \A r \in Requests : pair[r] \in PairType /\ (pc[r] # "idle" => Sound(pair[r]))
    BY DEF SessionInv, TypeOK, Versioned
  <2> QED
    BY <2>2, <2>3, <2>4 DEF SignedOutStaysOut
<1> QED
  BY <1>1, SessionInvariant, PTL

(* While a server process lives, a refresh token it blacklisted buys no    *)
(* new pair (logout/adapters.py:15-21).                                    *)
THEOREM RetiredTokensStayRetired == Spec => RetiredStaysRetired
<1>1. SessionInv /\ [Next]_vars =>
        [\A r \in Requests : pc[r] = "refreshing" /\ pc'[r] = "comparing"
            => Claims(pair[r]) \notin retired]_vars
  <2> SUFFICES ASSUME SessionInv, Next, NEW r \in Requests,
                      pc[r] = "refreshing", pc'[r] = "comparing",
                      Claims(pair[r]) \in retired
               PROVE  FALSE
    BY DEF vars
  <2>1. ~RefreshExpired(pair[r]) /\ ~Blacklisted(pair[r])
    <3>1. ~Restart /\ ~Tick
      BY DEF Restart, Tick
    <3>2. PICK q \in Requests : Step(q)
      BY <3>1 DEF Next
    <3>3. PICK l \in Locations : pc' = [pc EXCEPT ![q] = l]
      BY <3>2 DEF Step, SignIn, Refresh, SignOut, ChangePassword, Call, Begin, IssueFirst,
                  LookUp, Compare, Issue, Blacklist, Bump, Retire, Authenticate, Deliver,
                  Drop, Ignore, Lose, Forget, End, Goto, Locations
    <3>4. q = r
      BY <3>3 DEF SessionInv, TypeOK
    <3>5. LookUp(r)
      BY <3>2, <3>4 DEF Step, SignIn, Refresh, SignOut, ChangePassword, Call, Begin,
                  IssueFirst, LookUp, Compare, Issue, Blacklist, Bump, Retire, Authenticate,
                  Deliver, Drop, Ignore, Lose, Forget
    <3> QED
      BY <3>5 DEF LookUp, Goto, SessionInv, TypeOK
  <2>2. PICK e \in blacklist : e.claims = Claims(pair[r])
                               /\ e.until >= Claims(pair[r]).at + RefreshLife
    BY DEF SessionInv, Listed
  <2>3. e.until \in Nat /\ now \in Nat /\ pair[r].at \in Nat
    BY DEF SessionInv, TypeOK, PairType
  <2>4. Claims(pair[r]).at = pair[r].at
    BY DEF Claims
  <2>5. now < e.until
    BY <2>1, <2>2, <2>3, <2>4, SessionAssumption DEF RefreshExpired
  <2> QED
    BY <2>1, <2>2, <2>5 DEF Blacklisted
<1> QED
  BY <1>1, SessionInvariant, PTL DEF Spec, RetiredStaysRetired

(* A refresh is refused only if its session is over (services.py:306-333). *)
THEOREM RefusalsMeanOver == Spec => RefusedOnlyWhenOver
<1>1. SessionInv /\ [Next]_vars =>
        [\A r \in Requests :
            pc[r] \in {"refreshing", "comparing"} /\ pc'[r] = "refused"
            => \/ pair[r].since # signouts
               \/ RefreshExpired(pair[r])
               \/ Claims(pair[r]) \in retired]_vars
  <2> SUFFICES ASSUME SessionInv, Next, NEW r \in Requests,
                      pc[r] \in {"refreshing", "comparing"}, pc'[r] = "refused"
               PROVE  \/ pair[r].since # signouts
                      \/ RefreshExpired(pair[r])
                      \/ Claims(pair[r]) \in retired
    BY DEF vars
  <2>1. ~Restart /\ ~Tick
    BY DEF Restart, Tick
  <2>2. PICK q \in Requests : Step(q)
    BY <2>1 DEF Next
  <2>3. PICK l \in Locations : pc' = [pc EXCEPT ![q] = l]
    BY <2>2 DEF Step, SignIn, Refresh, SignOut, ChangePassword, Call, Begin, IssueFirst,
                LookUp, Compare, Issue, Blacklist, Bump, Retire, Authenticate, Deliver,
                Drop, Ignore, Lose, Forget, End, Goto, Locations
  <2>4. q = r
    BY <2>3 DEF SessionInv, TypeOK
  <2>5. LookUp(r) \/ Compare(r)
    BY <2>2, <2>4 DEF Step, SignIn, Refresh, SignOut, ChangePassword, Call, Begin,
                IssueFirst, LookUp, Compare, Issue, Blacklist, Bump, Retire, Authenticate,
                Deliver, Drop, Ignore, Lose, Forget
  <2>6. CASE LookUp(r)
    <3>1. RefreshExpired(pair[r]) \/ Blacklisted(pair[r])
      BY <2>6 DEF LookUp, Goto, SessionInv, TypeOK
    <3> QED
      BY <3>1 DEF Blacklisted, SessionInv, Listed
  <2>7. CASE Compare(r)
    <3>1. pair[r].version # version
      BY <2>7 DEF Compare, Goto, SessionInv, TypeOK
    <3>2. Sound(pair[r]) /\ version = signouts + 1
      BY DEF SessionInv, Versioned
    <3> QED
      BY <3>1, <3>2 DEF Sound
  <2> QED
    BY <2>5, <2>6, <2>7
<1> QED
  BY <1>1, SessionInvariant, PTL DEF Spec, RefusedOnlyWhenOver

-----------------------------------------------------------------------------
(***************************************************************************)
(* The history page.  That it shows no session twice and none it deleted   *)
(* is not inductive: the answers gathered so far may hold what is shown    *)
(* next.  HistInv says the same of them, that nothing was deleted and no   *)
(* change is under way while they are gathered, that titles only grow, and *)
(* of the requests of the two hooks, that only the last effect's are       *)
(* active and are of the session followed.                                 *)
(***************************************************************************)

Items == [id : HistorySessions, title : Nat]

ListOK(q, titles) ==
    /\ \A i, j \in 1 .. Len(q) : q[i].id = q[j].id => i = j
    /\ \A i \in 1 .. Len(q) : q[i].title <= titles[q[i].id]

HistTypes ==
    /\ stored \in Seq(HistorySessions)
    /\ title \in [HistorySessions -> Nat] /\ renames \in Nat
    /\ listed \in Seq(Items) /\ loading.sofar \in Seq(Items) /\ loading.count \in Nat
    /\ effect \in Nat

(* The rows of the server.                                                 *)
RowsApart ==
    /\ \A i, j \in 1 .. Len(stored) : stored[i] = stored[j] => i = j
    /\ \A s \in buried : \A i \in 1 .. Len(stored) : stored[i] # s
    /\ \A s \in HistorySessions : title[s] <= renames

(* What the page gathers and shows.                                        *)
ListsApart ==
    /\ ListOK(listed, title) /\ ListOK(loading.sofar, title)
    /\ loading.sofar # <<>> => loading.count <= Len(loading.sofar)
    /\ loading.on \/ loadError => mutation = Idle /\ erased = {}
    /\ \A i \in 1 .. Len(listed) : listed[i].id \notin erased

(* A rename that was done gave a title no later than the session's.        *)
TitleGiven ==
    mutation.kind = "rename" /\ mutation.at = "done" =>
        /\ mutation.on \in HistorySessions
        /\ mutation.given \in Nat /\ mutation.given <= title[mutation.on]

(* The requests of the last effect.                                        *)
LastEffectOnly ==
    \A f \in fetches :
        /\ f.effect \in Nat /\ f.effect <= effect
        /\ f.effect = effect => f.on = followed

HistInv ==
    HistTypes /\ RowsApart /\ ListsApart /\ TitleGiven /\ LastEffectOnly /\ DetailTrue

-----------------------------------------------------------------------------
(* The n-th of the places counted from below is there, so that what is     *)
(* filtered out of a list keeps its order and loses nothing else.          *)
LEMMA NthPlace ==
    ASSUME NEW places, IsFiniteSet(places), places \subseteq Nat
    PROVE  \A n \in 1 .. Cardinality(places) :
              \E i \in places : Cardinality({j \in places : j <= i}) = n
<1> DEFINE upto(i) == {j \in places : j <= i}
           c == Cardinality(places)
           rank == [i \in places |-> Cardinality(upto(i))]
<1>1. \A i \in places : IsFiniteSet(upto(i)) /\ Cardinality(upto(i)) \in 1 .. c
  <2> TAKE i \in places
  <2>1. upto(i) \subseteq places /\ i \in upto(i)
    OBVIOUS
  <2>2. IsFiniteSet(upto(i)) /\ Cardinality(upto(i)) <= c /\ Cardinality(upto(i)) \in Nat
    BY <2>1, FS_Subset, FS_CardinalityType
  <2>3. Cardinality(upto(i)) # 0
    BY <2>1, <2>2, FS_EmptySet
  <2> HIDE DEF upto, c
  <2>4. c \in Nat
    BY FS_CardinalityType DEF c
  <2> QED  BY <2>2, <2>3, <2>4
<1>2. \A i, k \in places : Cardinality(upto(i)) = Cardinality(upto(k)) => i = k
  <2>1. ASSUME NEW i \in places, NEW k \in places, i < k
        PROVE  Cardinality(upto(i)) # Cardinality(upto(k))
    <3>0. i \in Nat /\ k \in Nat /\ k <= k /\ ~(k <= i) /\ \A j \in places : j <= i => j <= k
      BY <2>1
    <3>1. upto(i) \subseteq upto(k) /\ k \in upto(k) /\ k \notin upto(i)
      BY <3>0, Zenon
    <3>2. IsFiniteSet(upto(k))
      BY <1>1
    <3> HIDE DEF upto
    <3> QED  BY <3>1, <3>2, FS_Subset
  <2> HIDE DEF upto
  <2> QED  BY <2>1
<1> HIDE DEF upto
<1>3. c \in Nat /\ IsFiniteSet(1 .. c) /\ Cardinality(1 .. c) = c
  <2>1. c \in Nat
    BY FS_CardinalityType
  <2> QED  BY <2>1, FS_Interval
<1>4. rank \in Injection(places, 1 .. c)
  BY <1>1, <1>2 DEF Injection, IsInjective
<1>5. rank \in Surjection(places, 1 .. c)
  BY <1>3, <1>4, FS_Injection
<1>6. \A n \in 1 .. c : \E i \in places : rank[i] = n
  BY <1>5 DEF Surjection
<1> QED  BY <1>6 DEF upto

(* A list taken from another keeps each of its elements at most once, and  *)
(* none of other places.                                                   *)
TakenFrom(r, q, places) ==
    \E place \in [1 .. Len(r) -> places] :
        /\ \A m \in 1 .. Len(r) : r[m] = q[place[m]]
        /\ \A m, n \in 1 .. Len(r) : place[m] = place[n] => m = n

LEMMA FilteredFacts ==
    ASSUME NEW S, NEW q \in Seq(S), NEW places \in SUBSET (1 .. Len(q))
    PROVE  /\ Filtered(q, places) \in Seq(S)
           /\ TakenFrom(Filtered(q, places), q, places)
<1>1. Len(q) \in Nat /\ \A i \in 1 .. Len(q) : q[i] \in S
  BY LenProperties, ElementOfSeq
<1>2. IsFiniteSet(places) /\ places \subseteq Nat /\ Cardinality(places) \in Nat
  <2>1. IsFiniteSet(1 .. Len(q))
    BY <1>1, FS_Interval
  <2>2. IsFiniteSet(places)
    BY <2>1, FS_Subset
  <2> QED  BY <1>1, <2>2, FS_CardinalityType
<1> DEFINE c == Cardinality(places)
           rank(i) == Cardinality({j \in places : j <= i})
           place == [n \in 1 .. c |-> CHOOSE i \in places : rank(i) = n]
<1>3. \A n \in 1 .. c : \E i \in places : rank(i) = n
  BY <1>2, NthPlace
<1>4. \A n \in 1 .. c : place[n] \in places /\ rank(place[n]) = n
  <2> HIDE DEF rank
  <2> QED  BY <1>3
<1>5. Filtered(q, places) = [n \in 1 .. c |-> q[place[n]]]
  BY DEF Filtered
<1> HIDE DEF place, c, rank
<1>6. c \in Nat
  BY <1>2 DEF c
<1>7. \A n \in 1 .. c : q[place[n]] \in S
  BY <1>1, <1>4
<1>8. Filtered(q, places) \in Seq(S) /\ Len(Filtered(q, places)) = c
  BY <1>5, <1>6, <1>7
<1>9. place \in [1 .. c -> places]
  BY <1>4 DEF place
<1>10. \A m, n \in 1 .. c : place[m] = place[n] => m = n
  BY <1>4
<1>11. \A m \in 1 .. c : Filtered(q, places)[m] = q[place[m]]
  BY <1>5
<1> QED  BY <1>8, <1>9, <1>10, <1>11 DEF TakenFrom

-----------------------------------------------------------------------------
LEMMA ItemTyped ==
    ASSUME HistTypes, NEW s \in HistorySessions
    PROVE  Item(s) \in Items /\ Item(s).id = s /\ Item(s).title = title[s]
BY DEF HistTypes, Item, Items

LEMMA LaterTitles ==
    ASSUME NEW q \in Seq(Items), NEW t \in [HistorySessions -> Nat],
           NEW u \in [HistorySessions -> Nat],
           ListOK(q, t), \A s \in HistorySessions : t[s] <= u[s]
    PROVE  ListOK(q, u)
<1>0. \A i \in 1 .. Len(q) : q[i] \in Items
  BY ElementOfSeq
<1>1. \A i \in 1 .. Len(q) : q[i].id \in HistorySessions /\ q[i].title \in Nat
  BY <1>0 DEF Items
<1>2. \A i \in 1 .. Len(q) : q[i].title <= u[q[i].id]
  BY <1>1 DEF ListOK
<1> QED  BY <1>2 DEF ListOK

LEMMA WithoutFacts ==
    ASSUME HistTypes, RowsApart, NEW s
    PROVE  /\ Without(stored, s) \in Seq(HistorySessions)
           /\ \A i, j \in 1 .. Len(Without(stored, s)) :
                 Without(stored, s)[i] = Without(stored, s)[j] => i = j
           /\ \A i \in 1 .. Len(Without(stored, s)) :
                 Without(stored, s)[i] \notin buried /\ Without(stored, s)[i] # s
<1> DEFINE places == {i \in DOMAIN stored : stored[i] # s}
           w == Filtered(stored, places)
<1>1. stored \in Seq(HistorySessions) /\ DOMAIN stored = 1 .. Len(stored)
  BY LenProperties DEF HistTypes
<1>2. places \in SUBSET (1 .. Len(stored)) /\ Without(stored, s) = w
  BY <1>1 DEF Without
<1> HIDE DEF places
<1>3. w \in Seq(HistorySessions) /\ TakenFrom(w, stored, places)
  BY <1>1, <1>2, FilteredFacts
<1>4. PICK place \in [1 .. Len(w) -> places] :
        /\ \A m \in 1 .. Len(w) : w[m] = stored[place[m]]
        /\ \A m, n \in 1 .. Len(w) : place[m] = place[n] => m = n
  BY <1>3 DEF TakenFrom
<1> HIDE DEF w
<1>5. \A m \in 1 .. Len(w) : place[m] \in 1 .. Len(stored) /\ stored[place[m]] # s
  BY <1>1, <1>4 DEF places
<1>6. \A m, n \in 1 .. Len(w) : w[m] = w[n] => m = n
  BY <1>4, <1>5 DEF RowsApart
<1>7. \A m \in 1 .. Len(w) : w[m] \notin buried /\ w[m] # s
  BY <1>4, <1>5 DEF RowsApart
<1> QED  BY <1>2, <1>3, <1>6, <1>7

LEMMA BatchFacts ==
    ASSUME HistTypes, RowsApart
    PROVE  /\ Batch(0) \in Seq(Items) /\ Len(Batch(0)) \in Nat
           /\ ListOK(Batch(0), title)
<1>1. stored \in Seq(HistorySessions) /\ Len(stored) \in Nat
      /\ \A i \in 1 .. Len(stored) : stored[i] \in HistorySessions
  BY LenProperties, ElementOfSeq DEF HistTypes
<1> DEFINE upto == IF 0 + PageSize < Len(stored) THEN 0 + PageSize ELSE Len(stored)
           k == IF upto > 0 THEN upto - 0 ELSE 0
<1>2. k \in Nat /\ k <= Len(stored)
  BY <1>1, HistoryPageAssumption
<1>3. Batch(0) = [i \in 1 .. k |-> Item(stored[0 + i])]
  BY DEF Batch
<1> HIDE DEF k
<1>4. \A i \in 1 .. k : 0 + i = i /\ i \in 1 .. Len(stored)
  BY <1>1, <1>2
<1>5. \A i \in 1 .. k : /\ Item(stored[0 + i]) \in Items
                         /\ Item(stored[0 + i]).id = stored[i]
                         /\ Item(stored[0 + i]).title = title[stored[i]]
  BY <1>1, <1>4, ItemTyped
<1>6. Batch(0) \in Seq(Items) /\ Len(Batch(0)) = k
  BY <1>2, <1>3, <1>5
<1>7. \A i \in 1 .. k : Batch(0)[i] = Item(stored[0 + i])
  BY <1>3
<1>8. ASSUME NEW i \in 1 .. k, NEW j \in 1 .. k, Batch(0)[i].id = Batch(0)[j].id
      PROVE  i = j
  BY <1>4, <1>5, <1>7, <1>8 DEF RowsApart
<1>9. ASSUME NEW i \in 1 .. k PROVE Batch(0)[i].title <= title[Batch(0)[i].id]
  <2>1. title[stored[i]] \in Nat
    BY <1>1, <1>4 DEF HistTypes
  <2> QED  BY <2>1, <1>5, <1>7
<1> QED  BY <1>2, <1>6, <1>8, <1>9 DEF ListOK

-----------------------------------------------------------------------------
(* A change of the server's rows, of which the page knows nothing.         *)
LEMMA RowsMoved ==
    ASSUME HistInv, stored' \in Seq(HistorySessions), RowsApart', renames' \in Nat,
           title' \in [HistorySessions -> Nat],
           \A s \in HistorySessions : title[s] <= title'[s],
           mutation' = mutation \/ (mutation # Idle /\ TitleGiven'),
           UNCHANGED <<listed, loading, loadError, erased, detailVars>>
    PROVE  HistInv'
<1>1. HistTypes'
  BY DEF HistInv, HistTypes, detailVars
<1>2. ListOK(listed, title') /\ ListOK(loading.sofar, title')
  BY LaterTitles DEF HistInv, HistTypes, ListsApart
<1>3. ListsApart'
  BY <1>2 DEF HistInv, ListsApart
<1>4. LastEffectOnly' /\ DetailTrue'
  BY DEF HistInv, LastEffectOnly, DetailTrue, Active, detailVars
<1>5. TitleGiven'
  <2> SUFFICES ASSUME mutation' = mutation PROVE TitleGiven'
    OBVIOUS
  <2>1. \A s \in HistorySessions : title[s] \in Nat /\ title'[s] \in Nat
    BY DEF HistInv, HistTypes
  <2> QED  BY <2>1 DEF HistInv, TitleGiven
<1> QED  BY <1>1, <1>3, <1>4, <1>5 DEF HistInv

(* A change of the lists, which the server and the hooks do not see.       *)
LEMMA ListMoved ==
    ASSUME HistInv, UNCHANGED <<sessionsVars, detailVars>>,
           listed' \in Seq(Items), loading'.sofar \in Seq(Items), loading'.count \in Nat,
           mutation' = mutation \/ mutation'.at # "done", ListsApart'
    PROVE  HistInv'
<1>1. HistTypes' /\ RowsApart'
  BY DEF HistInv, HistTypes, RowsApart, detailVars, sessionsVars
<1>4. LastEffectOnly' /\ DetailTrue'
  BY DEF HistInv, LastEffectOnly, DetailTrue, Active, detailVars
<1>5. TitleGiven'
  BY DEF HistInv, TitleGiven, sessionsVars
<1> QED  BY <1>1, <1>4, <1>5 DEF HistInv

LEMMA ElsewhereStep ==
    ASSUME HistInv, NEW s \in HistorySessions,
           TouchedElsewhere(s) \/ RenamedElsewhere(s) \/ DeletedElsewhere(s)
    PROVE  HistInv'
<1>0. /\ HistTypes /\ RowsApart /\ stored \in Seq(HistorySessions) /\ renames \in Nat
      /\ title \in [HistorySessions -> Nat]
  BY DEF HistInv, HistTypes
<1> DEFINE w == Without(stored, s)
<1>w. /\ w \in Seq(HistorySessions) /\ Len(w) \in Nat
      /\ \A i, j \in 1 .. Len(w) : w[i] = w[j] => i = j
      /\ \A i \in 1 .. Len(w) : w[i] \notin buried /\ w[i] # s
  BY <1>0, WithoutFacts, LenProperties
<1>1. CASE TouchedElsewhere(s)
  <2>1. s \notin buried /\ stored' = <<s>> \o w
        /\ UNCHANGED <<title, buried, renames, listVars, detailVars>>
    BY <1>1 DEF TouchedElsewhere, Elsewhere
  <2> HIDE DEF w
  <2>2. /\ stored' \in Seq(HistorySessions) /\ Len(stored') = Len(w) + 1
        /\ stored'[1] = s
        /\ \A i \in 2 .. Len(w) + 1 : stored'[i] = w[i - 1] /\ i - 1 \in 1 .. Len(w)
    BY <2>1, <1>w
  <2>3. \A i \in 1 .. Len(w) + 1 : i = 1 \/ i \in 2 .. Len(w) + 1
    BY <1>w
  <2>4. ASSUME NEW i \in 1 .. Len(stored'), NEW j \in 1 .. Len(stored'),
               stored'[i] = stored'[j]
        PROVE  i = j
    <3>1. i = 1 \/ (i \in 2 .. Len(w) + 1 /\ stored'[i] = w[i - 1] /\ i - 1 \in 1 .. Len(w))
      BY <2>2, <2>3
    <3>2. j = 1 \/ (j \in 2 .. Len(w) + 1 /\ stored'[j] = w[j - 1] /\ j - 1 \in 1 .. Len(w))
      BY <2>2, <2>3
    <3>3. i \in Int /\ j \in Int
      OBVIOUS
    <3>4. i # 1 /\ j # 1 => i - 1 = j - 1
      BY <3>1, <3>2, <2>4, <1>w
    <3>5. i = 1 <=> j = 1
      BY <3>1, <3>2, <2>2, <2>4, <1>w
    <3> QED  BY <3>3, <3>4, <3>5
  <2>5. \A i \in 1 .. Len(stored') : stored'[i] \notin buried
    BY <2>1, <2>2, <2>3, <1>w
  <2>6. RowsApart'
    BY <1>0, <2>1, <2>4, <2>5 DEF RowsApart
  <2> QED  BY <1>0, <2>1, <2>2, <2>6, RowsMoved DEF listVars, HistTypes
<1>2. CASE RenamedElsewhere(s)
  <2>1. /\ renames' = renames + 1 /\ title' = [title EXCEPT ![s] = renames']
        /\ UNCHANGED <<stored, buried, listVars, detailVars>>
    BY <1>2 DEF RenamedElsewhere, Elsewhere
  <2>2. \A r \in HistorySessions : title[r] <= title'[r] /\ title'[r] <= renames'
                                   /\ title'[r] \in Nat
    BY <1>0, <2>1 DEF RowsApart
  <2>3. title' \in [HistorySessions -> Nat]
    BY <1>0, <2>1
  <2>4. RowsApart'
    BY <1>0, <2>1, <2>2 DEF RowsApart
  <2> QED  BY <1>0, <2>1, <2>2, <2>3, <2>4, RowsMoved DEF listVars
<1>3. CASE DeletedElsewhere(s)
  <2>1. /\ stored' = w /\ buried' = buried \cup {s}
        /\ UNCHANGED <<title, renames, listVars, detailVars>>
    BY <1>3 DEF DeletedElsewhere, Elsewhere
  <2>2. RowsApart'
    BY <1>0, <1>w, <2>1 DEF RowsApart
  <2>3. \A r \in HistorySessions : title[r] <= title[r]
    BY <1>0
  <2> QED  BY <1>0, <1>w, <2>1, <2>2, <2>3, RowsMoved DEF listVars
<1> QED  BY <1>1, <1>2, <1>3

LEMMA ServerStep ==
    ASSUME HistInv, FindSession \/ SaveTitle \/ DeleteSession
    PROVE  HistInv'
<1>0. /\ HistTypes /\ RowsApart /\ stored \in Seq(HistorySessions) /\ renames \in Nat
      /\ title \in [HistorySessions -> Nat] /\ DOMAIN stored = 1 .. Len(stored)
      /\ \A r \in HistorySessions : title[r] <= title[r]
  BY LenProperties DEF HistInv, HistTypes
<1>i. mutation # Idle
  BY DEF FindSession, SaveTitle, DeleteSession, Idle
<1>t. TitleGiven
  BY DEF HistInv
<1>1. CASE FindSession
  <2>1. UNCHANGED <<sessionsVars, listed, loading, loadError, erased, detailVars>>
    BY <1>1 DEF FindSession, Comes
  <2>3. TitleGiven'
    BY <1>1, <1>t DEF FindSession, Comes, TitleGiven
  <2>2. RowsApart'
    BY <1>0, <2>1 DEF RowsApart, sessionsVars
  <2> QED  BY <1>0, <1>i, <2>1, <2>2, <2>3, RowsMoved DEF sessionsVars
<1>2. CASE SaveTitle
  <2>1. UNCHANGED <<stored, buried, listed, loading, loadError, erased, detailVars>>
    BY <1>2 DEF SaveTitle, Comes
  <2>2. CASE Among(mutation.on, stored)
    <3>1. mutation.on \in HistorySessions
      BY <1>0, <2>2, ElementOfSeq DEF Among
    <3>2. title' = [title EXCEPT ![mutation.on] = renames + 1] /\ renames' = renames + 1
      BY <1>2, <2>2 DEF SaveTitle
    <3>3. \A r \in HistorySessions : title[r] <= title'[r] /\ title'[r] <= renames'
      BY <1>0, <3>1, <3>2 DEF RowsApart
    <3>4. title' \in [HistorySessions -> Nat] /\ renames' \in Nat
      <4>1. renames + 1 \in Nat
        BY <1>0
      <4> QED  BY <1>0, <3>2, <4>1
    <3>5. RowsApart'
      BY <1>0, <2>1, <3>3 DEF RowsApart
    <3>6. TitleGiven'
      <4>1. /\ mutation'.on = mutation.on \/ mutation'.at # "done"
            /\ mutation'.given = renames + 1 \/ mutation'.at # "done"
        BY <1>2, <2>2 DEF SaveTitle, Comes
      <4>2. title'[mutation.on] = renames + 1 /\ renames + 1 \in Nat
        BY <1>0, <3>1, <3>2
      <4> QED  BY <3>1, <4>1, <4>2 DEF TitleGiven
    <3> QED  BY <1>0, <1>i, <2>1, <3>3, <3>4, <3>5, <3>6, RowsMoved
  <2>3. CASE ~Among(mutation.on, stored)
    <3>1. UNCHANGED <<title, renames>>
      BY <1>2, <2>3 DEF SaveTitle
    <3>2. RowsApart'
      BY <1>0, <2>1, <3>1 DEF RowsApart
    <3>3. TitleGiven'
      BY <1>2, <1>t, <2>3 DEF SaveTitle, Comes, TitleGiven
    <3> QED  BY <1>0, <1>i, <2>1, <3>1, <3>2, <3>3, RowsMoved
  <2> QED  BY <2>2, <2>3
<1>3. CASE DeleteSession
  <2> DEFINE w == Without(stored, mutation.on)
  <2>1. /\ stored' = w /\ buried' = buried \cup {mutation.on}
        /\ UNCHANGED <<title, renames, listed, loading, loadError, erased, detailVars>>
    BY <1>3 DEF DeleteSession, Comes
  <2>2. /\ w \in Seq(HistorySessions)
        /\ \A i, j \in 1 .. Len(w) : w[i] = w[j] => i = j
        /\ \A i \in 1 .. Len(w) : w[i] \notin buried /\ w[i] # mutation.on
    BY <1>0, WithoutFacts
  <2>3. RowsApart'
    BY <1>0, <2>1, <2>2 DEF RowsApart
  <2>4. TitleGiven'
    BY <1>3, <1>t DEF DeleteSession, Comes, TitleGiven
  <2> QED  BY <1>0, <1>i, <2>1, <2>2, <2>3, <2>4, RowsMoved
<1> QED  BY <1>1, <1>2, <1>3

LEMMA EmptyList ==
    /\ <<>> \in Seq(Items) /\ ListOK(<<>>, title) /\ Len(<<>>) = 0
    /\ NotLoading.on = FALSE /\ NotLoading.sofar = <<>> /\ NotLoading.count = 0
BY EmptySeq DEF ListOK, NotLoading

LEMMA LoadStep ==
    ASSUME HistInv, LoadFirst \/ LoadNext \/ LoadFails \/ Retry
    PROVE  HistInv'
<1>0. /\ HistTypes /\ RowsApart /\ ListsApart /\ mutation = Idle /\ erased = {}
      /\ listed \in Seq(Items) /\ loading.sofar \in Seq(Items) /\ loading.count \in Nat
  BY DEF HistInv, HistTypes, ListsApart, LoadFirst, LoadNext, LoadFails, Retry
<1>1. UNCHANGED <<sessionsVars, detailVars, mutation, erased>>
  BY DEF LoadFirst, LoadNext, LoadFails, Retry
<1>b. /\ Batch(0) \in Seq(Items) /\ Len(Batch(0)) \in Nat /\ ListOK(Batch(0), title)
  BY <1>0, BatchFacts
<1>2. /\ listed' \in {listed, <<>>, Batch(0), loading.sofar}
      /\ loading'.sofar \in {<<>>, Batch(0)}
      /\ loading'.count = Len(loading'.sofar)
  <2>1. CASE LoadFirst
    <3>1. CASE Batch(0) = <<>>
      BY <2>1, <3>1, EmptyList DEF LoadFirst, Loaded
    <3>2. CASE Batch(0) # <<>>
      BY <2>1, <3>2, EmptyList DEF LoadFirst, Loaded
    <3> QED  BY <3>1, <3>2
  <2>2. CASE LoadNext
    <3>1. Len(loading.sofar) >= loading.count
      BY <1>0, <2>2, LenProperties DEF LoadNext, ListsApart
    <3>2. listed' = loading.sofar /\ loading' = NotLoading
      BY <2>2, <3>1 DEF LoadNext, Loaded
    <3> QED  BY <3>2, EmptyList
  <2>3. CASE LoadFails
    BY <2>3, EmptyList DEF LoadFails, Loaded
  <2>4. CASE Retry
    BY <2>4, EmptyList DEF Retry, NotLoading
  <2> QED  BY <2>1, <2>2, <2>3, <2>4
<1>3. /\ listed' \in Seq(Items) /\ loading'.sofar \in Seq(Items)
      /\ ListOK(listed', title) /\ ListOK(loading'.sofar, title)
      /\ Len(loading'.sofar) \in Nat
  BY <1>0, <1>2, <1>b, EmptyList DEF ListsApart
<1>4. ListsApart'
  BY <1>0, <1>1, <1>2, <1>3 DEF ListsApart, sessionsVars
<1> QED  BY <1>1, <1>2, <1>3, <1>4, ListMoved

LEMMA MutationStep ==
    ASSUME HistInv,
           \/ MutationFails
           \/ \E kind \in {"rename", "delete"}, s \in HistorySessions : Mutate(kind, s)
    PROVE  HistInv'
<1>0. /\ HistTypes /\ ListsApart
      /\ listed \in Seq(Items) /\ loading.sofar \in Seq(Items) /\ loading.count \in Nat
  BY DEF HistInv, HistTypes
<1>1. /\ UNCHANGED <<sessionsVars, listed, loading, loadError, erased, detailVars>>
      /\ mutation' = Idle \/ (~loading.on /\ ~loadError)
      /\ mutation'.at # "done"
  BY DEF Mutate, MutationFails, Idle
<1>2. ListsApart'
  BY <1>0, <1>1 DEF ListsApart, sessionsVars
<1> QED  BY <1>0, <1>1, <1>2, ListMoved

LEMMA RenamedStep == ASSUME HistInv, Renamed PROVE HistInv'
<1> DEFINE entry == [id |-> mutation.on, title |-> mutation.given]
<1>0. /\ HistTypes /\ RowsApart /\ ListsApart /\ title \in [HistorySessions -> Nat]
      /\ listed \in Seq(Items) /\ loading.sofar \in Seq(Items) /\ loading.count \in Nat
      /\ Len(listed) \in Nat /\ DOMAIN listed = 1 .. Len(listed)
      /\ \A i \in 1 .. Len(listed) : listed[i] \in Items
  BY LenProperties, ElementOfSeq DEF HistInv, HistTypes
<1>i. \A i \in 1 .. Len(listed) : listed[i].id \in HistorySessions
  BY <1>0 DEF Items
<1>1. /\ listed' = [i \in 1 .. Len(listed) |->
                      IF listed[i].id = mutation.on THEN entry ELSE listed[i]]
      /\ mutation' = Idle /\ mutation'.at # "done"
      /\ UNCHANGED <<sessionsVars, loading, loadError, erased, detailVars>>
  BY <1>0 DEF Renamed, Idle
<1>t. entry \in Items /\ entry.id = mutation.on /\ entry.title <= title[mutation.on]
  BY DEF HistInv, TitleGiven, Renamed, Items
<1> HIDE DEF entry
<1>2. \A i \in 1 .. Len(listed) :
        /\ listed'[i] \in Items /\ listed'[i].id = listed[i].id
        /\ listed'[i].title <= title[listed[i].id]
  <2> TAKE i \in 1 .. Len(listed)
  <2>1. CASE listed[i].id = mutation.on
    <3>1. listed'[i] = entry
      BY <1>1, <2>1
    <3> QED  BY <1>t, <2>1, <3>1
  <2>2. CASE listed[i].id # mutation.on
    BY <1>0, <1>1, <2>2 DEF ListsApart, ListOK
  <2> QED  BY <2>1, <2>2
<1>3. listed' \in Seq(Items) /\ Len(listed') = Len(listed)
  <2>1. listed' = [i \in 1 .. Len(listed) |-> listed'[i]]
    BY <1>1
  <2>2. \A i \in 1 .. Len(listed) : listed'[i] \in Items
    BY <1>2
  <2> QED  BY <1>0, <2>1, <2>2
<1>4. ListOK(listed', title)
  BY <1>0, <1>2, <1>3 DEF ListsApart, ListOK
<1>5. ListsApart'
  BY <1>0, <1>1, <1>2, <1>3, <1>4 DEF ListsApart, sessionsVars
<1> QED  BY <1>0, <1>1, <1>3, <1>5, ListMoved

LEMMA DeletedStep == ASSUME HistInv, Deleted PROVE HistInv'
<1> DEFINE places == {i \in DOMAIN listed : listed[i].id # mutation.on}
           w == Filtered(listed, places)
<1>0. /\ HistTypes /\ ListsApart /\ title \in [HistorySessions -> Nat]
      /\ listed \in Seq(Items) /\ loading.sofar \in Seq(Items) /\ loading.count \in Nat
      /\ DOMAIN listed = 1 .. Len(listed) /\ mutation # Idle
  BY LenProperties DEF HistInv, HistTypes, Deleted, Idle
<1>1. /\ listed' = w /\ erased' = erased \cup {mutation.on} /\ mutation' = Idle
      /\ UNCHANGED <<sessionsVars, loading, loadError, detailVars>>
  BY DEF Deleted
<1>2. places \in SUBSET (1 .. Len(listed))
  BY <1>0
<1>3. \A i \in places : i \in 1 .. Len(listed) /\ listed[i].id # mutation.on
  BY <1>0
<1> HIDE DEF places
<1>4. w \in Seq(Items) /\ TakenFrom(w, listed, places)
  BY <1>0, <1>2, FilteredFacts
<1>5. PICK place \in [1 .. Len(w) -> places] :
        /\ \A m \in 1 .. Len(w) : w[m] = listed[place[m]]
        /\ \A m, n \in 1 .. Len(w) : place[m] = place[n] => m = n
  BY <1>4 DEF TakenFrom
<1> HIDE DEF w
<1>6. \A m \in 1 .. Len(w) : place[m] \in 1 .. Len(listed) /\ w[m].id # mutation.on
  BY <1>3, <1>5
<1>7. ListOK(w, title)
  BY <1>0, <1>5, <1>6 DEF ListsApart, ListOK
<1>8. \A m \in 1 .. Len(w) : w[m].id \notin erased
  BY <1>0, <1>5, <1>6 DEF ListsApart
<1>9. ListsApart'
  BY <1>0, <1>1, <1>6, <1>7, <1>8 DEF ListsApart, sessionsVars
<1>10. mutation'.at # "done"
  BY <1>1 DEF Idle
<1> QED  BY <1>0, <1>1, <1>4, <1>9, <1>10, ListMoved

(* The effects make the requests of another selection active, and those of *)
(* the one before idle.                                                    *)
LEMMA EffectsStep == ASSUME HistInv, RunEffects PROVE HistInv'
<1>0. /\ UNCHANGED <<sessionsVars, listVars>> /\ effect \in Nat /\ effect' = effect + 1
      /\ followed' = Selected /\ resume' = NoSession /\ logs' = NoSession
      /\ resumeLoading' = (Selected # NoSession) /\ logsLoading' = (Selected # NoSession)
  BY DEF RunEffects, HistInv, HistTypes
<1> DEFINE fetch(part) == [effect |-> effect', on |-> Selected, of |-> part,
                           found |-> part = "logs" \/ Among(Selected, stored)]
<1>1. fetches' = IF Selected = NoSession THEN fetches
                 ELSE fetches \cup {fetch(part) : part \in {"resume", "logs"}}
  BY DEF RunEffects
<1>2. \A f \in fetches : f.effect \in Nat /\ f.effect < effect'
  BY <1>0 DEF HistInv, LastEffectOnly
<1>3. \A part \in {"resume", "logs"} : /\ fetch(part).effect = effect'
                                       /\ fetch(part).on = followed' /\ fetch(part).of = part
  BY <1>0
<1> HIDE DEF fetch
<1>4. HistTypes' /\ RowsApart' /\ ListsApart'
  BY <1>0 DEF HistInv, HistTypes, RowsApart, ListsApart, sessionsVars, listVars
<1>5. LastEffectOnly'
  <2> SUFFICES ASSUME NEW f \in fetches'
               PROVE  /\ f.effect \in Nat /\ f.effect <= effect'
                      /\ f.effect = effect' => f.on = followed'
    BY DEF LastEffectOnly
  <2>1. f \in fetches \/ \E part \in {"resume", "logs"} : f = fetch(part)
    BY <1>1
  <2> QED  BY <2>1, <1>0, <1>2, <1>3
<1>6. DetailTrue'
  <2>1. {resume', logs'} \subseteq {NoSession, followed'}
    BY <1>0
  <2>2. ASSUME Selected # NoSession, NEW part \in {"resume", "logs"}
        PROVE  \E f \in fetches' : Active(f)' /\ f.of = part /\ f.on = followed'
    BY <2>2, <1>1, <1>3 DEF Active
  <2>3. resumeLoading' => Selected # NoSession
    BY <1>0
  <2>4. logsLoading' => Selected # NoSession
    BY <1>0
  <2> QED  BY <2>1, <2>2, <2>3, <2>4 DEF DetailTrue, Active
<1>7. TitleGiven'
  BY <1>0 DEF HistInv, TitleGiven, sessionsVars, listVars
<1> QED  BY <1>4, <1>5, <1>6, <1>7 DEF HistInv

LEMMA FetchStep ==
    ASSUME HistInv, NEW f \in fetches, Answered(f) \/ FetchFails(f) PROVE HistInv'
<1>1. PICK whose \in {f.on, NoSession} : Show(f, whose)
  BY DEF Answered, FetchFails
<1>2. /\ UNCHANGED <<sessionsVars, listVars, followed, effect>>
      /\ fetches' = fetches \ {f}
  BY <1>1 DEF Show
<1>3. HistTypes' /\ RowsApart' /\ ListsApart'
  BY <1>2 DEF HistInv, HistTypes, RowsApart, ListsApart, sessionsVars, listVars
<1>4. LastEffectOnly'
  BY <1>2 DEF HistInv, LastEffectOnly
<1>5. DetailTrue'
  <2>0. /\ {resume, logs} \subseteq {NoSession, followed}
        /\ resumeLoading =>
              \E g \in fetches : g.effect = effect /\ g.of = "resume" /\ g.on = followed
        /\ logsLoading =>
              \E g \in fetches : g.effect = effect /\ g.of = "logs" /\ g.on = followed
        /\ f.effect = effect => f.on = followed
    BY DEF HistInv, LastEffectOnly, DetailTrue, Active
  <2>1. CASE f.effect # effect
    <3>1. UNCHANGED <<resume, logs, resumeLoading, logsLoading>>
      BY <1>1, <2>1 DEF Show, Active
    <3> QED  BY <2>0, <2>1, <3>1, <1>2 DEF DetailTrue, Active
  <2>2. CASE f.effect = effect /\ f.of = "resume"
    <3>1. /\ resume' = whose /\ resumeLoading' = FALSE /\ UNCHANGED <<logs, logsLoading>>
      BY <1>1, <2>2 DEF Show, Active
    <3> QED  BY <2>0, <2>2, <3>1, <1>2 DEF DetailTrue, Active
  <2>3. CASE f.effect = effect /\ f.of # "resume"
    <3>1. /\ logs' = whose /\ logsLoading' = FALSE /\ UNCHANGED <<resume, resumeLoading>>
      BY <1>1, <2>3 DEF Show, Active
    <3> QED  BY <2>0, <2>3, <3>1, <1>2 DEF DetailTrue, Active
  <2> QED  BY <2>1, <2>2, <2>3
<1>6. TitleGiven'
  BY <1>2 DEF HistInv, TitleGiven, sessionsVars, listVars
<1> QED  BY <1>3, <1>4, <1>5, <1>6 DEF HistInv

LEMMA HistInvInit == HistoryInit => HistInv
<1> SUFFICES ASSUME HistoryInit PROVE HistInv
  OBVIOUS
<1>1. PICK n \in 0 .. Cardinality(HistorySessions) :
        /\ stored \in [1 .. n -> HistorySessions]
        /\ \A i, j \in 1 .. n : stored[i] = stored[j] => i = j
  BY DEF HistoryInit
<1>2. stored \in Seq(HistorySessions) /\ Len(stored) = n
  BY <1>1
<1>3. /\ title = [s \in HistorySessions |-> 0] /\ renames = 0 /\ buried = {} /\ listed = <<>>
      /\ loading.sofar = <<>> /\ loading.count = 0 /\ mutation = Idle /\ erased = {}
      /\ fetches = {} /\ effect = 0 /\ resume = NoSession /\ logs = NoSession
  BY DEF HistoryInit, NotLoading
<1>4. ~resumeLoading /\ ~logsLoading
  BY Zenon DEF HistoryInit
<1>5. HistTypes
  BY <1>2, <1>3, EmptyList DEF HistTypes
<1>6. RowsApart /\ ListsApart
  BY <1>1, <1>2, <1>3, EmptyList DEF RowsApart, ListsApart
<1>7. LastEffectOnly /\ DetailTrue /\ TitleGiven
  BY <1>3, <1>4 DEF LastEffectOnly, DetailTrue, TitleGiven, Idle
<1> QED  BY <1>5, <1>6, <1>7 DEF HistInv

LEMMA HistInvStep == HistInv /\ [HistoryNext]_pageVars => HistInv'
<1> SUFFICES ASSUME HistInv, [HistoryNext]_pageVars PROVE HistInv'
  OBVIOUS
<1>1. ASSUME UNCHANGED <<sessionsVars, listVars, detailVars>> PROVE HistInv'
  BY <1>1 DEF HistInv, HistTypes, RowsApart, ListsApart, LastEffectOnly, DetailTrue, Active,
              TitleGiven, sessionsVars, listVars, detailVars
<1>2. ASSUME NEW s \in {NoSession} \cup HistorySessions, Choose(s) PROVE HistInv'
  BY <1>1, <1>2 DEF Choose
<1>3. CASE UNCHANGED pageVars
  BY <1>1, <1>3 DEF pageVars
<1> QED
  BY <1>2, <1>3, ElsewhereStep, ServerStep, LoadStep, MutationStep, RenamedStep, DeletedStep,
     EffectsStep, FetchStep
  DEF HistoryNext

(* What the history page shows is true to its user while tabs, answers and *)
(* selections cross, for any number of sessions, changes and page size.    *)
THEOREM HistoryStaysTrue == HistorySpec => []HistoryTrue
<1>1. HistInv => HistoryTrue
  <2> SUFFICES ASSUME HistInv PROVE HistoryTrue
    OBVIOUS
  <2>1. DOMAIN listed = 1 .. Len(listed) /\ DOMAIN stored = 1 .. Len(stored)
    BY LenProperties DEF HistInv, HistTypes
  <2>2. ListTrue
    BY <2>1 DEF HistInv, ListsApart, ListOK, ListTrue, Ids
  <2>3. GoneStaysGone
    BY <2>1 DEF HistInv, RowsApart, GoneStaysGone, Among
  <2> QED  BY <2>2, <2>3 DEF HistInv, HistoryTrue
<1> QED  BY HistInvInit, HistInvStep, <1>1, PTL DEF HistorySpec
=============================================================================
