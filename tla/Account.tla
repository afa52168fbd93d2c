------------------------------ MODULE Account ------------------------------
(***************************************************************************)
(* The account of one e-mail address: registration, verification by a      *)
(* mailed link, resending of the link, sign-in with Google, password reset *)
(* and change.  The threads share one auth_users row; every statement      *)
(* commits by itself except in the transaction of a re-registration, which *)
(* locks the row while it mails.                                           *)
(*                                                                         *)
(* A nonce (uuid4) is a fresh number, a link is its nonce.  Links and      *)
(* reset links that expired are those nobody uses.                         *)
(***************************************************************************)
EXTENDS Integers

CONSTANTS Threads,
          Senders,     (* threads that register and resend                   *)
          Verifiers,   (* threads that verify a link                         *)
          Passwords,
          Blank,       (* the password column of a row made without one      *)
          Unusable,    (* what set_unusable_password stores                  *)
          Nobody,
          MaxNonce     (* bound: nonces drawn                                *)

ASSUME AccountAssumption ==
    /\ Senders \subseteq Threads /\ Verifiers \subseteq Threads
    /\ Blank \notin Passwords /\ Unusable \notin Passwords /\ Blank # Unusable
    /\ Nobody \notin Threads
    /\ MaxNonce \in Nat

VARIABLES
    user,      (* the committed row                                          *)
    lock,      (* the transaction that holds the row's lock                  *)
    draft,     (* the row as that transaction wrote it                       *)
    nonces,    (* nonces drawn                                               *)
    links,     (* nonces mailed                                              *)
    latest,    (* the last of them                                           *)
    used,      (* verifications accepted, per nonce                          *)
    pc,        (* where each thread is                                       *)
    row,       (* the User object it read                                    *)
    atomic,    (* is it in a re-registration's transaction                   *)
    secret,    (* the password in its request                                *)
    mine       (* the nonce it mails or verifies                             *)

rowVars == <<user, lock, draft>>
mailVars == <<links, latest>>
localVars == <<row, atomic, secret, mine>>
vars == <<rowVars, nonces, mailVars, used, pc, localVars>>

NoUser == [status |-> "none", nonce |-> 0, password |-> Blank]
Row == [status : {"none", "unverified", "verified"}, nonce : 0 .. MaxNonce,
        password : Passwords \cup {Blank, Unusable}]

Free(t) == lock \in {t, Nobody}
Sees(t) == IF lock = t THEN draft ELSE user

Init ==
    /\ user = NoUser /\ lock = Nobody /\ draft = NoUser
    /\ nonces = 0
    /\ links = {} /\ latest = 0
    /\ used = [n \in 1 .. MaxNonce |-> 0]
    /\ pc = [t \in Threads |-> "idle"]
    /\ row = [t \in Threads |-> NoUser]
    /\ atomic = [t \in Threads |-> FALSE]
    /\ secret = [t \in Threads |-> Blank]
    /\ mine = [t \in Threads |-> 0]

Goto(t, l) == pc' = [pc EXCEPT ![t] = l]

(* The request ends. *)
Finish(t) ==
    /\ Goto(t, "idle")
    /\ row' = [row EXCEPT ![t] = NoUser]
    /\ atomic' = [atomic EXCEPT ![t] = FALSE]
    /\ secret' = [secret EXCEPT ![t] = Blank]
    /\ mine' = [mine EXCEPT ![t] = 0]

Draw == nonces < MaxNonce /\ nonces' = nonces + 1

(* A statement of a thread: it waits for the row's lock, and a transaction *)
(* keeps it.                                                               *)
Write(t, r) ==
    /\ Free(t)
    /\ IF atomic[t]
       THEN lock' = t /\ draft' = r /\ UNCHANGED user
       ELSE user' = r /\ UNCHANGED <<lock, draft>>

-----------------------------------------------------------------------------
(***************************************************************************)
(* Registration.                                                           *)
(***************************************************************************)

(* find_by_email.  The address of a verified user is a conflict and ends   *)
(* there; a re-registration opens a transaction, and locks the row first   *)
(* if it brings a password.                                                *)
Register(t, p) ==
    /\ t \in Senders /\ pc[t] = "idle"
    /\ user.status # "verified"
    /\ Goto(t, CASE user.status = "none" -> "creating"
                 [] user.status = "unverified" /\ p = Blank -> "reading"
                 [] user.status = "unverified" /\ p # Blank -> "locking")
    /\ secret' = [secret EXCEPT ![t] = p]
    /\ atomic' = [atomic EXCEPT ![t] = user.status = "unverified"]
    /\ UNCHANGED <<rowVars, nonces, mailVars, used, row, mine>>

Create(t) ==
    /\ pc[t] = "creating"
    /\ user.status = "none"
    /\ Draw
    /\ user' = [status |-> "unverified", nonce |-> nonces', password |-> Blank]
    /\ Goto(t, "disabling")
    /\ UNCHANGED <<lock, draft, mailVars, used, localVars>>

(* The address was taken since: IntegrityError, a conflict.                *)
CreateFails(t) ==
    /\ pc[t] = "creating"
    /\ user.status # "none"
    /\ Finish(t)
    /\ UNCHANGED <<rowVars, nonces, mailVars, used>>

Disable(t) ==
    /\ pc[t] = "disabling"
    /\ Write(t, [user EXCEPT !.password = Unusable])
    /\ Goto(t, "reading")
    /\ UNCHANGED <<nonces, mailVars, used, localVars>>

(* select_for_update of the unverified row; none if it is verified by now. *)
LockRowOfAnyStatus(t) ==
    /\ pc[t] = "locking"
    /\ Write(t, [user EXCEPT !.password = secret[t]])
    /\ Goto(t, "reading")
    /\ UNCHANGED <<nonces, mailVars, used, localVars>>
LockRow(t) ==
    /\ pc[t] = "locking"
    /\ lock = Nobody
    /\ IF user.status = "unverified"
       THEN Write(t, [user EXCEPT !.password = secret[t]])
       ELSE UNCHANGED rowVars
    /\ Goto(t, "reading")
    /\ UNCHANGED <<nonces, mailVars, used, localVars>>

Commit(t) ==
    /\ pc[t] = "committing"
    /\ user' = draft
    /\ lock' = Nobody /\ draft' = NoUser
    /\ Finish(t)
    /\ UNCHANGED <<nonces, mailVars, used>>

-----------------------------------------------------------------------------
(***************************************************************************)
(* send_verification_email.                                                *)
(***************************************************************************)
Resend(t) ==
    /\ t \in Senders /\ pc[t] = "idle"
    /\ user.status = "unverified"
    /\ Goto(t, "reading")
    /\ UNCHANGED <<rowVars, nonces, mailVars, used, localVars>>

Read(t) ==
    /\ pc[t] = "reading"
    /\ row' = [row EXCEPT ![t] = Sees(t)]
    /\ Goto(t, "rotating")
    /\ UNCHANGED <<rowVars, nonces, mailVars, used, atomic, secret, mine>>

RotateWholeRow(t) ==
    /\ pc[t] = "rotating"
    /\ Draw
    /\ Write(t, [row[t] EXCEPT !.nonce = nonces'])
    /\ mine' = [mine EXCEPT ![t] = nonces']
    /\ Goto(t, "mailing")
    /\ UNCHANGED <<mailVars, used, row, atomic, secret>>
Rotate(t) ==
    /\ pc[t] = "rotating"
    /\ Draw
    /\ Write(t, [Sees(t) EXCEPT !.nonce = nonces'])
    /\ mine' = [mine EXCEPT ![t] = nonces']
    /\ Goto(t, "mailing")
    /\ UNCHANGED <<mailVars, used, row, atomic, secret>>

Mail(t) ==
    /\ pc[t] = "mailing"
    /\ links' = links \cup {mine[t]}
    /\ latest' = mine[t]
    /\ IF atomic[t]
       THEN Goto(t, "committing") /\ UNCHANGED localVars
       ELSE Finish(t)
    /\ UNCHANGED <<rowVars, nonces, used>>

(* The mail cannot be sent: the nonce read before is put back; in a        *)
(* transaction the exception then rolls everything back.                   *)
MailFailsForgetting(t) ==
    /\ pc[t] = "mailing"
    /\ Finish(t)
    /\ lock' = (IF lock = t THEN Nobody ELSE lock)
    /\ draft' = (IF lock = t THEN NoUser ELSE draft)
    /\ UNCHANGED <<user, nonces, mailVars, used>>
MailFails(t) ==
    /\ pc[t] = "mailing"
    /\ IF atomic[t]
       THEN lock' = Nobody /\ draft' = NoUser /\ UNCHANGED user /\ Finish(t)
       ELSE UNCHANGED <<rowVars, localVars>> /\ Goto(t, "restoring")
    /\ UNCHANGED <<nonces, mailVars, used>>

RestoreNull(t) ==
    /\ pc[t] = "restoring"
    /\ Write(t, [user EXCEPT !.nonce = Nobody])
    /\ Finish(t)
    /\ UNCHANGED <<nonces, mailVars, used>>
Restore(t) ==
    /\ pc[t] = "restoring"
    /\ Write(t, [user EXCEPT !.nonce = row[t].nonce])
    /\ Finish(t)
    /\ UNCHANGED <<nonces, mailVars, used>>

-----------------------------------------------------------------------------
(***************************************************************************)
(* Verification, sign-in with Google, password reset and change.           *)
(***************************************************************************)

(* validate_token of a mailed link: the row is checked, then saved.        *)
ValidateByNonce(t, n, p) ==
    /\ t \in Verifiers /\ pc[t] = "idle"
    /\ n \in links
    /\ user.nonce = n
    /\ mine' = [mine EXCEPT ![t] = n]
    /\ secret' = [secret EXCEPT ![t] = p]
    /\ Goto(t, "verifying")
    /\ UNCHANGED <<rowVars, nonces, mailVars, used, row, atomic>>
Validate(t, n, p) ==
    /\ t \in Verifiers /\ pc[t] = "idle"
    /\ n \in links
    /\ user.status = "unverified"
    /\ user.nonce = n
    /\ mine' = [mine EXCEPT ![t] = n]
    /\ secret' = [secret EXCEPT ![t] = p]
    /\ Goto(t, "verifying")
    /\ UNCHANGED <<rowVars, nonces, mailVars, used, row, atomic>>

Verify(t) ==
    /\ pc[t] = "verifying"
    /\ Draw
    /\ Write(t, [status |-> "verified", nonce |-> nonces', password |-> secret[t]])
    /\ used' = [used EXCEPT ![mine[t]] = @ + 1]
    /\ Finish(t)
    /\ UNCHANGED mailVars

(* get_or_create with a Google account's address.                          *)
SignUpWithGoogle(t) ==
    /\ pc[t] = "idle"
    /\ user.status = "none"
    /\ Draw
    /\ user' = [status |-> "verified", nonce |-> nonces', password |-> Blank]
    /\ Finish(t)
    /\ UNCHANGED <<lock, draft, mailVars, used>>

SignInWithGoogle(t) ==
    /\ pc[t] = "idle"
    /\ user.status = "unverified"
    /\ Goto(t, "marking")
    /\ UNCHANGED <<rowVars, nonces, mailVars, used, localVars>>

Mark(t) ==
    /\ pc[t] = "marking"
    /\ Write(t, [user EXCEPT !.status = "verified"])
    /\ Finish(t)
    /\ UNCHANGED <<nonces, mailVars, used>>

ResetPassword(t, p) ==
    /\ pc[t] = "idle"
    /\ user.status = "verified"
    /\ Write(t, [user EXCEPT !.password = p])
    /\ Finish(t)
    /\ UNCHANGED <<nonces, mailVars, used>>

(* has_usable_password: only a password made unusable is not.              *)
Usable(password) == password # Unusable

(* A signed-in user asks for the new password p and gives the current one, *)
(* or leaves it blank; any other request is refused and changes nothing.   *)
ChangeAllowed(current, p) ==
    /\ Usable(user.password) => current # Blank /\ current = user.password
    /\ user.password # p

CheckChange(t, current, p) ==
    /\ pc[t] = "idle"
    /\ user.status = "verified"
    /\ ChangeAllowed(current, p)
    /\ secret' = [secret EXCEPT ![t] = p]
    /\ Goto(t, "changing")
    /\ UNCHANGED <<rowVars, nonces, mailVars, used, row, atomic, mine>>

Change(t) ==
    /\ pc[t] = "changing"
    /\ Write(t, [user EXCEPT !.password = secret[t]])
    /\ Finish(t)
    /\ UNCHANGED <<nonces, mailVars, used>>

-----------------------------------------------------------------------------
Step(t) ==
    \/ \E p \in Passwords \cup {Blank} : Register(t, p)
    \/ Create(t) \/ CreateFails(t) \/ Disable(t) \/ LockRow(t) \/ Commit(t)
    \/ Resend(t) \/ Read(t) \/ Rotate(t) \/ Mail(t) \/ MailFails(t) \/ Restore(t)
    \/ \E n \in links, p \in Passwords : Validate(t, n, p)
    \/ Verify(t) \/ SignUpWithGoogle(t) \/ SignInWithGoogle(t) \/ Mark(t)
    \/ \E p \in Passwords : ResetPassword(t, p)
    \/ \E c \in Passwords \cup {Blank}, p \in Passwords : CheckChange(t, c, p)
    \/ Change(t)

Next == \E t \in Threads : Step(t)

Spec == Init /\ [][Next]_vars

-----------------------------------------------------------------------------
Locations == {"idle", "creating", "disabling", "locking", "committing", "reading",
              "rotating", "mailing", "restoring", "verifying", "marking", "changing"}

TypeOK ==
    /\ user \in Row /\ draft \in Row
    /\ lock \in Threads \cup {Nobody}
    /\ nonces \in 0 .. MaxNonce
    /\ links \subseteq 1 .. MaxNonce /\ latest \in links \cup {0}
    /\ used \in [1 .. MaxNonce -> Nat]
    /\ pc \in [Threads -> Locations]
    /\ row \in [Threads -> Row]
    /\ atomic \in [Threads -> BOOLEAN]
    /\ secret \in [Threads -> Passwords \cup {Blank, Unusable}]
    /\ mine \in [Threads -> 0 .. MaxNonce]

Sending == {"creating", "disabling", "locking", "committing", "reading",
            "rotating", "mailing", "restoring"}

(* While no mail is under way, the last link that was mailed is the one    *)
(* that verifies: a later mail that failed does not invalidate it          *)
(* (services.py:372).                                                      *)
LastLinkWorks ==
    /\ \A t \in Threads : pc[t] \notin Sending
    /\ user.status = "unverified"
    /\ latest # 0
    => user.nonce = latest

(* While no mail is under way, an unverified user who was mailed a link    *)
(* has one that verifies (views.py:179: "has been resent").                *)
SomeLinkWorks ==
    /\ \A t \in Threads : pc[t] \notin Sending
    /\ user.status = "unverified"
    /\ links # {}
    => user.nonce \in links

(* A link verifies at most once (views.py:89-121), also when a failed mail *)
(* puts an old nonce back after it.                                        *)
LinkUsedOnce == \A n \in 1 .. MaxNonce : used[n] <= 1

(* Nobody who holds a User object from before the verification writes it   *)
(* back: verified is for good, whatever the order of the statements.       *)
VerifiedForGood ==
    [][user.status = "verified" => user'.status = "verified"]_vars

(* A registration that looked the address up before it was verified does   *)
(* not change the verified user's password (register/adapters.py:45).      *)
ReregistrationSparesVerified ==
    [][\A t \in Threads :
          pc[t] \in {"locking", "committing"} /\ pc'[t] # pc[t]
          /\ user.status = "verified" => user'.password = user.password]_vars

(* A user who never chose a password, having signed up with Google, can    *)
(* set one without giving a current one (change_password/use_cases.py:43). *)
GoogleUserSetsPassword ==
    user.status = "verified" /\ user.password \notin Passwords
    => \A p \in Passwords : ChangeAllowed(Blank, p)
=============================================================================
