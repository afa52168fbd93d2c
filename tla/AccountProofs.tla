--------------------------- MODULE AccountProofs ---------------------------
(***************************************************************************)
(* What the row lock of a re-registration is good for: with any number of  *)
(* threads of every kind, a verified account stays verified, and a         *)
(* re-registration that started before does not touch its password.        *)
(*                                                                         *)
(* And what keeps the mailed links in order without a lock: as long as no  *)
(* two threads verify, a link is used once; as long as no two send, the    *)
(* last link is the one that works, whatever fails or is rolled back.      *)
(***************************************************************************)
EXTENDS Account, TLAPS

(* Where a thread may be within a transaction.                             *)
Locking == {"locking", "reading", "rotating", "mailing", "committing"}

(* Only a re-registration is in a transaction; the row exists by then.     *)
Transactions ==
    /\ \A t \in Threads : atomic[t] => pc[t] \in Locking /\ user.status # "none"
    /\ \A t \in Threads : pc[t] \in {"locking", "committing"} => atomic[t]

(* A transaction that has written to the row holds its lock.               *)
LockHeld ==
    /\ lock # Nobody => atomic[lock] /\ pc[lock] # "locking"
    /\ \A t \in Threads :
          atomic[t] /\ pc[t] \in {"mailing", "committing"} => lock = t

(* What it will commit differs from the row in the nonce, and while the    *)
(* account is unverified in the password, for the row does not change      *)
(* under it.                                                               *)
DraftFollows ==
    lock # Nobody => /\ draft.status = user.status
                     /\ user.status = "verified" => draft.password = user.password

(* A nonce that is to be mailed was drawn.                                 *)
NonceDrawn == \A t \in Threads : pc[t] = "mailing" => mine[t] # 0

AccountInv == TypeOK /\ NonceDrawn /\ Transactions /\ LockHeld /\ DraftFollows

-----------------------------------------------------------------------------
LEMMA InitAccount == Init => AccountInv
BY AccountAssumption
   DEF Init, AccountInv, TypeOK, NonceDrawn, Transactions, LockHeld, DraftFollows, NoUser,
       Row, Locations, Locking

LEMMA Distinct == NoUser \in Row /\ Blank \in Passwords \cup {Blank, Unusable}
BY AccountAssumption DEF NoUser, Row

(* The locals of a thread that finishes.                                   *)
LEMMA FinishKeepsTypes ==
    ASSUME TypeOK, NEW t \in Threads, Finish(t)
    PROVE  /\ pc' \in [Threads -> Locations] /\ row' \in [Threads -> Row]
           /\ atomic' \in [Threads -> BOOLEAN]
           /\ secret' \in [Threads -> Passwords \cup {Blank, Unusable}]
           /\ mine' \in [Threads -> 0 .. MaxNonce]
BY AccountAssumption, Distinct DEF Finish, Goto, TypeOK, Locations

LEMMA WriteKeepsTypes ==
    ASSUME TypeOK, NEW t \in Threads, NEW r \in Row, Write(t, r)
    PROVE  user' \in Row /\ draft' \in Row /\ lock' \in Threads \cup {Nobody}
BY DEF Write, TypeOK

(* Registering threads.                                                    *)
LEMMA RegisterTypes ==
    ASSUME TypeOK, NonceDrawn, NEW t \in Threads,
           NEW p \in Passwords \cup {Blank},
           Register(t,
              p) \/ Create(t) \/ CreateFails(t) \/ Disable(t) \/ LockRow(t) \/ Commit(t)
    PROVE  TypeOK' /\ NonceDrawn'
<1> USE AccountAssumption
<1>1. CASE Register(t, p)
  <2>1. PICK l \in {"creating", "reading", "locking"} : pc' = [pc EXCEPT ![t] = l]
    BY <1>1 DEF Register, Goto, TypeOK, Row
  <2>2. atomic' \in [Threads -> BOOLEAN]
    BY <1>1, Zenon DEF Register, TypeOK
  <2> QED
    BY <1>1, <2>1, <2>2 DEF Register, TypeOK, NonceDrawn, Locations, rowVars, mailVars
<1>2. CASE Create(t)
  <2>1. user' \in Row /\ nonces' \in 0 .. MaxNonce
    BY <1>2 DEF Create, Draw, TypeOK, Row
  <2> QED
    BY <1>2, <2>1 DEF Create, Goto, TypeOK, NonceDrawn, Locations, mailVars, localVars
<1>3. CASE CreateFails(t)
  <2>1. UNCHANGED <<rowVars, nonces, mailVars, used>>
    BY <1>3 DEF CreateFails
  <2>2. NonceDrawn'
    BY <1>3 DEF CreateFails, Finish, Goto, NonceDrawn, TypeOK
  <2> QED
    BY <1>3, <2>1, <2>2, FinishKeepsTypes DEF CreateFails, TypeOK, rowVars, mailVars
<1>4. CASE Disable(t)
  <2>1. [user EXCEPT !.password = Unusable] \in Row
    BY DEF TypeOK, Row
  <2> QED
    BY <1>4, <2>1, WriteKeepsTypes
       DEF Disable, Goto, TypeOK, NonceDrawn, Locations, mailVars, localVars
<1>5. CASE LockRow(t)
  <2>1. [user EXCEPT !.password = secret[t]] \in Row
    BY DEF TypeOK, Row
  <2>2. user' \in Row /\ draft' \in Row /\ lock' \in Threads \cup {Nobody}
    BY <1>5, <2>1, WriteKeepsTypes DEF LockRow, rowVars, TypeOK
  <2> QED
    BY <1>5, <2>2 DEF LockRow, Goto, TypeOK, NonceDrawn, Locations, mailVars, localVars
<1>6. CASE Commit(t)
  <2>1. NonceDrawn'
    BY <1>6 DEF Commit, Finish, Goto, NonceDrawn, TypeOK
  <2> QED
    BY <1>6, <2>1, FinishKeepsTypes, Distinct DEF Commit, TypeOK, mailVars
<1> QED
  BY <1>1, <1>2, <1>3, <1>4, <1>5, <1>6

(* Mailing threads.                                                        *)
LEMMA MailTypes ==
    ASSUME TypeOK, NonceDrawn, NEW t \in Threads,
           Resend(t) \/ Read(t) \/ Rotate(t) \/ Mail(t) \/ MailFails(t) \/ Restore(t)
    PROVE  TypeOK' /\ NonceDrawn'
<1> USE AccountAssumption
<1>1. CASE Resend(t)
  BY <1>1 DEF Resend, Goto, TypeOK, NonceDrawn, Locations, rowVars, mailVars, localVars
<1>2. CASE Read(t)
  <2>1. Sees(t) \in Row
    BY DEF Sees, TypeOK
  <2> QED
    BY <1>2, <2>1 DEF Read, Goto, TypeOK, NonceDrawn, Locations, rowVars, mailVars
<1>3. CASE Rotate(t)
  <2>1. nonces' \in 1 .. MaxNonce
    BY <1>3 DEF Rotate, Draw, TypeOK
  <2>2. [Sees(t) EXCEPT !.nonce = nonces'] \in Row
    <3>1. Sees(t) \in Row
      BY DEF Sees, TypeOK
    <3> QED
      BY <2>1, <3>1 DEF Row
  <2>3. user' \in Row /\ draft' \in Row /\ lock' \in Threads \cup {Nobody}
    BY <1>3, <2>2, WriteKeepsTypes DEF Rotate
  <2> QED
    BY <1>3, <2>1, <2>3 DEF Rotate, Goto, TypeOK, NonceDrawn, Locations, mailVars
<1>4. CASE Mail(t)
  <2>1. mine[t] \in 1 .. MaxNonce
    BY <1>4 DEF Mail, NonceDrawn, TypeOK
  <2>2. links' \subseteq 1 .. MaxNonce /\ latest' \in links' \cup {0}
    BY <1>4, <2>1 DEF Mail, TypeOK
  <2>3. CASE atomic[t]
    BY <1>4, <2>2, <2>3 DEF Mail, Goto, TypeOK, NonceDrawn, Locations, rowVars, localVars
  <2>4. CASE ~atomic[t]
    <3>1. Finish(t) /\ UNCHANGED <<rowVars, nonces, used>>
      BY <1>4, <2>4 DEF Mail
    <3>2. NonceDrawn'
      BY <3>1 DEF Finish, Goto, NonceDrawn, TypeOK
    <3> QED
      BY <2>2, <3>1, <3>2, FinishKeepsTypes DEF TypeOK, rowVars
  <2> QED
    BY <2>3, <2>4
<1>5. CASE MailFails(t)
  <2>1. CASE atomic[t]
    <3>1. /\ Finish(t) /\ UNCHANGED <<user, nonces, mailVars, used>>
          /\ lock' = Nobody /\ draft' = NoUser
      BY <1>5, <2>1 DEF MailFails
    <3>2. NonceDrawn'
      BY <3>1 DEF Finish, Goto, NonceDrawn, TypeOK
    <3> QED
      BY <3>1, <3>2, FinishKeepsTypes, Distinct DEF TypeOK, mailVars
  <2>2. CASE ~atomic[t]
    BY <1>5, <2>2
       DEF MailFails, Goto, TypeOK, NonceDrawn, Locations, rowVars, mailVars, localVars
  <2> QED
    BY <2>1, <2>2
<1>6. CASE Restore(t)
  <2>1. [user EXCEPT !.nonce = row[t].nonce] \in Row
    BY DEF TypeOK, Row
  <2>2. NonceDrawn'
    BY <1>6 DEF Restore, Finish, Goto, NonceDrawn, TypeOK
  <2>3. user' \in Row /\ draft' \in Row /\ lock' \in Threads \cup {Nobody}
    BY <1>6, <2>1, WriteKeepsTypes DEF Restore
  <2> QED
    BY <1>6, <2>2, <2>3, FinishKeepsTypes DEF Restore, TypeOK, mailVars
<1> QED
  BY <1>1, <1>2, <1>3, <1>4, <1>5, <1>6

(* Everybody else.                                                         *)
LEMMA UserTypes ==
    ASSUME TypeOK, NonceDrawn, NEW t \in Threads,
           \/ \E n \in links, p \in Passwords : Validate(t, n, p)
           \/ Verify(t) \/ SignUpWithGoogle(t) \/ SignInWithGoogle(t) \/ Mark(t)
           \/ \E p \in Passwords : ResetPassword(t, p)
           \/ \E c \in Passwords \cup {Blank}, p \in Passwords : CheckChange(t, c, p)
           \/ Change(t)
    PROVE  TypeOK' /\ NonceDrawn'
<1> USE AccountAssumption
<1>1. CASE \E n \in links, p \in Passwords : Validate(t, n, p)
  BY <1>1 DEF Validate, Goto, TypeOK, NonceDrawn, Locations, rowVars, mailVars
<1>2. CASE Verify(t)
  <2>1. used' \in [1 .. MaxNonce -> Nat]
    <3>1. mine[t] \in 1 .. MaxNonce => used[mine[t]] + 1 \in Nat
      BY DEF TypeOK
    <3>2. used' = [used EXCEPT ![mine[t]] = used[mine[t]] + 1]
      BY <1>2 DEF Verify
    <3> QED
      BY <3>1, <3>2 DEF TypeOK
  <2>2. nonces' \in 0 .. MaxNonce
    BY <1>2 DEF Verify, Draw, TypeOK
  <2>3. Verify(t) => Finish(t)
    BY DEF Verify
  <2>4. secret[t] \in Passwords \cup {Blank, Unusable}
    BY DEF TypeOK
  <2>5. [status |-> "verified", nonce |-> nonces', password |-> secret[t]] \in Row
    BY <2>2, <2>4 DEF Row
  <2>6. user' \in Row /\ draft' \in Row /\ lock' \in Threads \cup {Nobody}
    BY <1>2, <2>5, WriteKeepsTypes DEF Verify
  <2>7. NonceDrawn'
    BY <1>2, <2>3 DEF Finish, Goto, NonceDrawn, TypeOK
  <2> QED
    BY <1>2, <2>1, <2>2, <2>3, <2>6, <2>7, FinishKeepsTypes DEF Verify, TypeOK, mailVars
<1>3. CASE SignUpWithGoogle(t)
  <2>1. nonces' \in 0 .. MaxNonce /\ user' \in Row
    BY <1>3 DEF SignUpWithGoogle, Draw, TypeOK, Row
  <2>2. NonceDrawn'
    BY <1>3 DEF SignUpWithGoogle, Finish, Goto, NonceDrawn, TypeOK
  <2> QED
    BY <1>3, <2>1, <2>2, FinishKeepsTypes DEF SignUpWithGoogle, TypeOK, mailVars
<1>4. CASE SignInWithGoogle(t)
  BY <1>4 DEF SignInWithGoogle, Goto, TypeOK, NonceDrawn, Locations, rowVars, mailVars,
              localVars
<1>5. CASE Mark(t)
  <2>1. [user EXCEPT !.status = "verified"] \in Row
    BY DEF TypeOK, Row
  <2>2. NonceDrawn'
    BY <1>5 DEF Mark, Finish, Goto, NonceDrawn, TypeOK
  <2>3. user' \in Row /\ draft' \in Row /\ lock' \in Threads \cup {Nobody}
    BY <1>5, <2>1, WriteKeepsTypes DEF Mark
  <2> QED
    BY <1>5, <2>2, <2>3, FinishKeepsTypes DEF Mark, TypeOK, mailVars
<1>6. CASE \E p \in Passwords : ResetPassword(t, p)
  <2>0. PICK p \in Passwords : ResetPassword(t, p)
    BY <1>6
  <2>1. [user EXCEPT !.password = p] \in Row
    BY DEF TypeOK, Row
  <2>2. NonceDrawn'
    BY <2>0 DEF ResetPassword, Finish, Goto, NonceDrawn, TypeOK
  <2>3. user' \in Row /\ draft' \in Row /\ lock' \in Threads \cup {Nobody}
    BY <2>0, <2>1, WriteKeepsTypes DEF ResetPassword
  <2> QED
    BY <2>0, <2>2, <2>3, FinishKeepsTypes DEF ResetPassword, TypeOK, mailVars
<1>7. CASE \E c \in Passwords \cup {Blank}, p \in Passwords : CheckChange(t, c, p)
  BY <1>7 DEF CheckChange, Goto, TypeOK, NonceDrawn, Locations, rowVars, mailVars
<1>8. CASE Change(t)
  <2>1. [user EXCEPT !.password = secret[t]] \in Row
    BY DEF TypeOK, Row
  <2>2. NonceDrawn'
    BY <1>8 DEF Change, Finish, Goto, NonceDrawn, TypeOK
  <2>3. user' \in Row /\ draft' \in Row /\ lock' \in Threads \cup {Nobody}
    BY <1>8, <2>1, WriteKeepsTypes DEF Change
  <2> QED
    BY <1>8, <2>2, <2>3, FinishKeepsTypes DEF Change, TypeOK, mailVars
<1> QED
  BY <1>1, <1>2, <1>3, <1>4, <1>5, <1>6, <1>7, <1>8

-----------------------------------------------------------------------------
(* What a step does to the row: nothing, a change that keeps the status or *)
(* verifies, the first row, or the commit of a draft.                      *)
LEMMA RowSteps ==
    ASSUME AccountInv, NEW t \in Threads, Step(t)
    PROVE  /\ user'.status \in {user.status, "verified"} \/ user.status = "none"
           /\ user.status # "none" => user'.status # "none"
<1> USE DEF AccountInv, TypeOK, Row
<1>1. CASE \E p \in Passwords \cup {Blank} : Register(t, p)
  BY <1>1 DEF Register, rowVars
<1>2. CASE Create(t) \/ CreateFails(t) \/ SignUpWithGoogle(t)
  BY <1>2 DEF Create, CreateFails, SignUpWithGoogle, rowVars
<1>3. CASE Disable(t) \/ LockRow(t)
  BY <1>3 DEF Disable, LockRow, Write, rowVars
<1>4. CASE Commit(t)
  BY <1>4, AccountAssumption DEF Commit, Transactions, LockHeld, DraftFollows
<1>5. CASE Resend(t) \/ Read(t) \/ Mail(t) \/ MailFails(t)
  BY <1>5 DEF Resend, Read, Mail, MailFails, rowVars
<1>6. CASE Rotate(t)
  <2>1. CASE lock = t
    BY <1>6, <2>1, AccountAssumption DEF Rotate, Write, LockHeld
  <2>2. CASE lock # t
    BY <1>6, <2>2 DEF Rotate, Write, Sees
  <2> QED
    BY <2>1, <2>2
<1>7. CASE Restore(t) \/ Mark(t) \/ Change(t) \/ \E p \in Passwords : ResetPassword(t, p)
  BY <1>7 DEF Restore, Mark, Change, ResetPassword, Write
<1>8. CASE \E n \in links, p \in Passwords : Validate(t, n, p)
  BY <1>8 DEF Validate, rowVars
<1>9. CASE Verify(t)
  BY <1>9 DEF Verify, Write
<1>10. CASE SignInWithGoogle(t)
  BY <1>10 DEF SignInWithGoogle, rowVars
<1>11. CASE \E c \in Passwords \cup {Blank}, p \in Passwords : CheckChange(t, c, p)
  BY <1>11 DEF CheckChange, rowVars
<1> QED
  BY <1>1, <1>2, <1>3, <1>4, <1>5, <1>6, <1>7, <1>8, <1>9, <1>10, <1>11 DEF Step

(* While a thread holds the lock nobody else writes to the row.            *)
LEMMA LockedRowStays ==
    ASSUME AccountInv, NEW t \in Threads, Step(t), lock # Nobody, ~Commit(t)
    PROVE  user' = user
<1> USE AccountAssumption DEF AccountInv, TypeOK, LockHeld, Transactions, Write, Free
<1>1. CASE lock # t
  BY <1>1 DEF Step, Register, Create, CreateFails, Disable, LockRow, Resend, Read, Rotate,
              Mail, MailFails, Restore, Validate, Verify, SignUpWithGoogle,
              SignInWithGoogle, Mark, ResetPassword, CheckChange, Change, rowVars
<1>2. CASE lock = t
  BY <1>2 DEF Step, Register, Create, CreateFails, Disable, LockRow, Resend, Read, Rotate,
              Mail, MailFails, Restore, Validate, Verify, SignUpWithGoogle,
              SignInWithGoogle, Mark, ResetPassword, CheckChange, Change, rowVars
<1> QED
  BY <1>1, <1>2

(* Who holds the lock after a step held it before, or took it from nobody. *)
LEMMA LockSteps ==
    ASSUME AccountInv, NEW t \in Threads, Step(t)
    PROVE  /\ lock' \in {lock, t, Nobody}
           /\ lock' = lock \/ lock \in {t, Nobody}
           /\ lock' # lock /\ lock' = t => (LockRow(t) \/ Rotate(t)) /\ atomic[t]
           /\ lock' # lock /\ lock' = Nobody => Commit(t) \/ MailFails(t)
           /\ ~(LockRow(t) \/ Rotate(t)) /\ lock' # Nobody => draft' = draft
<1> USE AccountAssumption DEF AccountInv, TypeOK, LockHeld, Transactions, Write, Free, Locking
<1>1. CASE Commit(t) \/ MailFails(t) \/ LockRow(t) \/ Rotate(t)
  BY <1>1 DEF Commit, MailFails, LockRow, Rotate, rowVars
<1>2. CASE ~(Commit(t) \/ MailFails(t) \/ LockRow(t) \/ Rotate(t))
  BY <1>2 DEF Step, Register, Create, CreateFails, Disable, Resend, Read,
              Mail, Restore, Validate, Verify, SignUpWithGoogle,
              SignInWithGoogle, Mark, ResetPassword, CheckChange, Change, rowVars
<1> QED
  BY <1>1, <1>2

(* What a step does to the locals of threads: those of others stay.        *)
LEMMA LocalSteps ==
    ASSUME AccountInv, NEW t \in Threads, Step(t), NEW o \in Threads, o # t
    PROVE  pc'[o] = pc[o] /\ atomic'[o] = atomic[o]
<1>1. /\ \E l \in Locations : pc' = [pc EXCEPT ![t] = l]
      /\ atomic' = atomic \/ \E b \in BOOLEAN : atomic' = [atomic EXCEPT ![t] = b]
  BY DEF Step, Register, Create, CreateFails, Disable, LockRow, Commit, Resend, Read, Rotate,
         Mail, MailFails, Restore, Validate, Verify, SignUpWithGoogle, SignInWithGoogle,
         Mark, ResetPassword, CheckChange, Change, Finish, Goto, localVars, Locations,
         AccountInv, TypeOK, Row
<1> QED
  BY <1>1 DEF AccountInv, TypeOK

(* How the thread of the step stands afterwards.                           *)
LEMMA OwnStep ==
    ASSUME AccountInv, NEW t \in Threads, Step(t)
    PROVE  /\ atomic'[t] => pc'[t] \in Locking /\ user.status # "none"
           /\ pc'[t] \in {"locking", "committing"} => atomic'[t]
           /\ atomic'[t] /\ pc'[t] \in {"mailing", "committing"} => lock' = t
           /\ lock = t /\ lock' = t => atomic'[t] /\ pc'[t] # "locking"
           /\ LockRow(t) \/ Rotate(t) => atomic'[t] = atomic[t] /\ pc'[t] # "locking"
<1> USE AccountAssumption
    DEF AccountInv, TypeOK, LockHeld, Transactions, Locking, Goto, Finish, localVars
<1>1. CASE \E p \in Passwords \cup {Blank} : Register(t, p)
  <2>1. PICK l \in {"creating", "reading", "locking"} :
          pc' = [pc EXCEPT ![t] = l] /\ (l = "locking" => user.status = "unverified")
    BY <1>1 DEF Register, Row
  <2>2. atomic' = [atomic EXCEPT ![t] = (user.status = "unverified")]
    BY <1>1, Zenon DEF Register
  <2>3. user.status = "unverified" => pc'[t] \in Locking
    BY <1>1, <2>1 DEF Register
  <2>4. atomic'[t] <=> user.status = "unverified"
    BY <2>2
  <2>5. lock # t /\ lock' = lock
    BY <1>1 DEF Register, rowVars
  <2> QED
    BY <1>1, <2>1, <2>3, <2>4, <2>5 DEF Register, LockRow, Rotate
<1>2. CASE Create(t) \/ CreateFails(t) \/ Disable(t)
  BY <1>2 DEF Create, CreateFails, Disable, LockRow, Rotate
<1>3. CASE LockRow(t)
  BY <1>3 DEF LockRow, Rotate, Write, rowVars
<1>4. CASE Commit(t)
  BY <1>4 DEF Commit, LockRow, Rotate
<1>5. CASE Resend(t) \/ Read(t)
  BY <1>5 DEF Resend, Read, LockRow, Rotate, rowVars
<1>6. CASE Rotate(t)
  BY <1>6 DEF Rotate, LockRow, Write
<1>7. CASE Mail(t)
  BY <1>7 DEF Mail, LockRow, Rotate, rowVars
<1>8. CASE MailFails(t) \/ Restore(t)
  BY <1>8 DEF MailFails, Restore, LockRow, Rotate, rowVars
<1>9. CASE \E n \in links, p \in Passwords : Validate(t, n, p)
  <2>1. PICK n \in links, p \in Passwords : Validate(t, n, p)
    BY <1>9
  <2>2. pc[t] = "idle" /\ pc'[t] = "verifying" /\ atomic' = atomic /\ lock' = lock
    BY <2>1 DEF Validate, rowVars
  <2>3. ~atomic[t] /\ ~LockRow(t) /\ ~Rotate(t)
    BY <2>2 DEF LockRow, Rotate
  <2> QED
    BY <2>2, <2>3
<1>10. CASE Verify(t) \/ SignUpWithGoogle(t) \/ SignInWithGoogle(t) \/ Mark(t)
  BY <1>10 DEF Verify, SignUpWithGoogle, SignInWithGoogle, Mark, LockRow, Rotate, rowVars
<1>11. CASE \E p \in Passwords : ResetPassword(t, p)
  BY <1>11 DEF ResetPassword, LockRow, Rotate
<1>12. CASE \E c \in Passwords \cup {Blank}, p \in Passwords : CheckChange(t, c, p)
  BY <1>12 DEF CheckChange, LockRow, Rotate, rowVars
<1>13. CASE Change(t)
  BY <1>13 DEF Change, LockRow, Rotate
<1> QED
  BY <1>1, <1>2, <1>3, <1>4, <1>5, <1>6, <1>7, <1>8, <1>9, <1>10, <1>11, <1>12, <1>13
     DEF Step

LEMMA StepKeeps ==
    ASSUME AccountInv, NEW t \in Threads, Step(t)
    PROVE  AccountInv'
<1>1. TypeOK' /\ NonceDrawn'
  <2>1. CASE \/ \E p \in Passwords \cup {Blank} : Register(t, p)
             \/ Create(t) \/ CreateFails(t) \/ Disable(t) \/ LockRow(t) \/ Commit(t)
    <3>1. PICK p \in Passwords \cup {Blank} :
            \/ Register(t, p)
            \/ Create(t) \/ CreateFails(t) \/ Disable(t) \/ LockRow(t) \/ Commit(t)
      BY <2>1
    <3> QED
      BY <3>1, RegisterTypes DEF AccountInv
  <2>2. CASE Resend(t) \/ Read(t) \/ Rotate(t) \/ Mail(t) \/ MailFails(t) \/ Restore(t)
    BY <2>2, MailTypes DEF AccountInv
  <2>3. CASE \/ \E n \in links, p \in Passwords : Validate(t, n, p)
             \/ Verify(t) \/ SignUpWithGoogle(t) \/ SignInWithGoogle(t) \/ Mark(t)
             \/ \E p \in Passwords : ResetPassword(t, p)
             \/ \E c \in Passwords \cup {Blank}, p \in Passwords : CheckChange(t, c, p)
             \/ Change(t)
    BY <2>3, UserTypes DEF AccountInv
  <2> QED
    BY <2>1, <2>2, <2>3 DEF Step
<1>2. Transactions'
  <2>1. ASSUME NEW o \in Threads, atomic'[o]
        PROVE  pc'[o] \in Locking /\ user'.status # "none"
    <3>1. pc'[o] \in Locking /\ user.status # "none"
      BY <2>1, OwnStep, LocalSteps DEF AccountInv, Transactions
    <3> QED
      BY <3>1, RowSteps
  <2>2. ASSUME NEW o \in Threads, pc'[o] \in {"locking", "committing"}
        PROVE  atomic'[o]
    BY <2>2, OwnStep, LocalSteps DEF AccountInv, Transactions
  <2> QED
    BY <2>1, <2>2 DEF Transactions
<1>3. LockHeld'
  <2>1. ASSUME lock' # Nobody PROVE atomic'[lock'] /\ pc'[lock'] # "locking"
    <3>1. lock' \in Threads
      BY <1>1, <2>1 DEF TypeOK
    <3>2. CASE lock' # t
      BY <2>1, <3>1, <3>2, LockSteps, LocalSteps DEF AccountInv, LockHeld
    <3>3. CASE lock' = t /\ lock = t
      BY <3>3, OwnStep
    <3>4. CASE lock' = t /\ lock # t
      BY <3>4, LockSteps, OwnStep
    <3> QED
      BY <3>2, <3>3, <3>4
  <2>2. ASSUME NEW o \in Threads, atomic'[o], pc'[o] \in {"mailing", "committing"}
        PROVE  lock' = o
    <3>1. CASE o = t
      BY <2>2, <3>1, OwnStep
    <3>2. CASE o # t
      <4>1. lock = o
        BY <2>2, <3>2, LocalSteps DEF AccountInv, LockHeld
      <4> QED
        BY <3>2, <4>1, LockSteps, AccountAssumption
    <3> QED
      BY <3>1, <3>2
  <2> QED
    BY <2>1, <2>2 DEF LockHeld
<1>4. DraftFollows'
  <2> SUFFICES ASSUME lock' # Nobody
               PROVE  /\ draft'.status = user'.status
                      /\ user'.status = "verified" => draft'.password = user'.password
    BY DEF DraftFollows
  <2> USE AccountAssumption
  <2>1. CASE LockRow(t)
    BY <2>1 DEF LockRow, Write, rowVars, AccountInv, TypeOK, Row, Transactions, DraftFollows
  <2>2. CASE Rotate(t)
    <3>1. CASE atomic[t] /\ lock = t
      BY <2>2, <3>1 DEF Rotate, Write, Sees, AccountInv, TypeOK, Row, DraftFollows
    <3>2. CASE atomic[t] /\ lock # t
      BY <2>2, <3>2 DEF Rotate, Write, Sees, AccountInv, TypeOK, Row
    <3>3. CASE ~atomic[t]
      BY <2>2, <3>3 DEF Rotate, Write, Free, AccountInv, LockHeld
    <3> QED
      BY <3>1, <3>2, <3>3
  <2>3. CASE ~(LockRow(t) \/ Rotate(t))
    <3>1. draft' = draft /\ lock' = lock
      BY <2>3, LockSteps
    <3>2. ~Commit(t)
      BY DEF Commit
    <3> QED
      BY <3>1, <3>2, LockedRowStays DEF AccountInv, DraftFollows
  <2> QED
    BY <2>1, <2>2, <2>3
<1> QED
  BY <1>1, <1>2, <1>3, <1>4 DEF AccountInv

LEMMA AccountInvariant == Spec => []AccountInv
<1>1. AccountInv /\ [Next]_vars => AccountInv'
  <2>1. CASE UNCHANGED vars
    BY <2>1 DEF vars, rowVars, mailVars, localVars, AccountInv, TypeOK, NonceDrawn,
                Transactions, LockHeld, DraftFollows
  <2> QED
    BY <2>1, StepKeeps DEF Next
<1> QED
  BY <1>1, InitAccount, PTL DEF Spec

-----------------------------------------------------------------------------
(* Every variable keeps its type, in a row, a draft and every thread.      *)
THEOREM TypeCorrect == Spec => []TypeOK
<1>1. AccountInv => TypeOK
  BY DEF AccountInv
<1> QED
  BY <1>1, AccountInvariant, PTL

(* A verified account stays verified (services.py:352, views.py:119).      *)
THEOREM VerifiedStays == Spec => VerifiedForGood
<1>1. AccountInv /\ [Next]_vars
        => [user.status = "verified" => user'.status = "verified"]_vars
  BY RowSteps DEF Next
<1> QED
  BY <1>1, AccountInvariant, PTL DEF Spec, VerifiedForGood

(* A re-registration spares the password of a verified user                *)
(* (register/adapters.py:45).                                              *)
THEOREM VerifiedPasswordSpared == Spec => ReregistrationSparesVerified
<1>1. AccountInv /\ [Next]_vars =>
        [\A t \in Threads :
            pc[t] \in {"locking", "committing"} /\ pc'[t] # pc[t]
            /\ user.status = "verified" => user'.password = user.password]_vars
  <2> SUFFICES ASSUME AccountInv, Next, NEW t \in Threads,
                      pc[t] \in {"locking", "committing"}, pc'[t] # pc[t],
                      user.status = "verified"
               PROVE  user'.password = user.password
    BY DEF vars
  <2>1. PICK o \in Threads : Step(o)
    BY DEF Next
  <2>2. o = t
    BY <2>1, LocalSteps
  <2>3. LockRow(t) \/ Commit(t)
    BY <2>1, <2>2 DEF Step, Register, Create, CreateFails, Disable, Resend, Read, Rotate,
         Mail, MailFails, Restore, Validate, Verify, SignUpWithGoogle, SignInWithGoogle,
         Mark, ResetPassword, CheckChange, Change
  <2>4. CASE LockRow(t)
    BY <2>4 DEF LockRow, rowVars
  <2>5. CASE Commit(t)
    BY <2>5, AccountAssumption
       DEF Commit, AccountInv, Transactions, LockHeld, DraftFollows
  <2> QED
    BY <2>3, <2>4, <2>5
<1> QED
  BY <1>1, AccountInvariant, PTL DEF Spec, ReregistrationSparesVerified
-----------------------------------------------------------------------------
(* A link is accepted once if only one thread verifies: the first time,    *)
(* the account becomes verified for good, and no other check passed before *)
(* is left.  AccountDoubleVerify shows two verifiers break it.             *)
OneVerifier == \A u, v \in Verifiers : u = v
UsedOnVerified ==
    /\ \A t \in Threads : pc[t] = "verifying" => t \in Verifiers
    /\ \/ \A n \in 1 .. MaxNonce : used[n] = 0
       \/ /\ LinkUsedOnce
          /\ user.status = "verified"
          /\ \A t \in Threads : pc[t] # "verifying"

(* The last link works if only one thread sends.  Until then the nonce of  *)
(* that link is in the row, in the draft, or in the row the thread read    *)
(* and will put back; what it is mailing is in the row or in the draft.    *)
OneSender == \A u, v \in Senders : u = v
Lasts(r) == latest # 0 => r.nonce = latest
LastKept ==
    /\ \A t \in Threads : pc[t] \in Sending => t \in Senders
    /\ \A t \in Threads : pc[t] \in {"creating", "disabling", "restoring"} => ~atomic[t]
    /\ user.status = "none" =>
        latest = 0 /\ \A t \in Threads : pc[t] \in Sending => pc[t] = "creating"
    /\ user.status = "unverified" =>
        /\ \/ Lasts(user)
           \/ \E t \in Senders : pc[t] \in {"mailing", "restoring"} /\ ~atomic[t]
           \/ \E t \in Senders : pc[t] = "committing"
        /\ lock # Nobody /\ pc[lock] \notin {"mailing", "committing"} => Lasts(draft)
        /\ \A t \in Senders :
              /\ pc[t] \in {"rotating", "restoring"} => Lasts(row[t])
              /\ pc[t] = "mailing" /\ ~atomic[t] => Lasts(row[t]) /\ user.nonce = mine[t]
              /\ pc[t] = "mailing" /\ atomic[t] => Lasts(user) /\ draft.nonce = mine[t]
              /\ pc[t] = "committing" => draft.nonce = latest

-----------------------------------------------------------------------------
LEMMA VerifyVerifies ==
    ASSUME AccountInv, NEW t \in Threads, Verify(t)
    PROVE  /\ user'.status = "verified"
           /\ pc' = [pc EXCEPT ![t] = "idle"]
           /\ used' = [used EXCEPT ![mine[t]] = used[mine[t]] + 1]
BY DEF Verify, Write, Finish, Goto, AccountInv, Transactions, Locking

(* Only Verify counts a use, and only Validate lets a thread verify.       *)
LEMMA VerifyingSteps ==
    ASSUME AccountInv, NEW t \in Threads, Step(t)
    PROVE  /\ ~Verify(t) => used' = used
           /\ pc'[t] = "verifying" => t \in Verifiers /\ user.status = "unverified"
<1> USE DEF Finish, Goto, AccountInv, TypeOK
<1>1. CASE \E p \in Passwords \cup {Blank} : Register(t, p)
  BY <1>1 DEF Register, Row
<1>2. CASE Create(t) \/ CreateFails(t) \/ Disable(t) \/ LockRow(t) \/ Commit(t)
  BY <1>2 DEF Create, CreateFails, Disable, LockRow, Commit
<1>3. CASE Resend(t) \/ Read(t) \/ Rotate(t) \/ Mail(t) \/ MailFails(t) \/ Restore(t)
  BY <1>3 DEF Resend, Read, Rotate, Mail, MailFails, Restore
<1>4. CASE \E n \in links, p \in Passwords : Validate(t, n, p)
  BY <1>4 DEF Validate
<1>5. CASE Verify(t) \/ SignUpWithGoogle(t) \/ SignInWithGoogle(t) \/ Mark(t)
  BY <1>5 DEF Verify, SignUpWithGoogle, SignInWithGoogle, Mark
<1>6. CASE \E p \in Passwords : ResetPassword(t, p)
  BY <1>6 DEF ResetPassword
<1>7. CASE \E c \in Passwords \cup {Blank}, p \in Passwords : CheckChange(t, c, p)
  BY <1>7 DEF CheckChange
<1>8. CASE Change(t)
  BY <1>8 DEF Change
<1> QED
  BY <1>1, <1>2, <1>3, <1>4, <1>5, <1>6, <1>7, <1>8 DEF Step

LEMMA UsedStep ==
    ASSUME OneVerifier, AccountInv, UsedOnVerified, NEW t \in Threads, Step(t)
    PROVE  UsedOnVerified'
<1>1. ASSUME NEW o \in Threads, pc'[o] = "verifying" PROVE o \in Verifiers
  BY <1>1, VerifyingSteps, LocalSteps DEF UsedOnVerified
<1>2. CASE Verify(t)
  <2>1. \A n \in 1 .. MaxNonce : used[n] = 0
    BY <1>2 DEF Verify, UsedOnVerified
  <2>2. LinkUsedOnce'
    <3>1. used \in [1 .. MaxNonce -> Nat]
      BY DEF AccountInv, TypeOK
    <3>2. used' = [used EXCEPT ![mine[t]] = used[mine[t]] + 1]
      BY <1>2, VerifyVerifies
    <3>3. ASSUME NEW n \in 1 .. MaxNonce PROVE used'[n] <= 1
      BY <2>1, <3>1, <3>2
    <3> QED  BY <3>3 DEF LinkUsedOnce
  <2>3. ASSUME NEW o \in Threads PROVE pc'[o] # "verifying"
    <3>1. CASE o = t
      BY <1>2, <3>1, VerifyVerifies DEF AccountInv, TypeOK
    <3>2. CASE o # t
      BY <1>1, <1>2, <3>2, LocalSteps DEF OneVerifier, UsedOnVerified, Verify
    <3> QED  BY <3>1, <3>2
  <2> QED  BY <1>1, <1>2, <2>2, <2>3, VerifyVerifies DEF UsedOnVerified
<1>3. CASE ~Verify(t)
  <2>1. used' = used
    BY <1>3, VerifyingSteps
  <2>2. CASE \A n \in 1 .. MaxNonce : used[n] = 0
    BY <1>1, <2>1, <2>2 DEF UsedOnVerified
  <2>3. CASE LinkUsedOnce /\ user.status = "verified" /\ \A o \in Threads : pc[o] # "verifying"
    <3>1. user'.status = "verified"
      BY <2>3, RowSteps
    <3>2. ASSUME NEW o \in Threads PROVE pc'[o] # "verifying"
      BY <2>3, VerifyingSteps, LocalSteps
    <3> QED  BY <1>1, <2>1, <2>3, <3>1, <3>2 DEF UsedOnVerified, LinkUsedOnce
  <2> QED  BY <2>2, <2>3 DEF UsedOnVerified
<1> QED  BY <1>2, <1>3

(* A link verifies at most once, for any number of threads of every other  *)
(* kind, if no two verify at a time: an old nonce that a failed mail puts  *)
(* back does not verify again (views.py:89-121, services.py:376).          *)
THEOREM UsedOnceByOneVerifier ==
    ASSUME OneVerifier PROVE Spec => []LinkUsedOnce
<1>1. Init => UsedOnVerified
  BY DEF Init, UsedOnVerified
<1>2. AccountInv /\ UsedOnVerified /\ [Next]_vars => UsedOnVerified'
  <2>1. CASE UNCHANGED vars
    BY <2>1 DEF vars, rowVars, UsedOnVerified, LinkUsedOnce
  <2> QED  BY <2>1, UsedStep DEF Next
<1>3. UsedOnVerified => LinkUsedOnce
  BY DEF UsedOnVerified, LinkUsedOnce
<1> QED  BY <1>1, <1>2, <1>3, AccountInvariant, PTL DEF Spec

-----------------------------------------------------------------------------
(* What the threads that do not send do to what a sender relies on.        *)
LEMMA OthersSpareTheMail ==
    ASSUME AccountInv, LastKept, NEW t \in Threads, t \notin Senders, Step(t)
    PROVE  /\ \/ user'.status = "verified"
              \/ user'.status = user.status /\ user'.nonce = user.nonce
           /\ UNCHANGED <<lock, draft, latest>>
           /\ \A o \in Senders : UNCHANGED <<pc[o], atomic[o], row[o], mine[o]>>
           /\ pc'[t] \notin Sending
<1> USE AccountAssumption
    DEF AccountInv, TypeOK, Row, Transactions, Locking, Sending, LastKept, Finish, Goto, Write,
        Locations, rowVars, mailVars, localVars
<1>1. pc[t] \notin Sending /\ ~atomic[t]
  OBVIOUS
<1>2. CASE \E n \in links, p \in Passwords : Validate(t, n, p)
  BY <1>1, <1>2 DEF Validate
<1>3. CASE Verify(t)
  <2>1. user'.status = "verified" /\ UNCHANGED <<lock, draft, latest>>
    BY <1>1, <1>3 DEF Verify
  <2>2. /\ pc' = [pc EXCEPT ![t] = "idle"] /\ row' = [row EXCEPT ![t] = NoUser]
        /\ atomic' = [atomic EXCEPT ![t] = FALSE] /\ mine' = [mine EXCEPT ![t] = 0]
    BY <1>3 DEF Verify
  <2> QED  BY <1>1, <2>1, <2>2
<1>4. CASE SignUpWithGoogle(t)
  BY <1>1, <1>4 DEF SignUpWithGoogle
<1>5. CASE SignInWithGoogle(t)
  BY <1>1, <1>5 DEF SignInWithGoogle
<1>6. CASE Mark(t)
  BY <1>1, <1>6 DEF Mark
<1>7. CASE \E p \in Passwords : ResetPassword(t, p)
  <2>1. PICK p \in Passwords : ResetPassword(t, p)
    BY <1>7
  <2>2. user' = [user EXCEPT !.password = p] /\ UNCHANGED <<lock, draft, latest>>
    BY <1>1, <2>1 DEF ResetPassword
  <2>3. /\ pc' = [pc EXCEPT ![t] = "idle"] /\ row' = [row EXCEPT ![t] = NoUser]
        /\ atomic' = [atomic EXCEPT ![t] = FALSE] /\ mine' = [mine EXCEPT ![t] = 0]
    BY <2>1 DEF ResetPassword
  <2> QED  BY <1>1, <2>2, <2>3
<1>8. CASE \E c \in Passwords \cup {Blank}, p \in Passwords : CheckChange(t, c, p)
  BY <1>1, <1>8 DEF CheckChange
<1>9. CASE Change(t)
  BY <1>1, <1>9 DEF Change
<1> QED
  BY <1>1, <1>2, <1>3, <1>4, <1>5, <1>6, <1>7, <1>8, <1>9
     DEF Step, Register, Create, CreateFails, Disable, LockRow, Commit, Resend, Read, Rotate,
         Mail, MailFails, Restore

LEMMA OthersKeepLast ==
    ASSUME AccountInv, LastKept, NEW t \in Threads, t \notin Senders, Step(t)
    PROVE  LastKept'
<1>1. \A o \in Threads : pc'[o] \in Sending => o \in Senders
  BY OthersSpareTheMail, LocalSteps DEF LastKept
<1>2. \A o \in Threads : pc'[o] \in {"creating", "disabling", "restoring"} => ~atomic'[o]
  <2>1. ASSUME NEW o \in Threads, pc'[o] \in {"creating", "disabling", "restoring"}
        PROVE  ~atomic'[o]
    <3>1. o \in Senders
      BY <1>1, <2>1 DEF Sending
    <3> QED  BY <2>1, <3>1, OthersSpareTheMail DEF LastKept
  <2> QED  BY <2>1
<1>3. user'.status = "none" =>
        latest' = 0 /\ \A o \in Threads : pc'[o] \in Sending => pc'[o] = "creating"
  <2>1. user'.status = "none" => user.status = "none" /\ latest' = latest
    BY OthersSpareTheMail
  <2>2. \A o \in Threads : pc'[o] \in Sending => pc'[o] = pc[o]
    BY OthersSpareTheMail, LocalSteps
  <2> QED  BY <2>1, <2>2 DEF LastKept
<1>4. lock \in Senders \cup {Nobody}
  BY DEF AccountInv, TypeOK, LockHeld, Transactions, LastKept, Locking, Sending
<1>5. user'.status = "unverified" => user.status = "unverified" /\ user'.nonce = user.nonce
  BY OthersSpareTheMail
<1> QED  BY <1>1, <1>2, <1>3, <1>4, <1>5, OthersSpareTheMail DEF LastKept, Lasts

(* The sender's own steps.                                                 *)
LEMMA SenderKeepsLast ==
    ASSUME OneSender, AccountInv, LastKept, NEW t \in Senders, Step(t)
    PROVE  LastKept'
<1>a. t \in Threads /\ \A o \in Senders : o = t
  BY AccountAssumption DEF OneSender
<1>b. \A o \in Threads : o # t => pc[o] \notin Sending /\ ~atomic[o]
  BY <1>a DEF LastKept, AccountInv, Transactions, Locking, Sending
<1>c. \A o \in Threads : o # t => pc'[o] = pc[o] /\ atomic'[o] = atomic[o]
  BY <1>a, LocalSteps
<1>d. lock \in {t, Nobody}
  BY <1>b DEF AccountInv, TypeOK, LockHeld
<1>0. /\ t \in Threads /\ \A o \in Senders : o = t
      /\ \A o \in Threads : o # t => pc[o] \notin Sending /\ ~atomic[o]
      /\ \A o \in Threads : o # t => pc'[o] = pc[o] /\ atomic'[o] = atomic[o]
      /\ lock \in {t, Nobody}
  BY <1>a, <1>b, <1>c, <1>d
<1> USE <1>0, AccountAssumption
    DEF AccountInv, TypeOK, Row, Transactions, Locking, LockHeld, DraftFollows, Sending,
        LastKept, Lasts, Finish, Goto, Write, Draw, Locations, NoUser, rowVars, mailVars,
        localVars
<1>1. CASE \E p \in Passwords \cup {Blank} : Register(t, p)
  BY <1>1 DEF Register
<1>2. CASE Create(t)
  BY <1>2 DEF Create
<1>3. CASE CreateFails(t)
  BY <1>3 DEF CreateFails
<1>4. CASE Disable(t)
  BY <1>4 DEF Disable
<1>5. CASE LockRow(t)
  BY <1>5 DEF LockRow
<1>6. CASE Commit(t)
  BY <1>6 DEF Commit
<1>7. CASE Resend(t)
  BY <1>7 DEF Resend
<1>8. CASE Read(t)
  BY <1>8 DEF Read, Sees
<1>9. CASE Rotate(t)
  <2>1. /\ pc[t] = "rotating" /\ mine' = [mine EXCEPT ![t] = nonces']
        /\ pc' = [pc EXCEPT ![t] = "mailing"]
        /\ UNCHANGED <<links, latest, row, atomic, secret>>
    BY <1>9 DEF Rotate
  <2>2. CASE atomic[t]
    <3>1. draft' = [Sees(t) EXCEPT !.nonce = nonces'] /\ lock' = t /\ UNCHANGED user
      BY <1>9, <2>2 DEF Rotate
    <3>2. Sees(t) \in Row
      BY DEF Sees
    <3>3. draft'.nonce = nonces' /\ mine'[t] = nonces'
      BY <2>1, <3>1, <3>2
    <3> QED  BY <2>1, <2>2, <3>1, <3>3
  <2>3. CASE ~atomic[t]
    <3>1. user' = [Sees(t) EXCEPT !.nonce = nonces'] /\ UNCHANGED <<lock, draft>>
      BY <1>9, <2>3 DEF Rotate
    <3>2. Sees(t) = user /\ lock = Nobody
      BY <2>3 DEF Sees
    <3>3. user'.nonce = nonces' /\ mine'[t] = nonces' /\ user'.status = user.status
      BY <2>1, <3>1, <3>2
    <3> QED  BY <2>1, <2>3, <3>1, <3>2, <3>3
  <2> QED  BY <2>2, <2>3
<1>10. CASE Mail(t)
  <2>1. pc[t] = "mailing" /\ latest' = mine[t] /\ UNCHANGED rowVars
    BY <1>10 DEF Mail
  <2>2. CASE atomic[t]
    <3>1. pc' = [pc EXCEPT ![t] = "committing"] /\ UNCHANGED <<row, atomic, mine>>
      BY <1>10, <2>2 DEF Mail
    <3>2. lock = t /\ user.status # "none"
      BY <2>1, <2>2
    <3> QED  BY <2>1, <2>2, <3>1, <3>2
  <2>3. CASE ~atomic[t]
    <3>1. Finish(t)
      BY <1>10, <2>3 DEF Mail
    <3>2. lock = Nobody
      BY <2>3
    <3>3. user.status # "none"
      BY <2>1, <2>3
    <3> QED  BY <2>1, <2>3, <3>1, <3>2, <3>3
  <2> QED  BY <2>2, <2>3
<1>11. CASE MailFails(t)
  <2>1. pc[t] = "mailing" /\ UNCHANGED latest
    BY <1>11 DEF MailFails
  <2>2. CASE atomic[t]
    <3>1. lock' = Nobody /\ UNCHANGED user /\ Finish(t)
      BY <1>11, <2>2 DEF MailFails
    <3> QED  BY <2>1, <2>2, <3>1
  <2>3. CASE ~atomic[t]
    <3>1. pc' = [pc EXCEPT ![t] = "restoring"] /\ UNCHANGED <<rowVars, row, atomic, mine>>
      BY <1>11, <2>3 DEF MailFails
    <3>2. lock = Nobody
      BY <2>3
    <3> QED  BY <2>1, <2>3, <3>1, <3>2
  <2> QED  BY <2>2, <2>3
<1>12. CASE Restore(t)
  BY <1>12 DEF Restore
<1>13. CASE \E n \in links, p \in Passwords : Validate(t, n, p)
  BY <1>13 DEF Validate
<1>14. CASE Verify(t) \/ SignUpWithGoogle(t)
  <2>1. /\ pc[t] \in {"verifying", "idle"} /\ ~atomic[t]
        /\ pc' = [pc EXCEPT ![t] = "idle"] /\ atomic' = [atomic EXCEPT ![t] = FALSE]
        /\ UNCHANGED latest
    BY <1>14 DEF Verify, SignUpWithGoogle
  <2>2. user'.status = "verified"
    BY <1>14, <2>1 DEF Verify, SignUpWithGoogle
  <2> QED  BY <2>1, <2>2
<1>15. CASE SignInWithGoogle(t) \/ Mark(t)
  <2>1. CASE SignInWithGoogle(t)
    BY <2>1 DEF SignInWithGoogle
  <2>2. CASE Mark(t)
    <3>1. /\ pc[t] = "marking" /\ ~atomic[t]
          /\ pc' = [pc EXCEPT ![t] = "idle"] /\ atomic' = [atomic EXCEPT ![t] = FALSE]
          /\ UNCHANGED latest
      BY <2>2 DEF Mark
    <3>2. user'.status = "verified"
      BY <2>2, <3>1 DEF Mark
    <3> QED  BY <3>1, <3>2
  <2> QED  BY <1>15, <2>1, <2>2
<1>16. CASE \E p \in Passwords : ResetPassword(t, p)
  BY <1>16 DEF ResetPassword
<1>17. CASE \E c \in Passwords \cup {Blank}, p \in Passwords : CheckChange(t, c, p)
  BY <1>17 DEF CheckChange
<1>18. CASE Change(t)
  BY <1>18 DEF Change
<1> QED
  BY <1>1, <1>2, <1>3, <1>4, <1>5, <1>6, <1>7, <1>8, <1>9, <1>10, <1>11, <1>12, <1>13,
     <1>14, <1>15, <1>16, <1>17, <1>18 DEF Step

(* The last link that was mailed is the one that verifies, for any number  *)
(* of threads of every other kind, if no two send at a time: whatever      *)
(* fails or is rolled back after it (services.py:372).                     *)
THEOREM LastLinkOfOneSender ==
    ASSUME OneSender PROVE Spec => []LastLinkWorks
<1>1. Init => LastKept
  BY DEF Init, LastKept, NoUser, Sending, Lasts
<1>2. AccountInv /\ LastKept /\ [Next]_vars => LastKept'
  <2>1. CASE UNCHANGED vars
    BY <2>1 DEF vars, rowVars, mailVars, localVars, LastKept, Lasts
  <2> QED  BY <2>1, OthersKeepLast, SenderKeepsLast DEF Next
<1>3. LastKept => LastLinkWorks
  BY AccountAssumption DEF LastKept, LastLinkWorks, Lasts, Sending
<1> QED  BY <1>1, <1>2, <1>3, AccountInvariant, PTL DEF Spec
=============================================================================
