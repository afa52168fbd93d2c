---------------------------- MODULE RecordProofs ----------------------------
(***************************************************************************)
(* What holds of a record, of its making and of its use.  First            *)
(* GenerateRequest, which makes it, and the Refinement its workflow runs.  *)
(* What makes one key exclusive is that a workflow ends before its lock    *)
(* expires: Longest < TTL is the hypothesis of the theorems that need it.  *)
(*                                                                         *)
(* Then HistoryExport, of any number of downloads and deletions of the     *)
(* record: half written files are neither recorded nor served, the file    *)
(* that is recorded is removed by deletions and from outside only, and a   *)
(* deleted record has no row.  A request that runs by itself succeeds, and *)
(* only one that did not may leave a file without a row behind.            *)
(***************************************************************************)
EXTENDS GenerateRequest, Refinement, HistoryExport, SequenceTheorems, TLAPS

(* The request that runs holds the lock it took, and it is not yet due.    *)
HoldsLock ==
    \A r \in Requests : Runs(r) =>
        /\ payload[r] \in Payloads
        /\ record.state = "in_progress"
        /\ record.hash = payload[r]
        /\ record.expires = started[r] + TTL
        /\ now <= started[r] + Longest

LockIsHeld == record.state = "in_progress" => \E r \in Requests : Runs(r)

EntryWellFormed ==
    /\ record.state = "absent" => record = NoRecord
    /\ record.state = "in_progress" => record.reply = NoReply
    /\ record.state # "absent" => record.hash \in Payloads

Waiting == \A r \in Requests : pc[r] # "idle" => payload[r] \in Payloads

(* The output i was stored for the payload p. *)
StoredFor(i, p) ==
    \/ \E o \in outputs : o.id = i /\ o.payload = p
    \/ p \in InSession /\ ~alive

RepliesStored ==
    /\ record.state = "completed" =>
          /\ record.reply.payload = record.hash
          /\ record.reply.status = "ok" => StoredFor(record.reply.output, record.hash)
    /\ \A r \in Requests : pc[r] \in {"archiving", "completing"} =>
          /\ reply[r].payload = payload[r]
          /\ reply[r].status = "ok" => StoredFor(reply[r].output, payload[r])

(* While an output is younger than TTL the key remembers it. *)
Remembered(o) ==
    \/ now >= o.at + TTL
    \/ \E r \in Requests : pc[r] \in {"archiving", "completing"}
    \/ record.state = "completed" /\ record.expires >= o.at + TTL

Ages ==
    \A o \in outputs :
        /\ o.id <= made
        /\ o.at <= now
        /\ o.boot <= boot
        /\ o.boot = boot => Remembered(o)

ExclusiveInv ==
    /\ TypeOK
    /\ OneRunAtATime
    /\ HoldsLock
    /\ LockIsHeld
    /\ EntryWellFormed
    /\ Waiting

IInv == ExclusiveInv /\ RepliesStored /\ Ages /\ OutputsApart /\ ReplayIsOriginal

-----------------------------------------------------------------------------
(***************************************************************************)
(* The kinds of step a request takes, as far as the lock is concerned.     *)
(***************************************************************************)
Others(r, f) == \A s \in Requests \ {r} : f'[s] = f[s]

(* The workflow goes on. *)
Onward(r) ==
    /\ Runs(r)
    /\ \E l \in Executing : pc' = [pc EXCEPT ![r] = l]
    /\ answer' = NoAnswer
    /\ UNCHANGED <<clockVars, record, payload, started>>

(* A request that does not run looks the key up. *)
Aside(r) ==
    /\ ~Runs(r)
    /\ \E l \in {"idle", "missed", "contended"} :
          /\ pc' = [pc EXCEPT ![r] = l]
          /\ l # "idle" => payload'[r] \in Payloads
    /\ Others(r, payload) /\ Others(r, started) /\ Others(r, reply)
    /\ UNCHANGED <<clockVars, record, dbVars>>

Failing(r) == Runs(r) /\ Release(r) /\ UNCHANGED <<clockVars, dbVars>>

(* The response a live record gives: its fields, and when it replays. *)
LEMMA RefusalFacts ==
    ASSUME TypeOK, NEW p \in Payloads, Read # NoRecord
    PROVE  /\ Read = record
           /\ Refusal(Read, p).kind \in {"reused", "in_progress", "replayed"}
           /\ Refusal(Read, p).reply \in Replies
           /\ Refusal(Read, p).kind = "replayed" =>
                 /\ record.state = "completed"
                 /\ record.hash = p
                 /\ Refusal(Read, p).reply = record.reply
<1>1. Read = record /\ record.state # "absent"
  BY DEF Read
<1>2. record.state \in {"in_progress", "completed"} /\ record.reply \in Replies
  BY <1>1 DEF TypeOK
<1>3. NoReply \in Replies
  BY DEF NoReply, Replies
<1>4. CASE record.hash # p
  BY <1>1, <1>3, <1>4 DEF Refusal
<1>5. CASE record.hash = p /\ record.state = "in_progress"
  BY <1>1, <1>3, <1>5 DEF Refusal
<1>6. CASE record.hash = p /\ record.state = "completed"
  BY <1>1, <1>2, <1>6 DEF Refusal
<1> QED
  BY <1>2, <1>4, <1>5, <1>6

(* Every step of a request is of one of five kinds. *)
LEMMA StepKinds ==
    ASSUME TypeOK, Waiting, NEW r \in Requests, Step(r)
    PROVE  Onward(r) \/ Aside(r) \/ Failing(r) \/ Acquire(r) \/ Complete(r)
<1> USE DEF TypeOK, Runs, Executing, Goto
<1>1. ASSUME NEW p \in Payloads, Arrive(r, p) PROVE Aside(r)
  BY <1>1 DEF Arrive, Aside, AnswerWith, Others, dbVars, clockVars
<1>2. ASSUME Contend(r) PROVE Aside(r)
  BY <1>2 DEF Contend, Aside, Others, Waiting, dbVars, clockVars
<1>3. ASSUME LookAgain(r) PROVE Aside(r)
  BY <1>3 DEF LookAgain, Aside, AnswerWith, Others, dbVars, clockVars
<1>4. ASSUME Resolve(r) \/ ResolveFails(r) PROVE Onward(r)
  BY <1>4 DEF Resolve, ResolveFails, ClientError, Onward, clockVars
<1>5. ASSUME Generate(r) \/ GenerateRefused(r) PROVE Onward(r)
  BY <1>5 DEF Generate, GenerateRefused, ClientError, Onward, clockVars
<1>6. ASSUME Attach(r) \/ Persist(r) \/ Archive(r) PROVE Onward(r)
  BY <1>6 DEF Attach, Persist, Archive, Onward, clockVars
<1>7. ASSUME GenerateFails(r) \/ AttachFails(r) \/ PersistFails(r) PROVE Failing(r)
  BY <1>7 DEF GenerateFails, AttachFails, PersistFails, Failing
<1> QED
  BY <1>1, <1>2, <1>3, <1>4, <1>5, <1>6, <1>7 DEF Step

-----------------------------------------------------------------------------
(***************************************************************************)
(* Types.                                                                  *)
(***************************************************************************)
LEMMA InitType == Init => TypeOK
  BY GenerateAssumption
  DEF Init, TypeOK, NoRecord, NoReply, NoAnswer, Replies

LEMMA ValueTypes ==
    /\ NoReply \in Replies
    /\ NoRecord \in [state : {"absent", "in_progress", "completed"},
                     hash : Payloads \cup {NoPayload}, reply : Replies, expires : Nat]
    /\ NoAnswer \in [kind : {"none", "error", "fresh", "reused", "in_progress", "replayed"},
                     asked : Payloads \cup {NoPayload}, reply : Replies]
  BY DEF NoReply, NoRecord, NoAnswer, Replies

LEMMA StepType ==
    ASSUME TypeOK, Waiting, NEW r \in Requests, Step(r)
    PROVE  TypeOK'
<1> USE GenerateAssumption, ValueTypes DEF TypeOK, Executing, Goto
<1>1. ASSUME NEW p \in Payloads, Arrive(r, p) PROVE TypeOK'
  <2>1. CASE Read = NoRecord
    BY <1>1, <2>1 DEF Arrive, dbVars, clockVars
  <2>2. CASE Read # NoRecord
    BY <1>1, <2>2, RefusalFacts DEF Arrive, AnswerWith, dbVars, clockVars
  <2> QED BY <2>1, <2>2
<1>2. ASSUME Acquire(r) PROVE TypeOK'
  BY <1>2 DEF Acquire, Lock, dbVars, clockVars
<1>3. ASSUME Contend(r) PROVE TypeOK'
  BY <1>3 DEF Contend, dbVars, clockVars
<1>4. ASSUME LookAgain(r) PROVE TypeOK'
  <2>1. payload[r] \in Payloads
    BY <1>4 DEF LookAgain, Waiting
  <2>2. CASE Read = NoRecord
    BY <1>4, <2>1, <2>2 DEF LookAgain, AnswerWith, dbVars, clockVars
  <2>3. CASE Read # NoRecord
    BY <1>4, <2>1, <2>3, RefusalFacts DEF LookAgain, AnswerWith, dbVars, clockVars
  <2> QED BY <2>2, <2>3
<1>5. ASSUME Resolve(r) \/ Generate(r) PROVE TypeOK'
  BY <1>5 DEF Resolve, Generate, dbVars, clockVars
<1>6. ASSUME ResolveFails(r) \/ GenerateRefused(r) PROVE TypeOK'
  <2>1. [status |-> "client_error", payload |-> payload[r], output |-> 0] \in Replies
    BY DEF Replies
  <2>2. reply' \in [Requests -> Replies]
    BY <1>6, <2>1 DEF ResolveFails, GenerateRefused, ClientError
  <2>3. pc' \in [Requests -> {"idle", "missed", "contended"} \cup Executing]
    BY <1>6 DEF ResolveFails, GenerateRefused, ClientError
  <2>4. UNCHANGED <<now, boot, record, payload, started, alive, messages, outputs,
                    made, artifacts>> /\ answer' = NoAnswer
    BY <1>6 DEF ResolveFails, GenerateRefused, ClientError, dbVars, clockVars
  <2> QED
    BY <2>2, <2>3, <2>4
<1>7. ASSUME GenerateFails(r) \/ AttachFails(r) \/ PersistFails(r) PROVE TypeOK'
  <2>1. Release(r) /\ UNCHANGED <<clockVars, dbVars>>
    BY <1>7 DEF GenerateFails, AttachFails, PersistFails
  <2> QED
    BY <2>1 DEF Release, AnswerWith, dbVars, clockVars
<1>8. ASSUME Attach(r) PROVE TypeOK'
  BY <1>8 DEF Attach, clockVars
<1>9. ASSUME Persist(r) PROVE TypeOK'
  <2>1. payload[r] \in Payloads
    BY <1>9 DEF Persist, Waiting
  <2>2. [status |-> "ok", payload |-> payload[r], output |-> made + 1] \in Replies
    BY <2>1 DEF Replies
  <2> QED
    BY <1>9, <2>1, <2>2 DEF Persist, clockVars
<1>10. ASSUME Archive(r) PROVE TypeOK'
  <2>1. reply[r].output \in Nat
    BY DEF Replies
  <2> QED
    BY <1>10, <2>1 DEF Archive, clockVars
<1>11. ASSUME Complete(r) PROVE TypeOK'
  BY <1>11 DEF Complete, AnswerWith, dbVars, clockVars
<1> QED
  BY <1>1, <1>2, <1>3, <1>4, <1>5, <1>6, <1>7, <1>8, <1>9, <1>10, <1>11 DEF Step

LEMMA NextType == TypeOK /\ Waiting /\ [Next]_vars => TypeOK'
<1> SUFFICES ASSUME TypeOK, Waiting, [Next]_vars PROVE TypeOK'
  OBVIOUS
<1>1. ASSUME NEW r \in Requests, Step(r) PROVE TypeOK'
  BY <1>1, StepType
<1>2. ASSUME DeleteSession PROVE TypeOK'
  BY <1>2, ValueTypes DEF TypeOK, DeleteSession, clockVars, threadVars
<1>3. ASSUME Tick PROVE TypeOK'
  BY <1>3, ValueTypes DEF TypeOK, Tick, threadVars, dbVars
<1>4. ASSUME Restart PROVE TypeOK'
  BY <1>4, ValueTypes DEF TypeOK, Restart, dbVars
<1>5. ASSUME UNCHANGED vars PROVE TypeOK'
  BY <1>5 DEF TypeOK, vars, clockVars, threadVars, dbVars
<1> QED
  BY <1>1, <1>2, <1>3, <1>4, <1>5 DEF Next

-----------------------------------------------------------------------------
(***************************************************************************)
(* The lock.                                                               *)
(***************************************************************************)
LEMMA StepExclusive ==
    ASSUME ExclusiveInv, Longest < TTL, NEW r \in Requests, Step(r), TypeOK'
    PROVE  OneRunAtATime' /\ HoldsLock' /\ LockIsHeld' /\ EntryWellFormed' /\ Waiting'
<1> USE GenerateAssumption
<1> DEFINE Kept == OneRunAtATime' /\ HoldsLock' /\ LockIsHeld' /\ EntryWellFormed' /\ Waiting'
<1>0. TypeOK /\ Waiting
  BY DEF ExclusiveInv
<1>1. ASSUME Onward(r) PROVE Kept
  BY <1>1 DEF Onward, ExclusiveInv, TypeOK, OneRunAtATime, HoldsLock, LockIsHeld,
              EntryWellFormed, Waiting, Runs, Executing, clockVars, NoRecord
<1>2. ASSUME Aside(r) PROVE Kept
  <2>1. /\ \A s \in Requests : Runs(s)' <=> Runs(s)
        /\ \A s \in Requests : Runs(s) => payload'[s] = payload[s] /\ started'[s] = started[s]
        /\ UNCHANGED <<now, record>>
    BY <1>2 DEF Aside, Others, Runs, Executing, clockVars, ExclusiveInv, TypeOK
  <2>2. OneRunAtATime' /\ HoldsLock' /\ LockIsHeld'
    BY <2>1 DEF ExclusiveInv, OneRunAtATime, HoldsLock, LockIsHeld
  <2>3. EntryWellFormed'
    BY <2>1 DEF ExclusiveInv, EntryWellFormed, NoRecord, NoReply
  <2>4. Waiting'
    BY <1>2 DEF Aside, Others, ExclusiveInv, TypeOK, Waiting
  <2> QED BY <2>2, <2>3, <2>4
<1>3. ASSUME Failing(r) PROVE Kept
  <2>1. /\ \A s \in Requests : ~Runs(s)'
        /\ record' = NoRecord
    BY <1>3 DEF Failing, Release, AnswerWith, Runs, Executing, ExclusiveInv, TypeOK,
                OneRunAtATime
  <2>2. OneRunAtATime' /\ HoldsLock' /\ LockIsHeld' /\ EntryWellFormed'
    BY <2>1 DEF OneRunAtATime, HoldsLock, LockIsHeld, EntryWellFormed, NoRecord, NoReply
  <2>3. Waiting'
    BY <1>3 DEF Failing, Release, AnswerWith, ExclusiveInv, TypeOK, Waiting
  <2> QED BY <2>2, <2>3
<1>4. ASSUME Acquire(r) PROVE Kept
  <2>1. \A s \in Requests : ~Runs(s)
    BY <1>4 DEF Acquire, Read, NoRecord, ExclusiveInv, TypeOK, HoldsLock
  <2>2. /\ \A s \in Requests : Runs(s)' <=> s = r
        /\ record' = Lock(r, payload[r])
        /\ payload' = payload /\ payload[r] \in Payloads
        /\ now' = now /\ started'[r] = now
    BY <1>4, <2>1 DEF Acquire, Goto, Runs, Executing, clockVars, ExclusiveInv, TypeOK, Waiting
  <2>3. OneRunAtATime' /\ HoldsLock' /\ LockIsHeld' /\ EntryWellFormed'
    BY <2>2, <1>0 DEF OneRunAtATime, HoldsLock, LockIsHeld, EntryWellFormed, Lock, TypeOK
  <2>4. Waiting'
    BY <1>4 DEF Acquire, Goto, ExclusiveInv, TypeOK, Waiting
  <2> QED BY <2>3, <2>4
<1>5. ASSUME Complete(r) PROVE Kept
  <2>1. /\ \A s \in Requests : ~Runs(s)'
        /\ record'.state = "completed" /\ record'.hash \in Payloads
    BY <1>5 DEF Complete, AnswerWith, Runs, Executing, ExclusiveInv, TypeOK, OneRunAtATime,
                Waiting
  <2>2. OneRunAtATime' /\ HoldsLock' /\ LockIsHeld' /\ EntryWellFormed'
    BY <2>1 DEF OneRunAtATime, HoldsLock, LockIsHeld, EntryWellFormed
  <2>3. Waiting'
    BY <1>5 DEF Complete, AnswerWith, ExclusiveInv, TypeOK, Waiting
  <2> QED BY <2>2, <2>3
<1> QED
  BY <1>0, <1>1, <1>2, <1>3, <1>4, <1>5, StepKinds

LEMMA InitExclusive == Init => ExclusiveInv
  BY InitType
  DEF Init, ExclusiveInv, OneRunAtATime, HoldsLock, LockIsHeld, EntryWellFormed, Waiting,
      Runs, Executing, NoRecord

LEMMA NextExclusive ==
    ASSUME ExclusiveInv, Longest < TTL, [Next]_vars
    PROVE  ExclusiveInv'
<1>0. TypeOK'
  BY NextType DEF ExclusiveInv
<1>1. ASSUME NEW r \in Requests, Step(r) PROVE ExclusiveInv'
  BY <1>0, <1>1, StepExclusive DEF ExclusiveInv
<1>2. ASSUME DeleteSession \/ UNCHANGED vars PROVE ExclusiveInv'
  <2>1. UNCHANGED <<now, record, pc, payload, started>>
    BY <1>2 DEF DeleteSession, vars, clockVars, threadVars
  <2> QED
    BY <1>0, <2>1 DEF ExclusiveInv, OneRunAtATime, HoldsLock, LockIsHeld, EntryWellFormed,
                      Waiting, Runs, NoRecord, NoReply
<1>3. ASSUME Tick PROVE ExclusiveInv'
  <2>1. /\ UNCHANGED <<record, pc, payload, started>>
        /\ \A r \in Requests : Runs(r) => now' <= started[r] + Longest
    BY <1>3, GenerateAssumption DEF Tick, threadVars, ExclusiveInv, TypeOK
  <2> QED
    BY <1>0, <2>1 DEF ExclusiveInv, OneRunAtATime, HoldsLock, LockIsHeld, EntryWellFormed,
                      Waiting, Runs, NoRecord, NoReply
<1>4. ASSUME Restart PROVE ExclusiveInv'
  BY <1>0, <1>4 DEF Restart, ExclusiveInv, OneRunAtATime, HoldsLock, LockIsHeld,
                    EntryWellFormed, Waiting, Runs, Executing, NoRecord
<1> QED
  BY <1>1, <1>2, <1>3, <1>4 DEF Next

(* Two requests with one key never run the workflow at the same time,      *)
(* whatever the number of requests and of payloads, as long as a workflow  *)
(* takes less than the lock's time to live.                                *)
THEOREM RunsAlone ==
    ASSUME Longest < TTL
    PROVE  Spec => []OneRunAtATime
<1>1. ExclusiveInv /\ [Next]_vars => ExclusiveInv'
  BY NextExclusive
<1>2. ExclusiveInv => OneRunAtATime
  BY DEF ExclusiveInv
<1> QED
  BY <1>1, <1>2, InitExclusive, PTL DEF Spec

(* No failure path leaves a key locked: a key reported as in progress has  *)
(* a request at work on the very payload.                                  *)
THEOREM LocksAreReleased ==
    ASSUME Longest < TTL
    PROVE  Spec => []LockHasRunner
<1>1. ExclusiveInv /\ [Next]_vars => ExclusiveInv'
  BY NextExclusive
<1>2. ExclusiveInv => LockHasRunner
  BY DEF ExclusiveInv, LockHasRunner, LockIsHeld, HoldsLock, Read, NoRecord
<1> QED
  BY <1>1, <1>2, InitExclusive, PTL DEF Spec

-----------------------------------------------------------------------------
(***************************************************************************)
(* What is replayed.  Storing an output for the payload that runs, and     *)
(* deleting the session, both keep StoredFor.                              *)
(***************************************************************************)
ReplayInv == ExclusiveInv /\ RepliesStored

LEMMA StoredForKept ==
    ASSUME NEW i, NEW p, StoredFor(i, p),
           (outputs \subseteq outputs' /\ alive' = alive) \/ DeleteSession
    PROVE  StoredFor(i, p)'
  BY DEF StoredFor, DeleteSession

LEMMA StepReplies ==
    ASSUME ReplayInv, Longest < TTL, NEW r \in Requests, Step(r)
    PROVE  RepliesStored'
<1> USE DEF TypeOK, Goto
<1>0. /\ TypeOK /\ Waiting
      /\ outputs \subseteq outputs' /\ alive' = alive
  <2>1. CASE Onward(r)
    <3>1. CASE Persist(r)
      BY <3>1 DEF Persist, ReplayInv, ExclusiveInv
    <3>2. CASE ~Persist(r)
      BY <2>1, <3>2 DEF Step, Onward, Arrive, Acquire, Contend, LookAgain, Resolve,
         ResolveFails, Generate, GenerateRefused, GenerateFails, Attach, AttachFails,
         PersistFails, Archive, Complete, ReplayInv, ExclusiveInv, dbVars
    <3> QED BY <3>1, <3>2
  <2>2. CASE Aside(r) \/ Failing(r) \/ Acquire(r) \/ Complete(r)
    BY <2>2 DEF Aside, Failing, Acquire, Complete, dbVars, ReplayInv, ExclusiveInv
  <2> QED
    BY <2>1, <2>2, StepKinds DEF ReplayInv, ExclusiveInv
<1>1. \A i, p : StoredFor(i, p) => StoredFor(i, p)'
  BY <1>0, StoredForKept
<1> DEFINE
      Entry == record.state = "completed" =>
                 /\ record.reply.payload = record.hash
                 /\ record.reply.status = "ok" => StoredFor(record.reply.output, record.hash)
      Made(s) == pc[s] \in {"archiving", "completing"} =>
                 /\ reply[s].payload = payload[s]
                 /\ reply[s].status = "ok" => StoredFor(reply[s].output, payload[s])
<1>2. Entry /\ \A s \in Requests : Made(s)
  BY DEF ReplayInv, RepliesStored
<1>3. ASSUME NEW s \in Requests \ {r} PROVE Made(s)'
  <2>1. pc'[s] = pc[s] /\ reply'[s] = reply[s] /\ payload'[s] = payload[s]
    BY <1>0 DEF Step, Arrive, Acquire, Contend, LookAgain, Resolve,
         ResolveFails, Generate, GenerateRefused, GenerateFails, Attach, AttachFails, Persist,
         PersistFails, Archive, Complete, ClientError, Release, AnswerWith
  <2> QED
    BY <2>1, <1>1, <1>2
<1>4. ASSUME Aside(r) \/ Failing(r) \/ Acquire(r) PROVE Entry' /\ Made(r)'
  <2>1. pc'[r] \notin {"archiving", "completing"}
    BY <1>0, <1>4 DEF Aside, Failing, Release, AnswerWith, Acquire
  <2>2. record' = record \/ record' = NoRecord \/ record' = Lock(r, payload[r])
    BY <1>4 DEF Aside, Failing, Release, Acquire
  <2> QED
    BY <2>1, <2>2, <1>1, <1>2 DEF NoRecord, Lock
<1>5. ASSUME Complete(r) PROVE Entry' /\ Made(r)'
  <2>1. /\ pc[r] = "completing" /\ pc'[r] = "idle"
        /\ record'.reply = reply[r] /\ record'.hash = payload[r]
    BY <1>0, <1>5 DEF Complete, AnswerWith
  <2> QED
    BY <2>1, <1>1, <1>2
<1>6. ASSUME Onward(r) PROVE Entry' /\ Made(r)'
  <2>1. Entry'
    BY <1>6, <1>1, <1>2 DEF Onward
  <2>2. CASE Persist(r)
    <3>1. /\ reply'[r] = [status |-> "ok", payload |-> payload[r], output |-> made + 1]
          /\ payload' = payload
          /\ [id |-> made + 1, payload |-> payload[r], at |-> now, boot |-> boot] \in outputs'
      BY <1>0, <2>2 DEF Persist
    <3>2. PICK i, p : i = made + 1 /\ p = payload[r]
      OBVIOUS
    <3>3. StoredFor(i, p)'
      BY <3>1, <3>2 DEF StoredFor
    <3>4. reply'[r].payload = payload'[r] /\ reply'[r].output = i /\ payload'[r] = p
      BY <3>1, <3>2
    <3> QED BY <2>1, <3>3, <3>4
  <2>3. CASE ResolveFails(r) \/ GenerateRefused(r)
    BY <1>0, <2>1, <2>3 DEF ResolveFails, GenerateRefused, ClientError
  <2>4. CASE Archive(r)
    BY <1>0, <1>1, <1>2, <2>1, <2>4 DEF Archive
  <2>5. CASE Resolve(r) \/ Generate(r) \/ Attach(r)
    BY <1>0, <2>1, <2>5 DEF Resolve, Generate, Attach
  <2> QED
    BY <1>0, <1>6, <2>2, <2>3, <2>4, <2>5 DEF Step, Onward, Runs, Executing, Arrive, Acquire,
       Contend, LookAgain, GenerateFails, AttachFails, PersistFails, Complete, Release,
       AnswerWith
<1>7. Entry' /\ Made(r)'
  BY <1>0, <1>4, <1>5, <1>6, StepKinds
<1> QED
  BY <1>3, <1>7 DEF RepliesStored

LEMMA NextReplay ==
    ASSUME ReplayInv, Longest < TTL, [Next]_vars
    PROVE  ReplayInv'
<1>0. ExclusiveInv'
  BY NextExclusive DEF ReplayInv
<1>1. ASSUME NEW r \in Requests, Step(r) PROVE RepliesStored'
  BY <1>1, StepReplies
<1>2. ASSUME DeleteSession PROVE RepliesStored'
  <2>1. \A i, p : StoredFor(i, p) => StoredFor(i, p)'
    BY <1>2, StoredForKept
  <2> QED
    BY <1>2, <2>1 DEF DeleteSession, threadVars, ReplayInv, RepliesStored
<1>3. ASSUME Tick \/ UNCHANGED vars PROVE RepliesStored'
  BY <1>3 DEF Tick, vars, threadVars, dbVars, ReplayInv, RepliesStored, StoredFor
<1>4. ASSUME Restart PROVE RepliesStored'
  BY <1>4 DEF Restart, RepliesStored, NoRecord
<1> QED
  BY <1>0, <1>1, <1>2, <1>3, <1>4 DEF Next, ReplayInv

(* The one answer that is not the request's own comes from an entry whose  *)
(* hash is what is asked.                                                  *)
LEMMA ReplayStep ==
    ASSUME ReplayInv, ReplayIsOriginal, Longest < TTL, [Next]_vars
    PROVE  ReplayIsOriginal'
<1>0. TypeOK /\ Waiting
  BY DEF ReplayInv, ExclusiveInv
<1> DEFINE Replays(p) == /\ Read # NoRecord
                         /\ answer'.kind = Refusal(Read, p).kind
                         /\ answer'.reply = Refusal(Read, p).reply
                         /\ answer'.asked = p
<1>1. ASSUME NEW p \in Payloads, Replays(p), UNCHANGED dbVars PROVE ReplayIsOriginal'
  <2>1. answer'.kind = "replayed" => /\ record.state = "completed"
                                    /\ record.hash = p
                                    /\ answer'.reply = record.reply
    BY <1>0, <1>1, RefusalFacts
  <2> QED
    BY <1>1, <2>1 DEF ReplayIsOriginal, ReplayInv, RepliesStored, StoredFor, dbVars
<1>2. ASSUME answer'.kind # "replayed" PROVE ReplayIsOriginal'
  BY <1>2 DEF ReplayIsOriginal
<1>3. ASSUME NEW r \in Requests, Step(r) PROVE ReplayIsOriginal'
  <2>1. ASSUME NEW p \in Payloads, Arrive(r, p) PROVE ReplayIsOriginal'
    BY <2>1, <1>1, <1>2 DEF Arrive, AnswerWith, Goto, NoAnswer
  <2>2. ASSUME LookAgain(r) PROVE ReplayIsOriginal'
    <3>1. payload[r] \in Payloads
      BY <1>0, <2>2 DEF LookAgain, Waiting
    <3> QED
      BY <2>2, <3>1, <1>1, <1>2 DEF LookAgain, AnswerWith
  <2>3. ASSUME Acquire(r) \/ Contend(r) \/ Onward(r) PROVE ReplayIsOriginal'
    BY <2>3, <1>2 DEF Acquire, Contend, Onward, Goto, NoAnswer
  <2>4. ASSUME Failing(r) \/ Complete(r) PROVE ReplayIsOriginal'
    BY <2>4, <1>2 DEF Failing, Release, Complete, AnswerWith
  <2>5. CASE Aside(r)
    <3>1. \/ \E p \in Payloads : Arrive(r, p)
          \/ LookAgain(r) \/ Contend(r)
      BY <1>0, <1>3, <2>5 DEF Step, Aside, Runs, Executing, Acquire, Resolve, ResolveFails,
         Generate, GenerateRefused, GenerateFails, Attach, AttachFails, Persist, PersistFails,
         Archive, Complete, Goto, TypeOK
    <3> QED
      BY <3>1, <2>1, <2>2, <2>3
  <2> QED
    BY <1>0, <1>3, <2>3, <2>4, <2>5, StepKinds
<1>4. ASSUME DeleteSession \/ Tick \/ Restart PROVE ReplayIsOriginal'
  BY <1>4, <1>2 DEF DeleteSession, Tick, Restart, NoAnswer
<1>5. ASSUME UNCHANGED vars PROVE ReplayIsOriginal'
  BY <1>5 DEF ReplayIsOriginal, vars, dbVars
<1> QED
  BY <1>3, <1>4, <1>5 DEF Next

(* A replayed answer is the one stored for the payload that asks, for      *)
(* every number of requests and payloads.                                  *)
THEOREM ReplaysAreOriginal ==
    ASSUME Longest < TTL
    PROVE  Spec => []ReplayIsOriginal
<1> DEFINE Inv == ReplayInv /\ ReplayIsOriginal
<1>1. Init => Inv
  BY InitExclusive DEF Init, ReplayInv, RepliesStored, ReplayIsOriginal, NoRecord, NoAnswer
<1>2. Inv /\ [Next]_vars => Inv'
  BY NextReplay, ReplayStep
<1> QED
  BY <1>1, <1>2, PTL DEF Spec

-----------------------------------------------------------------------------
(***************************************************************************)
(* The age of outputs.                                                     *)
(***************************************************************************)
AgeInv == ExclusiveInv /\ Ages /\ OutputsApart

(* Every step but Persist leaves the outputs, or drops some.               *)
LEMMA OutputsShrink ==
    ASSUME NEW r \in Requests, Step(r), ~Persist(r)
    PROVE  outputs' = outputs /\ made' = made
  BY DEF Step, Arrive, Acquire, Contend, LookAgain, Resolve, ResolveFails, Generate,
     GenerateRefused, GenerateFails, Attach, AttachFails, PersistFails, Archive, Complete,
     dbVars

(* An output stays remembered until it is TTL old: by the request that     *)
(* stored it, then by the completed entry.                                 *)
LEMMA StepRemembers ==
    ASSUME AgeInv, Longest < TTL, NEW r \in Requests, Step(r), NEW o \in outputs,
           o.boot = boot
    PROVE  Remembered(o)'
<1> USE GenerateAssumption
<1>0. /\ TypeOK /\ Waiting /\ OneRunAtATime /\ HoldsLock
      /\ o.at \in Nat /\ o.at <= now
      /\ Remembered(o)
  BY DEF AgeInv, ExclusiveInv, Ages, TypeOK
<1>1. now' = now
  BY <1>0, StepKinds DEF Onward, Aside, Failing, Acquire, Complete, clockVars
<1>2. CASE now >= o.at + TTL
  BY <1>1, <1>2 DEF Remembered
<1>3. ASSUME NEW s \in Requests, pc[s] \in {"archiving", "completing"} PROVE Remembered(o)'
  <2>1. CASE Complete(r)
    <3>1. record'.state = "completed" /\ record'.expires = now + TTL
      BY <2>1 DEF Complete
    <3> QED
      BY <1>0, <1>1, <3>1 DEF Remembered, TypeOK
  <2>2. CASE ~Complete(r)
    <3>1. pc'[s] \in {"archiving", "completing"}
      BY <1>0, <1>3, <2>2 DEF TypeOK, Runs, Executing, OneRunAtATime, Step, Arrive, Acquire,
         Contend, LookAgain, Resolve, ResolveFails, Generate, GenerateRefused,
         GenerateFails, Attach, AttachFails, Persist, PersistFails, Archive, ClientError,
         Release, AnswerWith, Goto
    <3> QED
      BY <3>1 DEF Remembered
  <2> QED BY <2>1, <2>2
<1>4. CASE record.state = "completed" /\ record.expires >= o.at + TTL
  <2>1. \A s \in Requests : ~Runs(s)
    BY <1>0, <1>4 DEF HoldsLock
  <2>2. CASE Aside(r)
    BY <1>1, <1>4, <2>2 DEF Aside, Remembered
  <2>3. CASE Acquire(r)
    <3>1. now >= record.expires
      BY <1>0, <1>4, <2>3 DEF Acquire, Read, NoRecord, TypeOK
    <3> QED
      BY <1>0, <1>1, <1>4, <3>1 DEF Remembered, TypeOK
  <2> QED
    BY <1>0, <2>1, <2>2, <2>3, StepKinds DEF Onward, Failing, Complete, Runs, Executing
<1> QED
  BY <1>0, <1>2, <1>3, <1>4 DEF Remembered

LEMMA StepAges ==
    ASSUME AgeInv, Longest < TTL, NEW r \in Requests, Step(r)
    PROVE  Ages' /\ OutputsApart'
<1> USE GenerateAssumption
<1>0. TypeOK /\ Waiting /\ OneRunAtATime /\ HoldsLock
  BY DEF AgeInv, ExclusiveInv
<1>1. now' = now /\ boot' = boot
  BY <1>0, StepKinds DEF Onward, Aside, Failing, Acquire, Complete, clockVars
<1>2. CASE ~Persist(r)
  <2>1. outputs' = outputs /\ made' = made
    BY <1>2, OutputsShrink
  <2>2. OutputsApart'
    BY <2>1 DEF AgeInv, OutputsApart
  <2>3. Ages'
    BY <1>1, <2>1, StepRemembers DEF AgeInv, Ages
  <2> QED BY <2>2, <2>3
<1>3. CASE Persist(r)
  <2>1. PICK n : n = [id |-> made + 1, payload |-> payload[r], at |-> now, boot |-> boot]
    OBVIOUS
  <2>2. outputs' = outputs \cup {n} /\ made' = made + 1 /\ pc'[r] = "archiving"
    BY <1>0, <1>3, <2>1 DEF Persist, Goto, TypeOK
  <2>3. Ages'
    <3>1. ASSUME NEW o \in outputs'
          PROVE /\ o.id <= made' /\ o.at <= now' /\ o.boot <= boot'
                /\ o.boot = boot' => Remembered(o)'
      <4>1. CASE o \in outputs
        <5>1. o.id \in Nat /\ o.id <= made /\ o.at <= now /\ o.boot <= boot /\ made \in Nat
          BY <4>1, <1>0 DEF AgeInv, Ages, TypeOK
        <5> QED
          BY <1>1, <2>2, <4>1, <5>1, StepRemembers
      <4>2. CASE o = n
        BY <1>0, <1>1, <2>1, <2>2, <4>2 DEF TypeOK, Remembered
      <4> QED BY <2>2, <3>1, <4>1, <4>2
    <3> QED BY <3>1 DEF Ages
  <2>4. ASSUME NEW o \in outputs, o.boot = boot PROVE now >= o.at + TTL
    <3>1. Remembered(o)
      BY <2>4 DEF AgeInv, Ages
    <3>2. record.state = "in_progress" /\ Runs(r) /\ pc[r] = "persisting"
      BY <1>0, <1>3 DEF Persist, Runs, Executing, HoldsLock
    <3>3. \A s \in Requests : pc[s] \notin {"archiving", "completing"}
      BY <1>0, <3>2 DEF OneRunAtATime, Runs, Executing
    <3> QED
      BY <3>1, <3>2, <3>3 DEF Remembered
  <2>5. OutputsApart'
    <3>1. ASSUME NEW o \in outputs', NEW p \in outputs', o.id < p.id, o.boot = p.boot
          PROVE p.at >= o.at + TTL
      <4>1. CASE o \in outputs /\ p \in outputs
        BY <3>1, <4>1 DEF AgeInv, OutputsApart
      <4>2. CASE o \in outputs /\ p = n
        BY <2>1, <2>4, <3>1, <4>2
      <4>3. CASE o = n
        <5>1. p.id <= made + 1 /\ p.id \in Nat /\ made \in Nat
          BY <1>0, <2>1, <2>2 DEF AgeInv, Ages, TypeOK
        <5> QED
          BY <2>1, <3>1, <4>3, <5>1
      <4> QED BY <2>2, <3>1, <4>1, <4>2, <4>3
    <3> QED BY <3>1 DEF OutputsApart
  <2> QED BY <2>3, <2>5
<1> QED BY <1>2, <1>3

LEMMA NextAges ==
    ASSUME AgeInv, Longest < TTL, [Next]_vars
    PROVE  AgeInv'
<1> USE GenerateAssumption
<1>0. ExclusiveInv' /\ TypeOK
  BY NextExclusive DEF AgeInv, ExclusiveInv
<1>1. ASSUME NEW r \in Requests, Step(r) PROVE Ages' /\ OutputsApart'
  BY <1>1, StepAges
<1>2. ASSUME DeleteSession PROVE Ages' /\ OutputsApart'
  <2>1. outputs' \subseteq outputs /\ UNCHANGED <<made, now, boot, record, pc>>
    BY <1>2 DEF DeleteSession, clockVars, threadVars
  <2> QED
    BY <2>1 DEF AgeInv, Ages, OutputsApart, Remembered
<1>3. ASSUME Tick PROVE Ages' /\ OutputsApart'
  <2>1. UNCHANGED <<outputs, made, boot, record, pc>> /\ now' = now + 1
    BY <1>3 DEF Tick, threadVars, dbVars
  <2>2. \A o \in outputs : o.at \in Nat /\ now \in Nat
    BY <1>0 DEF TypeOK
  <2> QED
    BY <2>1, <2>2 DEF AgeInv, Ages, OutputsApart, Remembered
<1>4. ASSUME Restart PROVE Ages' /\ OutputsApart'
  <2>1. UNCHANGED <<outputs, made, now>> /\ boot' = boot + 1
    BY <1>4 DEF Restart, dbVars
  <2>2. \A o \in outputs : o.boot \in Nat /\ boot \in Nat
    BY <1>0 DEF TypeOK
  <2> QED
    BY <2>1, <2>2 DEF AgeInv, Ages, OutputsApart
<1>5. ASSUME UNCHANGED vars PROVE Ages' /\ OutputsApart'
  BY <1>5 DEF AgeInv, Ages, OutputsApart, Remembered, vars, clockVars, threadVars, dbVars
<1> QED
  BY <1>0, <1>1, <1>2, <1>3, <1>4, <1>5 DEF Next, AgeInv

(* One server process does not store two outputs for a key within TTL of   *)
(* each other: a retry is answered, refused, or comes later.               *)
THEOREM NoRepeatedWork ==
    ASSUME Longest < TTL
    PROVE  Spec => []OutputsApart
<1>1. Init => AgeInv
  BY InitExclusive DEF Init, AgeInv, Ages, OutputsApart
<1>2. AgeInv /\ [Next]_vars => AgeInv'
  BY NextAges
<1>3. AgeInv => OutputsApart
  BY DEF AgeInv
<1> QED
  BY <1>1, <1>2, <1>3, PTL DEF Spec

-----------------------------------------------------------------------------
(***************************************************************************)
(* The refinement.                                                         *)
(***************************************************************************)
Holder == IF SomeoneRuns THEN payload[Runner] ELSE Read.hash
Done == IF SomeoneRuns
        THEN IF pc[Runner] \in {"archiving", "completing"}
                /\ reply[Runner].status = "ok" THEN 1 ELSE 0
        ELSE IF Read.reply.status = "ok" THEN 1 ELSE 0

(* What the abstract variables are while r runs, and while nobody does.    *)
DoneBy(r) == IF pc[r] \in {"archiving", "completing"} /\ reply[r].status = "ok"
             THEN 1 ELSE 0
Views ==
    /\ \A r \in Requests : Runs(r) => Holder = payload[r] /\ Done = DoneBy(r)
    /\ (\A r \in Requests : ~Runs(r)) =>
           /\ Holder = Read.hash
           /\ Done = IF Read.reply.status = "ok" THEN 1 ELSE 0

LEMMA RunnerView == OneRunAtATime => Views
<1> SUFFICES ASSUME OneRunAtATime PROVE Views
  OBVIOUS
<1>1. ASSUME NEW r \in Requests, Runs(r) PROVE Holder = payload[r] /\ Done = DoneBy(r)
  <2>1. SomeoneRuns
    BY <1>1 DEF SomeoneRuns
  <2>2. Runner \in Requests /\ Runs(Runner)
    BY <1>1 DEF Runner
  <2>3. Runner = r
    BY <1>1, <2>2 DEF OneRunAtATime
  <2> QED
    BY <2>1, <2>3 DEF Holder, Done, DoneBy
<1>2. ASSUME \A r \in Requests : ~Runs(r)
      PROVE  Holder = Read.hash /\ Done = IF Read.reply.status = "ok" THEN 1 ELSE 0
  BY <1>2 DEF SomeoneRuns, Holder, Done
<1> QED
  BY <1>1, <1>2 DEF Views

LEMMA RunnerViewNext == OneRunAtATime' => Views'
  BY RunnerView, PTL

(* The abstract step a transition is. *)
Claims == Holder = NoPayload /\ Holder' \in Payloads /\ Done' = 0 /\ made' = made
Produces == /\ Holder # NoPayload /\ Holder' = Holder
            /\ Done = 0 /\ Done' = 1 /\ made' = made + 1
GivesUp == Holder # NoPayload /\ Holder' = NoPayload /\ Done' = 0 /\ made' = made
Stays == Holder' = Holder /\ Done' = Done /\ made' = made
Abstract == Claims \/ Produces \/ GivesUp \/ Stays

LEMMA NobodyHolds ==
    ASSUME ExclusiveInv, Read = NoRecord, \A r \in Requests : ~Runs(r)
    PROVE  Holder = NoPayload /\ Done = 0
<1>1. Views
  BY RunnerView DEF ExclusiveInv
<1> QED
  BY <1>1 DEF Views, NoRecord, NoReply

(* Nobody runs in the next state, and the key is free: it was given up, or *)
(* it was free before.                                                     *)
LEMMA Freed ==
    ASSUME ExclusiveInv, ExclusiveInv', Read' = NoRecord, made' = made,
           \A r \in Requests : ~Runs(r)'
    PROVE  GivesUp \/ Stays
<1>1. Holder' = NoPayload /\ Done' = 0
  <2>1. Views'
    BY RunnerViewNext DEF ExclusiveInv
  <2> QED
    BY <2>1 DEF Views, NoRecord, NoReply
<1>2. CASE Holder # NoPayload
  BY <1>1, <1>2 DEF GivesUp
<1>3. CASE Holder = NoPayload
  <2>1. Views
    BY RunnerView DEF ExclusiveInv
  <2>2. \A r \in Requests : ~Runs(r)
    BY <1>3, <2>1, GenerateAssumption DEF Views, ExclusiveInv, HoldsLock
  <2>3. Read = NoRecord
    <3>1. Read.hash = NoPayload
      BY <1>3, <2>1, <2>2 DEF Views
    <3> QED
      BY <3>1, GenerateAssumption DEF ExclusiveInv, EntryWellFormed, Read
  <2> QED
    BY <1>1, <2>2, <2>3, NobodyHolds DEF Stays
<1> QED BY <1>2, <1>3

LEMMA StepRefines ==
    ASSUME ExclusiveInv, ExclusiveInv', Longest < TTL, NEW r \in Requests, Step(r)
    PROVE  Abstract
<1> USE GenerateAssumption
<1>0. /\ TypeOK /\ Waiting /\ OneRunAtATime /\ HoldsLock
      /\ Views /\ Views'
  BY RunnerView, RunnerViewNext DEF ExclusiveInv
<1>1. CASE Onward(r)
  <2>1. /\ Runs(r) /\ Runs(r)'
        /\ payload'[r] = payload[r] /\ payload[r] \in Payloads
    BY <1>0, <1>1 DEF Onward, Runs, TypeOK, HoldsLock
  <2>2. /\ Holder = payload[r] /\ Holder' = payload[r]
        /\ Done = DoneBy(r) /\ Done' = DoneBy(r)'
    BY <1>0, <2>1 DEF Views
  <2>3. CASE Persist(r)
    <3>1. DoneBy(r) = 0 /\ DoneBy(r)' = 1 /\ made' = made + 1
      BY <1>0, <2>3 DEF Persist, DoneBy, Goto, TypeOK
    <3> QED
      BY <2>1, <2>2, <3>1 DEF Produces, Abstract
  <2>4. CASE ~Persist(r)
    <3>1. made' = made
      BY <2>4, OutputsShrink
    <3>2. DoneBy(r)' = DoneBy(r)
      <4>1. \/ Resolve(r) \/ ResolveFails(r) \/ Generate(r) \/ GenerateRefused(r)
            \/ Attach(r) \/ Archive(r)
        BY <1>0, <1>1, <2>1, <2>4 DEF Step, Runs, Executing, Arrive, Acquire, Contend,
           LookAgain, GenerateFails, AttachFails, PersistFails, Complete, Release,
           AnswerWith, TypeOK
      <4>2. CASE ResolveFails(r) \/ GenerateRefused(r)
        BY <1>0, <4>2 DEF ResolveFails, GenerateRefused, ClientError, Goto, DoneBy, TypeOK
      <4>3. CASE Archive(r)
        BY <1>0, <4>3 DEF Archive, Goto, DoneBy, TypeOK
      <4>4. CASE Resolve(r) \/ Generate(r) \/ Attach(r)
        BY <1>0, <4>4 DEF Resolve, Generate, Attach, Goto, DoneBy, TypeOK
      <4> QED BY <4>1, <4>2, <4>3, <4>4
    <3> QED
      BY <2>2, <3>1, <3>2 DEF Stays, Abstract
  <2> QED BY <2>3, <2>4
<1>2. CASE Aside(r)
  <2>1. /\ \A s \in Requests : Runs(s)' <=> Runs(s)
        /\ \A s \in Requests : Runs(s) => /\ payload'[s] = payload[s] /\ pc'[s] = pc[s]
                                         /\ reply'[s] = reply[s]
        /\ Read' = Read /\ made' = made
    BY <1>0, <1>2 DEF Aside, Others, Runs, Executing, clockVars, dbVars, TypeOK, Read
  <2>2. Holder' = Holder /\ Done' = Done
    <3>1. CASE \A s \in Requests : ~Runs(s)
      BY <1>0, <2>1, <3>1 DEF Views
    <3>2. ASSUME NEW s \in Requests, Runs(s) PROVE Holder' = Holder /\ Done' = Done
      <4>1. DoneBy(s)' = DoneBy(s)
        BY <2>1, <3>2 DEF DoneBy
      <4> QED
        BY <1>0, <2>1, <3>2, <4>1 DEF Views
    <3> QED BY <3>1, <3>2
  <2> QED
    BY <2>1, <2>2 DEF Stays, Abstract
<1>3. CASE Failing(r)
  <2>1. /\ \A s \in Requests : ~Runs(s)'
        /\ Read' = NoRecord /\ made' = made
    BY <1>0, <1>3 DEF Failing, Release, AnswerWith, Runs, Executing, OneRunAtATime, Read,
                      NoRecord, TypeOK, dbVars
  <2> QED
    BY <2>1, Freed DEF Abstract
<1>4. CASE Acquire(r)
  <2>1. \A s \in Requests : ~Runs(s)
    BY <1>0, <1>4 DEF Acquire, Read, NoRecord, TypeOK, HoldsLock
  <2>2. Holder = NoPayload
    BY <1>4, <2>1, NobodyHolds DEF Acquire
  <2>3. Runs(r)' /\ payload'[r] \in Payloads /\ DoneBy(r)' = 0 /\ made' = made
    BY <1>0, <1>4 DEF Acquire, Goto, Runs, Executing, DoneBy, TypeOK, Waiting, dbVars
  <2> QED
    BY <1>0, <2>2, <2>3 DEF Views, Claims, Abstract
<1>5. CASE Complete(r)
  <2>1. /\ \A s \in Requests : ~Runs(s)'
        /\ Runs(r) /\ pc[r] = "completing"
        /\ made' = made
    BY <1>0, <1>5 DEF Complete, AnswerWith, Runs, Executing, OneRunAtATime, TypeOK, dbVars
  <2>2. Read'.hash = payload[r] /\ Read'.reply = reply[r]
    BY <1>0, <1>5 DEF Complete, Read, TypeOK, clockVars
  <2>3. Holder' = payload[r] /\ Done' = IF reply[r].status = "ok" THEN 1 ELSE 0
    BY <1>0, <2>1, <2>2 DEF Views
  <2>4. Holder = payload[r] /\ Done = IF reply[r].status = "ok" THEN 1 ELSE 0
    BY <1>0, <2>1 DEF Views, DoneBy
  <2> QED
    BY <2>1, <2>3, <2>4 DEF Stays, Abstract
<1> QED
  BY <1>0, <1>1, <1>2, <1>3, <1>4, <1>5, StepKinds

LEMMA NextRefines ==
    ASSUME ExclusiveInv, ExclusiveInv', Longest < TTL, [Next]_vars
    PROVE  Abstract
<1> USE GenerateAssumption
<1>0. TypeOK /\ HoldsLock /\ EntryWellFormed /\ Views /\ Views'
  BY RunnerView, RunnerViewNext DEF ExclusiveInv
<1>1. ASSUME NEW r \in Requests, Step(r) PROVE Abstract
  BY <1>1, StepRefines
<1> DEFINE Same == /\ UNCHANGED <<pc, payload, reply, made>>
                   /\ \A s \in Requests : DoneBy(s)' = DoneBy(s)
                   /\ \A s \in Requests : Runs(s)' <=> Runs(s)
<1>2. ASSUME UNCHANGED <<pc, payload, reply, made>> PROVE Same
  BY <1>2 DEF DoneBy, Runs
<1>3. ASSUME NEW s \in Requests, Runs(s), Same PROVE Abstract
  BY <1>0, <1>3 DEF Views, Stays, Abstract
<1>4. ASSUME \A s \in Requests : ~Runs(s), Same, Read' = Read PROVE Abstract
  BY <1>0, <1>4 DEF Views, Stays, Abstract
<1>5. ASSUME DeleteSession \/ UNCHANGED vars PROVE Abstract
  <2>1. Read' = Read /\ UNCHANGED <<pc, payload, reply, made>>
    BY <1>5 DEF DeleteSession, Read, vars, clockVars, threadVars, dbVars
  <2> QED
    BY <2>1, <1>2, <1>3, <1>4
<1>6. ASSUME Tick PROVE Abstract
  <2>1. UNCHANGED <<pc, payload, reply, made>> /\ (Read' = Read \/ Read' = NoRecord)
    BY <1>0, <1>6 DEF Tick, Read, NoRecord, NoReply, TypeOK, threadVars, dbVars
  <2>2. CASE \A s \in Requests : ~Runs(s)
    BY <2>1, <2>2, <1>2, <1>4, Freed DEF Abstract
  <2> QED
    BY <2>1, <2>2, <1>2, <1>3
<1>7. ASSUME Restart PROVE Abstract
  <2>1. Read' = NoRecord /\ made' = made /\ \A s \in Requests : ~Runs(s)'
    BY <1>7 DEF Restart, Read, NoRecord, Runs, Executing, dbVars
  <2> QED
    BY <2>1, Freed DEF Abstract
<1> QED
  BY <1>1, <1>5, <1>6, <1>7 DEF Next

(* The requests that carry the key implement IdempotentKey: from the lock  *)
(* to the expiry of the answer the key stands for one payload, and at most *)
(* one output is stored, by the request that took the lock.                *)
THEOREM KeyIsIdempotent ==
    ASSUME Longest < TTL
    PROVE  Spec => PromiseKept
<1> USE DEF PromiseKept, Promise!KeySpec
<1>1. Init => Promise!KeyInit
  <2> SUFFICES ASSUME Init PROVE Promise!KeyInit
    OBVIOUS
  <2>1. ExclusiveInv /\ Read = NoRecord /\ made = 0 /\ \A r \in Requests : ~Runs(r)
    BY InitExclusive DEF Init, Read, NoRecord, Runs, Executing
  <2>2. Holder = NoPayload /\ Done = 0
    BY <2>1, NobodyHolds
  <2> QED
    BY <2>1, <2>2 DEF Promise!KeyInit, Holder, Done
<1>2. ExclusiveInv /\ [Next]_vars => ExclusiveInv'
  BY NextExclusive
<1>3. ExclusiveInv /\ ExclusiveInv' /\ [Next]_vars => [Promise!KeyNext]_Promise!keyVars
  <2> SUFFICES ASSUME ExclusiveInv, ExclusiveInv', [Next]_vars
               PROVE  [Promise!KeyNext]_Promise!keyVars
    OBVIOUS
  <2>1. Abstract
    BY NextRefines
  <2> QED
    BY <2>1 DEF Abstract, Claims, Produces, GivesUp, Stays, Holder, Done,
       Promise!KeyNext, Promise!Claim, Promise!Produce, Promise!GiveUp, Promise!keyVars
<1> QED
  BY <1>1, <1>2, <1>3, InitExclusive, PTL DEF Spec

-----------------------------------------------------------------------------
(***************************************************************************)
(* The refinement of an output.  RefinementSound speaks of the end of a    *)
(* request; RefineInv says the same of every turn of the loop: the best so *)
(* far is the last of the best, the version of the schema is that of the   *)
(* prompts so far, and Stuck that no candidate since the last improvement  *)
(* was better, which is what a plateau is.                                 *)
(***************************************************************************)

Looping == {"schema", "prompt", "responses", "chat", "text"}
Candidate == [errors : Nat, warnings : Nat]

(* All prompts so far are built from the fragment that was read.           *)
OneFragment ==
    /\ hints \subseteq {fragment}
    /\ ~job.schema => fragment = 0
    /\ job.schema /\ hints # {} => fragment # 0

(* The best candidate so far.                                              *)
BestSoFar ==
    /\ tried = <<>> => best = 0
    /\ tried # <<>> => best \in 1 .. Len(tried)
    /\ \A i \in 1 .. Len(tried) :
          /\ job.refine => Score(tried[i]) <= Score(tried[best])
          /\ i > best => Score(tried[i]) < Score(tried[best])

ValidFound ==
    /\ job.refine => (valid <=> \E i \in 1 .. Len(tried) : IsValid(tried[i]))
    /\ ~job.refine => ~valid

(* The candidate that was the last to improve on those before.             *)
Stuck ==
    /\ tried = <<>> => stagnant = 0
    /\ tried # <<>> =>
          /\ stagnant < Len(tried)
          /\ job.refine =>
               \A i \in 1 .. Len(tried) :
                  Score(tried[i]) <= Score(tried[Len(tried) - stagnant])

(* The loop goes on while neither the limit nor a reason to stop is met.   *)
GoesOn ==
    /\ stage # "done" => code = 0
    /\ ~job.refine => Len(tried) <= 1 /\ (stage \in Looping => tried = <<>>)
    /\ job.refine => Len(tried) <= Limit
    /\ stage \in Looping /\ job.refine => ~early /\ Len(tried) < Limit

Plateau ==
    \E i \in 1 .. Len(tried) - AtLeast(Patience, 1) :
        \A j \in i + 1 .. Len(tried) : Score(tried[j]) <= Score(tried[i])

EndsWell ==
    stage = "reason" \/ code = 200 =>
        /\ tried # <<>>
        /\ job.refine =>
             /\ early <=> Len(tried) < Limit
             /\ early => \/ job.exit /\ IsValid(tried[Len(tried)])
                         \/ ~valid /\ Plateau

RefineInv ==
    /\ RefineTypeOK /\ OneFragment /\ DocumentIsShown /\ BestSoFar /\ ValidFound
    /\ Stuck /\ GoesOn /\ EndsWell

LEMMA ScoreFacts ==
    ASSUME NEW c \in Candidate
    PROVE  /\ Score(c) \in Int /\ Score(c) >= 1 /\ Score(c) <= 100
           /\ Score(c) = 100 <=> IsValid(c)
BY DEF Candidate, Score, IsValid, AtLeast

LEMMA JudgedTyped ==
    ASSUME NEW c \in Candidates
    PROVE  c \in Candidate /\ Judged(c) \in Candidate
<1>1. /\ c.errors \in Nat /\ c.warnings \in Nat
      /\ c = [errors |-> c.errors, warnings |-> c.warnings]
  BY RefinementAssumption DEF Candidates
<1>2. c \in Candidate
  BY <1>1 DEF Candidate
<1>3. [errors |-> c.errors + 1, warnings |-> c.warnings + 1] \in Candidate
  BY <1>1 DEF Candidate
<1> QED  BY <1>2, <1>3, Zenon DEF Judged

LEMMA LimitPositive == RefineTypeOK => Limit \in Nat \ {0}
<1> SUFFICES ASSUME RefineTypeOK PROVE Limit \in Nat \ {0}
  OBVIOUS
<1>1. job.limit \in Int
  BY RefinementAssumption DEF RefineTypeOK, Jobs
<1> QED  BY <1>1 DEF Limit, AtLeast

(* What one more element changes of a sequence.                            *)
LEMMA OneMore ==
    ASSUME NEW S, NEW q \in Seq(S), NEW e \in S
    PROVE  /\ Append(q, e) \in Seq(S) /\ Len(Append(q, e)) = Len(q) + 1
           /\ Append(q, e) # <<>> /\ Len(q) \in Nat
           /\ \A n \in 1 .. Len(q) : Append(q, e)[n] = q[n] /\ q[n] \in S
           /\ Append(q, e)[Len(q) + 1] = e
           /\ q = <<>> <=> Len(q) = 0
BY AppendProperties, LenProperties, ElementOfSeq, EmptySeq

LEMMA RefineInvInit == RefineInit => RefineInv
<1> SUFFICES ASSUME RefineInit PROVE RefineInv
  OBVIOUS
<1> USE DEF RefineInit
<1>1. tried \in Seq(Candidate) /\ Len(tried) = 0
  BY EmptySeq DEF Candidate
<1>2. valid \in BOOLEAN /\ early \in BOOLEAN
  BY Zenon
<1>3. RefineTypeOK
  BY <1>1, <1>2 DEF RefineTypeOK, Candidate
<1>4. Limit \in Nat \ {0}
  BY <1>3, LimitPositive
<1>5. OneFragment /\ DocumentIsShown /\ BestSoFar /\ Stuck /\ EndsWell
  BY <1>1 DEF OneFragment, DocumentIsShown, BestSoFar, Stuck, EndsWell
<1>6. ValidFound
  <2>1. ~ \E i \in 1 .. Len(tried) : IsValid(tried[i])
    BY <1>1
  <2> QED  BY <2>1, Zenon DEF ValidFound
<1>7. GoesOn
  <2>1. Len(tried) < Limit /\ Len(tried) <= Limit /\ Len(tried) <= 1
    BY <1>1, <1>4
  <2> QED  BY <2>1, Zenon DEF GoesOn
<1> QED  BY <1>3, <1>5, <1>6, <1>7 DEF RefineInv

(* A step that leaves the loop's variables alone and either stays in the   *)
(* loop, gives up, or hands on what was found.                             *)
LEMMA LoopKept ==
    ASSUME RefineInv, RefineTypeOK', UNCHANGED <<job, loopVars>>,
           stage' \in Looping => stage \in Looping,
           stage' = "reason" => stage = "reason",
           stage' # "done" => code' = 0,
           code' = 200 => stage = "reason" \/ code = 200
    PROVE  BestSoFar' /\ ValidFound' /\ Stuck' /\ GoesOn' /\ EndsWell'
<1> USE DEF loopVars
<1>1. BestSoFar' /\ ValidFound' /\ Stuck'
  BY DEF RefineInv, BestSoFar, ValidFound, Stuck
<1>2. Limit' = Limit
  BY DEF Limit
<1>3. GoesOn'
  BY <1>2 DEF RefineInv, GoesOn
<1>4. Plateau' <=> Plateau
  BY DEF Plateau
<1>5. EndsWell'
  BY <1>2, <1>4 DEF RefineInv, EndsWell
<1> QED  BY <1>1, <1>3, <1>5

LEMMA JudgeStep ==
    ASSUME RefineInv, NEW c \in Candidates, Judge(c)
    PROVE  RefineInv'
<1> DEFINE n == Len(tried) + 1
           log == Judged(c)
           better == Score(log) > BestScore
           stuck == IF better THEN 0 ELSE stagnant + 1
           found == valid \/ IsValid(log)
           done == IsValid(log) /\ job.exit
           plateau == ~found /\ n < Limit /\ stuck >= AtLeast(Patience, 1)
<1>1. /\ stage = "text" /\ job.refine
      /\ tried' = Append(tried, log)
      /\ best' = IF Score(log) < BestScore THEN best ELSE n
      /\ stagnant' = stuck
      /\ valid' = found
      /\ early' = ((done /\ n < Limit) \/ plateau)
      /\ stage' = IF done \/ plateau \/ n = Limit THEN "reason" ELSE "schema"
      /\ UNCHANGED <<job, schema, edits, fragment, hints, prompt, about, code>>
  BY DEF Judge, jobVars, askVars
<1>2. /\ tried \in Seq(Candidate) /\ log \in Candidate /\ best \in 0 .. Len(tried)
      /\ stagnant \in Nat /\ Limit \in Nat \ {0} /\ Limit' = Limit
  BY <1>1, JudgedTyped, LimitPositive DEF RefineInv, RefineTypeOK, Candidate, Limit
<1>3. /\ tried' \in Seq(Candidate) /\ Len(tried') = n /\ tried' # <<>> /\ Len(tried) \in Nat
      /\ \A i \in 1 .. Len(tried) : tried'[i] = tried[i] /\ tried[i] \in Candidate
      /\ tried'[n] = log
      /\ tried = <<>> <=> Len(tried) = 0
  BY <1>1, <1>2, OneMore
<1>4. /\ Score(log) \in Int /\ Score(log) >= 1 /\ Score(log) <= 100
      /\ Score(log) = 100 <=> IsValid(log)
  BY <1>2, ScoreFacts
<1>5. \A i \in 1 .. Len(tried) : Score(tried[i]) \in Int
  BY <1>3, ScoreFacts
<1>6. /\ tried = <<>> => best = 0 /\ BestScore = -1
      /\ tried # <<>> => best \in 1 .. Len(tried) /\ BestScore = Score(tried[best])
      /\ \A i \in 1 .. Len(tried) :
            /\ Score(tried[i]) <= BestScore
            /\ i > best => Score(tried[i]) < BestScore
  <2>1. BestSoFar
    BY DEF RefineInv
  <2>2. tried = <<>> => best = 0 /\ BestScore = -1 /\ 1 .. Len(tried) = {}
    BY <1>3, <2>1 DEF BestSoFar, BestScore
  <2>3. tried # <<>> => best \in 1 .. Len(tried) /\ best # 0
    BY <1>3, <2>1 DEF BestSoFar
  <2>4. tried # <<>> => BestScore = Score(tried[best])
    BY <2>3 DEF BestScore
  <2> QED  BY <1>1, <2>1, <2>2, <2>3, <2>4 DEF BestSoFar
<1>7. BestScore \in Int
  BY <1>5, <1>6
<1> HIDE DEF n, log, better, stuck, found, done, plateau
<1>n. n = Len(tried) + 1 /\ n \in Nat /\ n >= 1
  BY <1>3 DEF n
<1>8. /\ valid' \in BOOLEAN /\ early' \in BOOLEAN
      /\ valid' <=> valid \/ IsValid(log)
      /\ early' <=> (done /\ n < Limit) \/ plateau
  <2>1. found \in BOOLEAN /\ (found <=> valid \/ IsValid(log))
    BY Zenon DEF found
  <2>2. ((done /\ n < Limit) \/ plateau) \in BOOLEAN
    BY Zenon
  <2> QED  BY <1>1, <2>1, <2>2, Zenon
<1>9. /\ best' \in 1 .. n
      /\ Score(log) < BestScore => tried # <<>> /\ best' = best /\ tried'[best'] = tried[best]
      /\ ~(Score(log) < BestScore) => best' = n /\ tried'[best'] = log
  BY <1>1, <1>3, <1>4, <1>6, <1>7, <1>n
<1>10. stuck \in Nat /\ (better => stuck = 0) /\ (~better => stuck = stagnant + 1)
  BY <1>2 DEF stuck
<1>b. better <=> Score(log) > BestScore
  BY DEF better
<1>11. RefineTypeOK'
  <2>1. job' \in Jobs /\ schema' \in 0 .. edits' /\ edits' \in Nat /\ fragment' \in 0 .. edits'
        /\ hints' \subseteq 0 .. edits'
        /\ prompt' \in {"none", "whole", "sampled", "summary"}
        /\ code' \in {0, 200, 404, 429, 502, 503, 504}
    BY <1>1 DEF RefineInv, RefineTypeOK
  <2>2. stage' \in {"schema", "reason"}
    BY <1>1
  <2>3. best' \in 0 .. Len(tried') /\ stagnant' \in Nat
    BY <1>1, <1>3, <1>9, <1>10, <1>n
  <2>4. about' \in 0 .. best'
    <3>1. about \in 0 .. best /\ best \in Nat
      BY <1>2 DEF RefineInv, RefineTypeOK
    <3>2. best <= best'
      BY <1>2, <1>3, <1>9, <1>n
    <3> QED  BY <1>1, <3>1, <3>2, <1>9, <1>n
  <2>5. stage' \in {"schema", "prompt", "responses", "chat", "text", "reason", "done"}
    BY <2>2
  <2>6. tried' \in Seq([errors : Nat, warnings : Nat])
    BY <1>3 DEF Candidate
  <2>7. valid' \in BOOLEAN /\ early' \in BOOLEAN
    BY <1>8
  <2>8. best' \in 0 .. Len(tried') /\ stagnant' \in Nat /\ about' \in 0 .. best'
    BY <2>3, <2>4
  <2> QED  BY <2>1, <2>5, <2>6, <2>7, <2>8, Zenon DEF RefineTypeOK
<1>12. OneFragment' /\ DocumentIsShown'
  BY <1>1, <1>3 DEF RefineInv, OneFragment, DocumentIsShown
<1>13. /\ \A i \in 1 .. n :
             Score(tried'[i]) \in Int /\ Score(tried'[i]) <= Score(tried'[best'])
       /\ \A i \in 1 .. n : i > best' => Score(tried'[i]) < Score(tried'[best'])
  <2> SUFFICES ASSUME NEW i \in 1 .. n
               PROVE  /\ Score(tried'[i]) \in Int
                      /\ Score(tried'[i]) <= Score(tried'[best'])
                      /\ i > best' => Score(tried'[i]) < Score(tried'[best'])
    OBVIOUS
  <2>1. CASE i = n
    BY <2>1, <1>3, <1>4, <1>6, <1>7, <1>9, <1>n
  <2>2. CASE i # n
    <3>1. i \in 1 .. Len(tried) /\ tried'[i] = tried[i]
      BY <2>2, <1>3, <1>n
    <3>2. /\ Score(tried[i]) \in Int /\ Score(tried[i]) <= BestScore
          /\ i > best => Score(tried[i]) < BestScore
      BY <3>1, <1>5, <1>6
    <3>3. CASE Score(log) < BestScore
      BY <3>1, <3>2, <3>3, <1>6, <1>9
    <3>4. CASE ~(Score(log) < BestScore)
      BY <3>1, <3>2, <3>4, <1>4, <1>7, <1>9, <1>n
    <3> QED  BY <3>3, <3>4
  <2> QED  BY <2>1, <2>2
<1>14. BestSoFar'
  BY <1>3, <1>9, <1>13 DEF BestSoFar
<1>15. ValidFound'
  <2>1. valid <=> \E i \in 1 .. Len(tried) : IsValid(tried[i])
    BY <1>1 DEF RefineInv, ValidFound
  <2>2. (\E i \in 1 .. n : IsValid(tried'[i])) <=>
          (\E i \in 1 .. Len(tried) : IsValid(tried[i])) \/ IsValid(log)
    <3>1. \A i \in 1 .. n : i = n \/ i \in 1 .. Len(tried)
      BY <1>3, <1>n
    <3>2. n \in 1 .. n /\ \A i \in 1 .. Len(tried) : i \in 1 .. n
      BY <1>3, <1>n
    <3>3. \A i \in 1 .. Len(tried) : tried'[i] = tried[i]
      BY <1>3
    <3> QED  BY <1>3, <3>1, <3>2, <3>3, Zenon
  <2> QED  BY <1>1, <1>3, <1>8, <2>1, <2>2, Zenon DEF ValidFound
<1>16. Stuck'
  <2>1. /\ tried # <<>> => stagnant < Len(tried)
        /\ \A i \in 1 .. Len(tried) :
              tried # <<>> => Score(tried[i]) <= Score(tried[Len(tried) - stagnant])
        /\ tried = <<>> => stagnant = 0
    BY <1>1 DEF RefineInv, Stuck
  <2>2. stuck < n
    <3>1. CASE tried = <<>>
      BY <3>1, <1>4, <1>6, <1>10, <1>b, <1>n
    <3>2. CASE tried # <<>>
      BY <3>2, <2>1, <1>2, <1>10, <1>n
    <3> QED  BY <3>1, <3>2
  <2>3. ASSUME NEW i \in 1 .. n PROVE Score(tried'[i]) <= Score(tried'[n - stuck])
    <3>0. Score(tried'[i]) \in Int /\ (i = n \/ i \in 1 .. Len(tried))
      BY <1>13, <1>3, <1>n
    <3>1. CASE better
      <4>1. n - stuck = n
        BY <3>1, <1>10, <1>n
      <4>2. i \in 1 .. Len(tried) => Score(tried[i]) \in Int /\ Score(tried[i]) <= BestScore
        BY <1>5, <1>6
      <4> QED  BY <3>0, <3>1, <4>1, <4>2, <1>3, <1>4, <1>7, <1>b
    <3>2. CASE ~better
      <4>1. tried # <<>>
        BY <3>2, <1>4, <1>6, <1>b
      <4>2. n - stuck = Len(tried) - stagnant /\ Len(tried) - stagnant \in 1 .. Len(tried)
        BY <3>2, <4>1, <2>1, <1>2, <1>3, <1>10, <1>n
      <4> DEFINE m == Len(tried) - stagnant
      <4>3. m \in 1 .. Len(tried) /\ tried'[m] = tried[m] /\ Score(tried[m]) \in Int
        BY <4>2, <1>3, <1>5
      <4>4. \A j \in 1 .. Len(tried) : Score(tried[j]) <= Score(tried[m])
        BY <4>1, <2>1
      <4> HIDE DEF m
      <4>5. BestScore <= Score(tried[m])
        BY <4>1, <4>4, <1>6
      <4>6. Score(log) <= Score(tried[m])
        BY <3>2, <4>3, <4>5, <1>4, <1>7, <1>b
      <4> QED  BY <3>0, <4>2, <4>3, <4>4, <4>6, <1>3 DEF m
    <3> QED  BY <3>1, <3>2
  <2> QED  BY <1>1, <1>3, <2>2, <2>3 DEF Stuck
<1>17. Len(tried) < Limit /\ code = 0 /\ ~early
  BY <1>1 DEF RefineInv, GoesOn, Looping
<1>18. GoesOn'
  <2>1. Len(tried') <= Limit'
    BY <1>2, <1>3, <1>17, <1>n
  <2>2. stage' \in Looping => ~early' /\ Len(tried') < Limit'
    <3> SUFFICES ASSUME stage' \in Looping PROVE ~early' /\ Len(tried') < Limit'
      OBVIOUS
    <3>1. ~(done \/ plateau \/ n = Limit)
      BY <1>1 DEF Looping
    <3>2. ~early'
      BY <3>1, <1>8, Zenon
    <3>3. n < Limit
      BY <3>1, <1>2, <1>3, <1>17, <1>n
    <3> QED  BY <3>2, <3>3, <1>2, <1>3
  <2> QED  BY <1>1, <1>17, <2>1, <2>2 DEF GoesOn
<1>19. EndsWell'
  <2> SUFFICES ASSUME stage' = "reason"
               PROVE  /\ early' <=> n < Limit
                      /\ early' => \/ job.exit /\ IsValid(log)
                                   \/ ~valid' /\ Plateau'
    BY <1>1, <1>2, <1>3, <1>17 DEF EndsWell
  <2>1. done \/ plateau \/ n = Limit
    BY <1>1
  <2>2. (plateau => n < Limit /\ ~found /\ stuck >= AtLeast(Patience, 1))
        /\ (done <=> IsValid(log) /\ job.exit)
    BY DEF plateau, done
  <2>3. n = Limit => ~(n < Limit)
    BY <1>2, <1>n
  <2>4. early' <=> n < Limit
    BY <2>1, <2>2, <2>3, <1>8, Zenon
  <2>5. plateau => ~valid'
    BY <2>2, <1>1, Zenon
  <2>6. ASSUME plateau PROVE Plateau'
    <3>1. stuck >= AtLeast(Patience, 1) /\ AtLeast(Patience, 1) \in Nat \ {0}
      BY <2>2, <2>6, RefinementAssumption DEF AtLeast
    <3>2. stuck < n /\ \A i \in 1 .. n : Score(tried'[i]) <= Score(tried'[n - stuck])
      BY <1>16, <1>1, <1>3 DEF Stuck
    <3>3. n - stuck \in 1 .. n - AtLeast(Patience, 1)
      BY <3>1, <3>2, <1>10, <1>n
    <3>4. \A j \in (n - stuck) + 1 .. n : j \in 1 .. n
      BY <3>2, <1>10, <1>n
    <3> QED  BY <3>2, <3>3, <3>4, <1>3 DEF Plateau
  <2> QED  BY <2>2, <2>4, <2>5, <2>6, <1>8, Zenon
<1> QED  BY <1>11, <1>12, <1>14, <1>15, <1>16, <1>18, <1>19 DEF RefineInv

LEMMA TakeAnswerStep ==
    ASSUME RefineInv, NEW c \in Candidates, TakeAnswer(c)
    PROVE  RefineInv'
<1>1. /\ stage = "text" /\ ~job.refine /\ tried' = <<c>> /\ best' = 1 /\ stage' = "reason"
      /\ UNCHANGED <<job, schema, edits, fragment, hints, prompt, stagnant, valid, early,
                     about, code>>
  BY DEF TakeAnswer, jobVars, askVars
<1>2. /\ tried = <<>> /\ stagnant = 0 /\ best = 0 /\ about = 0 /\ ~valid /\ code = 0
  BY <1>1 DEF RefineInv, RefineTypeOK, GoesOn, Stuck, BestSoFar, ValidFound, Looping
<1>3. /\ tried' \in Seq(Candidate) /\ Len(tried') = 1 /\ tried' # <<>>
  BY <1>1, JudgedTyped
<1>4. RefineTypeOK'
  <2>1. about' \in 0 .. best' /\ best' \in 0 .. Len(tried')
    BY <1>1, <1>2, <1>3
  <2> QED  BY <1>1, <1>3, <2>1 DEF RefineInv, RefineTypeOK, Candidate
<1>5. OneFragment' /\ DocumentIsShown' /\ ValidFound'
  BY <1>1, <1>2 DEF RefineInv, OneFragment, DocumentIsShown, ValidFound
<1>6. BestSoFar' /\ Stuck'
  BY <1>1, <1>2, <1>3 DEF BestSoFar, Stuck
<1>7. GoesOn' /\ EndsWell'
  BY <1>1, <1>2, <1>3 DEF GoesOn, EndsWell, Looping
<1> QED  BY <1>4, <1>5, <1>6, <1>7 DEF RefineInv

LEMMA RefineInvStep == RefineInv /\ [RefineNext]_refineVars => RefineInv'
<1> SUFFICES ASSUME RefineInv, [RefineNext]_refineVars PROVE RefineInv'
  OBVIOUS
<1> USE DEF jobVars, askVars, loopVars
<1>0. /\ RefineTypeOK /\ OneFragment /\ DocumentIsShown /\ GoesOn /\ EndsWell
  BY DEF RefineInv
<1>1. CASE GetFragment
  <2>1. CASE job.schema /\ fragment = 0 /\ schema = 0
    <3>1. stage' = "done" /\ code' = 404 /\ UNCHANGED <<jobVars, askVars, loopVars, about>>
      BY <1>1, <2>1 DEF GetFragment, Fails
    <3>2. RefineTypeOK'
      BY <1>0, <3>1 DEF RefineTypeOK
    <3>3. OneFragment' /\ DocumentIsShown'
      BY <1>0, <3>1 DEF OneFragment, DocumentIsShown
    <3> QED  BY <3>1, <3>2, <3>3, LoopKept DEF RefineInv, Looping
  <2>2. CASE ~(job.schema /\ fragment = 0 /\ schema = 0)
    <3>1. /\ stage = "schema" /\ stage' = "prompt"
          /\ fragment' = IF job.schema /\ fragment = 0 THEN schema ELSE fragment
          /\ hints' = hints \cup {fragment'}
          /\ UNCHANGED <<jobVars, prompt, loopVars, about, code>>
      BY <1>1, <2>2 DEF GetFragment
    <3>2. RefineTypeOK'
      BY <1>0, <3>1 DEF RefineTypeOK
    <3>3. OneFragment' /\ DocumentIsShown'
      BY <1>0, <2>2, <3>1 DEF OneFragment, DocumentIsShown
    <3>4. code = 0
      BY <1>0, <3>1 DEF GoesOn
    <3> QED  BY <3>1, <3>2, <3>3, <3>4, LoopKept DEF RefineInv, Looping
  <2> QED  BY <2>1, <2>2
<1>2. CASE BuildPrompt
  <2>1. PICK size \in Answers : prompt' = Prompt(size)
    BY <1>2 DEF BuildPrompt
  <2>2. /\ stage = "prompt" /\ stage' = "responses"
        /\ UNCHANGED <<jobVars, fragment, hints, loopVars, about, code>>
    BY <1>2 DEF BuildPrompt
  <2>3. prompt' \in {"none", "whole", "sampled", "summary"}
        /\ (prompt' = "none" =>
              \/ tried # <<>>
              \/ ~(job.document.size <= PromptMax) /\ ~job.document.named)
    BY <2>1 DEF Prompt, Budgeted
  <2>7. job.document.size \in Nat
    BY <1>0, RefinementAssumption DEF RefineTypeOK, Jobs
  <2>4. RefineTypeOK'
    BY <1>0, <2>2, <2>3 DEF RefineTypeOK
  <2>5. OneFragment' /\ DocumentIsShown'
    <3>1. ~(job.document.size <= PromptMax) => job.document.size > PromptMax
      BY <2>7, RefinementAssumption
    <3> QED  BY <1>0, <2>2, <2>3, <3>1 DEF OneFragment, DocumentIsShown
  <2>6. code = 0
    BY <1>0, <2>2 DEF GoesOn
  <2> QED  BY <2>2, <2>4, <2>5, <2>6, LoopKept DEF RefineInv, Looping
<1>3. CASE AskResponses \/ AskChatCompletions \/ NotJson
  <2>1. /\ stage \in {"responses", "chat", "text"}
        /\ \/ /\ stage' \in {"text", "chat"} /\ code' = code
              /\ stage' = "chat" => stage = "responses"
           \/ stage' = "done" /\ code' \in {404, 429, 502, 503, 504}
        /\ UNCHANGED <<jobVars, askVars, loopVars, about>>
    BY <1>3 DEF AskResponses, AskChatCompletions, NotJson, Fails, Upstream
  <2>2. RefineTypeOK'
    BY <1>0, <2>1 DEF RefineTypeOK
  <2>3. OneFragment' /\ DocumentIsShown'
    BY <1>0, <2>1 DEF OneFragment, DocumentIsShown
  <2>4. code = 0
    BY <1>0, <2>1 DEF GoesOn
  <2> QED  BY <2>1, <2>2, <2>3, <2>4, LoopKept DEF RefineInv, Looping
<1>4. CASE Reason
  <2>1. /\ stage = "reason" /\ stage' = "done" /\ code' = 200
        /\ about' \in {0, best}
        /\ UNCHANGED <<jobVars, askVars, loopVars>>
    BY <1>4 DEF Reason
  <2>2. RefineTypeOK'
    <3>1. best \in Nat /\ about' \in 0 .. best
      BY <1>0, <2>1, LenProperties DEF RefineTypeOK
    <3> QED  BY <1>0, <2>1, <3>1 DEF RefineTypeOK
  <2>3. OneFragment' /\ DocumentIsShown'
    BY <1>0, <2>1 DEF OneFragment, DocumentIsShown
  <2> QED  BY <2>1, <2>2, <2>3, LoopKept DEF RefineInv, Looping
<1>5. CASE EditSchema
  <2>1. /\ edits' = edits + 1 /\ schema' \in {0, edits + 1}
        /\ UNCHANGED <<job, stage, askVars, loopVars, about, code>>
    BY <1>5 DEF EditSchema
  <2>2. RefineTypeOK'
    BY <1>0, <2>1 DEF RefineTypeOK
  <2>3. OneFragment' /\ DocumentIsShown'
    BY <1>0, <2>1 DEF OneFragment, DocumentIsShown
  <2>4. (stage # "done" => code = 0)
    BY <1>0 DEF GoesOn
  <2> QED  BY <2>1, <2>2, <2>3, <2>4, LoopKept DEF RefineInv
<1>6. CASE UNCHANGED refineVars
  <2>1. UNCHANGED <<jobVars, stage, askVars, loopVars, about, code>>
    BY <1>6 DEF refineVars
  <2>2. RefineTypeOK' /\ OneFragment' /\ DocumentIsShown'
    BY <1>0, <2>1 DEF RefineTypeOK, OneFragment, DocumentIsShown
  <2>4. (stage # "done" => code = 0)
    BY <1>0 DEF GoesOn
  <2> QED  BY <2>1, <2>2, <2>4, LoopKept DEF RefineInv
<1> QED
  BY <1>1, <1>2, <1>3, <1>4, <1>5, <1>6, JudgeStep, TakeAnswerStep DEF RefineNext

LEMMA RefineInvSound == RefineInv => RefinementSound
<1> SUFFICES ASSUME RefineInv PROVE RefinementSound
  OBVIOUS
<1>0. /\ RefineTypeOK /\ BestSoFar /\ ValidFound /\ EndsWell /\ GoesOn
      /\ tried \in Seq(Candidate) /\ DOMAIN tried = 1 .. Len(tried)
      /\ \A i \in 1 .. Len(tried) : tried[i] \in Candidate
  <2>1. tried \in Seq(Candidate)
    BY DEF RefineInv, RefineTypeOK, Candidate
  <2> QED  BY <2>1, LenProperties, ElementOfSeq DEF RefineInv
<1>1. BestReturned
  <2> SUFFICES ASSUME code = 200 PROVE BestReturned!2
    BY DEF BestReturned
  <2>1. tried # <<>> /\ best \in 1 .. Len(tried)
    BY <1>0 DEF EndsWell, BestSoFar
  <2>2. ASSUME valid PROVE IsValid(tried[best])
    <3>1. PICK i \in 1 .. Len(tried) : IsValid(tried[i])
      BY <1>0, <2>2 DEF ValidFound
    <3>2. job.refine
      BY <1>0, <2>2 DEF ValidFound
    <3>3. Score(tried[i]) = 100 /\ Score(tried[i]) <= Score(tried[best])
      BY <1>0, <3>1, <3>2, ScoreFacts DEF BestSoFar
    <3> QED  BY <1>0, <2>1, <3>3, ScoreFacts
  <2>3. best # 0
    BY <2>1
  <2> QED  BY <1>0, <2>2, <2>3 DEF BestSoFar, ValidFound
<1>2. StopsForAReason
  BY <1>0 DEF EndsWell, GoesOn, Plateau, StopsForAReason
<1>3. OneSchemaPerRun /\ DocumentIsShown
  BY DEF RefineInv, OneFragment, OneSchemaPerRun
<1> QED  BY <1>1, <1>2, <1>3 DEF RefinementSound

(* Whatever the provider answers and however the schema is edited, for any *)
(* patience and number of iterations: the last of the best candidates is   *)
(* returned, a valid one if there was any; repairs end early only for a    *)
(* reason; all prompts are of one version of the schema, and a first one   *)
(* holds or names the document unless it is too long and has no name.      *)
THEOREM RefinementIsSound == RefineSpec => []RefinementSound
BY RefineInvInit, RefineInvStep, RefineInvSound, PTL DEF RefineSpec

-----------------------------------------------------------------------------
(* Downloads and deletions of a record. *)

(* The maker of the file is past recording it and writes no more: it only  *)
(* opens its own file, once, without going back to generate another.       *)
Settled(f) ==
    /\ disk[f] # "partial"
    /\ at[f] \in {"open", "done", "dead"}
    /\ at[f] = "open" => ~cached[f]

(* A file that is recorded, or that a request took from the row, is        *)
(* settled.                                                                *)
OnlySettled ==
    /\ row # NoFile => Settled(row)
    /\ \A r \in Accesses : file[r] # NoFile => Settled(file[r])

(* A file is written when its maker comes to record it.                    *)
Written ==
    \A r \in Accesses :
        at[r] \in {"check", "insert"} =>
            disk[r] = "whole" \/ (disk[r] = "gone" /\ r \in cleared)

NonePartial == \A r \in Accesses : result[r] # "partial"

HistoryInv ==
    /\ ExportTypeOK
    /\ OnlySettled
    /\ Written
    /\ NonePartial
    /\ WinnersFileStays
    /\ DeletedIsForgotten

-----------------------------------------------------------------------------
LEMMA InitHistory == ExportInit => HistoryInv
BY HistoryExportAssumption
   DEF ExportInit, HistoryInv, ExportTypeOK, File, Final, OnlySettled, Written, NonePartial,
       WinnersFileStays, DeletedIsForgotten

LEMMA NextExportType == ExportTypeOK /\ [ExportNext]_exportVars => ExportTypeOK'
<1> SUFFICES ASSUME ExportTypeOK, [ExportNext]_exportVars PROVE ExportTypeOK'
  OBVIOUS
<1> USE DEF ExportTypeOK, File, Final, At, Move, Answer, Use, Disturb, recordVars,
            requestVars, ghostVars
<1>1. CASE UNCHANGED exportVars
  BY <1>1 DEF exportVars
<1>2. ASSUME NEW r \in Accesses, Download(r) PROVE ExportTypeOK'
  <2>1. CASE Load(r, "resolve")
    BY <2>1, HistoryExportAssumption DEF Load, Active
  <2>2. CASE Consult(r)
    <3>1. CASE row # NoFile
      BY <2>2, <3>1 DEF Consult
    <3>2. CASE row = NoFile
      BY <2>2, <3>2 DEF Consult
    <3> QED
      BY <3>1, <3>2
  <2>3. CASE OpenFile(r)
    BY <2>3, HistoryExportAssumption DEF OpenFile
  <2>4. CASE Write(r)
    BY <2>4, HistoryExportAssumption DEF Write
  <2>5. CASE WriteFails(r)
    BY <2>5, HistoryExportAssumption DEF WriteFails
  <2>6. CASE FullClean(r)
    BY <2>6, HistoryExportAssumption DEF FullClean
  <2>7. CASE Insert(r)
    BY <2>7, HistoryExportAssumption DEF Insert
  <2>8. CASE InsertFails(r)
    BY <2>8, HistoryExportAssumption DEF InsertFails
  <2>9. CASE Lookup(r)
    <3>1. CASE row # NoFile
      BY <2>9, <3>1 DEF Lookup
    <3>2. CASE row = NoFile
      BY <2>9, <3>2 DEF Lookup
    <3> QED
      BY <3>1, <3>2
  <2>10. CASE DropOwn(r)
    BY <2>10, HistoryExportAssumption DEF DropOwn
  <2>11. CASE DropFails(r)
    BY <2>11, HistoryExportAssumption DEF DropFails
  <2>12. CASE Open(r)
    <3>1. disk[file[r]] \in {"partial", "whole"}
      BY <2>12 DEF Open
    <3> QED
      BY <2>12, <3>1 DEF Open
  <2>13. CASE OpenFails(r)
    BY <2>13, HistoryExportAssumption DEF OpenFails
  <2>14. CASE Forget(r)
    BY <2>14, HistoryExportAssumption DEF Forget
  <2> QED
    BY <1>2, <2>1, <2>2, <2>3, <2>4, <2>5, <2>6, <2>7, <2>8, <2>9, <2>10, <2>11, <2>12,
       <2>13, <2>14
       DEF Download, Record
<1>3. ASSUME NEW r \in Accesses, Delete(r) PROVE ExportTypeOK'
  <2>1. CASE Load(r, "read")
    BY <2>1, HistoryExportAssumption DEF Load, Active
  <2>2. CASE ReadRow(r)
    BY <2>2, HistoryExportAssumption DEF ReadRow
  <2>3. CASE Remove(r)
    BY <2>3, HistoryExportAssumption DEF Remove
  <2>4. CASE RemoveFails(r)
    BY <2>4, HistoryExportAssumption DEF RemoveFails
  <2>5. CASE Cascade(r)
    BY <2>5, HistoryExportAssumption DEF Cascade
  <2>6. CASE CascadeFails(r)
    BY <2>6, HistoryExportAssumption DEF CascadeFails
  <2> QED
    BY <1>3, <2>1, <2>2, <2>3, <2>4, <2>5, <2>6 DEF Delete
<1>4. ASSUME NEW r \in Accesses, Kill(r) PROVE ExportTypeOK'
  BY <1>4, HistoryExportAssumption DEF Kill, Active
<1>5. ASSUME NEW r \in Accesses, Vanish(r) PROVE ExportTypeOK'
  BY <1>5, HistoryExportAssumption DEF Vanish, Active
<1> QED
  BY <1>1, <1>2, <1>3, <1>4, <1>5 DEF ExportNext

(* A settled file stays settled: its maker neither writes nor goes back.   *)
LEMMA SettledStays ==
    ASSUME HistoryInv, ExportNext, NEW f \in Accesses, Settled(f)
    PROVE  Settled(f)'
<1> USE DEF HistoryInv, ExportTypeOK, File, Final, Settled, At, Move, Answer, Use,
            recordVars, requestVars, ghostVars
<1>1. PICK r \in Accesses : Download(r) \/ Delete(r) \/ Kill(r) \/ Vanish(r)
  BY DEF ExportNext
<1>2. CASE Download(r)
  <2>1. CASE Load(r, "resolve") \/ Consult(r) \/ OpenFile(r) \/ Write(r) \/ WriteFails(r)
    BY <2>1 DEF Load, Consult, OpenFile, Write, WriteFails
  <2>2. CASE FullClean(r) \/ Insert(r) \/ InsertFails(r) \/ Lookup(r)
    BY <2>2 DEF FullClean, Insert, InsertFails, Lookup
  <2>3. CASE DropOwn(r) \/ DropFails(r) \/ Open(r) \/ OpenFails(r) \/ Forget(r)
    BY <2>3 DEF DropOwn, DropFails, Open, OpenFails, Forget
  <2> QED
    BY <1>2, <2>1, <2>2, <2>3 DEF Download, Record
<1>3. CASE Delete(r)
  BY <1>3 DEF Delete, Load, ReadRow, Remove, RemoveFails, Cascade, CascadeFails
<1>4. CASE Kill(r)
  BY <1>4 DEF Kill, Active
<1>5. CASE Vanish(r)
  BY <1>5 DEF Vanish
<1> QED
  BY <1>1, <1>2, <1>3, <1>4, <1>5

(* What a request takes is its own file, once recorded, or the row's.      *)
LEMMA FilesComeFromRow ==
    ASSUME HistoryInv, ExportNext, NEW q \in Accesses
    PROVE  /\ \/ file'[q] \in {file[q], row, NoFile}
              \/ file'[q] = q /\ Insert(q)
           /\ \/ row' \in {row, NoFile}
              \/ \E r \in Accesses : row' = r /\ Insert(r)
<1> USE DEF HistoryInv, ExportTypeOK, File, Use, recordVars, requestVars, ghostVars
<1>1. PICK r \in Accesses : Download(r) \/ Delete(r) \/ Kill(r) \/ Vanish(r)
  BY DEF ExportNext
<1>2. CASE Download(r)
  BY <1>2 DEF Download, Record, Load, Consult, OpenFile, Write, WriteFails, FullClean,
              Insert, InsertFails, Lookup, DropOwn, DropFails, Open, OpenFails, Forget
<1>3. CASE Delete(r)
  BY <1>3 DEF Delete, Load, ReadRow, Remove, RemoveFails, Cascade, CascadeFails
<1>4. CASE Kill(r) \/ Vanish(r)
  BY <1>4 DEF Kill, Vanish
<1> QED
  BY <1>1, <1>2, <1>3, <1>4

LEMMA InsertSettles ==
    ASSUME HistoryInv, NEW r \in Accesses, Insert(r)
    PROVE  Settled(r)'
<1>1. disk[r] # "partial"
  BY DEF HistoryInv, Written, Insert, At
<1> QED
  BY <1>1 DEF Insert, Settled, Move, Use, HistoryInv, ExportTypeOK

LEMMA NextHistory == HistoryInv /\ [ExportNext]_exportVars => HistoryInv'
<1>1. CASE UNCHANGED exportVars
  BY <1>1 DEF exportVars, recordVars, requestVars, ghostVars, HistoryInv, ExportTypeOK,
     OnlySettled,
              Settled, Written, NonePartial, WinnersFileStays, DeletedIsForgotten
<1> SUFFICES ASSUME HistoryInv, ExportNext PROVE HistoryInv'
  BY <1>1
<1>2. ExportTypeOK'
  BY NextExportType DEF HistoryInv
<1>3. OnlySettled'
  <2>1. ASSUME NEW f \in Accesses, row' = f PROVE Settled(f)'
    <3>1. CASE row = f
      BY <3>1, SettledStays, HistoryExportAssumption DEF HistoryInv, OnlySettled
    <3>2. CASE row # f
      <4>1. Insert(f)
        BY <2>1, <3>2, FilesComeFromRow, HistoryExportAssumption
      <4> QED
        BY <4>1, InsertSettles
    <3> QED
      BY <3>1, <3>2
  <2>2. ASSUME NEW q \in Accesses, NEW f \in Accesses, file'[q] = f PROVE Settled(f)'
    <3>1. CASE f \in {file[q], row}
      <4>1. Settled(f)
        BY <3>1, HistoryExportAssumption DEF HistoryInv, OnlySettled
      <4> QED
        BY <4>1, SettledStays
    <3>2. CASE f = q /\ Insert(q)
      BY <3>2, InsertSettles
    <3> QED
      BY <2>2, <3>1, <3>2, FilesComeFromRow, HistoryExportAssumption
  <2>3. row' # NoFile => Settled(row)'
    BY <1>2, <2>1 DEF ExportTypeOK, File, Settled
  <2>4. ASSUME NEW q \in Accesses, file'[q] # NoFile PROVE Settled(file[q])'
    <3>1. file'[q] \in Accesses
      BY <1>2, <2>4 DEF ExportTypeOK, File
    <3> QED
      BY <2>2, <3>1 DEF Settled
  <2> QED
    BY <2>3, <2>4 DEF OnlySettled
<1>4. PICK r \in Accesses : Download(r) \/ Delete(r) \/ Kill(r) \/ Vanish(r)
  BY DEF ExportNext
<1>5. Written'
  <2> USE DEF HistoryInv, ExportTypeOK, File, Final, OnlySettled, Settled, Written, At, Move,
              Answer, Use, recordVars, requestVars, ghostVars
  <2>1. CASE Load(r, "resolve") \/ Consult(r) \/ OpenFile(r) \/ Write(r) \/ WriteFails(r)
    BY <2>1 DEF Load, Consult, OpenFile, Write, WriteFails
  <2>2. CASE FullClean(r) \/ Insert(r) \/ InsertFails(r) \/ Lookup(r)
    BY <2>2 DEF FullClean, Insert, InsertFails, Lookup
  <2>3. CASE DropOwn(r) \/ DropFails(r) \/ Open(r) \/ OpenFails(r) \/ Forget(r)
    BY <2>3 DEF DropOwn, DropFails, Open, OpenFails, Forget
  <2>4. CASE Delete(r)
    BY <2>4 DEF Delete, Load, ReadRow, Remove, RemoveFails, Cascade, CascadeFails
  <2>5. CASE Kill(r) \/ Vanish(r)
    BY <2>5 DEF Kill, Vanish, Active
  <2> QED
    BY <1>4, <2>1, <2>2, <2>3, <2>4, <2>5 DEF Download, Record
<1>6. NonePartial'
  <2> USE DEF HistoryInv, ExportTypeOK, NonePartial, Move, Answer, recordVars, requestVars,
              ghostVars
  <2>1. CASE Open(r)
    BY <2>1 DEF Open, At, OnlySettled, Settled
  <2>2. CASE Download(r) /\ ~Open(r)
    BY <2>2 DEF Download, Record, Load, Consult, OpenFile, Write, WriteFails, FullClean,
                Insert, InsertFails, Lookup, DropOwn, DropFails, OpenFails, Forget
  <2>3. CASE Delete(r)
    BY <2>3 DEF Delete, Load, ReadRow, Remove, RemoveFails, Cascade, CascadeFails
  <2>4. CASE Kill(r) \/ Vanish(r)
    BY <2>4 DEF Kill, Vanish
  <2> QED
    BY <1>4, <2>1, <2>2, <2>3, <2>4
<1>7. WinnersFileStays'
  <2> USE DEF HistoryInv, ExportTypeOK, File, Final, WinnersFileStays, At, Move, Answer, Use,
              recordVars, requestVars, ghostVars
  <2>1. CASE Load(r, "resolve") \/ Consult(r) \/ OpenFile(r) \/ Write(r) \/ WriteFails(r)
    BY <2>1 DEF Load, Consult, OpenFile, Write, WriteFails
  <2>2. CASE FullClean(r) \/ InsertFails(r) \/ Lookup(r)
    BY <2>2 DEF FullClean, InsertFails, Lookup
  <2>3. CASE Insert(r)
    BY <2>3 DEF Insert, Written
  <2>4. CASE DropOwn(r)
    <3>1. row # r
      BY <2>4, HistoryExportAssumption DEF DropOwn, OnlySettled, Settled
    <3> QED
      BY <2>4, <3>1 DEF DropOwn
  <2>5. CASE DropFails(r) \/ Open(r) \/ OpenFails(r) \/ Forget(r)
    BY <2>5 DEF DropFails, Open, OpenFails, Forget
  <2>6. CASE Delete(r)
    BY <2>6 DEF Delete, Load, ReadRow, Remove, RemoveFails, Cascade, CascadeFails
  <2>7. CASE Kill(r) \/ Vanish(r)
    BY <2>7 DEF Kill, Vanish
  <2> QED
    BY <1>4, <2>1, <2>2, <2>3, <2>4, <2>5, <2>6, <2>7 DEF Download, Record
<1>8. DeletedIsForgotten'
  <2> USE DEF HistoryInv, DeletedIsForgotten, recordVars
  <2>1. CASE Insert(r)
    BY <2>1 DEF Insert
  <2>2. CASE Forget(r)
    BY <2>2 DEF Forget
  <2>3. CASE Cascade(r)
    BY <2>3 DEF Cascade
  <2>4. CASE UNCHANGED recordVars
    BY <2>4
  <2>5. Insert(r) \/ Forget(r) \/ Cascade(r) \/ UNCHANGED recordVars
    BY <1>4 DEF Download, Record, Delete, Load, Consult, OpenFile, Write, WriteFails,
         FullClean, InsertFails, Lookup, DropOwn, DropFails, Open, OpenFails, ReadRow,
         Remove, RemoveFails, CascadeFails, Kill, Vanish
  <2> QED
    BY <2>1, <2>2, <2>3, <2>4, <2>5
<1> QED
  BY <1>2, <1>3, <1>5, <1>6, <1>7, <1>8 DEF HistoryInv

LEMMA HistoryInvariant == ExportSpec => []HistoryInv
<1> QED
  BY InitHistory, NextHistory, PTL DEF ExportSpec

-----------------------------------------------------------------------------
(* Half written files are neither recorded nor served                      *)
(* (export_service.py:491, views.py:390).                                  *)
THEOREM WholeFiles == ExportSpec => []WholeFilesOnly
<1>1. HistoryInv => WholeFilesOnly
  BY DEF HistoryInv, OnlySettled, Settled, NonePartial, WholeFilesOnly
<1> QED
  BY <1>1, HistoryInvariant, PTL

(* Losing a race never costs the winner its file (views.py:400).           *)
THEOREM WinnersFileIsKept == ExportSpec => []WinnersFileStays
<1>1. HistoryInv => WinnersFileStays
  BY DEF HistoryInv
<1> QED
  BY <1>1, HistoryInvariant, PTL

(* A deleted record never has a row again (services.py:74, views.py:642).  *)
THEOREM DeletedHasNoRow == ExportSpec => []DeletedIsForgotten
<1>1. HistoryInv => DeletedIsForgotten
  BY DEF HistoryInv
<1> QED
  BY <1>1, HistoryInvariant, PTL
-----------------------------------------------------------------------------
(* A request that nothing disturbs is alone from its load on, so nothing   *)
(* changes between what it looks at and what it does.                      *)
Busy(r) == at[r] \notin Final \cup {"idle"}
Alone ==
    \A r \in Accesses \ disturbed : Busy(r) =>
        /\ \A q \in Accesses : q # r => ~Busy(q)
        /\ history
        /\ at[r] \notin {"lookup", "drop"}
        /\ at[r] \in {"generate", "write", "check", "insert"} => row = NoFile
        /\ at[r] \in {"check", "insert"} => disk[r] = "whole"
        /\ at[r] = "open" /\ ~cached[r] => row = r /\ file[r] = r /\ disk[r] # "gone"

(* Where its own file is while it runs, and afterwards.                    *)
OwnFile ==
    \A r \in Accesses \ disturbed :
        /\ at[r] \in {"idle", "resolve", "generate", "forget", "read", "remove", "cascade"}
           => disk[r] = "gone"
        /\ at[r] = "open" /\ cached[r] => disk[r] = "gone"
        /\ at[r] = "done" => disk[r] = "gone" \/ row = r

(* Who takes a row away whose file was recorded undisturbed has come after *)
(* it was recorded, and so has read that row and seen its file go.         *)
TakesWhatItRead ==
    \A q \in Accesses :
        /\ at[q] = "drop" => ~cached[q]
        /\ at[q] = "forget" => file[q] # NoFile /\ disk[file[q]] = "gone"
        /\ row # NoFile /\ row \notin disturbed =>
              /\ (at[q] = "open" /\ cached[q]) \/ at[q] \in {"forget", "remove", "cascade"}
                 => file[q] = row
              /\ at[q] = "cascade" => disk[row] = "gone"

SoleInv == Alone /\ OwnFile /\ TakesWhatItRead /\ UndisturbedSucceeds

LEMMA AloneStep ==
    ASSUME HistoryInv, SoleInv, NEW r \in Accesses,
           Download(r) \/ Delete(r) \/ Kill(r) \/ Vanish(r)
    PROVE  Alone'
<1> USE HistoryExportAssumption
    DEF HistoryInv, ExportTypeOK, File, Final, Busy, Active, At, Move, Answer, Use, Disturb,
        OnlySettled, Settled, Written, SoleInv, Alone, OwnFile, TakesWhatItRead,
        UndisturbedSucceeds, recordVars, requestVars, ghostVars
<1>1. CASE Load(r, "resolve")
  BY <1>1 DEF Load
<1>2. CASE Consult(r)
  BY <1>2 DEF Consult
<1>3. CASE OpenFile(r)
  BY <1>3 DEF OpenFile
<1>4. CASE Write(r)
  BY <1>4 DEF Write
<1>5. CASE WriteFails(r)
  BY <1>5 DEF WriteFails
<1>6. CASE FullClean(r)
  BY <1>6 DEF FullClean
<1>7. CASE Insert(r)
  BY <1>7 DEF Insert
<1>8. CASE InsertFails(r)
  BY <1>8 DEF InsertFails
<1>9. CASE Lookup(r)
  BY <1>9 DEF Lookup
<1>10. CASE DropOwn(r)
  BY <1>10 DEF DropOwn
<1>11. CASE DropFails(r)
  BY <1>11 DEF DropFails
<1>12. CASE Open(r)
  BY <1>12 DEF Open
<1>13. CASE OpenFails(r)
  BY <1>13 DEF OpenFails
<1>14. CASE Forget(r)
  BY <1>14 DEF Forget
<1>15. CASE Load(r, "read")
  BY <1>15 DEF Load
<1>16. CASE ReadRow(r)
  BY <1>16 DEF ReadRow
<1>17. CASE Remove(r)
  BY <1>17 DEF Remove
<1>18. CASE RemoveFails(r)
  BY <1>18 DEF RemoveFails
<1>19. CASE Cascade(r)
  BY <1>19 DEF Cascade
<1>20. CASE CascadeFails(r)
  BY <1>20 DEF CascadeFails
<1>21. CASE Kill(r)
  BY <1>21 DEF Kill
<1>22. CASE Vanish(r)
  BY <1>22 DEF Vanish
<1> QED
  BY <1>1, <1>2, <1>3, <1>4, <1>5, <1>6, <1>7, <1>8, <1>9, <1>10, <1>11, <1>12, <1>13,
     <1>14, <1>15, <1>16, <1>17, <1>18, <1>19, <1>20, <1>21, <1>22
     DEF Download, Record, Delete

LEMMA OwnFileStep ==
    ASSUME HistoryInv, SoleInv, NEW r \in Accesses,
           Download(r) \/ Delete(r) \/ Kill(r) \/ Vanish(r)
    PROVE  OwnFile'
<1> USE HistoryExportAssumption
    DEF HistoryInv, ExportTypeOK, File, Final, Busy, Active, At, Move, Answer, Use, Disturb,
        OnlySettled, Settled, Written, SoleInv, Alone, OwnFile, TakesWhatItRead,
        UndisturbedSucceeds, recordVars, requestVars, ghostVars
<1>1. CASE Load(r, "resolve")
  BY <1>1 DEF Load
<1>2. CASE Consult(r)
  BY <1>2 DEF Consult
<1>3. CASE OpenFile(r)
  BY <1>3 DEF OpenFile
<1>4. CASE Write(r)
  BY <1>4 DEF Write
<1>5. CASE WriteFails(r)
  BY <1>5 DEF WriteFails
<1>6. CASE FullClean(r)
  BY <1>6 DEF FullClean
<1>7. CASE Insert(r)
  BY <1>7 DEF Insert
<1>8. CASE InsertFails(r)
  BY <1>8 DEF InsertFails
<1>9. CASE Lookup(r)
  BY <1>9 DEF Lookup
<1>10. CASE DropOwn(r)
  BY <1>10 DEF DropOwn
<1>11. CASE DropFails(r)
  BY <1>11 DEF DropFails
<1>12. CASE Open(r)
  BY <1>12 DEF Open
<1>13. CASE OpenFails(r)
  BY <1>13 DEF OpenFails
<1>14. CASE Forget(r)
  BY <1>14 DEF Forget
<1>15. CASE Load(r, "read")
  BY <1>15 DEF Load
<1>16. CASE ReadRow(r)
  BY <1>16 DEF ReadRow
<1>17. CASE Remove(r)
  BY <1>17 DEF Remove
<1>18. CASE RemoveFails(r)
  BY <1>18 DEF RemoveFails
<1>19. CASE Cascade(r)
  BY <1>19 DEF Cascade
<1>20. CASE CascadeFails(r)
  BY <1>20 DEF CascadeFails
<1>21. CASE Kill(r)
  BY <1>21 DEF Kill
<1>22. CASE Vanish(r)
  BY <1>22 DEF Vanish
<1> QED
  BY <1>1, <1>2, <1>3, <1>4, <1>5, <1>6, <1>7, <1>8, <1>9, <1>10, <1>11, <1>12, <1>13,
     <1>14, <1>15, <1>16, <1>17, <1>18, <1>19, <1>20, <1>21, <1>22
     DEF Download, Record, Delete

LEMMA TakesStep ==
    ASSUME HistoryInv, SoleInv, NEW r \in Accesses,
           Download(r) \/ Delete(r) \/ Kill(r) \/ Vanish(r)
    PROVE  TakesWhatItRead'
<1> USE HistoryExportAssumption
    DEF HistoryInv, ExportTypeOK, File, Final, Busy, Active, At, Move, Answer, Use, Disturb,
        OnlySettled, Settled, Written, SoleInv, Alone, OwnFile, TakesWhatItRead,
        UndisturbedSucceeds, recordVars, requestVars, ghostVars
<1>1. CASE Load(r, "resolve")
  BY <1>1 DEF Load
<1>2. CASE Consult(r)
  BY <1>2 DEF Consult
<1>3. CASE OpenFile(r)
  BY <1>3 DEF OpenFile
<1>4. CASE Write(r)
  BY <1>4 DEF Write
<1>5. CASE WriteFails(r)
  BY <1>5 DEF WriteFails
<1>6. CASE FullClean(r)
  BY <1>6 DEF FullClean
<1>7. CASE Insert(r)
  BY <1>7 DEF Insert
<1>8. CASE InsertFails(r)
  BY <1>8 DEF InsertFails
<1>9. CASE Lookup(r)
  BY <1>9 DEF Lookup
<1>10. CASE DropOwn(r)
  BY <1>10 DEF DropOwn
<1>11. CASE DropFails(r)
  BY <1>11 DEF DropFails
<1>12. CASE Open(r)
  BY <1>12 DEF Open
<1>13. CASE OpenFails(r)
  BY <1>13 DEF OpenFails
<1>14. CASE Forget(r)
  BY <1>14 DEF Forget
<1>15. CASE Load(r, "read")
  BY <1>15 DEF Load
<1>16. CASE ReadRow(r)
  BY <1>16 DEF ReadRow
<1>17. CASE Remove(r)
  BY <1>17 DEF Remove
<1>18. CASE RemoveFails(r)
  BY <1>18 DEF RemoveFails
<1>19. CASE Cascade(r)
  BY <1>19 DEF Cascade
<1>20. CASE CascadeFails(r)
  BY <1>20 DEF CascadeFails
<1>21. CASE Kill(r)
  BY <1>21 DEF Kill
<1>22. CASE Vanish(r)
  BY <1>22 DEF Vanish
<1> QED
  BY <1>1, <1>2, <1>3, <1>4, <1>5, <1>6, <1>7, <1>8, <1>9, <1>10, <1>11, <1>12, <1>13,
     <1>14, <1>15, <1>16, <1>17, <1>18, <1>19, <1>20, <1>21, <1>22
     DEF Download, Record, Delete

LEMMA SucceedsStep ==
    ASSUME HistoryInv, SoleInv, NEW r \in Accesses,
           Download(r) \/ Delete(r) \/ Kill(r) \/ Vanish(r)
    PROVE  UndisturbedSucceeds'
<1> USE HistoryExportAssumption
    DEF HistoryInv, ExportTypeOK, File, Final, Busy, Active, At, Move, Answer, Use, Disturb,
        OnlySettled, Settled, Written, SoleInv, Alone, OwnFile, TakesWhatItRead,
        UndisturbedSucceeds, recordVars, requestVars, ghostVars
<1>1. CASE Load(r, "resolve")
  BY <1>1 DEF Load
<1>2. CASE Consult(r)
  BY <1>2 DEF Consult
<1>3. CASE OpenFile(r)
  BY <1>3 DEF OpenFile
<1>4. CASE Write(r)
  BY <1>4 DEF Write
<1>5. CASE WriteFails(r)
  BY <1>5 DEF WriteFails
<1>6. CASE FullClean(r)
  BY <1>6 DEF FullClean
<1>7. CASE Insert(r)
  BY <1>7 DEF Insert
<1>8. CASE InsertFails(r)
  BY <1>8 DEF InsertFails
<1>9. CASE Lookup(r)
  BY <1>9 DEF Lookup
<1>10. CASE DropOwn(r)
  BY <1>10 DEF DropOwn
<1>11. CASE DropFails(r)
  BY <1>11 DEF DropFails
<1>12. CASE Open(r)
  BY <1>12 DEF Open
<1>13. CASE OpenFails(r)
  BY <1>13 DEF OpenFails
<1>14. CASE Forget(r)
  BY <1>14 DEF Forget
<1>15. CASE Load(r, "read")
  BY <1>15 DEF Load
<1>16. CASE ReadRow(r)
  BY <1>16 DEF ReadRow
<1>17. CASE Remove(r)
  BY <1>17 DEF Remove
<1>18. CASE RemoveFails(r)
  BY <1>18 DEF RemoveFails
<1>19. CASE Cascade(r)
  BY <1>19 DEF Cascade
<1>20. CASE CascadeFails(r)
  BY <1>20 DEF CascadeFails
<1>21. CASE Kill(r)
  BY <1>21 DEF Kill
<1>22. CASE Vanish(r)
  BY <1>22 DEF Vanish
<1> QED
  BY <1>1, <1>2, <1>3, <1>4, <1>5, <1>6, <1>7, <1>8, <1>9, <1>10, <1>11, <1>12, <1>13,
     <1>14, <1>15, <1>16, <1>17, <1>18, <1>19, <1>20, <1>21, <1>22
     DEF Download, Record, Delete

LEMMA SoleInvariant == ExportSpec => []SoleInv
<1>1. ExportInit => SoleInv
  BY DEF ExportInit, SoleInv, Alone, OwnFile, TakesWhatItRead, UndisturbedSucceeds, Busy
<1>2. HistoryInv /\ SoleInv /\ [ExportNext]_exportVars => SoleInv'
  <2>1. CASE UNCHANGED exportVars
    BY <2>1 DEF exportVars, recordVars, requestVars, ghostVars, SoleInv, Alone, OwnFile,
                TakesWhatItRead, UndisturbedSucceeds, Busy
  <2> QED
    BY <2>1, AloneStep, OwnFileStep, TakesStep, SucceedsStep DEF ExportNext, SoleInv
<1> QED
  BY <1>1, <1>2, HistoryInvariant, PTL DEF ExportSpec

(* A request that ran by itself does not fail, whatever a killed worker, a *)
(* failed deletion or a cleaned directory left behind (views.py:441, :642).*)
THEOREM UndisturbedNeverFails == ExportSpec => []UndisturbedSucceeds
<1>1. SoleInv => UndisturbedSucceeds
  BY DEF SoleInv
<1> QED
  BY <1>1, SoleInvariant, PTL

(* A file without a row is one whose maker was disturbed, or whose removal *)
(* failed (views.py:406, views.py:441, services.py:74).                    *)
THEOREM OrphansHaveAReason == ExportSpec => []OrphansAreExplained
<1>1. SoleInv => OrphansAreExplained
  BY DEF SoleInv, OwnFile, OrphansAreExplained
<1> QED
  BY <1>1, SoleInvariant, PTL
=============================================================================
