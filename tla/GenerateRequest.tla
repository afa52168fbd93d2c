-------------------------- MODULE GenerateRequest --------------------------
(***************************************************************************)
(* llm_generate requests that carry one Idempotency-Key of one user: the   *)
(* key's record in the cache, which expires, around the workflow that asks *)
(* the provider, appends the follow-up prompt, stores the output in one    *)
(* transaction and then its artifact history.                              *)
(*                                                                         *)
(* A payload is the validated request data, so its hash is the payload     *)
(* itself.  Time is counted in ticks; the cache drops a record at its      *)
(* expiry time.                                                            *)
(***************************************************************************)
EXTENDS Integers, FiniteSets

CONSTANTS Requests,    (* threads that serve llm_generate                     *)
          Payloads,    (* request data                                        *)
          InSession,   (* payloads that name the user's existing session      *)
          FollowUps,   (* those with a prompt and no chat_id                  *)
          NoPayload,
          TTL,         (* LLM_GENERATE_IDEMPOTENCY_TTL_SECONDS                *)
          Longest,     (* ticks a workflow may take                           *)
          MaxTime,     (* bound: ticks                                        *)
          MaxOutputs,  (* bound: outputs and messages stored                  *)
          MaxBoots     (* bound: server processes started                     *)

ASSUME GenerateAssumption ==
    /\ InSession \subseteq Payloads
    /\ FollowUps \subseteq InSession
    /\ NoPayload \notin Payloads
    /\ TTL \in Nat \ {0}
    /\ Longest \in Nat
    /\ MaxTime \in Nat
    /\ MaxOutputs \in Nat
    /\ MaxBoots \in Nat

VARIABLES
    now,        (* ticks                                                      *)
    boot,       (* server processes started so far                            *)
    record,     (* the key's cache entry                                      *)
    pc,         (* where each request is                                      *)
    payload,    (* what each request asks for                                 *)
    started,    (* when each request locked the key                           *)
    reply,      (* the workflow's response                                    *)
    answer,     (* the response this step sent, if it sent one                *)
    alive,      (* does the existing session exist                            *)
    messages,   (* follow-up prompts appended to it                           *)
    outputs,    (* generated_outputs rows                                     *)
    made,       (* outputs stored so far                                      *)
    artifacts   (* outputs with an artifact history row                       *)

clockVars == <<now, boot>>
threadVars == <<pc, payload, started, reply>>
dbVars == <<alive, messages, outputs, made, artifacts>>
vars == <<clockVars, record, threadVars, answer, dbVars>>

NoReply == [status |-> "none", payload |-> NoPayload, output |-> 0]
NoRecord == [state |-> "absent", hash |-> NoPayload, reply |-> NoReply, expires |-> 0]
NoAnswer == [kind |-> "none", asked |-> NoPayload, reply |-> NoReply]

(* cache.get: an expired entry is not there. *)
Read == IF record.state # "absent" /\ now < record.expires THEN record ELSE NoRecord

Executing == {"resolving", "generating", "attaching", "persisting",
              "archiving", "completing"}
Runs(r) == pc[r] \in Executing

-----------------------------------------------------------------------------
Init ==
    /\ now = 0
    /\ boot = 1
    /\ record = NoRecord
    /\ pc = [r \in Requests |-> "idle"]
    /\ payload = [r \in Requests |-> NoPayload]
    /\ started = [r \in Requests |-> 0]
    /\ reply = [r \in Requests |-> NoReply]
    /\ answer = NoAnswer
    /\ alive = TRUE
    /\ messages = 0
    /\ outputs = {}
    /\ made = 0
    /\ artifacts = {}

Goto(r, l) == pc' = [pc EXCEPT ![r] = l] /\ answer' = NoAnswer

(* The response is sent; the locals of the thread are gone. *)
AnswerWith(r, p, kind, rep) ==
    /\ answer' = [kind |-> kind, asked |-> p, reply |-> rep]
    /\ pc' = [pc EXCEPT ![r] = "idle"]
    /\ payload' = [payload EXCEPT ![r] = NoPayload]
    /\ started' = [started EXCEPT ![r] = 0]
    /\ reply' = [reply EXCEPT ![r] = NoReply]

(***************************************************************************)
(* The idempotency wrapper.                                                *)
(***************************************************************************)

(* The response a record found in the cache stands for. *)
RefusalIgnoringHash(c, p) ==
    CASE c.state = "in_progress" -> [kind |-> "in_progress", reply |-> NoReply]
      [] c.state = "completed"   -> [kind |-> "replayed", reply |-> c.reply]
Refusal(c, p) ==
    CASE c.hash # p              -> [kind |-> "reused", reply |-> NoReply]
      [] c.hash = p /\ c.state = "in_progress" ->
                                    [kind |-> "in_progress", reply |-> NoReply]
      [] c.hash = p /\ c.state = "completed" ->
                                    [kind |-> "replayed", reply |-> c.reply]

(* A request arrives and looks its key up. *)
Arrive(r, p) ==
    /\ pc[r] = "idle"
    /\ IF Read = NoRecord
       THEN /\ Goto(r, "missed")
            /\ payload' = [payload EXCEPT ![r] = p]
            /\ UNCHANGED <<started, reply>>
       ELSE AnswerWith(r, p, Refusal(Read, p).kind, Refusal(Read, p).reply)
    /\ UNCHANGED <<clockVars, record, dbVars>>

LockUntimed(r, p) == [state |-> "in_progress", hash |-> p, reply |-> NoReply]
Lock(r, p) == [state |-> "in_progress", hash |-> p, reply |-> NoReply,
               expires |-> now + TTL]

(* cache.add: only if there is no entry. *)
AcquireUnconditionally(r) ==
    /\ pc[r] = "missed"
    /\ record' = Lock(r, payload[r])
    /\ started' = [started EXCEPT ![r] = now]
    /\ Goto(r, "resolving")
    /\ UNCHANGED <<clockVars, payload, reply, dbVars>>
Acquire(r) ==
    /\ pc[r] = "missed"
    /\ Read = NoRecord
    /\ record' = Lock(r, payload[r])
    /\ started' = [started EXCEPT ![r] = now]
    /\ Goto(r, "resolving")
    /\ UNCHANGED <<clockVars, payload, reply, dbVars>>

Contend(r) ==
    /\ pc[r] = "missed"
    /\ Read # NoRecord
    /\ Goto(r, "contended")
    /\ UNCHANGED <<clockVars, record, payload, started, reply, dbVars>>

(* The loser looks again; if the entry is gone by then the answer is still *)
(* that the request is in progress.                                        *)
LookAgain(r) ==
    /\ pc[r] = "contended"
    /\ IF Read = NoRecord
       THEN AnswerWith(r, payload[r], "in_progress", NoReply)
       ELSE AnswerWith(r, payload[r], Refusal(Read, payload[r]).kind,
                       Refusal(Read, payload[r]).reply)
    /\ UNCHANGED <<clockVars, record, dbVars>>

(* The workflow raised or answered 5xx: cache.delete, whatever is there. *)
ReleaseForgotten(r) ==
    /\ record' = record
    /\ AnswerWith(r, payload[r], "error", NoReply)
Release(r) ==
    /\ record' = NoRecord
    /\ AnswerWith(r, payload[r], "error", NoReply)

(* Any other response is stored, also a 4xx one. *)
CompleteUnrenewed(r) ==
    /\ pc[r] = "completing"
    /\ record' = [state |-> "completed", hash |-> payload[r], reply |-> reply[r],
                  expires |-> record.expires]
    /\ AnswerWith(r, payload[r], "fresh", reply[r])
    /\ UNCHANGED <<clockVars, dbVars>>
Complete(r) ==
    /\ pc[r] = "completing"
    /\ record' = [state |-> "completed", hash |-> payload[r], reply |-> reply[r],
                  expires |-> now + TTL]
    /\ AnswerWith(r, payload[r], "fresh", reply[r])
    /\ UNCHANGED <<clockVars, dbVars>>

-----------------------------------------------------------------------------
(***************************************************************************)
(* The workflow.                                                           *)
(***************************************************************************)
ClientError(r) ==
    /\ reply' = [reply EXCEPT ![r] = [status |-> "client_error",
                                      payload |-> payload[r], output |-> 0]]
    /\ Goto(r, "completing")

Resolve(r) ==
    /\ pc[r] = "resolving"
    /\ payload[r] \in InSession => alive
    /\ Goto(r, "generating")
    /\ UNCHANGED <<clockVars, record, payload, started, reply, dbVars>>

(* The session is gone: 404. *)
ResolveFails(r) ==
    /\ pc[r] = "resolving"
    /\ payload[r] \in InSession /\ ~alive
    /\ ClientError(r)
    /\ UNCHANGED <<clockVars, record, payload, started, dbVars>>

Generate(r) ==
    /\ pc[r] = "generating"
    /\ Goto(r, IF payload[r] \in FollowUps THEN "attaching" ELSE "persisting")
    /\ UNCHANGED <<clockVars, record, payload, started, reply, dbVars>>

(* The provider or the schema lookup answers with an error of the client's *)
(* (400, 404, 429), or of the server's.                                    *)
GenerateRefused(r) ==
    /\ pc[r] = "generating"
    /\ ClientError(r)
    /\ UNCHANGED <<clockVars, record, payload, started, dbVars>>

GenerateFails(r) ==
    /\ pc[r] = "generating"
    /\ Release(r)
    /\ UNCHANGED <<clockVars, dbVars>>

(* append_user_message commits on its own, before the output. *)
Attach(r) ==
    /\ pc[r] = "attaching"
    /\ alive
    /\ messages < MaxOutputs
    /\ messages' = messages + 1
    /\ Goto(r, "persisting")
    /\ UNCHANGED <<clockVars, record, payload, started, reply,
                   alive, outputs, made, artifacts>>

AttachFails(r) ==
    /\ pc[r] = "attaching"
    /\ ~alive
    /\ Release(r)
    /\ UNCHANGED <<clockVars, dbVars>>

(* One transaction: the session if there is none, its first message and    *)
(* the output.                                                             *)
Persist(r) ==
    /\ pc[r] = "persisting"
    /\ payload[r] \in InSession => alive
    /\ made < MaxOutputs
    /\ made' = made + 1
    /\ outputs' = outputs \cup {[id |-> made + 1, payload |-> payload[r],
                                 at |-> now, boot |-> boot]}
    /\ reply' = [reply EXCEPT ![r] = [status |-> "ok", payload |-> payload[r],
                                      output |-> made + 1]]
    /\ Goto(r, "archiving")
    /\ UNCHANGED <<clockVars, record, payload, started, alive,
                   messages, artifacts>>

(* The session went away, or the database refused: 500, rolled back. *)
PersistFails(r) ==
    /\ pc[r] = "persisting"
    /\ Release(r)
    /\ UNCHANGED <<clockVars, dbVars>>

(* The artifact history row names the session without a foreign key; a     *)
(* failure to store it is logged and forgotten.                            *)
Archive(r) ==
    /\ pc[r] = "archiving"
    /\ artifacts' \in {artifacts, artifacts \cup {reply[r].output}}
    /\ Goto(r, "completing")
    /\ UNCHANGED <<clockVars, record, payload, started, reply,
                   alive, messages, outputs, made>>

-----------------------------------------------------------------------------
(* Deleting the session deletes its messages and outputs, not its artifact *)
(* histories.                                                              *)
DeleteSession ==
    /\ alive
    /\ alive' = FALSE
    /\ messages' = 0
    /\ outputs' = {o \in outputs : o.payload \notin InSession}
    /\ answer' = NoAnswer
    /\ UNCHANGED <<clockVars, record, threadVars, made, artifacts>>

(* No workflow takes longer than Longest. *)
Tick ==
    /\ now < MaxTime
    /\ \A r \in Requests : Runs(r) => now < started[r] + Longest
    /\ now' = now + 1
    /\ answer' = NoAnswer
    /\ UNCHANGED <<boot, record, threadVars, dbVars>>

(* The cache lives in the server process. *)
Restart ==
    /\ boot < MaxBoots
    /\ boot' = boot + 1
    /\ record' = NoRecord
    /\ pc' = [r \in Requests |-> "idle"]
    /\ payload' = [r \in Requests |-> NoPayload]
    /\ started' = [r \in Requests |-> 0]
    /\ reply' = [r \in Requests |-> NoReply]
    /\ answer' = NoAnswer
    /\ UNCHANGED <<now, dbVars>>

Step(r) ==
    \/ \E p \in Payloads : Arrive(r, p)
    \/ Acquire(r) \/ Contend(r) \/ LookAgain(r)
    \/ Resolve(r) \/ ResolveFails(r)
    \/ Generate(r) \/ GenerateRefused(r) \/ GenerateFails(r)
    \/ Attach(r) \/ AttachFails(r)
    \/ Persist(r) \/ PersistFails(r)
    \/ Archive(r) \/ Complete(r)

Next == (\E r \in Requests : Step(r)) \/ DeleteSession \/ Tick \/ Restart

Spec == Init /\ [][Next]_vars

-----------------------------------------------------------------------------
(***************************************************************************)
(* Properties.                                                             *)
(***************************************************************************)
Replies == [status : {"none", "ok", "client_error"},
            payload : Payloads \cup {NoPayload}, output : Nat]

(* Types of the cache entry, of the request threads and of the tables. *)
TypeOK ==
    /\ now \in Nat
    /\ boot \in Nat
    /\ record \in [state : {"absent", "in_progress", "completed"},
                   hash : Payloads \cup {NoPayload}, reply : Replies, expires : Nat]
    /\ pc \in [Requests -> {"idle", "missed", "contended"} \cup Executing]
    /\ payload \in [Requests -> Payloads \cup {NoPayload}]
    /\ started \in [Requests -> Nat]
    /\ reply \in [Requests -> Replies]
    /\ answer \in [kind : {"none", "error", "fresh", "reused", "in_progress",
                            "replayed"},
                   asked : Payloads \cup {NoPayload}, reply : Replies]
    /\ alive \in BOOLEAN
    /\ messages \in Nat
    /\ outputs \subseteq [id : Nat, payload : Payloads, at : Nat, boot : Nat]
    /\ made \in Nat
    /\ artifacts \subseteq Nat

(* Two requests with the same key never run the workflow at the same time. *)
OneRunAtATime == \A r, s \in Requests : Runs(r) /\ Runs(s) => r = s

(* A key is reported as in progress only while the request it stands for   *)
(* is being worked on: no failure path leaves the lock behind.             *)
LockHasRunner ==
    Read.state = "in_progress" =>
        \E r \in Requests : Runs(r) /\ payload[r] = record.hash

(* A replayed answer was made for the very payload that asks, and an       *)
(* output it names is the one stored for it (its session may be gone).     *)
ReplayIsOriginal ==
    answer.kind = "replayed" =>
        /\ answer.reply.payload = answer.asked
        /\ answer.reply.status = "ok" =>
              \/ \E o \in outputs : /\ o.id = answer.reply.output
                                    /\ o.payload = answer.asked
              \/ answer.asked \in InSession /\ ~alive

(* A retry does not do the work again: two outputs of the key, stored by   *)
(* one server process, are at least TTL apart.                             *)
OutputsApart ==
    \A o, p \in outputs :
        o.id < p.id /\ o.boot = p.boot => p.at >= o.at + TTL

(* What the key promises, read off the record and the request that runs.   *)
Runner == CHOOSE r \in Requests : Runs(r)
SomeoneRuns == \E r \in Requests : Runs(r)
Promise == INSTANCE IdempotentKey WITH
    holder <- IF SomeoneRuns THEN payload[Runner] ELSE Read.hash,
    done   <- IF SomeoneRuns
              THEN IF pc[Runner] \in {"archiving", "completing"}
                      /\ reply[Runner].status = "ok" THEN 1 ELSE 0
              ELSE IF Read.reply.status = "ok" THEN 1 ELSE 0,
    total  <- made
PromiseKept == Promise!KeySpec
=============================================================================
