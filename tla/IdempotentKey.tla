--------------------------- MODULE IdempotentKey ---------------------------
(***************************************************************************)
(* What an Idempotency-Key promises: while one request holds the key, or   *)
(* its answer is remembered, the work is done at most once and by that     *)
(* request; who holds the key may change only after it was given up.       *)
(***************************************************************************)
EXTENDS Naturals

CONSTANTS Payloads,   (* what a request may ask for                           *)
          NoPayload   (* nobody holds the key                                 *)

VARIABLES
    holder,    (* the payload the key stands for                              *)
    done,      (* outputs made since the key was claimed                      *)
    total      (* outputs made with the key so far                            *)

keyVars == <<holder, done, total>>

KeyInit == holder = NoPayload /\ done = 0 /\ total = 0

Claim == /\ holder = NoPayload
         /\ holder' \in Payloads
         /\ done' = 0
         /\ total' = total

Produce == /\ holder # NoPayload
           /\ done = 0
           /\ done' = 1
           /\ total' = total + 1
           /\ holder' = holder

(* The request failed, its answer is forgotten, or the server restarted. *)
GiveUp == /\ holder # NoPayload
          /\ holder' = NoPayload
          /\ done' = 0
          /\ total' = total

KeyNext == Claim \/ Produce \/ GiveUp

KeySpec == KeyInit /\ [][KeyNext]_keyVars
=============================================================================
