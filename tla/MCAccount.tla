----------------------------- MODULE MCAccount -----------------------------
(***************************************************************************)
(* What a user has, on small instances: Account, the metrics its views are *)
(* recorded in (track_auth_metric, MonitoringStats), and CustomSchemas.    *)
(* They share no state, so a behaviour is one of one of them, and `which`  *)
(* says of which.                                                          *)
(***************************************************************************)
EXTENDS Account, MonitoringStats, CustomSchemas, TLC

VARIABLE which

(* Names differ and are nothing else, so it does not matter which come first. *)
FirstNames ==
    CHOOSE f \in [1 .. MaxSchemas -> SchemaNames] :
        \A i, j \in 1 .. MaxSchemas : f[i] = f[j] => i = j

MCInit ==
    /\ which \in {"account", "stats", "schemas"}
    /\ Init /\ StatsInit /\ SchemasInit
    /\ \A old \in rows : old.name = FirstNames[old.id]
    /\ (which # "schemas" => rows = {} /\ hasToken)

OfAccount ==
    /\ which = "account" /\ Next
    /\ UNCHANGED <<which, statsVars, schemaVars>>
OfStats ==
    /\ which = "stats" /\ StatsNext
    /\ UNCHANGED <<which, vars, schemaVars>>
(* What is opened when no request is left to make (MaxAsked) asks nothing. *)
OpensForNothing ==
    /\ sentSoFar = MaxAsked
    /\ (~modal.on /\ modal'.on) \/ (dialog = 0 /\ dialog' # 0)
OfSchemas ==
    /\ which = "schemas" /\ SchemasNext /\ ~OpensForNothing
    /\ UNCHANGED <<which, vars, statsVars>>

MCNext == OfAccount \/ OfStats \/ OfSchemas

MCSpec == MCInit /\ [][MCNext]_<<which, vars, statsVars, schemaVars>>

(* The types of all three. *)
MCTypeOK == TypeOK /\ StatsTypeOK /\ SchemasTypeOK

(* Names that no schema has at first are as good as each other. *)
Symmetry ==
    Permutations(Readers) \cup Permutations(SchemaRequests)
        \cup Permutations(SchemaNames \ {FirstNames[i] : i \in 1 .. MaxSchemas})
=============================================================================
