--------------------------- MODULE CustomSchemas ---------------------------
(***************************************************************************)
(* The custom schemas of one user: the rows, of which a user may have a    *)
(* few and with different names, the steps in which requests check and     *)
(* change them, and the page that manages them (useCustomSchemas,          *)
(* useCustomSchemaManager).  The page asks for the list when it is opened. *)
(* Every request of the page waits for an access token before it sets a    *)
(* flag, so its buttons can be used once more; there may be none, and any  *)
(* request may fail.  Other tabs send requests too.                        *)
(***************************************************************************)
EXTENDS Naturals, FiniteSets, Bags

CONSTANTS SchemaRequests,
          SchemaNames,
          NoName,
          MaxSchemas,    (* MAX_CUSTOM_SCHEMAS_PER_USER                       *)
          MaxIds,        (* bound: schemas ever created                       *)
          MaxAsked       (* bound: requests                                   *)

ASSUME CustomSchemasAssumption ==
    /\ IsFiniteSet(SchemaRequests) /\ SchemaRequests # {}
    /\ NoName \notin SchemaNames
    /\ MaxSchemas \in Nat \ {0} /\ MaxIds \in Nat /\ MaxAsked \in Nat

VARIABLES
    rows,       (* the user's schemas, [id, name]                            *)
    lastId,
    sentSoFar,  (* requests made                                             *)
    at,         (* where each request is                                     *)
    req,        (* what it is: by whom, and which row it makes or changes    *)
    shown,      (* the rows the page shows, a bag                            *)
    reading,    (* what a list request was answered with                     *)
    modal,      (* the form: "closed", "new", or open on a schema            *)
    dialog,     (* the schema the delete dialog is open on, or 0             *)
    saving, removing, fetching,       (* isSaving, deletingSchemaId, isLoading *)
    hasToken,   (* hasAccessToken                                            *)
    unseen,     (* history: the schemas no list has told the page of since   *)
                (* it was opened, or since a reload found it signed out      *)
    entangled   (* history: something happened the page cannot know of       *)

schemaRows == <<rows, lastId, sentSoFar>>
schemaPage == <<shown, modal, dialog, saving, removing, fetching, hasToken>>
schemaVars == <<schemaRows, at, req, schemaPage, reading, unseen, entangled>>

Asked(by, kind, id, name) == [by |-> by, kind |-> kind, id |-> id, name |-> name]
NoAsk == [by |-> "none", kind |-> "none", id |-> 0, name |-> NoName]
IdsOf(R) == {row.id : row \in R}
RowOf(r) == [id |-> req[r].id, name |-> req[r].name]
ByPage(r) == req[r].by = "page"
Changing(r) == ByPage(r) /\ req[r].kind # "list"

(* The page is opened: it shows nothing yet and is about to ask for the    *)
(* list, with the token that is stored or one that is yet to be refreshed. *)
SchemasInit ==
    /\ \E n \in 0 .. MaxSchemas :
          /\ \E f \in [1 .. n -> SchemaNames] :
                /\ \A i, j \in 1 .. n : f[i] = f[j] => i = j
                /\ rows = {[id |-> i, name |-> f[i]] : i \in 1 .. n}
          /\ lastId = n
    /\ sentSoFar = 0
    /\ \E first \in SchemaRequests :
          /\ at = [r \in SchemaRequests |-> IF r = first THEN "token" ELSE "idle"]
          /\ req = [r \in SchemaRequests |->
                       IF r = first THEN Asked("page", "list", 0, NoName) ELSE NoAsk]
    /\ reading = [r \in SchemaRequests |-> {}]
    /\ shown = EmptyBag /\ unseen = IdsOf(rows)
    /\ modal = [on |-> FALSE, id |-> 0] /\ dialog = 0
    /\ saving = FALSE /\ removing = 0
    /\ hasToken \in BOOLEAN /\ fetching = hasToken
    /\ entangled = FALSE

-----------------------------------------------------------------------------
(* The page's buttons. *)
OpenForm(id) ==
    /\ ~modal.on /\ dialog = 0 /\ hasToken /\ ~fetching /\ ~saving
    /\ IF id = 0 THEN BagCardinality(shown) < MaxSchemas
                 ELSE id \in IdsOf(BagToSet(shown)) /\ removing # id
    /\ modal' = [on |-> TRUE, id |-> id]
    /\ UNCHANGED <<schemaRows, at, req, reading, shown, dialog, saving, removing,
                   fetching, hasToken, unseen, entangled>>

CloseForm ==
    /\ modal.on /\ ~saving
    /\ modal' = [on |-> FALSE, id |-> 0]
    /\ UNCHANGED <<schemaRows, at, req, reading, shown, dialog, saving, removing,
                   fetching, hasToken, unseen, entangled>>

OpenDialog(id) ==
    /\ ~modal.on /\ dialog = 0
    /\ id \in IdsOf(BagToSet(shown)) /\ removing # id
    /\ dialog' = id
    /\ UNCHANGED <<schemaRows, at, req, reading, shown, modal, saving, removing,
                   fetching, hasToken, unseen, entangled>>

CloseDialog ==
    /\ dialog # 0 /\ removing = 0
    /\ dialog' = 0
    /\ UNCHANGED <<schemaRows, at, req, reading, shown, modal, saving, removing,
                   fetching, hasToken, unseen, entangled>>

(* What the page cannot put right: two of its changes of one schema, or a  *)
(* list, under way with another request.                                   *)
Entangles(what) ==
    \E q \in SchemaRequests :
        /\ ByPage(q)
        /\ \/ "list" \in {what.kind, req[q].kind}
           \/ what.id # 0 /\ req[q].id = what.id

Start(r, what) ==
    /\ at[r] = "idle" /\ sentSoFar < MaxAsked
    /\ sentSoFar' = sentSoFar + 1
    /\ req' = [req EXCEPT ![r] = what]
    /\ at' = [at EXCEPT ![r] = IF what.by = "page" THEN "token" ELSE "sent"]
    /\ entangled' = (entangled \/ (what.by = "page" /\ Entangles(what)))
    /\ UNCHANGED <<rows, lastId, schemaPage, reading, unseen>>

Submit(r, name) ==
    /\ modal.on /\ ~saving
    /\ Start(r, Asked("page", IF modal.id = 0 THEN "create" ELSE "update", modal.id, name))
ConfirmDelete(r) ==
    /\ dialog # 0 /\ removing # dialog
    /\ Start(r, Asked("page", "delete", dialog, NoName))
Reload(r) ==
    /\ ~modal.on /\ dialog = 0 /\ hasToken /\ ~fetching
    /\ Start(r, Asked("page", "list", 0, NoName))
ElsewhereAsked(r, id, name) ==
    /\ id \in 0 .. lastId
    /\ \/ Start(r, Asked("tab", IF id = 0 THEN "create" ELSE "update", id, name))
       \/ id # 0 /\ Start(r, Asked("tab", "delete", id, NoName))

(* A request that is over. *)
Forget(r) ==
    /\ at' = [at EXCEPT ![r] = "idle"]
    /\ req' = [req EXCEPT ![r] = NoAsk]
    /\ reading' = [reading EXCEPT ![r] = {}]
    /\ UNCHANGED schemaRows

(* There is no token: the request is not made, and one for the list takes  *)
(* off the page what it shows.                                             *)
NoToken(r) ==
    /\ at[r] = "token"
    /\ IF req[r].kind = "list"
       THEN shown' = EmptyBag /\ unseen' = IdsOf(rows) /\ fetching' = FALSE
       ELSE UNCHANGED <<shown, unseen, fetching>>
    /\ hasToken' = FALSE
    /\ Forget(r)
    /\ UNCHANGED <<modal, dialog, saving, removing, entangled>>

(* The token is there: the flags are set, the request is sent. *)
SendRequest(r) ==
    /\ at[r] = "token"
    /\ at' = [at EXCEPT ![r] = "sent"]
    /\ saving' = (saving \/ req[r].kind \in {"create", "update"})
    /\ removing' = IF req[r].kind = "delete" THEN req[r].id ELSE removing
    /\ fetching' = (fetching \/ req[r].kind = "list")
    /\ hasToken' = TRUE
    /\ UNCHANGED <<schemaRows, req, reading, shown, modal, dialog, unseen, entangled>>

-----------------------------------------------------------------------------
(* The server.  A change by another tab is one the page does not know of.  *)
To(r, place) ==
    /\ at' = [at EXCEPT ![r] = place]
    /\ UNCHANGED <<req, schemaPage, unseen>>

Took(r) ==
    /\ To(r, "done")
    /\ entangled' = (entangled \/ ~ByPage(r))
    /\ UNCHANGED reading

(* What is read before anything is written: get_object, validate_name and, *)
(* of a create, ensure_can_create_for_user.                                *)
NameTaken(r) == \E row \in rows : row.name = req[r].name /\ row.id # req[r].id
AtLimitLate(n) == n > MaxSchemas
AtLimit(n) == n >= MaxSchemas
Check(r) ==
    /\ at[r] = "sent" /\ req[r].kind \in {"create", "update"}
    /\ LET refused == \/ NameTaken(r)
                      \/ req[r].kind = "create" /\ AtLimit(Cardinality(rows))
                      \/ req[r].kind = "update" /\ req[r].id \notin IdsOf(rows)
       IN  To(r, IF refused THEN "failed" ELSE "checked")
    /\ UNCHANGED <<schemaRows, reading, entangled>>

(* save: the name is checked again, by full_clean and by the constraint.   *)
Insert(r) ==
    /\ at[r] = "checked" /\ req[r].kind = "create" /\ lastId < MaxIds
    /\ ~NameTaken(r)
    /\ rows' = rows \cup {[id |-> lastId + 1, name |-> req[r].name]}
    /\ lastId' = lastId + 1
    /\ req' = [req EXCEPT ![r].id = lastId']
    /\ at' = [at EXCEPT ![r] = "done"]
    /\ entangled' = (entangled \/ ~ByPage(r))
    /\ UNCHANGED <<sentSoFar, schemaPage, reading, unseen>>

(* Django updates the row, and inserts it where it was deleted meanwhile.  *)
Update(r) ==
    /\ at[r] = "checked" /\ req[r].kind = "update"
    /\ ~NameTaken(r)
    /\ rows' = {row \in rows : row.id # req[r].id} \cup {RowOf(r)}
    /\ UNCHANGED <<lastId, sentSoFar>>
    /\ Took(r)

SaveRefused(r) ==
    /\ at[r] = "checked" /\ NameTaken(r)
    /\ To(r, "failed")
    /\ UNCHANGED <<schemaRows, reading, entangled>>

(* A row that is gone already is not there to be removed, or is removed    *)
(* once more: either way none is left.                                     *)
Remove(r) ==
    /\ at[r] = "sent" /\ req[r].kind = "delete"
    /\ rows' = {row \in rows : row.id # req[r].id}
    /\ UNCHANGED <<lastId, sentSoFar>>
    /\ Took(r)

ReadList(r) ==
    /\ at[r] = "sent" /\ req[r].kind = "list"
    /\ reading' = [reading EXCEPT ![r] = rows]
    /\ To(r, "done")
    /\ UNCHANGED <<schemaRows, entangled>>

-----------------------------------------------------------------------------
(* The answers.  Each is applied to what the page shows by then, and ends  *)
(* the spinner of its kind; a saved or deleted schema closes whatever form *)
(* or dialog is open.                                                      *)
Ended(r) ==
    /\ saving' = (saving /\ req[r].kind \notin {"create", "update"})
    /\ removing' = IF req[r].kind = "delete" THEN 0 ELSE removing
    /\ fetching' = (fetching /\ req[r].kind # "list")

(* A changed schema takes the place of each copy of it that is shown.      *)
SameSchema(row, r) == row.id = req[r].id
Others(r) ==
    LET kept == {row \in BagToSet(shown) : ~SameSchema(row, r)}
    IN  [row \in kept |-> shown[row]]
Copies(r) ==
    UNION {{row} \X (1 .. shown[row]) : row \in BagToSet(shown) \ BagToSet(Others(r))}
Applied(r) ==
    CASE req[r].kind = "create" -> shown (+) SetToBag({RowOf(r)})
      [] req[r].kind = "update" ->
            IF Copies(r) = {} THEN shown
            ELSE Others(r) (+) [row \in {RowOf(r)} |-> Cardinality(Copies(r))]
      [] req[r].kind = "delete" -> Others(r)
      [] OTHER -> SetToBag(reading[r])

Answer(r) ==
    /\ ByPage(r) /\ at[r] = "done"
    /\ shown' = Applied(r)
    /\ modal' = IF req[r].kind \in {"create", "update"}
                THEN [on |-> FALSE, id |-> 0] ELSE modal
    /\ unseen' = IF req[r].kind = "list" THEN {} ELSE unseen
    /\ dialog' = IF req[r].kind = "delete" THEN 0 ELSE dialog
    /\ Ended(r) /\ Forget(r)
    /\ UNCHANGED <<hasToken, entangled>>

(* A refusal, or an answer that is lost: what it said is done all the same.*)
AnswerFails(r) ==
    /\ ByPage(r) /\ at[r] \in {"sent", "failed", "done"}
    /\ entangled' = (entangled \/ (at[r] = "done" /\ Changing(r)))
    /\ Ended(r) /\ Forget(r)
    /\ UNCHANGED <<shown, modal, dialog, hasToken, unseen>>

AnsweredElsewhere(r) ==
    /\ req[r].by = "tab" /\ at[r] \in {"failed", "done"}
    /\ Forget(r)
    /\ UNCHANGED <<schemaPage, unseen, entangled>>

SchemasNext ==
    \/ \E id \in 0 .. MaxIds : OpenForm(id) \/ OpenDialog(id)
    \/ CloseForm \/ CloseDialog
    \/ \E r \in SchemaRequests :
          \/ \E name \in SchemaNames :
                \/ Submit(r, name)
                \/ \E id \in 0 .. MaxIds : ElsewhereAsked(r, id, name)
          \/ ConfirmDelete(r) \/ Reload(r) \/ SendRequest(r) \/ NoToken(r)
          \/ Check(r) \/ Insert(r) \/ Update(r) \/ SaveRefused(r) \/ Remove(r) \/ ReadList(r)
          \/ Answer(r) \/ AnswerFails(r) \/ AnsweredElsewhere(r)

SchemasSpec == SchemasInit /\ [][SchemasNext]_schemaVars

-----------------------------------------------------------------------------
SchemasTypeOK ==
    /\ rows \subseteq [id : 1 .. MaxIds, name : SchemaNames]
    /\ lastId \in 0 .. MaxIds /\ sentSoFar \in 0 .. MaxAsked
    /\ at \in [SchemaRequests -> {"idle", "token", "sent", "checked", "failed", "done"}]
    /\ \A r \in SchemaRequests :
          /\ req[r].id \in 0 .. MaxIds /\ req[r].name \in SchemaNames \cup {NoName}
          /\ at[r] = "idle" <=> req[r] = NoAsk
    /\ IsABag(shown)
    /\ saving \in BOOLEAN /\ removing \in 0 .. MaxIds /\ fetching \in BOOLEAN
    /\ hasToken \in BOOLEAN /\ entangled \in BOOLEAN
    /\ unseen \subseteq 1 .. MaxIds

(* "A user can only have up to {max_count} custom schemas." The schemas    *)
(* are counted in one step and saved in another, and a save may bring back *)
(* what was deleted: still there is never more than one too many for every *)
(* request that can be at it besides the last.  Names stay apart.          *)
LimitNearlyKept ==
    /\ Cardinality(rows) < MaxSchemas + Cardinality(SchemaRequests)
    /\ \A row, other \in rows :
          row.id = other.id \/ row.name = other.name => row = other

(* When all of its requests are answered, and none was of the same schema  *)
(* as another or a list that overtook one, the page shows exactly the rows *)
(* there are, whatever the order of the answers: all of them when a list   *)
(* has reached it, and those it made itself when the list it asked for on  *)
(* opening failed, or when a reload found no token.                        *)
ShownAreRows ==
    ~entangled /\ (\A r \in SchemaRequests : ~ByPage(r)) =>
        shown = SetToBag({row \in rows : row.id \notin unseen})

SchemasTrue == LimitNearlyKept /\ ShownAreRows
=============================================================================
