---------------------------- MODULE HistoryPage ----------------------------
(***************************************************************************)
(* The history page: the sessions of a user listed by the server in pages, *)
(* the hook that gathers them into one list (useHistoryFiles, loadAll),    *)
(* renames and deletes, and the two hooks that fetch what the selected     *)
(* session is made of (useSessionResume, useSessionThinkingLogs).  Other   *)
(* tabs of the user change the same sessions meanwhile.                    *)
(*                                                                         *)
(* A dialog covers the page while a rename or a delete is under way, so    *)
(* there is one at a time; the selection may still change under it, by the *)
(* browser's back button.  A title is the number of the rename it is of.   *)
(***************************************************************************)
EXTENDS Naturals, Sequences, FiniteSets

CONSTANTS HistorySessions,
          NoSession,
          PageSize,       (* what the page asks for at once                   *)
          MaxChanges,     (* bound: changes made by other tabs                *)
          MaxRenames,     (* bound: renames, by anyone                        *)
          MaxEffects      (* bound: selections followed by the hooks          *)

ASSUME HistoryPageAssumption ==
    /\ NoSession \notin HistorySessions
    /\ PageSize \in Nat \ {0}
    /\ MaxChanges \in Nat /\ MaxRenames \in Nat /\ MaxEffects \in Nat

VARIABLES
    stored,    (* the sessions of the user, the most recent first             *)
    title,     (* the titles of all there ever were                           *)
    buried,    (* the sessions that were deleted, by anyone                   *)
    changes, renames,
    listed,    (* items: the sessions the page shows, with their titles       *)
    loading,   (* isLoading, and the answers gathered so far                  *)
    loadError,
    mutation,  (* the rename or the delete under way, and the title it gave   *)
    erased,    (* the sessions this page was told it deleted                  *)
    query,     (* the session the address names                               *)
    followed,  (* the session of the last effect the two hooks ran            *)
    effect,    (* how many they ran                                           *)
    fetches,   (* their requests under way                                    *)
    resume, logs,                  (* whose are shown                         *)
    resumeLoading, logsLoading     (* the spinners of the two                 *)

sessionsVars == <<stored, title, buried, changes, renames>>
listVars == <<listed, loading, loadError, mutation, erased>>
detailVars == <<followed, effect, fetches, resume, logs, resumeLoading, logsLoading>>
pageVars == <<sessionsVars, listVars, query, detailVars>>

Idle == [kind |-> "none", on |-> NoSession, at |-> "none", given |-> 0]
NotLoading == [on |-> FALSE, sofar |-> <<>>, count |-> 0]
Among(s, seq) == \E i \in DOMAIN seq : seq[i] = s
Ids(items) == {items[i].id : i \in DOMAIN items}
Item(s) == [id |-> s, title |-> title[s]]

(* list_sessions_for_user, and the answer session_list makes of it: count  *)
(* is the length of this page.                                             *)
Batch(offset) ==
    LET upto == IF offset + PageSize < Len(stored) THEN offset + PageSize
                ELSE Len(stored)
    IN  [i \in 1 .. (IF upto > offset THEN upto - offset ELSE 0) |->
            Item(stored[offset + i])]

(* What is selected: the session in the address, or the first listed.      *)
Selected ==
    IF query # NoSession THEN query
    ELSE IF listed # <<>> THEN listed[1].id
    ELSE NoSession

HistoryInit ==
    /\ \E n \in 0 .. Cardinality(HistorySessions) :
          stored \in {s \in [1 .. n -> HistorySessions] :
                        \A i, j \in 1 .. n : s[i] = s[j] => i = j}
    /\ title = [s \in HistorySessions |-> 0]
    /\ buried = {} /\ changes = 0 /\ renames = 0
    /\ listed = <<>> /\ loading = [NotLoading EXCEPT !.on = TRUE]
    /\ loadError = FALSE /\ mutation = Idle /\ erased = {}
    /\ query \in {NoSession} \cup HistorySessions
    /\ followed = NoSession /\ effect = 0 /\ fetches = {}
    /\ resume = NoSession /\ logs = NoSession
    /\ resumeLoading = FALSE /\ logsLoading = FALSE

-----------------------------------------------------------------------------
(* What is left of a list at some of its places, in order.                 *)
Filtered(seq, places) ==
    [n \in 1 .. Cardinality(places) |->
        seq[CHOOSE i \in places : Cardinality({j \in places : j <= i}) = n]]
Without(seq, s) == Filtered(seq, {i \in DOMAIN seq : seq[i] # s})

(* What other tabs do: a session is begun or written to, and is the first  *)
(* of the list then, renamed, or deleted.                                  *)
Elsewhere ==
    /\ changes < MaxChanges
    /\ changes' = changes + 1
    /\ UNCHANGED <<listVars, query, detailVars>>

TouchedElsewhere(s) ==
    /\ s \notin buried
    /\ stored' = <<s>> \o Without(stored, s)
    /\ UNCHANGED <<title, buried, renames>>
    /\ Elsewhere

RenamedElsewhere(s) ==
    /\ Among(s, stored)
    /\ renames < MaxRenames
    /\ renames' = renames + 1
    /\ title' = [title EXCEPT ![s] = renames']
    /\ UNCHANGED <<stored, buried>>
    /\ Elsewhere

DeletedElsewhere(s) ==
    /\ Among(s, stored)
    /\ stored' = Without(stored, s)
    /\ buried' = buried \cup {s}
    /\ UNCHANGED <<title, renames>>
    /\ Elsewhere

-----------------------------------------------------------------------------
(* loadHistory with loadAll: batches are asked for until as many are there *)
(* as the first answer counted, or one is empty.                           *)
Loaded(items) ==
    /\ listed' = items
    /\ loading' = NotLoading

LoadFirst ==
    /\ loading.on /\ loading.sofar = <<>>
    /\ IF Batch(0) = <<>> THEN Loaded(<<>>)
       ELSE /\ loading' = [on |-> TRUE, sofar |-> Batch(0), count |-> Len(Batch(0))]
            /\ UNCHANGED listed
    /\ UNCHANGED <<sessionsVars, loadError, mutation, erased, query, detailVars>>

LoadNext ==
    /\ loading.on /\ loading.sofar # <<>>
    /\ LET offset == Len(loading.sofar)
           next == Batch(offset)
       IN  IF offset >= loading.count \/ next = <<>> THEN Loaded(loading.sofar)
           ELSE /\ loading' = [loading EXCEPT !.sofar = @ \o next]
                /\ UNCHANGED listed
    /\ UNCHANGED <<sessionsVars, loadError, mutation, erased, query, detailVars>>

LoadFails ==
    /\ loading.on
    /\ Loaded(<<>>)
    /\ loadError' = TRUE
    /\ UNCHANGED <<sessionsVars, mutation, erased, query, detailVars>>

(* reloadHistory, of the Retry button. *)
Retry ==
    /\ ~loading.on /\ loadError
    /\ loading' = [NotLoading EXCEPT !.on = TRUE]
    /\ loadError' = FALSE
    /\ UNCHANGED <<sessionsVars, listed, mutation, erased, query, detailVars>>

-----------------------------------------------------------------------------
(* renameHistory and deleteHistory.  The server looks the session up and   *)
(* then saves or deletes it: save names its fields, so that a row that is  *)
(* gone by then is not written anew.                                       *)
Mutate(kind, s) ==
    /\ ~loading.on /\ ~loadError
    /\ mutation = Idle
    /\ s \in Ids(listed)
    /\ kind = "rename" => renames < MaxRenames
    /\ mutation' = [kind |-> kind, on |-> s, at |-> "sent", given |-> 0]
    /\ UNCHANGED <<sessionsVars, listed, loading, loadError, erased, query, detailVars>>

Comes(place, given) ==
    /\ mutation' = [kind |-> mutation.kind, on |-> mutation.on, at |-> place, given |-> given]
    /\ UNCHANGED <<listed, loading, loadError, erased, query, detailVars>>

FindSession ==
    /\ mutation.at = "sent"
    /\ Comes(IF Among(mutation.on, stored) THEN "found" ELSE "failed", 0)
    /\ UNCHANGED sessionsVars

SaveTitle ==
    /\ mutation.at = "found" /\ mutation.kind = "rename"
    /\ IF Among(mutation.on, stored)
       THEN /\ title' = [title EXCEPT ![mutation.on] = renames + 1]
            /\ renames' = renames + 1
            /\ Comes("done", renames + 1)
       ELSE Comes("failed", 0) /\ UNCHANGED <<title, renames>>
    /\ UNCHANGED <<stored, buried, changes>>

DeleteSession ==
    /\ mutation.at = "found" /\ mutation.kind = "delete"
    /\ stored' = Without(stored, mutation.on)
    /\ buried' = buried \cup {mutation.on}
    /\ Comes("done", 0)
    /\ UNCHANGED <<title, changes, renames>>

(* The answer: of a rename, the session as that rename left it, whatever   *)
(* others made of it since.  A failed one leaves the list as it is,        *)
(* whether or not the server had done what it was asked.                   *)
Renamed ==
    /\ mutation.at = "done" /\ mutation.kind = "rename"
    /\ listed' = [i \in DOMAIN listed |->
                    IF listed[i].id = mutation.on
                    THEN [id |-> mutation.on, title |-> mutation.given] ELSE listed[i]]
    /\ mutation' = Idle
    /\ UNCHANGED <<sessionsVars, loading, loadError, erased, query, detailVars>>

Deleted ==
    /\ mutation.at = "done" /\ mutation.kind = "delete"
    /\ listed' = Filtered(listed, {i \in DOMAIN listed : listed[i].id # mutation.on})
    /\ erased' = erased \cup {mutation.on}
    /\ mutation' = Idle
    /\ UNCHANGED <<sessionsVars, loading, loadError, query, detailVars>>

MutationFails ==
    /\ mutation # Idle
    /\ mutation' = Idle
    /\ UNCHANGED <<sessionsVars, listed, loading, loadError, erased, query, detailVars>>

-----------------------------------------------------------------------------
(* A listed session is chosen, or one that was chosen before, by the       *)
(* browser's buttons, whatever became of it.                               *)
Choose(s) ==
    /\ s # query
    /\ query' = s
    /\ UNCHANGED <<sessionsVars, listVars, detailVars>>

(* The effects of the two hooks, some time after the selection changed: to *)
(* no selection too.  That a session is gone when its request is served is *)
(* a failure like others; thinking logs there is always an answer for.     *)
RunEffects ==
    /\ Selected # followed
    /\ effect < MaxEffects
    /\ followed' = Selected
    /\ effect' = effect + 1
    /\ resume' = NoSession /\ logs' = NoSession
    /\ resumeLoading' = (Selected # NoSession)
    /\ logsLoading' = (Selected # NoSession)
    /\ fetches' = IF Selected = NoSession THEN fetches
                  ELSE fetches \cup
                       {[effect |-> effect', on |-> Selected, of |-> part,
                         found |-> part = "logs" \/ Among(Selected, stored)] :
                          part \in {"resume", "logs"}}
    /\ UNCHANGED <<sessionsVars, listVars, query>>

(* An answer counts if no later effect ran (isActive). *)
ActiveAlways(f) == TRUE
Active(f) == f.effect = effect

Show(f, whose) ==
    /\ fetches' = fetches \ {f}
    /\ IF ~Active(f) THEN UNCHANGED <<resume, logs, resumeLoading, logsLoading>>
       ELSE IF f.of = "resume"
       THEN /\ resume' = whose /\ resumeLoading' = FALSE
            /\ UNCHANGED <<logs, logsLoading>>
       ELSE /\ logs' = whose /\ logsLoading' = FALSE
            /\ UNCHANGED <<resume, resumeLoading>>
    /\ UNCHANGED <<sessionsVars, listVars, query, followed, effect>>

Answered(f) == f.found /\ Show(f, f.on)
FetchFails(f) == Show(f, NoSession)

HistoryNext ==
    \/ \E s \in HistorySessions :
          \/ TouchedElsewhere(s) \/ RenamedElsewhere(s) \/ DeletedElsewhere(s)
          \/ Mutate("rename", s) \/ Mutate("delete", s)
    \/ LoadFirst \/ LoadNext \/ LoadFails \/ Retry
    \/ FindSession \/ SaveTitle \/ DeleteSession
    \/ Renamed \/ Deleted \/ MutationFails
    \/ \E s \in {NoSession} \cup HistorySessions : Choose(s)
    \/ RunEffects
    \/ \E f \in fetches : Answered(f) \/ FetchFails(f)

HistorySpec == HistoryInit /\ [][HistoryNext]_pageVars

-----------------------------------------------------------------------------
HistoryTypeOK ==
    /\ \A i \in DOMAIN stored : stored[i] \in HistorySessions
    /\ title \in [HistorySessions -> 0 .. MaxRenames + 1]
    /\ changes \in 0 .. MaxChanges /\ renames \in 0 .. MaxRenames + 1
    /\ Ids(listed) \subseteq HistorySessions
    /\ loadError \in BOOLEAN /\ erased \subseteq buried /\ buried \subseteq HistorySessions
    /\ mutation.on \in {NoSession} \cup HistorySessions
    /\ {query, followed, resume, logs} \subseteq {NoSession} \cup HistorySessions
    /\ effect \in 0 .. MaxEffects
    /\ resumeLoading \in BOOLEAN /\ logsLoading \in BOOLEAN

(* The page is true to its user while tabs, answers and selections cross:  *)
(*   - it shows no session twice, none it was told is deleted, and no      *)
(*     title newer than the server's;                                      *)
(*   - once the hooks follow the selection, what is shown beside it is of  *)
(*     that session and of no other, and a spinner has a request under way *)
(*     that will end it;                                                   *)
(*   - a session that was deleted is never written anew by a rename that   *)
(*     had found it before.                                                *)
ListTrue ==
    /\ \A i, j \in DOMAIN listed : listed[i].id = listed[j].id => i = j
    /\ Ids(listed) \cap erased = {}
    /\ \A i \in DOMAIN listed : listed[i].title <= title[listed[i].id]
DetailTrue ==
    /\ {resume, logs} \subseteq {NoSession, followed}
    /\ resumeLoading => \E f \in fetches : Active(f) /\ f.of = "resume" /\ f.on = followed
    /\ logsLoading => \E f \in fetches : Active(f) /\ f.of = "logs" /\ f.on = followed
GoneStaysGone == \A s \in buried : ~Among(s, stored)
HistoryTrue == ListTrue /\ DetailTrue /\ GoneStaysGone

(* "loads all history records across multiple pages when loadAll is        *)
(* enabled": a list loaded while nobody changes anything has every session.*)
LoadAllShowsAll ==
    ~loading.on /\ ~loadError /\ changes = 0 /\ mutation = Idle
    => {stored[i] : i \in DOMAIN stored} \subseteq Ids(listed)
=============================================================================
