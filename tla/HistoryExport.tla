--------------------------- MODULE HistoryExport ---------------------------
(***************************************************************************)
(* The file kept for one history record and one format: a row of           *)
(* HistoryExportArtifact names a file of the export directory.             *)
(* history_download serves the file of the row, or writes a file of its    *)
(* own and records it; history_delete removes the file, then the record    *)
(* and, by cascade, the row.  Requests run side by side, each statement    *)
(* committing by itself, and files and rows are not changed together.      *)
(* A download writes at most one file, under a fresh token, so a file is   *)
(* known by the request that makes it.                                     *)
(***************************************************************************)
CONSTANTS Accesses,  (* requests for the record                              *)
          NoFile     (* stands for no row, or no file                        *)

ASSUME HistoryExportAssumption == NoFile \notin Accesses

VARIABLES
    history,    (* is the ArtifactHistory row there                          *)
    row,        (* the file the HistoryExportArtifact row names              *)
    disk,       (* the export directory: "gone", "partial" or "whole"        *)
    at,         (* where each request is                                     *)
    file,       (* the file it goes on with: to serve, or to remove          *)
    cached,     (* used_cached_artifact                                      *)
    result,     (* what it answered                                          *)
    disturbed,  (* requests that overlapped another, or died, or met a       *)
                (* failure of the storage or the database                    *)
    lost,       (* downloads that found another's row when recording theirs  *)
    cleared     (* files removed by a deletion or from outside               *)

recordVars == <<history, row>>
requestVars == <<at, file, cached, result>>
ghostVars == <<disturbed, lost, cleared>>
exportVars == <<recordVars, disk, requestVars, ghostVars>>

File == Accesses \cup {NoFile}
Final == {"done", "dead"}
Active == {r \in Accesses : at[r] \notin Final \cup {"idle"}}

-----------------------------------------------------------------------------
ExportInit ==
    /\ history = TRUE
    /\ row = NoFile
    /\ disk = [f \in Accesses |-> "gone"]
    /\ at = [r \in Accesses |-> "idle"]
    /\ file = [r \in Accesses |-> NoFile]
    /\ cached = [r \in Accesses |-> FALSE]
    /\ result = [r \in Accesses |-> "none"]
    /\ disturbed = {}
    /\ lost = {}
    /\ cleared = {}

At(r, l) == at[r] = l
Move(r, l) == at' = [at EXCEPT ![r] = l]
Answer(r, a) == Move(r, "done") /\ result' = [result EXCEPT ![r] = a]
Use(r, f, c) ==
    /\ file' = [file EXCEPT ![r] = f]
    /\ cached' = [cached EXCEPT ![r] = c]
Disturb(rs) == disturbed' = disturbed \cup rs

(* _get_owned_history_or_not_found, for either view. *)
Load(r, next) ==
    /\ At(r, "idle")
    /\ IF history THEN Move(r, next) /\ UNCHANGED result
                  ELSE Answer(r, "notfound")
    /\ Disturb(IF Active = {} THEN {} ELSE Active \cup {r})
    /\ UNCHANGED <<recordVars, disk, file, cached, lost, cleared>>

-----------------------------------------------------------------------------

(* history_download: the file of the row, or one to be written.            *)
Consult(r) ==
    /\ At(r, "resolve")
    /\ IF row # NoFile
       THEN Move(r, "open") /\ Use(r, row, TRUE)
       ELSE Move(r, "generate") /\ UNCHANGED <<file, cached>>
    /\ UNCHANGED <<recordVars, disk, result, ghostVars>>

(* A bug: the row is recorded before the file is written. *)
OpenFileUnwritten(r) ==
    /\ At(r, "generate")
    /\ disk' = [disk EXCEPT ![r] = "partial"]
    /\ Move(r, "check")
    /\ UNCHANGED <<recordVars, file, cached, result, ghostVars>>

(* export_..._to_filesystem: open, then write and close. *)
OpenFile(r) ==
    /\ At(r, "generate")
    /\ disk' = [disk EXCEPT ![r] = "partial"]
    /\ Move(r, "write")
    /\ UNCHANGED <<recordVars, file, cached, result, ghostVars>>

Write(r) ==
    /\ At(r, "write")
    /\ disk' = [disk EXCEPT ![r] = "whole"]
    /\ Move(r, "check")
    /\ UNCHANGED <<recordVars, file, cached, result, ghostVars>>

WriteFails(r) ==
    /\ At(r, "generate") \/ At(r, "write")
    /\ Answer(r, "error")
    /\ Disturb({r})
    /\ UNCHANGED <<recordVars, disk, file, cached, lost, cleared>>

(* save() runs full_clean(): a row of the record and format is a          *)
(* ValidationError, and so is a missing record; neither is an             *)
(* IntegrityError, and history_download answers 500.                      *)
FullClean(r) ==
    /\ At(r, "check")
    /\ IF row = NoFile /\ history
       THEN Move(r, "insert") /\ UNCHANGED result
       ELSE Answer(r, "error")
    /\ lost' = IF row # NoFile THEN lost \cup {r} ELSE lost
    /\ UNCHANGED <<recordVars, disk, file, cached, disturbed, cleared>>

InsertUnconstrained(r) ==
    /\ At(r, "insert")
    /\ row = NoFile
    /\ row' = r
    /\ Use(r, r, FALSE)
    /\ Move(r, "open")
    /\ UNCHANGED <<history, disk, result, ghostVars>>

(* The unique and the foreign key constraints admit the row. *)
Insert(r) ==
    /\ At(r, "insert")
    /\ row = NoFile /\ history
    /\ row' = r
    /\ Use(r, r, FALSE)
    /\ Move(r, "open")
    /\ UNCHANGED <<history, disk, result, ghostVars>>

(* They do not: an IntegrityError. *)
InsertFails(r) ==
    /\ At(r, "insert")
    /\ row # NoFile \/ ~history
    /\ Move(r, "lookup")
    /\ lost' = IF row # NoFile THEN lost \cup {r} ELSE lost
    /\ UNCHANGED <<recordVars, disk, file, cached, result, disturbed, cleared>>

(* get_history_export_artifact after it: the other's row, or raise. *)
Lookup(r) ==
    /\ At(r, "lookup")
    /\ IF row # NoFile
       THEN Move(r, "drop") /\ Use(r, row, FALSE) /\ UNCHANGED result
       ELSE Answer(r, "error") /\ UNCHANGED <<file, cached>>
    /\ UNCHANGED <<recordVars, disk, ghostVars>>

DropOwnSwapped(r) ==
    /\ At(r, "drop")
    /\ disk' = [disk EXCEPT ![file[r]] = "gone"]
    /\ Move(r, "open")
    /\ UNCHANGED <<recordVars, file, cached, result, ghostVars>>

(* The loser of the race removes the file it wrote ... *)
DropOwn(r) ==
    /\ At(r, "drop")
    /\ disk' = [disk EXCEPT ![r] = "gone"]
    /\ Move(r, "open")
    /\ UNCHANGED <<recordVars, file, cached, result, ghostVars>>

(* ... or, on an OSError, leaves it. *)
DropFails(r) ==
    /\ At(r, "drop")
    /\ Move(r, "open")
    /\ UNCHANGED <<recordVars, disk, file, cached, result, ghostVars>>

(* open(): the answer holds what is in the file. *)
Open(r) ==
    /\ At(r, "open")
    /\ disk[file[r]] # "gone"
    /\ Answer(r, disk[file[r]])
    /\ UNCHANGED <<recordVars, disk, file, cached, ghostVars>>

OpenFails(r) ==
    /\ At(r, "open")
    /\ disk[file[r]] = "gone"
    /\ IF cached[r] THEN Move(r, "forget") /\ UNCHANGED result
                    ELSE Answer(r, "error")
    /\ UNCHANGED <<recordVars, disk, file, cached, ghostVars>>

ForgetNothing(r) ==
    /\ At(r, "forget")
    /\ Use(r, NoFile, FALSE)
    /\ Move(r, "generate")
    /\ UNCHANGED <<recordVars, disk, result, ghostVars>>

(* _regenerate_..._after_stale_cache: whatever row is there now goes. *)
Forget(r) ==
    /\ At(r, "forget")
    /\ row' = NoFile
    /\ Use(r, NoFile, FALSE)
    /\ Move(r, "generate")
    /\ UNCHANGED <<history, disk, result, ghostVars>>

-----------------------------------------------------------------------------
(* history_delete: the rows are read, their files removed.                 *)
ReadRow(r) ==
    /\ At(r, "read")
    /\ Use(r, row, FALSE)
    /\ Move(r, IF row = NoFile THEN "cascade" ELSE "remove")
    /\ UNCHANGED <<recordVars, disk, result, ghostVars>>

RemoveNothing(r) ==
    /\ At(r, "remove")
    /\ Move(r, "cascade")
    /\ UNCHANGED <<recordVars, disk, file, cached, result, ghostVars>>

Remove(r) ==
    /\ At(r, "remove")
    /\ disk' = [disk EXCEPT ![file[r]] = "gone"]
    /\ cleared' = cleared \cup {file[r]}
    /\ Move(r, "cascade")
    /\ UNCHANGED <<recordVars, file, cached, result, disturbed, lost>>

(* An OSError is logged and swallowed. *)
RemoveFails(r) ==
    /\ At(r, "remove")
    /\ Disturb({r, file[r]})
    /\ Move(r, "cascade")
    /\ UNCHANGED <<recordVars, disk, file, cached, result, lost, cleared>>

(* history.delete(): the row and the record, in one transaction. *)
Cascade(r) ==
    /\ At(r, "cascade")
    /\ history' = FALSE
    /\ row' = NoFile
    /\ Answer(r, "deleted")
    /\ UNCHANGED <<disk, file, cached, ghostVars>>

(* It rolls back, as when a row was recorded in between. *)
CascadeFails(r) ==
    /\ At(r, "cascade")
    /\ Answer(r, "error")
    /\ Disturb({r})
    /\ UNCHANGED <<recordVars, disk, file, cached, lost, cleared>>

-----------------------------------------------------------------------------
(* A worker is killed or restarted. *)
Kill(r) ==
    /\ r \in Active
    /\ Move(r, "dead")
    /\ Disturb({r})
    /\ UNCHANGED <<recordVars, disk, file, cached, result, lost, cleared>>

(* Somebody tidies the export directory. *)
Vanish(f) ==
    /\ disk[f] = "whole"
    /\ disk' = [disk EXCEPT ![f] = "gone"]
    /\ cleared' = cleared \cup {f}
    /\ Disturb(Active)
    /\ UNCHANGED <<recordVars, requestVars, lost>>

Record(r) == Insert(r) \/ InsertFails(r) \/ Lookup(r) \/ DropOwn(r) \/ DropFails(r)

Download(r) ==
    \/ Load(r, "resolve") \/ Consult(r)
    \/ OpenFile(r) \/ Write(r) \/ WriteFails(r)
    \/ FullClean(r) \/ Record(r)
    \/ Open(r) \/ OpenFails(r) \/ Forget(r)

Delete(r) ==
    \/ Load(r, "read") \/ ReadRow(r)
    \/ Remove(r) \/ RemoveFails(r)
    \/ Cascade(r) \/ CascadeFails(r)

ExportNext == \E r \in Accesses : Download(r) \/ Delete(r) \/ Kill(r) \/ Vanish(r)

ExportSpec == ExportInit /\ [][ExportNext]_exportVars

-----------------------------------------------------------------------------
(* Every variable keeps its type, and a request that opens or removes a    *)
(* file has one to open or remove.                                         *)
ExportTypeOK ==
    /\ history \in BOOLEAN
    /\ row \in File
    /\ disk \in [Accesses -> {"gone", "partial", "whole"}]
    /\ at \in [Accesses -> {"idle", "resolve", "generate", "write", "check",
                            "insert", "lookup", "drop", "open", "forget",
                            "read", "remove", "cascade"} \cup Final]
    /\ file \in [Accesses -> File]
    /\ cached \in [Accesses -> BOOLEAN]
    /\ result \in [Accesses -> {"none", "notfound", "error", "partial",
                                "whole", "deleted"}]
    /\ disturbed \subseteq Accesses
    /\ lost \subseteq Accesses
    /\ cleared \subseteq Accesses
    /\ \A r \in Accesses : at[r] \in {"open", "drop", "remove"} => file[r] # NoFile

(* No interleaving, and no worker killed while writing, gets a half         *)
(* written file recorded or served.                                        *)
WholeFilesOnly ==
    /\ row # NoFile => disk[row] # "partial"
    /\ \A r \in Accesses : result[r] # "partial"

(* A request that ran by itself, whatever earlier ones left behind (a row   *)
(* whose file is gone, a deletion that failed half way), does not fail.    *)
UndisturbedSucceeds ==
    \A r \in Accesses \ disturbed : result[r] # "error"

(* A file stays in the directory without a row only if the request that    *)
(* wrote it was disturbed, or its removal failed.                          *)
OrphansAreExplained ==
    \A f \in Accesses \ disturbed :
        at[f] = "done" /\ disk[f] # "gone" => f = row

(* The row's file is missing only after a deletion or a cleaning of the    *)
(* directory: the losers of a race never remove the winner's file.         *)
WinnersFileStays ==
    row # NoFile /\ disk[row] = "gone" => row \in cleared

(* A deleted record keeps no row, though a download that loaded the record *)
(* before may be about to insert one.                                      *)
DeletedIsForgotten == ~history => row = NoFile

(* "uses race winner cached artifact and deletes loser file": a download   *)
(* that meets another's row when it records its own goes on with the       *)
(* other's file, and fails only if that is gone by then.                   *)
RaceLoserServed ==
    \A r \in lost :
        result[r] = "error" => row = NoFile \/ disk[row] = "gone"
=============================================================================
