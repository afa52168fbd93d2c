---------------------------- MODULE ConvertFlow ----------------------------
(***************************************************************************)
(* The convert page: useConvertFlow over services/llm.  A conversion       *)
(* uploads a file and generates an output, a follow-up generates again     *)
(* with what the page shows, and downloads export what is shown.  A new    *)
(* conversion aborts the one before; downloads are told apart by the       *)
(* request id.  JavaScript runs callbacks one at a time: a step ends at an *)
(* await, and answers come in any order.                                   *)
(*                                                                         *)
(* Conversions are numbered by their request id, and what the page shows   *)
(* is known by the conversion it came from; 0 is null.                     *)
(***************************************************************************)
EXTENDS Naturals, FiniteSets

CONSTANTS MaxConversions,  (* bound: conversions started                      *)
          MaxDownloads     (* bound: downloads in flight                      *)

ASSUME ConvertAssumption == MaxConversions \in Nat /\ MaxDownloads \in Nat

Conversions == 1 .. MaxConversions
Shown == 0 .. MaxConversions

VARIABLES
    current,    (* conversionRequestIdRef; the earlier ones are aborted       *)
    stageOf,    (* where each conversion is                                   *)
    context,    (* what each was asked to follow up on: output, session and   *)
                (* upload shown when it was asked, and the page's output then *)
    page,       (* what is shown                                              *)
    downloads,  (* downloads in flight                                        *)
    received    (* files received                                             *)

Downloads == [kind : {"csv", "excel"}, id : Shown, asked : Conversions,
              file : Shown]

convertVars == <<current, stageOf, context, page, downloads, received>>

Empty == [output |-> 0, session |-> 0, upload |-> 0, csv |-> 0,
          error |-> FALSE, excelError |-> FALSE, done |-> FALSE, excel |-> FALSE,
          converting |-> FALSE, phase |-> "idle"]
NoContext == [output |-> 0, session |-> 0, upload |-> 0, shown |-> 0]

ConvertInit ==
    /\ current = 0
    /\ stageOf = [k \in Conversions |-> "unused"]
    /\ context = [k \in Conversions |-> NoContext]
    /\ page = Empty
    /\ downloads = {} /\ received = {}

(* resetConversionState leaves isConverting alone. *)
Blank == [Empty EXCEPT !.converting = page.converting]

Moved(k, s) == stageOf' = [stageOf EXCEPT ![k] = s]
Aborted(k) == k < current
Idle(p) == [p EXCEPT !.converting = FALSE, !.phase = "idle"]
Failed(p) == [Idle(p) EXCEPT !.error = TRUE]

-----------------------------------------------------------------------------
(* handleFileSelect.  The hook takes a new conversion at any time.  With a *)
(* prompt the conversion follows up on what is shown, and needs no upload  *)
(* if there is one; without, the file may be too large.                    *)
FollowUp == [output |-> IF page.session # 0 THEN page.output ELSE 0,
             session |-> page.session, upload |-> page.upload,
             shown |-> page.output]

Select(prompted, tooLarge) ==
    LET k == current + 1
        ctx == IF prompted THEN FollowUp ELSE NoContext
        cleared == [Empty EXCEPT !.converting = TRUE]
    IN  /\ current < MaxConversions
        /\ tooLarge => ctx.upload = 0
        /\ current' = k
        /\ context' = [context EXCEPT ![k] = ctx]
        /\ \/ /\ ctx.upload # 0
              /\ Moved(k, "generating")
              /\ page' = [cleared EXCEPT !.phase = "generating"]
           \/ /\ ctx.upload = 0 /\ ~tooLarge
              /\ Moved(k, "validating")
              /\ page' = [cleared EXCEPT !.phase = "validating"]
           \/ /\ tooLarge
              /\ Moved(k, "over")
              /\ page' = Failed(cleared)
        /\ UNCHANGED <<downloads, received>>

(* processUpload, when its answer is there. *)
Uploaded(k) ==
    /\ stageOf[k] = "validating"
    /\ IF Aborted(k)
       THEN Moved(k, "over") /\ UNCHANGED page
       ELSE /\ Moved(k, "generating")
            /\ page' = [page EXCEPT !.phase = "generating"]
    /\ UNCHANGED <<current, context, downloads, received>>

(* handleProcessError, from the upload or from the generation. *)
Errs(k) ==
    /\ stageOf[k] \in {"validating", "generating"}
    /\ Moved(k, "over")
    /\ page' = IF Aborted(k) THEN page ELSE Failed(page)
    /\ UNCHANGED <<current, context, downloads, received>>

(* processConversion, when its answer is there: with the ids of a session  *)
(* and an output, or without.                                              *)
Generated(k, kept) ==
    /\ stageOf[k] = "generating"
    /\ Moved(k, "over")
    /\ page' = IF Aborted(k) THEN page
               ELSE [Idle(page) EXCEPT
                        !.output = k, !.session = IF kept THEN k ELSE 0,
                        !.upload = k]
    /\ UNCHANGED <<current, context, downloads, received>>

(* resetConversionState: another file is picked, which the page does not   *)
(* offer while it converts.                                                *)
Reset ==
    /\ ~page.converting
    /\ page' = Blank
    /\ UNCHANGED <<current, stageOf, context, downloads, received>>

-----------------------------------------------------------------------------
(* A download remembers the request id, the output shown and the file the  *)
(* server already has of it; its session's file needs no export.           *)
Begin(kind) ==
    [kind |-> kind, id |-> current, asked |-> page.output,
     file |-> IF page.session # 0 THEN page.session
              ELSE IF kind = "csv" THEN page.csv ELSE 0]

DownloadCsv ==
    /\ page.output # 0 /\ ~page.converting
    /\ Cardinality(downloads) < MaxDownloads
    /\ downloads' = downloads \cup {Begin("csv")}
    /\ UNCHANGED <<current, stageOf, context, page, received>>

DownloadExcel ==
    /\ page.output # 0 /\ ~page.converting /\ ~page.excel
    /\ Cardinality(downloads) < MaxDownloads
    /\ downloads' = downloads \cup {Begin("excel")}
    /\ page' = [page EXCEPT !.excelError = FALSE, !.done = FALSE, !.excel = TRUE]
    /\ UNCHANGED <<current, stageOf, context, received>>

(* exportCsvIfNeeded and its like: the export's answer is dropped when     *)
(* another conversion was started.                                         *)
ExportedUnchecked(d) ==
    /\ d \in downloads /\ d.file = 0
    /\ downloads' = (downloads \ {d}) \cup {[d EXCEPT !.file = d.asked]}
    /\ page' = IF d.kind = "csv" THEN [page EXCEPT !.csv = d.asked] ELSE page
    /\ UNCHANGED <<current, stageOf, context, received>>
Exported(d) ==
    /\ d \in downloads /\ d.file = 0
    /\ IF d.id = current
       THEN /\ downloads' = (downloads \ {d}) \cup {[d EXCEPT !.file = d.asked]}
            /\ page' = IF d.kind = "csv" THEN [page EXCEPT !.csv = d.asked]
                                         ELSE page
       ELSE downloads' = downloads \ {d} /\ UNCHANGED page
    /\ UNCHANGED <<current, stageOf, context, received>>

(* The file is saved; the end of a download of Excel is announced. *)
Received(d) ==
    /\ d \in downloads /\ d.file # 0
    /\ downloads' = downloads \ {d}
    /\ received' = received \cup {[asked |-> d.asked, file |-> d.file]}
    /\ page' = IF d.kind = "excel" /\ d.id = current
               THEN [page EXCEPT !.done = TRUE, !.excelError = FALSE, !.excel = FALSE]
               ELSE page
    /\ UNCHANGED <<current, stageOf, context>>

DownloadFails(d) ==
    /\ d \in downloads
    /\ downloads' = downloads \ {d}
    /\ page' = IF d.id # current THEN page
               ELSE IF d.kind = "csv" THEN [page EXCEPT !.error = TRUE]
               ELSE [page EXCEPT !.excelError = TRUE, !.done = FALSE, !.excel = FALSE]
    /\ UNCHANGED <<current, stageOf, context, received>>

ConvertNext ==
    \/ \E prompted, tooLarge \in BOOLEAN : Select(prompted, tooLarge)
    \/ \E k \in Conversions :
          \/ Uploaded(k) \/ Errs(k)
          \/ \E kept \in BOOLEAN : Generated(k, kept)
    \/ Reset
    \/ DownloadCsv \/ DownloadExcel
    \/ \E d \in Downloads : Exported(d) \/ Received(d) \/ DownloadFails(d)

ConvertSpec == ConvertInit /\ [][ConvertNext]_convertVars

-----------------------------------------------------------------------------
ConvertTypeOK ==
    /\ current \in Shown
    /\ stageOf \in [Conversions -> {"unused", "validating", "generating", "over"}]
    /\ context \in [Conversions -> [output : Shown, session : Shown,
                                    upload : Shown, shown : Shown]]
    /\ page \in [output : Shown, session : Shown, upload : Shown, csv : Shown,
                 error : BOOLEAN, excelError : BOOLEAN, done : BOOLEAN, excel : BOOLEAN,
                 converting : BOOLEAN, phase : {"idle", "validating", "generating"}]
    /\ downloads \subseteq Downloads
    /\ received \subseteq [asked : Conversions, file : Conversions]

(* However the answers overtake each other, what is shown comes from one   *)
(* conversion, the last one asked for, and the page is busy exactly as     *)
(* long as that one is: never idle with an answer to come, never busy with *)
(* none.                                                                   *)
PageConsistent ==
    /\ page.output # 0 => page.output = current
    /\ page.upload = page.output
    /\ page.session \in {0, page.output}
    /\ page.converting <=>
         current # 0 /\ stageOf[current] \in {"validating", "generating"}
    /\ page.phase = IF page.converting THEN stageOf[current] ELSE "idle"

(* A follow-up is sent to the session of the output that was shown, with   *)
(* the upload of that output; a file that is saved holds the output that   *)
(* was shown when it was asked for, and the page never takes the export of *)
(* one output for another's.                                               *)
DownloadsFaithful ==
    /\ \A k \in Conversions :
          /\ context[k].upload = context[k].shown
          /\ context[k].session \in {0, context[k].shown}
          /\ context[k].output = context[k].session
    /\ \A f \in received : f.file = f.asked
    /\ page.output # 0 => page.csv \in {0, page.output}
    /\ page.excel =>
          \E d \in downloads : d.kind = "excel" /\ d.id = current

(* However answers, aborts and clicks are interleaved, the page is that of *)
(* the last conversion and so is everything saved or sent from it.         *)
PageTrue == PageConsistent /\ DownloadsFaithful
=============================================================================
