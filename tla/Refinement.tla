----------------------------- MODULE Refinement -----------------------------
(***************************************************************************)
(* How one llm_generate request comes by its output: the schema's fragment *)
(* is read, a prompt is cut to its budget, the provider is asked over      *)
(* /responses or, where that is missing, over chat completions, and with   *)
(* refinement on the answer is judged and asked for again, with the errors *)
(* found, until it is valid, does not improve, or was asked for often      *)
(* enough.  The best candidate is returned, and reasoned about on demand.  *)
(* Meanwhile the owner may edit or delete the schema.                      *)
(*                                                                         *)
(* Sizes stand for characters; a candidate is its errors and warnings.     *)
(***************************************************************************)
EXTENDS Integers, Sequences

CONSTANTS Documents,     (* input_json, compacted: its size, has it parts     *)
                         (* that can be cut, has it something a summary names *)
          Answers,       (* sizes of the provider's output                    *)
          Sampled,       (* the size rows, columns and cells are cut to       *)
          PromptMax,     (* LLM_PROMPT_MAX_CHARS                              *)
          ErrorCounts, WarningCounts,  (* what judging may find               *)
          Iterations,    (* values of max_iterations asked for                *)
          Patience,      (* plateau_patience                                  *)
          MaxEdits       (* bound: edits of the schema                        *)

ASSUME RefinementAssumption ==
    /\ Documents \subseteq [size : Nat \ {0}, cut : BOOLEAN, named : BOOLEAN]
    /\ Answers \subseteq Nat
    /\ Sampled \in Nat \ {0} /\ PromptMax \in Nat
    /\ ErrorCounts \subseteq Nat /\ WarningCounts \subseteq Nat
    /\ Iterations \subseteq Int
    /\ Patience \in Int /\ MaxEdits \in Nat

VARIABLES
    job,       (* the validated request: refinement, early_exit_on_valid,     *)
               (* include_reasoning, custom_schema_id or not, max_iterations, *)
               (* the document, is its OCR confidence low                     *)
    schema,    (* the schema's row: its version, 0 when deleted               *)
    edits,     (* versions so far                                             *)
    stage,     (* what the request does next                                  *)
    fragment,  (* _schema_prompt_fragment_cache: the version read, 0 for none *)
    hints,     (* the versions the prompts were built from                    *)
    prompt,    (* what the prompt holds of the document                       *)
    tried,     (* the candidates                                              *)
    best,      (* index of best_candidate in tried, 0 for None                *)
    stagnant,  (* stagnation_count                                            *)
    valid,     (* has_valid_candidate                                         *)
    early,     (* early_exit_triggered                                        *)
    about,     (* the candidate the reasoning explains, 0 for no reasoning    *)
    code       (* the response's status, 0 before                             *)

jobVars == <<job, schema, edits>>
askVars == <<fragment, hints, prompt>>
loopVars == <<tried, best, stagnant, valid, early>>
refineVars == <<jobVars, stage, askVars, loopVars, about, code>>

AtLeast(n, least) == IF n < least THEN least ELSE n
Limit == AtLeast(job.limit, 1)

Jobs == [refine : BOOLEAN, exit : BOOLEAN, reason : BOOLEAN,
         schema : BOOLEAN, lowOcr : BOOLEAN,
         limit : Iterations, document : Documents]

RefineInit ==
    /\ job \in Jobs
    /\ schema = 1 /\ edits = 1
    /\ stage = "schema"
    /\ fragment = 0 /\ hints = {} /\ prompt = "none"
    /\ tried = <<>> /\ best = 0 /\ stagnant = 0
    /\ valid = FALSE /\ early = FALSE
    /\ about = 0 /\ code = 0

Fails(status) == stage' = "done" /\ code' = status

-----------------------------------------------------------------------------
(* The schema is read once for all iterations. *)
GetFragment ==
    /\ stage = "schema"
    /\ IF job.schema /\ fragment = 0 /\ schema = 0
       THEN Fails(404) /\ UNCHANGED <<fragment, hints>>
       ELSE /\ fragment' = IF job.schema /\ fragment = 0
                           THEN schema ELSE fragment
            /\ hints' = hints \cup {fragment'}
            /\ stage' = "prompt"
            /\ UNCHANGED code
    /\ UNCHANGED <<jobVars, prompt, loopVars, about>>

(* _apply_prompt_payload_budget: the document as it is; with its tables    *)
(* (and a nested original_input_json) cut; or a summary: the filename,     *)
(* format and user_prompt of an object and the names of its tables, which  *)
(* a list, and an object without any of them, does not have.               *)
Budgeted(d) ==
    IF d.size <= PromptMax THEN "whole"
    ELSE IF d.cut /\ Sampled <= PromptMax THEN "sampled"
    ELSE IF d.named THEN "summary" ELSE "none"
BudgetedSize(d) ==
    IF Budgeted(d) = "whole" THEN d.size
    ELSE IF Budgeted(d) = "sampled" THEN Sampled ELSE 0

(* A repair wraps the document with the previous output: the document is   *)
(* cut by itself, and when both are still too long the wrapper is summed   *)
(* up, which names nothing of the document.                                *)
Prompt(answer) ==
    IF tried = <<>> THEN Budgeted(job.document)
    ELSE IF job.document.size + answer <= PromptMax THEN "whole"
    ELSE IF BudgetedSize(job.document) + answer <= PromptMax
         THEN Budgeted(job.document) ELSE "none"

BuildPrompt ==
    /\ stage = "prompt"
    /\ \E answer \in Answers : prompt' = Prompt(answer)
    /\ stage' = "responses"
    /\ UNCHANGED <<jobVars, fragment, hints, loopVars, about, code>>

-----------------------------------------------------------------------------
(* _map_api_status_to_http and handle_openai_exceptions; the client has    *)
(* repeated the call max_retries times by then.                            *)
Upstream == {404, 429, 502, 504}

(* client.responses.create: text, no text, or an error.  A missing key is  *)
(* found before the call.                                                  *)
AskResponses ==
    /\ stage = "responses"
    /\ \/ stage' = "text" /\ UNCHANGED code
       \/ stage' = "chat" /\ UNCHANGED code
       \/ \E status \in (Upstream \ {404}) \cup {503} : Fails(status)
    /\ UNCHANGED <<jobVars, askVars, loopVars, about>>

(* The fallback when /responses is a 404. *)
AskChatCompletions ==
    /\ stage = "chat"
    /\ \/ stage' = "text" /\ UNCHANGED code
       \/ \E status \in Upstream : Fails(status)
    /\ UNCHANGED <<jobVars, askVars, loopVars, about>>

(* Text that is no JSON object or array. *)
NotJson ==
    /\ stage = "text"
    /\ Fails(502)
    /\ UNCHANGED <<jobVars, askVars, loopVars, about>>

(* _run_basic_generation takes the answer as it is. *)
TakeAnswer(c) ==
    /\ stage = "text" /\ ~job.refine
    /\ tried' = <<c>> /\ best' = 1
    /\ stage' = "reason"
    /\ UNCHANGED <<jobVars, askVars, stagnant, valid, early, about, code>>

-----------------------------------------------------------------------------
(* build_validation_log: low confidence is one more error and one more     *)
(* warning, so that nothing is valid then.                                 *)
Judged(c) ==
    IF job.lowOcr
    THEN [errors |-> c.errors + 1, warnings |-> c.warnings + 1] ELSE c
IsValid(c) == c.errors = 0

ScoreByIssues(c) == AtLeast(100 - 15 * c.errors - 2 * c.warnings, 1)
Score(c) == IF IsValid(c) THEN 100
            ELSE AtLeast(100 - 15 * c.errors - 2 * c.warnings, 1)
BestScore == IF best = 0 THEN -1 ELSE Score(tried[best])

(* One turn of the loop in RefinementOrchestrator.run. *)
Judge(c) ==
    LET n == Len(tried) + 1
        log == Judged(c)
        better == Score(log) > BestScore
        stuck == IF better THEN 0 ELSE stagnant + 1
        found == valid \/ IsValid(log)
        done == IsValid(log) /\ job.exit
        plateau == ~found /\ n < Limit /\ stuck >= AtLeast(Patience, 1)
    IN  /\ stage = "text" /\ job.refine
        /\ tried' = Append(tried, log)
        /\ best' = IF Score(log) < BestScore THEN best ELSE n
        /\ stagnant' = stuck
        /\ valid' = found
        /\ early' = ((done /\ n < Limit) \/ plateau)
        /\ stage' = IF done \/ plateau \/ n = Limit THEN "reason" ELSE "schema"
        /\ UNCHANGED <<jobVars, askVars, about, code>>

(* The reasoning is asked for, parsed and validated; when that fails the   *)
(* output is returned without.                                             *)
Reason ==
    /\ stage = "reason"
    /\ about' \in IF job.reason THEN {0, best} ELSE {0}
    /\ stage' = "done" /\ code' = 200
    /\ UNCHANGED <<jobVars, askVars, loopVars>>

-----------------------------------------------------------------------------
EditSchema ==
    /\ schema # 0 /\ edits < MaxEdits
    /\ edits' = edits + 1
    /\ schema' \in {0, edits + 1}
    /\ UNCHANGED <<job, stage, askVars, loopVars, about, code>>

Candidates == [errors : ErrorCounts, warnings : WarningCounts]

RefineNext ==
    \/ GetFragment \/ BuildPrompt \/ AskResponses \/ AskChatCompletions
    \/ NotJson \/ Reason \/ EditSchema
    \/ \E c \in Candidates : TakeAnswer(c) \/ Judge(c)

RefineSpec == RefineInit /\ [][RefineNext]_refineVars

-----------------------------------------------------------------------------
RefineTypeOK ==
    /\ job \in Jobs
    /\ schema \in 0 .. edits /\ edits \in Nat
    /\ stage \in {"schema", "prompt", "responses", "chat", "text", "reason",
                  "done"}
    /\ fragment \in 0 .. edits
    /\ hints \subseteq 0 .. edits
    /\ prompt \in {"none", "whole", "sampled", "summary"}
    /\ tried \in Seq([errors : Nat, warnings : Nat])
    /\ best \in 0 .. Len(tried)
    /\ stagnant \in Nat
    /\ valid \in BOOLEAN /\ early \in BOOLEAN
    /\ about \in 0 .. best
    /\ code \in {0, 200, 404, 429, 502, 503, 504}

(* What is returned is not worse than any candidate, the last of the best, *)
(* and a valid one if there was one at all: a later, worse repair never    *)
(* replaces it, and warnings never make a valid one lose.                  *)
BestReturned ==
    code = 200 =>
        /\ best # 0
        /\ \A i \in DOMAIN tried :
              job.refine => Score(tried[i]) <= Score(tried[best])
        /\ \A i \in DOMAIN tried :
              i > best => Score(tried[i]) < Score(tried[best])
        /\ valid => IsValid(tried[best])
        /\ job.refine =>
             (valid <=> \E i \in DOMAIN tried : IsValid(tried[i]))

(* Repairs end early only for a reason: a valid candidate, or the last     *)
(* Patience candidates being no better than one before them.               *)
StopsForAReason ==
    code = 200 /\ job.refine =>
        /\ Len(tried) <= Limit
        /\ early <=> Len(tried) < Limit
        /\ early => \/ job.exit /\ IsValid(tried[Len(tried)])
                    \/ /\ ~valid
                       /\ \E i \in 1 .. Len(tried) - AtLeast(Patience, 1) :
                             \A j \in i + 1 .. Len(tried) :
                                 Score(tried[j]) <= Score(tried[i])

(* All prompts of a request are built from one version of the schema,      *)
(* whatever its owner does meanwhile.                                      *)
OneSchemaPerRun == hints \subseteq {fragment}

(* The provider is asked without anything of the document only in a repair *)
(* or when the document is too long and has no name to sum it up by (a     *)
(* list, an object of other keys).  A first prompt shows or names every    *)
(* upload.                                                                 *)
DocumentIsShown ==
    stage \in {"responses", "chat"} /\ prompt = "none" =>
        \/ tried # <<>>
        \/ job.document.size > PromptMax /\ ~job.document.named

RefinementSound ==
    BestReturned /\ StopsForAReason /\ OneSchemaPerRun /\ DocumentIsShown
=============================================================================
