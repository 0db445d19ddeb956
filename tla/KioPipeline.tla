----------------------------- MODULE KioPipeline -----------------------------
(***************************************************************************)
(* What the KIOs of one workflow hand to each other.  run_kio_node gives   *)
(* every KIO the artifact data of the result before it (last_artifact) and *)
(* the ids of all artifacts; each handler (kio1..kio13/main.py) reads the  *)
(* keys it knows, with defaults for those that are missing, and most drop  *)
(* what they do not know.                                                  *)
(*                                                                         *)
(* A list in an artifact is abstracted to its origin: the number of the    *)
(* KIO run that produced it, 0 when it is empty.  Every answer of an LLM   *)
(* is a choice among what the handler makes of it, its failure included:   *)
(* the handlers catch it and return a poorer artifact.  Transport, retry,  *)
(* timeouts and the gates' persistence are those of WorkflowEngine and     *)
(* KioTransport.                                                           *)
(***************************************************************************)
EXTENDS Integers, Sequences, SequencesExt

CONSTANTS
  Replies,      \* sequences of ids that an LLM or a client may name, for plans and routes
  HitlChoices,  \* values of hitl_after
  Fallback,     \* llm_provider_fallback is configured
  MaxPlan,      \* _MAX_KIO_SEQUENCE_LEN of lm_client.py
  MaxRuns,      \* bound: KIO runs of the workflow
  MaxMishaps    \* bound: KIOs that fail for good, artifacts that are not registered

Kios == {"kio1", "kio2", "kio3", "kio4", "kio5", "kio6", "kio7", "kio8", "kio9",
         "kio10", "kio11", "kio12", "kio13"}
Ids == Kios \cup {"unknown"}      \* what a plan may hold: nobody answers to "unknown"

ASSUME PipelineAssumption ==
  /\ Replies \subseteq Seq(Ids) /\ HitlChoices \subseteq SUBSET Ids
  /\ Fallback \in BOOLEAN
  /\ MaxPlan \in Nat \ {0} /\ MaxRuns \in Nat /\ MaxMishaps \in Nat

VARIABLES
  input,     \* the request: [code, repo], inline code given and repository on disk
  at,        \* node of the graph
  plan, gates, step, feedback, retryPending, override,  \* graph state
  last,      \* artifact_data of last_result
  rerun,     \* history: the provider was put to question at this step
  said,      \* history: what the reviewer said at the gate before this step
  mishaps,
  runs       \* the KIO runs that returned, with what they read and made

graphVars == <<plan, gates, step, feedback, retryPending, override>>
pipelineVars == <<input, at, graphVars, last, rerun, said, mishaps, runs>>

Absent == -1
(* artifact_data without any key that another KIO reads *)
Blank == [findings |-> {}, code |-> "none", files |-> 0, tests |-> Absent, bugs |-> 0,
          patches |-> 0, addressed |-> 0, applied |-> FALSE, result |-> "nothing", verdict |-> "none"]
Artifact ==
  [findings : SUBSET (1..MaxRuns), code : {"none", "user", "made", "error"}, files : 0..MaxRuns,
   tests : Absent..MaxRuns, bugs : 0..MaxRuns, patches : 0..MaxRuns, addressed : 0..MaxRuns,
   applied : BOOLEAN, result : {"nothing", "pass", "fail", "errors"},
   verdict : {"none", "llm", "PASS", "FAIL"}]

PipelineInit ==
  /\ input \in [code : BOOLEAN, repo : BOOLEAN]
  /\ \/ at = "plan" /\ plan = <<>> /\ gates \in HitlChoices      \* POST /run
     \/ at = "run" /\ plan \in Replies \ {<<>>} /\ gates \in HitlChoices  \* ... with a kio_sequence
     \/ at = "run" /\ plan = <<"kio1">> /\ gates = {}            \* POST /prompt
  /\ step = 1 /\ feedback = "none"
  /\ retryPending = FALSE /\ override = FALSE
  /\ last = Blank /\ rerun = FALSE /\ said = "none" /\ mishaps = 0 /\ runs = <<>>

-----------------------------------------------------------------------------
(* The graph around the KIOs *)

(* plan_workflow(): unknown and repeated ids are dropped, the rest is cut off;
   after two attempts without a usable plan a fixed one is taken. *)
Cleaned(reply) ==
  LET kios[i \in 0..Len(reply)] ==
        IF i = 0 THEN <<>>
        ELSE IF \/ reply[i] \notin Kios \ {"kio1"} \/ Contains(kios[i - 1], reply[i])
                \/ Len(kios[i - 1]) = MaxPlan
             THEN kios[i - 1] ELSE Append(kios[i - 1], reply[i])
  IN kios[Len(reply)]
FallbackPlan == <<"kio3", "kio5">>

PlanWorkflow ==
  /\ at = "plan"
  /\ plan' \in ({Cleaned(reply) : reply \in Replies} \ {<<>>}) \cup {FallbackPlan}
  /\ at' = "run"
  /\ UNCHANGED <<input, gates, step, feedback, retryPending, override, last, rerun, said, mishaps, runs>>

This == Len(runs) + 1
Turn(k) == at = "run" /\ plan[step] = k /\ Len(runs) < MaxRuns

(* advance_node and should_continue *)
Advance(sequence) ==
  /\ step' = step + 1
  /\ rerun' = FALSE
  /\ at' = IF step + 1 <= Len(sequence) THEN "run" ELSE "done"

(* The rows of a session are a prefix of its artifacts (SessionStore). *)
AllStored == \A i \in DOMAIN runs : runs[i].stored
Registered == IF ~AllStored THEN {FALSE} ELSE IF mishaps < MaxMishaps THEN BOOLEAN ELSE {TRUE}

(* What a handler returns: the artifact, the runs whose work went into it, the
   status REVIEW_REQUIRED, a sequence for the workflow, and whether the artifacts
   it asked for could not be read. *)
Result(out) == [out |-> out, used |-> {}, review |-> FALSE, sequence |-> <<>>,
                hitl |-> {}, blind |-> FALSE]

(* run_kio_node after the KIO has returned, and should_hitl, whose index may be
   beyond a new sequence. *)
Return(result) ==
  LET replans == Len(result.sequence) > 1
      new == IF replans THEN result.sequence ELSE plan
  IN
  /\ \E stored \in Registered :
       /\ runs' = Append(runs,
            [kio |-> plan[step], read |-> last, out |-> result.out, used |-> result.used,
             blind |-> result.blind, heard |-> feedback, said |-> said, rerun |-> rerun,
             replans |-> replans, stored |-> stored])
       /\ mishaps' = IF AllStored /\ ~stored THEN mishaps + 1 ELSE mishaps
  /\ plan' = new
  /\ gates' = IF replans THEN result.hitl ELSE gates
  /\ last' = result.out /\ feedback' = "none" /\ said' = "none"
  /\ IF step > Len(new) THEN at' = "failed" /\ UNCHANGED <<step, rerun>>
     ELSE IF result.review \/ new[step] \in gates' THEN at' = "hitl" /\ UNCHANGED <<step, rerun>>
     ELSE Advance(new)
  /\ UNCHANGED <<input, retryPending, override>>

(* The KIO fails, its retry too, as an unknown one always does: the provider is put
   to question, once, or the workflow fails. *)
KioFails ==
  /\ at = "run" /\ mishaps < MaxMishaps
  /\ mishaps' = mishaps + 1
  /\ IF Fallback /\ ~override
     THEN /\ last' = Blank /\ feedback' = "none" /\ retryPending' = TRUE
          /\ rerun' = TRUE /\ at' = "hitl"
     ELSE /\ at' = "failed"
          /\ UNCHANGED <<last, feedback, retryPending, rerun>>
  /\ UNCHANGED <<input, plan, gates, step, override, said, runs>>

(* A mutant: the answer does not get into the graph's state. *)
AnswerUnheard ==
  /\ at = "hitl" /\ ~retryPending
  /\ feedback' = "none" /\ said' \in {"approved", "review"}
  /\ Advance(plan)
  /\ UNCHANGED <<input, plan, gates, retryPending, override, last, mishaps, runs>>

(* hitl_node resumed with the reviewer's feedback *)
Answer ==
  /\ at = "hitl" /\ ~retryPending
  /\ \E words \in {"none", "review"} :
       feedback' = words /\ said' = IF words = "review" THEN words ELSE "approved"
  /\ Advance(plan)
  /\ UNCHANGED <<input, plan, gates, retryPending, override, last, mishaps, runs>>

(* ... when the question was about the provider: the step runs again, after a
   rejection with the old provider and the rejection as feedback. *)
AnswerSwitch ==
  /\ at = "hitl" /\ retryPending
  /\ \/ override' = TRUE /\ feedback' = "none"
     \/ override' = override /\ feedback' = "switch"
  /\ retryPending' = FALSE /\ at' = "run"
  /\ UNCHANGED <<input, plan, gates, step, last, rerun, said, mishaps, runs>>

-----------------------------------------------------------------------------
(* Router and planner *)

RouterFallback == <<"kio1", "kio5">>

(* Any sequence that begins with kio1 is taken, whatever follows. *)
Routed(reply) == IF reply # <<>> /\ reply[1] = "kio1" THEN reply ELSE RouterFallback

Kio1 ==
  /\ Turn("kio1")
  /\ \E reply \in Replies \cup {<<>>}, hitl \in HitlChoices :
       Return([Result([Blank EXCEPT !.code = IF input.code THEN "user" ELSE "none"]) EXCEPT
                 !.sequence = Routed(reply),
                 !.hitl = IF Routed(reply) = reply THEN hitl ELSE {"kio5"}])

FullPipeline == <<"kio2", "kio3", "kio4", "kio5", "kio6", "kio7", "kio8">>

(* The reply without kio2 *)
Rest(reply) ==
  LET kios[i \in 0..Len(reply)] ==
        IF i = 0 THEN <<>>
        ELSE IF reply[i] = "kio2" THEN kios[i - 1] ELSE Append(kios[i - 1], reply[i])
  IN kios[Len(reply)]

(* A mutant: only the head is repaired. *)
HeadRepaired(reply) ==
  IF reply # <<>> /\ reply[1] = "kio2" THEN reply
  ELSE <<"kio2">> \o Rest(reply)

(* The plan starts with kio2, and kio8 is in it, not necessarily at its end. *)
Repaired(reply) ==
  LET headed == IF reply # <<>> /\ reply[1] = "kio2" THEN reply
                ELSE <<"kio2">> \o Rest(reply)
  IN IF Contains(headed, "kio8") THEN headed ELSE Append(headed, "kio8")

Kio2 ==
  /\ Turn("kio2")
  /\ \/ \E reply \in Replies, hitl \in HitlChoices :
          Return([Result(Blank) EXCEPT !.sequence = Repaired(reply), !.hitl = hitl])
     \/ Return([Result(Blank) EXCEPT !.sequence = FullPipeline, !.hitl = {"kio5"}])

-----------------------------------------------------------------------------
(* Finding bugs *)

(* kio3 reads attributes that a finding does not have: the first finding of the
   analysis, like a missing repository, makes it return its fixed list. *)
Kio3 == /\ Turn("kio3")
        /\ \E found \in {{}, {This}} : Return(Result([Blank EXCEPT !.findings = found]))

Kio4 == /\ Turn("kio4")
        /\ \E tests \in {0, This} :
             Return(Result([Blank EXCEPT !.findings = last.findings, !.files = tests, !.tests = tests]))

(* kio5 works on the findings and the code of the last artifact, or the code of
   the request. *)
HasCode == last.code # "none" \/ input.code
Direct == last.findings # {} \/ HasCode

(* Without them it asks the Session Manager for all artifacts of the workflow. *)
Fetched == UNION {runs[i].out.findings : i \in {j \in DOMAIN runs : runs[j].stored}}

(* test_files, or what the last artifact has under files *)
TestsToPass == IF last.tests = Absent THEN last.files ELSE last.tests

Kio5 ==
  /\ Turn("kio5")
  /\ \E bugs \in {0, This}, blind \in IF Direct \/ runs = <<>> THEN {FALSE} ELSE BOOLEAN :
       Return([Result([Blank EXCEPT !.bugs = bugs, !.tests = TestsToPass]) EXCEPT
                 !.used = IF Direct THEN last.findings ELSE IF blind THEN {} ELSE Fetched,
                 !.review = TRUE, !.blind = blind])

-----------------------------------------------------------------------------
(* Patching and testing *)

(* A mutant: the tests end with the analysis. *)
NoTestFiles == 0

TestFiles == IF last.tests = Absent THEN 0 ELSE last.tests

Kio6 ==
  /\ Turn("kio6")
  /\ \E patches \in {0, This} :
       Return([Result([Blank EXCEPT !.patches = patches, !.addressed = last.bugs, !.tests = TestFiles])
               EXCEPT !.used = {last.bugs} \ {0}])

(* Without repository and patches there is nothing to test. *)
Kio7Skips ==
  /\ Turn("kio7") /\ ~input.repo /\ last.patches = 0
  /\ Return(Result([Blank EXCEPT !.addressed = last.addressed]))

(* The tests run in a copy of the repository or in the patches alone.  Patches
   that do not compile are left out and the original sources come back when the
   collection fails, but patches_applied counts the patches received.  A timeout,
   an exception and an empty suite all give 0 of 0 tests. *)
Kio7 ==
  /\ Turn("kio7") /\ (input.repo \/ last.patches # 0)
  /\ \E result \in {"nothing", "pass", "fail", "errors"} :
       Return([Result([Blank EXCEPT !.addressed = last.addressed, !.applied = last.patches # 0,
                         !.result = result])
               EXCEPT !.used = {TestFiles} \ {0}])

(* A mutant: the tests alone decide. *)
VerdictOfTests == IF last.result # "fail" THEN "PASS" ELSE "FAIL"

(* The verdict of the report that kio8 writes without its LLM: no failed test,
   which errors and missing tests are not. *)
FallbackVerdict == IF last.addressed # 0 /\ last.applied /\ last.result # "fail" THEN "PASS" ELSE "FAIL"

Kio8 ==
  /\ Turn("kio8")
  /\ \E verdict \in {"llm", FallbackVerdict} : Return(Result([Blank EXCEPT !.verdict = verdict]))

-----------------------------------------------------------------------------
(* The others *)

(* kio9's code is never empty: when the generation fails it says so. *)
Kio9 == /\ Turn("kio9")
        /\ \E code \in {"made", "error"} : Return(Result([Blank EXCEPT !.code = code]))

Kio10 == Turn("kio10") /\ Return(Result(Blank))

Kio11 == /\ Turn("kio11")
         /\ \E files \in {0, This} : Return(Result([Blank EXCEPT !.files = files]))

Kio12 == /\ Turn("kio12")
         /\ \E files \in {0, This} : Return(Result([Blank EXCEPT !.files = files]))

(* kio13 looks for the artifacts of other KIOs under keys that nobody sends. *)
Kio13 == Turn("kio13") /\ Return(Result(Blank))

PipelineNext ==
  \/ PlanWorkflow \/ KioFails \/ Answer \/ AnswerSwitch
  \/ Kio1 \/ Kio2 \/ Kio3 \/ Kio4 \/ Kio5 \/ Kio6 \/ Kio7Skips \/ Kio7 \/ Kio8
  \/ Kio9 \/ Kio10 \/ Kio11 \/ Kio12 \/ Kio13

PipelineSpec == PipelineInit /\ [][PipelineNext]_pipelineVars

-----------------------------------------------------------------------------
(* Properties *)

(* Type invariant. *)
PipelineTypeOK ==
  /\ input \in [code : BOOLEAN, repo : BOOLEAN]
  /\ at \in {"plan", "run", "hitl", "done", "failed"}
  /\ plan \in Seq(Ids) /\ gates \subseteq Ids /\ step \in Nat \ {0}
  /\ at \in {"run", "hitl"} => step <= Len(plan)
  /\ feedback \in {"none", "review", "switch"} /\ said \in {"none", "approved", "review"}
  /\ retryPending \in BOOLEAN /\ override \in BOOLEAN /\ rerun \in BOOLEAN
  /\ last \in Artifact /\ mishaps \in 0..MaxMishaps
  /\ \A i \in DOMAIN runs : runs[i].kio \in Kios /\ runs[i].out \in Artifact

(* A PASS that the report gives without its LLM rests on a chain of four runs
   without a gap: bugs that kio5 found and a reviewer approved, patches that kio6
   made for just these bugs, and tests that kio7 ran on them without a failure. *)
PassIsBacked ==
  \A n \in DOMAIN runs : runs[n].out.verdict = "PASS" =>
    /\ n > 3
    /\ runs[n - 1].kio = "kio7" /\ runs[n - 1].out.result # "fail"
    /\ runs[n - 2].kio = "kio6" /\ runs[n - 2].out.patches # 0 /\ runs[n - 2].said # "none"
    /\ runs[n - 3].kio = "kio5" /\ runs[n - 3].out.bugs # 0
    /\ runs[n - 1].out.addressed = n - 3
    /\ \A j \in (n - 2)..n : ~runs[j].rerun

(* The runs between i and n hand test files on. *)
HandedOn(i, n) == /\ \A j \in (i + 1)..(n - 1) : runs[j].kio \in {"kio5", "kio6"}
                  /\ \A j \in (i + 1)..n : ~runs[j].rerun

(* What is made upstream reaches its consumer.  kio7 runs the tests of a kio4
   exactly when only kio5 and kio6 ran in between and none of them was repeated
   with another provider, and else only files that kio11 or kio12 left directly
   before kio5; kio5 works on the findings of every kio3 that is on record, unless
   it was given code or nearer findings or could not read them. *)
WorkArrives ==
  \A n \in DOMAIN runs : \A i \in 1..(n - 1) :
    /\ runs[n].kio = "kio7" /\ runs[i].kio = "kio4" /\ runs[i].out.tests # 0 /\ HandedOn(i, n) =>
         i \in runs[n].used \/ (~input.repo /\ runs[n].read.patches = 0)
    /\ runs[n].kio = "kio7" /\ i \in runs[n].used =>
         /\ HandedOn(i, n)
         /\ runs[i].kio = "kio4" \/ (runs[i].kio \in {"kio11", "kio12"} /\ runs[i + 1].kio = "kio5")
    /\ runs[n].kio = "kio5" /\ i \in runs[i].out.findings /\ runs[i].stored =>
         \/ i \in runs[n].used
         \/ input.code \/ runs[n].read.code # "none" \/ runs[n].read.findings # {} \/ runs[n].blind

(* What a reviewer said at the gate before kio6 is what it works with, unless the
   step was repeated with another provider; and it never takes an answer to
   another question for a review, unless that one refused the other provider. *)
PatcherHearsReviewer ==
  \A n \in DOMAIN runs : runs[n].kio = "kio6" =>
    /\ runs[n].said = "review" => runs[n].heard = "review" \/ runs[n].rerun
    /\ runs[n].heard = "review" => runs[n].said = "review" /\ ~runs[n].rerun
    /\ runs[n].heard = "switch" => runs[n].rerun

(* A plan, given or made, is carried out step by step to its end, and when kio2
   made it the report of kio8 is among its steps, provided that nobody replanned
   after the first step: later plans take effect in their middle.  That the report
   comes last, which kio2 asks of its LLM (kio2/main.py:71, 140), the code does not
   ensure: it only looks for kio8 in the plan. *)
PlanIsCarriedOut ==
  at = "done" /\ (\A i \in DOMAIN runs : runs[i].replans => i = 1) =>
    /\ plan = [i \in DOMAIN runs |-> runs[i].kio]
    /\ runs[1].kio = "kio2" => \E i \in DOMAIN runs : runs[i].kio = "kio8"
=============================================================================
