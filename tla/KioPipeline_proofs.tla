------------------------- MODULE KioPipeline_proofs -------------------------
(***************************************************************************)
(* Proofs about what the KIOs hand to each other.  Three properties look   *)
(* back over several runs, so the inductive invariant says what a run read *)
(* (the artifact of the run before it, or nothing when it is the first or  *)
(* was repeated with another provider), which KIO leaves which trace in    *)
(* its artifact, and how the reviewer's word relates to the feedback that  *)
(* the next KIO is given; for these nothing is needed of the plan.         *)
(*                                                                         *)
(* That a plan is carried out needs what the planners make of a reply.     *)
(* Their loops over it are recursive functions, and what a loop keeps is   *)
(* proved by induction over its turns, stated for a set of numbers since   *)
(* the provers cannot instantiate an induction rule for predicates.        *)
(***************************************************************************)
EXTENDS KioPipeline, WellFoundedInduction, TLAPS

Words == {"none", "review", "switch"}
Verdicts == {"none", "approved", "review"}

Run == [kio : Kios, read : Artifact, out : Artifact, used : SUBSET Int, blind : BOOLEAN,
        heard : Words, said : Verdicts, rerun : BOOLEAN, replans : BOOLEAN, stored : BOOLEAN]

(* The types of what the KIOs read and make *)
RunsTyped ==
  /\ at \in {"plan", "run", "hitl", "done", "failed"}
  /\ feedback \in Words /\ said \in Verdicts
  /\ retryPending \in BOOLEAN /\ rerun \in BOOLEAN
  /\ last \in Artifact /\ runs \in Seq(Run)

(* What the next run will read *)
LastIsKnown ==
  /\ at = "plan" => runs = <<>> /\ ~rerun /\ last = Blank
  /\ at = "run" => last = IF runs = <<>> \/ rerun THEN Blank ELSE runs[Len(runs)].out
  /\ at = "hitl" => IF retryPending THEN last = Blank /\ rerun
                    ELSE runs # <<>> /\ last = runs[Len(runs)].out
  /\ retryPending => at = "hitl"

ReadsAreChained ==
  \A n \in 1..Len(runs) :
    runs[n].read = IF n = 1 \/ runs[n].rerun THEN Blank ELSE runs[n - 1].out

(* The traces of run n of KIO k in its artifact, which read this *)
Traces(k, n, read, out) ==
  /\ out.applied => k = "kio7" /\ out.addressed = read.addressed /\ read.patches # 0
  /\ out.patches # 0 => k = "kio6" /\ out.addressed = read.bugs
  /\ out.bugs # 0 => k = "kio5" /\ out.bugs = n
  /\ out.verdict = "PASS" => read.addressed # 0 /\ read.applied /\ read.result # "fail"

RunsLeaveTraces ==
  \A n \in 1..Len(runs) : Traces(runs[n].kio, n, runs[n].read, runs[n].out)

(* Bugs do not reach another KIO before a reviewer has spoken. *)
BugsAreReviewed ==
  /\ at = "run" /\ last.bugs # 0 => said # "none"
  /\ \A n \in 1..Len(runs) : runs[n].read.bugs # 0 => runs[n].said # "none"

(* What the reviewer said, what the KIO hears, whether it is repeated *)
HeardRight(spoken, words, again) ==
  /\ spoken = "review" => words = "review" \/ again
  /\ words = "review" => spoken = "review" /\ ~again
  /\ words = "switch" => again

ReviewIsHeard ==
  /\ HeardRight(said, feedback, rerun)
  /\ \A n \in 1..Len(runs) : HeardRight(runs[n].said, runs[n].heard, runs[n].rerun)

(* How run n of KIO k hands test files on: kio4 makes them, kio5 and kio6 pass
   them, kio5 also what it finds under files, nobody else *)
Passes(k, n, read, out) ==
  /\ k = "kio4" => out.tests \in {0, n}
  /\ k = "kio5" => out.tests = IF read.tests = Absent THEN read.files ELSE read.tests
  /\ k = "kio6" => out.tests = IF read.tests = Absent THEN 0 ELSE read.tests
  /\ k \notin {"kio4", "kio5", "kio6"} => out.tests = Absent
  /\ out.files # 0 => out.files = n /\ k \in {"kio4", "kio11", "kio12"}

(* Of a sequence of runs: who has handed test files to whom *)
Passed(rs, n) == Passes(rs[n].kio, n, rs[n].read, rs[n].out)
Chained(rs, n) == rs[n].read = IF n = 1 \/ rs[n].rerun THEN Blank ELSE rs[n - 1].out
Hands(rs, i, n) == /\ \A j \in (i + 1)..(n - 1) : rs[j].kio \in {"kio5", "kio6"}
                   /\ \A j \in (i + 1)..n : ~rs[j].rerun
ComesOn(rs, n) ==
  \A i \in 1..(n - 1) :
    rs[i].kio = "kio4" /\ rs[i].out.tests # 0 /\ Hands(rs, i, n) => rs[n].read.tests = i
IsMaker(rs, t) ==
  rs[t].kio = "kio4" \/ (rs[t].kio \in {"kio11", "kio12"} /\ rs[t + 1].kio = "kio5")
GoesBack(rs, n) ==
  rs[n].read.tests \notin {Absent, 0} =>
    /\ rs[n].read.tests \in 1..(n - 1)
    /\ Hands(rs, rs[n].read.tests, n) /\ IsMaker(rs, rs[n].read.tests)

TestsArePassed ==
  \A n \in 1..Len(runs) : Passed(runs, n) /\ ComesOn(runs, n) /\ GoesBack(runs, n)

(* What kio7 and kio5 have taken up of the work of others *)
TakesTests(in, run) ==
  run.kio = "kio7" => \/ run.used = IF run.read.tests = Absent THEN {} ELSE {run.read.tests} \ {0}
                      \/ run.used = {} /\ ~in.repo /\ run.read.patches = 0
TakesFindings(in, earlier, run, i) ==
  run.kio = "kio5" /\ i \in earlier.out.findings /\ earlier.stored =>
    \/ i \in run.used
    \/ in.code \/ run.read.code # "none" \/ run.read.findings # {} \/ run.blind

WorkIsTaken ==
  \A n \in 1..Len(runs) :
    /\ TakesTests(input, runs[n])
    /\ \A i \in 1..(n - 1) : TakesFindings(input, runs[i], runs[n], i)

PipelineInv ==
  /\ RunsTyped /\ LastIsKnown /\ ReadsAreChained /\ RunsLeaveTraces /\ BugsAreReviewed
  /\ ReviewIsHeard /\ TestsArePassed /\ WorkIsTaken

-----------------------------------------------------------------------------
(* Artifacts *)

LEMMA BlankIsArtifact ==
  /\ Blank \in Artifact
  /\ Blank.patches = 0 /\ Blank.bugs = 0 /\ Blank.addressed = 0 /\ ~Blank.applied
  /\ Blank.verdict = "none"
  BY PipelineAssumption DEF Blank, Artifact, Absent

(* The effect of a run of KIO k that made out of what it used *)
Returned(k, out, used, blind) ==
  /\ \E run \in Run :
       /\ run.kio = k /\ run.read = last /\ run.out = out /\ run.used = used /\ run.blind = blind
       /\ run.heard = feedback /\ run.said = said /\ run.rerun = rerun
       /\ runs' = Append(runs, run)
  /\ last' = out /\ feedback' = "none" /\ said' = "none" /\ retryPending' = retryPending
  /\ input' = input
  /\ at' \in {"run", "hitl", "done", "failed"}
  /\ rerun' \in {FALSE, rerun} /\ (at' = "run" => ~rerun')
  /\ k = "kio5" => at' # "run"

LEMMA ReturnDoes ==
  ASSUME RunsTyped, NEW k \in Kios, Turn(k), NEW result, Return(result),
         result.out \in Artifact, result.used \in SUBSET Int, result.blind \in BOOLEAN,
         k = "kio5" => result.review
  PROVE  Returned(k, result.out, result.used, result.blind)
<1> DEFINE replans == Len(result.sequence) > 1
           new == IF replans THEN result.sequence ELSE plan
<1>1. PICK stored \in Registered :
        runs' = Append(runs,
          [kio |-> plan[step], read |-> last, out |-> result.out, used |-> result.used,
           blind |-> result.blind, heard |-> feedback, said |-> said, rerun |-> rerun,
           replans |-> replans, stored |-> stored])
  BY DEF Return
<1>2. stored \in BOOLEAN /\ replans \in BOOLEAN
  <2>1. stored \in BOOLEAN
    BY DEF Registered
  <2>2. QED
    BY <2>1
<1>3. plan[step] = k
  BY DEF Turn
<1>4. \E run \in Run :
        /\ run.kio = k /\ run.read = last /\ run.out = result.out
        /\ run.used = result.used /\ run.blind = result.blind
        /\ run.heard = feedback /\ run.said = said /\ run.rerun = rerun
        /\ runs' = Append(runs, run)
  <2> DEFINE run == [kio |-> k, read |-> last, out |-> result.out, used |-> result.used,
           blind |-> result.blind, heard |-> feedback, said |-> said, rerun |-> rerun,
           replans |-> replans, stored |-> stored]
  <2>1. run \in Run
    BY <1>2 DEF RunsTyped, Run
  <2>2. runs' = Append(runs, run)
    BY <1>1, <1>3
  <2>3. QED
    BY <2>1, <2>2
<1>5. /\ last' = result.out /\ feedback' = "none" /\ said' = "none"
      /\ retryPending' = retryPending /\ input' = input
  BY DEF Return
<1>6. \/ at' = "failed" /\ rerun' = rerun
      \/ at' = "hitl" /\ rerun' = rerun
      \/ ~result.review /\ Advance(new)
  BY DEF Return
<1>7. Advance(new) => rerun' = FALSE /\ at' \in {"run", "done"}
  BY DEF Advance
<1>8. QED
  BY <1>4, <1>5, <1>6, <1>7 DEF Returned

(* What kio7 and kio5 take up of the work of others *)
Uses(k, read, used, blind) ==
  /\ k = "kio7" => \/ used = IF read.tests = Absent THEN {} ELSE {read.tests} \ {0}
                   \/ used = {} /\ ~input.repo /\ read.patches = 0
  /\ k = "kio5" => \/ input.code \/ read.code # "none" \/ read.findings # {} \/ blind
                   \/ used = Fetched

(* Every run of a KIO leaves its traces. *)
MadeBy(k) ==
  \E out \in Artifact : \E used, blind :
    /\ Returned(k, out, used, blind)
    /\ Traces(k, This, last, out) /\ Passes(k, This, last, out) /\ Uses(k, last, used, blind)

(* A handler whose artifact carries neither bugs nor patches nor a verdict *)
Harmless(out) == ~out.applied /\ out.patches = 0 /\ out.bugs = 0 /\ out.verdict # "PASS"

(* ... nor test files *)
Plain(out) == Harmless(out) /\ out.tests = Absent /\ out.files = 0

LEMMA PlainPasses ==
  ASSUME NEW k \in Kios \ {"kio4", "kio5", "kio6"}, NEW n, NEW read, NEW out, Plain(out)
  PROVE  Passes(k, n, read, out)
  BY DEF Plain, Passes

LEMMA HarmlessTraces ==
  ASSUME NEW k, NEW n, NEW read, NEW out, Harmless(out) PROVE Traces(k, n, read, out)
  BY DEF Harmless, Traces

(* The number of a run is in the range of the numbers in an artifact. *)
LEMMA ThisInRange ==
  ASSUME RunsTyped, NEW k, Turn(k) PROVE This \in 1..MaxRuns /\ Len(runs) \in Nat
<1>1. Len(runs) \in Nat
  BY DEF RunsTyped
<1>2. QED
  BY <1>1, PipelineAssumption DEF Turn, This

(* A plain artifact with a field set to this or to nothing *)
LEMMA PlainArtifact ==
  ASSUME RunsTyped, NEW k, Turn(k)
  PROVE  /\ \A code \in {"none", "user", "made", "error"} :
              LET out == [Blank EXCEPT !.code = code] IN out \in Artifact /\ Plain(out)
         /\ \A found \in SUBSET {This} :
              LET out == [Blank EXCEPT !.findings = found] IN out \in Artifact /\ Plain(out)
         /\ \A files \in {0, This}, f \in {"kio11", "kio12"} :
              LET out == [Blank EXCEPT !.files = files]
              IN out \in Artifact /\ Harmless(out) /\ Passes(f, This, last, out)
         /\ Plain(Blank) /\ Blank \in Artifact
<1>1. This \in 1..MaxRuns
  BY ThisInRange
<1>2. Blank \in Artifact /\ Plain(Blank)
  BY BlankIsArtifact DEF Harmless, Plain, Blank
<1>3. ASSUME NEW code \in {"none", "user", "made", "error"}
      PROVE  LET out == [Blank EXCEPT !.code = code] IN out \in Artifact /\ Plain(out)
  BY <1>2 DEF Artifact, Harmless, Plain, Passes
<1>4. ASSUME NEW found \in SUBSET {This}
      PROVE  LET out == [Blank EXCEPT !.findings = found] IN out \in Artifact /\ Plain(out)
  <2>1. found \in SUBSET (1..MaxRuns)
    BY <1>1
  <2>2. QED
    BY <1>2, <2>1 DEF Artifact, Harmless, Plain, Passes
<1>5. ASSUME NEW files \in {0, This}, NEW f \in {"kio11", "kio12"}
      PROVE  LET out == [Blank EXCEPT !.files = files]
             IN out \in Artifact /\ Harmless(out) /\ Passes(f, This, last, out)
  <2>1. files \in 0..MaxRuns
    BY <1>1, PipelineAssumption
  <2>2. QED
    BY <1>2, <2>1 DEF Artifact, Harmless, Plain, Passes
<1>6. QED
  BY <1>2, <1>3, <1>4, <1>5

(* A result that only replans, or only has an artifact *)
LEMMA HarmlessMade ==
  ASSUME RunsTyped, NEW k \in Kios \ {"kio5"}, Turn(k), NEW out \in Artifact, Harmless(out),
         Passes(k, This, last, out), k = "kio7" => ~input.repo /\ last.patches = 0,
         NEW sequence, NEW hitl,
         \/ Return(Result(out))
         \/ Return([Result(out) EXCEPT !.sequence = sequence, !.hitl = hitl])
  PROVE  MadeBy(k)
<1>1. Returned(k, out, {}, FALSE)
  <2>1. CASE Return(Result(out))
    <3> DEFINE r == Result(out)
    <3>1. r.out = out /\ r.used = {} /\ r.blind = FALSE
      BY DEF Result
    <3>2. Return(r)
      BY <2>1
    <3> HIDE DEF r
    <3>3. Returned(k, r.out, r.used, r.blind)
      BY <3>1, <3>2, ReturnDoes
    <3>4. QED
      BY <3>1, <3>3
  <2>2. CASE Return([Result(out) EXCEPT !.sequence = sequence, !.hitl = hitl])
    <3> DEFINE r == [Result(out) EXCEPT !.sequence = sequence, !.hitl = hitl]
    <3>1. r.out = out /\ r.used = {} /\ r.blind = FALSE
      BY DEF Result
    <3>2. Return(r)
      BY <2>2
    <3> HIDE DEF r
    <3>3. Returned(k, r.out, r.used, r.blind)
      BY <3>1, <3>2, ReturnDoes
    <3>4. QED
      BY <3>1, <3>3
  <2>3. QED
    BY <2>1, <2>2
<1>2. QED
  BY <1>1, HarmlessTraces DEF MadeBy, Uses

(* A result that says what it used, and perhaps wants a review *)
LEMMA UserMade ==
  ASSUME RunsTyped, NEW k \in Kios, Turn(k), NEW out \in Artifact,
         NEW used \in SUBSET Int, NEW blind \in BOOLEAN, Traces(k, This, last, out), Passes(k, This, last, out),
         Uses(k, last, used, blind),
         \/ k # "kio5" /\ ~blind /\ Return([Result(out) EXCEPT !.used = used])
         \/ Return([Result(out) EXCEPT !.used = used, !.review = TRUE, !.blind = blind])
  PROVE  MadeBy(k)
<1>1. Returned(k, out, used, blind)
  <2>1. CASE k # "kio5" /\ ~blind /\ Return([Result(out) EXCEPT !.used = used])
    <3> DEFINE r == [Result(out) EXCEPT !.used = used]
    <3>1. r.out = out /\ r.used = used /\ r.blind = blind
      BY <2>1 DEF Result
    <3>2. Return(r)
      BY <2>1
    <3> HIDE DEF r
    <3>3. Returned(k, r.out, r.used, r.blind)
      BY <2>1, <3>1, <3>2, ReturnDoes
    <3>4. QED
      BY <3>1, <3>3
  <2>2. CASE Return([Result(out) EXCEPT !.used = used, !.review = TRUE, !.blind = blind])
    <3> DEFINE r == [Result(out) EXCEPT !.used = used, !.review = TRUE, !.blind = blind]
    <3>1. r.out = out /\ r.used = used /\ r.blind = blind /\ r.review = TRUE
      BY DEF Result
    <3>2. Return(r)
      BY <2>2
    <3> HIDE DEF r
    <3>3. Returned(k, r.out, r.used, r.blind)
      BY <3>1, <3>2, ReturnDoes
    <3>4. QED
      BY <3>1, <3>3
  <2>3. QED
    BY <2>1, <2>2
<1>2. QED
  BY <1>1 DEF MadeBy

KioRuns == \/ Kio1 \/ Kio2 \/ Kio3 \/ Kio4 \/ Kio5 \/ Kio6 \/ Kio7Skips \/ Kio7 \/ Kio8
           \/ Kio9 \/ Kio10 \/ Kio11 \/ Kio12 \/ Kio13

(* What the other handlers make, from what they read *)
LEMMA MadeArtifacts ==
  ASSUME RunsTyped, NEW k, Turn(k)
  PROVE  /\ \A tests \in {0, This} :
              LET out == [Blank EXCEPT !.findings = last.findings, !.files = tests, !.tests = tests]
              IN out \in Artifact /\ Harmless(out) /\ Passes("kio4", This, last, out)
         /\ \A bugs \in {0, This} :
              LET out == [Blank EXCEPT !.bugs = bugs, !.tests = TestsToPass]
              IN out \in Artifact /\ Traces("kio5", This, last, out)
                 /\ Passes("kio5", This, last, out)
         /\ \A patches \in {0, This} :
              LET out == [Blank EXCEPT !.patches = patches, !.addressed = last.bugs, !.tests = TestFiles]
              IN out \in Artifact /\ Traces("kio6", This, last, out)
                 /\ Passes("kio6", This, last, out)
         /\ LET out == [Blank EXCEPT !.addressed = last.addressed]
            IN out \in Artifact /\ Plain(out)
         /\ \A result \in {"nothing", "pass", "fail", "errors"} :
              LET out == [Blank EXCEPT !.addressed = last.addressed, !.applied = last.patches # 0,
                            !.result = result]
              IN out \in Artifact /\ Traces("kio7", This, last, out)
                 /\ Passes("kio7", This, last, out)
         /\ \A verdict \in {"llm", FallbackVerdict} :
              LET out == [Blank EXCEPT !.verdict = verdict]
              IN out \in Artifact /\ Traces("kio8", This, last, out)
                 /\ Passes("kio8", This, last, out)
<1>1. This \in 1..MaxRuns /\ last \in Artifact /\ 0 \in 0..MaxRuns
  BY ThisInRange, PipelineAssumption DEF RunsTyped
<1>2. /\ last.findings \in SUBSET (1..MaxRuns) /\ last.files \in 0..MaxRuns
      /\ last.tests \in Absent..MaxRuns /\ last.bugs \in 0..MaxRuns
      /\ last.addressed \in 0..MaxRuns
  BY <1>1 DEF Artifact
<1>3. TestsToPass \in Absent..MaxRuns /\ TestFiles \in Absent..MaxRuns
      /\ \A t \in 0..MaxRuns : t \in Absent..MaxRuns
  BY <1>2, PipelineAssumption DEF TestsToPass, TestFiles, Absent
<1>4. Blank \in Artifact /\ Harmless(Blank) /\ Plain(Blank)
  BY PlainArtifact DEF Plain
<1>5. ASSUME NEW tests \in {0, This}
      PROVE  LET out == [Blank EXCEPT !.findings = last.findings, !.files = tests, !.tests = tests]
             IN out \in Artifact /\ Harmless(out) /\ Passes("kio4", This, last, out)
  <2>1. tests \in 0..MaxRuns /\ tests \in Absent..MaxRuns
    BY <1>1, <1>3
  <2>2. QED
    BY <1>2, <1>4, <2>1 DEF Artifact, Harmless, Plain, Passes
<1>6. ASSUME NEW bugs \in {0, This}
      PROVE  LET out == [Blank EXCEPT !.bugs = bugs, !.tests = TestsToPass]
             IN out \in Artifact /\ Traces("kio5", This, last, out)
                 /\ Passes("kio5", This, last, out)
  <2>1. bugs \in 0..MaxRuns
    BY <1>1
  <2>2. QED
    BY <1>3, <1>4, <2>1 DEF Artifact, Harmless, Plain, Traces, Passes, TestsToPass, TestFiles
<1>7. ASSUME NEW patches \in {0, This}
      PROVE  LET out == [Blank EXCEPT !.patches = patches, !.addressed = last.bugs, !.tests = TestFiles]
             IN out \in Artifact /\ Traces("kio6", This, last, out)
                 /\ Passes("kio6", This, last, out)
  <2>1. patches \in 0..MaxRuns
    BY <1>1
  <2>2. QED
    BY <1>2, <1>3, <1>4, <2>1 DEF Artifact, Harmless, Plain, Traces, Passes, TestsToPass, TestFiles
<1>8. LET out == [Blank EXCEPT !.addressed = last.addressed]
      IN out \in Artifact /\ Plain(out)
  BY <1>2, <1>4 DEF Artifact, Harmless, Plain, Passes
<1>9. ASSUME NEW result \in {"nothing", "pass", "fail", "errors"}
      PROVE  LET out == [Blank EXCEPT !.addressed = last.addressed, !.applied = last.patches # 0,
                           !.result = result]
             IN out \in Artifact /\ Traces("kio7", This, last, out)
                 /\ Passes("kio7", This, last, out)
  BY <1>2, <1>4 DEF Artifact, Harmless, Plain, Traces, Passes, TestsToPass, TestFiles
<1>10. ASSUME NEW verdict \in {"llm", FallbackVerdict}
       PROVE  LET out == [Blank EXCEPT !.verdict = verdict]
              IN out \in Artifact /\ Traces("kio8", This, last, out)
                 /\ Passes("kio8", This, last, out)
  <2>1. verdict \in {"none", "llm", "PASS", "FAIL"}
        /\ (verdict = "PASS" => last.addressed # 0 /\ last.applied /\ last.result # "fail")
    BY DEF FallbackVerdict
  <2>2. QED
    BY <1>4, <2>1 DEF Artifact, Harmless, Plain, Traces, Passes, TestsToPass, TestFiles
<1>11. QED
  BY <1>5, <1>6, <1>7, <1>8, <1>9, <1>10

(* The numbers of the runs whose work a KIO takes up *)
LEMMA UsedAreNumbers ==
  ASSUME RunsTyped
  PROVE  /\ last.findings \in SUBSET Int /\ Fetched \in SUBSET Int
         /\ {last.bugs} \ {0} \in SUBSET Int /\ {TestFiles} \ {0} \in SUBSET Int
<1>1. last.findings \in SUBSET (1..MaxRuns) /\ last.bugs \in 0..MaxRuns
      /\ last.tests \in Absent..MaxRuns
  BY DEF RunsTyped, Artifact
<1>2. \A i \in DOMAIN runs : runs[i].out.findings \in SUBSET (1..MaxRuns)
  <2>1. \A i \in DOMAIN runs : runs[i] \in Run
    BY DEF RunsTyped
  <2>2. QED
    BY <2>1 DEF Run, Artifact
<1>3. Fetched \in SUBSET (1..MaxRuns)
  BY <1>2 DEF Fetched
<1>4. TestFiles \in Int
  BY <1>1, PipelineAssumption DEF TestFiles, Absent
<1>5. QED
  BY <1>1, <1>3, <1>4, PipelineAssumption

LEMMA KiosMake ==
  ASSUME RunsTyped, KioRuns
  PROVE  \E k \in Kios : Turn(k) /\ MadeBy(k)
<1>1. \A k \in {"kio1", "kio2", "kio3", "kio4", "kio5", "kio6", "kio7", "kio8", "kio9",
                "kio10", "kio11", "kio12", "kio13"} : k \in Kios
  BY DEF Kios
<1>2. CASE Kio1
  <2>1. Turn("kio1")
    BY <1>2 DEF Kio1
  <2> DEFINE out == [Blank EXCEPT !.code = IF input.code THEN "user" ELSE "none"]
  <2>2. out \in Artifact /\ Harmless(out) /\ Passes("kio1", This, last, out)
    BY <1>1, <2>1, PlainArtifact, PlainPasses DEF Plain
  <2>3. PICK reply, hitl :
          Return([Result(out) EXCEPT !.sequence = Routed(reply), !.hitl = hitl])
    BY <1>2 DEF Kio1
  <2> HIDE DEF out
  <2>4. MadeBy("kio1")
    BY <1>1, <2>1, <2>2, <2>3, HarmlessMade
  <2>5. QED
    BY <1>1, <2>1, <2>4
<1>3. CASE Kio2
  <2>1. Turn("kio2") /\ Blank \in Artifact /\ Harmless(Blank) /\ Passes("kio2", This, last, Blank)
    BY <1>1, <1>3, PlainArtifact, PlainPasses DEF Kio2, Plain
  <2>2. PICK sequence, hitl :
          Return([Result(Blank) EXCEPT !.sequence = sequence, !.hitl = hitl])
    BY <1>3 DEF Kio2
  <2>3. MadeBy("kio2")
    BY <1>1, <2>1, <2>2, HarmlessMade
  <2>4. QED
    BY <1>1, <2>1, <2>3
<1>4. CASE Kio3
  <2>1. Turn("kio3")
    BY <1>4 DEF Kio3
  <2>2. PICK found \in {{}, {This}} : Return(Result([Blank EXCEPT !.findings = found]))
    BY <1>4 DEF Kio3
  <2> DEFINE out == [Blank EXCEPT !.findings = found]
  <2>3. /\ out \in Artifact /\ Harmless(out) /\ Passes("kio3", This, last, out)
        /\ Return(Result(out))
    BY <1>1, <2>1, <2>2, PlainArtifact, PlainPasses DEF Plain
  <2> HIDE DEF out
  <2>4. MadeBy("kio3")
    BY <1>1, <2>1, <2>3, HarmlessMade
  <2>5. QED
    BY <1>1, <2>1, <2>4
<1>5. CASE Kio4
  <2>1. Turn("kio4")
    BY <1>5 DEF Kio4
  <2>2. PICK tests \in {0, This} :
          Return(Result([Blank EXCEPT !.findings = last.findings, !.files = tests, !.tests = tests]))
    BY <1>5 DEF Kio4
  <2> DEFINE out == [Blank EXCEPT !.findings = last.findings, !.files = tests, !.tests = tests]
  <2>3. /\ out \in Artifact /\ Harmless(out) /\ Passes("kio4", This, last, out)
        /\ Return(Result(out))
    BY <2>1, <2>2, MadeArtifacts
  <2> HIDE DEF out
  <2>4. MadeBy("kio4")
    BY <1>1, <2>1, <2>3, HarmlessMade
  <2>5. QED
    BY <1>1, <2>1, <2>4
<1>6. CASE Kio5
  <2>1. Turn("kio5")
    BY <1>6 DEF Kio5
  <2>2. PICK bugs \in {0, This}, blind \in BOOLEAN :
          Return([Result([Blank EXCEPT !.bugs = bugs, !.tests = TestsToPass]) EXCEPT
                    !.used = IF Direct THEN last.findings ELSE IF blind THEN {} ELSE Fetched,
                    !.review = TRUE, !.blind = blind])
    BY <1>6 DEF Kio5
  <2> DEFINE out == [Blank EXCEPT !.bugs = bugs, !.tests = TestsToPass]
             used == IF Direct THEN last.findings ELSE IF blind THEN {} ELSE Fetched
  <2>3. out \in Artifact /\ Traces("kio5", This, last, out) /\ Passes("kio5", This, last, out)
    BY <2>1, MadeArtifacts
  <2>4. used \in SUBSET Int
    BY UsedAreNumbers
  <2>5. /\ Return([Result(out) EXCEPT !.used = used, !.review = TRUE, !.blind = blind])
        /\ Uses("kio5", last, used, blind)
    BY <2>2 DEF Uses, Direct, HasCode
  <2> HIDE DEF out, used
  <2>6. MadeBy("kio5")
    BY <1>1, <2>1, <2>3, <2>4, <2>5, UserMade
  <2>7. QED
    BY <1>1, <2>1, <2>6
<1>7. CASE Kio6
  <2>1. Turn("kio6")
    BY <1>7 DEF Kio6
  <2>2. PICK patches \in {0, This} :
          Return([Result([Blank EXCEPT !.patches = patches, !.addressed = last.bugs,
                            !.tests = TestFiles])
                  EXCEPT !.used = {last.bugs} \ {0}])
    BY <1>7 DEF Kio6
  <2> DEFINE out == [Blank EXCEPT !.patches = patches, !.addressed = last.bugs, !.tests = TestFiles]
             used == {last.bugs} \ {0}
  <2>3. out \in Artifact /\ Traces("kio6", This, last, out) /\ Passes("kio6", This, last, out)
    BY <2>1, MadeArtifacts
  <2>4. used \in SUBSET Int
    BY UsedAreNumbers
  <2>5. /\ "kio6" # "kio5" /\ Return([Result(out) EXCEPT !.used = used])
        /\ Uses("kio6", last, used, FALSE)
    BY <2>2 DEF Uses
  <2> HIDE DEF out, used
  <2>6. MadeBy("kio6")
    BY <1>1, <2>1, <2>3, <2>4, <2>5, UserMade
  <2>7. QED
    BY <1>1, <2>1, <2>6
<1>8. CASE Kio7Skips
  <2>1. Turn("kio7")
    BY <1>8 DEF Kio7Skips
  <2> DEFINE out == [Blank EXCEPT !.addressed = last.addressed]
  <2>2. /\ out \in Artifact /\ Harmless(out) /\ Passes("kio7", This, last, out)
        /\ Return(Result(out)) /\ ~input.repo /\ last.patches = 0
    BY <1>1, <1>8, <2>1, MadeArtifacts, PlainPasses DEF Kio7Skips, Plain
  <2> HIDE DEF out
  <2>3. MadeBy("kio7")
    BY <1>1, <2>1, <2>2, HarmlessMade
  <2>4. QED
    BY <1>1, <2>1, <2>3
<1>9. CASE Kio7
  <2>1. Turn("kio7")
    BY <1>9 DEF Kio7
  <2>2. PICK result \in {"nothing", "pass", "fail", "errors"} :
          Return([Result([Blank EXCEPT !.addressed = last.addressed, !.applied = last.patches # 0,
                            !.result = result])
                  EXCEPT !.used = {TestFiles} \ {0}])
    BY <1>9 DEF Kio7
  <2> DEFINE out == [Blank EXCEPT !.addressed = last.addressed, !.applied = last.patches # 0,
                       !.result = result]
             used == {TestFiles} \ {0}
  <2>3. out \in Artifact /\ Traces("kio7", This, last, out) /\ Passes("kio7", This, last, out)
    BY <2>1, MadeArtifacts
  <2>4. used \in SUBSET Int
    BY UsedAreNumbers
  <2>5. /\ "kio7" # "kio5" /\ Return([Result(out) EXCEPT !.used = used])
        /\ Uses("kio7", last, used, FALSE)
    BY <2>2 DEF Uses, TestFiles
  <2> HIDE DEF out, used
  <2>6. MadeBy("kio7")
    BY <1>1, <2>1, <2>3, <2>4, <2>5, UserMade
  <2>7. QED
    BY <1>1, <2>1, <2>6
<1>10. CASE Kio8
  <2>1. Turn("kio8")
    BY <1>10 DEF Kio8
  <2>2. PICK verdict \in {"llm", FallbackVerdict} :
          Return(Result([Blank EXCEPT !.verdict = verdict]))
    BY <1>10 DEF Kio8
  <2> DEFINE out == [Blank EXCEPT !.verdict = verdict]
             r == Result(out)
  <2>3. out \in Artifact /\ Traces("kio8", This, last, out) /\ Passes("kio8", This, last, out)
    BY <2>1, MadeArtifacts
  <2>4. r.out = out /\ r.used = {} /\ r.blind = FALSE /\ Return(r)
    BY <2>2 DEF Result
  <2> HIDE DEF out, r
  <2>5. Returned("kio8", r.out, r.used, r.blind)
    BY <1>1, <2>1, <2>3, <2>4, ReturnDoes
  <2>6. QED
    BY <1>1, <2>1, <2>3, <2>4, <2>5 DEF MadeBy, Uses
<1>11. CASE Kio9
  <2>1. Turn("kio9")
    BY <1>11 DEF Kio9
  <2>2. PICK code \in {"made", "error"} : Return(Result([Blank EXCEPT !.code = code]))
    BY <1>11 DEF Kio9
  <2> DEFINE out == [Blank EXCEPT !.code = code]
  <2>3. /\ out \in Artifact /\ Harmless(out) /\ Passes("kio9", This, last, out)
        /\ Return(Result(out))
    BY <1>1, <2>1, <2>2, PlainArtifact, PlainPasses DEF Plain
  <2> HIDE DEF out
  <2>4. MadeBy("kio9")
    BY <1>1, <2>1, <2>3, HarmlessMade
  <2>5. QED
    BY <1>1, <2>1, <2>4
<1>12. ASSUME NEW k \in {"kio10", "kio13"}, Turn(k), Return(Result(Blank))
       PROVE  Turn(k) /\ MadeBy(k)
  <2>1. /\ Blank \in Artifact /\ Harmless(Blank) /\ Passes(k, This, last, Blank)
        /\ k \in Kios /\ k \notin {"kio5", "kio7"}
    BY <1>1, <1>12, PlainArtifact, PlainPasses DEF Plain
  <2>2. QED
    BY <1>12, <2>1, HarmlessMade
<1>13. ASSUME NEW k \in {"kio11", "kio12"}, Turn(k), NEW files \in {0, This},
              Return(Result([Blank EXCEPT !.files = files]))
       PROVE  Turn(k) /\ MadeBy(k)
  <2> DEFINE out == [Blank EXCEPT !.files = files]
  <2>1. /\ out \in Artifact /\ Harmless(out) /\ Passes(k, This, last, out)
        /\ Return(Result(out)) /\ k \in Kios /\ k \notin {"kio5", "kio7"}
    BY <1>1, <1>13, PlainArtifact
  <2> HIDE DEF out
  <2>2. QED
    BY <1>13, <2>1, HarmlessMade
<1>14. CASE Kio10 \/ Kio13
  BY <1>1, <1>12, <1>14 DEF Kio10, Kio13
<1>15. CASE Kio11 \/ Kio12
  BY <1>1, <1>13, <1>15 DEF Kio11, Kio12
<1>16. QED
  BY <1>2, <1>3, <1>4, <1>5, <1>6, <1>7, <1>8, <1>9, <1>10, <1>11, <1>14, <1>15 DEF KioRuns

-----------------------------------------------------------------------------
(* The invariant *)

LEMMA PipelineInvInit == ASSUME PipelineInit PROVE PipelineInv
<1>1. /\ at \in {"plan", "run"} /\ feedback = "none" /\ retryPending = FALSE
      /\ last = Blank /\ rerun = FALSE /\ said = "none" /\ runs = <<>>
  BY DEF PipelineInit
<1>2. runs \in Seq(Run) /\ Len(runs) = 0
  BY <1>1
<1>3. RunsTyped
  BY <1>1, <1>2, BlankIsArtifact DEF RunsTyped, Words, Verdicts
<1>4. LastIsKnown /\ ReadsAreChained /\ RunsLeaveTraces /\ BugsAreReviewed
  BY <1>1, <1>2, BlankIsArtifact DEF LastIsKnown, ReadsAreChained, RunsLeaveTraces, BugsAreReviewed
<1>5. ReviewIsHeard
  BY <1>1, <1>2 DEF ReviewIsHeard, HeardRight
<1>6. TestsArePassed /\ WorkIsTaken
  BY <1>2 DEF TestsArePassed, WorkIsTaken
<1>7. QED
  BY <1>3, <1>4, <1>5, <1>6 DEF PipelineInv

(* A new run reads what the run before it has passed on: it extends the ways of
   the test files forwards and backwards by one. *)
LEMMA OneRunFurther ==
  ASSUME NEW rs \in Seq(Run), NEW n \in 1..Len(rs), Chained(rs, n),
         n > 1 => /\ Chained(rs, n - 1) /\ Passed(rs, n - 1)
                  /\ ComesOn(rs, n - 1) /\ GoesBack(rs, n - 1),
         n > 2 => Passed(rs, n - 2)
  PROVE  ComesOn(rs, n) /\ GoesBack(rs, n)
<1>1. Len(rs) \in Nat /\ n \in Nat /\ Absent = -1
  BY DEF Absent
<1>2. \A i \in 1..(n - 2) :
        Hands(rs, i, n) <=> /\ Hands(rs, i, n - 1) /\ ~rs[n].rerun
                            /\ rs[n - 1].kio \in {"kio5", "kio6"}
  <2>1. SUFFICES ASSUME NEW i \in 1..(n - 2)
                 PROVE  Hands(rs, i, n) <=> /\ Hands(rs, i, n - 1) /\ ~rs[n].rerun
                                            /\ rs[n - 1].kio \in {"kio5", "kio6"}
    OBVIOUS
  <2>2. \A j : j \in (i + 1)..(n - 1) <=> j \in (i + 1)..(n - 2) \/ j = n - 1
    BY <1>1
  <2>3. \A j : j \in (i + 1)..n <=> j \in (i + 1)..(n - 1) \/ j = n
    BY <1>1
  <2>4. (n - 1) - 1 = n - 2
    BY <1>1
  <2>5. QED
    BY <2>2, <2>3, <2>4 DEF Hands
<1>3. n > 1 => (Hands(rs, n - 1, n) <=> ~rs[n].rerun)
  <2>1. (n - 1) + 1 = n /\ n..(n - 1) = {} /\ n..n = {n}
    BY <1>1
  <2>2. QED
    BY <2>1 DEF Hands
<1>4. ASSUME NEW i \in 1..(n - 1), rs[i].kio = "kio4", rs[i].out.tests # 0, Hands(rs, i, n)
      PROVE  rs[n].read.tests = i
  <2>1. n > 1 /\ ~rs[n].rerun
    BY <1>1, <1>4 DEF Hands
  <2>2. rs[n].read = rs[n - 1].out
    BY <1>1, <2>1 DEF Chained
  <2>3. CASE i = n - 1
    BY <1>4, <2>1, <2>2, <2>3 DEF Passed, Passes
  <2>4. CASE i # n - 1
    <3>1. i \in 1..(n - 2) /\ i # Absent /\ (n - 1) - 1 = n - 2
      BY <1>1, <2>4
    <3>2. Hands(rs, i, n - 1) /\ rs[n - 1].kio \in {"kio5", "kio6"}
      BY <1>2, <1>4, <3>1
    <3>3. rs[n - 1].read.tests = i
      BY <1>4, <2>1, <3>1, <3>2 DEF ComesOn
    <3>4. rs[n - 1].out.tests = i
      BY <2>1, <3>1, <3>2, <3>3 DEF Passed, Passes
    <3>5. QED
      BY <2>2, <3>4
  <2>5. QED
    BY <2>3, <2>4
<1>5. ASSUME rs[n].read.tests \notin {Absent, 0}
      PROVE  /\ rs[n].read.tests \in 1..(n - 1)
             /\ Hands(rs, rs[n].read.tests, n) /\ IsMaker(rs, rs[n].read.tests)
  <2>1. n > 1 /\ ~rs[n].rerun /\ rs[n].read = rs[n - 1].out
    <3>1. Blank.tests = Absent
      BY DEF Blank
    <3>2. rs[n].read # Blank
      BY <1>5, <3>1
    <3>3. QED
      BY <1>1, <3>2 DEF Chained
  <2> DEFINE t == rs[n - 1].out.tests
             before == rs[n - 1]
  <2>2. t \notin {Absent, 0} /\ Passes(before.kio, n - 1, before.read, before.out)
    BY <1>5, <2>1 DEF Passed
  <2>3. CASE before.kio = "kio4"
    <3>1. t = n - 1
      BY <2>2, <2>3 DEF Passes
    <3>2. QED
      BY <1>1, <1>3, <2>1, <2>3, <3>1 DEF IsMaker
  <2>4. CASE before.kio \in {"kio5", "kio6"} /\ before.read.tests = t
    <3>1. t \in 1..(n - 2) /\ Hands(rs, t, n - 1) /\ IsMaker(rs, t)
      <4>1. (n - 1) - 1 = n - 2
        BY <1>1
      <4>2. QED
        BY <2>1, <2>2, <2>4, <4>1 DEF GoesBack
    <3>2. Hands(rs, t, n) /\ t \in 1..(n - 1)
      BY <1>1, <1>2, <2>1, <2>4, <3>1
    <3>3. QED
      BY <2>1, <3>1, <3>2
  <2>5. CASE before.kio = "kio5" /\ before.read.tests = Absent /\ before.read.files = t
    <3>1. before.read # Blank
      BY <2>2, <2>5 DEF Blank
    <3>2. n > 2 /\ ~before.rerun /\ before.read = rs[n - 2].out
      <4>1. (n - 1) - 1 = n - 2 /\ (n - 1 = 1 <=> ~(n > 2))
        BY <1>1, <2>1
      <4>2. QED
        BY <2>1, <3>1, <4>1 DEF Chained
    <3>3. /\ t = n - 2 /\ rs[n - 2].kio \in {"kio4", "kio11", "kio12"}
          /\ rs[n - 2].kio = "kio4" => rs[n - 2].out.tests \in {0, n - 2}
      BY <2>2, <2>5, <3>2 DEF Passed, Passes
    <3>4. rs[n - 2].kio # "kio4" /\ (n - 2) + 1 = n - 1 /\ n - 2 \in 1..(n - 1) /\ n - 2 \in 1..(n - 2)
      BY <1>1, <2>5, <3>2, <3>3
    <3>5. Hands(rs, n - 2, n - 1)
      <4>1. (n - 1)..((n - 1) - 1) = {} /\ (n - 1)..(n - 1) = {n - 1}
        BY <1>1
      <4>2. QED
        BY <3>2, <3>4, <4>1 DEF Hands
    <3>6. Hands(rs, n - 2, n)
      BY <1>2, <2>1, <2>5, <3>4, <3>5
    <3>7. QED
      BY <2>1, <2>5, <3>3, <3>4, <3>6 DEF IsMaker
  <2>6. QED
    BY <2>2, <2>3, <2>4, <2>5 DEF Passes
<1>6. QED
  BY <1>4, <1>5 DEF ComesOn, GoesBack

(* Older runs look the same in a longer sequence. *)
LEMMA SamePast ==
  ASSUME NEW rs \in Seq(Run), NEW run \in Run, NEW n \in 1..Len(rs)
  PROVE  LET longer == Append(rs, run)
         IN /\ Passed(rs, n) => Passed(longer, n)
            /\ Chained(rs, n) => Chained(longer, n)
            /\ ComesOn(rs, n) => ComesOn(longer, n)
            /\ GoesBack(rs, n) => GoesBack(longer, n)
<1> DEFINE longer == Append(rs, run)
<1>1. Len(rs) \in Nat /\ \A j \in 1..Len(rs) : longer[j] = rs[j]
  OBVIOUS
<1>2. \A i \in 1..(n - 1) : /\ i \in 1..Len(rs) /\ i + 1 \in 1..Len(rs)
                           /\ (i + 1)..(n - 1) \subseteq 1..Len(rs) /\ (i + 1)..n \subseteq 1..Len(rs)
  BY <1>1
<1> HIDE DEF longer
<1>3. \A i \in 1..(n - 1) : Hands(longer, i, n) <=> Hands(rs, i, n)
  BY <1>1, <1>2 DEF Hands
<1>4. \A i \in 1..(n - 1) : IsMaker(longer, i) <=> IsMaker(rs, i)
  BY <1>1, <1>2 DEF IsMaker
<1>5. longer[n] = rs[n] /\ (n # 1 => longer[n - 1] = rs[n - 1])
  BY <1>1
<1>6. Passed(rs, n) => Passed(longer, n)
  BY <1>5 DEF Passed
<1>7. Chained(rs, n) => Chained(longer, n)
  BY <1>5 DEF Chained
<1>8. ComesOn(rs, n) => ComesOn(longer, n)
  BY <1>1, <1>2, <1>3, <1>5 DEF ComesOn
<1>9. GoesBack(rs, n) => GoesBack(longer, n)
  BY <1>3, <1>4, <1>5 DEF GoesBack
<1>10. QED
  BY <1>6, <1>7, <1>8, <1>9 DEF longer

(* A run that returns extends every part of the invariant by itself. *)
LEMMA ReturnKeeps ==
  ASSUME PipelineInv, NEW k \in Kios, Turn(k), MadeBy(k)
  PROVE  PipelineInv'
<1> USE DEF PipelineInv
<1>1. PICK out \in Artifact : \E used, blind :
        /\ Returned(k, out, used, blind)
        /\ Traces(k, This, last, out) /\ Passes(k, This, last, out) /\ Uses(k, last, used, blind)
  BY DEF MadeBy
<1>made. PICK used, blind :
        /\ Returned(k, out, used, blind)
        /\ Traces(k, This, last, out) /\ Passes(k, This, last, out) /\ Uses(k, last, used, blind)
  BY <1>1
<1>2. PICK run \in Run :
        /\ run.kio = k /\ run.read = last /\ run.out = out /\ run.used = used /\ run.blind = blind
        /\ run.heard = feedback /\ run.said = said /\ run.rerun = rerun
        /\ runs' = Append(runs, run)
  BY <1>made DEF Returned
<1>3. /\ last' = out /\ feedback' = "none" /\ said' = "none" /\ retryPending' = retryPending
      /\ at' \in {"run", "hitl", "done", "failed"}
      /\ rerun' \in {FALSE, rerun} /\ (at' = "run" => ~rerun')
      /\ k = "kio5" => at' # "run"
  BY <1>made DEF Returned
<1>4. /\ runs \in Seq(Run) /\ Len(runs) \in Nat /\ runs' \in Seq(Run) /\ runs' # <<>>
      /\ Len(runs') = Len(runs) + 1 /\ This = Len(runs')
      /\ runs'[Len(runs')] = run
      /\ \A n \in 1..Len(runs) : runs'[n] = runs[n]
  BY <1>2 DEF RunsTyped, This
<1>5. \A n \in 1..Len(runs') : n \in 1..Len(runs) \/ n = Len(runs')
  BY <1>4
<1>6. at = "run" /\ ~retryPending
  BY DEF Turn, LastIsKnown
<1>7. last = IF runs = <<>> \/ rerun THEN Blank ELSE runs[Len(runs)].out
  BY <1>6 DEF LastIsKnown
<1>8. RunsTyped'
  BY <1>3, <1>4 DEF RunsTyped, Words, Verdicts
<1>9. LastIsKnown'
  BY <1>2, <1>3, <1>4, <1>6 DEF LastIsKnown
<1>10. ReadsAreChained'
  <2>1. ASSUME NEW n \in 1..Len(runs)
        PROVE  runs'[n].read = IF n = 1 \/ runs'[n].rerun THEN Blank ELSE runs'[n - 1].out
    <3>1. runs'[n] = runs[n] /\ (n # 1 => runs'[n - 1] = runs[n - 1])
      BY <1>4
    <3>2. QED
      BY <3>1 DEF ReadsAreChained
  <2>2. run.read = IF Len(runs') = 1 \/ run.rerun THEN Blank ELSE runs'[Len(runs') - 1].out
    BY <1>2, <1>4, <1>7
  <2>3. QED
    BY <1>4, <1>5, <2>1, <2>2 DEF ReadsAreChained
<1>11. RunsLeaveTraces'
  <2>1. Traces(run.kio, Len(runs'), run.read, run.out)
    BY <1>made, <1>2, <1>4
  <2>2. QED
    BY <1>4, <1>5, <2>1 DEF RunsLeaveTraces
<1>12. BugsAreReviewed'
  <2>1. at' = "run" => out.bugs = 0
    BY <1>made, <1>3 DEF Traces
  <2>2. run.read.bugs # 0 => run.said # "none"
    BY <1>2, <1>6 DEF BugsAreReviewed
  <2>3. QED
    BY <1>3, <1>4, <1>5, <2>1, <2>2 DEF BugsAreReviewed
<1>13. ReviewIsHeard'
  <2>1. HeardRight(run.said, run.heard, run.rerun)
    BY <1>2 DEF ReviewIsHeard
  <2>2. HeardRight(said', feedback', rerun')
    BY <1>3 DEF HeardRight
  <2>3. QED
    BY <1>4, <1>5, <2>1, <2>2 DEF ReviewIsHeard
<1>14. TestsArePassed'
  <2>1. \A n \in 1..Len(runs) :
          Passed(runs', n) /\ Chained(runs', n) /\ ComesOn(runs', n) /\ GoesBack(runs', n)
    <3>1. \A n \in 1..Len(runs) : Chained(runs, n)
      BY DEF ReadsAreChained, Chained
    <3>2. QED
      BY <1>2, <1>4, <3>1, SamePast DEF TestsArePassed
  <2>2. Passed(runs', Len(runs')) /\ Chained(runs', Len(runs'))
    BY <1>made, <1>2, <1>4, <1>10 DEF Passed, Chained, ReadsAreChained
  <2>3. ComesOn(runs', Len(runs')) /\ GoesBack(runs', Len(runs'))
    <3>1. /\ Len(runs') > 1 => Len(runs') - 1 \in 1..Len(runs)
          /\ Len(runs') > 2 => Len(runs') - 2 \in 1..Len(runs)
          /\ Len(runs') \in 1..Len(runs')
      BY <1>4
    <3>2. QED
      BY <1>4, <2>1, <2>2, <3>1, OneRunFurther
  <2>4. QED
    BY <1>5, <2>1, <2>2, <2>3 DEF TestsArePassed
<1>15. WorkIsTaken'
  <2>1. input' = input
    BY <1>made DEF Returned
  <2>2. ASSUME NEW n \in 1..Len(runs)
        PROVE  /\ TakesTests(input', runs'[n])
               /\ \A i \in 1..(n - 1) : TakesFindings(input', runs'[i], runs'[n], i)
    <3>1. runs'[n] = runs[n] /\ \A i \in 1..(n - 1) : runs'[i] = runs[i]
      BY <1>4
    <3>2. QED
      BY <2>1, <3>1 DEF WorkIsTaken
  <2>3. TakesTests(input', run)
    BY <1>made, <1>2, <2>1 DEF Uses, TakesTests
  <2>4. ASSUME NEW i \in 1..(Len(runs') - 1) PROVE TakesFindings(input', runs'[i], run, i)
    <3>1. i \in 1..Len(runs) /\ runs'[i] = runs[i] /\ DOMAIN runs = 1..Len(runs)
      BY <1>4
    <3>2. SUFFICES ASSUME run.kio = "kio5", i \in runs[i].out.findings, runs[i].stored
                   PROVE  \/ i \in run.used
                          \/ input.code \/ run.read.code # "none" \/ run.read.findings # {}
                          \/ run.blind
      BY <2>1, <3>1 DEF TakesFindings
    <3>3. i \in Fetched
      BY <3>1, <3>2 DEF Fetched
    <3>4. QED
      BY <1>made, <1>2, <3>2, <3>3 DEF Uses
  <2>5. QED
    BY <1>4, <1>5, <2>2, <2>3, <2>4 DEF WorkIsTaken
<1>16. QED
  BY <1>8, <1>9, <1>10, <1>11, <1>12, <1>13, <1>14, <1>15

(* A step that runs no KIO keeps what the runs have read and made. *)
LEMMA RunsStand ==
  ASSUME PipelineInv, runs' = runs, input' = input
  PROVE  /\ ReadsAreChained' /\ RunsLeaveTraces' /\ TestsArePassed' /\ WorkIsTaken'
         /\ \A n \in 1..Len(runs') : runs'[n].read.bugs # 0 => runs'[n].said # "none"
         /\ \A n \in 1..Len(runs') : HeardRight(runs'[n].said, runs'[n].heard, runs'[n].rerun)
<1>1. TestsArePassed'
  BY DEF PipelineInv, TestsArePassed
<1>2. WorkIsTaken'
  BY DEF PipelineInv, WorkIsTaken, TakesTests, TakesFindings
<1>3. QED
  BY <1>1, <1>2 DEF PipelineInv, ReadsAreChained, RunsLeaveTraces, BugsAreReviewed, ReviewIsHeard

LEMMA PipelineInvStep ==
  ASSUME PipelineInv, [PipelineNext]_pipelineVars
  PROVE  PipelineInv'
<1> USE DEF PipelineInv
<1>1. CASE KioRuns
  BY <1>1, KiosMake, ReturnKeeps
<1>2. CASE PlanWorkflow
  <2>1. /\ at = "plan" /\ at' = "run" /\ runs' = runs
        /\ UNCHANGED <<input, feedback, retryPending, last, rerun, said>>
    BY <1>2 DEF PlanWorkflow
  <2>2. RunsTyped' /\ LastIsKnown'
    BY <2>1 DEF RunsTyped, LastIsKnown
  <2>3. last.bugs = 0 /\ said' \in Verdicts
    BY <2>1, BlankIsArtifact DEF LastIsKnown, RunsTyped
  <2>4. BugsAreReviewed' /\ ReviewIsHeard'
    BY <2>1, <2>3, RunsStand DEF BugsAreReviewed, ReviewIsHeard, HeardRight
  <2>5. QED
    BY <2>1, <2>2, <2>4, RunsStand
<1>3. CASE KioFails
  <2>1. at = "run" /\ runs' = runs /\ said' = said /\ input' = input
    BY <1>3 DEF KioFails
  <2>2. CASE Fallback /\ ~override
    <3>1. last' = Blank /\ feedback' = "none" /\ retryPending' = TRUE /\ rerun' = TRUE /\ at' = "hitl"
      BY <1>3, <2>2 DEF KioFails
    <3>2. RunsTyped' /\ LastIsKnown'
      BY <2>1, <3>1, BlankIsArtifact DEF RunsTyped, LastIsKnown, Words
    <3>3. BugsAreReviewed' /\ ReviewIsHeard'
      BY <3>1, <2>1, RunsStand DEF BugsAreReviewed, ReviewIsHeard, HeardRight
    <3>4. QED
      BY <2>1, <3>2, <3>3, RunsStand
  <2>3. CASE ~(Fallback /\ ~override)
    <3>1. at' = "failed" /\ UNCHANGED <<last, feedback, retryPending, rerun>>
      BY <1>3, <2>3 DEF KioFails
    <3>2. RunsTyped' /\ LastIsKnown'
      BY <2>1, <3>1 DEF RunsTyped, LastIsKnown
    <3>3. HeardRight(said', feedback', rerun')
      BY <2>1, <3>1 DEF ReviewIsHeard
    <3>4. BugsAreReviewed' /\ ReviewIsHeard'
      BY <2>1, <3>1, <3>3, RunsStand DEF BugsAreReviewed, ReviewIsHeard
    <3>5. QED
      BY <2>1, <3>2, <3>4, RunsStand
  <2>4. QED
    BY <2>2, <2>3
<1>4. CASE Answer
  <2>1. at = "hitl" /\ ~retryPending /\ UNCHANGED <<input, retryPending, last, runs>>
    BY <1>4 DEF Answer
  <2>2. /\ feedback' \in {"none", "review"}
        /\ said' = IF feedback' = "review" THEN "review" ELSE "approved"
    BY <1>4 DEF Answer
  <2>3. rerun' = FALSE /\ at' \in {"run", "done"}
    BY <1>4 DEF Answer, Advance
  <2>4. RunsTyped' /\ LastIsKnown'
    BY <2>1, <2>2, <2>3 DEF RunsTyped, LastIsKnown, Words, Verdicts
  <2>5. BugsAreReviewed' /\ ReviewIsHeard'
    BY <2>1, <2>2, <2>3, RunsStand DEF BugsAreReviewed, ReviewIsHeard, HeardRight
  <2>6. QED
    BY <2>1, <2>4, <2>5, RunsStand
<1>5. CASE AnswerSwitch
  <2>1. /\ at = "hitl" /\ retryPending /\ UNCHANGED <<input, last, rerun, said, runs>>
        /\ feedback' \in {"none", "switch"} /\ retryPending' = FALSE /\ at' = "run"
    BY <1>5 DEF AnswerSwitch
  <2>2. last = Blank /\ rerun
    BY <2>1 DEF LastIsKnown
  <2>3. RunsTyped' /\ LastIsKnown'
    BY <2>1, <2>2 DEF RunsTyped, LastIsKnown, Words
  <2>4. BugsAreReviewed' /\ ReviewIsHeard'
    BY <2>1, <2>2, BlankIsArtifact, RunsStand DEF BugsAreReviewed, ReviewIsHeard, HeardRight
  <2>5. QED
    BY <2>1, <2>3, <2>4, RunsStand
<1>6. CASE UNCHANGED pipelineVars
  <2>1. UNCHANGED <<input, at, feedback, retryPending, last, rerun, said, runs>>
    BY <1>6 DEF pipelineVars, graphVars
  <2>2. RunsTyped' /\ LastIsKnown'
    BY <2>1 DEF RunsTyped, LastIsKnown
  <2>3. BugsAreReviewed' /\ ReviewIsHeard'
    BY <2>1 DEF BugsAreReviewed, ReviewIsHeard
  <2>4. QED
    BY <2>1, <2>2, <2>3, RunsStand
<1>7. QED
  BY <1>1, <1>2, <1>3, <1>4, <1>5, <1>6 DEF PipelineNext, KioRuns

LEMMA PipelineInvariance == PipelineSpec => []PipelineInv
  BY PipelineInvInit, PipelineInvStep, PTL DEF PipelineSpec

-----------------------------------------------------------------------------
(* The theorems *)

(* For every plan and every answer of the LLMs: what a reviewer said at the gate
   before kio6 is the feedback that kio6 is given, unless the step was repeated
   with another provider, and kio6 takes nothing else for a review. *)
THEOREM ReviewerIsHeard == PipelineSpec => []PatcherHearsReviewer
<1>1. PipelineInv => PatcherHearsReviewer
  <2> SUFFICES ASSUME PipelineInv PROVE PatcherHearsReviewer
    OBVIOUS
  <2>1. DOMAIN runs = 1..Len(runs)
    BY DEF PipelineInv, RunsTyped
  <2>2. QED
    BY <2>1 DEF PipelineInv, ReviewIsHeard, HeardRight, PatcherHearsReviewer
<1>2. QED
  BY <1>1, PipelineInvariance, PTL

(* Whose artifact a run has read that is not blank: that of the run before it *)
LEMMA ReadFromBefore ==
  ASSUME PipelineInv, NEW n \in 1..Len(runs), runs[n].read # Blank
  PROVE  /\ n - 1 \in 1..Len(runs) /\ ~runs[n].rerun /\ runs[n].read = runs[n - 1].out
         /\ Traces(runs[n - 1].kio, n - 1, runs[n - 1].read, runs[n - 1].out)
<1>1. Len(runs) \in Nat
  BY DEF PipelineInv, RunsTyped
<1>2. n # 1 /\ ~runs[n].rerun /\ runs[n].read = runs[n - 1].out
  BY DEF PipelineInv, ReadsAreChained
<1>3. n - 1 \in 1..Len(runs)
  BY <1>1, <1>2
<1>4. QED
  BY <1>2, <1>3 DEF PipelineInv, RunsLeaveTraces

(* For every plan, whoever made it, and every answer of the LLMs: kio8 writes
   PASS into its own report only at the end of kio5, kio6, kio7 and kio8 run in a
   row, none of the last three repeated with another provider, with bugs that a
   reviewer has seen, patches for just these bugs and tests without a failure. *)
THEOREM ReportsAreBacked == PipelineSpec => []PassIsBacked
<1>1. PipelineInv => PassIsBacked
  <2> SUFFICES ASSUME PipelineInv PROVE PassIsBacked
    OBVIOUS
  <2>1. DOMAIN runs = 1..Len(runs) /\ Len(runs) \in Nat
    BY DEF PipelineInv, RunsTyped
  <2>2. SUFFICES ASSUME NEW n \in 1..Len(runs), runs[n].out.verdict = "PASS"
                 PROVE  /\ n > 3
                        /\ runs[n - 1].kio = "kio7" /\ runs[n - 1].out.result # "fail"
                        /\ runs[n - 2].kio = "kio6" /\ runs[n - 2].out.patches # 0
                        /\ runs[n - 2].said # "none"
                        /\ runs[n - 3].kio = "kio5" /\ runs[n - 3].out.bugs # 0
                        /\ runs[n - 1].out.addressed = n - 3
                        /\ \A j \in (n - 2)..n : ~runs[j].rerun
    BY <2>1 DEF PassIsBacked
  <2>3. runs[n].read.applied /\ runs[n].read.addressed # 0 /\ runs[n].read.result # "fail"
    BY <2>2 DEF PipelineInv, RunsLeaveTraces, Traces
  <2>4. /\ n - 1 \in 1..Len(runs) /\ ~runs[n].rerun /\ runs[n].read = runs[n - 1].out
        /\ runs[n - 1].kio = "kio7" /\ runs[n - 1].out.addressed = runs[n - 1].read.addressed
        /\ runs[n - 1].read.patches # 0
    BY <2>3, BlankIsArtifact, ReadFromBefore DEF Traces
  <2>5. /\ n - 2 \in 1..Len(runs) /\ ~runs[n - 1].rerun /\ runs[n - 1].read = runs[n - 2].out
        /\ runs[n - 2].kio = "kio6" /\ runs[n - 2].out.addressed = runs[n - 2].read.bugs
    <3>1. (n - 1) - 1 = n - 2
      BY <2>1
    <3>2. runs[n - 1].read # Blank
      BY <2>4, BlankIsArtifact
    <3>3. QED
      BY <2>4, <3>1, <3>2, ReadFromBefore DEF Traces
  <2>6. runs[n - 2].read.bugs # 0
    BY <2>3, <2>4, <2>5
  <2>7. /\ n - 3 \in 1..Len(runs) /\ ~runs[n - 2].rerun /\ runs[n - 2].read = runs[n - 3].out
        /\ runs[n - 3].kio = "kio5" /\ runs[n - 3].out.bugs = n - 3
    <3>1. (n - 2) - 1 = n - 3
      BY <2>1
    <3>2. runs[n - 2].read # Blank
      BY <2>6, BlankIsArtifact
    <3>3. QED
      BY <2>5, <2>6, <3>1, <3>2, ReadFromBefore DEF Traces
  <2>8. runs[n - 2].said # "none"
    BY <2>5, <2>6 DEF PipelineInv, BugsAreReviewed
  <2>9. \A j \in (n - 2)..n : j = n \/ j = n - 1 \/ j = n - 2
    BY <2>1
  <2>10. runs[n - 1].out.addressed = n - 3 /\ n > 3 /\ n - 3 # 0
    BY <2>1, <2>4, <2>5, <2>7
  <2>11. QED
    BY <2>3, <2>4, <2>5, <2>7, <2>8, <2>9, <2>10
<1>2. QED
  BY <1>1, PipelineInvariance, PTL

(* For every plan and every answer of the LLMs: the tests of a kio4 are run by a
   kio7 behind it exactly when only kio5 and kio6 stand in between and none was
   repeated with another provider, every other test file of a kio7 was left by a
   kio11 or kio12 directly before a kio5, and kio5 has taken up the stored
   findings of every run unless it had code or findings at hand, or was blind. *)
THEOREM WorkIsHandedOn == PipelineSpec => []WorkArrives
<1>1. PipelineInv => WorkArrives
  <2> SUFFICES ASSUME PipelineInv PROVE WorkArrives
    OBVIOUS
  <2>1. DOMAIN runs = 1..Len(runs) /\ Len(runs) \in Nat
    BY DEF PipelineInv, RunsTyped
  <2>2. \A i, n : HandedOn(i, n) <=> Hands(runs, i, n)
    BY DEF HandedOn, Hands
  <2>3. ASSUME NEW n \in 1..Len(runs), NEW i \in 1..(n - 1)
        PROVE  /\ runs[n].kio = "kio7" /\ runs[i].kio = "kio4" /\ runs[i].out.tests # 0 /\ HandedOn(i, n) =>
                    i \in runs[n].used \/ (~input.repo /\ runs[n].read.patches = 0)
               /\ runs[n].kio = "kio7" /\ i \in runs[n].used => HandedOn(i, n) /\ IsMaker(runs, i)
               /\ TakesFindings(input, runs[i], runs[n], i)
    <3>1. ComesOn(runs, n) /\ GoesBack(runs, n) /\ TakesTests(input, runs[n]) /\ TakesFindings(input, runs[i], runs[n], i)
      BY <2>3 DEF PipelineInv, TestsArePassed, WorkIsTaken
    <3>2. i \notin {Absent, 0}
      BY <2>1 DEF Absent
    <3>3. ASSUME runs[n].kio = "kio7", runs[i].kio = "kio4", runs[i].out.tests # 0, HandedOn(i, n)
          PROVE  i \in runs[n].used \/ (~input.repo /\ runs[n].read.patches = 0)
      <4>1. runs[n].read.tests = i
        BY <2>2, <3>1, <3>3 DEF ComesOn
      <4>2. QED
        BY <3>1, <3>2, <3>3, <4>1 DEF TakesTests
    <3>4. ASSUME runs[n].kio = "kio7", i \in runs[n].used
          PROVE  HandedOn(i, n) /\ IsMaker(runs, i)
      <4>1. runs[n].read.tests = i
        BY <3>1, <3>4 DEF TakesTests
      <4>2. QED
        BY <2>2, <3>1, <3>2, <4>1 DEF GoesBack
    <3>5. QED
      BY <3>1, <3>3, <3>4
  <2>4. QED
    BY <2>1, <2>3 DEF WorkArrives, IsMaker, TakesFindings
<1>2. QED
  BY <1>1, PipelineInvariance, PTL

-----------------------------------------------------------------------------
(* Recursive functions on an interval *)

(* Induction over the natural numbers, for a set and not for an operator *)
LEMMA SetInduction ==
  ASSUME NEW T \in SUBSET Nat, 0 \in T, \A n \in T : n + 1 \in T
  PROVE  T = Nat
<1>1. SUFFICES ASSUME Nat \ T # {} PROVE FALSE
  OBVIOUS
<1>2. PICK x \in Nat \ T : \A y \in Nat \ T : ~(<<y, x>> \in OpToRel(<, Nat))
  BY <1>1, WFMin, NatLessThanWellFounded, Nat \ T \subseteq Nat
<1>3. x # 0 /\ x - 1 \in Nat /\ (x - 1) + 1 = x
  <2>1. x \in Nat /\ x # 0
    BY <1>2
  <2>2. QED
    BY <2>1
<1>4. x - 1 \in Nat \ T
  BY <1>2, <1>3
<1>5. <<x - 1, x>> \in OpToRel(<, Nat)
  BY <1>3 DEF OpToRel
<1>6. QED
  BY <1>2, <1>4, <1>5

(* What a recursive function on an interval keeps *)
Keeps(f, n, S) == f[0] \in S /\ \A i \in 1..n : f[i - 1] \in S => f[i] \in S

LEMMA RecursionKeeps ==
  \A S, f : \A n \in Nat : Keeps(f, n, S) => f[n] \in S
<1> SUFFICES ASSUME NEW S, NEW f, NEW n \in Nat, Keeps(f, n, S) PROVE f[n] \in S
  OBVIOUS
<1> USE DEF Keeps
<1> DEFINE T == {k \in Nat : k <= n => f[k] \in S}
<1>1. T \in SUBSET Nat /\ 0 \in T
  OBVIOUS
<1>2. ASSUME NEW k \in T PROVE k + 1 \in T
  <2>1. k \in Nat /\ k + 1 \in Nat /\ (k + 1) - 1 = k
    BY <1>2
  <2>2. ASSUME k + 1 <= n PROVE f[k + 1] \in S
    <3>1. k + 1 \in 1..n /\ k <= n
      BY <2>1, <2>2
    <3>2. f[(k + 1) - 1] \in S
      BY <1>2, <2>1, <3>1
    <3>3. QED
      BY <3>1, <3>2
  <2>3. QED
    BY <2>1, <2>2
<1>3. T = Nat
  <2> HIDE DEF T
  <2>1. QED
    BY <1>1, <1>2, SetInduction
<1>4. QED
  BY <1>3

(* A recursive function exists when each of its steps stays in a set. *)
Recurses(f, init, h, n) == f[0] = init /\ \A i \in 1..n : f[i] = h[<<i, f[i - 1]>>]

LEMMA RecursionExists ==
  \A S : \A init \in S, n \in Nat : \A h \in [(1..n) \X S -> S] :
    \E f \in [0..n -> S] : Recurses(f, init, h, n)
<1> SUFFICES ASSUME NEW S, NEW init \in S, NEW n \in Nat, NEW h \in [(1..n) \X S -> S]
             PROVE  \E f \in [0..n -> S] : Recurses(f, init, h, n)
  OBVIOUS
<1> USE DEF Recurses
<1> DEFINE T == {k \in Nat : k <= n => \E f \in [0..k -> S] : Recurses(f, init, h, k)}
<1>1. T \in SUBSET Nat /\ 0 \in T
  <2> DEFINE f == [i \in 0..0 |-> init]
  <2>1. f \in [0..0 -> S] /\ Recurses(f, init, h, 0)
    OBVIOUS
  <2>2. QED
    BY <2>1
<1>2. ASSUME NEW k \in T PROVE k + 1 \in T
  <2>1. k \in Nat /\ k + 1 \in Nat /\ (k + 1) - 1 = k
    BY <1>2
  <2>2. ASSUME k + 1 <= n PROVE \E f \in [0..(k + 1) -> S] : Recurses(f, init, h, k + 1)
    <3>1. PICK f \in [0..k -> S] : Recurses(f, init, h, k)
      BY <1>2, <2>1, <2>2
    <3> DEFINE g == [i \in 0..(k + 1) |-> IF i = k + 1 THEN h[<<k + 1, f[k]>>] ELSE f[i]]
    <3>2. h[<<k + 1, f[k]>>] \in S
      <4>1. f[k] \in S /\ k + 1 \in 1..n
        BY <2>1, <2>2, <3>1
      <4>2. QED
        BY <4>1
    <3>3. g \in [0..(k + 1) -> S]
      <4>1. \A i \in 0..(k + 1) : i # k + 1 => i \in 0..k
        BY <2>1
      <4>2. QED
        BY <3>1, <3>2, <4>1
    <3>4. \A i \in 0..k : g[i] = f[i]
      <4>1. \A i \in 0..k : i \in 0..(k + 1) /\ i # k + 1
        BY <2>1
      <4>2. QED
        BY <4>1
    <3>5. g[k + 1] = h[<<k + 1, g[(k + 1) - 1]>>]
      <4>1. g[k] = f[k]
        BY <2>1, <3>4
      <4>2. k + 1 \in 0..(k + 1)
        BY <2>1
      <4>3. QED
        BY <2>1, <4>1, <4>2
    <3>6. Recurses(g, init, h, k + 1)
      <4>1. g[0] = init
        BY <2>1, <3>1, <3>4
      <4>2. ASSUME NEW i \in 1..k PROVE g[i] = h[<<i, g[i - 1]>>]
        <5>1. i \in 0..k /\ i - 1 \in 0..k
          BY <2>1
        <5>2. g[i] = f[i] /\ g[i - 1] = f[i - 1]
          BY <3>4, <5>1
        <5>3. f[i] = h[<<i, f[i - 1]>>]
          BY <3>1
        <5>4. QED
          BY <5>2, <5>3
      <4>3. \A i \in 1..(k + 1) : i \in 1..k \/ i = k + 1
        BY <2>1
      <4> HIDE DEF g
      <4>4. QED
        BY <3>5, <4>1, <4>2, <4>3
    <3> HIDE DEF g
    <3>7. QED
      BY <3>3, <3>6
  <2>3. QED
    BY <2>1, <2>2
<1>3. T = Nat
  <2> HIDE DEF T
  <2>1. QED
    BY <1>1, <1>2, SetInduction
<1>4. QED
  BY <1>3

-----------------------------------------------------------------------------
(* Plans and routes *)

(* What is left of a reply: some of the KIOs that may be planned, each once *)
CleanPlan ==
  {s \in Seq(Kios) : /\ Len(s) <= MaxPlan /\ \A i \in 1..Len(s) : s[i] # "kio1"
                     /\ \A i, j \in 1..Len(s) : s[i] = s[j] => i = j}

Taken(kios, k) ==
  IF k \notin Kios \ {"kio1"} \/ Contains(kios, k) \/ Len(kios) = MaxPlan THEN kios ELSE Append(kios, k)

LEMMA TakenIsClean ==
  ASSUME NEW kios \in CleanPlan, NEW k \in Ids PROVE Taken(kios, k) \in CleanPlan
<1>1. CASE k \notin Kios \ {"kio1"} \/ Contains(kios, k) \/ Len(kios) = MaxPlan
  BY <1>1 DEF Taken
<1>2. CASE ~(k \notin Kios \ {"kio1"} \/ Contains(kios, k) \/ Len(kios) = MaxPlan)
  <2> DEFINE more == Append(kios, k)
  <2>1. kios \in Seq(Kios) /\ Len(kios) \in Nat /\ Len(kios) <= MaxPlan
    BY DEF CleanPlan
  <2>2. /\ more \in Seq(Kios) /\ Len(more) = Len(kios) + 1
        /\ \A i \in 1..Len(kios) : more[i] = kios[i]
        /\ more[Len(kios) + 1] = k
    BY <1>2, <2>1
  <2>3. \A i \in 1..Len(more) : i \in 1..Len(kios) \/ i = Len(kios) + 1
    BY <2>1, <2>2
  <2>4. Len(more) <= MaxPlan
    BY <1>2, <2>1, <2>2, PipelineAssumption
  <2>5. \A i \in 1..Len(kios) : kios[i] # "kio1" /\ kios[i] # k
    BY <1>2 DEF CleanPlan, Contains
  <2>6. \A i, j \in 1..Len(kios) : kios[i] = kios[j] => i = j
    BY DEF CleanPlan
  <2> HIDE DEF more
  <2>7. \A i \in 1..Len(more) : more[i] # "kio1"
    BY <1>2, <2>2, <2>3, <2>5
  <2>8. \A i, j \in 1..Len(more) : more[i] = more[j] => i = j
    BY <2>2, <2>3, <2>5, <2>6
  <2>9. more \in CleanPlan
    BY <2>2, <2>4, <2>7, <2>8 DEF CleanPlan
  <2>10. QED
    BY <1>2, <2>9 DEF Taken, more
<1>3. QED
  BY <1>1, <1>2

(* Whatever the LLM replies: what plan_workflow() keeps of it names at most
   MaxPlan KIOs that exist, none of them twice and not the router. *)
THEOREM PlansAreCleaned ==
  ASSUME NEW reply \in Seq(Ids) PROVE Cleaned(reply) \in CleanPlan
<1> DEFINE n == Len(reply)
           Step(f, i) == IF i = 0 THEN <<>> ELSE Taken(f[i - 1], reply[i])
           kios == CHOOSE f : f = [i \in 0..n |-> Step(f, i)]
<1>1. n \in Nat /\ <<>> \in CleanPlan
  <2>1. <<>> \in Seq(Kios) /\ Len(<<>>) = 0
    OBVIOUS
  <2>2. QED
    BY <2>1, PipelineAssumption DEF CleanPlan
<1>r. reply \in [1..n -> Ids]
  OBVIOUS
<1> HIDE DEF n
<1>2. \E f : f = [i \in 0..n |-> Step(f, i)]
  <2> DEFINE h == [p \in (1..n) \X CleanPlan |-> Taken(p[2], reply[p[1]])]
  <2>1. h \in [(1..n) \X CleanPlan -> CleanPlan]
    <3>1. \A p \in (1..n) \X CleanPlan : p[2] \in CleanPlan /\ reply[p[1]] \in Ids
      BY <1>r
    <3>2. QED
      BY <3>1, TakenIsClean
  <2>2. PICK f \in [0..n -> CleanPlan] : Recurses(f, <<>>, h, n)
    <3> HIDE DEF h
    <3>1. QED
      BY <1>1, <2>1, RecursionExists
  <2>3. \A i \in 0..n : f[i] = Step(f, i)
    <3>1. \A i \in 0..n : i = 0 \/ (i # 0 /\ i \in 1..n /\ i - 1 \in 0..n)
      BY <1>1
    <3>2. ASSUME NEW i \in 1..n, i - 1 \in 0..n, i # 0 PROVE f[i] = Step(f, i)
      <4>1. <<i, f[i - 1]>> \in (1..n) \X CleanPlan
        BY <2>2, <3>2
      <4>2. h[<<i, f[i - 1]>>] = Taken(f[i - 1], reply[i])
        BY <4>1
      <4>3. QED
        BY <2>2, <3>2, <4>2 DEF Recurses
    <3>3. QED
      BY <2>2, <3>1, <3>2 DEF Recurses
  <2>4. f = [i \in 0..n |-> Step(f, i)]
    BY <2>2, <2>3
  <2>5. QED
    BY <2>4
<1>3. kios = [i \in 0..n |-> Step(kios, i)]
  BY <1>2
<1>4. Cleaned(reply) = kios[n]
  BY DEF Cleaned, Taken, n
<1> HIDE DEF kios
<1>5. kios[0] \in CleanPlan
  BY <1>1, <1>3
<1>6. Keeps(kios, n, CleanPlan)
  <2>1. ASSUME NEW i \in 1..n PROVE kios[i] = Taken(kios[i - 1], reply[i]) /\ reply[i] \in Ids
    <3>1. i \in 0..n /\ i # 0
      BY <1>1
    <3>2. QED
      BY <1>3, <1>r, <3>1
  <2>2. QED
    BY <1>5, <2>1, TakenIsClean DEF Keeps
<1>7. QED
  BY <1>1, <1>4, <1>6, RecursionKeeps

Others(kios, k) == IF k = "kio2" THEN kios ELSE Append(kios, k)

LEMMA RestIsRoute ==
  ASSUME NEW reply \in Seq(Ids) PROVE Rest(reply) \in Seq(Ids)
<1> DEFINE n == Len(reply)
           Step(f, i) == IF i = 0 THEN <<>> ELSE Others(f[i - 1], reply[i])
           kios == CHOOSE f : f = [i \in 0..n |-> Step(f, i)]
           Routes == Seq(Ids)
<1>1. n \in Nat /\ <<>> \in Routes /\ reply \in [1..n -> Ids]
  OBVIOUS
<1>o. \A s \in Routes, k \in Ids : Others(s, k) \in Routes
  BY DEF Others
<1>2. Rest(reply) = kios[n]
  BY DEF Rest, Others
<1> HIDE DEF n, Routes
<1>3. \E f : f = [i \in 0..n |-> Step(f, i)]
  <2> DEFINE h == [p \in (1..n) \X Routes |-> Others(p[2], reply[p[1]])]
  <2>1. h \in [(1..n) \X Routes -> Routes]
    <3>1. \A p \in (1..n) \X Routes : p[2] \in Routes /\ reply[p[1]] \in Ids
      BY <1>1
    <3>2. QED
      BY <3>1, <1>o
  <2>2. PICK f \in [0..n -> Routes] : Recurses(f, <<>>, h, n)
    <3> HIDE DEF h
    <3>1. QED
      BY <1>1, <2>1, RecursionExists
  <2>3. \A i \in 0..n : f[i] = Step(f, i)
    <3>1. \A i \in 0..n : i = 0 \/ (i # 0 /\ i \in 1..n /\ i - 1 \in 0..n)
      BY <1>1
    <3>2. ASSUME NEW i \in 1..n, i - 1 \in 0..n, i # 0 PROVE f[i] = Step(f, i)
      <4>1. <<i, f[i - 1]>> \in (1..n) \X Routes
        BY <2>2, <3>2
      <4>2. h[<<i, f[i - 1]>>] = Others(f[i - 1], reply[i])
        BY <4>1
      <4>3. QED
        BY <2>2, <3>2, <4>2 DEF Recurses
    <3>3. QED
      BY <2>2, <3>1, <3>2 DEF Recurses
  <2>4. f = [i \in 0..n |-> Step(f, i)]
    BY <2>2, <2>3
  <2>5. QED
    BY <2>4
<1>4. kios = [i \in 0..n |-> Step(kios, i)]
  BY <1>3
<1> HIDE DEF kios
<1>5. kios[0] \in Routes
  BY <1>1, <1>4
<1>6. Keeps(kios, n, Routes)
  <2>1. ASSUME NEW i \in 1..n PROVE kios[i] = Others(kios[i - 1], reply[i]) /\ reply[i] \in Ids
    <3>1. i \in 0..n /\ i # 0
      BY <1>1
    <3>2. QED
      BY <1>1, <1>4, <3>1
  <2>2. QED
    BY <1>5, <1>o, <2>1 DEF Keeps
<1>7. kios[n] \in Routes
  BY <1>1, <1>6, RecursionKeeps
<1>8. QED
  BY <1>2, <1>7 DEF Routes

LEMMA RoutedIsRoute ==
  ASSUME NEW reply \in Seq(Ids)
  PROVE  Routed(reply) \in Seq(Ids) /\ Routed(reply)[1] = "kio1"
<1>1. RouterFallback \in Seq(Ids) /\ RouterFallback[1] = "kio1"
  <2>1. "kio1" \in Ids /\ "kio5" \in Ids
    BY DEF Ids, Kios
  <2>2. QED
    BY <2>1 DEF RouterFallback
<1>2. QED
  BY <1>1 DEF Routed

LEMMA RepairedIsRoute ==
  ASSUME NEW reply \in Seq(Ids)
  PROVE  /\ Repaired(reply) \in Seq(Ids) /\ Len(Repaired(reply)) > 1
         /\ Repaired(reply)[1] = "kio2" /\ Contains(Repaired(reply), "kio8")
<1> DEFINE headed == IF reply # <<>> /\ reply[1] = "kio2" THEN reply ELSE <<"kio2">> \o Rest(reply)
<1>1. "kio2" \in Ids /\ "kio8" \in Ids
  BY DEF Ids, Kios
<1>2. headed \in Seq(Ids) /\ Len(headed) > 0 /\ headed[1] = "kio2"
  <2>1. CASE reply # <<>> /\ reply[1] = "kio2"
    <3>1. Len(reply) > 0
      BY <2>1
    <3>2. QED
      BY <2>1, <3>1
  <2>2. CASE ~(reply # <<>> /\ reply[1] = "kio2")
    <3>1. Rest(reply) \in Seq(Ids)
      BY RestIsRoute
    <3>2. <<"kio2">> \in Seq(Ids) /\ Len(<<"kio2">>) = 1 /\ <<"kio2">>[1] = "kio2"
      BY <1>1
    <3>3. <<"kio2">> \o Rest(reply) \in Seq(Ids)
      BY <3>1, <3>2
    <3>4. Len(<<"kio2">> \o Rest(reply)) > 0 /\ (<<"kio2">> \o Rest(reply))[1] = "kio2"
      BY <3>1, <3>2
    <3>5. QED
      BY <2>2, <3>3, <3>4
  <2>3. QED
    BY <2>1, <2>2
<1>3. Repaired(reply) = IF Contains(headed, "kio8") THEN headed ELSE Append(headed, "kio8")
  BY DEF Repaired
<1> HIDE DEF headed
<1>4. CASE Contains(headed, "kio8")
  <2>1. PICK i \in 1..Len(headed) : headed[i] = "kio8"
    BY <1>4 DEF Contains
  <2>2. i # 1
    BY <1>2, <2>1
  <2>3. Len(headed) > 1
    BY <1>2, <2>1, <2>2
  <2>4. QED
    BY <1>2, <1>3, <1>4, <2>3
<1>5. CASE ~Contains(headed, "kio8")
  <2> DEFINE whole == Append(headed, "kio8")
  <2>1. /\ whole \in Seq(Ids) /\ Len(whole) = Len(headed) + 1 /\ whole[1] = headed[1]
        /\ whole[Len(headed) + 1] = "kio8" /\ Len(headed) + 1 \in 1..Len(whole)
    BY <1>1, <1>2
  <2>2. Contains(whole, "kio8")
    BY <2>1 DEF Contains
  <2>3. QED
    BY <1>2, <1>3, <1>5, <2>1, <2>2
<1>6. QED
  BY <1>4, <1>5

LEMMA FixedRoutes ==
  /\ FallbackPlan \in Seq(Ids)
  /\ FullPipeline \in Seq(Ids) /\ Len(FullPipeline) > 1
  /\ FullPipeline[1] = "kio2" /\ Contains(FullPipeline, "kio8")
<1>1. FallbackPlan \in Seq(Ids) /\ FullPipeline \in Seq(Ids)
  BY DEF FallbackPlan, FullPipeline, Ids, Kios
<1>2. Len(FullPipeline) = 7 /\ FullPipeline[1] = "kio2" /\ FullPipeline[7] = "kio8"
  BY DEF FullPipeline
<1>3. QED
  BY <1>1, <1>2 DEF Contains

-----------------------------------------------------------------------------
(* The plan, its types and its place *)

PlanTyped ==
  /\ input \in [code : BOOLEAN, repo : BOOLEAN] /\ override \in BOOLEAN
  /\ plan \in Seq(Ids) /\ gates \subseteq Ids /\ step \in Nat \ {0}
  /\ at \in {"run", "hitl"} => step <= Len(plan)
  /\ at = "done" => step > 1
  /\ mishaps \in 0..MaxMishaps

(* As long as nobody but the first KIO has replanned: the runs follow the plan,
   and a plan that began with kio2 has its report in it. *)
FollowsPlan ==
  /\ at # "failed" => \A i \in 1..Len(runs) : i <= Len(plan) /\ runs[i].kio = plan[i]
  /\ at = "plan" => runs = <<>> /\ step = 1
  /\ at = "run" => Len(runs) = step - 1
  /\ at = "hitl" => Len(runs) = IF retryPending THEN step - 1 ELSE step
  /\ at = "done" => Len(runs) = step - 1 /\ Len(plan) = Len(runs)
  /\ runs # <<>> /\ runs[1].kio = "kio2" => Contains(plan, "kio8")

OnPlan == (\A i \in 1..Len(runs) : runs[i].replans => i = 1) => FollowsPlan

PlanInv == PlanTyped /\ OnPlan

(* What KIO k may return of a sequence: one that goes on from it, and kio2 always
   one with a report *)
Replans(k, sequence, hitl) ==
  /\ sequence \in Seq(Ids) /\ hitl \subseteq Ids
  /\ Len(sequence) > 1 => k \in {"kio1", "kio2"} /\ sequence[1] = k
  /\ k = "kio2" => Len(sequence) > 1 /\ Contains(sequence, "kio8")

(* A KIO's run, as far as the plan is concerned *)
RunsKio == \E k \in Kios : \E result : Turn(k) /\ Return(result) /\ Replans(k, result.sequence, result.hitl)

LEMMA NoSequence ==
  ASSUME NEW k \in Kios \ {"kio2"}, Turn(k), NEW out, NEW used, NEW blind,
         \/ Return(Result(out))
         \/ Return([Result(out) EXCEPT !.used = used])
         \/ Return([Result(out) EXCEPT !.used = used, !.review = TRUE, !.blind = blind])
  PROVE  RunsKio
<1>1. PICK result \in {Result(out), [Result(out) EXCEPT !.used = used],
                       [Result(out) EXCEPT !.used = used, !.review = TRUE, !.blind = blind]} :
        Return(result)
  OBVIOUS
<1>2. result.sequence = <<>> /\ result.hitl = {}
  <2>1. CASE result = Result(out)
    BY <2>1 DEF Result
  <2>2. CASE result = [Result(out) EXCEPT !.used = used]
    BY <2>2 DEF Result
  <2>3. CASE result = [Result(out) EXCEPT !.used = used, !.review = TRUE, !.blind = blind]
    BY <2>3 DEF Result
  <2>4. QED
    BY <1>1, <2>1, <2>2, <2>3
<1>3. Replans(k, <<>>, {})
  BY DEF Replans
<1>4. QED
  BY <1>1, <1>2, <1>3 DEF RunsKio

LEMMA GivenSequence ==
  ASSUME NEW k \in Kios, Turn(k), NEW out, NEW sequence, NEW hitl, Replans(k, sequence, hitl),
         Return([Result(out) EXCEPT !.sequence = sequence, !.hitl = hitl])
  PROVE  RunsKio
<1> DEFINE result == [Result(out) EXCEPT !.sequence = sequence, !.hitl = hitl]
<1>1. result.sequence = sequence /\ result.hitl = hitl
  BY DEF Result
<1>2. Return(result)
  OBVIOUS
<1> HIDE DEF result
<1>3. QED
  BY <1>1, <1>2 DEF RunsKio

LEMMA KiosRun ==
  ASSUME KioRuns PROVE RunsKio
<1>k. Kios = {"kio1", "kio2", "kio3", "kio4", "kio5", "kio6", "kio7", "kio8", "kio9",
              "kio10", "kio11", "kio12", "kio13"}
  BY DEF Kios
<1>h. /\ \A reply \in Replies : reply \in Seq(Ids)
      /\ \A hitl \in HitlChoices : hitl \subseteq Ids
  BY PipelineAssumption
<1>1. CASE Kio1
  <2>1. Turn("kio1")
    BY <1>1 DEF Kio1
  <2>2. PICK reply \in Replies \cup {<<>>}, hitl \in HitlChoices :
          Return([Result([Blank EXCEPT !.code = IF input.code THEN "user" ELSE "none"]) EXCEPT
                 !.sequence = Routed(reply),
                 !.hitl = IF Routed(reply) = reply THEN hitl ELSE {"kio5"}])
    BY <1>1 DEF Kio1
  <2>3. reply \in Seq(Ids)
    <3>1. <<>> \in Seq(Ids)
      OBVIOUS
    <3>2. QED
      BY <1>h, <3>1
  <2>4. Replans("kio1", Routed(reply), IF Routed(reply) = reply THEN hitl ELSE {"kio5"})
    BY <1>h, <1>k, <2>3, RoutedIsRoute DEF Replans, Ids
  <2>5. QED
    BY <1>k, <2>1, <2>2, <2>4, GivenSequence
<1>2. CASE Kio2
  <2>1. Turn("kio2")
    BY <1>2 DEF Kio2
  <2>2. CASE \E reply \in Replies, hitl \in HitlChoices :
               Return([Result(Blank) EXCEPT !.sequence = Repaired(reply), !.hitl = hitl])
    <3>1. PICK reply \in Replies, hitl \in HitlChoices :
            Return([Result(Blank) EXCEPT !.sequence = Repaired(reply), !.hitl = hitl])
      BY <2>2
    <3>2. Replans("kio2", Repaired(reply), hitl)
      BY <1>h, RepairedIsRoute DEF Replans
    <3>3. QED
      BY <1>k, <2>1, <3>1, <3>2, GivenSequence
  <2>3. CASE Return([Result(Blank) EXCEPT !.sequence = FullPipeline, !.hitl = {"kio5"}])
    <3>1. Replans("kio2", FullPipeline, {"kio5"})
      BY <1>k, FixedRoutes DEF Replans, Ids
    <3>2. QED
      BY <1>k, <2>1, <2>3, <3>1, GivenSequence
  <2>4. QED
    BY <1>2, <2>2, <2>3 DEF Kio2
<1>3. CASE Kio3 \/ Kio4 \/ Kio9
  BY <1>3, <1>k, NoSequence DEF Kio3, Kio4, Kio9
<1>4. CASE Kio5
  BY <1>4, <1>k, NoSequence DEF Kio5
<1>5. CASE Kio6 \/ Kio7Skips \/ Kio7
  BY <1>5, <1>k, NoSequence DEF Kio6, Kio7Skips, Kio7
<1>6. CASE Kio8 \/ Kio10 \/ Kio13
  BY <1>6, <1>k, NoSequence DEF Kio8, Kio10, Kio13
<1>7. CASE Kio11 \/ Kio12
  BY <1>7, <1>k, NoSequence DEF Kio11, Kio12
<1>8. QED
  BY <1>1, <1>2, <1>3, <1>4, <1>5, <1>6, <1>7 DEF KioRuns

LEMMA PlanInvInit == PipelineInit => PlanInv
<1> SUFFICES ASSUME PipelineInit PROVE PlanInv
  OBVIOUS
<1>1. plan \in Seq(Ids) /\ gates \subseteq Ids /\ (at = "run" => Len(plan) >= 1)
  <2>1. CASE at = "plan" /\ plan = <<>> /\ gates \in HitlChoices
    BY <2>1, PipelineAssumption
  <2>2. CASE at = "run" /\ plan \in Replies \ {<<>>} /\ gates \in HitlChoices
    <3>1. plan \in Seq(Ids) /\ plan # <<>>
      BY <2>2, PipelineAssumption
    <3>2. Len(plan) >= 1
      BY <3>1
    <3>3. QED
      BY <2>2, <3>1, <3>2, PipelineAssumption
  <2>3. CASE at = "run" /\ plan = <<"kio1">> /\ gates = {}
    <3>1. "kio1" \in Ids
      BY DEF Ids, Kios
    <3>2. <<"kio1">> \in Seq(Ids) /\ Len(<<"kio1">>) = 1
      BY <3>1
    <3>3. QED
      BY <2>3, <3>2
  <2>4. QED
    BY <2>1, <2>2, <2>3 DEF PipelineInit
<1>2. PlanTyped
  <2>1. /\ input \in [code : BOOLEAN, repo : BOOLEAN] /\ override = FALSE /\ step = 1
        /\ at \in {"plan", "run"} /\ mishaps = 0
    BY DEF PipelineInit
  <2>2. 0 \in 0..MaxMishaps
    BY PipelineAssumption
  <2>3. at \in {"run", "hitl"} => step <= Len(plan)
    BY <1>1, <2>1
  <2>4. at # "done" /\ step \in Nat \ {0}
    BY <2>1
  <2>5. override \in BOOLEAN
    BY <2>1
  <2>6. QED
    BY <1>1, <2>1, <2>2, <2>3, <2>4, <2>5 DEF PlanTyped
<1>3. FollowsPlan
  BY DEF PipelineInit, FollowsPlan
<1>4. QED
  BY <1>2, <1>3 DEF PlanInv, OnPlan

(* run_kio_node keeps to the plan. *)
LEMMA RunKeepsPlan ==
  ASSUME PipelineInv, PlanInv, RunsKio PROVE PlanInv'
<1>k. PICK k \in Kios : \E result : Turn(k) /\ Return(result) /\ Replans(k, result.sequence, result.hitl)
  BY DEF RunsKio
<1>1. PICK result : Turn(k) /\ Return(result) /\ Replans(k, result.sequence, result.hitl)
  BY <1>k
<1> DEFINE replans == Len(result.sequence) > 1
           new == IF replans THEN result.sequence ELSE plan
<1>2. PICK stored \in Registered :
        /\ runs' = Append(runs,
            [kio |-> plan[step], read |-> last, out |-> result.out, used |-> result.used,
             blind |-> result.blind, heard |-> feedback, said |-> said, rerun |-> rerun,
             replans |-> replans, stored |-> stored])
        /\ mishaps' = IF AllStored /\ ~stored THEN mishaps + 1 ELSE mishaps
  BY <1>1 DEF Return
<1>3. /\ plan' = new /\ gates' = IF replans THEN result.hitl ELSE gates
      /\ \/ step > Len(new) /\ at' = "failed" /\ step' = step
         \/ step <= Len(new) /\ at' = "hitl" /\ step' = step
         \/ step <= Len(new) /\ Advance(new)
      /\ UNCHANGED <<input, retryPending, override>>
  <2>1. new \in Seq(Ids)
    BY <1>1 DEF Replans, PlanInv, PlanTyped
  <2>2. Len(new) \in Nat /\ step \in Nat
    BY <2>1 DEF PlanInv, PlanTyped
  <2>3. plan' = new /\ gates' = IF replans THEN result.hitl ELSE gates
    BY <1>1 DEF Return
  <2>4. \/ step > Len(new) /\ at' = "failed" /\ step' = step
        \/ ~(step > Len(new)) /\ at' = "hitl" /\ step' = step
        \/ ~(step > Len(new)) /\ Advance(new)
    BY <1>1 DEF Return
  <2>5. UNCHANGED <<input, retryPending, override>>
    BY <1>1 DEF Return
  <2>6. QED
    BY <2>2, <2>3, <2>4, <2>5
<1>4. /\ Len(runs) \in Nat /\ Len(runs') = Len(runs) + 1 /\ runs' # <<>>
      /\ runs'[Len(runs) + 1].kio = plan[step]
      /\ \A i \in 1..Len(runs) : runs'[i] = runs[i]
  BY <1>2 DEF PipelineInv, RunsTyped
<1>r. replans => runs'[Len(runs) + 1].replans
  <2>1. SUFFICES ASSUME replans PROVE runs'[Len(runs) + 1].replans = TRUE
    OBVIOUS
  <2>2. replans = TRUE
    BY <2>1
  <2> HIDE DEF replans
  <2>3. runs'[Len(runs) + 1] =
            [kio |-> plan[step], read |-> last, out |-> result.out, used |-> result.used,
             blind |-> result.blind, heard |-> feedback, said |-> said, rerun |-> rerun,
             replans |-> replans, stored |-> stored]
    BY <1>2 DEF PipelineInv, RunsTyped
  <2>4. QED
    BY <2>2, <2>3
<1>5. /\ at = "run" /\ plan[step] = k /\ ~retryPending
      /\ step \in Nat \ {0} /\ step <= Len(plan) /\ new \in Seq(Ids) /\ Len(new) \in Nat
  BY <1>1 DEF Turn, PipelineInv, LastIsKnown, PlanInv, PlanTyped, Replans
<1>6. \/ at' = "failed" /\ step' = step
      \/ at' = "hitl" /\ step' = step /\ step <= Len(new)
      \/ at' = "run" /\ step' = step + 1 /\ step' <= Len(new)
      \/ at' = "done" /\ step' = step + 1 /\ step = Len(new)
  BY <1>3, <1>5 DEF Advance
<1>7. PlanTyped'
  <2>1. gates' \subseteq Ids
    BY <1>1, <1>3 DEF Replans, PlanInv, PlanTyped
  <2>2. mishaps' \in 0..MaxMishaps
    <3>1. mishaps \in 0..MaxMishaps /\ MaxMishaps \in Nat
      BY PipelineAssumption DEF PlanInv, PlanTyped
    <3>2. CASE AllStored /\ ~stored
      <4>1. mishaps < MaxMishaps
        BY <3>2 DEF Registered
      <4>2. mishaps' = mishaps + 1
        BY <1>2, <3>2
      <4>3. QED
        BY <3>1, <4>1, <4>2
    <3>3. CASE ~(AllStored /\ ~stored)
      BY <1>2, <3>1, <3>3
    <3>4. QED
      BY <3>2, <3>3
  <2>3. input' \in [code : BOOLEAN, repo : BOOLEAN] /\ override' \in BOOLEAN
    BY <1>3 DEF PlanInv, PlanTyped
  <2> HIDE DEF new, replans
  <2>4. at' \in {"run", "hitl"} => step' <= Len(plan')
    BY <1>3, <1>5, <1>6
  <2>5. at' = "done" => step' > 1
    BY <1>5, <1>6
  <2>6. plan' \in Seq(Ids) /\ step' \in Nat \ {0}
    BY <1>3, <1>5, <1>6
  <2>7. QED
    BY <2>1, <2>2, <2>3, <2>4, <2>5, <2>6 DEF PlanTyped
<1>8. OnPlan'
  <2>1. SUFFICES ASSUME \A i \in 1..Len(runs') : runs'[i].replans => i = 1
                 PROVE  FollowsPlan'
    BY DEF OnPlan
  <2>2. \A i \in 1..Len(runs) : i \in 1..Len(runs') /\ runs'[i] = runs[i]
    BY <1>4
  <2>3. FollowsPlan
    BY <2>1, <2>2 DEF PlanInv, OnPlan
  <2>4. Len(runs) = step - 1 /\ Len(runs') = step
    BY <1>4, <1>5, <2>3 DEF FollowsPlan
  <2>5. \A i \in 1..Len(runs') : i \in 1..Len(runs) \/ i = step
    BY <1>4, <2>4
  <2>6. replans => Len(runs) = 0 /\ step = 1
    <3>1. SUFFICES ASSUME replans PROVE Len(runs) = 0
      BY <1>5, <2>4
    <3>2. Len(runs) + 1 \in 1..Len(runs') /\ runs'[Len(runs) + 1].replans
      BY <1>4, <1>r, <3>1
    <3>3. Len(runs) + 1 = 1
      BY <2>1, <3>2
    <3>4. QED
      BY <1>4, <3>3
  <2>7. /\ at' # "failed" => \A i \in 1..Len(runs') : i <= Len(plan') /\ runs'[i].kio = plan'[i]
        /\ runs'[1].kio = "kio2" => Contains(plan', "kio8")
    <3>1. CASE replans
      <4>1. Len(runs') = 1 /\ runs'[1].kio = k /\ plan'[1] = k /\ Len(plan') > 1
        BY <1>1, <1>3, <1>4, <1>5, <2>4, <2>6, <3>1 DEF Replans
      <4>2. k = "kio2" => Contains(plan', "kio8")
        BY <1>1, <1>3, <3>1 DEF Replans
      <4>3. \A i \in 1..Len(runs') : i = 1
        BY <4>1
      <4>4. QED
        BY <4>1, <4>2, <4>3, <1>3, <1>5
    <3>2. CASE ~replans
      <4>1. plan' = plan /\ k # "kio2"
        BY <1>1, <1>3, <3>2 DEF Replans
      <4>2. \A i \in 1..Len(runs) : i <= Len(plan) /\ runs[i].kio = plan[i]
        BY <1>5, <2>3 DEF FollowsPlan
      <4>3. \A i \in 1..Len(runs') : i <= Len(plan) /\ runs'[i].kio = plan[i]
        BY <1>4, <1>5, <2>2, <2>4, <2>5, <4>2
      <4>4. runs'[1].kio = "kio2" => Contains(plan, "kio8")
        <5>1. CASE Len(runs) = 0
          BY <1>4, <1>5, <2>4, <4>1, <5>1
        <5>2. CASE Len(runs) # 0
          <6>1. 1 \in 1..Len(runs) /\ runs # <<>>
            BY <1>4, <5>2
          <6>2. QED
            BY <2>2, <2>3, <6>1 DEF FollowsPlan
        <5>3. QED
          BY <5>1, <5>2
      <4>5. QED
        BY <4>1, <4>3, <4>4
    <3>3. QED
      BY <3>1, <3>2
  <2>8. /\ at' # "plan" /\ retryPending' = FALSE
        /\ at' = "run" => Len(runs') = step' - 1
        /\ at' = "hitl" => Len(runs') = step'
        /\ at' = "done" => Len(runs') = step' - 1 /\ Len(plan') = Len(runs')
    <3> HIDE DEF new, replans
    <3>1. at' # "plan" /\ retryPending' = FALSE
      BY <1>3, <1>5, <1>6 DEF PipelineInv, RunsTyped
    <3>2. QED
      BY <1>3, <1>5, <1>6, <2>4, <3>1
  <2>9. QED
    BY <2>7, <2>8 DEF FollowsPlan
<1>9. QED
  BY <1>7, <1>8 DEF PlanInv

(* The end of a step that is not a run: advance_node after the gate *)
LEMMA AnswerKeepsPlan ==
  ASSUME PipelineInv, PlanInv, Answer PROVE PlanInv'
<1>1. /\ at = "hitl" /\ ~retryPending /\ Advance(plan)
      /\ UNCHANGED <<input, plan, gates, retryPending, override, mishaps, runs>>
  BY DEF Answer
<1>2. /\ plan \in Seq(Ids) /\ Len(plan) \in Nat /\ step \in Nat \ {0} /\ step <= Len(plan)
      /\ runs # <<>> /\ Len(runs) \in Nat
  BY <1>1 DEF PlanInv, PlanTyped, PipelineInv, LastIsKnown, RunsTyped
<1>3. \/ at' = "run" /\ step' = step + 1 /\ step' <= Len(plan)
      \/ at' = "done" /\ step' = step + 1 /\ step = Len(plan)
  BY <1>1, <1>2 DEF Advance
<1>4. PlanTyped'
  <2>1. at' = "done" => step' > 1
    BY <1>2, <1>3
  <2>2. step' \in Nat \ {0} /\ (at' \in {"run", "hitl"} => step' <= Len(plan'))
    BY <1>1, <1>2, <1>3
  <2>3. QED
    BY <1>1, <2>1, <2>2 DEF PlanInv, PlanTyped
<1>5. ASSUME FollowsPlan PROVE FollowsPlan'
  <2>1. Len(runs) = step
    BY <1>1, <1>5 DEF FollowsPlan
  <2>2. QED
    BY <1>1, <1>2, <1>3, <1>5, <2>1 DEF FollowsPlan
<1>6. OnPlan'
  BY <1>1, <1>5 DEF PlanInv, OnPlan
<1>7. QED
  BY <1>4, <1>6 DEF PlanInv

LEMMA PlanInvStep ==
  ASSUME PipelineInv, PlanInv, [PipelineNext]_pipelineVars PROVE PlanInv'
<1>1. CASE KioRuns
  BY <1>1, KiosRun, RunKeepsPlan
<1>2. CASE Answer
  BY <1>2, AnswerKeepsPlan
<1>3. CASE PlanWorkflow
  <2>1. /\ at = "plan" /\ at' = "run"
        /\ plan' \in ({Cleaned(reply) : reply \in Replies} \ {<<>>}) \cup {FallbackPlan}
        /\ UNCHANGED <<input, gates, step, retryPending, override, mishaps, runs>>
    BY <1>3 DEF PlanWorkflow
  <2>2. plan' \in Seq(Ids) /\ plan' # <<>>
    <3>1. \A reply \in Replies : Cleaned(reply) \in Seq(Ids)
      <4>1. \A s \in Seq(Kios) : s \in Seq(Ids)
        BY DEF Ids
      <4>2. QED
        BY <4>1, PlansAreCleaned, PipelineAssumption DEF CleanPlan
    <3>2. FallbackPlan # <<>>
      BY DEF FallbackPlan
    <3>3. QED
      BY <2>1, <3>1, <3>2, FixedRoutes
  <2>3. PlanTyped' /\ OnPlan'
    <3>1. gates' \subseteq Ids
      BY <2>1 DEF PlanInv, PlanTyped
    <3>2. Len(plan') \in Nat /\ Len(plan') >= 1
      BY <2>2
    <3>3. runs = <<>> /\ step = 1
      <4>1. runs = <<>>
        BY <2>1 DEF PipelineInv, LastIsKnown
      <4>2. FollowsPlan
        BY <4>1 DEF PlanInv, OnPlan
      <4>3. QED
        BY <2>1, <4>2 DEF FollowsPlan
    <3>4. PlanTyped'
      BY <2>1, <2>2, <3>1, <3>2, <3>3 DEF PlanInv, PlanTyped
    <3>5. FollowsPlan'
      BY <2>1, <3>3 DEF FollowsPlan
    <3>6. QED
      BY <3>4, <3>5 DEF OnPlan
  <2>4. QED
    BY <2>3 DEF PlanInv
<1>4. CASE KioFails
  <2>1. /\ at = "run" /\ mishaps < MaxMishaps /\ mishaps' = mishaps + 1
        /\ UNCHANGED <<input, plan, gates, step, override, runs>>
    BY <1>4 DEF KioFails
  <2>2. (at' = "hitl" /\ retryPending' = TRUE) \/ at' = "failed"
    BY <1>4 DEF KioFails
  <2>3. mishaps' \in 0..MaxMishaps
    BY <2>1, PipelineAssumption DEF PlanInv, PlanTyped
  <2>4. PlanTyped'
    BY <2>1, <2>2, <2>3 DEF PlanInv, PlanTyped
  <2>5. FollowsPlan => FollowsPlan'
    BY <2>1, <2>2 DEF FollowsPlan
  <2>6. QED
    BY <2>1, <2>4, <2>5 DEF PlanInv, OnPlan
<1>5. CASE AnswerSwitch
  <2>1. /\ at = "hitl" /\ retryPending /\ at' = "run" /\ override' \in {TRUE, override}
        /\ UNCHANGED <<input, plan, gates, step, mishaps, runs>>
    BY <1>5 DEF AnswerSwitch
  <2>2. PlanTyped'
    BY <2>1 DEF PlanInv, PlanTyped
  <2>3. FollowsPlan => FollowsPlan'
    BY <2>1 DEF FollowsPlan
  <2>4. QED
    BY <2>1, <2>2, <2>3 DEF PlanInv, OnPlan
<1>6. CASE UNCHANGED pipelineVars
  <2>1. UNCHANGED <<input, at, plan, gates, step, override, retryPending, mishaps, runs>>
    BY <1>6 DEF pipelineVars, graphVars
  <2>2. PlanTyped'
    BY <2>1 DEF PlanInv, PlanTyped
  <2>3. FollowsPlan => FollowsPlan'
    BY <2>1 DEF FollowsPlan
  <2>4. QED
    BY <2>1, <2>2, <2>3 DEF PlanInv, OnPlan
<1>7. QED
  BY <1>1, <1>2, <1>3, <1>4, <1>5, <1>6 DEF PipelineNext, KioRuns

LEMMA PlanInvariance == PipelineSpec => []PlanInv
  BY PlanInvInit, PlanInvStep, PipelineInvariance, PTL DEF PipelineSpec

(* Whatever the LLMs reply, the fields of the graph's state have their types; in
   particular no step of a plan lies behind its end while the graph runs. *)
THEOREM PipelineTypesHold == PipelineSpec => []PipelineTypeOK
<1>1. PipelineInv /\ PlanInv => PipelineTypeOK
  <2> SUFFICES ASSUME PipelineInv, PlanInv PROVE PipelineTypeOK
    OBVIOUS
  <2>1. \A i \in DOMAIN runs : runs[i].kio \in Kios /\ runs[i].out \in Artifact
    <3>1. \A i \in DOMAIN runs : runs[i] \in Run
      BY DEF PipelineInv, RunsTyped
    <3>2. QED
      BY <3>1 DEF Run
  <2>2. /\ at \in {"plan", "run", "hitl", "done", "failed"} /\ feedback \in Words /\ said \in Verdicts
        /\ retryPending \in BOOLEAN /\ rerun \in BOOLEAN /\ last \in Artifact
    BY DEF PipelineInv, RunsTyped
  <2>3. PlanTyped
    BY DEF PlanInv
  <2>4. QED
    BY <2>1, <2>2, <2>3 DEF PlanTyped, PipelineTypeOK, Words, Verdicts
<1>2. QED
  BY <1>1, PipelineInvariance, PlanInvariance, PTL

(* Whatever plan the client gives or the planner makes of a reply, whoever replans at
   the first step and whatever fails or is answered in between: a workflow that is
   done has run the KIOs of its plan, each step once and in its order, and when kio2
   made the plan kio8 was among them (not necessarily the last). *)
THEOREM PlansAreCarriedOut == PipelineSpec => []PlanIsCarriedOut
<1>1. PipelineInv /\ PlanInv => PlanIsCarriedOut
  <2> SUFFICES ASSUME PipelineInv, PlanInv, at = "done",
                      \A i \in DOMAIN runs : runs[i].replans => i = 1
               PROVE  /\ plan = [i \in DOMAIN runs |-> runs[i].kio]
                      /\ runs[1].kio = "kio2" => \E i \in DOMAIN runs : runs[i].kio = "kio8"
    BY DEF PlanIsCarriedOut
  <2>1. DOMAIN runs = 1..Len(runs) /\ Len(runs) \in Nat
    BY DEF PipelineInv, RunsTyped
  <2>2. FollowsPlan
    BY <2>1 DEF PlanInv, OnPlan
  <2>3. Len(plan) = Len(runs) /\ \A i \in 1..Len(runs) : runs[i].kio = plan[i]
    BY <2>2 DEF FollowsPlan
  <2>4. plan = [i \in 1..Len(plan) |-> plan[i]]
    BY DEF PlanInv, PlanTyped
  <2>5. runs # <<>>
    BY <2>2 DEF FollowsPlan, PlanInv, PlanTyped
  <2>6. QED
    BY <2>1, <2>2, <2>3, <2>4, <2>5 DEF FollowsPlan, Contains
<1>2. QED
  BY <1>1, PipelineInvariance, PlanInvariance, PTL
=============================================================================
