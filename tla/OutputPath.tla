----------------------------- MODULE OutputPath -----------------------------
(***************************************************************************)
(* The way of one output from the agent loop to the step record: the draft *)
(* and the reflect pass in the runtime, handleStepComplete, what Dispatch  *)
(* returns, and the last judgement of the runner.  The output of an item   *)
(* of a fanout goes the same way up to Dispatch and is then one of the     *)
(* results that the runner judges, that of a workflow step reaches the     *)
(* runner as the sub-workflow left it.  A transform returns one field      *)
(* "result", a webhook "sent" and "status_code" or "skipped": what is in   *)
(* the result of a transform nobody looks at.                              *)
(* An output is the set of the fields it has that somebody looks at.       *)
(***************************************************************************)
EXTENDS FiniteSets

CONSTANTS
  Kinds,    \* the kinds of steps, of {"agent", "item", "workflow"}
  Fields    \* the fields an output may have, of AllFields

\* fatal: one of the four fields that fail a step, set to true;  odd: one of
\* them set to something that is no boolean;  high: ktsu_confidence, at least
\* the threshold;  skip: ktsu_skip_reason;  note: any other reserved field;
\* skipped: "skipped": true;  required: what the schema requires.
Reserved  == {"fatal", "odd", "high", "skip", "note"}
AllFields == Reserved \cup {"skipped", "required"}

ASSUME OutputPathAssumption ==
  Kinds \subseteq {"agent", "item", "workflow"} /\ Fields \subseteq AllFields

Outputs == SUBSET Fields

VARIABLES
  step,       \* the configuration of the step
  pc,         \* where the output is
  output,     \* the output as it stands
  answer,     \* history: the last output the agent gave
  payload,    \* the status of the callback
  results,    \* the fields of the item in "results" of the fanout
  status,     \* the status of the step record
  downstream  \* the entry of stepOutputs: its fields, and those in its results

vars == <<step, pc, output, answer, payload, results, status, downstream>>

\* threshold: confidence_threshold is set, schema: it requires a field,
\* tolerant: max_failures tolerates the failure of the item.
Config == [kind : Kinds, reflect : BOOLEAN, threshold : BOOLEAN, schema : BOOLEAN,
           tolerant : BOOLEAN]

TypeOK ==
  /\ step \in Config
  /\ pc \in {"draft", "callback", "dispatch", "runner", "done"}
  /\ {output, answer, results, downstream} \subseteq SUBSET Fields
  /\ payload \in {"ok", "skipped", "failed"}
  /\ status \in {"running", "complete", "skipped", "failed"}

Init ==
  /\ step \in Config
  /\ step.kind # "item" => ~step.tolerant
  /\ step.kind = "workflow" => ~step.reflect
  /\ output \in Outputs
  /\ answer = output
  /\ pc = IF step.kind = "workflow" THEN "runner"
          ELSE IF step.reflect THEN "draft" ELSE "callback"
  /\ payload = "ok"
  /\ results = {}
  /\ status = "running"
  /\ downstream = {}

-----------------------------------------------------------------------------

\* Mutant: the fields that fail a step are not looked at.
RefusedByConfidence(o, threshold) == threshold /\ "high" \notin o

\* Mutant: the notes are kept.
CleanButNotes(o) == o \ (Reserved \ {"note"})

\* ProcessReservedFields: the error, the skip reason and the clean output.
Refused(o, threshold) == "fatal" \in o \/ (threshold /\ "high" \notin o)
Skips(o)              == "skip" \in o
Clean(o)              == o \ Reserved

\* airlock.Validate
Valid(o, schema) == o \cap Reserved = {} /\ (schema => "required" \in o)

\* Loop.run: the draft is refused, kept because it is confident enough (which
\* counts only if the schema of the agent declares the field, left open), or
\* replaced by the output of the reflect pass.
Draft ==
  /\ pc = "draft"
  /\ \/ /\ output \cap {"fatal", "odd"} # {}
        /\ pc' = "dispatch" /\ payload' = "failed"
        /\ UNCHANGED <<output, answer>>
     \/ /\ output \cap {"fatal", "odd"} = {}
        /\ pc' = "callback"
        /\ \/ step.threshold /\ "high" \in output /\ UNCHANGED <<output, answer>>
           \/ output' \in Outputs /\ answer' = output'
        /\ UNCHANGED payload
  /\ UNCHANGED <<step, results, status, downstream>>

\* handleStepComplete processes the output without the threshold of the step.
StepComplete ==
  /\ pc = "callback"
  /\ payload' = IF Refused(output, FALSE) THEN "failed"
                ELSE IF Skips(output) THEN "skipped"
                ELSE IF Valid(Clean(output), FALSE) THEN "ok" ELSE "failed"
  /\ output' = IF payload' = "failed" THEN {} ELSE Clean(output)
  /\ pc' = "dispatch"
  /\ UNCHANGED <<step, answer, results, status, downstream>>

\* The output goes on, or the step fails.
Fail == status' = "failed" /\ pc' = "done"

\* Dispatch returns an error for "failed" only, executeFanout the list of the
\* outputs and tolerated failures: a field of its own for each of these.
DispatchReturns ==
  /\ pc = "dispatch"
  /\ IF payload = "failed" /\ ~step.tolerant
       THEN Fail /\ UNCHANGED <<output, results>>
       ELSE /\ pc' = "runner"
            /\ IF step.kind = "item"
                 THEN output' = {} /\ results' = IF payload = "failed" THEN {} ELSE output
                 ELSE UNCHANGED <<output, results>>
            /\ UNCHANGED status
  /\ UNCHANGED <<step, answer, payload, downstream>>

\* Runner.Execute and executeSubWorkflow, after the step was executed: the fields
\* of the output are looked at, those of an item in its results are not.
Record(s, o) == status' = s /\ downstream' = o \cup results /\ pc' = "done"

Judge ==
  /\ pc = "runner"
  /\ \/ /\ "skipped" \in output
        /\ Record("skipped", output)
     \/ /\ "skipped" \notin output
        /\ \/ /\ Refused(output, step.threshold)
              /\ Fail /\ UNCHANGED downstream
           \/ /\ ~Refused(output, step.threshold) /\ Skips(output)
              /\ Record("skipped", Clean(output))
           \/ /\ ~Refused(output, step.threshold) /\ ~Skips(output)
              /\ IF Valid(Clean(output), step.schema)
                   THEN Record("complete", Clean(output))
                   ELSE Fail /\ UNCHANGED downstream
  /\ UNCHANGED <<step, output, answer, payload, results>>

Stored == pc = "done" /\ UNCHANGED vars

Next == Draft \/ StepComplete \/ DispatchReturns \/ Judge \/ Stored

Spec == Init /\ [][Next]_vars

-----------------------------------------------------------------------------

\* A field that fails a step in the last answer of the agent fails the step,
\* whichever way the output went, or the item, which the fanout may tolerate; the
\* output goes nowhere, but for that of a sub-workflow that says "skipped".
FatalNeverPasses ==
  pc = "done" /\ "fatal" \in answer =>
    \/ status = "failed" /\ downstream = {}
    \/ step.kind = "item" /\ step.tolerant /\ downstream = {}
    \/ step.kind = "workflow" /\ "skipped" \in answer

\* What an agent said in a reserved field reaches no other step, neither from a
\* step of its own nor from the results of a fanout, where the runner does not
\* look: handleStepComplete strips it.  Outputs of sub-workflows are not meant,
\* of which a "skipped" one is stored as it is.
NoReservedDownstream ==
  step.kind # "workflow" => downstream \cap Reserved = {}

-----------------------------------------------------------------------------
(* What the documentation says and the code does not do.                   *)

\* The status that the documented processing order gives the last answer of
\* the agent.
Documented(o) ==
  IF "fatal" \in o THEN "failed"
  ELSE IF step.threshold /\ "high" \notin o THEN "failed"
  ELSE IF "skip" \in o THEN "skipped"
  ELSE IF step.schema /\ "required" \notin o THEN "failed"
  ELSE "complete"

\* The step record of an agent shows the documented status.
StatusAsDocumented ==
  pc = "done" /\ step.kind = "agent" /\ answer \cap {"odd", "skipped"} = {} =>
    status = Documented(answer)
=============================================================================
