------------------------------ MODULE AiAnalysis ------------------------------
(***************************************************************************)
(* services/ai-analysis/src/handler.ts and the ai writes of                *)
(* libs/dynamodb/src/incidents.ts, for the messages about ONE incident:    *)
(* every write asks that the incident still have the version that was read.*)
(* These writes do not give it another, and the read is not consistent: it *)
(* may return older ai fields of the version the incident has.             *)
(*                                                                         *)
(* There is no clock: an invocation that is killed, as it is when the      *)
(* timeouts of the provider's attempts add up to more than its own, is a   *)
(* fault, while a provider that fails or times out is none.                *)
(***************************************************************************)
EXTENDS Integers

(* Operators that no other definition uses are the mutants of PROJECT.json. *)

CONSTANTS
  Messages,          \* the messages of the analysis queue (bounds them)
  Updates,           \* those whose changeType is UPDATED; else OPENED or ESCALATED
  MaxVersion,        \* bound on the versions of the incident
  MaxReceives,       \* maxReceiveCount of the queue
  MaxFaults          \* bound on failed calls, lost answers, crashes

ASSUME AnalysisAssumption ==
  /\ Updates \subseteq Messages
  /\ MaxVersion \in Nat /\ MaxReceives \in Nat /\ MaxFaults \in Nat

VARIABLES
  config,            \* the settings the function was deployed with
  incident,          \* the incident's version and its ai fields
  past,              \* what a read of it may still see: all it has been, and no item
  analysis,          \* each message and the locals of its handler
  faults             \* faults so far, at most MaxFaults

vars == <<config, incident, past, analysis, faults>>

Config == [aiEnabled : BOOLEAN, aiReanalyzeOnIncidentUpdate : BOOLEAN]

AiStatus == {"none", "pending", "completed", "failed", "skipped"}
Incident == [version : Nat, aiStatus : AiStatus, aiIncidentVersion : Nat]

\* No incident: a handler has read none yet, or found none.
Undefined == [version |-> 0, aiStatus |-> "none", aiIncidentVersion |-> 0]

Settled == {"deleted", "dlq"}
Handled == {"read", "skip", "setPending", "analyze", "result", "failing", "done"}
Analysis == [pc : {"queued"} \cup Settled \cup Handled, receives : Nat, incident : Incident]

Init ==
  /\ config \in Config
  /\ incident = [version |-> 1, aiStatus |-> "none", aiIncidentVersion |-> 0]
  /\ past = {Undefined, incident}
  /\ analysis = [m \in Messages |-> [pc |-> "queued", receives |-> 0, incident |-> Undefined]]
  /\ faults = 0

At(m, pc) == analysis[m].pc = pc
Goes(m, pc) == analysis' = [analysis EXCEPT ![m].pc = pc]
Fault == faults < MaxFaults /\ faults' = faults + 1

Put(i) == incident' = i /\ past' = past \cup {i}

\* The message is not deleted: it comes again, or has come often enough.
Returned(m) ==
  analysis' = [analysis EXCEPT ![m].incident = Undefined,
                 ![m].pc = IF analysis[m].receives < MaxReceives THEN "queued" ELSE "dlq"]

\* The engine or the API gives the incident its next version.
ChangeIncident ==
  /\ incident.version < MaxVersion
  /\ Put([incident EXCEPT !.version = @ + 1])
  /\ UNCHANGED <<config, analysis, faults>>

Receive(m) ==
  /\ At(m, "queued")
  /\ analysis' = [analysis EXCEPT ![m].pc = "read", ![m].receives = @ + 1]
  /\ UNCHANGED <<config, incident, past, faults>>

-----------------------------------------------------------------------------
shouldAnalyze(m) == m \in Updates => config.aiReanalyzeOnIncidentUpdate

IsOfItsVersion(i) == i.aiIncidentVersion = i.version

AlreadyPending(i) == i.aiStatus = "pending" /\ IsOfItsVersion(i)

NeverCompleted(i) == FALSE

AlreadyCompleted(i) ==
  i.aiStatus = "completed" /\ IsOfItsVersion(i) /\ ~config.aiReanalyzeOnIncidentUpdate

\* What is left to do with the incident that was read; tooFew says that its
\* eventCount is below the minimum.
AfterRead(m, i, tooFew) ==
  IF i = Undefined \/ ~shouldAnalyze(m) \/ AlreadyPending(i) \/ AlreadyCompleted(i) THEN "done"
  ELSE IF ~config.aiEnabled THEN IF i.aiStatus # "completed" THEN "skip" ELSE "done"
  ELSE IF tooFew THEN "skip" ELSE "setPending"

\* getIncidentById reads what the incident is or, lagging, was: without any
\* incident the message is done. A read that fails fails the record.
Read(m) ==
  /\ At(m, "read")
  /\ \/ /\ \E i \in past, tooFew \in BOOLEAN :
             analysis' = [analysis EXCEPT ![m].incident = i, ![m].pc = AfterRead(m, i, tooFew)]
        /\ UNCHANGED faults
     \/ Goes(m, "failing") /\ Fault
  /\ UNCHANGED <<config, incident, past>>

-----------------------------------------------------------------------------
MayWriteAnyway(m) == TRUE

\* ConditionExpression: version = :expected.
MayWrite(m) == incident.version = analysis[m].incident.version

Writes(m, status) ==
  /\ MayWrite(m)
  /\ Put([incident EXCEPT !.aiStatus = status,
                         !.aiIncidentVersion = analysis[m].incident.version])

\* A refused write means that the incident has moved on: the message is done.
\* A failed one, or one whose answer is lost, fails the record.
Write(m, status, pc) ==
  /\ UNCHANGED config
  /\ \/ /\ Writes(m, status)
        /\ (Goes(m, pc) /\ UNCHANGED faults) \/ (Goes(m, "failing") /\ Fault)
     \/ /\ ~MayWrite(m)
        /\ Goes(m, "done")
        /\ UNCHANGED <<incident, past, faults>>
     \/ /\ Goes(m, "failing") /\ Fault
        /\ UNCHANGED <<incident, past>>

Skip(m) == At(m, "skip") /\ Write(m, "skipped", "done")
SetPending(m) == At(m, "setPending") /\ Write(m, "pending", "analyze")
Result(m) == At(m, "result") /\ Write(m, "completed", "done")

\* analyzeWithProvider, with its attempts and their timeouts, returns or throws.
Analyze(m) ==
  /\ At(m, "analyze")
  /\ Goes(m, "result") \/ Goes(m, "failing")
  /\ UNCHANGED <<config, incident, past, faults>>

MarksNothing(m) == UNCHANGED <<incident, past, faults>>

\* The catch: 'failed' is written if the incident was read; a refusal or a
\* failure of that is swallowed.
MarksFailed(m) ==
  \/ Writes(m, "failed") /\ UNCHANGED faults
  \/ ~MayWrite(m) /\ UNCHANGED <<incident, past, faults>>
  \/ analysis[m].incident # Undefined /\ UNCHANGED <<incident, past>> /\ Fault

Fails(m) ==
  /\ At(m, "failing")
  /\ MarksFailed(m)
  /\ Returned(m)
  /\ UNCHANGED config

\* The batch's invocation ends without naming the record as failed.
Delete(m) ==
  /\ At(m, "done")
  /\ analysis' = [analysis EXCEPT ![m].incident = Undefined, ![m].pc = "deleted"]
  /\ UNCHANGED <<config, incident, past, faults>>

\* The batch's invocation dies, and with it the records that were already done.
Dies(m) ==
  /\ analysis[m].pc \in Handled
  /\ Returned(m)
  /\ Fault
  /\ UNCHANGED <<config, incident, past>>

-----------------------------------------------------------------------------
Quiet == \A m \in Messages : analysis[m].pc \in Settled
Terminating == Quiet /\ UNCHANGED vars

Handle(m) ==
  \/ Receive(m) \/ Read(m) \/ Skip(m) \/ SetPending(m) \/ Analyze(m) \/ Result(m)
  \/ Fails(m) \/ Delete(m) \/ Dies(m)

Next == ChangeIncident \/ (\E m \in Messages : Handle(m)) \/ Terminating

Spec == Init /\ [][Next]_vars

-----------------------------------------------------------------------------
TypeOK ==
  /\ config \in Config
  /\ incident \in past /\ past \subseteq Incident
  /\ analysis \in [Messages -> Analysis]
  /\ faults \in 0 .. MaxFaults

\* What is said of the incident is said of its version or of an earlier one,
\* and a handler that was overtaken by a later one, or by a change of the
\* incident, never puts what it has to say in the place of news (incidents.ts
\* 349, 381).
NeverGoesBack ==
  [][/\ incident'.aiIncidentVersion >= incident.aiIncidentVersion
     /\ incident'.aiIncidentVersion <= incident'.version]_incident

\* As long as nothing was killed or lost (docs/async-events.md:98 promises it of
\* every failure, but a handler that is killed marks nothing), an incident that is pending at its
\* present version has a handler that will say how it ended: failures of the
\* provider included (252-268), and whatever other handlers, to which pending is
\* a reason to drop their message (134), do meanwhile.
PendingHasAHandler ==
  faults = 0 /\ AlreadyPending(incident) =>
    \E m \in Messages :
      /\ analysis[m].pc \in {"analyze", "result", "failing"}
      /\ analysis[m].incident.version = incident.version

\* Without reanalysis a completed analysis of the present version is put aside
\* only by a handler that still holds the incident as it was, at that version,
\* when it was not completed: because it was under way already, or because its
\* read lagged (incidents.ts 54, 349). Every redelivery or later request that
\* sees the completion leaves it alone (139-146).
CompletedIsKept ==
  [][incident.aiStatus = "completed" /\ IsOfItsVersion(incident)
     /\ incident'.aiStatus # "completed" =>
       \/ config.aiReanalyzeOnIncidentUpdate
       \/ \E m \in Messages :
            /\ analysis'[m].pc # analysis[m].pc
            /\ analysis[m].incident \in past \ {incident}
            /\ analysis[m].incident.version = incident.version
            /\ analysis[m].incident.aiStatus # "completed"
                 \/ ~IsOfItsVersion(analysis[m].incident)]_incident
=============================================================================
