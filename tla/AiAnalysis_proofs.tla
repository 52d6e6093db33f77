--------------------------- MODULE AiAnalysis_proofs ---------------------------
(***************************************************************************)
(* What the analysis of an incident keeps, for any number of messages,     *)
(* versions, receives and faults.                                          *)
(***************************************************************************)
EXTENDS AiAnalysis, TLAPS

\* The ai fields are never about a version that the incident has yet to reach.
NotAhead == incident.aiIncidentVersion <= incident.version

\* Whoever found the analysis completed, and need not repeat it, is done.
DoneIfCompleted ==
  \A m \in Messages : analysis[m].pc # "done" => ~AlreadyCompleted(analysis[m].incident)

\* What a handler goes by has been so, if no longer.
HeldWasSo == \A m \in Messages : analysis[m].incident \in past

IInv ==
  TypeOK /\ NotAhead /\ PendingHasAHandler /\ DoneIfCompleted
  /\ HeldWasSo /\ Undefined \in past

-----------------------------------------------------------------------------
(* A step of a handler either leaves the incident alone or writes its ai   *)
(* fields; a is what becomes of the handler.                               *)

Answering == {"analyze", "result", "failing"}

Becomes(m, a) ==
  /\ a \in Analysis
  /\ analysis' = [analysis EXCEPT ![m] = a]
  /\ a.pc # "done" => ~AlreadyCompleted(a.incident)
  /\ a.incident \in past
  /\ a.pc # analysis[m].pc
  /\ config' = config
  /\ faults' \in 0 .. MaxFaults /\ faults' >= faults

Leaves(m, a) ==
  /\ Becomes(m, a)
  /\ incident' = incident /\ past' = past
  /\ analysis[m].pc \in Answering /\ MayWrite(m) /\ faults' = 0 =>
       a.pc \in Answering /\ a.incident = analysis[m].incident

Says(m, a, status) ==
  /\ Becomes(m, a)
  /\ analysis[m].pc # "done"
  /\ Writes(m, status)
  /\ status = "pending" => a.pc \in Answering /\ a.incident = analysis[m].incident

Said == AiStatus \ {"none"}

\* Every step of a handler is one or the other.
LEMMA HandleCases ==
  ASSUME NEW m \in Messages, IInv, Handle(m)
  PROVE  \E a \in Analysis : Leaves(m, a) \/ \E status \in Said : Says(m, a, status)
<1> USE AnalysisAssumption DEF Becomes, Leaves, Says, Said, Answering, AiStatus
<1>1. /\ analysis[m] \in Analysis /\ analysis \in [Messages -> Analysis]
      /\ incident \in Incident /\ past \subseteq Incident /\ faults \in 0 .. MaxFaults
      /\ analysis[m].incident \in past
  BY DEF IInv, HeldWasSo, TypeOK
<1>2. /\ Undefined \in Incident /\ Undefined \in past
      /\ ~AlreadyCompleted(Undefined)
  BY DEF IInv, Undefined, Incident, AlreadyCompleted
<1>3. analysis[m].pc # "done" => ~AlreadyCompleted(analysis[m].incident)
  BY DEF IInv, DoneIfCompleted
<1>4. CASE Receive(m)
  <2>1. PICK r \in Nat : r = analysis[m].receives + 1
    BY <1>1 DEF Analysis
  <2> DEFINE a == [analysis[m] EXCEPT !.pc = "read", !.receives = r]
  <2>2. a \in Analysis /\ a.pc = "read" /\ a.incident = analysis[m].incident
    BY <1>1 DEF Analysis, Handled
  <2>3. analysis' = [analysis EXCEPT ![m] = a] /\ analysis[m].pc = "queued"
    BY <1>1, <1>4, <2>1 DEF Receive, At, Analysis
  <2>4. incident' = incident /\ past' = past /\ config' = config /\ faults' = faults
    BY <1>4 DEF Receive
  <2> HIDE DEF a
  <2>5. Becomes(m, a)
    BY <1>1, <1>3, <2>2, <2>3, <2>4
  <2>6. Leaves(m, a)
    BY <2>3, <2>4, <2>5 DEF Leaves
  <2> QED  BY <2>2, <2>6
<1>5. CASE Read(m)
  <2>1. /\ analysis[m].pc = "read" /\ incident' = incident /\ past' = past
        /\ config' = config
    BY <1>5 DEF Read, At
  <2>2. ASSUME NEW i \in past, NEW tooFew \in BOOLEAN,
               analysis' = [analysis EXCEPT ![m].incident = i,
                              ![m].pc = AfterRead(m, i, tooFew)],
               UNCHANGED faults
        PROVE  \E a \in Analysis : Leaves(m, a)
    <3>1. PICK pc \in {"done", "skip", "setPending"} :
            /\ pc = AfterRead(m, i, tooFew)
            /\ pc # "done" => ~AlreadyCompleted(i)
      BY DEF AfterRead
    <3> DEFINE a == [analysis[m] EXCEPT !.incident = i, !.pc = pc]
    <3>2. a \in Analysis /\ a.pc = pc /\ a.incident = i
      BY <1>1 DEF Analysis, Handled
    <3>3. analysis' = [analysis EXCEPT ![m] = a]
      BY <1>1, <2>2, <3>1 DEF Analysis
    <3> HIDE DEF a
    <3>4. Becomes(m, a)
      <4>1. faults' \in 0 .. MaxFaults /\ faults' >= faults
        BY <1>1, <2>2
      <4>2. a.pc # "done" => ~AlreadyCompleted(a.incident)
        BY <3>1, <3>2
      <4>3. a.pc # analysis[m].pc /\ a.incident \in past
        BY <2>1, <3>2
      <4> QED  BY <2>1, <3>2, <3>3, <4>1, <4>2, <4>3
    <3>5. Leaves(m, a)
      BY <2>1, <3>4 DEF Leaves
    <3> QED  BY <3>2, <3>5
  <2>3. CASE Goes(m, "failing") /\ Fault
    <3> DEFINE a == [analysis[m] EXCEPT !.pc = "failing"]
    <3>1. a \in Analysis /\ a.pc = "failing" /\ a.incident = analysis[m].incident
      BY <1>1 DEF Analysis, Handled
    <3>2. analysis' = [analysis EXCEPT ![m] = a]
      BY <1>1, <2>3 DEF Goes, Analysis
    <3>3. Leaves(m, a)
      BY <1>1, <1>3, <2>1, <2>3, <3>1, <3>2 DEF Fault
    <3> QED  BY <3>1, <3>3
  <2> QED  BY <1>5, <2>2, <2>3 DEF Read
<1>6. ASSUME NEW status \in Said, NEW pc \in {"analyze", "done"},
             status = "pending" => pc = "analyze",
             analysis[m].pc \in {"skip", "setPending", "result"}, Write(m, status, pc)
      PROVE  \E a \in Analysis : Leaves(m, a) \/ Says(m, a, status)
  <2> DEFINE a(c) == [analysis[m] EXCEPT !.pc = c]
  <2>1. \A c \in {"analyze", "done", "failing"} :
          a(c) \in Analysis /\ a(c).pc = c /\ a(c).incident = analysis[m].incident
    BY <1>1 DEF Analysis, Handled
  <2>2. \A c : Goes(m, c) => analysis' = [analysis EXCEPT ![m] = a(c)]
    BY <1>1 DEF Goes, Analysis
  <2> HIDE DEF a
  <2>3. CASE /\ Writes(m, status)
             /\ (Goes(m, pc) /\ UNCHANGED faults) \/ (Goes(m, "failing") /\ Fault)
    <3>1. PICK c \in {pc, "failing"} :
            Goes(m, c) /\ faults' \in 0 .. MaxFaults /\ faults' >= faults
      BY <1>1, <2>3 DEF Fault
    <3>2. a(c) \in Analysis /\ a(c).pc = c /\ a(c).incident = analysis[m].incident
      BY <2>1, <3>1
    <3>3. Becomes(m, a(c)) /\ analysis[m].pc # "done"
      BY <1>1, <1>3, <1>6, <2>2, <3>1, <3>2 DEF Write
    <3>4. status = "pending" => a(c).pc \in Answering
      BY <1>6, <3>1, <3>2
    <3> QED  BY <2>3, <3>2, <3>3, <3>4
  <2>4. CASE ~MayWrite(m) /\ Goes(m, "done") /\ UNCHANGED <<incident, past, faults>>
    <3>1. Leaves(m, a("done"))
      BY <1>1, <1>6, <2>1, <2>2, <2>4 DEF Write
    <3> QED  BY <2>1, <3>1
  <2>5. CASE Goes(m, "failing") /\ Fault /\ UNCHANGED <<incident, past>>
    <3>1. Leaves(m, a("failing"))
      BY <1>1, <1>3, <1>6, <2>1, <2>2, <2>5 DEF Write, Fault
    <3> QED  BY <2>1, <3>1
  <2> QED  BY <1>6, <2>3, <2>4, <2>5 DEF Write
<1>7. CASE Skip(m)
  BY <1>6, <1>7 DEF Skip, At
<1>8. CASE SetPending(m)
  BY <1>6, <1>8 DEF SetPending, At
<1>9. CASE Result(m)
  BY <1>6, <1>9 DEF Result, At
<1>10. CASE Analyze(m)
  <2>1. PICK pc \in {"result", "failing"} : Goes(m, pc)
    BY <1>10 DEF Analyze
  <2> DEFINE a == [analysis[m] EXCEPT !.pc = pc]
  <2>2. a \in Analysis /\ a.pc = pc /\ a.incident = analysis[m].incident
    BY <1>1 DEF Analysis, Handled
  <2>3. analysis' = [analysis EXCEPT ![m] = a]
    BY <1>1, <2>1 DEF Goes, Analysis
  <2>4. Leaves(m, a)
    BY <1>1, <1>3, <1>10, <2>2, <2>3 DEF Analyze, At
  <2> QED  BY <2>2, <2>4
<1> DEFINE back == [analysis[m] EXCEPT !.incident = Undefined,
                      !.pc = IF analysis[m].receives < MaxReceives THEN "queued" ELSE "dlq"]
<1>11. /\ back \in Analysis /\ back.incident = Undefined
       /\ back.pc \notin Handled
  BY <1>1, <1>2 DEF Analysis, Settled, Handled
<1>12. Returned(m) => analysis' = [analysis EXCEPT ![m] = back]
  BY <1>1 DEF Returned, Analysis
<1> HIDE DEF back
<1>13. CASE Fails(m)
  <2>1. analysis[m].pc = "failing" /\ analysis' = [analysis EXCEPT ![m] = back]
        /\ config' = config
    BY <1>12, <1>13 DEF Fails, At
  <2>2. CASE Writes(m, "failed") /\ UNCHANGED faults
    <3>1. Says(m, back, "failed")
      BY <1>1, <1>2, <1>11, <2>1, <2>2 DEF Handled
    <3> QED  BY <1>11, <3>1
  <2>3. CASE ~MayWrite(m) /\ UNCHANGED <<incident, past, faults>>
    <3>1. Leaves(m, back)
      BY <1>1, <1>2, <1>11, <2>1, <2>3 DEF Handled
    <3> QED  BY <1>11, <3>1
  <2>4. CASE UNCHANGED <<incident, past>> /\ Fault
    <3>1. Leaves(m, back)
      BY <1>1, <1>2, <1>11, <2>1, <2>4 DEF Handled, Fault
    <3> QED  BY <1>11, <3>1
  <2> QED  BY <1>13, <2>2, <2>3, <2>4 DEF Fails, MarksFailed
<1>14. CASE Delete(m)
  <2> DEFINE a == [analysis[m] EXCEPT !.incident = Undefined, !.pc = "deleted"]
  <2>1. /\ a \in Analysis /\ a.pc = "deleted" /\ a.incident = Undefined
        /\ analysis[m].pc = "done"
    BY <1>1, <1>2, <1>14 DEF Analysis, Settled, Delete, At
  <2>2. analysis' = [analysis EXCEPT ![m] = a]
    BY <1>1, <1>14 DEF Delete, Analysis
  <2>3. incident' = incident /\ past' = past /\ config' = config /\ faults' = faults
    BY <1>14 DEF Delete
  <2> HIDE DEF a
  <2>4. Becomes(m, a)
    BY <1>1, <1>2, <2>1, <2>2, <2>3
  <2>5. Leaves(m, a)
    BY <2>1, <2>3, <2>4
  <2> QED  BY <2>1, <2>5
<1>15. CASE Dies(m)
  <2>1. Leaves(m, back)
    BY <1>1, <1>2, <1>11, <1>12, <1>15 DEF Dies, Fault
  <2> QED  BY <1>11, <2>1
<1> QED
  BY <1>4, <1>5, <1>7, <1>8, <1>9, <1>10, <1>13, <1>14, <1>15 DEF Handle

-----------------------------------------------------------------------------
LEMMA InitIInv == Init => IInv
<1> SUFFICES ASSUME Init PROVE IInv
  OBVIOUS
<1> USE AnalysisAssumption DEF Init
<1>1. incident \in Incident /\ Undefined \in Incident
  BY DEF Incident, AiStatus, Undefined
<1>2. TypeOK
  BY <1>1 DEF TypeOK, Analysis
<1>3. NotAhead /\ PendingHasAHandler
  BY DEF NotAhead, PendingHasAHandler, AlreadyPending
<1>4. DoneIfCompleted
  BY DEF DoneIfCompleted, AlreadyCompleted, Undefined
<1>5. HeldWasSo /\ Undefined \in past
  BY DEF HeldWasSo
<1> QED  BY <1>2, <1>3, <1>4, <1>5 DEF IInv

\* A handler that leaves the incident alone.
LEMMA LeavesIInv ==
  ASSUME IInv, NEW m \in Messages, NEW a \in Analysis, Leaves(m, a)
  PROVE  IInv'
<1> USE AnalysisAssumption DEF IInv, Leaves, Becomes
<1>1. /\ TypeOK /\ incident' = incident /\ past' = past /\ config' = config
      /\ analysis \in [Messages -> Analysis] /\ faults \in 0 .. MaxFaults
      /\ analysis' = [analysis EXCEPT ![m] = a]
  BY DEF TypeOK
<1>2. TypeOK'
  BY <1>1 DEF TypeOK
<1>3. NotAhead'
  BY <1>1 DEF NotAhead
<1>4. PendingHasAHandler'
  <2> SUFFICES ASSUME faults' = 0, AlreadyPending(incident)
               PROVE  \E h \in Messages :
                        /\ analysis'[h].pc \in Answering
                        /\ analysis'[h].incident.version = incident.version
    BY <1>1 DEF PendingHasAHandler, Answering
  <2>1. faults = 0
    BY <1>1
  <2>2. PICK h \in Messages : /\ analysis[h].pc \in Answering
                              /\ analysis[h].incident.version = incident.version
    BY <2>1 DEF PendingHasAHandler, Answering
  <2>3. CASE h = m
    <3>1. a.pc \in Answering /\ a.incident = analysis[m].incident
      BY <2>2, <2>3 DEF MayWrite
    <3> QED  BY <1>1, <2>2, <2>3, <3>1
  <2>4. CASE h # m
    BY <1>1, <2>2, <2>4
  <2> QED  BY <2>3, <2>4
<1>5. DoneIfCompleted'
  BY <1>1 DEF DoneIfCompleted, AlreadyCompleted
<1>6. HeldWasSo' /\ (Undefined \in past)'
  BY <1>1 DEF HeldWasSo
<1> QED  BY <1>2, <1>3, <1>4, <1>5, <1>6

\* A handler that writes: only about the version the incident has.
LEMMA SaysIInv ==
  ASSUME IInv, NEW m \in Messages, NEW a \in Analysis, NEW status \in Said,
         Says(m, a, status)
  PROVE  IInv'
<1> USE AnalysisAssumption DEF IInv, Says, Becomes
<1>1. /\ analysis \in [Messages -> Analysis] /\ faults \in 0 .. MaxFaults
      /\ config \in Config /\ incident \in Incident
      /\ analysis' = [analysis EXCEPT ![m] = a]
  BY DEF TypeOK
<1>2. /\ analysis[m].incident.version = incident.version
      /\ incident.version \in Nat
      /\ incident' = [incident EXCEPT !.aiStatus = status,
                        !.aiIncidentVersion = incident.version]
      /\ past' = past \cup {incident'}
  BY <1>1 DEF Writes, MayWrite, Put, Incident
<1>3. /\ incident' \in Incident
      /\ incident'.version = incident.version
      /\ incident'.aiIncidentVersion = incident.version
      /\ incident'.aiStatus = status
  BY <1>1, <1>2 DEF Incident, Said
<1>4. TypeOK'
  BY <1>1, <1>2, <1>3 DEF TypeOK
<1>5. NotAhead'
  BY <1>2, <1>3 DEF NotAhead
<1>6. PendingHasAHandler'
  <2> SUFFICES ASSUME status = "pending"
               PROVE  /\ analysis'[m].pc \in Answering
                      /\ analysis'[m].incident.version = incident'.version
    BY <1>3 DEF PendingHasAHandler, AlreadyPending, Answering
  <2> QED  BY <1>1, <1>2, <1>3
<1>7. DoneIfCompleted'
  BY <1>1 DEF DoneIfCompleted, AlreadyCompleted
<1>8. HeldWasSo' /\ (Undefined \in past)'
  BY <1>1, <1>2 DEF HeldWasSo
<1> QED  BY <1>4, <1>5, <1>6, <1>7, <1>8

\* A new version is one that nothing has been said of.
LEMMA ChangeIInv ==
  ASSUME IInv, ChangeIncident
  PROVE  IInv'
<1> USE AnalysisAssumption DEF IInv, ChangeIncident, Put
<1>1. /\ incident \in Incident /\ incident.version \in Nat
      /\ incident.aiIncidentVersion \in Nat
      /\ incident' = [incident EXCEPT !.version = incident.version + 1]
      /\ past' = past \cup {incident'}
      /\ analysis' = analysis /\ config' = config /\ faults' = faults
  BY DEF TypeOK, Incident
<1>2. /\ incident' \in Incident
      /\ incident'.version = incident.version + 1
      /\ incident'.aiIncidentVersion = incident.aiIncidentVersion
  BY <1>1 DEF Incident
<1>3. TypeOK'
  BY <1>1, <1>2 DEF TypeOK
<1>4. NotAhead'
  BY <1>1, <1>2 DEF NotAhead
<1>5. PendingHasAHandler'
  <2>1. incident'.aiIncidentVersion # incident'.version
    BY <1>1, <1>2 DEF NotAhead
  <2> QED  BY <2>1 DEF PendingHasAHandler, AlreadyPending, IsOfItsVersion
<1>6. DoneIfCompleted'
  BY <1>1 DEF DoneIfCompleted, AlreadyCompleted
<1>7. HeldWasSo' /\ (Undefined \in past)'
  BY <1>1 DEF HeldWasSo
<1> QED  BY <1>3, <1>4, <1>5, <1>6, <1>7

LEMMA NextIInv == IInv /\ [Next]_vars => IInv'
<1> SUFFICES ASSUME IInv, [Next]_vars PROVE IInv'
  OBVIOUS
<1>1. CASE ChangeIncident
  BY <1>1, ChangeIInv
<1>2. ASSUME NEW m \in Messages, Handle(m)
      PROVE  IInv'
  <2>1. PICK a \in Analysis : Leaves(m, a) \/ \E status \in Said : Says(m, a, status)
    BY <1>2, HandleCases
  <2> QED  BY <2>1, LeavesIInv, SaysIInv
<1>3. CASE UNCHANGED vars
  BY <1>3 DEF vars, IInv, TypeOK, NotAhead, PendingHasAHandler, DoneIfCompleted, HeldWasSo,
              AlreadyCompleted, AlreadyPending, IsOfItsVersion
<1> QED  BY <1>1, <1>2, <1>3 DEF Next, Terminating

LEMMA Invariant == Spec => []IInv
  BY InitIInv, NextIInv, PTL DEF Spec

-----------------------------------------------------------------------------
\* What is said of the incident is never taken back in favour of what was said
\* of an earlier version (the conditions of incidents.ts 349 and 381).
THEOREM NeverGoesBackHolds == Spec => NeverGoesBack
<1>1. IInv /\ [Next]_vars =>
        [/\ incident'.aiIncidentVersion >= incident.aiIncidentVersion
         /\ incident'.aiIncidentVersion <= incident'.version]_incident
  <2> SUFFICES ASSUME IInv, [Next]_vars, incident' # incident
      PROVE  /\ incident'.aiIncidentVersion >= incident.aiIncidentVersion
             /\ incident'.aiIncidentVersion <= incident'.version
    OBVIOUS
  <2>1. incident \in Incident /\ incident' \in Incident /\ NotAhead /\ NotAhead'
    BY NextIInv DEF IInv, TypeOK
  <2>2. CASE ChangeIncident
    BY <2>1, <2>2 DEF ChangeIncident, Put, NotAhead, Incident
  <2>3. ASSUME NEW m \in Messages, Handle(m)
        PROVE  incident'.aiIncidentVersion >= incident.aiIncidentVersion
    <3>1. PICK a \in Analysis : Leaves(m, a) \/ \E status \in Said : Says(m, a, status)
      BY <2>3, HandleCases
    <3>2. PICK status \in Said : Says(m, a, status)
      BY <3>1 DEF Leaves
    <3>3. incident'.aiIncidentVersion = incident.version
      BY <2>1, <3>2 DEF Says, Writes, MayWrite, Put, Incident
    <3> QED  BY <2>1, <3>3 DEF NotAhead, Incident
  <2> QED  BY <2>1, <2>2, <2>3 DEF Next, Terminating, vars, NotAhead
<1> QED  BY <1>1, Invariant, PTL DEF Spec, NeverGoesBack

\* A pending incident has a handler that will say how it ended, unless
\* something was killed or lost (the catch of handler.ts 252).
THEOREM PendingHolds == Spec => []PendingHasAHandler
  BY Invariant, PTL DEF IInv

\* Only a handler that still holds an earlier state of the same version puts a
\* completed analysis of the present version aside (handler.ts 139, incidents.ts
\* 349): the one that sees the completion is done.
THEOREM CompletedHolds == Spec => CompletedIsKept
<1>1. IInv /\ [Next]_vars =>
        [incident.aiStatus = "completed" /\ IsOfItsVersion(incident)
         /\ incident'.aiStatus # "completed" =>
           \/ config.aiReanalyzeOnIncidentUpdate
           \/ \E m \in Messages :
                /\ analysis'[m].pc # analysis[m].pc
                /\ analysis[m].incident \in past \ {incident}
                /\ analysis[m].incident.version = incident.version
                /\ analysis[m].incident.aiStatus # "completed"
                     \/ ~IsOfItsVersion(analysis[m].incident)]_incident
  <2> SUFFICES ASSUME IInv, [Next]_vars, incident' # incident,
                      incident.aiStatus = "completed", IsOfItsVersion(incident),
                      incident'.aiStatus # "completed",
                      ~config.aiReanalyzeOnIncidentUpdate
      PROVE  \E m \in Messages :
               /\ analysis'[m].pc # analysis[m].pc
               /\ analysis[m].incident \in past \ {incident}
               /\ analysis[m].incident.version = incident.version
               /\ analysis[m].incident.aiStatus # "completed"
                    \/ ~IsOfItsVersion(analysis[m].incident)
    OBVIOUS
  <2>1. ~ChangeIncident
    BY DEF ChangeIncident, Put, IInv, TypeOK, Incident
  <2>2. PICK m \in Messages : Handle(m)
    BY <2>1 DEF Next, Terminating, vars
  <2>3. PICK a \in Analysis : Leaves(m, a) \/ \E status \in Said : Says(m, a, status)
    BY <2>2, HandleCases
  <2>4. PICK status \in Said : Says(m, a, status)
    BY <2>3 DEF Leaves
  <2>5. analysis'[m].pc # analysis[m].pc
    BY <2>4 DEF Says, Becomes, IInv, TypeOK
  <2>6. ~AlreadyCompleted(analysis[m].incident)
    BY <2>4 DEF Says, IInv, DoneIfCompleted
  <2>7. analysis[m].incident.aiStatus # "completed" \/ ~IsOfItsVersion(analysis[m].incident)
    BY <2>6 DEF AlreadyCompleted
  <2>8. analysis[m].incident \in past /\ analysis[m].incident # incident
    BY <2>7 DEF IInv, HeldWasSo
  <2>9. analysis[m].incident.version = incident.version
    BY <2>4 DEF Says, Writes, MayWrite
  <2> QED  BY <2>5, <2>7, <2>8, <2>9
<1> QED  BY <1>1, Invariant, PTL DEF Spec, CompletedIsKept
=============================================================================
