------------------------------- MODULE Console -------------------------------
(***************************************************************************)
(* web/src/App.tsx: the detail and the timeline of the dashboard in one    *)
(* browser tab.  JavaScript runs one callback at a time, so a step is a    *)
(* user event, or the continuation of one answered call up to its next     *)
(* await, with the state updates and effects that React runs for it.       *)
(* Calls are answered in any order; nothing cancels or numbers them.       *)
(*                                                                         *)
(* The list may show any incident: it keeps what an earlier filter, or an  *)
(* earlier tenant, was answered until the next answer, so only the calls   *)
(* for it that an action waits for are here.  Messages (error, banner),    *)
(* metrics and the ingest form are left out.                               *)
(***************************************************************************)
EXTENDS IncidentQuery

CONSTANTS
  MaxCalls,           \* bound on the calls under way at once
  MaxShown            \* bound on the events shown when more are asked for

VARIABLES
  tenantId,           \* the part of the connection that names data
  selectedId,
  selectedIncident,   \* the detail
  incidentEvents,     \* the timeline
  eventsNextToken,
  loading,            \* the loading flags that are set
  calls,              \* the calls under way of each kind, in the order they were made
  lastWord            \* where what each panel shows comes from (no code reads it)

shown == <<selectedIncident, incidentEvents, eventsNextToken>>
vars == <<recorded, tenantId, selectedId, shown, loading, calls, lastWord>>

Panels == {"detail", "events"}
Kinds == Panels \cup {"list", "action"}     \* of calls, and of loading flags

\* by: the user's own, or the next step of an action under way.
\* overtaken: a newer call of its kind was made, or its panel was cleared.
Call(kind, tenant, i, token, by) ==
  [kind |-> kind, tenant |-> tenant, id |-> i, token |-> token, by |-> by,
   overtaken |-> FALSE, answer |-> None]

ConsoleInit ==
  /\ tenantId \in Tenants
  /\ selectedId = None
  /\ selectedIncident = None
  /\ incidentEvents = <<>> /\ eventsNextToken = None
  /\ loading = {}
  /\ calls = [k \in Kinds |-> <<>>]
  /\ lastWord = [k \in Panels |-> "none"]

Init == QueryInit /\ ConsoleInit

-----------------------------------------------------------------------------
(* Calls *)

Overtake(cs) == [n \in DOMAIN cs |-> [cs[n] EXCEPT !.overtaken = TRUE]]
WithoutPanels(cs) == [k \in Kinds |-> IF k \in Panels THEN Overtake(cs[k]) ELSE cs[k]]

UnderWay(cs) == MapThenSumSet(LAMBDA k : Len(cs[k]), Kinds)

\* The calls made at once are of different kinds, and each sets the flag of its
\* kind: "action" is that of a post.
Makes(cs, new, flags) ==
  /\ UnderWay(cs) + Cardinality(new) <= MaxCalls
  /\ calls' = [k \in Kinds |->
       IF \E c \in new : c.kind = k
         THEN Append(Overtake(cs[k]), CHOOSE c \in new : c.kind = k) ELSE cs[k]]
  /\ loading' = flags \cup {c.kind : c \in new}

loadSelection(tenant, i) ==
  {Call("detail", tenant, i, None, "user"), Call("events", tenant, i, None, "user")}

\* What a render that still has the selection loads before it is dropped.
loadDropped(tenant) ==
  IF selectedId = None THEN {}
  ELSE {[c EXCEPT !.overtaken = TRUE] : c \in loadSelection(tenant, selectedId)}

-----------------------------------------------------------------------------
(* The user *)

SelectKeepsTimeline(i) ==
  /\ i # selectedId
  /\ selectedId' = i
  /\ Makes(calls, loadSelection(tenantId, i), loading)
  /\ lastWord' = [lastWord EXCEPT !["events"] = "none"]
  /\ UNCHANGED <<recorded, tenantId, shown>>

\* The detail of the incident selected before stays until the answer.
Select(i) ==
  /\ i # selectedId
  /\ selectedId' = i
  /\ incidentEvents' = <<>> /\ eventsNextToken' = None
  /\ Makes(calls, loadSelection(tenantId, i), loading)
  /\ lastWord' = [lastWord EXCEPT !["events"] = "none"]
  /\ UNCHANGED <<recorded, tenantId, selectedIncident>>

\* A new token or base URL: everything is loaded again.
Reconnect ==
  /\ incidentEvents' = <<>> /\ eventsNextToken' = None
  /\ IF selectedId = None
       THEN /\ selectedIncident' = None
            /\ Makes(WithoutPanels(calls), {}, loading)
            /\ lastWord' = [lastWord EXCEPT !["events"] = "none", !["detail"] = "none"]
       ELSE /\ Makes(calls, loadSelection(tenantId, selectedId), loading)
            /\ lastWord' = [lastWord EXCEPT !["events"] = "none"]
            /\ UNCHANGED selectedIncident
  /\ UNCHANGED <<recorded, tenantId, selectedId>>

\* The selection is dropped, but only after the effects of the render that
\* still had it: they load it once more, for the new tenant.
ChangeTenantKeepsSelection(t) ==
  /\ t # tenantId
  /\ tenantId' = t
  /\ incidentEvents' = <<>> /\ eventsNextToken' = None
  /\ Makes(WithoutPanels(calls), loadDropped(t), loading)
  /\ lastWord' = [lastWord EXCEPT !["events"] = "none", !["detail"] = "none"]
  /\ selectedId' = None
  /\ UNCHANGED <<recorded, selectedIncident>>

ChangeTenant(t) ==
  /\ t # tenantId
  /\ tenantId' = t
  /\ selectedId' = None /\ selectedIncident' = None
  /\ incidentEvents' = <<>> /\ eventsNextToken' = None
  /\ Makes(WithoutPanels(calls), loadDropped(t), loading)
  /\ lastWord' = [lastWord EXCEPT !["events"] = "none", !["detail"] = "none"]
  /\ UNCHANGED recorded

RefreshDetail ==
  /\ selectedId # None /\ "detail" \notin loading
  /\ Makes(calls, loadSelection(tenantId, selectedId), loading)
  /\ UNCHANGED <<recorded, tenantId, selectedId, shown, lastWord>>

\* The token is the timeline's, the incident the detail's.
LoadMore ==
  /\ eventsNextToken # None /\ selectedIncident # None /\ "events" \notin loading
  /\ Len(incidentEvents) <= MaxShown
  /\ Makes(calls, {Call("events", tenantId, selectedIncident.id, eventsNextToken, "user")},
           loading)
  /\ UNCHANGED <<recorded, tenantId, selectedId, shown, lastWord>>

\* handleAck and handleResolve: Resolve is disabled for a resolved incident,
\* Ack for an acknowledged one, too.
Act ==
  /\ selectedIncident # None /\ "action" \notin loading
  /\ selectedIncident.status # "RESOLVED"
  /\ Makes(calls, {Call("action", tenantId, selectedIncident.id, None, "action")}, loading)
  /\ UNCHANGED <<recorded, tenantId, selectedId, shown, lastWord>>

-----------------------------------------------------------------------------
(* The API *)

\* A timeline's answer is of the moment it is served; the others may be any at
\* any time, and are chosen when they come.
Answers(c) ==
  {Failed} \cup
  CASE c.kind = "list"   -> {[ok |-> TRUE]}
    [] c.kind = "detail" -> getIncident(c.tenant, c.id)
    [] c.kind = "events" -> listIncidentEvents(c.tenant, c.id, c.token)
    [] c.kind = "action" -> changeStatus(c.tenant, c.id)

Serve(n) ==
  /\ calls["events"][n].answer = None
  /\ \E a \in Answers(calls["events"][n]) : calls' = [calls EXCEPT !["events"][n].answer = a]
  /\ UNCHANGED <<recorded, tenantId, selectedId, shown, loading, lastWord>>

Arrive ==
  /\ \E i \in Incidents : \E t \in Times[i] : recordIncidentEvent(i, t)
  /\ UNCHANGED <<tenantId, selectedId, shown, loading, calls, lastWord>>

-----------------------------------------------------------------------------
(* Answers *)

\* After a post that was accepted an action loads the list, then the detail,
\* then the timeline of the incident it was for, whether these fail or not.
FollowUp(c, a) ==
  IF c.by = "user" \/ (c.kind = "action" /\ ~a.ok) \/ c.kind = "events" THEN {}
  ELSE {Call(CASE c.kind = "action" -> "list" [] c.kind = "list" -> "detail"
                [] c.kind = "detail" -> "events",
              c.tenant, c.id, None, "action")}

ClearedOnSuccess(c, a) ==
  IF ~a.ok THEN {}
  ELSE (IF c.kind = "action" THEN {} ELSE {c.kind})
       \cup (IF c.by = "action" /\ FollowUp(c, a) = {} THEN {"action"} ELSE {})

\* The flags that the end of a call clears: its own, and that of its action.
Cleared(c, a) ==
  (IF c.kind = "action" THEN {} ELSE {c.kind})
  \cup (IF c.by = "action" /\ FollowUp(c, a) = {} THEN {"action"} ELSE {})

Shows(c, a) ==
  /\ selectedIncident' = IF c.kind = "detail" THEN a.incident ELSE selectedIncident
  /\ IF c.kind = "events"
       THEN /\ incidentEvents' = (IF c.token = None THEN <<>> ELSE incidentEvents) \o a.items
            /\ eventsNextToken' = a.nextToken
       ELSE UNCHANGED <<incidentEvents, eventsNextToken>>

\* A page that is appended does not change whose the timeline is.
Heard(c, a) ==
  IF c.overtaken THEN IF a.ok THEN "overtaken" ELSE lastWord[c.kind]
  ELSE IF ~a.ok THEN IF lastWord[c.kind] = "overtaken" THEN "overtaken" ELSE "other"
  ELSE IF c.token # None THEN lastWord[c.kind]
  ELSE IF c.by = "user" THEN "user" ELSE "other"

Deliver(k, n) ==
  LET c == calls[k][n] IN
  \E a \in IF k = "events" THEN {c.answer} \ {None} ELSE Answers(c) :
    /\ IF a.ok THEN Shows(c, a) ELSE UNCHANGED shown
    /\ Makes([calls EXCEPT ![k] = RemoveAt(@, n)], FollowUp(c, a), loading \ Cleared(c, a))
    /\ lastWord' = IF k \in Panels THEN [lastWord EXCEPT ![k] = Heard(c, a)] ELSE lastWord
    /\ UNCHANGED <<recorded, tenantId, selectedId>>

-----------------------------------------------------------------------------
User ==
  \/ Reconnect \/ RefreshDetail \/ LoadMore \/ Act
  \/ \E i \in Incidents : Select(i)
  \/ \E t \in Tenants : ChangeTenant(t)

Next ==
  \/ User \/ Arrive
  \/ \E n \in DOMAIN calls["events"] : Serve(n)
  \/ \E k \in Kinds : \E n \in DOMAIN calls[k] : Deliver(k, n)

Spec == Init /\ [][Next]_vars

-----------------------------------------------------------------------------
(* Properties *)

\* Once the answers are in the detail is the selected incident (App.tsx 146-160,
\* 200-215), unless the last word was that of a call overtaken by a newer one, of
\* a failed one, or of an action on an incident selected before (226-228):
\* nothing else can put them apart.
DetailIsTheSelected ==
  calls["detail"] = <<>> =>
    /\ lastWord["detail"] = "user" =>
         selectedId # None /\ selectedIncident # None /\ selectedIncident.id = selectedId
    /\ lastWord["detail"] = "none" => selectedIncident = None

\* Unless an overtaken call had its say, the timeline is of ONE incident, newest
\* first and no event twice, its token names its last event, and when it was
\* the user who asked it is the selected incident's -- whatever arrives while
\* it is paged through, and whatever time it carries (App.tsx 162-176, 601).
TimelineIsInOrder ==
  lastWord["events"] # "overtaken" =>
    /\ \A m, n \in DOMAIN incidentEvents :
         /\ incidentEvents[m].id = incidentEvents[n].id
         /\ m < n => incidentEvents[m].time > incidentEvents[n].time
    /\ eventsNextToken # None =>
         incidentEvents # <<>> /\ eventsNextToken = Last(incidentEvents)
    /\ lastWord["events"] = "user" =>
         \A n \in DOMAIN incidentEvents : incidentEvents[n].id = selectedId

\* No spinner stays and no button stays disabled, whatever fails and whatever
\* overlaps: a flag is set only while a call is under way that will clear it,
\* its own or the one its action waits for (App.tsx 142, 156, 172, 232, 251).
FlagsWillBeCleared ==
  \A flag \in loading :
    IF flag = "action" THEN \E k \in Kinds : \E n \in DOMAIN calls[k] : calls[k][n].by = "action"
    ELSE calls[flag] # <<>>
=============================================================================
