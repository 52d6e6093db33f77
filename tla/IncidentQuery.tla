---------------------------- MODULE IncidentQuery ----------------------------
(***************************************************************************)
(* The reading routes of services/incident-api/src/handler.ts and the      *)
(* queries behind them (incidents.ts, incident-events.ts): what each may   *)
(* answer at the moment it is served.  How incidents change is the matter  *)
(* of IncidentCore; here an incident may have any status by then.          *)
(***************************************************************************)
EXTENDS SequencesExt

CONSTANTS
  Incidents,     \* the incidents of all tenants
  Tenants,
  TenantOf,      \* the tenant of each incident
  Before,        \* the times of the events recorded so far, by incident
  Times,         \* the times its further events may carry (bounds the timelines)
  PageSize,      \* pageSize of a timeline page
  Statuses,      \* the statuses an incident is read with
  None           \* null, in every nullable field

ASSUME QueryAssumption ==
  /\ TenantOf \in [Incidents -> Tenants]
  /\ Before \in [Incidents -> SUBSET Nat]
  /\ Times \in [Incidents -> SUBSET Nat]
  /\ PageSize \in Nat \ {0}
  /\ Statuses \subseteq {"OPEN", "ACKED", "RESOLVED"}
  /\ None \notin Incidents \cup [id : Incidents, status : Statuses]

VARIABLE
  recorded       \* the times of the events in each incident's timeline

Own(tenant) == {i \in Incidents : TenantOf[i] = tenant}

QueryInit == recorded = Before

\* Producers set the times of their events: a later one need not be newer.
recordIncidentEvent(i, time) ==
  /\ time \in Times[i] \ recorded[i]
  /\ recorded' = [recorded EXCEPT ![i] = @ \cup {time}]

-----------------------------------------------------------------------------
(* An answer is a value of its route, or Failed: 403, 404, 409 or 5xx, or no *)
(* answer at all.  The authorizer and the ownership of the caller refuse     *)
(* some requests for the caller's own tenant; for others', the key the       *)
(* tenant is part of finds nothing.                                          *)

Failed == [ok |-> FALSE]

getIncident(tenant, i) ==
  {[ok |-> TRUE, incident |-> [id |-> i, status |-> s]] :
     s \in IF i \in Own(tenant) THEN Statuses ELSE {}}

Newer(e, f) == e.time > f.time

\* A page has the newest first, and leaves out only what is older than they are,
\* and only when it is full.
Pages(events) ==
  {page \in BoundedSeq(events, PageSize) :
     /\ \A m, n \in DOMAIN page : m < n => Newer(page[m], page[n])
     /\ \A e \in events \ Range(page) :
          Len(page) = PageSize /\ \A n \in DOMAIN page : Newer(page[n], e)}

\* A page starts after the item its token names, which must be one of the
\* queried partition; a full page has a token whether or not more follows.
listIncidentEvents(tenant, i, token) ==
  LET times == IF i \in Own(tenant) THEN recorded[i] ELSE {}
      rest == {t \in times : token = None \/ t < token.time}
  IN  IF token # None /\ (token.id # i \/ i \notin Own(tenant)) THEN {}
      ELSE {[ok |-> TRUE, items |-> page,
             nextToken |-> IF Len(page) = PageSize THEN Last(page) ELSE None] :
              page \in Pages({[id |-> i, time |-> t] : t \in rest})}

\* POST ack and resolve (IncidentApi.tla): done, or refused.
changeStatus(tenant, i) == IF i \in Own(tenant) THEN {[ok |-> TRUE]} ELSE {}
=============================================================================
