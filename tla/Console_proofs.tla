---------------------------- MODULE Console_proofs ----------------------------
(***************************************************************************)
(* What the panels of the dashboard show, with any incidents, timelines    *)
(* and calls, answered in any order: three invariants, each inductive with *)
(* the types and with the answers that wait for their turn.                *)
(***************************************************************************)
EXTENDS Console, SequenceTheorems, TLAPS

Event == [id : Incidents, time : Nat]
Tokens == Event \cup {None}
Incident == [id : Incidents, status : Statuses]
Page == [ok : {TRUE}, items : Seq(Event), nextToken : Tokens]
CallType ==
  [kind : Kinds, tenant : Tenants, id : Incidents, token : Tokens,
   by : {"user", "action"}, overtaken : BOOLEAN, answer : {None, Failed} \cup Page]

\* The calls of each kind under way: only the last of them may be the newest made,
\* and only a timeline is asked for from a token.
CallsOK(cs) ==
  /\ cs \in [Kinds -> Seq(CallType)]
  /\ \A k \in Kinds : \A n \in 1 .. Len(cs[k]) :
       /\ cs[k][n].kind = k
       /\ k # "events" => cs[k][n].token = None
       /\ cs[k][n].overtaken \/ n = Len(cs[k])

Typed ==
  /\ recorded \in [Incidents -> SUBSET Nat]
  /\ tenantId \in Tenants /\ selectedId \in Incidents \cup {None}
  /\ selectedIncident \in Incident \cup {None}
  /\ incidentEvents \in Seq(Event) /\ eventsNextToken \in Tokens
  /\ loading \subseteq Kinds
  /\ lastWord \in [Panels -> {"none", "user", "other", "overtaken"}]
  /\ CallsOK(calls)

In(cs, k) == {cs[k][n] : n \in 1 .. Len(cs[k])}
Old(c) == [c EXCEPT !.overtaken = TRUE]

-----------------------------------------------------------------------------
LEMMA OldIs ==
  ASSUME NEW c \in CallType
  PROVE  /\ Old(c) \in CallType /\ Old(c).overtaken
         /\ Old(c).kind = c.kind /\ Old(c).id = c.id /\ Old(c).token = c.token
         /\ Old(c).by = c.by /\ Old(c).answer = c.answer /\ Old(c).tenant = c.tenant
BY DEF Old, CallType

LEMMA InIs ==
  ASSUME NEW cs, CallsOK(cs), NEW k \in Kinds
  PROVE  /\ cs[k] \in Seq(CallType) /\ In(cs, k) \subseteq CallType
         /\ \A c \in In(cs, k) : c.kind = k /\ (k # "events" => c.token = None)
         /\ cs[k] = <<>> <=> In(cs, k) = {}
<1>1. cs[k] \in Seq(CallType)
  BY DEF CallsOK
<1>2. \A n \in 1 .. Len(cs[k]) : cs[k][n] \in CallType
  BY <1>1
<1>3. cs[k] = <<>> <=> In(cs, k) = {}
  <2>1. CASE cs[k] = <<>>
    BY <2>1 DEF In
  <2>2. CASE cs[k] # <<>>
    <3>1. Len(cs[k]) \in Nat /\ Len(cs[k]) # 0
      BY <1>1, <2>2, EmptySeq
    <3>2. 1 \in 1 .. Len(cs[k])
      BY <3>1
    <3> QED  BY <2>2, <3>2 DEF In
  <2> QED  BY <2>1, <2>2
<1> QED  BY <1>1, <1>2, <1>3 DEF In, CallsOK

LEMMA OvertakeIs ==
  ASSUME NEW s \in Seq(CallType)
  PROVE  /\ Overtake(s) \in Seq(CallType) /\ Len(Overtake(s)) = Len(s)
         /\ \A n \in 1 .. Len(s) : Overtake(s)[n] = Old(s[n])
<1>1. DOMAIN s = 1 .. Len(s) /\ Len(s) \in Nat /\ \A n \in 1 .. Len(s) : s[n] \in CallType
  OBVIOUS
<1>2. Overtake(s) = [n \in 1 .. Len(s) |-> Old(s[n])]
  BY <1>1 DEF Overtake, Old
<1>3. \A n \in 1 .. Len(s) : Old(s[n]) \in CallType
  BY <1>1, OldIs
<1> HIDE DEF Old
<1> QED  BY <1>1, <1>2, <1>3, IsASeq

\* Calls without panels are all overtaken.
LEMMA WithoutPanelsIs ==
  ASSUME CallsOK(calls)
  PROVE  /\ CallsOK(WithoutPanels(calls))
         /\ \A k \in Panels : In(WithoutPanels(calls), k) = {Old(c) : c \in In(calls, k)}
         /\ \A k \in Kinds \ Panels : In(WithoutPanels(calls), k) = In(calls, k)
<1> DEFINE cs == WithoutPanels(calls)
<1>1. /\ \A k \in Panels : k \in Kinds /\ cs[k] = Overtake(calls[k])
      /\ \A k \in Kinds \ Panels : cs[k] = calls[k]
      /\ cs = [k \in Kinds |-> cs[k]]
  BY DEF WithoutPanels, Kinds
<1> HIDE DEF cs
<1>2. ASSUME NEW k \in Kinds
      PROVE  /\ cs[k] \in Seq(CallType)
             /\ Len(cs[k]) = Len(calls[k])
             /\ \A n \in 1 .. Len(calls[k]) :
                  cs[k][n] = IF k \in Panels THEN Old(calls[k][n]) ELSE calls[k][n]
             /\ \A n \in 1 .. Len(calls[k]) : calls[k][n] \in CallType
  <2>1. calls[k] \in Seq(CallType)
    BY DEF CallsOK
  <2>2. \A n \in 1 .. Len(calls[k]) : calls[k][n] \in CallType
    BY <2>1
  <2>3. CASE k \in Panels
    <3>1. cs[k] = Overtake(calls[k])
      BY <1>1, <2>3
    <3> QED  BY <2>1, <2>2, <2>3, <3>1, OvertakeIs
  <2>4. CASE k \notin Panels
    <3>1. cs[k] = calls[k]
      BY <1>1, <2>4
    <3> QED  BY <2>1, <2>2, <2>4, <3>1
  <2> QED  BY <2>3, <2>4
<1>3. CallsOK(cs)
  <2>1. cs \in [Kinds -> Seq(CallType)]
    BY <1>1, <1>2
  <2> SUFFICES ASSUME NEW k \in Kinds, NEW n \in 1 .. Len(cs[k])
      PROVE  /\ cs[k][n].kind = k
             /\ k # "events" => cs[k][n].token = None
             /\ cs[k][n].overtaken \/ n = Len(cs[k])
    BY <2>1 DEF CallsOK
  <2>2. /\ calls[k][n] \in CallType /\ calls[k][n].kind = k
        /\ k # "events" => calls[k][n].token = None
        /\ calls[k][n].overtaken \/ n = Len(calls[k])
    BY <1>2 DEF CallsOK
  <2> QED  BY <1>2, <2>2, OldIs
<1>4. ASSUME NEW k \in Panels PROVE In(cs, k) = {Old(c) : c \in In(calls, k)}
  BY <1>1, <1>2 DEF In
<1>5. ASSUME NEW k \in Kinds \ Panels PROVE In(cs, k) = In(calls, k)
  BY <1>1 DEF In
<1> QED  BY <1>3, <1>4, <1>5 DEF cs

\* What may be asked for.
New(S) == S \subseteq CallType /\ \A c \in S : c.kind # "events" => c.token = None

\* A new call overtakes those of its kind.
LEMMA MakesIs ==
  ASSUME NEW cs, CallsOK(cs), NEW new, New(new), NEW flags, Makes(cs, new, flags)
  PROVE  /\ CallsOK(calls') /\ loading' = flags \cup {c.kind : c \in new}
         /\ \A k \in Kinds :
              \/ \E c \in new : /\ c.kind = k
                                /\ In(calls', k) = {Old(d) : d \in In(cs, k)} \cup {c}
              \/ /\ \A c \in new : c.kind # k
                 /\ In(calls', k) = In(cs, k)
<1>1. /\ calls' = [k \in Kinds |->
            IF \E c \in new : c.kind = k
              THEN Append(Overtake(cs[k]), CHOOSE c \in new : c.kind = k) ELSE cs[k]]
      /\ loading' = flags \cup {c.kind : c \in new}
  BY DEF Makes
<1>2. ASSUME NEW k \in Kinds
      PROVE  \/ \E c \in new : c.kind = k /\ calls'[k] = Append(Overtake(cs[k]), c)
             \/ (\A c \in new : c.kind # k) /\ calls'[k] = cs[k]
  <2>1. CASE \E c \in new : c.kind = k
    <3>1. calls'[k] = Append(Overtake(cs[k]), CHOOSE c \in new : c.kind = k)
      BY <1>1, <2>1
    <3> DEFINE d == CHOOSE c \in new : c.kind = k
    <3>2. d \in new /\ d.kind = k
      BY <2>1
    <3> QED  BY <3>1, <3>2
  <2>2. CASE \A c \in new : c.kind # k
    BY <1>1, <2>2
  <2> QED  BY <2>1, <2>2
<1>3. ASSUME NEW k \in Kinds
      PROVE  cs[k] \in Seq(CallType) /\ Len(cs[k]) \in Nat
  BY DEF CallsOK
<1>4. ASSUME NEW k \in Kinds, NEW c \in new, calls'[k] = Append(Overtake(cs[k]), c)
      PROVE  /\ calls'[k] \in Seq(CallType) /\ Len(calls'[k]) = Len(cs[k]) + 1
             /\ calls'[k][Len(calls'[k])] = c
             /\ \A n \in 1 .. Len(cs[k]) : calls'[k][n] = Old(cs[k][n])
  <2>1. c \in CallType
    BY DEF New
  <2> DEFINE s == Overtake(cs[k])
  <2>2. s \in Seq(CallType) /\ Len(s) = Len(cs[k])
        /\ \A n \in 1 .. Len(cs[k]) : s[n] = Old(cs[k][n])
    BY <1>3, OvertakeIs
  <2> HIDE DEF s
  <2>3. calls'[k] = Append(s, c)
    BY <1>4 DEF s
  <2> QED  BY <1>3, <2>1, <2>2, <2>3, AppendProperties
<1>5. CallsOK(calls')
  <2>1. \A k \in Kinds : calls'[k] \in Seq(CallType)
    BY <1>2, <1>3, <1>4
  <2>2. calls' \in [Kinds -> Seq(CallType)]
    BY <1>1, <2>1
  <2> SUFFICES ASSUME NEW k \in Kinds, NEW n \in 1 .. Len(calls'[k])
      PROVE  /\ calls'[k][n].kind = k
             /\ k # "events" => calls'[k][n].token = None
             /\ calls'[k][n].overtaken \/ n = Len(calls'[k])
    BY <2>2 DEF CallsOK
  <2>3. CASE calls'[k] = cs[k]
    BY <2>3 DEF CallsOK
  <2>4. ASSUME NEW c \in new, c.kind = k, calls'[k] = Append(Overtake(cs[k]), c)
        PROVE  /\ calls'[k][n].kind = k
               /\ k # "events" => calls'[k][n].token = None
               /\ calls'[k][n].overtaken \/ n = Len(calls'[k])
    <3>1. n = Len(calls'[k]) \/ n \in 1 .. Len(cs[k])
      BY <1>3, <1>4, <2>4
    <3>2. CASE n = Len(calls'[k])
      BY <1>4, <2>4, <3>2 DEF New
    <3>3. CASE n \in 1 .. Len(cs[k])
      <4>1. calls'[k][n] = Old(cs[k][n])
        BY <1>4, <2>4, <3>3
      <4>2. cs[k][n] \in CallType
        BY <1>3, <3>3
      <4>3. cs[k][n].kind = k /\ (k # "events" => cs[k][n].token = None)
        BY <3>3 DEF CallsOK
      <4> QED  BY <4>1, <4>2, <4>3, OldIs
    <3> QED  BY <3>1, <3>2, <3>3
  <2> QED  BY <1>2, <2>3, <2>4
<1>6. ASSUME NEW k \in Kinds, NEW c \in new, calls'[k] = Append(Overtake(cs[k]), c)
      PROVE  In(calls', k) = {Old(d) : d \in In(cs, k)} \cup {c}
  <2>1. \A n : n \in 1 .. Len(calls'[k]) <=> n \in 1 .. Len(cs[k]) \/ n = Len(calls'[k])
    BY <1>3, <1>4, <1>6
  <2> QED  BY <1>4, <1>6, <2>1 DEF In
<1>7. ASSUME NEW k \in Kinds, calls'[k] = cs[k] PROVE In(calls', k) = In(cs, k)
  BY <1>7 DEF In
<1> QED  BY <1>1, <1>2, <1>5, <1>6, <1>7

LEMMA RemoveAtIs ==
  ASSUME NEW S, NEW s \in Seq(S), NEW n \in 1 .. Len(s)
  PROVE  /\ RemoveAt(s, n) \in Seq(S) /\ Len(RemoveAt(s, n)) = Len(s) - 1
         /\ \A m \in 1 .. Len(s) - 1 : RemoveAt(s, n)[m] = s[IF m < n THEN m ELSE m + 1]
<1> DEFINE a == SubSeq(s, 1, n - 1)
           b == SubSeq(s, n + 1, Len(s))
<1>1. Len(s) \in Nat /\ n \in Nat /\ \A m \in 1 .. Len(s) : s[m] \in S
  OBVIOUS
<1>2. /\ a \in Seq(S) /\ Len(a) = n - 1 /\ \A m \in 1 .. n - 1 : a[m] = s[m]
  <2>1. \A m \in 1 .. n - 1 : s[m] \in S
    BY <1>1
  <2>2. /\ a \in Seq(S) /\ Len(a) = IF 1 <= n - 1 THEN n - 1 - 1 + 1 ELSE 0
        /\ \A m \in 1 .. n - 1 - 1 + 1 : a[m] = s[1 + m - 1]
    BY <1>1, <2>1, SubSeqProperties
  <2> HIDE DEF a
  <2>3. ASSUME NEW m \in 1 .. n - 1 PROVE a[m] = s[m]
    <3>1. m \in 1 .. n - 1 - 1 + 1 /\ 1 + m - 1 = m
      BY <1>1
    <3>2. a[m] = s[1 + m - 1]
      BY <2>2, <3>1
    <3> QED  BY <3>1, <3>2
  <2>4. Len(a) = n - 1
    BY <1>1, <2>2
  <2> QED  BY <2>2, <2>3, <2>4
<1>3. /\ b \in Seq(S) /\ Len(b) = Len(s) - n /\ \A m \in 1 .. Len(s) - n : b[m] = s[n + m]
  <2>1. \A m \in n + 1 .. Len(s) : s[m] \in S
    BY <1>1
  <2>2. /\ b \in Seq(S) /\ Len(b) = IF n + 1 <= Len(s) THEN Len(s) - (n + 1) + 1 ELSE 0
        /\ \A m \in 1 .. Len(s) - (n + 1) + 1 : b[m] = s[(n + 1) + m - 1]
    BY <1>1, <2>1, SubSeqProperties
  <2> HIDE DEF b
  <2> QED  BY <1>1, <2>2
<1>4. RemoveAt(s, n) = a \o b
  BY DEF RemoveAt
<1> HIDE DEF a, b
<1>5. /\ a \o b \in Seq(S) /\ Len(a \o b) = Len(a) + Len(b)
      /\ \A i \in 1 .. Len(a) + Len(b) :
           (a \o b)[i] = IF i <= Len(a) THEN a[i] ELSE b[i - Len(a)]
  BY <1>2, <1>3, ConcatProperties
<1>6. ASSUME NEW m \in 1 .. Len(s) - 1
      PROVE  (a \o b)[m] = s[IF m < n THEN m ELSE m + 1]
  <2>1. ASSUME m < n PROVE (a \o b)[m] = s[m]
    BY <1>1, <1>2, <1>3, <1>5, <2>1
  <2>2. ASSUME ~(m < n) PROVE (a \o b)[m] = s[m + 1]
    <3>1. (a \o b)[m] = b[m - (n - 1)]
      BY <1>1, <1>2, <1>3, <1>5, <2>2
    <3>2. b[m - (n - 1)] = s[n + (m - (n - 1))]
      BY <1>1, <1>3, <2>2
    <3>3. n + (m - (n - 1)) = m + 1
      BY <1>1
    <3> QED  BY <3>1, <3>2, <3>3
  <2> QED  BY <2>1, <2>2
<1> QED  BY <1>1, <1>2, <1>3, <1>4, <1>5, <1>6

\* A call that is answered is not under way any more: the others are.
LEMMA RemovedIs ==
  ASSUME CallsOK(calls), NEW k \in Kinds, NEW n \in 1 .. Len(calls[k]),
         NEW cs \in [Kinds -> Seq(CallType)], cs[k] = RemoveAt(calls[k], n),
         \A j \in Kinds \ {k} : cs[j] = calls[j]
  PROVE  /\ CallsOK(cs)
         /\ In(cs, k) \subseteq In(calls, k)
         /\ In(calls, k) \subseteq In(cs, k) \cup {calls[k][n]}
         /\ \A j \in Kinds \ {k} : In(cs, j) = In(calls, j)
         /\ calls[k][n].overtaken \/ \A c \in In(cs, k) : c.overtaken
<1> DEFINE s == calls[k]
<1>1. /\ calls \in [Kinds -> Seq(CallType)] /\ s \in Seq(CallType) /\ Len(s) \in Nat
      /\ cs[k] = RemoveAt(s, n) /\ \A j \in Kinds \ {k} : cs[j] = calls[j]
  BY DEF CallsOK
<1>2. /\ cs[k] \in Seq(CallType) /\ Len(cs[k]) = Len(s) - 1
      /\ \A m \in 1 .. Len(s) - 1 : cs[k][m] = s[IF m < n THEN m ELSE m + 1]
  BY <1>1, RemoveAtIs
<1>3. \A m \in 1 .. Len(s) :
        /\ s[m].kind = k /\ (k # "events" => s[m].token = None)
        /\ s[m].overtaken \/ m = Len(s)
  BY DEF CallsOK
<1>4. CallsOK(cs)
  <2>1. cs \in [Kinds -> Seq(CallType)]
    BY <1>1, <1>2
  <2> SUFFICES ASSUME NEW j \in Kinds, NEW m \in 1 .. Len(cs[j])
      PROVE  /\ cs[j][m].kind = j
             /\ j # "events" => cs[j][m].token = None
             /\ cs[j][m].overtaken \/ m = Len(cs[j])
    BY <2>1 DEF CallsOK
  <2>2. CASE j # k
    BY <1>1, <2>2 DEF CallsOK
  <2>3. CASE j = k
    <3> DEFINE l == IF m < n THEN m ELSE m + 1
    <3>1. l \in 1 .. Len(s) /\ cs[k][m] = s[l] /\ (l = Len(s) => m = Len(s) - 1)
      BY <1>1, <1>2, <2>3
    <3> QED  BY <1>2, <1>3, <2>3, <3>1
  <2> QED  BY <2>2, <2>3
<1>5. ASSUME NEW m \in 1 .. Len(s) - 1 PROVE cs[k][m] \in In(calls, k)
  <2>1. (IF m < n THEN m ELSE m + 1) \in 1 .. Len(s)
    BY <1>1
  <2> QED  BY <1>2, <2>1 DEF In
<1>6. In(cs, k) \subseteq In(calls, k)
  BY <1>2, <1>5 DEF In
<1>7. ASSUME NEW m \in 1 .. Len(s), m # n PROVE s[m] \in In(cs, k)
  <2> DEFINE l == IF m < n THEN m ELSE m - 1
  <2>1. l \in 1 .. Len(s) - 1 /\ (IF l < n THEN l ELSE l + 1) = m
    BY <1>1, <1>7
  <2> QED  BY <1>2, <2>1 DEF In
<1>8. In(calls, k) \subseteq In(cs, k) \cup {calls[k][n]}
  BY <1>7 DEF In
<1>9. \A j \in Kinds \ {k} : In(cs, j) = In(calls, j)
  BY <1>1 DEF In
<1>10. ASSUME ~s[n].overtaken, NEW m \in 1 .. Len(s) - 1 PROVE cs[k][m].overtaken
  <2>1. n = Len(s)
    BY <1>3, <1>10
  <2> QED  BY <1>1, <1>2, <1>3, <2>1
<1> QED  BY <1>2, <1>4, <1>6, <1>8, <1>9, <1>10 DEF In

-----------------------------------------------------------------------------
(* What is asked for *)

LEMMA CallIs ==
  ASSUME NEW k \in Kinds, NEW tenant \in Tenants, NEW i \in Incidents, NEW token \in Tokens,
         NEW by \in {"user", "action"}
  PROVE  /\ Call(k, tenant, i, token, by) \in CallType
         /\ Call(k, tenant, i, token, by).kind = k /\ Call(k, tenant, i, token, by).id = i
         /\ Call(k, tenant, i, token, by).token = token /\ Call(k, tenant, i, token, by).by = by
         /\ ~Call(k, tenant, i, token, by).overtaken
         /\ Call(k, tenant, i, token, by).answer = None
BY DEF Call, CallType

LEMMA SelectionIs ==
  ASSUME NEW tenant \in Tenants, NEW i \in Incidents, NEW S, S = loadSelection(tenant, i)
  PROVE  /\ New(S) /\ \A k \in Panels : \E c \in S : c.kind = k
         /\ \A c \in S : /\ c.kind \in Panels /\ c.id = i /\ c.token = None /\ c.by = "user"
                         /\ ~c.overtaken /\ c.answer = None
<1>1. None \in Tokens /\ "detail" \in Kinds /\ "events" \in Kinds
  BY DEF Tokens, Kinds, Panels
<1> QED  BY <1>1, CallIs DEF loadSelection, New, Panels

LEMMA DroppedIs ==
  ASSUME Typed, NEW tenant \in Tenants, NEW S, S = loadDropped(tenant)
  PROVE  New(S) /\ \A c \in S : c.overtaken /\ c.answer = None /\ c.kind \in Panels
<1>1. CASE selectedId = None
  BY <1>1 DEF loadDropped, New
<1>2. CASE selectedId # None
  <2> DEFINE T == loadSelection(tenant, selectedId)
  <2>1. /\ New(T) /\ \A c \in T : c.kind \in Panels /\ c.answer = None
    BY <1>2, SelectionIs DEF Typed
  <2>2. S = {Old(c) : c \in T}
    BY <1>2 DEF loadDropped, Old
  <2> HIDE DEF T
  <2> QED  BY <2>1, <2>2, OldIs DEF New
<1> QED  BY <1>1, <1>2

LEMMA FollowUpIs ==
  ASSUME NEW c \in CallType, NEW a, NEW S, S = FollowUp(c, a)
  PROVE  /\ New(S) /\ \A d \in S : /\ c.by = "action" /\ d.by = "action" /\ d.kind # c.kind
                                   /\ d.token = None /\ ~d.overtaken /\ d.answer = None
                                   /\ c.kind # "events" /\ d.kind \in {"list", "detail", "events"}
<1>1. CASE S = {}
  BY <1>1 DEF New
<1>2. CASE S # {}
  <2> DEFINE k == CASE c.kind = "action" -> "list" [] c.kind = "list" -> "detail"
                    [] c.kind = "detail" -> "events"
  <2>1. S = {Call(k, c.tenant, c.id, None, "action")} /\ c.by # "user" /\ c.kind # "events"
    BY <1>2 DEF FollowUp
  <2>2. /\ c.kind \in {"action", "list", "detail"} /\ c.by = "action"
        /\ c.tenant \in Tenants /\ c.id \in Incidents
    BY <2>1 DEF CallType, Kinds, Panels
  <2>3. k \in {"list", "detail", "events"} /\ k # c.kind
    BY <2>2
  <2> HIDE DEF k
  <2>4. k \in Kinds /\ None \in Tokens
    BY <2>3 DEF Kinds, Panels, Tokens
  <2>5. /\ Call(k, c.tenant, c.id, None, "action") \in CallType
        /\ Call(k, c.tenant, c.id, None, "action").kind = k
        /\ Call(k, c.tenant, c.id, None, "action").token = None
        /\ Call(k, c.tenant, c.id, None, "action").by = "action"
        /\ ~Call(k, c.tenant, c.id, None, "action").overtaken
        /\ Call(k, c.tenant, c.id, None, "action").answer = None
    BY <2>2, <2>4, CallIs
  <2> QED  BY <2>1, <2>2, <2>3, <2>5 DEF New
<1> QED  BY <1>1, <1>2

-----------------------------------------------------------------------------
(* What is answered *)

\* An answer to a call for a timeline: a page of it, from the token on.
IsPage(c, a) ==
  /\ \A m \in 1 .. Len(a.items) :
       /\ a.items[m].id = c.id
       /\ c.token # None => a.items[m].time < c.token.time /\ c.token.id = c.id
       /\ \A n \in 1 .. Len(a.items) : m < n => a.items[m].time > a.items[n].time
  /\ a.nextToken # None => a.items # <<>> /\ a.nextToken = Last(a.items)

LEMMA PageIs ==
  ASSUME Typed, NEW c \in CallType, NEW a \in listIncidentEvents(c.tenant, c.id, c.token)
  PROVE  a \in Page /\ IsPage(c, a)
<1>1. c.id \in Incidents /\ c.token \in Tokens /\ recorded[c.id] \subseteq Nat
  BY DEF CallType, Typed
<1> DEFINE times == IF c.id \in Own(c.tenant) THEN recorded[c.id] ELSE {}
           rest == {t \in times : c.token = None \/ t < c.token.time}
           events == {[id |-> c.id, time |-> t] : t \in rest}
<1>2. /\ events \subseteq Event
      /\ \A e \in events : e.id = c.id /\ (c.token # None => e.time < c.token.time)
  BY <1>1 DEF Event
<1>3. /\ c.token # None => c.token.id = c.id
      /\ a \in {[ok |-> TRUE, items |-> page,
                 nextToken |-> IF Len(page) = PageSize THEN Last(page) ELSE None] :
                  page \in Pages(events)}
  BY DEF listIncidentEvents
<1> HIDE DEF events
<1>4. PICK page \in Pages(events) :
        a = [ok |-> TRUE, items |-> page,
             nextToken |-> IF Len(page) = PageSize THEN Last(page) ELSE None]
  BY <1>3
<1>5. /\ PageSize \in Nat \ {0} /\ page \in BoundedSeq(events, PageSize)
      /\ \A m, n \in DOMAIN page : m < n => page[m].time > page[n].time
  BY <1>4, QueryAssumption DEF Pages, Newer
<1>6. PICK l \in 0 .. PageSize : page \in [1 .. l -> events]
  BY <1>5 DEF BoundedSeq, SeqOf
<1>7. /\ page \in Seq(events) /\ Len(page) = l /\ l \in Nat /\ DOMAIN page = 1 .. Len(page)
      /\ \A m \in 1 .. Len(page) : page[m] \in events
  BY <1>5, <1>6
<1>8. page \in Seq(Event)
  BY <1>2, <1>7
<1>9. a.nextToken # None => page # <<>> /\ a.nextToken = Last(page)
  <2>1. a.nextToken # None => Len(page) = PageSize /\ a.nextToken = Last(page)
    BY <1>4
  <2>2. Len(page) = PageSize => page # <<>>
    BY <1>5, EmptySeq
  <2> QED  BY <2>1, <2>2
<1>10. a.nextToken \in Tokens
  <2>1. Len(page) = PageSize => Last(page) \in Event
    BY <1>2, <1>5, <1>7 DEF Last
  <2> QED  BY <1>4, <2>1 DEF Tokens
<1>11. a.ok = TRUE /\ a.items = page
  BY <1>4
<1>12. a \in Page
  BY <1>4, <1>8, <1>10 DEF Page
<1>13. \A m \in 1 .. Len(page) :
         page[m].id = c.id /\ (c.token # None => page[m].time < c.token.time)
  BY <1>2, <1>7
<1> QED  BY <1>3, <1>5, <1>7, <1>9, <1>11, <1>12, <1>13 DEF IsPage

\* What an answer to c may be when it is delivered.
IsAnswer(c, a) ==
  /\ a = Failed \/ a.ok = TRUE
  /\ a # Failed /\ c.kind = "detail" => a.incident \in Incident /\ a.incident.id = c.id
  /\ a # Failed /\ c.kind = "events" => a \in Page /\ IsPage(c, a)

LEMMA AnswerIs ==
  ASSUME Typed, NEW c \in CallType, NEW a \in Answers(c)
  PROVE  IsAnswer(c, a)
<1>1. CASE a = Failed
  BY <1>1 DEF IsAnswer
<1>2. CASE a # Failed /\ c.kind = "list"
  <2>1. a \in {[ok |-> TRUE]}
    BY <1>2 DEF Answers
  <2> QED  BY <1>2, <2>1 DEF IsAnswer
<1>3. CASE a # Failed /\ c.kind = "detail"
  <2>1. a \in getIncident(c.tenant, c.id) /\ c.id \in Incidents
    BY <1>3 DEF Answers, CallType
  <2>2. PICK s \in Statuses : a = [ok |-> TRUE, incident |-> [id |-> c.id, status |-> s]]
    BY <2>1 DEF getIncident
  <2> QED  BY <1>3, <2>1, <2>2 DEF IsAnswer, Incident
<1>4. CASE a # Failed /\ c.kind = "events"
  <2>1. a \in listIncidentEvents(c.tenant, c.id, c.token)
    BY <1>4 DEF Answers
  <2>2. a \in Page /\ IsPage(c, a)
    BY <2>1, PageIs
  <2> QED  BY <1>4, <2>2 DEF IsAnswer, Page
<1>5. CASE a # Failed /\ c.kind = "action"
  <2>1. a \in changeStatus(c.tenant, c.id)
    BY <1>5 DEF Answers
  <2> QED  BY <1>5, <2>1 DEF IsAnswer, changeStatus
<1> QED  BY <1>1, <1>2, <1>3, <1>4, <1>5 DEF CallType, Kinds, Panels

\* An answer waits for its turn.
Served ==
  \A c \in In(calls, "events") : c.answer # None => IsAnswer(c, c.answer)

Basic == Typed /\ Served

\* A call that is answered stays what it was.
Like(c, d) ==
  /\ c.kind = d.kind /\ c.tenant = d.tenant /\ c.id = d.id /\ c.token = d.token
  /\ c.by = d.by /\ c.overtaken = d.overtaken

LEMMA LikeAnswer ==
  ASSUME NEW c, NEW d, Like(c, d), NEW a, IsAnswer(c, a)
  PROVE  IsAnswer(d, a)
BY DEF Like, IsAnswer, IsPage

LEMMA ServeIs ==
  ASSUME Typed, NEW n \in DOMAIN calls["events"], Serve(n)
  PROVE  /\ CallsOK(calls')
         /\ \A k \in Kinds \ {"events"} : In(calls', k) = In(calls, k)
         /\ \A d \in In(calls', "events") : \E c \in In(calls, "events") :
              Like(c, d) /\ (d.answer = c.answer \/ IsAnswer(d, d.answer))
         /\ \A c \in In(calls, "events") : \E d \in In(calls', "events") : Like(c, d)
<1> DEFINE s == calls["events"]
           c == s[n]
<1>1. /\ "events" \in Kinds /\ calls \in [Kinds -> Seq(CallType)] /\ s \in Seq(CallType)
      /\ DOMAIN s = 1 .. Len(s)
  BY DEF Typed, CallsOK, Kinds, Panels
<1>2. c \in CallType /\ c.kind = "events"
  BY <1>1 DEF Typed, CallsOK
<1>3. PICK a \in Answers(c) : calls' = [calls EXCEPT !["events"][n].answer = a]
  BY DEF Serve
<1> DEFINE d == [c EXCEPT !.answer = a]
           t == [s EXCEPT ![n] = d]
<1>4. IsAnswer(c, a)
  BY <1>2, AnswerIs DEF Typed
<1>5. a \in {None, Failed} \cup Page
  BY <1>2, <1>4 DEF IsAnswer
<1>6. d \in CallType /\ Like(c, d) /\ d.answer = a
  BY <1>2, <1>5 DEF CallType, Like
<1>7. calls' = [calls EXCEPT !["events"] = t]
  BY <1>3
<1> HIDE DEF d
<1>8. IsAnswer(d, d.answer)
  BY <1>4, <1>6, LikeAnswer
<1>9. /\ t \in Seq(CallType) /\ Len(t) = Len(s) /\ t[n] = d
      /\ \A m \in 1 .. Len(s) : m # n => t[m] = s[m]
  BY <1>1, <1>6, ExceptSeq
<1> HIDE DEF t
<1>10. calls'["events"] = t /\ \A k \in Kinds \ {"events"} : calls'[k] = calls[k]
  BY <1>1, <1>7
<1>11. CallsOK(calls')
  <2>1. calls' \in [Kinds -> Seq(CallType)]
    BY <1>1, <1>7, <1>9
  <2>2. \A m \in 1 .. Len(s) : Like(s[m], t[m])
    BY <1>6, <1>9 DEF Like
  <2>3. \A m \in 1 .. Len(s) : s[m].kind = "events" /\ (s[m].overtaken \/ m = Len(s))
    BY <1>1 DEF Typed, CallsOK
  <2>4. \A m \in 1 .. Len(t) : t[m].kind = "events" /\ (t[m].overtaken \/ m = Len(t))
    BY <1>9, <2>2, <2>3 DEF Like
  <2> SUFFICES ASSUME NEW k \in Kinds, NEW m \in 1 .. Len(calls'[k])
      PROVE  /\ calls'[k][m].kind = k
             /\ k # "events" => calls'[k][m].token = None
             /\ calls'[k][m].overtaken \/ m = Len(calls'[k])
    BY <2>1 DEF CallsOK
  <2>5. CASE k = "events"
    BY <1>10, <2>4, <2>5
  <2>6. CASE k # "events"
    BY <1>10, <2>6 DEF Typed, CallsOK
  <2> QED  BY <2>5, <2>6
<1>12. \A k \in Kinds \ {"events"} : In(calls', k) = In(calls, k)
  BY <1>10 DEF In
<1>13. ASSUME NEW m \in 1 .. Len(t)
       PROVE  \E e \in In(calls, "events") :
                Like(e, t[m]) /\ (t[m].answer = e.answer \/ IsAnswer(t[m], t[m].answer))
  <2>1. s[m] \in In(calls, "events")
    BY <1>9 DEF In
  <2>2. CASE m = n
    BY <1>6, <1>8, <1>9, <2>1, <2>2
  <2>3. CASE m # n
    BY <1>9, <2>1, <2>3 DEF Like
  <2> QED  BY <2>2, <2>3
<1>14. ASSUME NEW m \in 1 .. Len(s)
       PROVE  \E e \in In(calls', "events") : Like(s[m], e)
  <2>1. t[m] \in In(calls', "events")
    BY <1>9, <1>10 DEF In
  <2>2. Like(s[m], t[m])
    BY <1>6, <1>9 DEF Like
  <2> QED  BY <2>1, <2>2
<1> QED  BY <1>10, <1>11, <1>12, <1>13, <1>14 DEF In

LEMMA OldAnswer ==
  ASSUME NEW c \in CallType, NEW a, IsAnswer(c, a)
  PROVE  IsAnswer(Old(c), a)
<1>1. Old(c).kind = c.kind /\ Old(c).id = c.id /\ Old(c).token = c.token
  BY OldIs
<1> HIDE DEF Old
<1> QED  BY <1>1 DEF IsAnswer, IsPage

ServedIn(cs) == \A c \in In(cs, "events") : c.answer # None => IsAnswer(c, c.answer)

\* The calls after new ones are made: these, and older ones, of which those of a
\* kind that is asked for again are overtaken.
LEMMA MadeIs ==
  ASSUME NEW cs, CallsOK(cs), NEW new, New(new), NEW flags, Makes(cs, new, flags),
         NEW k \in Kinds
  PROVE  /\ In(calls', k) \subseteq CallType
         /\ \A d \in In(calls', k) :
              \/ d \in new /\ d.kind = k
              \/ d \in In(cs, k) /\ \A c \in new : c.kind # k
              \/ \E c \in In(cs, k) : d = Old(c)
         /\ \A c \in In(cs, k) : c \in In(calls', k) \/ Old(c) \in In(calls', k)
         /\ \A c \in new : c.kind = k => \E d \in new : d.kind = k /\ d \in In(calls', k)
<1>1. /\ CallsOK(calls')
      /\ \/ \E c \in new : /\ c.kind = k
                           /\ In(calls', k) = {Old(d) : d \in In(cs, k)} \cup {c}
         \/ /\ \A c \in new : c.kind # k
            /\ In(calls', k) = In(cs, k)
  BY MakesIs
<1>2. In(cs, k) \subseteq CallType
  BY InIs
<1>3. In(calls', k) \subseteq CallType
  <2>1. CASE \E c \in new : c.kind = k /\ In(calls', k) = {Old(d) : d \in In(cs, k)} \cup {c}
    BY <1>2, <2>1, OldIs DEF New
  <2>2. CASE In(calls', k) = In(cs, k)
    BY <1>2, <2>2
  <2> QED  BY <1>1, <2>1, <2>2
<1> HIDE DEF Old, In
<1> QED  BY <1>1, <1>3

LEMMA ServedMade ==
  ASSUME NEW cs, CallsOK(cs), ServedIn(cs), NEW new, New(new), \A c \in new : c.answer = None,
         NEW flags, Makes(cs, new, flags)
  PROVE  Served'
<1> SUFFICES ASSUME NEW d \in In(calls', "events"), d.answer # None
    PROVE  IsAnswer(d, d.answer)
  BY DEF Served
<1>1. "events" \in Kinds
  BY DEF Kinds, Panels
<1>2. \/ d \in new
      \/ d \in In(cs, "events")
      \/ \E c \in In(cs, "events") : d = Old(c)
  BY <1>1, MadeIs
<1>3. In(cs, "events") \subseteq CallType
  BY <1>1, InIs
<1>4. CASE \E c \in In(cs, "events") : d = Old(c)
  <2>1. PICK c \in In(cs, "events") : d = Old(c)
    BY <1>4
  <2>2. c \in CallType /\ d.answer = c.answer
    BY <1>3, <2>1, OldIs
  <2> QED  BY <2>1, <2>2, OldAnswer DEF ServedIn
<1> QED  BY <1>2, <1>4 DEF ServedIn

LEMMA WithoutPanelsServed ==
  ASSUME CallsOK(calls), Served
  PROVE  ServedIn(WithoutPanels(calls))
<1> SUFFICES ASSUME NEW d \in In(WithoutPanels(calls), "events"), d.answer # None
    PROVE  IsAnswer(d, d.answer)
  BY DEF ServedIn
<1>1. "events" \in Panels /\ "events" \in Kinds
  BY DEF Kinds, Panels
<1>2. PICK c \in In(calls, "events") : d = Old(c)
  BY <1>1, WithoutPanelsIs
<1>3. c \in CallType
  BY <1>1, InIs
<1> QED  BY <1>2, <1>3, OldIs, OldAnswer DEF Served

\* A call c is answered with a, and the calls cs are left.
Answered(k, c, a, cs) ==
  /\ c \in CallType /\ c.kind = k /\ (k # "events" => c.token = None)
  /\ c \in In(calls, k)
  /\ IsAnswer(c, a) /\ (IF a.ok THEN a.ok = TRUE /\ a # Failed ELSE a = Failed)
  /\ CallsOK(cs)
  /\ In(cs, k) \subseteq In(calls, k) /\ In(calls, k) \subseteq In(cs, k) \cup {c}
  /\ \A j \in Kinds \ {k} : In(cs, j) = In(calls, j)
  /\ c.overtaken \/ \A d \in In(cs, k) : d.overtaken
  /\ Makes(cs, FollowUp(c, a), loading \ Cleared(c, a))
  /\ lastWord' = IF k \in Panels THEN [lastWord EXCEPT ![k] = Heard(c, a)] ELSE lastWord
  /\ IF a.ok THEN Shows(c, a) ELSE UNCHANGED shown
  /\ UNCHANGED <<recorded, tenantId, selectedId>>

LEMMA DeliverIs ==
  ASSUME Basic, NEW k \in Kinds, NEW n \in DOMAIN calls[k], Deliver(k, n)
  PROVE  \E c, a, cs : Answered(k, c, a, cs)
<1> DEFINE c == calls[k][n]
           cs == [calls EXCEPT ![k] = RemoveAt(@, n)]
<1>1. CallsOK(calls) /\ calls[k] \in Seq(CallType) /\ n \in 1 .. Len(calls[k])
  <2>1. CallsOK(calls)
    BY DEF Basic, Typed
  <2>2. calls[k] \in Seq(CallType)
    BY <2>1 DEF CallsOK
  <2>3. DOMAIN calls[k] = 1 .. Len(calls[k])
    BY <2>2
  <2> QED  BY <2>1, <2>2, <2>3
<1>2. /\ c \in CallType /\ c.kind = k /\ (k # "events" => c.token = None)
      /\ c \in In(calls, k)
  BY <1>1 DEF CallsOK, In
<1>3. PICK a \in IF k = "events" THEN {c.answer} \ {None} ELSE Answers(c) :
        /\ IF a.ok THEN Shows(c, a) ELSE UNCHANGED shown
        /\ Makes(cs, FollowUp(c, a), loading \ Cleared(c, a))
        /\ lastWord' = IF k \in Panels THEN [lastWord EXCEPT ![k] = Heard(c, a)] ELSE lastWord
        /\ UNCHANGED <<recorded, tenantId, selectedId>>
  BY DEF Deliver
<1>4. IsAnswer(c, a)
  <2>1. CASE k = "events"
    BY <1>2, <1>3, <2>1 DEF Basic, Served
  <2>2. CASE k # "events"
    BY <1>2, <1>3, <2>2, AnswerIs DEF Basic
  <2> QED  BY <2>1, <2>2
<1>5. IF a.ok THEN a.ok = TRUE /\ a # Failed ELSE a = Failed
  BY <1>4 DEF IsAnswer, Failed
<1>6. PICK l : l = [calls EXCEPT ![k] = RemoveAt(@, n)]
  OBVIOUS
<1>7. /\ CallsOK(l)
      /\ In(l, k) \subseteq In(calls, k)
      /\ In(calls, k) \subseteq In(l, k) \cup {calls[k][n]}
      /\ \A j \in Kinds \ {k} : In(l, j) = In(calls, j)
      /\ calls[k][n].overtaken \/ \A d \in In(l, k) : d.overtaken
  <2>1. RemoveAt(calls[k], n) \in Seq(CallType)
    BY <1>1, RemoveAtIs
  <2>2. /\ l \in [Kinds -> Seq(CallType)] /\ l[k] = RemoveAt(calls[k], n)
        /\ \A j \in Kinds \ {k} : l[j] = calls[j]
    <3>1. calls \in [Kinds -> Seq(CallType)]
      BY <1>1 DEF CallsOK
    <3> HIDE DEF c, cs
    <3> QED  BY <2>1, <1>6, <3>1
  <2> HIDE DEF c, cs
  <2> QED  BY <1>1, <2>2, RemovedIs
<1>8. Makes(l, FollowUp(c, a), loading \ Cleared(c, a))
  BY <1>3, <1>6
<1>9. Answered(k, c, a, l)
  <2> HIDE DEF cs, In, CallsOK
  <2> QED  BY <1>2, <1>3, <1>4, <1>5, <1>7, <1>8 DEF Answered
<1> QED  BY <1>9

LEMMA Kinded == Panels \subseteq Kinds /\ "action" \in Kinds /\ "list" \in Kinds
                /\ "detail" \in Panels /\ "events" \in Panels
BY DEF Panels, Kinds

LEMMA InitBasic ==
  ASSUME Init
  PROVE  Basic
<1>1. /\ recorded \in [Incidents -> SUBSET Nat] /\ tenantId \in Tenants
      /\ selectedId = None /\ selectedIncident = None
      /\ incidentEvents = <<>> /\ eventsNextToken = None /\ loading = {}
      /\ calls = [k \in Kinds |-> <<>>] /\ lastWord = [k \in Panels |-> "none"]
  BY QueryAssumption DEF Init, QueryInit, ConsoleInit
<1>2. \A k \in Kinds : calls[k] = <<>> /\ Len(calls[k]) = 0
  BY <1>1
<1>3. CallsOK(calls)
  BY <1>1, <1>2 DEF CallsOK
<1>4. Served
  <2>1. In(calls, "events") = {}
    BY <1>2, Kinded DEF In
  <2> QED  BY <2>1 DEF Served
<1>5. incidentEvents \in Seq(Event) /\ eventsNextToken \in Tokens
  BY <1>1 DEF Tokens
<1>6. lastWord \in [Panels -> {"none", "user", "other", "overtaken"}]
  BY <1>1
<1> QED  BY <1>1, <1>3, <1>4, <1>5, <1>6 DEF Basic, Typed

\* What the user does asks for new answers, from calls that may lose their panels.
Asks(cs, new) ==
  /\ CallsOK(cs) /\ ServedIn(cs)
  /\ New(new) /\ \A c \in new : c.answer = None
  /\ Makes(cs, new, loading)

LEMMA UserAsks ==
  ASSUME Basic
  PROVE  /\ \A i \in Incidents : Select(i) => Asks(calls, loadSelection(tenantId, i))
         /\ Reconnect => IF selectedId = None THEN Asks(WithoutPanels(calls), {})
                         ELSE Asks(calls, loadSelection(tenantId, selectedId))
         /\ \A t \in Tenants : ChangeTenant(t) => Asks(WithoutPanels(calls), loadDropped(t))
         /\ RefreshDetail => Asks(calls, loadSelection(tenantId, selectedId))
         /\ LoadMore => Asks(calls, {Call("events", tenantId, selectedIncident.id,
                                          eventsNextToken, "user")})
         /\ Act => Asks(calls, {Call("action", tenantId, selectedIncident.id, None, "action")})
<1>1. CallsOK(calls) /\ ServedIn(calls)
  BY DEF Basic, Typed, Served, ServedIn
<1>2. CallsOK(WithoutPanels(calls)) /\ ServedIn(WithoutPanels(calls))
  BY <1>1, WithoutPanelsIs, WithoutPanelsServed DEF Basic
<1>3. tenantId \in Tenants /\ (selectedId # None => selectedId \in Incidents)
  BY DEF Basic, Typed
<1>4. ASSUME NEW i \in Incidents
      PROVE  /\ New(loadSelection(tenantId, i))
             /\ \A c \in loadSelection(tenantId, i) : c.answer = None
  BY <1>3, SelectionIs
<1>5. ASSUME NEW t \in Tenants
      PROVE  New(loadDropped(t)) /\ \A c \in loadDropped(t) : c.answer = None
  BY DroppedIs DEF Basic
<1>6. New({})
  BY DEF New
<1>7. ASSUME LoadMore
      PROVE  /\ New({Call("events", tenantId, selectedIncident.id, eventsNextToken, "user")})
             /\ Call("events", tenantId, selectedIncident.id, eventsNextToken, "user").answer = None
  <2>1. selectedIncident.id \in Incidents /\ eventsNextToken \in Tokens
    BY <1>7 DEF LoadMore, Basic, Typed, Incident
  <2> QED  BY <1>3, <2>1, CallIs, Kinded DEF New
<1>8. ASSUME Act
      PROVE  /\ New({Call("action", tenantId, selectedIncident.id, None, "action")})
             /\ Call("action", tenantId, selectedIncident.id, None, "action").answer = None
  <2>1. selectedIncident.id \in Incidents /\ None \in Tokens
    BY <1>8 DEF Act, Basic, Typed, Incident, Tokens
  <2> QED  BY <1>3, <2>1, CallIs, Kinded DEF New
<1>9. \A i \in Incidents : Select(i) => Asks(calls, loadSelection(tenantId, i))
  BY <1>1, <1>4 DEF Select, Asks
<1>10. Reconnect => IF selectedId = None THEN Asks(WithoutPanels(calls), {})
                    ELSE Asks(calls, loadSelection(tenantId, selectedId))
  BY <1>1, <1>2, <1>3, <1>4, <1>6 DEF Reconnect, Asks
<1>11. \A t \in Tenants : ChangeTenant(t) => Asks(WithoutPanels(calls), loadDropped(t))
  BY <1>2, <1>5 DEF ChangeTenant, Asks
<1>12. RefreshDetail => Asks(calls, loadSelection(tenantId, selectedId))
  BY <1>1, <1>3, <1>4 DEF RefreshDetail, Asks
<1>13. LoadMore => Asks(calls, {Call("events", tenantId, selectedIncident.id,
                                     eventsNextToken, "user")})
  BY <1>1, <1>7 DEF LoadMore, Asks
<1>14. Act => Asks(calls, {Call("action", tenantId, selectedIncident.id, None, "action")})
  BY <1>1, <1>8 DEF Act, Asks
<1> QED  BY <1>9, <1>10, <1>11, <1>12, <1>13, <1>14

LEMMA AsksBasic ==
  ASSUME Typed, NEW cs, NEW new, Asks(cs, new)
  PROVE  CallsOK(calls') /\ Served' /\ loading' = loading \cup {c.kind : c \in new}
         /\ loading' \subseteq Kinds
<1>1. CallsOK(calls') /\ loading' = loading \cup {c.kind : c \in new}
  BY MakesIs DEF Asks
<1>2. Served'
  BY ServedMade DEF Asks
<1>3. \A c \in new : c.kind \in Kinds
  BY DEF Asks, New, CallType
<1> QED  BY <1>1, <1>2, <1>3 DEF Typed

LEMMA HeardIs ==
  ASSUME Typed, NEW c, c.kind \in Panels, NEW a
  PROVE  Heard(c, a) \in {"none", "user", "other", "overtaken"}
BY DEF Heard, Typed

LEMMA AnsweredBasic ==
  ASSUME Basic, NEW k \in Kinds, NEW c, NEW a, NEW cs, Answered(k, c, a, cs)
  PROVE  Basic'
<1>1. /\ CallsOK(cs) /\ c \in CallType /\ c.kind = k /\ IsAnswer(c, a)
      /\ Makes(cs, FollowUp(c, a), loading \ Cleared(c, a))
      /\ IF a.ok THEN a.ok = TRUE /\ a # Failed ELSE a = Failed
      /\ IF a.ok THEN Shows(c, a) ELSE UNCHANGED shown
      /\ UNCHANGED <<recorded, tenantId, selectedId>>
      /\ lastWord' = IF k \in Panels THEN [lastWord EXCEPT ![k] = Heard(c, a)] ELSE lastWord
  BY DEF Answered
<1>2. PICK S : S = FollowUp(c, a)
  OBVIOUS
<1>3. New(S) /\ \A d \in S : d.answer = None
  BY <1>1, <1>2, FollowUpIs
<1>4. ServedIn(cs)
  <2>1. In(cs, "events") \subseteq In(calls, "events")
    BY Kinded DEF Answered
  <2> QED  BY <2>1 DEF ServedIn, Basic, Served
<1>5. PICK flags : flags = loading \ Cleared(c, a)
  OBVIOUS
<1>6. Makes(cs, S, flags)
  BY <1>1, <1>2, <1>5
<1>7. CallsOK(calls') /\ Served' /\ loading' = flags \cup {d.kind : d \in S}
  BY <1>1, <1>3, <1>4, <1>6, MakesIs, ServedMade
<1>8. loading' \subseteq Kinds
  <2>1. \A d \in S : d.kind \in Kinds
    BY <1>3 DEF New, CallType
  <2>2. loading \subseteq Kinds
    BY DEF Basic, Typed
  <2> QED  BY <1>5, <1>7, <2>1, <2>2
<1>9. lastWord' \in [Panels -> {"none", "user", "other", "overtaken"}]
  <2>1. lastWord \in [Panels -> {"none", "user", "other", "overtaken"}]
    BY DEF Basic, Typed
  <2>2. CASE k \in Panels
    <3>1. Heard(c, a) \in {"none", "user", "other", "overtaken"}
      BY <1>1, <2>2, HeardIs DEF Basic
    <3> QED  BY <1>1, <2>1, <2>2, <3>1
  <2> QED  BY <1>1, <2>1, <2>2
<1>10. /\ selectedIncident' \in Incident \cup {None}
       /\ incidentEvents' \in Seq(Event) /\ eventsNextToken' \in Tokens
  <2>1. /\ selectedIncident \in Incident \cup {None}
        /\ incidentEvents \in Seq(Event) /\ eventsNextToken \in Tokens
    BY DEF Basic, Typed
  <2>2. CASE ~a.ok
    BY <1>1, <2>1, <2>2 DEF shown
  <2>3. CASE a.ok /\ k = "detail"
    <3>1. a.incident \in Incident
      BY <1>1, <2>3 DEF IsAnswer
    <3> QED  BY <1>1, <2>1, <2>3, <3>1 DEF Shows
  <2>4. CASE a.ok /\ k = "events"
    <3>1. a.items \in Seq(Event) /\ a.nextToken \in Tokens
      BY <1>1, <2>4 DEF IsAnswer, Page
    <3>2. (IF c.token = None THEN <<>> ELSE incidentEvents) \in Seq(Event)
      BY <2>1
    <3>3. /\ incidentEvents' = (IF c.token = None THEN <<>> ELSE incidentEvents) \o a.items
          /\ eventsNextToken' = a.nextToken /\ selectedIncident' = selectedIncident
      BY <1>1, <2>4 DEF Shows
    <3> QED  BY <2>1, <3>1, <3>2, <3>3, ConcatProperties
  <2>5. CASE a.ok /\ k \notin Panels
    <3>1. k # "detail" /\ k # "events"
      BY <2>5, Kinded
    <3> QED  BY <1>1, <2>1, <2>5, <3>1 DEF Shows
  <2> QED  BY <2>2, <2>3, <2>4, <2>5 DEF Panels
<1> QED
  <2>1. recorded' = recorded /\ tenantId' = tenantId /\ selectedId' = selectedId
    BY <1>1
  <2> QED  BY <1>7, <1>8, <1>9, <1>10, <2>1 DEF Basic, Typed

\* A step answers or serves a call, records an event, or is the user's.
LEMMA Steps ==
  ASSUME Basic, [Next]_vars
  PROVE  \/ \E i \in Incidents : Select(i)
         \/ \E t \in Tenants : ChangeTenant(t)
         \/ Reconnect \/ RefreshDetail \/ LoadMore \/ Act
         \/ Arrive
         \/ \E n \in DOMAIN calls["events"] : Serve(n)
         \/ \E k \in Kinds : \E c, a, cs : Answered(k, c, a, cs)
         \/ UNCHANGED vars
<1>1. CASE Next
  BY <1>1, DeliverIs DEF Next, User
<1>2. CASE UNCHANGED vars
  BY <1>2
<1> QED  BY <1>1, <1>2

LEMMA NextBasic ==
  ASSUME Basic, [Next]_vars
  PROVE  Basic'
<1>1. ASSUME NEW i \in Incidents, Select(i) PROVE Basic'
  <2>1. Asks(calls, loadSelection(tenantId, i))
    BY <1>1, UserAsks
  <2>2. CallsOK(calls') /\ Served' /\ loading' \subseteq Kinds
    BY <2>1, AsksBasic DEF Basic
  <2> QED  BY <1>1, <2>2, Kinded DEF Basic, Typed, Select, Tokens
<1>2. ASSUME NEW t \in Tenants, ChangeTenant(t) PROVE Basic'
  <2>1. Asks(WithoutPanels(calls), loadDropped(t))
    BY <1>2, UserAsks
  <2>2. CallsOK(calls') /\ Served' /\ loading' \subseteq Kinds
    BY <2>1, AsksBasic DEF Basic
  <2> QED  BY <1>2, <2>2, Kinded DEF Basic, Typed, ChangeTenant, Tokens
<1>3. ASSUME Reconnect PROVE Basic'
  <2>1. CallsOK(calls') /\ Served' /\ loading' \subseteq Kinds
    <3>1. CASE selectedId = None
      BY <1>3, <3>1, UserAsks, AsksBasic DEF Basic
    <3>2. CASE selectedId # None
      BY <1>3, <3>2, UserAsks, AsksBasic DEF Basic
    <3> QED  BY <3>1, <3>2
  <2> QED  BY <1>3, <2>1, Kinded DEF Basic, Typed, Reconnect, Tokens
<1>4. ASSUME RefreshDetail PROVE Basic'
  <2>1. CallsOK(calls') /\ Served' /\ loading' \subseteq Kinds
    BY <1>4, UserAsks, AsksBasic DEF Basic
  <2> QED  BY <1>4, <2>1 DEF Basic, Typed, RefreshDetail, shown
<1>5. ASSUME LoadMore PROVE Basic'
  <2>1. CallsOK(calls') /\ Served' /\ loading' \subseteq Kinds
    BY <1>5, UserAsks, AsksBasic DEF Basic
  <2> QED  BY <1>5, <2>1 DEF Basic, Typed, LoadMore, shown
<1>6. ASSUME Act PROVE Basic'
  <2>1. CallsOK(calls') /\ Served' /\ loading' \subseteq Kinds
    BY <1>6, UserAsks, AsksBasic DEF Basic
  <2> QED  BY <1>6, <2>1 DEF Basic, Typed, Act, shown
<1>7. ASSUME Arrive PROVE Basic'
  <2>1. PICK i \in Incidents : \E t \in Times[i] : recordIncidentEvent(i, t)
    BY <1>7 DEF Arrive
  <2>2. PICK t \in Times[i] : recordIncidentEvent(i, t)
    BY <2>1
  <2>3. recorded' \in [Incidents -> SUBSET Nat]
    BY <2>2, QueryAssumption DEF recordIncidentEvent, Basic, Typed
  <2>4. /\ tenantId' = tenantId /\ selectedId' = selectedId /\ loading' = loading
        /\ selectedIncident' = selectedIncident /\ incidentEvents' = incidentEvents
        /\ eventsNextToken' = eventsNextToken /\ calls' = calls /\ lastWord' = lastWord
    BY <1>7 DEF Arrive, shown
  <2>5. Typed'
    BY <2>3, <2>4 DEF Basic, Typed
  <2>6. Served'
    BY <2>4 DEF Basic, Served
  <2> QED  BY <2>5, <2>6 DEF Basic
<1>8. ASSUME NEW n \in DOMAIN calls["events"], Serve(n) PROVE Basic'
  <2>1. CallsOK(calls')
    BY <1>8, ServeIs DEF Basic
  <2>2. Served'
    <3> SUFFICES ASSUME NEW d \in In(calls', "events"), d.answer # None
        PROVE  IsAnswer(d, d.answer)
      BY DEF Served
    <3>1. PICK c \in In(calls, "events") :
            Like(c, d) /\ (d.answer = c.answer \/ IsAnswer(d, d.answer))
      BY <1>8, ServeIs DEF Basic
    <3>2. CASE d.answer = c.answer
      <4>1. IsAnswer(c, d.answer)
        BY <3>2 DEF Basic, Served
      <4> QED  BY <3>1, <4>1, LikeAnswer
    <3> QED  BY <3>1, <3>2
  <2>3. /\ tenantId' = tenantId /\ selectedId' = selectedId /\ loading' = loading
        /\ selectedIncident' = selectedIncident /\ incidentEvents' = incidentEvents
        /\ eventsNextToken' = eventsNextToken /\ recorded' = recorded /\ lastWord' = lastWord
    BY <1>8 DEF Serve, shown
  <2>4. Typed'
    BY <2>1, <2>3 DEF Basic, Typed
  <2> QED  BY <2>2, <2>4 DEF Basic
<1>9. ASSUME NEW k \in Kinds, \E c, a, cs : Answered(k, c, a, cs) PROVE Basic'
  BY <1>9, AnsweredBasic
<1>10. CASE UNCHANGED vars
  BY <1>10 DEF vars, shown, Basic, Typed, Served
<1> QED  BY <1>1, <1>2, <1>3, <1>4, <1>5, <1>6, <1>7, <1>8, <1>9, <1>10, Steps

\* The state is of its types, and an answer that waits for its turn is a page of
\* the timeline it was asked for.
THEOREM ConsoleBasicHolds == Spec => []Basic
<1>1. Init => Basic
  BY InitBasic
<1>2. Basic /\ [Next]_vars => Basic'
  BY NextBasic
<1> QED  BY <1>1, <1>2, PTL DEF Spec

-----------------------------------------------------------------------------
(* The loading flags *)

\* A flag waits for a call of its kind, that of a post for any call of an action.
Awaited(cs, flags) ==
  \A flag \in flags :
    IF flag = "action" THEN \E k \in Kinds : \E c \in In(cs, k) : c.by = "action"
    ELSE In(cs, flag) # {}

LEMMA AwaitedIs ==
  ASSUME Typed
  PROVE  FlagsWillBeCleared <=> Awaited(calls, loading)
<1>1. CallsOK(calls) /\ loading \subseteq Kinds
  BY DEF Typed
<1>2. ASSUME NEW k \in Kinds PROVE calls[k] # <<>> <=> In(calls, k) # {}
  BY <1>1, InIs
<1>3. ASSUME NEW k \in Kinds
      PROVE  (\E n \in DOMAIN calls[k] : calls[k][n].by = "action")
               <=> \E c \in In(calls, k) : c.by = "action"
  <2>1. DOMAIN calls[k] = 1 .. Len(calls[k])
    BY <1>1 DEF CallsOK
  <2> QED  BY <2>1 DEF In
<1> QED  BY <1>1, <1>2, <1>3 DEF FlagsWillBeCleared, Awaited

LEMMA AwaitedMade ==
  ASSUME NEW cs, CallsOK(cs), NEW new, New(new), NEW flags, flags \subseteq Kinds,
         Makes(cs, new, flags),
         \A c \in new : c.kind = "action" => c.by = "action",
         Awaited(cs, flags \ {"action"}),
         "action" \in flags =>
           \/ \E k \in Kinds : \E c \in In(cs, k) : c.by = "action"
           \/ new # {} /\ \A c \in new : c.by = "action"
  PROVE  Awaited(calls', loading')
<1>1. loading' = flags \cup {c.kind : c \in new} /\ \A c \in new : c.kind \in Kinds
  BY MakesIs DEF New, CallType
<1> SUFFICES ASSUME NEW flag \in loading'
    PROVE  IF flag = "action" THEN \E k \in Kinds : \E c \in In(calls', k) : c.by = "action"
           ELSE In(calls', flag) # {}
  BY DEF Awaited
<1>2. flag \in Kinds
  BY <1>1
<1>3. ASSUME NEW k \in Kinds
      PROVE  /\ \A c \in In(cs, k) : c \in In(calls', k) \/ Old(c) \in In(calls', k)
             /\ \A c \in new : c.kind = k => \E d \in new : d.kind = k /\ d \in In(calls', k)
             /\ \A c \in In(cs, k) : Old(c).by = c.by
  <2>1. In(cs, k) \subseteq CallType
    BY InIs
  <2> QED  BY <2>1, MadeIs, OldIs
<1> HIDE DEF Old, In
<1>4. CASE flag # "action"
  <2>1. CASE \E c \in new : c.kind = flag
    BY <1>2, <1>3, <1>4, <2>1
  <2>2. CASE flag \in flags
    <3>1. In(cs, flag) # {}
      BY <1>4, <2>2 DEF Awaited
    <3> QED  BY <1>2, <1>3, <1>4, <3>1
  <2> QED  BY <1>1, <2>1, <2>2
<1>5. CASE flag = "action"
  <2>1. CASE \E c \in new : c.kind = "action"
    BY <1>3, <1>5, <2>1, Kinded
  <2>2. CASE \E k \in Kinds : \E c \in In(cs, k) : c.by = "action"
    BY <1>3, <1>5, <2>2
  <2>3. CASE new # {} /\ \A c \in new : c.by = "action"
    <3>1. PICK c \in new : c.kind \in Kinds
      BY <1>1, <2>3
    <3> QED  BY <1>3, <1>5, <2>3, <3>1
  <2> QED  BY <1>1, <1>5, <2>1, <2>2, <2>3
<1> QED  BY <1>4, <1>5

LEMMA WithoutPanelsAwaited ==
  ASSUME Typed, Awaited(calls, loading)
  PROVE  Awaited(WithoutPanels(calls), loading)
<1>1. CallsOK(calls) /\ loading \subseteq Kinds
  BY DEF Typed
<1>2. ASSUME NEW k \in Kinds
      PROVE  \/ In(WithoutPanels(calls), k) = In(calls, k)
             \/ In(WithoutPanels(calls), k) = {Old(c) : c \in In(calls, k)}
  BY <1>1, WithoutPanelsIs
<1>3. ASSUME NEW k \in Kinds, NEW c \in In(calls, k) PROVE Old(c).by = c.by
  <2>1. c \in CallType
    BY <1>1, InIs
  <2> QED  BY <2>1, OldIs
<1> HIDE DEF Old, In
<1>4. ASSUME NEW k \in Kinds, In(calls, k) # {} PROVE In(WithoutPanels(calls), k) # {}
  BY <1>2, <1>4
<1>5. ASSUME NEW k \in Kinds, NEW c \in In(calls, k), c.by = "action"
      PROVE  \E d \in In(WithoutPanels(calls), k) : d.by = "action"
  BY <1>2, <1>3, <1>5
<1> QED  BY <1>1, <1>4, <1>5 DEF Awaited

LEMMA AsksAwaited ==
  ASSUME Basic, Awaited(calls, loading), NEW cs, cs = calls \/ cs = WithoutPanels(calls),
         NEW new, Asks(cs, new), \A c \in new : c.kind = "action" => c.by = "action"
  PROVE  Awaited(calls', loading')
<1>1. Awaited(cs, loading) /\ loading \subseteq Kinds
  BY WithoutPanelsAwaited DEF Basic, Typed
<1>2. Awaited(cs, loading \ {"action"})
  BY <1>1 DEF Awaited
<1>3. "action" \in loading => \E k \in Kinds : \E c \in In(cs, k) : c.by = "action"
  BY <1>1 DEF Awaited
<1>4. CallsOK(cs) /\ New(new) /\ Makes(cs, new, loading)
  BY DEF Asks
<1> QED  BY <1>1, <1>2, <1>3, <1>4, AwaitedMade

LEMMA AnsweredAwaited ==
  ASSUME Basic, Awaited(calls, loading), NEW k \in Kinds, NEW c, NEW a, NEW cs,
         Answered(k, c, a, cs)
  PROVE  Awaited(calls', loading')
<1>1. PICK S, flags : S = FollowUp(c, a) /\ flags = loading \ Cleared(c, a)
  OBVIOUS
<1>2. /\ CallsOK(cs) /\ c \in CallType /\ c.kind = k
      /\ Makes(cs, S, flags)
      /\ In(calls, k) \subseteq In(cs, k) \cup {c}
      /\ \A j \in Kinds \ {k} : In(cs, j) = In(calls, j)
  BY <1>1 DEF Answered
<1>3. /\ New(S) /\ \A d \in S : d.by = "action"
  BY <1>1, <1>2, FollowUpIs
<1>4. /\ flags \subseteq loading /\ flags \subseteq Kinds
      /\ \A flag \in flags \ {"action"} : flag # k
      /\ "action" \in flags => c.by # "action" \/ S # {}
  BY <1>1, <1>2 DEF Cleared, Basic, Typed
<1>5. Awaited(cs, flags \ {"action"})
  <2> SUFFICES ASSUME NEW flag \in flags \ {"action"} PROVE In(cs, flag) # {}
    BY DEF Awaited
  <2>1. In(calls, flag) # {} /\ flag \in Kinds \ {k}
    BY <1>4 DEF Awaited
  <2> QED  BY <1>2, <2>1
<1>6. ASSUME "action" \in flags, S = {}
      PROVE  \E j \in Kinds : \E d \in In(cs, j) : d.by = "action"
  <2>1. PICK j \in Kinds : \E d \in In(calls, j) : d.by = "action"
    BY <1>4, <1>6 DEF Awaited
  <2>2. PICK d \in In(calls, j) : d.by = "action"
    BY <2>1
  <2>3. d # c
    BY <1>4, <1>6, <2>2
  <2>4. d \in In(cs, j)
    BY <1>2, <2>2, <2>3
  <2> QED  BY <2>2, <2>4
<1> QED  BY <1>2, <1>3, <1>4, <1>5, <1>6, AwaitedMade

LEMMA NextAwaited ==
  ASSUME Basic, Awaited(calls, loading), [Next]_vars
  PROVE  Awaited(calls', loading')
<1>1. ASSUME NEW t \in Tenants, NEW i \in Incidents
      PROVE  \A c \in loadSelection(t, i) : c.kind = "action" => c.by = "action"
  BY SelectionIs DEF Panels
<1>2. tenantId \in Tenants /\ (selectedId # None => selectedId \in Incidents)
  BY DEF Basic, Typed
<1>3. ASSUME NEW i \in Incidents, Select(i) PROVE Awaited(calls', loading')
  BY <1>1, <1>2, <1>3, UserAsks, AsksAwaited
<1>4. ASSUME NEW t \in Tenants, ChangeTenant(t) PROVE Awaited(calls', loading')
  <2>1. \A c \in loadDropped(t) : c.kind # "action"
    BY DroppedIs DEF Basic, Panels
  <2> QED  BY <1>4, <2>1, UserAsks, AsksAwaited
<1>5. ASSUME Reconnect PROVE Awaited(calls', loading')
  <2>1. CASE selectedId = None
    BY <1>5, <2>1, UserAsks, AsksAwaited
  <2>2. CASE selectedId # None
    BY <1>1, <1>2, <1>5, <2>2, UserAsks, AsksAwaited
  <2> QED  BY <2>1, <2>2
<1>6. ASSUME RefreshDetail PROVE Awaited(calls', loading')
  <2>1. selectedId # None
    BY <1>6 DEF RefreshDetail
  <2> QED  BY <1>1, <1>2, <1>6, <2>1, UserAsks, AsksAwaited
<1>7. ASSUME LoadMore PROVE Awaited(calls', loading')
  <2>1. Call("events", tenantId, selectedIncident.id, eventsNextToken, "user").kind # "action"
    BY DEF Call
  <2> QED  BY <1>7, <2>1, UserAsks, AsksAwaited
<1>8. ASSUME Act PROVE Awaited(calls', loading')
  <2>1. Call("action", tenantId, selectedIncident.id, None, "action").by = "action"
    BY DEF Call
  <2> QED  BY <1>8, <2>1, UserAsks, AsksAwaited
<1>9. ASSUME NEW n \in DOMAIN calls["events"], Serve(n) PROVE Awaited(calls', loading')
  <2>1. loading' = loading /\ loading \subseteq Kinds /\ "events" \in Kinds
    BY <1>9, Kinded DEF Serve, Basic, Typed
  <2>2. /\ \A k \in Kinds \ {"events"} : In(calls', k) = In(calls, k)
        /\ \A c \in In(calls, "events") : \E d \in In(calls', "events") : Like(c, d)
    BY <1>9, ServeIs DEF Basic
  <2>3. ASSUME NEW k \in Kinds, NEW c \in In(calls, k)
        PROVE  \E d \in In(calls', k) : d.by = c.by
    BY <2>2 DEF Like
  <2> HIDE DEF In
  <2> QED  BY <2>1, <2>3 DEF Awaited
<1>10. ASSUME NEW k \in Kinds, \E c, a, cs : Answered(k, c, a, cs)
       PROVE  Awaited(calls', loading')
  BY <1>10, AnsweredAwaited
<1>11. CASE Arrive \/ UNCHANGED vars
  BY <1>11 DEF Arrive, vars, Awaited, In
<1> QED  BY <1>3, <1>4, <1>5, <1>6, <1>7, <1>8, <1>9, <1>10, <1>11, Steps

\* A set flag waits for a call that will clear it, however calls overlap and
\* whichever of them fail.
THEOREM FlagsHold == Spec => []FlagsWillBeCleared
<1>1. Init => Basic /\ Awaited(calls, loading)
  BY InitBasic DEF Awaited, Init, ConsoleInit
<1>2. Basic /\ Awaited(calls, loading) /\ [Next]_vars => (Basic /\ Awaited(calls, loading))'
  BY NextBasic, NextAwaited
<1>3. Basic /\ Awaited(calls, loading) => FlagsWillBeCleared
  BY AwaitedIs DEF Basic
<1> QED  BY <1>1, <1>2, <1>3, PTL DEF Spec

-----------------------------------------------------------------------------
(* The detail *)

\* The calls that nothing overtook: the newest of each kind, at most.
Fresh(cs, k) == {c \in In(cs, k) : ~c.overtaken}

LEMMA FreshIs ==
  ASSUME NEW cs, CallsOK(cs), NEW new, New(new), NEW flags, Makes(cs, new, flags),
         NEW k \in Kinds
  PROVE  /\ \A d \in Fresh(calls', k) :
              \/ d \in new /\ d.kind = k
              \/ d \in Fresh(cs, k) /\ \A c \in new : c.kind # k
         /\ (\A c \in new : c.kind # k) => Fresh(calls', k) = Fresh(cs, k)
         /\ (\E c \in new : c.kind = k) => \E d \in new : d.kind = k /\ d \in In(calls', k)
<1>1. \/ \E c \in new : /\ c.kind = k
                        /\ In(calls', k) = {Old(d) : d \in In(cs, k)} \cup {c}
      \/ /\ \A c \in new : c.kind # k
         /\ In(calls', k) = In(cs, k)
  BY MakesIs
<1>2. \A c \in In(cs, k) : Old(c).overtaken
  BY InIs, OldIs
<1> HIDE DEF Old, In
<1> QED  BY <1>1, <1>2 DEF Fresh

\* The selected incident is shown, or asked for.
Shown ==
  /\ lastWord["detail"] = "none" => selectedIncident = None
  /\ \A c \in Fresh(calls, "detail") : c.by = "user" => c.id = selectedId
  /\ lastWord["detail"] = "user" =>
       \/ selectedId # None /\ selectedIncident # None /\ selectedIncident.id = selectedId
       \/ Fresh(calls, "detail") # {}

LEMMA ShownIs ==
  ASSUME Typed, Shown
  PROVE  DetailIsTheSelected
<1>1. calls["detail"] = <<>> => In(calls, "detail") = {}
  BY InIs, Kinded DEF Typed
<1> QED  BY <1>1 DEF Shown, DetailIsTheSelected, Fresh

\* With the selection asked for again, only its call is fresh.
LEMMA AskedShown ==
  ASSUME Basic, Shown, NEW i \in Incidents, NEW cs, Asks(cs, loadSelection(tenantId, i)),
         selectedId' = i, selectedIncident' = selectedIncident,
         lastWord'["detail"] = lastWord["detail"]
  PROVE  Shown'
<1>1. PICK S : S = loadSelection(tenantId, i)
  OBVIOUS
<1>2. tenantId \in Tenants
  BY DEF Basic, Typed
<1>3. /\ New(S) /\ \A k \in Panels : \E c \in S : c.kind = k
      /\ \A c \in S : c.id = i /\ ~c.overtaken
  BY <1>1, <1>2, SelectionIs
<1>4. CallsOK(cs) /\ Makes(cs, S, loading)
  BY <1>1 DEF Asks
<1>5. \A d \in Fresh(calls', "detail") : d \in S
  BY <1>3, <1>4, FreshIs, Kinded
<1>6. \E d \in S : d \in In(calls', "detail")
  BY <1>3, <1>4, FreshIs, Kinded
<1>7. Fresh(calls', "detail") # {}
  BY <1>3, <1>6 DEF Fresh
<1>8. /\ lastWord'["detail"] = "none" => selectedIncident' = None
      /\ \A c \in Fresh(calls', "detail") : c.by = "user" => c.id = selectedId'
  BY <1>3, <1>5 DEF Shown
<1> QED  BY <1>7, <1>8 DEF Shown

\* Nothing is fresh any more once the panels are cleared.
LEMMA NoneFresh ==
  ASSUME Typed, NEW S, New(S), \A c \in S : c.overtaken, NEW flags,
         Makes(WithoutPanels(calls), S, flags), NEW k \in Panels
  PROVE  Fresh(calls', k) = {}
<1>1. k \in Kinds /\ CallsOK(calls)
  BY Kinded DEF Typed
<1>2. CallsOK(WithoutPanels(calls)) /\ In(WithoutPanels(calls), k) = {Old(c) : c \in In(calls, k)}
  BY <1>1, WithoutPanelsIs
<1>3. \A c \in In(calls, k) : Old(c).overtaken
  BY <1>1, InIs, OldIs
<1>4. Fresh(WithoutPanels(calls), k) = {}
  <2> HIDE DEF Old, In
  <2> QED  BY <1>2, <1>3 DEF Fresh
<1>5. \A d \in Fresh(calls', k) : d \in S \/ d \in Fresh(WithoutPanels(calls), k)
  BY <1>1, <1>2, FreshIs
<1>6. \A d \in Fresh(calls', k) : ~d.overtaken
  BY DEF Fresh
<1> QED  BY <1>4, <1>5, <1>6

LEMMA AnsweredShown ==
  ASSUME Basic, Shown, NEW k \in Kinds, NEW c, NEW a, NEW cs, Answered(k, c, a, cs)
  PROVE  Shown'
<1>1. PICK S, flags : S = FollowUp(c, a) /\ flags = loading \ Cleared(c, a)
  OBVIOUS
<1>2. /\ CallsOK(cs) /\ c \in CallType /\ c.kind = k /\ c \in In(calls, k)
      /\ Makes(cs, S, flags) /\ IsAnswer(c, a)
      /\ IF a.ok THEN a.ok = TRUE /\ a # Failed ELSE a = Failed
      /\ (k # "events" => c.token = None)
      /\ In(cs, k) \subseteq In(calls, k) /\ In(calls, k) \subseteq In(cs, k) \cup {c}
      /\ \A j \in Kinds \ {k} : In(cs, j) = In(calls, j)
      /\ c.overtaken \/ \A d \in In(cs, k) : d.overtaken
      /\ lastWord' = IF k \in Panels THEN [lastWord EXCEPT ![k] = Heard(c, a)] ELSE lastWord
      /\ IF a.ok THEN Shows(c, a) ELSE UNCHANGED shown
      /\ selectedId' = selectedId
  BY <1>1 DEF Answered
<1>3. /\ New(S)
      /\ \A d \in S : d.by = "action" /\ d.kind # k /\ ~d.overtaken
  BY <1>1, <1>2, FollowUpIs
<1>4. /\ \A d \in Fresh(calls', "detail") :
           (d \in S /\ d.kind = "detail") \/ d \in Fresh(cs, "detail")
      /\ (\A d \in S : d.kind # "detail") => Fresh(calls', "detail") = Fresh(cs, "detail")
      /\ (\E d \in S : d.kind = "detail") => \E d \in S : d \in In(calls', "detail")
  <2>1. "detail" \in Kinds
    BY Kinded
  <2> QED  BY <1>2, <1>3, <2>1, FreshIs
<1>5. lastWord \in [Panels -> {"none", "user", "other", "overtaken"}]
  BY DEF Basic, Typed
<1>6. Fresh(cs, "detail") \subseteq Fresh(calls, "detail")
  BY <1>2, Kinded DEF Fresh
<1>7. \A d \in Fresh(calls', "detail") : d.by = "user" => d.id = selectedId'
  BY <1>2, <1>3, <1>4, <1>6 DEF Shown
<1>8. CASE k # "detail"
  <2>1. lastWord'["detail"] = lastWord["detail"] /\ selectedIncident' = selectedIncident
    <3>1. lastWord'["detail"] = lastWord["detail"]
      BY <1>2, <1>5, <1>8, Kinded
    <3>2. selectedIncident' = selectedIncident
      BY <1>2, <1>8 DEF Shows, shown
    <3> QED  BY <3>1, <3>2
  <2>2. Fresh(calls, "detail") # {} => Fresh(calls', "detail") # {}
    <3>1. Fresh(cs, "detail") = Fresh(calls, "detail")
      BY <1>2, <1>8, Kinded DEF Fresh
    <3>2. CASE \E d \in S : d.kind = "detail"
      BY <1>3, <1>4, <3>2 DEF Fresh
    <3> QED  BY <1>4, <3>1, <3>2
  <2> QED  BY <1>2, <1>7, <2>1, <2>2 DEF Shown
<1>9. CASE k = "detail"
  <2>1. lastWord'["detail"] = Heard(c, a) /\ Fresh(calls', "detail") = Fresh(cs, "detail")
    BY <1>2, <1>3, <1>4, <1>5, <1>9, Kinded
  <2>2. CASE a.ok
    <3>1. selectedIncident' = a.incident /\ a.incident \in Incident /\ a.incident.id = c.id
      BY <1>2, <1>9, <2>2 DEF Shows, IsAnswer
    <3>2. lastWord'["detail"] = IF c.overtaken THEN "overtaken"
                                ELSE IF c.by = "user" THEN "user" ELSE "other"
      BY <1>2, <1>9, <2>1, <2>2 DEF Heard
    <3>3. ~c.overtaken /\ c.by = "user" => c.id = selectedId
      BY <1>2, <1>9 DEF Shown, Fresh
    <3>4. c.id \in Incidents
      BY <1>2 DEF CallType
    <3> QED  BY <1>2, <1>7, <3>1, <3>2, <3>3, <3>4, QueryAssumption DEF Shown, Incident
  <2>3. CASE ~a.ok
    <3>1. selectedIncident' = selectedIncident
      BY <1>2, <2>3 DEF shown
    <3>2. lastWord'["detail"] =
            IF c.overtaken THEN lastWord["detail"]
            ELSE IF lastWord["detail"] = "overtaken" THEN "overtaken" ELSE "other"
      BY <1>2, <1>9, <2>1, <2>3 DEF Heard
    <3>3. c.overtaken => Fresh(calls', "detail") = Fresh(calls, "detail")
      BY <1>2, <1>9, <2>1 DEF Fresh
    <3> QED  BY <1>2, <1>7, <3>1, <3>2, <3>3 DEF Shown
  <2> QED  BY <2>2, <2>3
<1> QED  BY <1>8, <1>9

LEMMA NextShown ==
  ASSUME Basic, Shown, [Next]_vars
  PROVE  Shown'
<1>1. /\ lastWord \in [Panels -> {"none", "user", "other", "overtaken"}]
      /\ tenantId \in Tenants /\ (selectedId # None => selectedId \in Incidents)
  BY DEF Basic, Typed
<1>2. ASSUME NEW i \in Incidents, Select(i) PROVE Shown'
  <2>1. /\ selectedId' = i /\ selectedIncident' = selectedIncident
        /\ lastWord'["detail"] = lastWord["detail"]
    BY <1>1, <1>2, Kinded DEF Select
  <2> QED  BY <1>2, <2>1, UserAsks, AskedShown
<1>3. ASSUME NEW t \in Tenants, ChangeTenant(t) PROVE Shown'
  <2>1. lastWord'["detail"] = "none" /\ selectedIncident' = None
    BY <1>1, <1>3, Kinded DEF ChangeTenant
  <2>2. PICK S : S = loadDropped(t)
    OBVIOUS
  <2>3. Makes(WithoutPanels(calls), S, loading)
    BY <1>3, <2>2 DEF ChangeTenant
  <2>4. New(S) /\ \A c \in S : c.overtaken
    BY <2>2, DroppedIs DEF Basic
  <2>5. Fresh(calls', "detail") = {}
    BY <2>3, <2>4, NoneFresh, Kinded DEF Basic
  <2> QED  BY <2>1, <2>5 DEF Shown
<1>4. ASSUME Reconnect PROVE Shown'
  <2>1. CASE selectedId = None
    <3>1. lastWord'["detail"] = "none" /\ selectedIncident' = None
      BY <1>1, <1>4, <2>1, Kinded DEF Reconnect
    <3>2. Makes(WithoutPanels(calls), {}, loading)
      BY <1>4, <2>1 DEF Reconnect
    <3>3. Fresh(calls', "detail") = {}
      BY <3>2, NoneFresh, Kinded DEF Basic, New
    <3> QED  BY <3>1, <3>3 DEF Shown
  <2>2. CASE selectedId # None
    <3>1. /\ selectedId' = selectedId /\ selectedIncident' = selectedIncident
          /\ lastWord'["detail"] = lastWord["detail"]
      BY <1>1, <1>4, <2>2, Kinded DEF Reconnect
    <3> QED  BY <1>1, <1>4, <2>2, <3>1, UserAsks, AskedShown
  <2> QED  BY <2>1, <2>2
<1>5. ASSUME RefreshDetail PROVE Shown'
  <2>1. /\ selectedId' = selectedId /\ selectedIncident' = selectedIncident
        /\ lastWord'["detail"] = lastWord["detail"] /\ selectedId # None
    BY <1>5 DEF RefreshDetail, shown
  <2> QED  BY <1>1, <1>5, <2>1, UserAsks, AskedShown
<1>6. ASSUME NEW S, \A c \in S : c.kind # "detail", Asks(calls, S),
             UNCHANGED <<selectedId, selectedIncident, lastWord>>
      PROVE  Shown'
  <2>1. Fresh(calls', "detail") = Fresh(calls, "detail")
    BY <1>6, FreshIs, Kinded DEF Asks
  <2> QED  BY <1>6, <2>1 DEF Shown
<1>7. ASSUME LoadMore PROVE Shown'
  <2>1. Call("events", tenantId, selectedIncident.id, eventsNextToken, "user").kind # "detail"
    BY DEF Call
  <2>2. UNCHANGED <<selectedId, selectedIncident, lastWord>>
    BY <1>7 DEF LoadMore, shown
  <2> QED  BY <1>6, <1>7, <2>1, <2>2, UserAsks
<1>8. ASSUME Act PROVE Shown'
  <2>1. Call("action", tenantId, selectedIncident.id, None, "action").kind # "detail"
    BY DEF Call
  <2>2. UNCHANGED <<selectedId, selectedIncident, lastWord>>
    BY <1>8 DEF Act, shown
  <2> QED  BY <1>6, <1>8, <2>1, <2>2, UserAsks
<1>9. ASSUME NEW n \in DOMAIN calls["events"], Serve(n) PROVE Shown'
  <2>1. UNCHANGED <<selectedId, selectedIncident, lastWord>>
    BY <1>9 DEF Serve, shown
  <2>2. In(calls', "detail") = In(calls, "detail")
    BY <1>9, ServeIs, Kinded DEF Basic
  <2> QED  BY <2>1, <2>2 DEF Shown, Fresh
<1>10. ASSUME NEW k \in Kinds, \E c, a, cs : Answered(k, c, a, cs) PROVE Shown'
  BY <1>10, AnsweredShown
<1>11. CASE Arrive \/ UNCHANGED vars
  BY <1>11 DEF Arrive, vars, shown, Shown, Fresh, In
<1> QED  BY <1>2, <1>3, <1>4, <1>5, <1>7, <1>8, <1>9, <1>10, <1>11, Steps

\* When no call for the detail is left, the detail is the selected incident's,
\* unless an overtaken call, a failed one or an action had the last word.
THEOREM DetailHolds == Spec => []DetailIsTheSelected
<1>1. Init => Basic /\ Shown
  <2>1. ASSUME Init PROVE Shown
    <3>1. Basic /\ lastWord["detail"] = "none" /\ selectedIncident = None
      BY <2>1, InitBasic, Kinded DEF Init, ConsoleInit
    <3>2. calls["detail"] = <<>>
      BY <2>1, Kinded DEF Init, ConsoleInit
    <3>3. Fresh(calls, "detail") = {}
      BY <3>1, <3>2, InIs, Kinded DEF Basic, Typed, Fresh
    <3> QED  BY <3>1, <3>3 DEF Shown
  <2> QED  BY <2>1, InitBasic
<1>2. Basic /\ Shown /\ [Next]_vars => (Basic /\ Shown)'
  BY NextBasic, NextShown
<1>3. Basic /\ Shown => DetailIsTheSelected
  BY ShownIs DEF Basic
<1> QED  BY <1>1, <1>2, <1>3, PTL DEF Spec

-----------------------------------------------------------------------------
(* The timeline *)

Descends(s) ==
  \A m, n \in DOMAIN s : s[m].id = s[n].id /\ (m < n => s[m].time > s[n].time)

\* A page goes on where the timeline ends, while no overtaken call has had its say,
\* and the first page the user asked for is the selected incident's.
Paged ==
  /\ \A c \in Fresh(calls, "events") :
       IF c.token = None THEN c.by = "user" => c.id = selectedId
       ELSE lastWord["events"] # "overtaken" =>
              incidentEvents # <<>> /\ Last(incidentEvents) = c.token
  /\ lastWord["events"] # "overtaken" =>
       /\ Descends(incidentEvents)
       /\ eventsNextToken # None =>
            incidentEvents # <<>> /\ eventsNextToken = Last(incidentEvents)
       /\ lastWord["events"] = "user" =>
            \A n \in DOMAIN incidentEvents : incidentEvents[n].id = selectedId

LEMMA PagedIs ==
  ASSUME Paged
  PROVE  TimelineIsInOrder
BY DEF Paged, TimelineIsInOrder, Descends

LEMMA LastIs ==
  ASSUME NEW S, NEW s \in Seq(S), s # <<>>
  PROVE  Len(s) \in Nat /\ Len(s) \in 1 .. Len(s) /\ Len(s) \in DOMAIN s /\ Last(s) = s[Len(s)]
<1>1. Len(s) \in Nat /\ Len(s) # 0
  BY EmptySeq
<1> QED  BY <1>1 DEF Last

Joined(s, t) == s \o t

\* r is s with the page a appended, still one incident's and in order.
Continues(s, a, r) ==
  /\ Descends(r) /\ r # <<>>
  /\ a.nextToken # None => a.nextToken = Last(r)
  /\ \A n \in DOMAIN r : r[n].id = Last(s).id

\* A page from the last event on can be appended.
LEMMA AppendedIs ==
  ASSUME NEW s \in Seq(Event), s # <<>>, Descends(s),
         NEW c \in CallType, c.token = Last(s), c.token # None,
         NEW a \in Page, IsPage(c, a), NEW r, r = Joined(s, a.items)
  PROVE  Continues(s, a, r)
<1> DEFINE t == a.items
<1>1. t \in Seq(Event) /\ Len(s) \in Nat /\ Len(t) \in Nat
  BY DEF Page
<1>2. /\ Len(s) \in 1 .. Len(s) /\ Last(s) = s[Len(s)]
  BY LastIs
<1>3. /\ r \in Seq(Event) /\ Len(r) = Len(s) + Len(t)
      /\ \A n \in 1 .. Len(s) + Len(t) : r[n] = IF n <= Len(s) THEN s[n] ELSE t[n - Len(s)]
  BY <1>1, ConcatProperties DEF Joined
<1>4. DOMAIN r = 1 .. Len(s) + Len(t) /\ DOMAIN s = 1 .. Len(s)
  BY <1>1, <1>3
<1>5. \A n \in 1 .. Len(s) :
        s[n].id = Last(s).id /\ s[n].time >= Last(s).time /\ s[n].time \in Nat
  <2> SUFFICES ASSUME NEW n \in 1 .. Len(s)
      PROVE  s[n].id = Last(s).id /\ s[n].time >= Last(s).time /\ s[n].time \in Nat
    OBVIOUS
  <2>1. s[n] \in Event /\ s[Len(s)] \in Event
    BY <1>2
  <2>2. s[n].time \in Nat /\ s[Len(s)].time \in Nat
    BY <2>1 DEF Event
  <2>3. s[n].id = s[Len(s)].id /\ (n < Len(s) => s[n].time > s[Len(s)].time)
    BY <1>2, <1>4 DEF Descends
  <2> QED  BY <1>1, <1>2, <2>2, <2>3
<1>6. \A n \in 1 .. Len(t) :
        /\ t[n].id = Last(s).id /\ t[n].time < Last(s).time /\ t[n].time \in Nat
        /\ \A m \in 1 .. Len(t) : n < m => t[n].time > t[m].time
  <2> SUFFICES ASSUME NEW n \in 1 .. Len(t)
      PROVE  /\ t[n].id = Last(s).id /\ t[n].time < Last(s).time /\ t[n].time \in Nat
             /\ \A m \in 1 .. Len(t) : n < m => t[n].time > t[m].time
    OBVIOUS
  <2>1. t[n] \in Event
    BY <1>1
  <2> QED  BY <2>1 DEF IsPage, Event
<1>7. Last(s).time \in Nat
  <2>1. s[Len(s)] \in Event
    BY <1>2
  <2> QED  BY <1>2, <2>1 DEF Event
<1> HIDE DEF t
<1>8. ASSUME NEW n \in 1 .. Len(r) PROVE r[n].id = Last(s).id
  <2>1. CASE n <= Len(s)
    BY <1>1, <1>3, <1>5, <2>1
  <2>2. CASE ~(n <= Len(s))
    BY <1>1, <1>3, <1>6, <2>2
  <2> QED  BY <2>1, <2>2
<1>9. ASSUME NEW m \in 1 .. Len(r), NEW n \in 1 .. Len(r), m < n
      PROVE  r[m].time > r[n].time
  <2>1. CASE n <= Len(s)
    <3>1. r[m] = s[m] /\ r[n] = s[n] /\ m \in DOMAIN s /\ n \in DOMAIN s
      BY <1>1, <1>3, <1>4, <1>9, <2>1
    <3> QED  BY <1>9, <3>1 DEF Descends
  <2>2. CASE m <= Len(s) /\ ~(n <= Len(s))
    <3>1. /\ r[m] = s[m] /\ m \in 1 .. Len(s)
          /\ r[n] = t[n - Len(s)] /\ n - Len(s) \in 1 .. Len(t)
      BY <1>1, <1>3, <2>2
    <3> QED  BY <1>5, <1>6, <1>7, <3>1
  <2>3. CASE ~(m <= Len(s))
    <3>1. /\ r[m] = t[m - Len(s)] /\ m - Len(s) \in 1 .. Len(t)
          /\ r[n] = t[n - Len(s)] /\ n - Len(s) \in 1 .. Len(t)
          /\ m - Len(s) < n - Len(s)
      BY <1>1, <1>3, <1>9, <2>3
    <3> QED  BY <1>6, <3>1
  <2> QED  BY <1>1, <1>3, <1>9, <2>1, <2>2, <2>3
<1>10. Descends(r) /\ \A n \in DOMAIN r : r[n].id = Last(s).id
  BY <1>3, <1>4, <1>8, <1>9 DEF Descends
<1>11. r # <<>>
  BY <1>1, <1>2, <1>3
<1>12. a.nextToken # None => a.nextToken = Last(r)
  <2> SUFFICES ASSUME a.nextToken # None PROVE a.nextToken = Last(r)
    OBVIOUS
  <2>1. t # <<>> /\ a.nextToken = Last(t)
    BY DEF IsPage, t
  <2>2. Len(t) \in 1 .. Len(t) /\ Last(t) = t[Len(t)]
    BY <1>1, <2>1, LastIs DEF t
  <2>3. Last(r) = r[Len(r)]
    BY <1>3, <1>11, LastIs
  <2>4. r[Len(r)] = t[Len(t)]
    BY <1>1, <1>2, <1>3, <2>2
  <2> QED  BY <2>1, <2>2, <2>3, <2>4
<1> QED  BY <1>10, <1>11, <1>12 DEF Continues

LEMMA AskedPaged ==
  ASSUME Basic, NEW i \in Incidents, NEW cs, Asks(cs, loadSelection(tenantId, i))
  PROVE  \A c \in Fresh(calls', "events") : c.token = None /\ c.id = i
<1>1. PICK S : S = loadSelection(tenantId, i)
  OBVIOUS
<1>2. tenantId \in Tenants
  BY DEF Basic, Typed
<1>3. /\ New(S) /\ \A k \in Panels : \E c \in S : c.kind = k
      /\ \A c \in S : c.id = i /\ c.token = None
  BY <1>1, <1>2, SelectionIs
<1>4. CallsOK(cs) /\ Makes(cs, S, loading)
  BY <1>1 DEF Asks
<1> QED  BY <1>3, <1>4, FreshIs, Kinded

\* The timeline that is shown, and the token for more of it.
Ends ==
  lastWord["events"] # "overtaken" =>
    /\ Descends(incidentEvents)
    /\ eventsNextToken # None =>
         incidentEvents # <<>> /\ eventsNextToken = Last(incidentEvents)
    /\ lastWord["events"] = "user" =>
         \A n \in DOMAIN incidentEvents : incidentEvents[n].id = selectedId

LEMMA ClearedEnds ==
  ASSUME incidentEvents' = <<>>, eventsNextToken' = None
  PROVE  Ends'
<1>1. DOMAIN incidentEvents' = {}
  BY DEF Descends
<1> QED  BY <1>1 DEF Ends, Descends

LEMMA AnsweredPaged ==
  ASSUME Basic, Paged, NEW k \in Kinds, NEW c, NEW a, NEW cs, Answered(k, c, a, cs)
  PROVE  Paged'
<1>1. PICK S, flags : S = FollowUp(c, a) /\ flags = loading \ Cleared(c, a)
  OBVIOUS
<1>2. /\ CallsOK(cs) /\ c \in CallType /\ c.kind = k /\ c \in In(calls, k)
      /\ Makes(cs, S, flags) /\ IsAnswer(c, a)
      /\ IF a.ok THEN a.ok = TRUE /\ a # Failed ELSE a = Failed
      /\ In(cs, k) \subseteq In(calls, k) /\ In(calls, k) \subseteq In(cs, k) \cup {c}
      /\ \A j \in Kinds \ {k} : In(cs, j) = In(calls, j)
      /\ c.overtaken \/ \A d \in In(cs, k) : d.overtaken
      /\ lastWord' = IF k \in Panels THEN [lastWord EXCEPT ![k] = Heard(c, a)] ELSE lastWord
      /\ IF a.ok THEN Shows(c, a) ELSE UNCHANGED shown
      /\ selectedId' = selectedId
  BY <1>1 DEF Answered
<1>3. /\ New(S)
      /\ \A d \in S : d.by = "action" /\ d.kind # k /\ ~d.overtaken /\ d.token = None
      /\ k = "events" => S = {}
  BY <1>1, <1>2, FollowUpIs
<1>4. \A d \in Fresh(calls', "events") : d \in S \/ d \in Fresh(cs, "events")
  BY <1>2, <1>3, FreshIs, Kinded
<1>5. lastWord \in [Panels -> {"none", "user", "other", "overtaken"}]
  BY DEF Basic, Typed
<1>6. Fresh(cs, "events") \subseteq Fresh(calls, "events")
  BY <1>2, Kinded DEF Fresh
<1>7. Ends
  BY DEF Paged, Ends
<1>8. CASE k # "events"
  <2>1. lastWord'["events"] = lastWord["events"]
    BY <1>2, <1>5, <1>8, Kinded
  <2>2. incidentEvents' = incidentEvents /\ eventsNextToken' = eventsNextToken
    BY <1>2, <1>8 DEF Shows, shown
  <2>3. Ends'
    BY <1>2, <1>7, <2>1, <2>2 DEF Ends, Descends
  <2>4. \A d \in Fresh(calls', "events") :
          IF d.token = None THEN d.by = "user" => d.id = selectedId
          ELSE lastWord["events"] # "overtaken" =>
                 incidentEvents # <<>> /\ Last(incidentEvents) = d.token
    BY <1>3, <1>4, <1>6 DEF Paged
  <2>5. \A d \in Fresh(calls', "events") :
          IF d.token = None THEN d.by = "user" => d.id = selectedId'
          ELSE lastWord'["events"] # "overtaken" =>
                 incidentEvents' # <<>> /\ Last(incidentEvents)' = d.token
    BY <1>2, <2>1, <2>2, <2>4
  <2> QED  BY <2>3, <2>5 DEF Paged, Ends
<1>9. CASE k = "events"
  <2>1. /\ lastWord'["events"] = Heard(c, a)
        /\ \A d \in Fresh(calls', "events") : d \in Fresh(cs, "events")
    BY <1>2, <1>3, <1>4, <1>5, <1>9, Kinded
  <2>2. c \in In(calls, "events")
    BY <1>2, <1>9
  <2>3. CASE ~c.overtaken
    <3>1. Fresh(calls', "events") = {}
      BY <1>2, <1>9, <2>1, <2>3 DEF Fresh
    <3>2. c \in Fresh(calls, "events")
      BY <2>2, <2>3 DEF Fresh
    <3>3. Ends'
      <4>1. CASE ~a.ok
        <5>1. incidentEvents' = incidentEvents /\ eventsNextToken' = eventsNextToken
          BY <1>2, <4>1 DEF shown
        <5>2. lastWord'["events"] =
                IF lastWord["events"] = "overtaken" THEN "overtaken" ELSE "other"
          BY <1>2, <1>9, <2>1, <2>3, <4>1 DEF Heard
        <5> QED  BY <1>7, <5>1, <5>2 DEF Ends, Descends
      <4>2. CASE a.ok
        <5>1. /\ a \in Page /\ IsPage(c, a)
              /\ incidentEvents' = (IF c.token = None THEN <<>> ELSE incidentEvents) \o a.items
              /\ eventsNextToken' = a.nextToken
          BY <1>2, <1>9, <4>2 DEF IsAnswer, Shows
        <5>2. lastWord'["events"] = IF c.token # None THEN lastWord["events"]
                                    ELSE IF c.by = "user" THEN "user" ELSE "other"
          BY <1>2, <1>9, <2>1, <2>3, <4>2 DEF Heard
        <5>3. CASE c.token = None
          <6>1. a.items \in Seq(Event) /\ DOMAIN a.items = 1 .. Len(a.items)
            BY <5>1 DEF Page
          <6>2. incidentEvents' = a.items
            BY <5>1, <5>3, <6>1, ConcatEmptySeq
          <6>3. c.by = "user" => c.id = selectedId
            BY <3>2, <5>3 DEF Paged
          <6>4. /\ Descends(incidentEvents)'
                /\ \A n \in DOMAIN incidentEvents' : incidentEvents'[n].id = c.id
            BY <5>1, <6>1, <6>2 DEF IsPage, Descends
          <6>5. eventsNextToken' # None =>
                  incidentEvents' # <<>> /\ eventsNextToken' = Last(incidentEvents')
            BY <5>1, <6>2 DEF IsPage
          <6> QED  BY <1>2, <5>2, <5>3, <6>3, <6>4, <6>5 DEF Ends
        <5>4. CASE c.token # None /\ lastWord["events"] # "overtaken"
          <6>1. /\ incidentEvents # <<>> /\ Last(incidentEvents) = c.token
                /\ incidentEvents \in Seq(Event) /\ Descends(incidentEvents)
            BY <1>7, <3>2, <5>4 DEF Paged, Ends, Basic, Typed
          <6>2. incidentEvents' = incidentEvents \o a.items
            BY <5>1, <5>4
          <6>3. /\ Descends(incidentEvents') /\ incidentEvents' # <<>>
                /\ a.nextToken # None => a.nextToken = Last(incidentEvents')
                /\ \A n \in DOMAIN incidentEvents' : incidentEvents'[n].id = Last(incidentEvents).id
            <7>1. PICK s, r : s = incidentEvents /\ r = incidentEvents'
              OBVIOUS
            <7>2. /\ s \in Seq(Event) /\ s # <<>> /\ Descends(s) /\ c.token = Last(s)
                  /\ r = s \o a.items
              BY <6>1, <6>2, <7>1
            <7>3. /\ Descends(r) /\ r # <<>>
                  /\ a.nextToken # None => a.nextToken = Last(r)
                  /\ \A n \in DOMAIN r : r[n].id = Last(s).id
              <8>2. /\ c \in CallType /\ c.token = Last(s) /\ c.token # None
                    /\ a \in Page /\ IsPage(c, a)
                BY <1>2, <5>1, <5>4, <7>2
              <8>3. s \in Seq(Event) /\ s # <<>> /\ Descends(s) /\ r = Joined(s, a.items)
                BY <7>2 DEF Joined
              <8>4. Continues(s, a, r)
                BY <8>2, <8>3, AppendedIs
              <8> QED  BY <8>4 DEF Continues
            <7> QED  BY <7>1, <7>3
          <6>4. lastWord["events"] = "user" => Last(incidentEvents).id = selectedId
            BY <1>7, <5>4, <6>1, LastIs DEF Ends
          <6>5. Descends(incidentEvents)'
            BY <6>3 DEF Descends
          <6> QED  BY <1>2, <5>1, <5>2, <5>4, <6>3, <6>4, <6>5 DEF Ends
        <5>5. CASE c.token # None /\ lastWord["events"] = "overtaken"
          BY <5>2, <5>5 DEF Ends
        <5> QED  BY <5>3, <5>4, <5>5
      <4> QED  BY <4>1, <4>2
    <3> QED  BY <3>1, <3>3 DEF Paged, Ends
  <2>4. CASE c.overtaken
    <3>1. lastWord'["events"] = IF a.ok THEN "overtaken" ELSE lastWord["events"]
      BY <1>2, <1>9, <2>1, <2>4 DEF Heard
    <3>2. ~a.ok => incidentEvents' = incidentEvents /\ eventsNextToken' = eventsNextToken
      BY <1>2 DEF shown
    <3>3. Ends'
      BY <1>2, <1>7, <3>1, <3>2 DEF Ends, Descends
    <3>4. \A d \in Fresh(calls', "events") :
            IF d.token = None THEN d.by = "user" => d.id = selectedId
            ELSE lastWord["events"] # "overtaken" =>
                   incidentEvents # <<>> /\ Last(incidentEvents) = d.token
      BY <1>6, <2>1 DEF Paged
    <3>5. \A d \in Fresh(calls', "events") :
            IF d.token = None THEN d.by = "user" => d.id = selectedId'
            ELSE lastWord'["events"] # "overtaken" =>
                   incidentEvents' # <<>> /\ Last(incidentEvents)' = d.token
      BY <1>2, <3>1, <3>2, <3>4
    <3> QED  BY <3>3, <3>5 DEF Paged, Ends
  <2> QED  BY <2>3, <2>4
<1> QED  BY <1>8, <1>9

LEMMA NextPaged ==
  ASSUME Basic, Paged, [Next]_vars
  PROVE  Paged'
<1>1. /\ lastWord \in [Panels -> {"none", "user", "other", "overtaken"}]
      /\ tenantId \in Tenants /\ (selectedId # None => selectedId \in Incidents)
      /\ CallsOK(calls)
  BY DEF Basic, Typed
<1>2. Ends
  BY DEF Paged, Ends
<1>3. ASSUME Ends', Fresh(calls', "events") = {} PROVE Paged'
  BY <1>3 DEF Paged, Ends
<1>4. ASSUME Ends', NEW i \in Incidents, selectedId' = i, NEW cs,
             Asks(cs, loadSelection(tenantId, i))
      PROVE  Paged'
  <2>1. \A c \in Fresh(calls', "events") : c.token = None /\ c.id = selectedId'
    BY <1>4, AskedPaged
  <2> QED  BY <1>4, <2>1 DEF Paged, Ends
<1>5. ASSUME NEW i \in Incidents, Select(i) PROVE Paged'
  <2>1. Ends' /\ selectedId' = i
    BY <1>5, ClearedEnds DEF Select
  <2> QED  BY <1>4, <1>5, <2>1, UserAsks
<1>6. ASSUME NEW t \in Tenants, ChangeTenant(t) PROVE Paged'
  <2>1. Ends'
    BY <1>6, ClearedEnds DEF ChangeTenant
  <2>2. PICK S : S = loadDropped(t)
    OBVIOUS
  <2>3. Makes(WithoutPanels(calls), S, loading)
    BY <1>6, <2>2 DEF ChangeTenant
  <2>4. New(S) /\ \A c \in S : c.overtaken
    BY <2>2, DroppedIs DEF Basic
  <2>5. Fresh(calls', "events") = {}
    BY <2>3, <2>4, NoneFresh, Kinded DEF Basic
  <2> QED  BY <1>3, <2>1, <2>5
<1>7. ASSUME Reconnect PROVE Paged'
  <2>1. Ends' /\ selectedId' = selectedId
    BY <1>7, ClearedEnds DEF Reconnect
  <2>2. CASE selectedId = None
    <3>1. Makes(WithoutPanels(calls), {}, loading)
      BY <1>7, <2>2 DEF Reconnect
    <3>2. Fresh(calls', "events") = {}
      BY <3>1, NoneFresh, Kinded DEF Basic, New
    <3> QED  BY <1>3, <2>1, <3>2
  <2>3. CASE selectedId # None
    BY <1>1, <1>4, <1>7, <2>1, <2>3, UserAsks
  <2> QED  BY <2>2, <2>3
<1>8. ASSUME UNCHANGED <<selectedId, incidentEvents, eventsNextToken, lastWord>> PROVE Ends'
  BY <1>2, <1>8 DEF Ends, Descends
<1>9. ASSUME RefreshDetail PROVE Paged'
  <2>1. selectedId' = selectedId /\ selectedId # None /\ Ends'
    BY <1>8, <1>9 DEF RefreshDetail, shown
  <2> QED  BY <1>1, <1>4, <1>9, <2>1, UserAsks
<1>10. ASSUME LoadMore PROVE Paged'
  <2>1. PICK S : S = {Call("events", tenantId, selectedIncident.id, eventsNextToken, "user")}
    OBVIOUS
  <2>2. Asks(calls, S)
    BY <1>10, <2>1, UserAsks
  <2>3. \A c \in S : c.kind = "events" /\ c.token = eventsNextToken /\ c.token # None
    BY <1>10, <2>1 DEF LoadMore, Call
  <2>4. \E c \in S : c.kind = "events"
    BY <2>1, <2>3
  <2>5. \A c \in Fresh(calls', "events") : c \in S
    BY <2>2, <2>4, FreshIs, Kinded DEF Asks
  <2>6. UNCHANGED <<selectedId, incidentEvents, eventsNextToken, lastWord>>
    BY <1>10 DEF LoadMore, shown
  <2>7. Ends'
    BY <1>8, <2>6
  <2>8. lastWord["events"] # "overtaken" /\ eventsNextToken # None =>
          incidentEvents # <<>> /\ Last(incidentEvents) = eventsNextToken
    BY <1>2 DEF Ends
  <2>9. \A c \in Fresh(calls', "events") :
          c.token # None /\ (lastWord'["events"] # "overtaken" =>
                               incidentEvents' # <<>> /\ Last(incidentEvents)' = c.token)
    BY <2>3, <2>5, <2>6, <2>8
  <2> QED  BY <2>7, <2>9 DEF Paged, Ends
<1>11. ASSUME UNCHANGED <<selectedId, incidentEvents, eventsNextToken, lastWord>>,
              \A d \in Fresh(calls', "events") : \E c \in Fresh(calls, "events") : Like(c, d)
       PROVE  Paged'
  <2>1. ASSUME NEW d \in Fresh(calls', "events")
        PROVE  IF d.token = None THEN d.by = "user" => d.id = selectedId'
               ELSE lastWord'["events"] # "overtaken" =>
                      incidentEvents' # <<>> /\ Last(incidentEvents)' = d.token
    <3>1. PICK c \in Fresh(calls, "events") : Like(c, d)
      BY <1>11
    <3>2. d.token = c.token /\ d.by = c.by /\ d.id = c.id
      BY <3>1 DEF Like
    <3> QED  BY <1>11, <3>2 DEF Paged
  <2> QED  BY <1>8, <1>11, <2>1 DEF Paged, Ends
<1>12. ASSUME Act PROVE Paged'
  <2>1. Call("action", tenantId, selectedIncident.id, None, "action").kind # "events"
    BY DEF Call
  <2>2. Fresh(calls', "events") = Fresh(calls, "events")
    BY <1>12, <2>1, UserAsks, FreshIs, Kinded DEF Asks
  <2>3. UNCHANGED <<selectedId, incidentEvents, eventsNextToken, lastWord>>
    BY <1>12 DEF Act, shown
  <2> QED  BY <1>11, <2>2, <2>3 DEF Like
<1>13. ASSUME NEW n \in DOMAIN calls["events"], Serve(n) PROVE Paged'
  <2>1. UNCHANGED <<selectedId, incidentEvents, eventsNextToken, lastWord>>
    BY <1>13 DEF Serve, shown
  <2>2. \A d \in In(calls', "events") : \E c \in In(calls, "events") : Like(c, d)
    BY <1>13, ServeIs DEF Basic
  <2>3. \A d \in Fresh(calls', "events") : \E c \in Fresh(calls, "events") : Like(c, d)
    BY <2>2 DEF Fresh, Like
  <2> QED  BY <1>11, <2>1, <2>3
<1>14. ASSUME NEW k \in Kinds, \E c, a, cs : Answered(k, c, a, cs) PROVE Paged'
  BY <1>14, AnsweredPaged
<1>15. CASE Arrive \/ UNCHANGED vars
  <2>1. UNCHANGED <<selectedId, incidentEvents, eventsNextToken, lastWord, calls>>
    BY <1>15 DEF Arrive, vars, shown
  <2>2. Fresh(calls', "events") = Fresh(calls, "events")
    BY <2>1 DEF Fresh, In
  <2> QED  BY <1>11, <2>1, <2>2 DEF Like
<1> QED  BY <1>5, <1>6, <1>7, <1>9, <1>10, <1>12, <1>13, <1>14, <1>15, Steps

\* The timeline is one incident's and in order, and its token names its last
\* event, as long as no overtaken call has had its say; it is the selected one's
\* when the user asked for it.
THEOREM TimelineHolds == Spec => []TimelineIsInOrder
<1>1. Init => Basic /\ Paged
  <2>1. ASSUME Init PROVE Paged
    <3>1. /\ Basic /\ lastWord["events"] = "none"
          /\ incidentEvents = <<>> /\ eventsNextToken = None
      BY <2>1, InitBasic, Kinded DEF Init, ConsoleInit
    <3>2. calls["events"] = <<>>
      BY <2>1, Kinded DEF Init, ConsoleInit
    <3>3. Fresh(calls, "events") = {}
      BY <3>1, <3>2, InIs, Kinded DEF Basic, Typed, Fresh
    <3>4. DOMAIN incidentEvents = {}
      BY <3>1
    <3> QED  BY <3>1, <3>3, <3>4 DEF Paged, Descends
  <2> QED  BY <2>1, InitBasic
<1>2. Basic /\ Paged /\ [Next]_vars => (Basic /\ Paged)'
  BY NextBasic, NextPaged
<1>3. Basic /\ Paged => TimelineIsInOrder
  BY PagedIs
<1> QED  BY <1>1, <1>2, <1>3, PTL DEF Spec
=============================================================================
