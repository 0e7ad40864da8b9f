----------------------------- MODULE DoctorProofs -----------------------------
(***************************************************************************)
(* What the Doctor's rules promise of every trace context, whatever system   *)
(* the trace is of: who is blamed is blamed on evidence, a verdict outlives  *)
(* what is captured later, and less evidence adds no blame.                  *)
(***************************************************************************)
EXTENDS CaptureTrace, WellFoundedInduction, TLAPS

-----------------------------------------------------------------------------
(* Operators *)

LEMMA Least ==
    ASSUME NEW S \in SUBSET Nat, S # {}
    PROVE  Min(S) \in S /\ \A y \in S : Min(S) <= y
<1> DEFINE R == OpToRel(<, Nat)
<1>1. IsWellFoundedOn(R, Nat)
  BY NatLessThanWellFounded
<1>2. \A x, y \in Nat : y < x => <<y, x>> \in R
  BY DEF OpToRel
<1> HIDE DEF R
<1>3. PICK x \in S : \A y \in S : ~(<<y, x>> \in R)
  BY <1>1, WFMin
<1>4. ASSUME NEW y \in S PROVE x <= y
  <2>1. x \in Nat /\ y \in Nat /\ ~(y < x)
    BY <1>2, <1>3
  <2> QED
    BY <2>1
<1>5. \E z \in S : \A y \in S : z <= y
  BY <1>4
<1> QED
  BY <1>5 DEF Min

LEMMA Greatest ==
    ASSUME NEW n \in Nat, NEW S \in SUBSET (0 .. n), S # {}
    PROVE  Max(S) \in S /\ \A y \in S : y <= Max(S)
<1> DEFINE T == {k \in Nat : \E y \in S : k = n - y}
<1>1. \A y \in S : n - y \in T
  OBVIOUS
<1>2. T \in SUBSET Nat /\ T # {}
  BY <1>1
<1>3. Min(T) \in T /\ \A z \in T : Min(T) <= z
  BY <1>2, Least
<1>4. PICK x \in S : Min(T) = n - x
  BY <1>3
<1>5. ASSUME NEW y \in S PROVE x >= y
  <2>1. n - x <= n - y
    BY <1>1, <1>3, <1>4
  <2> QED
    BY <2>1
<1>6. \E z \in S : \A y \in S : z >= y
  BY <1>5
<1>7. Max(S) \in S /\ \A y \in S : Max(S) >= y
  BY <1>6 DEF Max
<1> QED
  BY <1>7

(* Every finding comes from one of the rules. *)
LEMMA Sources ==
    ASSUME NEW c, NEW f \in Analyze(c)
    PROVE  \/ \E i \in Changed(c) : f = ChangedFinding(c, i) \/ f = ResponseFinding(c, i)
           \/ \E i : f = Finding("LAB-D1-REPEATED-ORDER-UNKNOWN", i, "INCONCLUSIVE", "UNRESOLVED")
           \/ \E i : f = Finding("LAB-D1-REPEATED-ORDER-APPLICABILITY", i, "UNEVALUATED", "UNRESOLVED")
           \/ f \in GraphFindings(c) \/ f \in BaseRequestFindings(c)
           \/ f \in ReconnectFindings(c) \/ f \in CancelFindings(c)
BY DEF Analyze, RepeatedOrderFindings

LEMMA FindingFields ==
    ASSUME NEW rule, NEW i, NEW verdict, NEW target
    PROVE  /\ Finding(rule, i, verdict, target).rule = rule
           /\ Finding(rule, i, verdict, target).event = i
           /\ Finding(rule, i, verdict, target).verdict = verdict
           /\ Finding(rule, i, verdict, target).target = target
BY DEF Finding

(* How a rule comes to a FAIL. *)
LEMMA FailSources ==
    ASSUME NEW c, NEW f \in Analyze(c), f.verdict = "FAIL"
    PROVE  \/ /\ f.event \in Changed(c) /\ ProvenRole(c, f.event, "FLEET_CONTROL")
              /\ f = Finding("LAB-D1-REPEATED-ORDER-CHANGED", f.event, "FAIL", "FLEET_CONTROL")
           \/ /\ f.event \in Changed(c)
              /\ CurrentOrderProven(c, f.event) /\ ~HasWarning(c, f.event)
              /\ AbsenceProvable(c, f.event)
              /\ f = Finding("VDA300-D1-MOBILE-ROBOT-CHANGED-RESPONSE", f.event, "FAIL",
                             "MOBILE_ROBOT")
           \/ /\ f.event \in Events(c, "order") /\ c.events[f.event].broken
              /\ ProvenRole(c, f.event, "FLEET_CONTROL")
              /\ f = Finding("LAB-D2-GRAPH-STITCHING", f.event, "FAIL", "FLEET_CONTROL")
           \/ /\ f.event \in Events(c, "state") /\ c.events[f.event].request
              /\ ~BaseAnswered(c, f.event) /\ AbsenceProvable(c, f.event)
              /\ f = Finding("LAB-D3-NEW-BASE-REQUEST", f.event, "FAIL", "FLEET_CONTROL")
           \/ /\ f.event \in Disconnections(c) /\ ~BackOnline(c, f.event)
              /\ ReconnectProven(c, f.event) /\ AbsenceProvable(c, f.event)
              /\ f = Finding("LAB-D4-RECONNECT-STATE", f.event, "FAIL", "MOBILE_ROBOT")
           \/ /\ f.event \in Cancels(c) /\ ~CancelTerminated(c, f.event)
              /\ AbsenceProvable(c, f.event)
              /\ f = Finding("LAB-D5-CANCEL-LIFECYCLE", f.event, "FAIL", "MOBILE_ROBOT")
<1>1. CASE \E i \in Changed(c) : f = ChangedFinding(c, i)
  BY <1>1, FindingFields DEF ChangedFinding
<1>2. CASE \E i \in Changed(c) : f = ResponseFinding(c, i)
  BY <1>2, FindingFields DEF ResponseFinding
<1>3. CASE f \in GraphFindings(c)
  BY <1>3, FindingFields DEF GraphFindings
<1>4. CASE f \in BaseRequestFindings(c)
  BY <1>4, FindingFields DEF BaseRequestFindings, GatedFinding
<1>5. CASE f \in ReconnectFindings(c)
  BY <1>5, FindingFields DEF ReconnectFindings, GatedFinding
<1>6. CASE f \in CancelFindings(c)
  BY <1>6, FindingFields DEF CancelFindings, GatedFinding
<1> QED
  BY <1>1, <1>2, <1>3, <1>4, <1>5, <1>6, Sources, FindingFields

(* Nobody is blamed without the evidence manifest's role attribution; a robot, *)
(* and a fleet control for what it did not send, only in a closed capture that *)
(* is CONFIRMED_FOR_RULE, at a known time (PROTOCOL_SOURCES.md 103-113).       *)
THEOREM BlameNeedsEvidence ==
    ASSUME NEW c, NEW f \in Analyze(c), f.verdict = "FAIL"
    PROVE  /\ c.roles /\ f.target \in {"FLEET_CONTROL", "MOBILE_ROBOT"}
           /\ f.target = "MOBILE_ROBOT" => AbsenceProvable(c, f.event)
           /\ f.rule = "LAB-D3-NEW-BASE-REQUEST" => AbsenceProvable(c, f.event)
BY FailSources, FindingFields DEF ProvenRole, AbsenceProvable
-----------------------------------------------------------------------------
(* Two contexts of the same trace *)

(* What the rules read of an event, its time aside. *)
SameReading(a, b) ==
    /\ a.topic = b.topic /\ a.role = b.role
    /\ a.participant = b.participant /\ a.epoch = b.epoch
    /\ a.topic = "order" =>
           /\ a.order = b.order /\ a.update = b.update
           /\ a.content = b.content /\ a.broken = b.broken
    /\ a.topic = "state" =>
           /\ a.order = b.order /\ a.update = b.update /\ a.request = b.request
           /\ a.warning = b.warning /\ a.finished = b.finished
    /\ a.topic = "connection" => a.value = b.value
    /\ a.topic = "instantActions" => a.cancel = b.cancel

Numbered(c, n) == n \in Nat /\ DOMAIN c.events = 1 .. n

(* d holds the events of c, and maybe later ones. *)
Continues(c, d) ==
    /\ \E m, n \in Nat : m <= n /\ Numbered(c, m) /\ Numbered(d, n)
    /\ \A i \in DOMAIN c.events : SameReading(c.events[i], d.events[i])

(* An order is judged by what came before it. *)
LEMMA SamePast ==
    ASSUME NEW c, NEW d, Continues(c, d), NEW i \in Events(c, "order")
    PROVE  /\ i \in Events(d, "order")
           /\ EarlierSameUpdate(c, i) = EarlierSameUpdate(d, i)
           /\ Previous(c, i) = Previous(d, i)
<1>1. PICK m \in Nat, n \in Nat : m <= n /\ Numbered(c, m) /\ Numbered(d, n)
  BY DEF Continues
<1>2. i \in 1 .. m /\ i \in 1 .. n
  BY <1>1 DEF Events, Numbered
<1>3. \A j \in 1 .. m : SameReading(c.events[j], d.events[j])
  BY <1>1 DEF Continues, Numbered
<1>4. i \in Events(d, "order")
  BY <1>1, <1>2, <1>3 DEF Events, Numbered, SameReading
<1>5. ASSUME NEW j, j \in 1 .. m, j < i
      PROVE  j \in EarlierSameUpdate(c, i) <=> j \in EarlierSameUpdate(d, i)
  BY <1>1, <1>2, <1>3, <1>5 DEF Events, Numbered, SameReading, EarlierSameUpdate, SameUpdate
<1>6. \A j : j \in EarlierSameUpdate(c, i) \/ j \in EarlierSameUpdate(d, i) =>
                 j \in 1 .. m /\ j < i
  BY <1>1, <1>2 DEF EarlierSameUpdate, Events, Numbered
<1>7. EarlierSameUpdate(c, i) = EarlierSameUpdate(d, i)
  BY <1>5, <1>6
<1> QED
  BY <1>4, <1>7 DEF Previous

(* The earlier publication an order is compared with. *)
LEMMA PreviousIsLast ==
    ASSUME NEW c, NEW n, Numbered(c, n), NEW i \in Repeats(c)
    PROVE  /\ Previous(c, i) \in EarlierSameUpdate(c, i)
           /\ Previous(c, i) \in 1 .. n /\ i \in 1 .. n /\ Previous(c, i) < i
           /\ \A j \in EarlierSameUpdate(c, i) : j <= Previous(c, i)
<1>1. EarlierSameUpdate(c, i) # {} /\ EarlierSameUpdate(c, i) \in SUBSET (0 .. n)
  BY DEF Repeats, EarlierSameUpdate, Events, Numbered
<1>2. /\ Previous(c, i) \in EarlierSameUpdate(c, i)
      /\ \A j \in EarlierSameUpdate(c, i) : j <= Previous(c, i)
  BY <1>1, Greatest DEF Numbered, Previous
<1> QED
  BY <1>2 DEF EarlierSameUpdate, Events, Numbered, Repeats

LEMMA ChangedStands ==
    ASSUME NEW c, NEW d, Continues(c, d), NEW i \in Changed(c)
    PROVE  i \in Changed(d)
<1>1. i \in Repeats(c) /\ i \in Events(c, "order")
  BY DEF Changed, Repeats
<1>2. /\ i \in Repeats(d) /\ Previous(c, i) = Previous(d, i)
  BY <1>1, SamePast DEF Repeats
<1>3. Previous(c, i) \in Events(c, "order")
  BY <1>1, PreviousIsLast DEF Continues, EarlierSameUpdate
<1>4. RepeatRelation(c, i) = RepeatRelation(d, i)
  BY <1>1, <1>2, <1>3 DEF RepeatRelation, Events, Continues, SameReading
<1> QED
  BY <1>2, <1>4 DEF Changed

LEMMA ProofStands ==
    ASSUME NEW c, NEW d, Continues(c, d), c.roles => d.roles, NEW i \in Changed(c)
    PROVE  CurrentOrderProven(c, i) => CurrentOrderProven(d, i)
<1> SUFFICES ASSUME CurrentOrderProven(c, i) PROVE CurrentOrderProven(d, i)
  OBVIOUS
<1>1. PICK k \in Events(c, "state") :
        /\ Previous(c, i) < k /\ k < i
        /\ ProvenRole(c, k, "MOBILE_ROBOT")
        /\ SameKnownParticipant(c.events[i], c.events[k])
        /\ SameUpdate(c.events[i], c.events[k])
  BY DEF CurrentOrderProven
<1>2. i \in Events(c, "order") /\ Previous(c, i) = Previous(d, i)
  BY SamePast DEF Changed, Repeats
<1>3. SameReading(c.events[i], d.events[i]) /\ SameReading(c.events[k], d.events[k])
  BY <1>1, <1>2 DEF Events, Continues
<1>4. k \in Events(d, "state")
  BY <1>1, <1>3 DEF Events, Continues, SameReading, Numbered
<1>5. ProvenRole(d, k, "MOBILE_ROBOT")
  BY <1>1, <1>3 DEF ProvenRole, SameReading
<1>6. /\ SameKnownParticipant(d.events[i], d.events[k])
      /\ SameUpdate(d.events[i], d.events[k])
  BY <1>1, <1>2, <1>3 DEF Events, SameReading, SameKnownParticipant, SameUpdate
<1> QED
  BY <1>1, <1>2, <1>4, <1>5, <1>6 DEF CurrentOrderProven

(* The first state after an order stays the first. *)
LEMMA SameResponse ==
    ASSUME NEW c, NEW d, Continues(c, d), NEW i \in Events(c, "order"),
           Responses(c, i) # {}
    PROVE  /\ Responses(d, i) # {} /\ Min(Responses(c, i)) = Min(Responses(d, i))
           /\ Min(Responses(c, i)) \in Events(c, "state")
<1>1. PICK m \in Nat, n \in Nat : m <= n /\ Numbered(c, m) /\ Numbered(d, n)
  BY DEF Continues
<1>2. /\ \A j \in 1 .. m : SameReading(c.events[j], d.events[j])
      /\ i \in 1 .. m
  BY <1>1 DEF Continues, Numbered, Events
<1>3. ASSUME NEW k \in 1 .. m PROVE k \in Responses(c, i) <=> k \in Responses(d, i)
  BY <1>1, <1>2, SamePast DEF Responses, After, Events, Numbered, SameReading
<1>4. Responses(c, i) \in SUBSET (1 .. m) /\ Responses(d, i) \in SUBSET (1 .. n)
  BY <1>1 DEF Responses, After, Events, Numbered
<1> DEFINE x == Min(Responses(c, i))
           y == Min(Responses(d, i))
<1>5. x \in Responses(c, i) /\ \A k \in Responses(c, i) : x <= k
  <2>1. Responses(c, i) \in SUBSET Nat
    BY <1>4
  <2> QED
    BY <2>1, Least
<1>6. Responses(d, i) # {}
  BY <1>3, <1>4, <1>5
<1>7. y \in Responses(d, i) /\ \A k \in Responses(d, i) : y <= k
  <2>1. Responses(d, i) \in SUBSET Nat
    BY <1>4
  <2> QED
    BY <2>1, <1>6, Least
<1>8. x \in 1 .. m /\ y \in 1 .. n /\ y <= x /\ y \in 1 .. m
  BY <1>3, <1>4, <1>5, <1>7
<1>9. x <= y
  BY <1>3, <1>5, <1>7, <1>8
<1> QED
  BY <1>5, <1>6, <1>8, <1>9 DEF Responses, After

(* The findings of d that stand for a FAIL of c. *)
LEMMA FailIsReported ==
    ASSUME NEW d, NEW i
    PROVE  /\ i \in Changed(d) /\ ProvenRole(d, i, "FLEET_CONTROL") =>
                  Finding("LAB-D1-REPEATED-ORDER-CHANGED", i, "FAIL", "FLEET_CONTROL") \in Analyze(d)
           /\ /\ i \in Changed(d) /\ CurrentOrderProven(d, i) /\ ~HasWarning(d, i)
              /\ AbsenceProvable(d, i)
              => Finding("VDA300-D1-MOBILE-ROBOT-CHANGED-RESPONSE", i, "FAIL", "MOBILE_ROBOT")
                     \in Analyze(d)
           /\ /\ i \in Events(d, "order") /\ d.events[i].broken
              /\ ProvenRole(d, i, "FLEET_CONTROL")
              => Finding("LAB-D2-GRAPH-STITCHING", i, "FAIL", "FLEET_CONTROL") \in Analyze(d)
           /\ /\ i \in Events(d, "state") /\ d.events[i].request
              /\ ~BaseAnswered(d, i) /\ AbsenceProvable(d, i)
              => Finding("LAB-D3-NEW-BASE-REQUEST", i, "FAIL", "FLEET_CONTROL") \in Analyze(d)
           /\ /\ i \in Disconnections(d) /\ ~BackOnline(d, i)
              /\ ReconnectProven(d, i) /\ AbsenceProvable(d, i)
              => Finding("LAB-D4-RECONNECT-STATE", i, "FAIL", "MOBILE_ROBOT") \in Analyze(d)
           /\ i \in Cancels(d) /\ ~CancelTerminated(d, i) /\ AbsenceProvable(d, i)
              => Finding("LAB-D5-CANCEL-LIFECYCLE", i, "FAIL", "MOBILE_ROBOT") \in Analyze(d)
<1>1. i \in Changed(d) => ChangedFinding(d, i) \in Analyze(d) /\ ResponseFinding(d, i) \in Analyze(d)
  BY DEF Analyze, RepeatedOrderFindings
<1>2. i \in Changed(d) /\ ProvenRole(d, i, "FLEET_CONTROL") =>
          Finding("LAB-D1-REPEATED-ORDER-CHANGED", i, "FAIL", "FLEET_CONTROL") \in Analyze(d)
  BY <1>1 DEF ChangedFinding
<1>3. /\ i \in Changed(d) /\ CurrentOrderProven(d, i) /\ ~HasWarning(d, i)
      /\ AbsenceProvable(d, i)
      => Finding("VDA300-D1-MOBILE-ROBOT-CHANGED-RESPONSE", i, "FAIL", "MOBILE_ROBOT") \in Analyze(d)
  BY <1>1 DEF ResponseFinding
<1>4. /\ i \in Events(d, "order") /\ d.events[i].broken
      /\ ProvenRole(d, i, "FLEET_CONTROL")
      => Finding("LAB-D2-GRAPH-STITCHING", i, "FAIL", "FLEET_CONTROL") \in Analyze(d)
  BY DEF Analyze, GraphFindings
<1>5. /\ i \in Events(d, "state") /\ d.events[i].request
      /\ ~BaseAnswered(d, i) /\ AbsenceProvable(d, i)
      => Finding("LAB-D3-NEW-BASE-REQUEST", i, "FAIL", "FLEET_CONTROL") \in Analyze(d)
  BY DEF Analyze, BaseRequestFindings, GatedFinding
<1>6. /\ i \in Disconnections(d) /\ ~BackOnline(d, i)
      /\ ReconnectProven(d, i) /\ AbsenceProvable(d, i)
      => Finding("LAB-D4-RECONNECT-STATE", i, "FAIL", "MOBILE_ROBOT") \in Analyze(d)
  BY DEF Analyze, ReconnectFindings, GatedFinding
<1>7. i \in Cancels(d) /\ ~CancelTerminated(d, i) /\ AbsenceProvable(d, i)
      => Finding("LAB-D5-CANCEL-LIFECYCLE", i, "FAIL", "MOBILE_ROBOT") \in Analyze(d)
  BY DEF Analyze, CancelFindings, GatedFinding
<1> QED
  BY <1>2, <1>3, <1>4, <1>5, <1>6, <1>7

(* A warning that was looked at first still is. *)
LEMMA WarningStands ==
    ASSUME NEW c, NEW d, Continues(c, d), c.roles => d.roles,
           NEW i \in Events(c, "order"), HasWarning(c, i)
    PROVE  HasWarning(d, i)
<1> DEFINE k == Min(Responses(c, i))
<1>1. Responses(c, i) # {} /\ ReportsWarning(c, k)
  BY DEF HasWarning
<1>2. Responses(d, i) # {} /\ k = Min(Responses(d, i)) /\ k \in Events(c, "state")
  BY <1>1, SameResponse
<1> HIDE DEF k
<1>3. c.events[k].topic = "state" /\ SameReading(c.events[k], d.events[k])
  BY <1>2 DEF Events, Continues
<1>4. ReportsWarning(d, k)
  BY <1>1, <1>3 DEF ReportsWarning, ProvenRole, SameReading
<1> QED
  BY <1>2, <1>4 DEF HasWarning

(* An order's broken graph and what it proves of its sender stand. *)
LEMMA GraphStands ==
    ASSUME NEW c, NEW d, Continues(c, d), c.roles => d.roles,
           NEW i \in Events(c, "order")
    PROVE  /\ i \in Events(d, "order") /\ c.events[i].broken = d.events[i].broken
           /\ ProvenRole(c, i, "FLEET_CONTROL") => ProvenRole(d, i, "FLEET_CONTROL")
BY SamePast DEF Continues, Events, SameReading, ProvenRole

(* c and d are of the same trace; d has at least the evidence of c. *)
ProvesMore(c, d) ==
    /\ Continues(c, d) /\ Continues(d, c)
    /\ c.roles => d.roles
    /\ c.closed => d.closed
    /\ c.confirmed => d.confirmed
    /\ \A i \in DOMAIN c.events : c.events[i].timed => d.events[i].timed

LEMMA SameEvents ==
    ASSUME NEW c, NEW d, Continues(c, d), Continues(d, c)
    PROVE  /\ DOMAIN c.events = DOMAIN d.events
           /\ \A i \in DOMAIN c.events : SameReading(c.events[i], d.events[i])
           /\ \A i, j \in DOMAIN c.events : i \in Nat /\ j \in Nat
           /\ \A topic : Events(c, topic) = Events(d, topic)
<1>1. PICK m \in Nat, n \in Nat : m <= n /\ Numbered(c, m) /\ Numbered(d, n)
  BY DEF Continues
<1>2. PICK q \in Nat, p \in Nat : q <= p /\ Numbered(d, q) /\ Numbered(c, p)
  BY DEF Continues
<1>3. m = p /\ n = q
  BY <1>1, <1>2 DEF Numbered
<1>4. DOMAIN c.events = DOMAIN d.events /\ DOMAIN c.events = 1 .. m
  BY <1>1, <1>2, <1>3 DEF Numbered
<1>5. \A i \in DOMAIN c.events : SameReading(c.events[i], d.events[i])
  BY DEF Continues
<1> QED
  BY <1>4, <1>5 DEF Events, SameReading

(* An absence in d's trace is one in c's. *)
LEMMA AbsencesStand ==
    ASSUME NEW c, NEW d, ProvesMore(c, d)
    PROVE  /\ \A i : i \in Events(c, "state") /\ c.events[i].request /\ ~BaseAnswered(c, i) =>
                        i \in Events(d, "state") /\ d.events[i].request /\ ~BaseAnswered(d, i)
           /\ \A i : i \in Disconnections(c) /\ ~BackOnline(c, i) =>
                        i \in Disconnections(d) /\ ~BackOnline(d, i)
           /\ \A i : i \in Disconnections(c) /\ ReconnectProven(c, i) => ReconnectProven(d, i)
           /\ \A i : i \in Cancels(c) /\ ~CancelTerminated(c, i) =>
                        i \in Cancels(d) /\ ~CancelTerminated(d, i)
           /\ \A i \in DOMAIN c.events : AbsenceProvable(c, i) => AbsenceProvable(d, i)
<1>1. /\ DOMAIN c.events = DOMAIN d.events
      /\ \A i \in DOMAIN c.events : SameReading(c.events[i], d.events[i])
      /\ \A topic : Events(c, topic) = Events(d, topic)
  BY SameEvents DEF ProvesMore
<1>2. \A i : After(c, i, "state") = After(d, i, "state") /\ After(c, i, "order") = After(d, i, "order")
             /\ After(c, i, "connection") = After(d, i, "connection")
  BY <1>1 DEF After
<1>3. ASSUME NEW i, i \in Events(c, "state"), c.events[i].request, ~BaseAnswered(c, i)
      PROVE  i \in Events(d, "state") /\ d.events[i].request /\ ~BaseAnswered(d, i)
  BY <1>1, <1>2, <1>3 DEF Events, After, BaseAnswered, SameReading
<1>4. ASSUME NEW i, i \in Disconnections(c), ~BackOnline(c, i)
      PROVE  i \in Disconnections(d) /\ ~BackOnline(d, i)
  BY <1>1, <1>2, <1>4 DEF Events, After, Disconnections, BackOnline, SameReading, SameKnownParticipant
<1>5. ASSUME NEW i, i \in Disconnections(c), ReconnectProven(c, i) PROVE ReconnectProven(d, i)
  BY <1>1, <1>5 DEF ProvesMore, Events, Disconnections, ReconnectProven, SameReading,
                   SameKnownParticipant, DifferentKnownEpoch, ProvenRole
<1>6. ASSUME NEW i, i \in Cancels(c), ~CancelTerminated(c, i)
      PROVE  i \in Cancels(d) /\ ~CancelTerminated(d, i)
  BY <1>1, <1>2, <1>6 DEF Events, After, Cancels, CancelTerminated, SameReading
<1>7. ASSUME NEW i \in DOMAIN c.events, AbsenceProvable(c, i) PROVE AbsenceProvable(d, i)
  BY <1>1, <1>7 DEF ProvesMore, AbsenceProvable
<1> QED
  BY <1>3, <1>4, <1>5, <1>6, <1>7

(* Less evidence blames nobody: a FAIL that a context without a close, without *)
(* CONFIRMED_FOR_RULE, without roles or without times comes to is one with     *)
(* them, too (apps/vda5050-doctor lib.rs 163-168).                            *)
THEOREM EvidenceOnlyAdds ==
    ASSUME NEW c, NEW d, ProvesMore(c, d), NEW f \in Analyze(c), f.verdict = "FAIL"
    PROVE  f \in Analyze(d)
<1> DEFINE i == f.event
<1>1. /\ Continues(c, d) /\ Continues(d, c)
      /\ c.roles => d.roles
  BY DEF ProvesMore
<1>2. \A k : k \in Changed(c) => k \in Changed(d) /\ k \in Events(c, "order")
                                    /\ k \in Events(d, "order")
  BY <1>1, ChangedStands, SamePast DEF Changed, Repeats
<1>3. \A k : k \in Events(c, "order") \/ k \in Events(c, "state") \/ k \in Disconnections(c)
             \/ k \in Cancels(c) => k \in DOMAIN c.events
  BY DEF Events, Disconnections, Cancels
<1>4. CASE /\ i \in Changed(c) /\ ProvenRole(c, i, "FLEET_CONTROL")
           /\ f = Finding("LAB-D1-REPEATED-ORDER-CHANGED", i, "FAIL", "FLEET_CONTROL")
  BY <1>1, <1>2, <1>4, GraphStands, FailIsReported
<1>5. CASE /\ i \in Changed(c)
           /\ CurrentOrderProven(c, i) /\ ~HasWarning(c, i) /\ AbsenceProvable(c, i)
           /\ f = Finding("VDA300-D1-MOBILE-ROBOT-CHANGED-RESPONSE", i, "FAIL", "MOBILE_ROBOT")
  <2>1. CurrentOrderProven(d, i) /\ AbsenceProvable(d, i)
    BY <1>1, <1>2, <1>3, <1>5, ProofStands, AbsencesStand
  <2>2. ~HasWarning(d, i)
    <3>1. d.roles => c.roles
      BY <1>5 DEF AbsenceProvable
    <3> QED
      BY <1>1, <1>2, <1>5, <3>1, WarningStands
  <2> QED
    BY <1>2, <1>5, <2>1, <2>2, FailIsReported
<1>6. CASE /\ i \in Events(c, "order") /\ c.events[i].broken
           /\ ProvenRole(c, i, "FLEET_CONTROL")
           /\ f = Finding("LAB-D2-GRAPH-STITCHING", i, "FAIL", "FLEET_CONTROL")
  BY <1>1, <1>6, GraphStands, FailIsReported
<1>7. CASE /\ i \in Events(c, "state") /\ c.events[i].request
           /\ ~BaseAnswered(c, i) /\ AbsenceProvable(c, i)
           /\ f = Finding("LAB-D3-NEW-BASE-REQUEST", i, "FAIL", "FLEET_CONTROL")
  BY <1>3, <1>7, AbsencesStand, FailIsReported
<1>8. CASE /\ i \in Disconnections(c) /\ ~BackOnline(c, i)
           /\ ReconnectProven(c, i) /\ AbsenceProvable(c, i)
           /\ f = Finding("LAB-D4-RECONNECT-STATE", i, "FAIL", "MOBILE_ROBOT")
  BY <1>3, <1>8, AbsencesStand, FailIsReported
<1>9. CASE /\ i \in Cancels(c) /\ ~CancelTerminated(c, i) /\ AbsenceProvable(c, i)
           /\ f = Finding("LAB-D5-CANCEL-LIFECYCLE", i, "FAIL", "MOBILE_ROBOT")
  BY <1>3, <1>9, AbsencesStand, FailIsReported
<1> QED
  BY <1>4, <1>5, <1>6, <1>7, <1>8, <1>9, FailSources

(* A verdict stands: PASS and FAIL are not withdrawn by what is captured       *)
(* later, nor by the close; a closed capture gets no more events.             *)
THEOREM VerdictsStand ==
    ASSUME NEW c, NEW d, Continues(c, d), c.roles = d.roles,
           c.closed => ProvesMore(c, d),
           NEW f \in Analyze(c), f.verdict \in {"PASS", "FAIL"}
    PROVE  f \in Analyze(d)
<1>1. CASE c.closed /\ f.verdict = "FAIL"
  BY <1>1, EvidenceOnlyAdds
<1>2. CASE ~c.closed /\ f.verdict = "FAIL"
  <2>1. \A k : ~AbsenceProvable(c, k)
    BY <1>2 DEF AbsenceProvable
  <2>2. CASE /\ f.event \in Changed(c) /\ ProvenRole(c, f.event, "FLEET_CONTROL")
             /\ f = Finding("LAB-D1-REPEATED-ORDER-CHANGED", f.event, "FAIL", "FLEET_CONTROL")
    BY <2>2, ChangedStands, GraphStands, FailIsReported DEF Changed, Repeats
  <2>3. CASE /\ f.event \in Events(c, "order") /\ c.events[f.event].broken
             /\ ProvenRole(c, f.event, "FLEET_CONTROL")
             /\ f = Finding("LAB-D2-GRAPH-STITCHING", f.event, "FAIL", "FLEET_CONTROL")
    BY <2>3, GraphStands, FailIsReported
  <2> QED
    BY <1>2, <2>1, <2>2, <2>3, FailSources
<1>3. CASE f.verdict = "PASS"
  <2>1. PICK i \in Changed(c) : f = ResponseFinding(c, i)
    BY <1>3, Sources, FindingFields DEF ChangedFinding, GraphFindings, BaseRequestFindings,
         ReconnectFindings, CancelFindings, GatedFinding
  <2>2. CurrentOrderProven(c, i) /\ HasWarning(c, i)
    BY <1>3, <2>1, FindingFields DEF ResponseFinding
  <2>3. i \in Changed(d) /\ CurrentOrderProven(d, i) /\ HasWarning(d, i)
    BY <2>2, ChangedStands, ProofStands, WarningStands DEF Changed, Repeats
  <2>4. f = ResponseFinding(d, i)
    BY <2>1, <2>2, <2>3 DEF ResponseFinding
  <2> QED
    BY <2>3, <2>4 DEF Analyze, RepeatedOrderFindings
<1> QED
  BY <1>1, <1>2, <1>3

-----------------------------------------------------------------------------
(* A sender that changes the content of an update it has sent is found out,   *)
(* however many times it has sent it and in whichever order: comparing with   *)
(* the last earlier publication only (crates/vda5050-doctor lib.rs 172-173)   *)
(* misses none.                                                               *)
THEOREM ChangeIsFound ==
    ASSUME NEW c, NEW n, Numbered(c, n),
           NEW i \in Events(c, "order"), NEW j \in Events(c, "order"),
           i < j, SameUpdate(c.events[i], c.events[j]),
           c.events[i].content.control # c.events[j].content.control
    PROVE  \E k \in Changed(c) : k <= j /\ SameUpdate(c.events[k], c.events[j])
<1> DEFINE Differ(p, q) ==
              /\ p < q /\ SameUpdate(c.events[p], c.events[q])
              /\ SameUpdate(c.events[q], c.events[j])
              /\ c.events[p].content.control # c.events[q].content.control
           S == {q \in Events(c, "order") : \E p \in Events(c, "order") : Differ(p, q)}
           k == Min(S)
<1>1. Events(c, "order") \in SUBSET (1 .. n) /\ n \in Nat
  BY DEF Events, Numbered
<1>2. j \in S
  BY DEF SameUpdate, SameId
<1>3. k \in S /\ \A q \in S : k <= q
  <2>1. S \in SUBSET Nat /\ S # {}
    BY <1>1, <1>2
  <2> HIDE DEF S
  <2> QED
    BY <2>1, Least
<1> HIDE DEF k
<1>4. PICK p \in Events(c, "order") : Differ(p, k)
  BY <1>3
<1>5. k \in Repeats(c) /\ p \in EarlierSameUpdate(c, k)
  BY <1>3, <1>4 DEF Repeats, EarlierSameUpdate
<1> DEFINE q == Previous(c, k)
<1>6. q \in EarlierSameUpdate(c, k) /\ q < k /\ p <= q
  BY <1>5, PreviousIsLast
<1> HIDE DEF q
<1>7. c.events[q].content.control # c.events[k].content.control
  <2> SUFFICES ASSUME c.events[q].content.control = c.events[k].content.control PROVE FALSE
    OBVIOUS
  <2>1. q \in Events(c, "order") /\ q # p /\ SameUpdate(c.events[p], c.events[q])
        /\ SameUpdate(c.events[q], c.events[j])
    BY <1>4, <1>6 DEF EarlierSameUpdate, SameUpdate, SameId
  <2>2. Differ(p, q)
    BY <1>1, <1>4, <1>6, <2>1
  <2>3. q \in S
    BY <2>1, <2>2
  <2> QED
    BY <1>1, <1>3, <1>6, <2>1, <2>3
<1>8. k \in Changed(c)
  BY <1>5, <1>7 DEF Changed, RepeatRelation, Relation, q
<1> QED
  BY <1>2, <1>3, <1>4, <1>8

-----------------------------------------------------------------------------
(* The reconnect rule on a recorder's capture *)

LEMMA EvidenceFields ==
    ASSUME NEW c, NEW i \in DOMAIN c
    PROVE  LET e == EvidenceContext(c).events[i]
           IN  /\ e.topic = c[i].topic /\ e.value = c[i].value /\ e.timed
               /\ FromFleet(c[i]) => e.role = <<"FLEET_CONTROL">>
               /\ ~FromFleet(c[i]) =>
                      /\ e.role = <<"MOBILE_ROBOT">> /\ e.participant = <<c[i].robot>>
                      /\ e.epoch = <<SessionOf(c, i)>>
BY DEF EvidenceContext, EvidenceEvent, Event

LEMMA EvidenceShape ==
    ASSUME NEW c
    PROVE  /\ DOMAIN EvidenceContext(c).events = DOMAIN c
           /\ EvidenceContext(c).closed /\ EvidenceContext(c).confirmed
           /\ EvidenceContext(c).roles
BY DEF EvidenceContext

(* The disconnection i is not followed by an ONLINE of its robot, but by a     *)
(* message the recorder attributes to another session of the robot.           *)
StaysSilent(c, i) ==
    /\ i \in DOMAIN c /\ c[i].topic = "connection"
    /\ c[i].value \in {"OFFLINE", "CONNECTION_BROKEN"}
    /\ \A k \in DOMAIN c :
           k > i /\ c[k].topic = "connection" /\ c[k].value = "ONLINE" => c[k].robot # c[i].robot
    /\ \E j \in DOMAIN c : /\ j > i /\ ~FromFleet(c[j]) /\ c[j].robot = c[i].robot
                           /\ SessionOf(c, j) # SessionOf(c, i)

(* With the recorder's manifest, who stays silent is blamed and nobody else.  *)
LEMMA ReconnectVerdict ==
    ASSUME NEW c
    PROVE  /\ \A i : StaysSilent(c, i) =>
                  \E f \in ReconnectFindings(EvidenceContext(c)) :
                      /\ f.event = i /\ f.verdict = "FAIL" /\ f.target = "MOBILE_ROBOT"
           /\ \A f \in ReconnectFindings(EvidenceContext(c)) :
                  f.verdict = "FAIL" => StaysSilent(c, f.event)
<1> DEFINE d == EvidenceContext(c)
<1>1. DOMAIN d.events = DOMAIN c /\ d.closed /\ d.confirmed /\ d.roles
  BY EvidenceShape
<1>2. \A i \in DOMAIN c :
          /\ d.events[i].topic = c[i].topic /\ d.events[i].value = c[i].value /\ d.events[i].timed
          /\ FromFleet(c[i]) => d.events[i].role = <<"FLEET_CONTROL">>
          /\ ~FromFleet(c[i]) =>
                 /\ d.events[i].role = <<"MOBILE_ROBOT">> /\ d.events[i].participant = <<c[i].robot>>
                 /\ d.events[i].epoch = <<SessionOf(c, i)>>
  BY EvidenceFields
<1> HIDE DEF d
<1>3. \A i \in DOMAIN c : c[i].topic = "connection" => ~FromFleet(c[i])
  BY DEF FromFleet
<1>4. \A i : i \in Disconnections(d) <=>
                 /\ i \in DOMAIN c /\ c[i].topic = "connection"
                 /\ c[i].value \in {"OFFLINE", "CONNECTION_BROKEN"}
  BY <1>1, <1>2 DEF Disconnections, Events
<1>5. \A i \in DOMAIN c : c[i].topic = "connection" =>
          (BackOnline(d, i) <=>
               \E k \in DOMAIN c : /\ k > i /\ c[k].topic = "connection"
                                   /\ c[k].value = "ONLINE" /\ c[k].robot = c[i].robot)
  BY <1>1, <1>2, <1>3 DEF BackOnline, After, Events, SameKnownParticipant, Unknown
<1>6. \A i \in DOMAIN c : c[i].topic = "connection" =>
          (ReconnectProven(d, i) <=>
               \E j \in DOMAIN c : /\ j > i /\ ~FromFleet(c[j]) /\ c[j].robot = c[i].robot
                                   /\ SessionOf(c, j) # SessionOf(c, i))
  <2> TAKE i \in DOMAIN c
  <2> HAVE c[i].topic = "connection"
  <2>1. ASSUME NEW j \in DOMAIN c
        PROVE  ProvenRole(d, j, "MOBILE_ROBOT") <=> ~FromFleet(c[j])
    BY <1>1, <1>2 DEF ProvenRole
  <2>2. ASSUME NEW j \in DOMAIN c, ~FromFleet(c[j])
        PROVE  /\ SameKnownParticipant(d.events[i], d.events[j]) <=> c[j].robot = c[i].robot
               /\ DifferentKnownEpoch(d.events[i], d.events[j])
                      <=> SessionOf(c, j) # SessionOf(c, i)
    BY <1>2, <1>3, <2>2 DEF SameKnownParticipant, DifferentKnownEpoch, Unknown
  <2> QED
    BY <1>1, <2>1, <2>2 DEF ReconnectProven
<1>7. \A i \in DOMAIN c : AbsenceProvable(d, i)
  BY <1>1, <1>2 DEF AbsenceProvable
<1>8. \A i : i \in Disconnections(d) /\ ~BackOnline(d, i) /\ ReconnectProven(d, i)
                 <=> StaysSilent(c, i)
  BY <1>4, <1>5, <1>6 DEF StaysSilent
<1>9. ASSUME NEW i, StaysSilent(c, i)
      PROVE  \E f \in ReconnectFindings(d) :
                 f.event = i /\ f.verdict = "FAIL" /\ f.target = "MOBILE_ROBOT"
  <2>1. PICK f : f = GatedFinding("LAB-D4-RECONNECT-STATE", d, i, "MOBILE_ROBOT",
                                  ReconnectProven(d, i))
    OBVIOUS
  <2>2. f \in ReconnectFindings(d)
    BY <1>8, <1>9, <2>1 DEF ReconnectFindings
  <2>3. f = Finding("LAB-D4-RECONNECT-STATE", i, "FAIL", "MOBILE_ROBOT")
    BY <1>4, <1>7, <1>8, <1>9, <2>1 DEF GatedFinding
  <2> QED
    BY <2>2, <2>3, FindingFields
<1>10. ASSUME NEW f \in ReconnectFindings(d), f.verdict = "FAIL"
       PROVE  StaysSilent(c, f.event)
  <2>1. PICK i \in Disconnections(d) :
            /\ ~BackOnline(d, i)
            /\ f = GatedFinding("LAB-D4-RECONNECT-STATE", d, i, "MOBILE_ROBOT",
                                ReconnectProven(d, i))
    BY DEF ReconnectFindings
  <2>2. ReconnectProven(d, i) /\ f.event = i
    BY <1>10, <2>1, FindingFields DEF GatedFinding
  <2> QED
    BY <1>8, <2>1, <2>2
<1> QED
  BY <1>9, <1>10 DEF d

(* Without it nobody is blamed, and every disconnection is reported.          *)
LEMMA PassiveVerdict ==
    ASSUME NEW c
    PROVE  /\ \A f \in ReconnectFindings(PassiveContext(c)) :
                  f.verdict = "INCONCLUSIVE" /\ f.target = "UNRESOLVED"
           /\ \A i \in DOMAIN c :
                  c[i].topic = "connection" /\ c[i].value \in {"OFFLINE", "CONNECTION_BROKEN"} =>
                      \E f \in ReconnectFindings(PassiveContext(c)) : f.event = i
<1> DEFINE d == PassiveContext(c)
<1>1. /\ DOMAIN d.events = DOMAIN c /\ ~d.roles
      /\ \A i \in DOMAIN c : /\ d.events[i].topic = c[i].topic /\ d.events[i].value = c[i].value
                             /\ d.events[i].participant = Unknown
  BY DEF PassiveContext, Event
<1> HIDE DEF d
<1>2. \A i : ~AbsenceProvable(d, i)
  BY <1>1 DEF AbsenceProvable
<1>3. \A i \in DOMAIN c : ~BackOnline(d, i)
  BY <1>1 DEF BackOnline, SameKnownParticipant
<1>4. \A f \in ReconnectFindings(d) : f.verdict = "INCONCLUSIVE" /\ f.target = "UNRESOLVED"
  BY <1>2, FindingFields DEF ReconnectFindings, GatedFinding
<1>5. ASSUME NEW i \in DOMAIN c, c[i].topic = "connection",
             c[i].value \in {"OFFLINE", "CONNECTION_BROKEN"}
      PROVE  \E f \in ReconnectFindings(d) : f.event = i
  <2>1. i \in Disconnections(d) /\ ~BackOnline(d, i)
    BY <1>1, <1>3, <1>5 DEF Disconnections, Events
  <2>2. GatedFinding("LAB-D4-RECONNECT-STATE", d, i, "MOBILE_ROBOT", ReconnectProven(d, i))
            \in ReconnectFindings(d)
    BY <2>1 DEF ReconnectFindings
  <2> QED
    BY <1>2, <2>2, FindingFields DEF GatedFinding
<1> QED
  BY <1>4, <1>5 DEF d

(* Whose every disconnection is followed by an ONLINE of its robot is clean.   *)
LEMMA CleanVerdict ==
    ASSUME NEW c,
           \A i \in DOMAIN c :
               c[i].topic = "connection" /\ c[i].value \in {"OFFLINE", "CONNECTION_BROKEN"} =>
                   \E k \in DOMAIN c : /\ k > i /\ c[k].topic = "connection"
                                       /\ c[k].value = "ONLINE" /\ c[k].robot = c[i].robot
    PROVE  ReconnectFindings(EvidenceContext(c)) = {}
<1> DEFINE d == EvidenceContext(c)
<1>1. /\ DOMAIN d.events = DOMAIN c
      /\ \A i \in DOMAIN c :
             /\ d.events[i].topic = c[i].topic /\ d.events[i].value = c[i].value
             /\ ~FromFleet(c[i]) => d.events[i].participant = <<c[i].robot>>
  BY EvidenceShape, EvidenceFields
<1> HIDE DEF d
<1>2. \A i \in DOMAIN c : c[i].topic = "connection" => ~FromFleet(c[i])
  BY DEF FromFleet
<1>3. ASSUME NEW i \in Disconnections(d) PROVE BackOnline(d, i)
  <2>1. i \in DOMAIN c /\ c[i].topic = "connection"
        /\ c[i].value \in {"OFFLINE", "CONNECTION_BROKEN"}
    BY <1>1 DEF Disconnections, Events
  <2>2. PICK k \in DOMAIN c : /\ k > i /\ c[k].topic = "connection"
                              /\ c[k].value = "ONLINE" /\ c[k].robot = c[i].robot
    BY <2>1
  <2>3. d.events[i].participant = <<c[i].robot>> /\ d.events[k].participant = <<c[i].robot>>
    BY <1>1, <1>2, <2>1, <2>2
  <2>4. SameKnownParticipant(d.events[i], d.events[k])
    BY <2>3 DEF SameKnownParticipant, Unknown
  <2> QED
    BY <1>1, <2>2, <2>4 DEF BackOnline, After, Events
<1>4. ReconnectFindings(d) = {}
  BY <1>3 DEF ReconnectFindings
<1> QED
  BY <1>4 DEF d

(* An unanswered request of a new base is the fleet's fault with the manifest, *)
(* and nobody's without.                                                       *)
LEMMA RequestVerdict ==
    ASSUME NEW c
    PROVE  /\ \A f \in BaseRequestFindings(PassiveContext(c)) : f.verdict # "FAIL"
           /\ \A f \in BaseRequestFindings(EvidenceContext(c)) :
                  /\ f.target \in {"FLEET_CONTROL", "UNRESOLVED"}
                  /\ f.verdict = "FAIL" => f.target = "FLEET_CONTROL"
                  /\ f.event \in DOMAIN c /\ c[f.event].topic = "state"
                  /\ c[f.event].value = "request"
<1>1. \A f \in BaseRequestFindings(PassiveContext(c)) : f.verdict # "FAIL"
  <2>1. \A i : ~AbsenceProvable(PassiveContext(c), i)
    BY DEF AbsenceProvable, PassiveContext
  <2> QED
    BY <2>1, FindingFields DEF BaseRequestFindings, GatedFinding
<1>2. ASSUME NEW f \in BaseRequestFindings(EvidenceContext(c))
      PROVE  /\ f.target \in {"FLEET_CONTROL", "UNRESOLVED"}
             /\ f.verdict = "FAIL" => f.target = "FLEET_CONTROL"
             /\ f.event \in DOMAIN c /\ c[f.event].topic = "state"
             /\ c[f.event].value = "request"
  <2>1. PICK i \in Events(EvidenceContext(c), "state") :
            /\ EvidenceContext(c).events[i].request
            /\ f = GatedFinding("LAB-D3-NEW-BASE-REQUEST", EvidenceContext(c), i,
                                "FLEET_CONTROL", TRUE)
    BY <1>2 DEF BaseRequestFindings
  <2>2. i \in DOMAIN c
    BY <2>1, EvidenceShape DEF Events
  <2>3. EvidenceContext(c).events[i].request <=> c[i].value = "request"
    BY <2>2 DEF EvidenceContext, EvidenceEvent, Event
  <2>4. c[i].topic = "state"
    BY <2>1, <2>2, EvidenceFields DEF Events
  <2>5. f.event = i /\ f.target \in {"FLEET_CONTROL", "UNRESOLVED"}
        /\ (f.verdict = "FAIL" => f.target = "FLEET_CONTROL")
    BY <2>1, FindingFields DEF GatedFinding
  <2> QED
    BY <2>1, <2>2, <2>3, <2>4, <2>5
<1> QED
  BY <1>1, <1>2
=============================================================================
